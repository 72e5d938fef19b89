--------------------------- MODULE Replies_proofs ---------------------------
(***************************************************************************)
(* The parsers stay in their blocks, read every field where the protocol   *)
(* puts it, report what they could not read, and undo what SetModTime does *)
(* to a date, for replies of every length, every bitmap and all counts,    *)
(* lengths and offsets a server can send.                                  *)
(*                                                                         *)
(* InBounds is not inductive: a read begins where the parser is, so the    *)
(* invariant also says that this is never before the block, and that what  *)
(* remains of a plan is a sequence of steps of known width.  Nor is        *)
(* ErrorsAreReported: that an error is returned depends on what remains of *)
(* the plan behind the read that failed.  FieldsInPlace needs two facts of *)
(* what remains: the fields of a block follow each other in its layout     *)
(* until the block is left (PlaceInv), and it is left before the next      *)
(* entry begins (DueInv).                                                  *)
(***************************************************************************)
EXTENDS Replies, TLAPS

\* The steps of the plans, and the fields they read.
Names == {"attributes", "parent", "created", "modified", "backup", "finder", "longName",
          "shortName", "node", "offspring", "owner", "group", "access", "dataLen", "rsrcLen",
          "extDataLen", "launchLimit", "utf8Name", "extRsrcLen", "unix"}
Labels == Names \cup
  {"take", "name", "check", "rest", "entries", "entry", "endBlock", "volumes", "volume",
   "volParams", "minimum", "serverName", "machineType", "list", "item", "option",
   "bitmaps", "isdir", "serverTime", "bitmap", "free", "total", "block", "id", "length"}
PlanStep == [op : Labels, f : Labels, w : Nat]

\* A plan put before another is a plan.
LEMMA Joined ==
  ASSUME NEW s \in Seq(PlanStep), NEW t \in Seq(PlanStep)
  PROVE  s \o t \in Seq(PlanStep)
OBVIOUS

\* What is left of a plan once its first step is done is a plan.
LEMMA Rested ==
  ASSUME NEW s \in Seq(PlanStep), s # <<>>
  PROVE  Tail(s) \in Seq(PlanStep) /\ Head(s) \in PlanStep
OBVIOUS

\* The head and the tail of a sequence of one.
LEMMA OnlyOne ==
  ASSUME NEW x
  PROVE  <<x>> # <<>> /\ Head(<<x>>) = x /\ Tail(<<x>>) = <<>>
OBVIOUS

\* What is left of a sequence without its first element.
LEMMA TailAt ==
  ASSUME NEW T, NEW s \in Seq(T), s # <<>>
  PROVE  /\ Tail(s) \in Seq(T) /\ Len(s) \in Nat \ {0} /\ Len(Tail(s)) = Len(s) - 1
         /\ Head(s) = s[1] /\ (Tail(s) # <<>> => Len(s) - 1 # 0)
         /\ \A i \in 1 .. Len(s) - 1 : Tail(s)[i] = s[i + 1]
OBVIOUS

\* And of one with at least two.
LEMMA TailIs ==
  ASSUME NEW T, NEW s \in Seq(T), Len(s) > 1
  PROVE  /\ s # <<>> /\ Head(s) = s[1] /\ Tail(s) # <<>> /\ Len(Tail(s)) = Len(s) - 1
         /\ \A i \in 1 .. Len(s) - 1 : Tail(s)[i] = s[i + 1]
OBVIOUS

\* parseEntryParams reads a field, or leaves it out, for each of its ifs.
LEMMA ParamIsPlan ==
  ASSUME NEW d, NEW f \in Labels, NEW w \in Nat
  PROVE  /\ Param(d, f, w) \in Seq(PlanStep)
         /\ NameParam(d, f, w) \in Seq(PlanStep)
<1>0. "take" \in Labels /\ "name" \in Labels
  BY DEF Labels
<1>1. Take(f, w) \in PlanStep
  BY <1>0 DEF Take, PlanStep
<1>2. [Take(f, w) EXCEPT !.op = "name"] \in PlanStep
  BY <1>0 DEF Take, PlanStep
<1>3. <<>> \in Seq(PlanStep) /\ \A s \in PlanStep : <<s>> \in Seq(PlanStep)
  OBVIOUS
<1>4. QED BY <1>1, <1>2, <1>3, Zenon DEF Param, NameParam

-----------------------------------------------------------------------------
(* Layouts and plans. *)

\* The bytes the i-th field of a layout takes up, and those of the first i.
Width(d, b, i) == IF Layout(d)[i][1] \in b THEN Layout(d)[i][2] ELSE 0
Sums(d, b) ==
  CHOOSE g : g = [i \in 0 .. Len(Layout(d)) |-> IF i = 0 THEN 0 ELSE g[i - 1] + Width(d, b, i)]

\* The layouts have 15 and 16 fields, each with a name of its own.
LEMMA LayoutIs ==
  /\ Len(Layout(TRUE)) = 15 /\ DOMAIN Layout(TRUE) = 1 .. 15
  /\ Len(Layout(FALSE)) = 16 /\ DOMAIN Layout(FALSE) = 1 .. 16
BY DEF Layout

LEMMA LayoutFields ==
  ASSUME NEW d \in BOOLEAN, NEW i \in DOMAIN Layout(d)
  PROVE  /\ Layout(d)[i][2] \in Nat
         /\ \A j \in DOMAIN Layout(d) : Layout(d)[i][1] = Layout(d)[j][1] => i = j
<1>1. \A k \in 1 .. 15 : Layout(TRUE)[k][2] \in Nat
  BY DEF Layout
<1>2. \A k \in 1 .. 16 : Layout(FALSE)[k][2] \in Nat
  BY DEF Layout
<1>3. \A k, n \in 1 .. 15 : Layout(TRUE)[k][1] = Layout(TRUE)[n][1] => k = n
  BY DEF Layout
<1>4. \A k, n \in 1 .. 16 : Layout(FALSE)[k][1] = Layout(FALSE)[n][1] => k = n
  BY DEF Layout
<1> QED
  BY <1>1, <1>2, <1>3, <1>4, LayoutIs, Zenon

\* Sums is defined: each sum gives the next, and there are sixteen.
LEMMA SumsExist ==
  ASSUME NEW d \in BOOLEAN, NEW b
  PROVE  \E g : g = [i \in 0 .. Len(Layout(d)) |-> IF i = 0 THEN 0 ELSE g[i - 1] + Width(d, b, i)]
<1> DEFINE W(i) == Width(d, b, i)
           E(n) == \E g : g = [i \in 0 .. n |-> IF i = 0 THEN 0 ELSE g[i - 1] + W(i)]
<1> HIDE DEF W
<1>1. E(0)
  <2> DEFINE h == [i \in 0 .. 0 |-> 0]
  <2>1. h = [i \in 0 .. 0 |-> IF i = 0 THEN 0 ELSE h[i - 1] + W(i)]
    OBVIOUS
  <2> QED BY <2>1, Zenon
<1>2. ASSUME NEW n \in Nat, E(n) PROVE E(n + 1)
  <2>1. PICK g : g = [i \in 0 .. n |-> IF i = 0 THEN 0 ELSE g[i - 1] + W(i)]
    BY <1>2
  <2> DEFINE h == [i \in 0 .. n + 1 |-> IF i <= n THEN g[i] ELSE g[n] + W(n + 1)]
  <2>2. \A i \in 0 .. n + 1 : h[i] = IF i = 0 THEN 0 ELSE h[i - 1] + W(i)
    <3>1. ASSUME NEW i \in 0 .. n PROVE h[i] = IF i = 0 THEN 0 ELSE h[i - 1] + W(i)
      <4>1. g[i] = IF i = 0 THEN 0 ELSE g[i - 1] + W(i)
        BY <2>1
      <4> QED BY <4>1
    <3>2. h[n + 1] = h[n] + W(n + 1) OBVIOUS
    <3>3. \A i \in 0 .. n + 1 : i \in 0 .. n \/ i = n + 1 OBVIOUS
    <3> QED BY <3>1, <3>2, <3>3
  <2>3. h = [i \in 0 .. n + 1 |-> IF i = 0 THEN 0 ELSE h[i - 1] + W(i)]
    BY <2>2
  <2> QED BY <2>3, Zenon
<1> HIDE DEF E
<1>3. E(0 + 1) /\ E(1 + 1) /\ E(2 + 1) /\ E(3 + 1) /\ E(4 + 1) /\ E(5 + 1) /\ E(6 + 1) /\ E(7 + 1)
  BY <1>1, <1>2
<1>4. E(15) /\ E(16)
  BY <1>2, <1>3
<1> QED
  <2>1. E(Len(Layout(d))) BY <1>4, LayoutIs, Zenon
  <2> QED BY <2>1 DEF E, W

\* What the definition says of them, and that they are numbers.
LEMMA SumsAre ==
  ASSUME NEW d \in BOOLEAN, NEW b
  PROVE  /\ Sums(d, b)[0] = 0
         /\ \A i \in DOMAIN Layout(d) : /\ Sums(d, b)[i] = Sums(d, b)[i - 1] + Width(d, b, i)
                                        /\ Sums(d, b)[i - 1] \in Nat /\ Width(d, b, i) \in Nat
<1> DEFINE g == Sums(d, b)
<1>0. PICK n \in {15, 16} : DOMAIN Layout(d) = 1 .. n /\ Len(Layout(d)) = n
  BY LayoutIs, Zenon
<1>1. g = [i \in 0 .. n |-> IF i = 0 THEN 0 ELSE g[i - 1] + Width(d, b, i)]
  BY <1>0, SumsExist, Zenon DEF Sums
<1> HIDE DEF g
<1>2. g[0] = 0
  BY <1>1
<1>3. \A i \in 1 .. n : g[i] = g[i - 1] + Width(d, b, i)
  BY <1>1
<1>4. \A i \in 1 .. n : Width(d, b, i) \in Nat
  BY <1>0, LayoutFields, Zenon DEF Width
<1> DEFINE N(i) == i <= n => g[i] \in Nat
<1>5. N(0)
  BY <1>2
<1>6. ASSUME NEW i \in Nat, N(i) PROVE N(i + 1)
  BY <1>3, <1>4, <1>6
<1> HIDE DEF N
<1>7. N(0 + 1) /\ N(1 + 1) /\ N(2 + 1) /\ N(3 + 1) /\ N(4 + 1) /\ N(5 + 1) /\ N(6 + 1) /\ N(7 + 1)
  BY <1>5, <1>6
<1>8. N(8) /\ N(9) /\ N(10) /\ N(11) /\ N(12) /\ N(13) /\ N(14) /\ N(15)
  BY <1>6, <1>7
<1>9. \A i \in 0 .. 15 : N(i)
  BY <1>5, <1>7, <1>8
<1>10. \A i \in 1 .. n : g[i - 1] \in Nat
  BY <1>9 DEF N
<1> QED
  BY <1>0, <1>2, <1>3, <1>4, <1>10, Zenon DEF g

\* A field lies behind those before it in the layout.
LEMMA OffsetAt ==
  ASSUME NEW d \in BOOLEAN, NEW b, NEW i \in DOMAIN Layout(d)
  PROVE  Offset(d, b, Layout(d)[i][1]) = Sums(d, b)[i - 1]
<1>1. i = CHOOSE j \in DOMAIN Layout(d) : Layout(d)[j][1] = Layout(d)[i][1]
  BY LayoutFields
<1>2. \A f : Offset(d, b, f) =
               Sums(d, b)[(CHOOSE j \in DOMAIN Layout(d) : Layout(d)[j][1] = f) - 1]
  BY DEF Offset, Sums, Width
<1> QED
  BY <1>1, <1>2, Zenon

\* A step that reads a field of a block, or the offset of a name.
Field(x) == x.op \in {"take", "name"}

\* The steps of s read fields that lie one behind the other, from offset p to q
\* of a block.
Segment(d, b, s, p, q) ==
  /\ \A i \in 1 .. Len(s) : Field(s[i]) /\ s[i].w \in Nat /\ Offset(d, b, s[i].f) \in Nat
  /\ \A i \in 1 .. Len(s) - 1 : Offset(d, b, s[i + 1].f) = Offset(d, b, s[i].f) + s[i].w
  /\ IF Len(s) = 0 THEN p = q
     ELSE p = Offset(d, b, s[1].f) /\ q = Offset(d, b, s[Len(s)].f) + s[Len(s)].w

\* What is read from p to q, and then from q to r, is read from p to r.
LEMMA SegmentsJoin ==
  ASSUME NEW T, NEW d, NEW b, NEW s \in Seq(T), NEW t \in Seq(T), NEW p, NEW q, NEW r,
         Segment(d, b, s, p, q), Segment(d, b, t, q, r)
  PROVE  Segment(d, b, s \o t, p, r)
<1> DEFINE u == s \o t
           n == Len(s)
           m == Len(t)
<1>1. /\ n \in Nat /\ m \in Nat /\ Len(u) = n + m
      /\ \A i \in 1 .. n : u[i] = s[i]
      /\ \A i \in 1 .. m : u[n + i] = t[i]
  OBVIOUS
<1>2. ASSUME NEW i \in 1 .. n + m PROVE i \in 1 .. n \/ \E j \in 1 .. m : i = n + j
  <2>1. CASE i <= n BY <2>1
  <2>2. CASE i > n
    <3>1. i - n \in 1 .. m /\ i = n + (i - n) BY <1>1, <2>2
    <3> QED BY <3>1
  <2> QED BY <1>1, <2>1, <2>2
<1> HIDE DEF u, n, m
<1>3. ASSUME NEW i \in 1 .. n + m
      PROVE  Field(u[i]) /\ u[i].w \in Nat /\ Offset(d, b, u[i].f) \in Nat
  <2>1. CASE i \in 1 .. n
    BY <1>1, <2>1, Zenon DEF Segment, n
  <2>2. CASE \E j \in 1 .. m : i = n + j
    BY <1>1, <2>2, Zenon DEF Segment, m
  <2> QED BY <1>2, <2>1, <2>2
<1>4. ASSUME NEW i \in 1 .. (n + m) - 1
      PROVE  Offset(d, b, u[i + 1].f) = Offset(d, b, u[i].f) + u[i].w
  <2>1. CASE i + 1 <= n
    <3>1. i \in 1 .. n - 1 /\ i \in 1 .. n /\ i + 1 \in 1 .. n BY <1>1, <2>1
    <3> QED BY <1>1, <3>1, Zenon DEF Segment, n
  <2>2. CASE i = n
    <3>1. n # 0 /\ m # 0 /\ n \in 1 .. n /\ 1 \in 1 .. m BY <1>1, <2>2
    <3>2. u[i] = s[n] /\ u[i + 1] = t[1] BY <1>1, <2>2, <3>1, Zenon
    <3>3. Offset(d, b, t[1].f) = Offset(d, b, s[n].f) + s[n].w
      BY <3>1, Zenon DEF Segment, n, m
    <3> QED BY <3>2, <3>3, Zenon
  <2>3. CASE i > n
    <3>1. PICK j \in 1 .. m - 1 : i = n + j
      <4>1. i - n \in 1 .. m - 1 /\ i = n + (i - n) BY <1>1, <2>3
      <4> QED BY <4>1
    <3>2. j \in 1 .. m /\ j + 1 \in 1 .. m /\ i + 1 = n + (j + 1) BY <1>1, <3>1
    <3>3. u[i] = t[j] /\ u[i + 1] = t[j + 1] BY <1>1, <3>1, <3>2, Zenon
    <3> QED BY <3>1, <3>3, Zenon DEF Segment, m
  <2> QED BY <1>1, <2>1, <2>2, <2>3
<1>5. IF n + m = 0 THEN p = r
      ELSE p = Offset(d, b, u[1].f) /\ r = Offset(d, b, u[n + m].f) + u[n + m].w
  <2>1. CASE n = 0 /\ m = 0
    <3>1. p = q /\ q = r BY <2>1, Zenon DEF Segment, n, m
    <3> QED BY <2>1, <3>1
  <2>2. CASE n = 0 /\ m # 0
    <3>1. 1 \in 1 .. m /\ m \in 1 .. m /\ n + m = m /\ n + 1 = 1 BY <1>1, <2>2
    <3>2. u[n + 1] = t[1] /\ u[n + m] = t[m] BY <1>1, <3>1, Zenon
    <3>3. u[1] = t[1] /\ n + m # 0 BY <2>2, <3>1, <3>2
    <3>4. q = Offset(d, b, t[1].f) /\ r = Offset(d, b, t[m].f) + t[m].w /\ p = q
      BY <2>2, Zenon DEF Segment, n, m
    <3> QED BY <3>2, <3>3, <3>4, Zenon
  <2>3. CASE n # 0 /\ m = 0
    <3>1. 1 \in 1 .. n /\ n \in 1 .. n /\ n + m = n BY <1>1, <2>3
    <3>2. u[1] = s[1] /\ u[n + m] = s[n] /\ n + m # 0 BY <1>1, <2>3, <3>1, Zenon
    <3> QED BY <2>3, <3>2, Zenon DEF Segment, n, m
  <2>4. CASE n # 0 /\ m # 0
    <3>1. 1 \in 1 .. n /\ m \in 1 .. m /\ n + m # 0 BY <1>1, <2>4
    <3>2. u[1] = s[1] /\ u[n + m] = t[m] BY <1>1, <3>1, Zenon
    <3> QED BY <2>4, <3>1, <3>2, Zenon DEF Segment, n, m
  <2> QED BY <2>1, <2>2, <2>3, <2>4
<1> QED
  <2>1. Len(u) = n + m BY <1>1
  <2>2. \A i \in 1 .. Len(u) : Field(u[i]) /\ u[i].w \in Nat /\ Offset(d, b, u[i].f) \in Nat
    BY <1>3, <2>1, Zenon
  <2>3. \A i \in 1 .. Len(u) - 1 : Offset(d, b, u[i + 1].f) = Offset(d, b, u[i].f) + u[i].w
    BY <1>4, <2>1, Zenon
  <2>4. IF Len(u) = 0 THEN p = r
        ELSE p = Offset(d, b, u[1].f) /\ r = Offset(d, b, u[Len(u)].f) + u[Len(u)].w
    BY <1>5, <2>1, Zenon
  <2>5. Segment(d, b, u, p, r) BY <2>2, <2>3, <2>4, Zenon DEF Segment
  <2> QED BY <2>5, Zenon DEF u

\* Param and NameParam read a field where the layout has it, or nothing.
LEMMA ParamSegment ==
  ASSUME NEW d \in BOOLEAN, NEW i \in DOMAIN Layout(d), NEW f, NEW w,
         Layout(d)[i][1] = f, Layout(d)[i][2] = w
  PROVE  /\ Segment(d, bits[d], Param(d, f, w), Sums(d, bits[d])[i - 1], Sums(d, bits[d])[i])
         /\ Segment(d, bits[d], NameParam(d, f, w), Sums(d, bits[d])[i - 1], Sums(d, bits[d])[i])
<1> DEFINE b == bits[d]
           p == Sums(d, b)[i - 1]
           q == Sums(d, b)[i]
<1>1. /\ p = Offset(d, b, f) /\ p \in Nat /\ w \in Nat
      /\ q = p + IF f \in b THEN w ELSE 0
  <2>1. p = Offset(d, b, f) BY OffsetAt, Zenon
  <2>2. q = p + Width(d, b, i) /\ p \in Nat BY SumsAre, Zenon
  <2>3. w \in Nat BY LayoutFields, Zenon
  <2>4. Width(d, b, i) = IF f \in b THEN w ELSE 0 BY Zenon DEF Width
  <2> QED BY <2>1, <2>2, <2>3, <2>4, Zenon
<1> HIDE DEF b, p, q
<1>2. CASE f \in b
  <2>1. ASSUME NEW x, x.op \in {"take", "name"}, x.f = f, x.w = w PROVE Segment(d, b, <<x>>, p, q)
    <3>1. Len(<<x>>) = 1 /\ <<x>>[1] = x OBVIOUS
    <3>2. Offset(d, b, x.f) = p /\ q = p + x.w BY <1>1, <1>2, <2>1, Zenon
    <3>3. 1 .. 1 = {1} /\ 1 .. 1 - 1 = {} OBVIOUS
    <3>4. x.w \in Nat BY <1>1, <2>1
    <3>5. \A k \in 1 .. Len(<<x>>) : <<x>>[k] = x BY <3>1, <3>3, Zenon
    <3>6. 1 .. Len(<<x>>) - 1 = {} /\ Len(<<x>>) # 0 BY <3>1
    <3>7. Field(x) /\ x.w \in Nat /\ Offset(d, b, x.f) \in Nat
      BY <1>1, <2>1, <3>2, <3>4, Zenon DEF Field
    <3>8. p = Offset(d, b, <<x>>[1].f)
          /\ q = Offset(d, b, <<x>>[Len(<<x>>)].f) + <<x>>[Len(<<x>>)].w
      BY <3>1, <3>2, Zenon
    <3>9. \A k \in 1 .. Len(<<x>>) - 1 :
             Offset(d, b, <<x>>[k + 1].f) = Offset(d, b, <<x>>[k].f) + <<x>>[k].w
      BY <3>6, Zenon
    <3> QED BY <3>5, <3>6, <3>7, <3>8, <3>9, Zenon DEF Segment
  <2>2. PICK x : x = Take(f, w)
    BY Zenon
  <2>3. PICK y : y = [x EXCEPT !.op = "name"]
    BY Zenon
  <2>4. Param(d, f, w) = <<x>> /\ NameParam(d, f, w) = <<y>>
    BY <1>2, <2>2, <2>3, Zenon DEF Param, NameParam, b
  <2>5. x.op \in {"take", "name"} /\ x.f = f /\ x.w = w
    BY <2>2 DEF Take
  <2>6. y.op \in {"take", "name"} /\ y.f = f /\ y.w = w
    BY <2>2, <2>3 DEF Take
  <2>7. Segment(d, b, <<x>>, p, q)
    BY <2>1, <2>5
  <2>8. Segment(d, b, <<y>>, p, q)
    BY <2>1, <2>6
  <2> QED BY <2>4, <2>7, <2>8, Zenon DEF b, p, q
<1>3. CASE f \notin b
  <2>1. Param(d, f, w) = <<>> /\ NameParam(d, f, w) = <<>> /\ p = q
    BY <1>1, <1>3 DEF Param, NameParam, b
  <2>2. Len(<<>>) = 0 /\ 1 .. 0 = {} /\ 1 .. 0 - 1 = {} OBVIOUS
  <2> QED BY <2>1, <2>2, Zenon DEF Segment, b, p, q
<1> QED BY <1>2, <1>3

\* A plan that reads the fields of the layout behind the i-th, up to the j-th.
Run(d, s, i, j) ==
  s \in Seq(PlanStep) /\ Segment(d, bits[d], s, Sums(d, bits[d])[i], Sums(d, bits[d])[j])

\* Such plans join, and the empty one reads none.
LEMMA RunsJoin ==
  ASSUME NEW d, NEW s, NEW t, NEW i, NEW j, NEW k, Run(d, s, i, j), Run(d, t, j, k)
  PROVE  Run(d, s \o t, i, k)
BY Joined, SegmentsJoin, Zenon DEF Run

LEMMA NoRun == ASSUME NEW d, NEW i PROVE Run(d, <<>>, i, i)
<1>1. <<>> \in Seq(PlanStep) /\ Len(<<>>) = 0 /\ 1 .. 0 = {} /\ 1 .. 0 - 1 = {} OBVIOUS
<1> QED BY <1>1, Zenon DEF Run, Segment

\* Field f, of w bytes, is the i-th of the layout, behind the j-th.
Slot(d, j, i, f, w) ==
  /\ i \in DOMAIN Layout(d) /\ j = i - 1
  /\ Layout(d)[i][1] = f /\ Layout(d)[i][2] = w /\ f \in Names

\* So an if of parseEntryParams reads the field its place in the layout has.
LEMMA ParamRun ==
  ASSUME NEW d \in BOOLEAN, NEW i, NEW j, NEW f, NEW w, Slot(d, j, i, f, w)
  PROVE  Run(d, Param(d, f, w), j, i) /\ Run(d, NameParam(d, f, w), j, i)
<1>1. f \in Labels /\ w \in Nat
  BY LayoutFields, Zenon DEF Slot, Labels
<1> QED
  BY <1>1, ParamIsPlan, ParamSegment, Zenon DEF Run, Slot

\* The ifs of parseEntryParams, one by one: each has its place in the layout.
LEMMA Slots ==
  ASSUME NEW d \in BOOLEAN
  PROVE  /\ Slot(d, 0, 1, "attributes", 2) /\ Slot(d, 1, 2, "parent", 4)
         /\ Slot(d, 2, 3, "created", 4) /\ Slot(d, 3, 4, "modified", 4)
         /\ Slot(d, 4, 5, "backup", 4) /\ Slot(d, 5, 6, "finder", 32)
         /\ Slot(d, 6, 7, "longName", 2) /\ Slot(d, 7, 8, "shortName", 2)
         /\ Slot(d, 8, 9, "node", 4) /\ Slot(d, 13, 14, "utf8Name", 6)
         /\ d => /\ Slot(d, 9, 10, "offspring", 2) /\ Slot(d, 10, 11, "owner", 4)
                 /\ Slot(d, 11, 12, "group", 4) /\ Slot(d, 12, 13, "access", 4)
                 /\ Slot(d, 14, 15, "unix", 16)
         /\ ~d => /\ Slot(d, 9, 10, "dataLen", 4) /\ Slot(d, 10, 11, "rsrcLen", 4)
                  /\ Slot(d, 11, 12, "extDataLen", 8) /\ Slot(d, 12, 13, "launchLimit", 2)
                  /\ Slot(d, 14, 15, "extRsrcLen", 8) /\ Slot(d, 15, 16, "unix", 16)
<1>1. CASE d = TRUE BY <1>1 DEF Layout, Slot, Names
<1>2. CASE d = FALSE BY <1>2 DEF Layout, Slot, Names
<1> QED BY <1>1, <1>2, Zenon

\* They come in the order of the layout, in blocks of either kind, and then
\* parseEntryParams returns.
LEMMA EntryRun ==
  ASSUME NEW d \in BOOLEAN
  PROVE  \E s, q : /\ s \in Seq(PlanStep) /\ Segment(d, bits[d], s, 0, q)
                   /\ EntryPlan(d) = s \o <<Step("endBlock")>>
<1>1. Run(d, CommonParams(d), 0, 9)
  <2>1. /\ Run(d, Param(d, "attributes", 2), 0, 1)
        /\ Run(d, Param(d, "parent", 4), 1, 2)
        /\ Run(d, Param(d, "created", 4), 2, 3)
        /\ Run(d, Param(d, "modified", 4), 3, 4)
        /\ Run(d, Param(d, "backup", 4), 4, 5)
        /\ Run(d, Param(d, "finder", 32), 5, 6)
        /\ Run(d, NameParam(d, "longName", 2), 6, 7)
        /\ Run(d, Param(d, "shortName", 2), 7, 8)
        /\ Run(d, Param(d, "node", 4), 8, 9)
    BY Slots, ParamRun, Zenon
  <2>2. Run(d, Param(d, "attributes", 2) \o Param(d, "parent", 4) \o Param(d, "created", 4)
               \o Param(d, "modified", 4) \o Param(d, "backup", 4), 0, 5)
    BY <2>1, RunsJoin, Zenon
  <2> QED BY <2>1, <2>2, RunsJoin, Zenon DEF CommonParams
<1>2. Run(d, NameParam(d, "utf8Name", 6), 13, 14)
  BY Slots, ParamRun, Zenon
<1>3. Run(d, IF d THEN DirParams(d) ELSE FileParams(d), 9, 13)
  <2>1. CASE d = TRUE
    <3>1. /\ Run(d, Param(d, "offspring", 2), 9, 10)
          /\ Run(d, Param(d, "owner", 4), 10, 11)
          /\ Run(d, Param(d, "group", 4), 11, 12)
          /\ Run(d, Param(d, "access", 4), 12, 13)
      BY <2>1, Slots, ParamRun, Zenon
    <3>2. Run(d, DirParams(d), 9, 13) BY <3>1, RunsJoin, Zenon DEF DirParams
    <3> QED BY <2>1, <3>2, Zenon
  <2>2. CASE d = FALSE
    <3>1. /\ Run(d, Param(d, "dataLen", 4), 9, 10)
          /\ Run(d, Param(d, "rsrcLen", 4), 10, 11)
          /\ Run(d, Param(d, "extDataLen", 8), 11, 12)
          /\ Run(d, Param(d, "launchLimit", 2), 12, 13)
      BY <2>2, Slots, ParamRun, Zenon
    <3>2. Run(d, FileParams(d), 9, 13) BY <3>1, RunsJoin, Zenon DEF FileParams
    <3> QED BY <2>2, <3>2, Zenon
  <2> QED BY <2>1, <2>2, Zenon
<1>4. \E n : Run(d, LastParams(d), 14, n)
  <2>1. CASE d = TRUE
    <3>1. Run(d, Param(d, "unix", 16), 14, 15) BY <2>1, Slots, ParamRun, Zenon
    <3>2. Run(d, <<>>, 14, 14) BY NoRun, Zenon
    <3>3. LastParams(d) = <<>> \o Param(d, "unix", 16) BY <2>1, Zenon DEF LastParams
    <3> QED BY <3>1, <3>2, <3>3, RunsJoin, Zenon
  <2>2. CASE d = FALSE
    <3>1. /\ Run(d, Param(d, "extRsrcLen", 8), 14, 15)
          /\ Run(d, Param(d, "unix", 16), 15, 16)
      BY <2>2, Slots, ParamRun, Zenon
    <3>2. LastParams(d) = Param(d, "extRsrcLen", 8) \o Param(d, "unix", 16)
      BY <2>2, Zenon DEF LastParams
    <3> QED BY <3>1, <3>2, RunsJoin, Zenon
  <2> QED BY <2>1, <2>2, Zenon
<1>5. PICK n : Run(d, LastParams(d), 14, n) BY <1>4, Zenon
<1> DEFINE s == CommonParams(d) \o (IF d THEN DirParams(d) ELSE FileParams(d))
                \o NameParam(d, "utf8Name", 6) \o LastParams(d)
<1>6. Run(d, s, 0, n)
  BY <1>1, <1>2, <1>3, <1>5, RunsJoin, Zenon
<1>7. EntryPlan(d) = s \o <<Step("endBlock")>>
  BY Zenon DEF EntryPlan
<1>8. Sums(d, bits[d])[0] = 0
  BY SumsAre, Zenon
<1> HIDE DEF s
<1> QED
  BY <1>6, <1>7, <1>8, Zenon DEF Run

\* With the step that returns it is a plan too.
LEMMA EntryIsPlan == ASSUME NEW d \in BOOLEAN PROVE EntryPlan(d) \in Seq(PlanStep)
<1>1. <<Step("endBlock")>> \in Seq(PlanStep)
  BY DEF Step, PlanStep, Labels
<1>2. QED BY <1>1, EntryRun, Joined

\* The items of a list are read by as many steps.
LEMMA RepeatIsPlan ==
  ASSUME NEW s \in Labels, NEW n \in Nat PROVE Repeat(s, n) \in Seq(PlanStep)
<1>1. Step(s) \in PlanStep BY DEF Step, PlanStep
<1>2. QED BY <1>1 DEF Repeat

\* So are the parameters of a volume.
LEMMA VolParamIsPlan ==
  ASSUME NEW s \in {<<Take("attributes", 2)>>, <<Take("id", 2)>>, <<>>} PROVE s \in Seq(PlanStep)
<1>1. Take("attributes", 2) \in PlanStep /\ Take("id", 2) \in PlanStep
  BY DEF Take, PlanStep, Labels, Names
<1>2. <<>> \in Seq(PlanStep) /\ \A x \in PlanStep : <<x>> \in Seq(PlanStep)
  OBVIOUS
<1>3. QED BY <1>1, <1>2, Zenon

\* Each parser starts with a plan.
LEMMA PlanIsPlan == ASSUME NEW k \in Kinds PROVE Plan(k) \in Seq(PlanStep)
<1>1. \A f \in Labels, n \in Nat : Take(f, n) \in PlanStep
  BY DEF Take, PlanStep, Labels
<1>2. \A f \in Labels : Step(f) \in PlanStep
  BY DEF Step, PlanStep
<1>3. Check \in PlanStep
  BY <1>2 DEF Check, Labels
<1>4. \A a, b, c, d, e \in PlanStep :
        /\ <<a>> \in Seq(PlanStep) /\ <<a, b>> \in Seq(PlanStep)
        /\ <<a, b, c>> \in Seq(PlanStep) /\ <<a, b, c, d>> \in Seq(PlanStep)
        /\ <<a, b, c, d, e>> \in Seq(PlanStep)
  OBVIOUS
<1>5. CASE k = "stat" BY <1>1, <1>2, <1>3, <1>4, <1>5, Zenon DEF Plan, Labels
<1>6. CASE k = "enumerate" BY <1>1, <1>2, <1>3, <1>4, <1>6, Zenon DEF Plan, Labels
<1>7. CASE k = "volumes" BY <1>1, <1>2, <1>4, <1>7 DEF Plan, Labels
<1>8. CASE k = "openVolume" BY <1>1, <1>2, <1>3, <1>4, <1>8, Zenon DEF Plan, Labels
<1>9. CASE k = "statFS" BY <1>1, <1>3, <1>4, <1>9, Zenon DEF Plan, Labels
<1>10. CASE k = "openFork" BY <1>1, <1>3, <1>4, <1>10, Zenon DEF Plan, Labels
<1>11. CASE k = "serverInfo" BY <1>2, <1>4, <1>11 DEF Plan, Labels
<1>12. CASE k = "openSession" BY <1>2, <1>4, <1>12 DEF Plan, Labels
<1>13. QED
  BY <1>5, <1>6, <1>7, <1>8, <1>9, <1>10, <1>11, <1>12 DEF Kinds

-----------------------------------------------------------------------------
(* Bounds. *)

BoundsInv ==
  /\ len \in Nat /\ lo \in Nat /\ hi \in Nat /\ pos \in Nat
  /\ lo <= pos
  /\ todo \in Seq(PlanStep)
  /\ InBounds

\* Every reply starts in bounds: nothing has been looked at.
LEMMA BoundsInit == Init => BoundsInv
<1> SUFFICES ASSUME Init PROVE BoundsInv OBVIOUS
<1>1. kind \in Kinds /\ len \in 0 .. MaxLen[kind] /\ todo = Plan(kind)
  BY DEF Init
<1>2. len \in Nat BY <1>1, RepliesAssumption
<1>3. todo \in Seq(PlanStep) BY <1>1, PlanIsPlan
<1>4. QED BY <1>2, <1>3 DEF Init, BoundsInv, InBounds

\* A parser that gives up, or goes on with its next step, keeps a plan.
LEMMA PlanKept ==
  ASSUME BoundsInv, todo # <<>>, Quit \/ GoOn
  PROVE  todo' \in Seq(PlanStep)
<1>1. <<>> \in Seq(PlanStep) OBVIOUS
<1>2. QED BY <1>1, Rested, Zenon DEF BoundsInv, Quit, GoOn

\* A string that pascalString accepts lies in the block.
LEMMA PascalInBounds ==
  ASSUME BoundsInv, todo # <<>>, NEW s \in Nat, lo <= s, PascalString(s),
         UNCHANGED <<len, lo, hi>>
  PROVE  BoundsInv'
<1>1. PICK n \in StringLens :
        IF s >= hi \/ Overruns(s, 1, n) THEN Quit /\ seen' = {} /\ UNCHANGED pos
                                        ELSE GoOn /\ seen' = s .. s + n /\ pos' = s + 1 + n
  BY DEF PascalString
<1>2. n \in Nat BY RepliesAssumption
<1>3. todo' \in Seq(PlanStep) BY <1>1, PlanKept
<1>4. QED BY <1>1, <1>2, <1>3 DEF BoundsInv, InBounds, Overruns

\* A new block lies in the reply, and the parser is at its start.
LEMMA BlockInBounds ==
  ASSUME BoundsInv, todo # <<>>, NEW d \in BOOLEAN, NEW a \in Nat, NEW b \in Nat, b <= len,
         Block(d, a, b), seen' = {}, UNCHANGED len
  PROVE  BoundsInv'
<1>1. todo' \in Seq(PlanStep)
  BY EntryIsPlan, Joined, Rested DEF Block, BoundsInv
<1>2. QED BY <1>1 DEF Block, BoundsInv, InBounds

\* Every read of every parser stays in bounds.
LEMMA BoundsStep == BoundsInv /\ [Next]_vars => BoundsInv'
<1> SUFFICES ASSUME BoundsInv, [Next]_vars PROVE BoundsInv' OBVIOUS
<1>1. CASE TakeField
  <2>1. todo # <<>> /\ Head(todo).w \in Nat
    BY <1>1, Rested, Zenon DEF TakeField, At, BoundsInv, PlanStep
  <2>2. todo' \in Seq(PlanStep)
    BY <1>1, <2>1, PlanKept DEF TakeField
  <2>3. QED BY <1>1, <2>1, <2>2 DEF TakeField, Fits, Advance, Fail, BoundsInv, InBounds
<1>2. CASE CheckErr
  <2>1. todo' \in Seq(PlanStep)
    BY <1>2, PlanKept DEF CheckErr, At
  <2>2. QED BY <1>2, <2>1 DEF CheckErr, BoundsInv, InBounds
<1>3. CASE Name
  <2>1. todo # <<>> /\ Head(todo).w \in Nat
    BY <1>3, Rested, Zenon DEF Name, At, BoundsInv, PlanStep
  <2>2. todo' \in Seq(PlanStep)
    BY <1>3, <2>1, PlanKept DEF Name
  <2>3. UNCHANGED <<len, lo, hi>> /\ pos' \in {pos, pos + Head(todo).w}
    BY <1>3 DEF Name, Fail
  <2>4. seen' \subseteq lo .. hi - 1
    <3>1. CASE seen' = {} BY <3>1
    <3>2. CASE seen' # {}
      <4>1. PICK off \in 0 .. hi - lo + 1, n \in StringLens, size \in {1, 2}, hint \in {0, 4} :
              /\ ~Overruns(lo + off + hint, size, n)
              /\ seen' = lo + off + hint .. lo + off + hint + size + n - 1
        BY <1>3, <3>2 DEF Name, Fail
      <4>2. n \in Nat BY RepliesAssumption
      <4>3. QED BY <4>1, <4>2 DEF Overruns, BoundsInv
    <3>3. QED BY <3>1, <3>2
  <2>5. QED BY <2>1, <2>2, <2>3, <2>4 DEF BoundsInv, InBounds
<1>4. CASE Rest
  <2>1. PICK d \in BOOLEAN : Block(d, pos, len)
    BY <1>4 DEF Rest
  <2>2. QED BY <1>4, <2>1, BlockInBounds DEF Rest, At, BoundsInv
<1>5. CASE Entry
  <2>1. PICK length \in 0 .. len + 1, d \in BOOLEAN :
          IF Fits(4) /\ length >= 4 /\ pos + length <= hi
            THEN Block(d, pos + 4, pos + length) /\ due' = due + length
            ELSE Quit /\ UNCHANGED <<isDir, lo, hi, pos, at, due>>
    BY <1>5 DEF Entry
  <2>2. todo # <<>> /\ seen' = {} /\ UNCHANGED len
    BY <1>5 DEF Entry, At
  <2>3. CASE Fits(4) /\ length >= 4 /\ pos + length <= hi
    <3>1. pos + 4 \in Nat /\ pos + length \in Nat /\ pos + length <= len
      BY <2>3 DEF BoundsInv, InBounds
    <3>2. QED BY <2>1, <2>2, <2>3, <3>1, BlockInBounds
  <2>4. CASE ~(Fits(4) /\ length >= 4 /\ pos + length <= hi)
    <3>1. todo' \in Seq(PlanStep) BY <2>1, <2>2, <2>4, PlanKept
    <3>2. QED BY <2>1, <2>2, <2>4, <3>1 DEF BoundsInv, InBounds
  <2>5. QED BY <2>3, <2>4
<1>6. CASE EndBlock
  <2>1. todo' \in Seq(PlanStep)
    BY <1>6, PlanKept DEF EndBlock, At
  <2>2. QED BY <1>6, <2>1 DEF EndBlock, BoundsInv, InBounds
<1>7. ASSUME NEW op, NEW w \in Nat, NEW item \in Labels, Count(op, w, item) PROVE BoundsInv'
  <2>1. Tail(todo) \in Seq(PlanStep)
    BY <1>7, Rested DEF Count, At, BoundsInv
  <2>2. todo' \in Seq(PlanStep)
    <3>1. CASE todo' = Tail(todo) BY <2>1, <3>1
    <3>2. CASE \E n \in 0 .. MaxItems : todo' = Repeat(item, n) \o Tail(todo)
      <4>1. PICK n \in 0 .. MaxItems : todo' = Repeat(item, n) \o Tail(todo)
        BY <3>2, Zenon
      <4>2. n \in Nat BY RepliesAssumption
      <4>3. QED BY <1>7, <2>1, <4>1, <4>2, RepeatIsPlan, Joined
    <3>3. QED BY <1>7, <3>1, <3>2, Zenon DEF Count
  <2>3. QED BY <1>7, <2>2 DEF Count, Fits, Advance, Fail, BoundsInv, InBounds
<1>8. CASE Volume
  <2>1. PICK n \in StringLens :
          IF Fits(2 + n) THEN Advance(2 + n) /\ GoOn ELSE Fail /\ Quit
    BY <1>8 DEF Volume
  <2>2. n \in Nat BY RepliesAssumption
  <2>3. todo' \in Seq(PlanStep)
    BY <1>8, <2>1, PlanKept DEF Volume, At
  <2>4. QED
    BY <1>8, <2>1, <2>2, <2>3 DEF Volume, Fits, Advance, Fail, BoundsInv, InBounds
<1>9. CASE VolParams
  <2>1. PICK s, t \in {<<Take("attributes", 2)>>, <<Take("id", 2)>>, <<>>} :
          todo' = s \o t \o Tail(todo)
    BY <1>9, Zenon DEF VolParams
  <2>2. s \in Seq(PlanStep) /\ t \in Seq(PlanStep)
    BY <2>1, VolParamIsPlan, Zenon
  <2>3. todo' \in Seq(PlanStep)
    BY <1>9, <2>1, <2>2, Joined, Rested, Zenon DEF VolParams, At, BoundsInv
  <2>4. QED BY <1>9, <2>3 DEF VolParams, BoundsInv, InBounds
<1>10. CASE Minimum
  <2>1. todo' \in Seq(PlanStep)
    BY <1>10, PlanKept DEF Minimum, At
  <2>2. QED BY <1>10, <2>1 DEF Minimum, BoundsInv, InBounds
<1>11. CASE ServerName
  <2>1. lo + 10 \in Nat /\ lo <= lo + 10 BY DEF BoundsInv
  <2>2. QED BY <1>11, <2>1, PascalInBounds DEF ServerName, At
<1>12. CASE MachineType
  <2>1. PICK off \in 0 .. len + 1 : PascalString(lo + off)
    BY <1>12 DEF MachineType
  <2>2. lo + off \in Nat /\ lo <= lo + off BY DEF BoundsInv
  <2>3. QED BY <1>12, <2>1, <2>2, PascalInBounds DEF MachineType, At
<1>13. CASE List
  <2>1. todo # <<>> /\ UNCHANGED <<len, lo, hi>>
    BY <1>13 DEF List, At
  <2>2. CASE (GoOn \/ Quit) /\ seen' = {} /\ UNCHANGED pos
    <3>1. todo' \in Seq(PlanStep) BY <2>1, <2>2, PlanKept
    <3>2. QED BY <2>1, <2>2, <3>1 DEF BoundsInv, InBounds
  <2>3. CASE \E off \in 1 .. len + 1, n \in 0 .. MaxItems :
               /\ ~(off >= hi - lo) /\ pos' = lo + off + 1 /\ seen' = {lo + off}
               /\ todo' = Repeat("item", n) \o Tail(todo)
    <3>1. PICK off \in 1 .. len + 1, n \in 0 .. MaxItems :
               /\ ~(off >= hi - lo) /\ pos' = lo + off + 1 /\ seen' = {lo + off}
               /\ todo' = Repeat("item", n) \o Tail(todo)
      BY <2>3, Zenon
    <3>2. n \in Nat /\ "item" \in Labels BY RepliesAssumption DEF Labels
    <3>3. todo' \in Seq(PlanStep)
      BY <2>1, <3>1, <3>2, RepeatIsPlan, Joined, Rested DEF BoundsInv
    <3>4. QED BY <2>1, <3>1, <3>3 DEF BoundsInv, InBounds
  <2>4. QED BY <1>13, <2>2, <2>3, Zenon DEF List
<1>14. CASE Item
  BY <1>14, PascalInBounds DEF Item, At, BoundsInv
<1>15. CASE Option
  <2>1. PICK n \in StringLens :
          IF pos + 2 > hi THEN GoOn /\ seen' = {} /\ UNCHANGED pos
          ELSE IF pos + 2 + n > hi THEN Quit /\ seen' = {} /\ UNCHANGED pos
          ELSE pos' = pos + 2 + n /\ seen' = pos .. pos + 1 + n /\ UNCHANGED <<todo, ret>>
    BY <1>15 DEF Option
  <2>2. n \in Nat BY RepliesAssumption
  <2>3. todo' \in Seq(PlanStep)
    <3>1. CASE Quit \/ GoOn BY <1>15, <3>1, PlanKept DEF Option, At
    <3>2. CASE todo' = todo BY <3>2 DEF BoundsInv
    <3>3. QED BY <2>1, <3>1, <3>2
  <2>4. QED BY <1>15, <2>1, <2>2, <2>3 DEF Option, BoundsInv, InBounds
<1>16. CASE Return
  BY <1>16 DEF Return, BoundsInv, InBounds
<1>17. CASE UNCHANGED vars
  BY <1>17 DEF vars, BoundsInv, InBounds
<1>18. "entry" \in Labels /\ "volume" \in Labels
  BY DEF Labels
<1>19. QED
  BY <1>1, <1>2, <1>3, <1>4, <1>5, <1>6, <1>7, <1>8, <1>9, <1>10, <1>11, <1>12, <1>13,
     <1>14, <1>15, <1>16, <1>17, <1>18 DEF Next

\* Whatever the server sends, and whatever was asked for, a parser looks only at
\* bytes of the block it is in: the checks of reader.take, pascalAt, pascal2At,
\* pascalString, pascalList and OpenSession suffice.
THEOREM StaysInBounds == Spec => []InBounds
<1>1. BoundsInv => InBounds BY DEF BoundsInv
<1>2. QED BY <1>1, BoundsInit, BoundsStep, PTL DEF Spec
-----------------------------------------------------------------------------
(* Errors. *)

\* The steps that may set reader.err, or lead to one that does, and go on; and
\* those that look at it.
Reads == {"take", "name", "entries", "volumes", "volParams"}
Looks == {"check", "endBlock"}

Looked(t) == \E i \in 1 .. Len(t) : t[i].op \in Looks
Sealed(t) ==
  \A i \in 1 .. Len(t) : t[i].op \in Reads => \E j \in i .. Len(t) : t[j].op \in Looks

\* Every read that may fail is followed by a look at the error, and once there
\* is an error a look at it is still to come, or it was returned.
SealedInv ==
  kind # "volumes" =>
    /\ Sealed(todo)
    /\ err /\ ret = "none" => Looked(todo)
    /\ err => ret # "nil"

\* The list of volumes is the exception: its count is read without a look.
VolumesInv ==
  kind = "volumes" =>
    /\ hi = len
    /\ \/ /\ pos = 0 /\ ~err /\ ret = "none" /\ Len(todo) = 2
          /\ todo[1].op = "take" /\ todo[1].w = 4 /\ todo[2].op = "volumes"
       \/ /\ pos = 4 \/ (err /\ len < 5)
          /\ err => len < 5
          /\ ret = "none" /\ Len(todo) = 1 /\ todo[1].op = "volumes"
       \/ /\ err => len < 5 \/ ret = "err"
          /\ \A i \in 1 .. Len(todo) : todo[i].op = "volume"

ErrorInv == BoundsInv /\ kind \in Kinds /\ SealedInv /\ VolumesInv

\* A plan put before another keeps what follows each of their reads.
LEMMA SealedJoined ==
  ASSUME NEW s \in Seq(PlanStep), NEW t \in Seq(PlanStep)
  PROVE  /\ Looked(t) => Looked(s \o t)
         /\ (Sealed(s) \/ Looked(t)) /\ Sealed(t) => Sealed(s \o t)
<1>1. /\ Len(s) \in Nat /\ Len(t) \in Nat /\ Len(s \o t) = Len(s) + Len(t)
      /\ \A i \in 1 .. Len(s) : (s \o t)[i] = s[i]
      /\ \A i \in 1 .. Len(t) : (s \o t)[i + Len(s)] = t[i]
  OBVIOUS
<1>2. ASSUME Looked(t) PROVE Looked(s \o t)
  <2>1. PICK i \in 1 .. Len(t) : t[i].op \in Looks BY <1>2 DEF Looked
  <2>2. i + Len(s) \in 1 .. Len(s \o t) /\ (s \o t)[i + Len(s)].op \in Looks BY <1>1, <2>1
  <2>3. QED BY <2>2 DEF Looked
<1>3. ASSUME Sealed(s) \/ Looked(t), Sealed(t), NEW i \in 1 .. Len(s \o t), (s \o t)[i].op \in Reads
      PROVE  \E j \in i .. Len(s \o t) : (s \o t)[j].op \in Looks
  <2>1. CASE i \in 1 .. Len(s)
    <3>1. CASE Sealed(s)
      <4>1. s[i].op \in Reads BY <1>1, <1>3, <2>1
      <4>2. PICK j \in i .. Len(s) : s[j].op \in Looks BY <2>1, <3>1, <4>1 DEF Sealed
      <4>3. j \in i .. Len(s \o t) /\ (s \o t)[j] = s[j] BY <1>1, <2>1, <4>2
      <4>4. QED BY <4>2, <4>3
    <3>2. CASE Looked(t)
      <4>1. PICK j \in 1 .. Len(t) : t[j].op \in Looks BY <3>2 DEF Looked
      <4>2. j + Len(s) \in i .. Len(s \o t) /\ (s \o t)[j + Len(s)] = t[j] BY <1>1, <2>1, <4>1
      <4>3. QED BY <4>1, <4>2
    <3>3. QED BY <1>3, <3>1, <3>2
  <2>2. CASE i \notin 1 .. Len(s)
    <3>1. PICK k \in 1 .. Len(t) : i = k + Len(s)
      <4>1. i - Len(s) \in 1 .. Len(t) /\ i = (i - Len(s)) + Len(s) BY <1>1, <2>2
      <4>2. QED BY <4>1, Zenon
    <3>2. t[k].op \in Reads BY <1>1, <1>3, <3>1
    <3>3. PICK j \in k .. Len(t) : t[j].op \in Looks BY <1>3, <3>2 DEF Sealed
    <3>4. j + Len(s) \in i .. Len(s \o t) /\ (s \o t)[j + Len(s)] = t[j] BY <1>1, <3>1, <3>3
    <3>5. QED BY <3>3, <3>4
  <2>3. QED BY <2>1, <2>2
<1>4. QED BY <1>2, <1>3 DEF Sealed

\* What is left of a plan once its first step is done.
LEMMA SealedTail ==
  ASSUME NEW t \in Seq(PlanStep), t # <<>>
  PROVE  /\ Sealed(t) => Sealed(Tail(t))
         /\ Looked(t) /\ Head(t).op \notin Looks => Looked(Tail(t))
         /\ Sealed(t) /\ Head(t).op \in Reads => Looked(Tail(t))
<1>1. /\ Len(t) \in Nat \ {0} /\ Len(Tail(t)) = Len(t) - 1 /\ Head(t) = t[1]
      /\ \A i \in 1 .. Len(t) - 1 : Tail(t)[i] = t[i + 1]
  OBVIOUS
<1>2. ASSUME Looked(t), Head(t).op \notin Looks PROVE Looked(Tail(t))
  <2>1. PICK i \in 1 .. Len(t) : t[i].op \in Looks BY <1>2 DEF Looked
  <2>2. i # 1 BY <1>1, <1>2, <2>1
  <2>3. i - 1 \in 1 .. Len(t) - 1 /\ (i - 1) + 1 = i BY <1>1, <2>2
  <2>4. i - 1 \in 1 .. Len(Tail(t)) /\ Tail(t)[i - 1] = t[i] BY <1>1, <2>3
  <2>5. QED BY <2>1, <2>4, Zenon DEF Looked
<1>3. ASSUME Sealed(t), Head(t).op \in Reads PROVE Looked(Tail(t))
  <2>1. Head(t).op \notin Looks BY <1>3 DEF Reads, Looks
  <2>2. Looked(t)
    <3>1. 1 \in 1 .. Len(t) /\ t[1].op \in Reads BY <1>1, <1>3
    <3>2. QED BY <1>3, <3>1 DEF Sealed, Looked
  <2>3. QED BY <1>2, <2>1, <2>2
<1>4. ASSUME Sealed(t), NEW i \in 1 .. Len(Tail(t)), Tail(t)[i].op \in Reads
      PROVE  \E j \in i .. Len(Tail(t)) : Tail(t)[j].op \in Looks
  <2>1. i + 1 \in 1 .. Len(t) /\ t[i + 1].op \in Reads BY <1>1, <1>4
  <2>2. PICK j \in i + 1 .. Len(t) : t[j].op \in Looks BY <1>4, <2>1 DEF Sealed
  <2>3. j - 1 \in i .. Len(Tail(t)) /\ j - 1 \in 1 .. Len(t) - 1 /\ (j - 1) + 1 = j
    BY <1>1, <2>2
  <2>4. Tail(t)[j - 1] = t[j] BY <1>1, <2>3
  <2>5. QED BY <2>2, <2>3, <2>4, Zenon
<1>5. QED BY <1>2, <1>3, <1>4 DEF Sealed

\* The steps for the items of a list do not set reader.err, or return it.
LEMMA RepeatSealed ==
  ASSUME NEW s \in Labels \ Reads, NEW n \in Nat PROVE Sealed(Repeat(s, n))
<1>1. Len(Repeat(s, n)) = n BY DEF Repeat
<1>2. \A i \in 1 .. n : Repeat(s, n)[i].op = s BY DEF Repeat, Step
<1>3. QED BY <1>1, <1>2 DEF Sealed

\* parseEntryParams looks at the error when it has read all.
LEMMA EntrySealed ==
  ASSUME NEW d \in BOOLEAN PROVE Sealed(EntryPlan(d)) /\ Looked(EntryPlan(d))
<1> DEFINE last == <<Step("endBlock")>>
           t    == EntryPlan(d)
<1>1. t \in Seq(PlanStep) BY EntryIsPlan
<1>2. PICK s \in Seq(PlanStep) : t = s \o last
  BY EntryRun, Zenon
<1>3. Len(t) \in Nat \ {0} /\ t[Len(t)].op = "endBlock"
  <2>1. Step("endBlock") \in PlanStep BY DEF Step, PlanStep, Labels
  <2>2. Len(t) = Len(s) + 1 /\ t[Len(s) + 1] = Step("endBlock") BY <1>2, <2>1
  <2>3. QED BY <2>2 DEF Step
<1>4. QED BY <1>3 DEF Sealed, Looked, Looks

\* But for the list of volumes, every parser looks at the error.
LEMMA PlanSealed ==
  ASSUME NEW k \in Kinds, k # "volumes" PROVE Sealed(Plan(k))
<1>1. CASE k = "stat"
  <2>1. Plan(k) = <<Take("bitmaps", 4), Take("isdir", 2), Check, Step("rest")>>
    BY <1>1, Zenon DEF Plan
  <2>2. QED BY <2>1 DEF Sealed, Take, Check, Step, Reads, Looks
<1>2. CASE k = "enumerate"
  <2>1. Plan(k) = <<Take("bitmaps", 4), Step("entries"), Check>>
    BY <1>2, Zenon DEF Plan
  <2>2. QED BY <2>1 DEF Sealed, Take, Check, Step, Reads, Looks
<1>3. CASE k = "openVolume"
  <2>1. Plan(k) = <<Take("bitmap", 2), Step("volParams"), Check>>
    BY <1>3, Zenon DEF Plan
  <2>2. QED BY <2>1 DEF Sealed, Take, Check, Step, Reads, Looks
<1>4. CASE k = "statFS"
  <2>1. Plan(k) = <<Take("bitmap", 2), Take("free", 8), Take("total", 8), Take("block", 4),
                    Check>>
    BY <1>4, Zenon DEF Plan
  <2>2. QED BY <2>1 DEF Sealed, Take, Check, Step, Reads, Looks
<1>5. CASE k = "openFork"
  <2>1. Plan(k) = <<Take("bitmap", 2), Take("id", 2), Take("length", 8), Check>>
    BY <1>5, Zenon DEF Plan
  <2>2. QED BY <2>1 DEF Sealed, Take, Check, Step, Reads, Looks
<1>6. CASE k = "serverInfo"
  <2>1. Plan(k) = <<Step("minimum"), Step("serverName"), Step("machineType"), Step("list"),
                    Step("list")>>
    BY <1>6, Zenon DEF Plan
  <2>2. QED BY <2>1 DEF Sealed, Step, Reads, Looks
<1>7. CASE k = "openSession"
  <2>1. Plan(k) = <<Step("option")>>
    BY <1>7, Zenon DEF Plan
  <2>2. QED BY <2>1 DEF Sealed, Step, Reads, Looks
<1>8. QED BY <1>1, <1>2, <1>3, <1>4, <1>5, <1>6, <1>7 DEF Kinds

\* The first step is replaced by steps that are looked at.
Unfolds == UNCHANGED ret /\ \E s \in Seq(PlanStep) : Sealed(s) /\ todo' = s \o Tail(todo)

\* A parser that has given up, or goes on with a step that need not be looked
\* at, or with new steps that are looked at, reports its errors.
LEMMA SealedStep ==
  ASSUME BoundsInv, SealedInv, kind # "volumes", todo # <<>>, ret = "none", UNCHANGED kind,
         \/ Quit
         \/ /\ GoOn \/ Unfolds
            /\ \/ Head(todo).op \in Reads
               \/ err' = err /\ (Head(todo).op \in Looks => ~err)
  PROVE  SealedInv'
<1>1. CASE Quit
  BY <1>1 DEF SealedInv, Quit, Sealed
<1>2. CASE /\ GoOn \/ Unfolds
           /\ \/ Head(todo).op \in Reads
              \/ err' = err /\ (Head(todo).op \in Looks => ~err)
  <2>1. ret' = "none" BY <1>2 DEF GoOn, Unfolds
  <2>2. todo \in Seq(PlanStep) /\ Tail(todo) \in Seq(PlanStep) BY Rested DEF BoundsInv
  <2>3. Sealed(todo) /\ (err => Looked(todo)) BY DEF SealedInv
  <2>4. Sealed(Tail(todo)) /\ (err' => Looked(Tail(todo)))
    BY <1>2, <2>2, <2>3, SealedTail
  <2>5. Sealed(todo') /\ (err' => Looked(todo'))
    <3>1. CASE GoOn BY <2>4, <3>1 DEF GoOn
    <3>2. CASE Unfolds BY <2>2, <2>4, <3>2, SealedJoined, Zenon DEF Unfolds
    <3>3. QED BY <1>2, <3>1, <3>2
  <2>6. QED BY <2>1, <2>5 DEF SealedInv, Sealed, Looked
<1>3. QED BY <1>1, <1>2

\* Every step of every parser but that of ListVolumes.
LEMMA SealedNext ==
  ASSUME BoundsInv, SealedInv, kind # "volumes", Next PROVE SealedInv'
<1>1. CASE TakeField
  <2>1. At("take") /\ GoOn /\ UNCHANGED kind BY <1>1 DEF TakeField
  <2>2. Head(todo).op \in Reads BY <2>1 DEF At, Reads
  <2>3. QED BY <2>1, <2>2, SealedStep DEF At
<1>2. CASE CheckErr
  <2>1. At("check") /\ (IF err THEN Quit ELSE GoOn) /\ UNCHANGED <<kind, err>>
    BY <1>2 DEF CheckErr
  <2>2. QED BY <2>1, SealedStep DEF At
<1>3. CASE Name
  <2>1. At("name") /\ (Quit \/ GoOn) /\ UNCHANGED kind BY <1>3 DEF Name
  <2>2. Head(todo).op \in Reads BY <2>1 DEF At, Reads
  <2>3. QED BY <2>1, <2>2, SealedStep DEF At
<1>4. ASSUME NEW op, op \notin Looks, At(op), UNCHANGED <<kind, err>>, NEW d \in BOOLEAN,
             NEW a, NEW b, Block(d, a, b)
      PROVE  SealedInv'
  <2>1. EntryPlan(d) \in Seq(PlanStep) /\ Sealed(EntryPlan(d))
    BY EntryIsPlan, EntrySealed
  <2>2. UNCHANGED ret /\ todo' = EntryPlan(d) \o Tail(todo) BY <1>4 DEF Block
  <2>3. todo # <<>> /\ ret = "none" /\ Head(todo).op \notin Looks BY <1>4 DEF At
  <2>4. QED BY <1>4, <2>1, <2>2, <2>3, SealedStep, Zenon DEF Unfolds
<1>5. CASE Rest
  <2>1. At("rest") /\ UNCHANGED <<kind, err>> /\ "rest" \notin Looks
    BY <1>5 DEF Rest, Looks
  <2>2. PICK d \in BOOLEAN : Block(d, pos, len) BY <1>5 DEF Rest
  <2>3. QED BY <1>4, <2>1, <2>2
<1>6. CASE Entry
  <2>1. At("entry") /\ UNCHANGED <<kind, err>> /\ "entry" \notin Looks
    BY <1>6 DEF Entry, Looks
  <2>2. Quit \/ \E d \in BOOLEAN, a, b \in Int : Block(d, a, b)
    <3>1. PICK length \in 0 .. len + 1, d \in BOOLEAN :
            IF Fits(4) /\ length >= 4 /\ pos + length <= hi
              THEN Block(d, pos + 4, pos + length) /\ due' = due + length
              ELSE Quit /\ UNCHANGED <<isDir, lo, hi, pos, at, due>>
      BY <1>6 DEF Entry
    <3>2. pos + 4 \in Int /\ pos + length \in Int BY DEF BoundsInv
    <3>3. QED BY <3>1, <3>2
  <2>3. CASE Quit BY <2>1, <2>3, SealedStep DEF At
  <2>4. QED BY <1>4, <2>1, <2>2, <2>3
<1>7. CASE EndBlock
  <2>1. At("endBlock") /\ (IF err THEN Quit ELSE GoOn) /\ UNCHANGED <<kind, err>>
    BY <1>7 DEF EndBlock
  <2>2. QED BY <2>1, SealedStep DEF At
<1>8. ASSUME NEW op \in Reads, NEW w, NEW item \in Labels \ Reads, Count(op, w, item)
      PROVE  SealedInv'
  <2>1. At(op) /\ UNCHANGED <<kind, ret>> BY <1>8 DEF Count
  <2>2. Head(todo).op \in Reads /\ todo # <<>> /\ ret = "none" BY <1>8, <2>1 DEF At
  <2>3. CASE todo' = Tail(todo) BY <2>1, <2>2, <2>3, SealedStep DEF GoOn
  <2>4. CASE \E n \in 0 .. MaxItems : todo' = Repeat(item, n) \o Tail(todo)
    <3>1. PICK n \in 0 .. MaxItems : todo' = Repeat(item, n) \o Tail(todo) BY <2>4, Zenon
    <3>2. n \in Nat BY RepliesAssumption
    <3>3. Repeat(item, n) \in Seq(PlanStep) /\ Sealed(Repeat(item, n))
      BY <3>2, RepeatIsPlan, RepeatSealed
    <3>4. QED BY <2>1, <2>2, <3>1, <3>3, SealedStep, Zenon DEF Unfolds
  <2>5. QED BY <1>8, <2>3, <2>4, Zenon DEF Count
<1>9. CASE Volume
  <2>1. At("volume") /\ (Quit \/ (GoOn /\ err' = err)) /\ UNCHANGED kind
    BY <1>9 DEF Volume, Advance
  <2>2. Head(todo).op \notin Looks BY <2>1 DEF At, Looks
  <2>3. QED BY <2>1, <2>2, SealedStep DEF At
<1>10. CASE VolParams
  <2>1. At("volParams") /\ UNCHANGED <<kind, err, ret>> BY <1>10 DEF VolParams
  <2>2. Head(todo).op \in Reads /\ todo # <<>> /\ ret = "none" BY <2>1 DEF At, Reads
  <2>3. PICK s \in Seq(PlanStep) : todo' = s \o Tail(todo)
    <3>1. PICK s, t \in {<<Take("attributes", 2)>>, <<Take("id", 2)>>, <<>>} :
            todo' = s \o t \o Tail(todo)
      BY <1>10, Zenon DEF VolParams
    <3>2. s \in Seq(PlanStep) /\ t \in Seq(PlanStep)
      BY <3>1, VolParamIsPlan, Zenon
    <3>3. QED BY <3>1, <3>2, Joined, Zenon
  <2>4. todo \in Seq(PlanStep) /\ Tail(todo) \in Seq(PlanStep)
    BY <2>2, Rested DEF BoundsInv
  <2>5. Sealed(Tail(todo)) /\ Looked(Tail(todo))
    BY <2>2, <2>4, SealedTail DEF SealedInv
  <2>6. Sealed(todo') /\ Looked(todo')
    BY <2>3, <2>4, <2>5, SealedJoined, Zenon
  <2>7. QED BY <2>1, <2>2, <2>6 DEF SealedInv, Sealed, Looked
<1>11. CASE Minimum \/ ServerName \/ MachineType \/ Item
  <2>1. /\ At("minimum") \/ At("serverName") \/ At("machineType") \/ At("item")
        /\ Quit \/ GoOn
        /\ UNCHANGED <<kind, err>>
    BY <1>11 DEF Minimum, ServerName, MachineType, Item, PascalString
  <2>2. Head(todo).op \notin Looks /\ todo # <<>> /\ ret = "none" BY <2>1 DEF At, Looks
  <2>3. QED BY <2>1, <2>2, SealedStep
<1>12. CASE List
  <2>1. At("list") /\ UNCHANGED <<kind, err>> BY <1>12 DEF List
  <2>2. Head(todo).op \notin Looks /\ todo # <<>> /\ ret = "none" BY <2>1 DEF At, Looks
  <2>3. CASE Quit \/ GoOn BY <2>1, <2>2, <2>3, SealedStep
  <2>4. CASE UNCHANGED ret /\ \E n \in 0 .. MaxItems : todo' = Repeat("item", n) \o Tail(todo)
    <3>1. PICK n \in 0 .. MaxItems : todo' = Repeat("item", n) \o Tail(todo) BY <2>4, Zenon
    <3>2. n \in Nat /\ "item" \in Labels \ Reads BY RepliesAssumption DEF Labels, Reads
    <3>3. Repeat("item", n) \in Seq(PlanStep) /\ Sealed(Repeat("item", n))
      BY <3>2, RepeatIsPlan, RepeatSealed
    <3>4. QED BY <2>1, <2>2, <2>4, <3>1, <3>3, SealedStep, Zenon DEF Unfolds
  <2>5. QED BY <1>12, <2>3, <2>4 DEF List
<1>13. CASE Option
  <2>1. At("option") /\ (Quit \/ GoOn \/ UNCHANGED <<todo, ret>>) /\ UNCHANGED <<kind, err>>
    BY <1>13 DEF Option
  <2>2. Head(todo).op \notin Looks /\ todo # <<>> /\ ret = "none" BY <2>1 DEF At, Looks
  <2>3. CASE UNCHANGED <<todo, ret>> BY <2>1, <2>3 DEF SealedInv, Sealed, Looked
  <2>4. QED BY <2>1, <2>2, <2>3, SealedStep
<1>14. CASE Return
  <2>1. ~err
    BY <1>14 DEF Return, SealedInv, Looked
  <2>2. QED BY <1>14, <2>1 DEF Return, SealedInv, Sealed, Looked
<1>15. /\ "entries" \in Reads /\ "volumes" \in Reads
       /\ "entry" \in Labels \ Reads /\ "volume" \in Labels \ Reads
  BY Zenon DEF Labels, Reads
<1>16. QED
  BY <1>1, <1>2, <1>3, <1>5, <1>6, <1>7, <1>8, <1>9, <1>10, <1>11, <1>12, <1>13, <1>14,
     <1>15 DEF Next

\* The steps of ListVolumes are three.
LEMMA VolumesSteps ==
  ASSUME Next, todo # <<>>
  PROVE  /\ ret = "none"
         /\ Head(todo).op = "take" => TakeField
         /\ Head(todo).op = "volumes" => Count("volumes", 1, "volume")
         /\ Head(todo).op = "volume" => Volume
BY DEF Next, TakeField, CheckErr, Name, Rest, Entry, EndBlock, Count, Volume, VolParams, Minimum,
       ServerName, MachineType, List, Item, Option, Return, At

\* ListVolumes: an error that is not returned is that of a reply without a count.
LEMMA VolumesNext ==
  ASSUME BoundsInv, VolumesInv, kind = "volumes", Next PROVE VolumesInv'
<1>1. todo \in Seq(PlanStep) /\ hi = len /\ len \in Nat /\ pos \in Nat
  BY DEF BoundsInv, VolumesInv
<1>2. CASE todo = <<>>
  <2>1. Return
    BY <1>2, Zenon DEF Next, TakeField, CheckErr, Name, Rest, Entry, EndBlock, Count, Volume, VolParams,
       Minimum, ServerName, MachineType, List, Item, Option, At
  <2>2. err => len < 5 \/ ret = "err" BY <1>2 DEF VolumesInv
  <2>3. /\ hi' = hi /\ len' = len /\ err' = err /\ todo' = todo
        /\ ret = "none" /\ Len(todo) = 0
    BY <1>2, <2>1 DEF Return
  <2>4. (err' => len' < 5 \/ ret' = "err") /\ hi' = len'
    BY <1>1, <2>2, <2>3
  <2>5. \A i \in 1 .. Len(todo') : todo'[i].op = "volume"
    BY <2>3
  <2>6. QED BY <2>4, <2>5, Zenon DEF VolumesInv
<1>3. CASE /\ pos = 0 /\ ~err /\ ret = "none" /\ Len(todo) = 2
           /\ todo[1].op = "take" /\ todo[1].w = 4 /\ todo[2].op = "volumes"
  <2>0. /\ Len(todo) = 2 /\ todo[1].op = "take" /\ todo[1].w = 4 /\ todo[2].op = "volumes"
        /\ pos = 0 /\ ret = "none"
    BY <1>3, Zenon
  <2>1. todo # <<>> /\ Head(todo) = todo[1]
    <3>1. todo \in Seq(PlanStep) /\ Len(todo) = 2 BY <1>1, <2>0, Zenon
    <3>2. todo # <<>> BY <3>1
    <3>3. QED BY <3>1, <3>2
  <2>2. Head(todo).op = "take" /\ Head(todo).w = 4 BY <2>0, <2>1, Zenon
  <2>3. TakeField BY <2>1, <2>2, VolumesSteps, Zenon
  <2>4. Len(todo') = 1 /\ todo'[1].op = "volumes" /\ ret' = "none" /\ kind' = kind
    <3>1. todo' = Tail(todo) /\ ret' = ret /\ kind' = kind
      BY <2>3, Zenon DEF TakeField, GoOn
    <3>2. todo \in Seq(PlanStep) /\ Len(todo) = 2 BY <1>1, <2>0, Zenon
    <3>3. Len(todo) > 1 /\ 1 \in 1 .. Len(todo) - 1 BY <3>2
    <3>4. Len(Tail(todo)) = Len(todo) - 1 /\ Tail(todo)[1] = todo[1 + 1]
      BY <3>2, <3>3, TailIs, Zenon
    <3>5. Len(todo) - 1 = 1 /\ 1 + 1 = 2 BY <3>2
    <3>6. QED BY <2>0, <3>1, <3>4, <3>5, Zenon
  <2>5. hi' = hi /\ len' = len BY <2>3, Zenon DEF TakeField
  <2>6. (pos' = 4 /\ ~err') \/ (err' /\ len < 5)
    <3>1. CASE Fits(4)
      <4>1. Advance(4) BY <2>2, <2>3, <3>1, Zenon DEF TakeField
      <4>2. pos' = 4 BY <2>0, <4>1 DEF Advance
      <4>3. ~err' BY <1>3, <4>1, Zenon DEF Advance
      <4>4. QED BY <4>2, <4>3
    <3>2. CASE ~Fits(4)
      <4>1. err' BY <2>2, <2>3, <3>2, Zenon DEF TakeField, Fail
      <4>2. ~(pos + 4 <= hi) BY <1>3, <3>2, Zenon DEF Fits
      <4>3. len < 5 BY <1>1, <2>0, <4>2
      <4>4. QED BY <4>1, <4>3
    <3>3. QED BY <3>1, <3>2
  <2>7. QED BY <1>1, <2>4, <2>5, <2>6 DEF VolumesInv
<1>4. CASE /\ pos = 4 \/ (err /\ len < 5)
           /\ err => len < 5
           /\ ret = "none" /\ Len(todo) = 1 /\ todo[1].op = "volumes"
  <2>0. Len(todo) = 1 /\ todo[1].op = "volumes" BY <1>4, Zenon
  <2>1. /\ todo # <<>> /\ Head(todo) = todo[1]
        /\ Tail(todo) \in Seq(PlanStep) /\ Len(Tail(todo)) = 0
    <3>0. Len(todo) = 1 BY <2>0, Zenon
    <3>1. todo # <<>> BY <3>0
    <3>2. Head(todo) = todo[1] /\ Len(Tail(todo)) = Len(todo) - 1 BY <1>1, <3>1
    <3>3. QED BY <1>1, <2>0, <3>1, <3>2, Rested
  <2>2. Head(todo).op = "volumes" BY <2>0, <2>1
  <2>3. Count("volumes", 1, "volume") BY <2>1, <2>2, VolumesSteps
  <2>4. kind' = kind /\ hi' = hi /\ len' = len /\ ret' = ret BY <2>3 DEF Count
  <2>5. err' => len < 5
    <3>1. CASE Fits(1)
      <4>1. ~err' BY <2>3, <3>1, Zenon DEF Count, Advance, Fits
      <4>2. QED BY <4>1
    <3>2. CASE ~Fits(1)
      <4>1. CASE err BY <1>4, <4>1
      <4>2. CASE ~err
        <5>1. pos = 4 BY <1>4, <4>2, Zenon
        <5>2. ~(pos + 1 <= hi) BY <3>2, <4>2, Zenon DEF Fits
        <5>3. QED BY <1>1, <5>1, <5>2
      <4>3. QED BY <4>1, <4>2
    <3>3. QED BY <3>1, <3>2
  <2>6. \A i \in 1 .. Len(todo') : todo'[i].op = "volume"
    <3>1. CASE todo' = Tail(todo) BY <2>1, <3>1
    <3>2. CASE \E n \in 0 .. MaxItems : todo' = Repeat("volume", n) \o Tail(todo)
      <4>1. PICK n \in 0 .. MaxItems : todo' = Repeat("volume", n) \o Tail(todo) BY <3>2
      <4>2. n \in Nat /\ "volume" \in Labels BY RepliesAssumption DEF Labels
      <4>3. Repeat("volume", n) \in Seq(PlanStep) BY <4>2, RepeatIsPlan
      <4>4. Len(Repeat("volume", n)) = n /\ \A i \in 1 .. n : Repeat("volume", n)[i].op = "volume"
        BY <4>2 DEF Repeat, Step
      <4>5. Len(todo') = n /\ \A i \in 1 .. n : todo'[i] = Repeat("volume", n)[i]
        <5>1. \A s, t \in Seq(PlanStep) : Len(t) = 0 =>
                Len(s \o t) = Len(s) /\ \A i \in 1 .. Len(s) : (s \o t)[i] = s[i]
          OBVIOUS
        <5>2. QED BY <2>1, <4>1, <4>3, <4>4, <5>1, Zenon
      <4>6. QED BY <4>4, <4>5
    <3>3. QED BY <2>3, <3>1, <3>2, Zenon DEF Count
  <2>7. QED BY <1>1, <2>4, <2>5, <2>6 DEF VolumesInv
<1>5. CASE /\ todo # <<>>
           /\ err => len < 5 \/ ret = "err"
           /\ \A i \in 1 .. Len(todo) : todo[i].op = "volume"
  <2>1. Head(todo).op = "volume" BY <1>1, <1>5
  <2>2. ret = "none" /\ Volume BY <1>5, <2>1, VolumesSteps
  <2>3. kind' = kind /\ hi' = hi /\ len' = len BY <2>2 DEF Volume
  <2>4. (GoOn /\ err' = err) \/ Quit BY <2>2 DEF Volume, Advance
  <2>5. err' => len < 5 \/ ret' = "err" BY <1>5, <2>2, <2>4, Zenon DEF Quit, GoOn
  <2>6. \A i \in 1 .. Len(todo') : todo'[i].op = "volume"
    <3>1. CASE Quit BY <3>1 DEF Quit
    <3>2. CASE GoOn
      <4>1. todo' = Tail(todo) BY <3>2 DEF GoOn
      <4>2. QED BY <1>1, <1>5, <4>1
    <3>3. QED BY <2>4, <3>1, <3>2
  <2>7. QED BY <1>1, <2>3, <2>5, <2>6 DEF VolumesInv
<1>6. QED BY <1>2, <1>3, <1>4, <1>5 DEF VolumesInv

\* Nothing has failed at first, and the plans of all parsers look at errors.
LEMMA ErrorInit == Init => ErrorInv
<1> SUFFICES ASSUME Init PROVE ErrorInv OBVIOUS
<1>1. kind \in Kinds /\ todo = Plan(kind) /\ ~err /\ ret = "none" /\ pos = 0 /\ hi = len
  BY DEF Init
<1>2. SealedInv BY <1>1, PlanSealed DEF SealedInv
<1>3. VolumesInv
  <2>1. kind = "volumes" => todo = <<Take("serverTime", 4), Step("volumes")>>
    BY <1>1, Zenon DEF Plan
  <2>2. kind = "volumes" =>
          Len(todo) = 2 /\ todo[1].op = "take" /\ todo[1].w = 4 /\ todo[2].op = "volumes"
    <3>1. PICK a, b : a = Take("serverTime", 4) /\ b = Step("volumes") OBVIOUS
    <3>2. a.op = "take" /\ a.w = 4 /\ b.op = "volumes" BY <3>1 DEF Take, Step
    <3>3. kind = "volumes" => todo = <<a, b>> BY <2>1, <3>1, Zenon
    <3>4. kind = "volumes" => Len(todo) = 2 /\ todo[1] = a /\ todo[2] = b BY <3>3
    <3>5. QED BY <3>2, <3>4, Zenon
  <2>3. QED BY <1>1, <2>2, Zenon DEF VolumesInv
<1>4. QED BY <1>1, <1>2, <1>3, BoundsInit DEF ErrorInv

\* No step forgets an error.
LEMMA ErrorStep == ErrorInv /\ [Next]_vars => ErrorInv'
<1> SUFFICES ASSUME ErrorInv, [Next]_vars PROVE ErrorInv' OBVIOUS
<1>1. BoundsInv' BY BoundsStep DEF ErrorInv
<1>2. kind' = kind
  BY Zenon DEF Next, TakeField, CheckErr, Name, Rest, Entry, EndBlock, Count, Volume, VolParams,
     Minimum, ServerName, MachineType, List, Item, Option, Return, vars
<1>3. CASE Next
  <2>1. CASE kind = "volumes"
    <3>1. SealedInv' BY <1>2, <2>1 DEF SealedInv
    <3>2. VolumesInv' BY <1>3, <2>1, VolumesNext DEF ErrorInv
    <3>3. QED BY <1>1, <1>2, <3>1, <3>2 DEF ErrorInv
  <2>2. CASE kind # "volumes"
    <3>1. SealedInv' BY <1>3, <2>2, SealedNext DEF ErrorInv
    <3>2. VolumesInv' BY <1>2, <2>2 DEF VolumesInv
    <3>3. QED BY <1>1, <1>2, <3>1, <3>2 DEF ErrorInv
  <2>3. QED BY <2>1, <2>2
<1>4. CASE UNCHANGED vars
  BY <1>1, <1>4 DEF vars, ErrorInv, SealedInv, Sealed, Looked, VolumesInv
<1>5. QED BY <1>3, <1>4

\* OpenSession reads options until less than two bytes are left.
OptionInv ==
  kind = "openSession" =>
    /\ hi = len
    /\ \/ todo = <<Step("option")>> /\ ret = "none"
       \/ todo = <<>> /\ (ret = "err" \/ pos + 2 > hi)

LEMMA OptionInit == Init => OptionInv
<1> SUFFICES ASSUME Init, kind = "openSession" PROVE OptionInv BY DEF OptionInv
<1>1. todo = <<Step("option")>> BY Zenon DEF Init, Plan
<1>2. QED BY <1>1 DEF Init, OptionInv

\* The loop ends with an error or with at most one byte left.
LEMMA OptionNext == BoundsInv /\ OptionInv /\ [Next]_vars => OptionInv'
<1> SUFFICES ASSUME BoundsInv, OptionInv, [Next]_vars PROVE OptionInv' OBVIOUS
<1>1. kind' = kind
  BY Zenon DEF Next, TakeField, CheckErr, Name, Rest, Entry, EndBlock, Count, Volume, VolParams,
     Minimum, ServerName, MachineType, List, Item, Option, Return, vars
<1>2. CASE kind # "openSession" BY <1>1, <1>2 DEF OptionInv
<1>3. CASE UNCHANGED vars BY <1>3 DEF vars, OptionInv
<1>4. CASE kind = "openSession" /\ Next /\ todo = <<>>
  <2>1. Return
    BY <1>4, Zenon DEF Next, TakeField, CheckErr, Name, Rest, Entry, EndBlock, Count, Volume,
       VolParams, Minimum, ServerName, MachineType, List, Item, Option, At
  <2>2. /\ ret = "none" /\ hi' = hi /\ len' = len /\ pos' = pos /\ todo' = todo
    BY <2>1 DEF Return
  <2>3. hi = len /\ pos + 2 > hi BY <1>4, <2>2 DEF OptionInv
  <2>4. QED BY <1>4, <2>2, <2>3 DEF OptionInv
<1>5. CASE kind = "openSession" /\ Next /\ todo # <<>>
  <2>1. todo = <<Step("option")>> /\ ret = "none" /\ hi = len BY <1>5, Zenon DEF OptionInv
  <2>2. todo # <<>> /\ Head(todo).op = "option" /\ Tail(todo) = <<>>
    <3>1. Step("option").op = "option" BY DEF Step
    <3>2. QED BY <2>1, <3>1, OnlyOne, Zenon
  <2>3. Option
    BY <1>5, <2>2, Zenon DEF Next, TakeField, CheckErr, Name, Rest, Entry, EndBlock, Count, Volume,
       VolParams, Minimum, ServerName, MachineType, List, Item, Return, At
  <2>4. hi' = hi /\ len' = len BY <2>3 DEF Option
  <2>5. CASE pos + 2 > hi
    <3>1. GoOn /\ pos' = pos BY <2>3, <2>5 DEF Option
    <3>2. todo' = <<>> BY <2>2, <3>1, Zenon DEF GoOn
    <3>3. QED BY <2>1, <2>4, <2>5, <3>1, <3>2 DEF OptionInv
  <2>6. CASE ~(pos + 2 > hi)
    <3>1. Quit \/ UNCHANGED <<todo, ret>> BY <2>3, <2>6 DEF Option
    <3>2. QED BY <2>1, <2>4, <3>1 DEF OptionInv, Quit
  <2>7. QED BY <2>5, <2>6
<1>6. QED BY <1>2, <1>3, <1>4, <1>5

\* A failed read is reported, whatever the reply's length, bitmap and counts, but
\* for a list of volumes without a count: the looks at r.err in Stat, Enumerate,
\* OpenVolume, StatFS and OpenFork, and in the loop of ListVolumes, come behind
\* every read that may fail. Of OpenSession's options at most a single byte is
\* left unread.
THEOREM ErrorsAreReturned == Spec => []ErrorsAreReported
<1>1. ErrorInv /\ OptionInv => ErrorsAreReported
  <2> SUFFICES ASSUME ErrorInv, OptionInv, ret = "nil"
               PROVE  /\ err => kind = "volumes" /\ len < 5
                      /\ kind = "openSession" => len - pos <= 1
    BY DEF ErrorsAreReported
  <2>1. err => kind = "volumes" /\ len < 5
    BY DEF ErrorInv, SealedInv, VolumesInv
  <2>2. kind = "openSession" => len - pos <= 1
    BY DEF ErrorInv, BoundsInv, OptionInv
  <2>3. QED BY <2>1, <2>2
<1>2. ErrorInv => BoundsInv BY DEF ErrorInv
<1>3. QED BY <1>1, <1>2, ErrorInit, ErrorStep, OptionInit, OptionNext, PTL DEF Spec

-----------------------------------------------------------------------------
(* Dates. *)

DateInv == mtime \in Int /\ got \in {mtime, AfpDate(DateField(mtime))}

\* 32 bits hold the seconds from half of their range before the epoch to half
\* of it behind, and afpDate undoes what SetModTime does.
LEMMA DateUndone ==
  ASSUME NEW t \in Int, t - Epoch \in -(Span \div 2) .. Span \div 2 - 1
  PROVE  AfpDate(DateField(t)) = t
<1> DEFINE x == t - Epoch
<1>1. PICK h \in 1 .. Span : Span = 2 * h BY RepliesAssumption
<1>2. h \in Nat /\ h > 0 /\ Span \in Nat /\ Epoch \in Int /\ x \in Int BY <1>1, RepliesAssumption
<1>3. Span \div 2 = h BY <1>1, <1>2
<1>4. CASE x \in 0 .. h - 1
  <2>1. x % Span = x BY <1>1, <1>2, <1>4
  <2>2. QED BY <1>2, <1>3, <1>4, <2>1 DEF AfpDate, DateField, Signed
<1>5. CASE x \in -h .. -1
  <2>1. x % Span = x + Span BY <1>1, <1>2, <1>5
  <2>2. QED BY <1>1, <1>2, <1>3, <1>5, <2>1 DEF AfpDate, DateField, Signed
<1>6. QED BY <1>2, <1>3, <1>4, <1>5

\* Only the read of a modification date sets the time of an entry.
LEMMA DateStep == DateInv /\ [Next]_vars => DateInv'
<1> SUFFICES ASSUME DateInv, [Next]_vars PROVE DateInv' OBVIOUS
<1>1. mtime' = mtime /\ got' \in {got, AfpDate(DateField(mtime))}
  BY Zenon DEF Next, TakeField, CheckErr, Name, Rest, Entry, EndBlock, Count, Volume, VolParams,
     Minimum, ServerName, MachineType, List, Item, Option, Return, vars
<1>2. QED BY <1>1, Zenon DEF DateInv, AfpDate, DateField, Signed

\* For every epoch, every even range and every time that the range holds, on
\* either side of the epoch, the modification time SetModTime sends is read back
\* by afpDate as it was set.
THEOREM DatesReadBack == Spec => []DateReadsBack
<1>1. Init => DateInv
  <2> SUFFICES ASSUME Init PROVE DateInv OBVIOUS
  <2>1. mtime \in Times \cup {Epoch} /\ got = mtime BY Zenon DEF Init
  <2>2. QED BY <2>1, RepliesAssumption DEF DateInv
<1>2. DateInv => DateReadsBack
  BY DateUndone DEF DateInv, DateReadsBack
<1>3. QED BY <1>1, <1>2, DateStep, PTL DEF Spec
-----------------------------------------------------------------------------
(* Fields. *)

\* s reads the rest of a block, field by field, and then leaves it.
Laid(d, b, s) ==
  \E n \in 1 .. Len(s) :
    /\ s[n].op = "endBlock"
    /\ \A i \in 1 .. n - 1 :
         /\ Field(s[i]) /\ s[i].w \in Nat /\ Offset(d, b, s[i].f) \in Nat
         /\ i < n - 1 => Offset(d, b, s[i + 1].f) = Offset(d, b, s[i].f) + s[i].w

\* In a block, the parser is where the next field lies.
PlaceInv ==
  lo > 0 /\ todo # <<>> =>
    /\ \A a \in at : a[2] = lo + Offset(isDir, bits[isDir], a[1])
    /\ Laid(isDir, bits[isDir], todo)
    /\ ~err /\ Field(todo[1]) => pos = lo + Offset(isDir, bits[isDir], todo[1].f)

\* What parseEntryParams reads in a block, and then what was left to do.
LEMMA LaidBlock ==
  ASSUME NEW T, NEW d, NEW b, NEW s \in Seq(T), NEW t \in Seq(T), NEW e \in T, NEW q,
         Segment(d, b, s, 0, q), e.op = "endBlock"
  PROVE  LET u == s \o <<e>> \o t
         IN  Laid(d, b, u) /\ u # <<>> /\ (Field(u[1]) => Offset(d, b, u[1].f) = 0)
<1> DEFINE u == s \o <<e>> \o t
           n == Len(s)
<1>1. /\ n \in Nat /\ n + 1 \in 1 .. Len(u) /\ u \in Seq(T)
      /\ u[n + 1] = e /\ \A i \in 1 .. n : u[i] = s[i]
  OBVIOUS
<1> HIDE DEF u, n
<1>2. ASSUME NEW i \in 1 .. (n + 1) - 1
      PROVE  /\ Field(u[i]) /\ u[i].w \in Nat /\ Offset(d, b, u[i].f) \in Nat
             /\ i < (n + 1) - 1 => Offset(d, b, u[i + 1].f) = Offset(d, b, u[i].f) + u[i].w
  <2>1. i \in 1 .. n /\ u[i] = s[i]
    BY <1>1
  <2>2. Field(s[i]) /\ s[i].w \in Nat /\ Offset(d, b, s[i].f) \in Nat
    BY <2>1, Zenon DEF Segment, n
  <2>3. ASSUME i < (n + 1) - 1
        PROVE  Offset(d, b, u[i + 1].f) = Offset(d, b, u[i].f) + u[i].w
    <3>1. i \in 1 .. n - 1 /\ u[i + 1] = s[i + 1]
      BY <1>1, <2>1, <2>3
    <3>2. Offset(d, b, s[i + 1].f) = Offset(d, b, s[i].f) + s[i].w
      BY <3>1, Zenon DEF Segment, n
    <3> QED BY <2>1, <3>1, <3>2, Zenon
  <2> QED BY <2>1, <2>2, <2>3, Zenon
<1>3. Laid(d, b, u)
  BY <1>1, <1>2, Zenon DEF Laid
<1>4. u # <<>>
  BY <1>1
<1>5. Field(u[1]) => Offset(d, b, u[1].f) = 0
  <2>1. CASE n = 0
    <3>1. u[1] = e BY <1>1, <2>1
    <3> QED BY <3>1 DEF Field
  <2>2. CASE n # 0
    <3>1. u[1] = s[1] BY <1>1, <2>2
    <3>2. Offset(d, b, s[1].f) = 0 BY <2>2, Zenon DEF Segment, n
    <3> QED BY <3>1, <3>2, Zenon
  <2> QED BY <2>1, <2>2
<1> QED
  BY <1>3, <1>4, <1>5, Zenon DEF u

\* A field that has been read leaves the rest of the block, behind it.
LEMMA LaidTail ==
  ASSUME NEW T, NEW d, NEW b, NEW s \in Seq(T), Laid(d, b, s), s[1].op # "endBlock"
  PROVE  /\ s # <<>> /\ Head(s) = s[1] /\ Tail(s) # <<>> /\ Field(s[1])
         /\ s[1].w \in Nat /\ Offset(d, b, s[1].f) \in Nat
         /\ Laid(d, b, Tail(s))
         /\ Field(Tail(s)[1]) => Offset(d, b, Tail(s)[1].f) = Offset(d, b, s[1].f) + s[1].w
<1>1. PICK n \in 1 .. Len(s) :
    /\ s[n].op = "endBlock"
    /\ \A i \in 1 .. n - 1 :
         /\ Field(s[i]) /\ s[i].w \in Nat /\ Offset(d, b, s[i].f) \in Nat
         /\ i < n - 1 => Offset(d, b, s[i + 1].f) = Offset(d, b, s[i].f) + s[i].w
  BY Zenon DEF Laid
<1>2. n # 1
  BY <1>1, Zenon
<1>3. n - 1 \in 1 .. Len(s) - 1 /\ 1 \in 1 .. n - 1
  BY <1>2
<1>4. /\ s # <<>> /\ Head(s) = s[1] /\ Tail(s) # <<>> /\ Len(Tail(s)) = Len(s) - 1
      /\ \A i \in 1 .. Len(s) - 1 : Tail(s)[i] = s[i + 1]
  <2>1. Len(s) > 1 BY <1>3
  <2> QED BY <2>1, TailIs, Zenon
<1>5. Laid(d, b, Tail(s))
  <2>1. Tail(s)[n - 1].op = "endBlock"
    <3>1. Tail(s)[n - 1] = s[n] BY <1>3, <1>4
    <3> QED BY <1>1, <3>1, Zenon
  <2>2. ASSUME NEW i \in 1 .. (n - 1) - 1
        PROVE  /\ Field(Tail(s)[i]) /\ Tail(s)[i].w \in Nat /\ Offset(d, b, Tail(s)[i].f) \in Nat
               /\ i < (n - 1) - 1 =>
                    Offset(d, b, Tail(s)[i + 1].f) = Offset(d, b, Tail(s)[i].f) + Tail(s)[i].w
    <3>1. /\ i + 1 \in 1 .. n - 1 /\ Tail(s)[i] = s[i + 1]
          /\ i < (n - 1) - 1 => i + 1 < n - 1 /\ Tail(s)[i + 1] = s[(i + 1) + 1]
      BY <1>3, <1>4
    <3> QED BY <1>1, <3>1, Zenon
  <2> QED BY <1>3, <1>4, <2>1, <2>2, Zenon DEF Laid
<1>6. ASSUME Field(Tail(s)[1]) PROVE Offset(d, b, Tail(s)[1].f) = Offset(d, b, s[1].f) + s[1].w
  <2>1. Tail(s)[1] = s[1 + 1] BY <1>3, <1>4
  <2>2. n # 1 + 1 BY <1>1, <1>6, <2>1 DEF Field
  <2>3. 1 < n - 1 BY <1>3, <2>2
  <2> QED BY <1>1, <1>3, <2>1, <2>3, Zenon
<1> QED
  BY <1>1, <1>3, <1>4, <1>5, <1>6, Zenon

\* No parser starts in a block.
LEMMA PlaceInit == Init => PlaceInv
BY DEF Init, PlaceInv

\* Rest and Entry begin a block, and at its first field.
LEMMA BlockPlaced ==
  ASSUME BoundsInv, todo # <<>>, NEW d \in BOOLEAN, NEW a \in Nat, NEW c,
         Block(d, a, c), bits' = bits
  PROVE  PlaceInv'
<1>1. PICK s, q : /\ s \in Seq(PlanStep) /\ Segment(d, bits[d], s, 0, q)
                  /\ EntryPlan(d) = s \o <<Step("endBlock")>>
  BY EntryRun, Zenon
<1>2. Step("endBlock") \in PlanStep /\ Step("endBlock").op = "endBlock"
  BY DEF Step, PlanStep, Labels
<1>3. Tail(todo) \in Seq(PlanStep)
  BY Rested, Zenon DEF BoundsInv
<1>4. /\ Laid(d, bits[d], todo')
      /\ Field(todo'[1]) => Offset(d, bits[d], todo'[1].f) = 0
  <2>1. todo' = s \o <<Step("endBlock")>> \o Tail(todo)
    BY <1>1, Zenon DEF Block
  <2> QED BY <1>1, <1>2, <1>3, <2>1, LaidBlock, Zenon
<1>5. isDir' = d /\ lo' = a /\ pos' = a /\ at' = {}
  BY DEF Block
<1>6. Field(todo'[1]) => pos' = lo' + Offset(isDir', bits'[isDir'], todo'[1].f)
  BY <1>4, <1>5
<1> QED
  BY <1>4, <1>5, <1>6, Zenon DEF PlaceInv

\* In a block fields are read, each behind the one before, until it is left.
LEMMA PlaceStep == BoundsInv /\ PlaceInv /\ [Next]_vars => PlaceInv'
<1> SUFFICES ASSUME BoundsInv, PlaceInv, Next PROVE PlaceInv'
  BY DEF vars, PlaceInv
<1> DEFINE O(f) == Offset(isDir, bits[isDir], f)
<1>1. lo \in Nat /\ pos \in Nat /\ todo \in Seq(PlanStep)
  BY DEF BoundsInv
<1>2. ASSUME lo > 0, todo # <<>>
      PROVE  Laid(isDir, bits[isDir], todo) /\ Head(todo).op \in {"take", "name", "endBlock"}
  <2>1. Laid(isDir, bits[isDir], todo) BY <1>2, Zenon DEF PlaceInv
  <2>2. Head(todo) = todo[1] BY <1>1, <1>2
  <2>3. todo[1].op # "endBlock" => Field(todo[1]) BY <1>1, <2>1, LaidTail, Zenon
  <2> QED BY <2>1, <2>2, <2>3 DEF Field
\* A field is read, or cannot be.
<1>3. ASSUME TakeField \/ Name PROVE PlaceInv'
  <2> SUFFICES ASSUME lo' > 0, todo' # <<>>
               PROVE  /\ \A a \in at' : a[2] = lo' + Offset(isDir', bits'[isDir'], a[1])
                      /\ Laid(isDir', bits'[isDir'], todo')
                      /\ ~err' /\ Field(todo'[1]) =>
                           pos' = lo' + Offset(isDir', bits'[isDir'], todo'[1].f)
    BY DEF PlaceInv
  <2>1. /\ todo # <<>> /\ Head(todo).op \in {"take", "name"} /\ todo' = Tail(todo)
        /\ isDir' = isDir /\ bits' = bits /\ lo' = lo
    BY <1>3, Zenon DEF TakeField, Name, At, GoOn, Quit
  <2>2. /\ Laid(isDir, bits[isDir], todo) /\ Head(todo) = todo[1]
        /\ \A a \in at : a[2] = lo + O(a[1])
        /\ ~err /\ Field(todo[1]) => pos = lo + O(todo[1].f)
    <3>1. Head(todo) = todo[1] BY <1>1, <2>1
    <3>2. lo > 0 BY <2>1
    <3> QED BY <2>1, <3>1, <3>2, Zenon DEF PlaceInv
  <2>3. todo[1].op # "endBlock" BY <2>1, <2>2
  <2>4. /\ Field(todo[1]) /\ todo[1].w \in Nat /\ O(todo[1].f) \in Nat
        /\ Laid(isDir, bits[isDir], todo')
        /\ Field(todo'[1]) => O(todo'[1].f) = O(todo[1].f) + todo[1].w
    BY <1>1, <2>1, <2>2, <2>3, LaidTail, Zenon
  <2>5. \/ ~err /\ pos' = pos + todo[1].w /\ at' = at \cup {<<todo[1].f, pos>>}
        \/ err' /\ at' = at
    BY <1>3, <2>2, Zenon DEF TakeField, Name, Fits, Advance, Fail
  <2> HIDE DEF O
  <2>6. \A a \in at' : a[2] = lo + O(a[1])
    BY <2>2, <2>4, <2>5
  <2>7. ~err' /\ Field(todo'[1]) => pos' = lo + O(todo'[1].f)
    BY <1>1, <2>2, <2>4, <2>5
  <2> QED BY <2>1, <2>4, <2>6, <2>7, Zenon DEF O
<1>4. ASSUME Rest PROVE PlaceInv'
  <2>1. PICK d \in BOOLEAN : Block(d, pos, len) BY <1>4, Zenon DEF Rest
  <2>2. todo # <<>> /\ bits' = bits BY <1>4, Zenon DEF Rest, At
  <2> QED BY <1>1, <2>1, <2>2, BlockPlaced, Zenon
<1>5. ASSUME Entry PROVE PlaceInv'
  <2>1. PICK length \in 0 .. len + 1, d \in BOOLEAN :
          \/ Block(d, pos + 4, pos + length)
          \/ Quit
    BY <1>5, Zenon DEF Entry
  <2>2. todo # <<>> /\ bits' = bits BY <1>5, Zenon DEF Entry, At
  <2>3. pos + 4 \in Nat BY <1>1
  <2>4. CASE Quit BY <2>4, Zenon DEF Quit, PlaceInv
  <2> QED BY <2>1, <2>2, <2>3, <2>4, BlockPlaced, Zenon
<1>6. ASSUME EndBlock PROVE PlaceInv'
  <2>1. ~(lo' > 0) BY <1>6 DEF EndBlock
  <2> QED BY <2>1, Zenon DEF PlaceInv
<1>7. ASSUME Return PROVE PlaceInv'
  BY <1>7, Zenon DEF Return, PlaceInv
\* No other step is taken in a block.
<1>8. ASSUME todo # <<>>, Head(todo).op \notin {"take", "name", "endBlock"}, lo' = lo
      PROVE  PlaceInv'
  BY <1>2, <1>8, Zenon DEF PlaceInv
<1>9. ASSUME CheckErr \/ Count("entries", 2, "entry") \/ Count("volumes", 1, "volume")
             \/ Volume \/ VolParams \/ Minimum \/ ServerName \/ MachineType \/ List
             \/ Item \/ Option
      PROVE  todo # <<>> /\ Head(todo).op \notin {"take", "name", "endBlock"} /\ lo' = lo
  BY <1>9, Zenon DEF CheckErr, Count, Volume, VolParams, Minimum, ServerName, MachineType,
              List, Item, Option, At
<1> QED
  BY <1>3, <1>4, <1>5, <1>6, <1>7, <1>8, <1>9, Zenon DEF Next

\* No block is left open in s, and entries come one after the other.
Free(s) ==
  /\ \A i \in 1 .. Len(s) : s[i].op \notin {"endBlock", "entries"}
  /\ \A i \in 1 .. Len(s) - 1 : s[i + 1].op = "entry" => s[i].op = "entry"

\* The block the parser is in ends where the next entry is due; the first is due
\* behind the count of entries.
DueInv ==
  /\ todo # <<>> /\ todo[1].op = "entry" => pos = due
  /\ \A i \in 1 .. Len(todo) - 1 : todo[i + 1].op = "entry" =>
       todo[i].op = "entry" \/ (todo[i].op = "endBlock" /\ hi = due)
  /\ \A i, j \in 1 .. Len(todo) : i < j /\ todo[j].op = "endBlock" => Field(todo[i])
  /\ \A i \in 1 .. Len(todo) : todo[i].op = "entries" =>
       /\ due = 6 /\ \A j \in 1 .. Len(todo) : todo[j].op # "entry"
       /\ \/ i = 1 /\ (err \/ pos = 4)
          \/ i = 2 /\ pos = 0 /\ todo[1].op = "take" /\ todo[1].w = 4

\* Behind a step that is not a field of a block there is no block to leave.
LEMMA BehindIsFree ==
  ASSUME todo \in Seq(PlanStep), DueInv, todo # <<>>, ~Field(Head(todo))
  PROVE  /\ Free(Tail(todo))
         /\ Tail(todo) # <<>> /\ Tail(todo)[1].op = "entry" =>
              Head(todo).op = "entry" \/ (Head(todo).op = "endBlock" /\ hi = due)
<1> DEFINE t == Tail(todo)
           n == Len(todo) - 1
<1>1. /\ t \in Seq(PlanStep) /\ n \in Nat /\ Len(t) = n /\ Len(todo) = n + 1 /\ Head(todo) = todo[1]
      /\ \A i \in 1 .. n : t[i] = todo[i + 1]
  BY TailAt
<1> HIDE DEF t, n
<1>2. ASSUME NEW i \in 1 .. n PROVE t[i].op \notin {"endBlock", "entries"}
  <2>1. i + 1 \in 1 .. Len(todo) /\ 1 \in 1 .. Len(todo) /\ 1 < i + 1 /\ i + 1 # 1
    BY <1>1
  <2>2. todo[i + 1].op # "endBlock"
    BY <1>1, <2>1, Zenon DEF DueInv
  <2>3. todo[i + 1].op # "entries"
    <3>1. todo[1].op # "take" BY <1>1, Zenon DEF Field
    <3> QED BY <2>1, <3>1, Zenon DEF DueInv
  <2> QED BY <1>1, <2>2, <2>3, Zenon
<1>3. ASSUME NEW i \in 1 .. n - 1, t[i + 1].op = "entry" PROVE t[i].op = "entry"
  <2>1. i \in 1 .. n /\ i + 1 \in 1 .. n /\ i + 1 \in 1 .. Len(todo) - 1
    BY <1>1
  <2>2. t[i] = todo[i + 1] /\ t[i + 1] = todo[(i + 1) + 1]
    BY <1>1, <2>1, Zenon
  <2> QED BY <1>2, <1>3, <2>1, <2>2, Zenon DEF DueInv
<1>4. Free(t)
  <2>1. 1 .. Len(t) = 1 .. n /\ 1 .. Len(t) - 1 = 1 .. n - 1 BY <1>1
  <2> QED BY <1>2, <1>3, <2>1, Zenon DEF Free
<1>5. ASSUME t # <<>>, t[1].op = "entry"
      PROVE  todo[1].op = "entry" \/ (todo[1].op = "endBlock" /\ hi = due)
  <2>1. 1 \in 1 .. n /\ 1 \in 1 .. Len(todo) - 1 /\ t[1] = todo[1 + 1]
    BY <1>1, <1>5
  <2> QED BY <1>5, <2>1, Zenon DEF DueInv
<1> QED
  BY <1>1, <1>4, <1>5, Zenon DEF t

\* So then only the position of the next entry counts.
LEMMA FreeIsDue ==
  ASSUME todo' \in Seq(PlanStep), Free(todo'), todo' # <<>> /\ todo'[1].op = "entry" => pos' = due'
  PROVE  DueInv'
BY Zenon DEF DueInv, Free

\* New steps before such a plan.
LEMMA FreeJoined ==
  ASSUME NEW s \in Seq(PlanStep), NEW t \in Seq(PlanStep), Free(s), Free(t),
         ~(t # <<>> /\ t[1].op = "entry")
  PROVE  Free(s \o t)
<1> DEFINE u == s \o t
           n == Len(s)
           m == Len(t)
<1>1. /\ n \in Nat /\ m \in Nat /\ Len(u) = n + m
      /\ \A i \in 1 .. n : u[i] = s[i]
      /\ \A i \in 1 .. m : u[n + i] = t[i]
  OBVIOUS
<1>0. m # 0 => t # <<>>
  OBVIOUS
<1> HIDE DEF u, n, m
<1>2. ASSUME NEW i \in 1 .. n + m PROVE i \in 1 .. n \/ \E j \in 1 .. m : i = n + j
  <2>1. CASE i > n
    <3>1. i - n \in 1 .. m /\ i = n + (i - n) BY <1>1, <2>1
    <3> QED BY <3>1
  <2> QED BY <1>1, <2>1
<1>3. ASSUME NEW i \in 1 .. n + m PROVE u[i].op \notin {"endBlock", "entries"}
  <2>1. CASE i \in 1 .. n BY <1>1, <2>1, Zenon DEF Free, n
  <2>2. CASE \E j \in 1 .. m : i = n + j BY <1>1, <2>2, Zenon DEF Free, m
  <2> QED BY <1>2, <2>1, <2>2
<1>4. ASSUME NEW i \in 1 .. (n + m) - 1, u[i + 1].op = "entry" PROVE u[i].op = "entry"
  <2>1. CASE i + 1 <= n
    <3>1. i \in 1 .. n - 1 /\ i \in 1 .. n /\ i + 1 \in 1 .. n BY <1>1, <2>1
    <3> QED BY <1>1, <1>4, <3>1, Zenon DEF Free, n
  <2>2. CASE i = n
    <3>1. 1 \in 1 .. m /\ m # 0 BY <1>1, <2>2
    <3>2. u[i + 1] = t[1] BY <1>1, <2>2, <3>1, Zenon
    <3> QED BY <1>0, <1>4, <3>1, <3>2, Zenon
  <2>3. CASE i > n
    <3>1. PICK j \in 1 .. m - 1 : i = n + j
      <4>1. i - n \in 1 .. m - 1 /\ i = n + (i - n) BY <1>1, <2>3
      <4> QED BY <4>1
    <3>2. j \in 1 .. m /\ j + 1 \in 1 .. m /\ i + 1 = n + (j + 1) BY <1>1, <3>1
    <3>3. u[i] = t[j] /\ u[i + 1] = t[j + 1] BY <1>1, <3>1, <3>2, Zenon
    <3> QED BY <1>4, <3>1, <3>3, Zenon DEF Free, m
  <2> QED BY <1>1, <2>1, <2>2, <2>3
<1> QED
  <2>1. 1 .. Len(u) = 1 .. n + m /\ 1 .. Len(u) - 1 = 1 .. (n + m) - 1 BY <1>1
  <2>2. Free(u) BY <1>3, <1>4, <2>1, Zenon DEF Free
  <2> QED BY <2>2, Zenon DEF u

\* The steps of a list.
LEMMA RepeatFree ==
  ASSUME NEW step \in Labels \ {"endBlock", "entries"}, NEW n \in Nat
  PROVE  Free(Repeat(step, n))
<1>1. Len(Repeat(step, n)) = n /\ \A i \in 1 .. n : Repeat(step, n)[i] = Step(step)
  BY DEF Repeat
<1>2. Step(step).op = step
  BY DEF Step
<1>3. \A i \in 1 .. n - 1 : i \in 1 .. n /\ i + 1 \in 1 .. n
  OBVIOUS
<1> QED
  BY <1>1, <1>2, <1>3, Zenon DEF Free

\* s has no step of an enumeration.
NoEntry(s) == \A i \in 1 .. Len(s) : s[i].op \notin {"entries", "entry", "endBlock"}

\* Only an enumeration has entries.
LEMMA PlanHasNoEntry == ASSUME NEW k \in Kinds, k # "enumerate" PROVE NoEntry(Plan(k))
<1>1. NoEntry(Plan("stat")) BY DEF Plan, NoEntry, Take, Check, Step
<1>2. NoEntry(Plan("volumes")) BY DEF Plan, NoEntry, Take, Check, Step
<1>3. NoEntry(Plan("openVolume")) BY DEF Plan, NoEntry, Take, Check, Step
<1>4. NoEntry(Plan("statFS")) BY DEF Plan, NoEntry, Take, Check, Step
<1>5. NoEntry(Plan("openFork")) BY DEF Plan, NoEntry, Take, Check, Step
<1>6. NoEntry(Plan("serverInfo")) BY DEF Plan, NoEntry, Take, Check, Step
<1>7. NoEntry(Plan("openSession")) BY DEF Plan, NoEntry, Take, Check, Step
<1> QED BY <1>1, <1>2, <1>3, <1>4, <1>5, <1>6, <1>7, Zenon DEF Kinds

\* The first entry is due behind the bitmaps and the count.
LEMMA DueInit == Init => DueInv
<1> SUFFICES ASSUME Init PROVE DueInv
  OBVIOUS
<1>1. kind \in Kinds /\ todo = Plan(kind) /\ due = 6 /\ pos = 0
  BY DEF Init
<1>2. CASE kind = "enumerate"
  <2>1. PICK a, b, c : a = Take("bitmaps", 4) /\ b = Step("entries") /\ c = Check
    BY Zenon
  <2>2. a.op = "take" /\ a.w = 4 /\ b.op = "entries" /\ c.op = "check"
    BY <2>1 DEF Take, Step, Check
  <2>3. todo = <<a, b, c>>
    BY <1>1, <1>2, <2>1 DEF Plan
  <2>4. Len(todo) = 3 /\ todo[1] = a /\ todo[2] = b /\ todo[3] = c
    BY <2>3
  <2>5. 1 .. 3 = {1, 2, 3} /\ 1 .. 3 - 1 = {1, 2} /\ 1 + 1 = 2 /\ 2 + 1 = 3
    OBVIOUS
  <2> QED BY <1>1, <2>2, <2>4, <2>5, Zenon DEF DueInv
<1>3. CASE kind # "enumerate"
  <2>1. NoEntry(todo) BY <1>1, <1>3, PlanHasNoEntry, Zenon
  <2>2. todo \in Seq(PlanStep) BY PlanIsPlan, <1>1, Zenon
  <2>3. Len(todo) \in Nat /\ (todo # <<>> => 1 \in 1 .. Len(todo)) BY <2>2
  <2>4. \A i \in 1 .. Len(todo) - 1 : i + 1 \in 1 .. Len(todo) BY <2>3
  <2> QED BY <2>1, <2>3, <2>4, Zenon DEF DueInv, NoEntry
<1> QED BY <1>2, <1>3

\* A block is read and left before the next entry.
LEMMA BlockIsDue ==
  ASSUME BoundsInv, DueInv, todo # <<>>, Head(todo).op \in {"rest", "entry"},
         NEW d \in BOOLEAN, NEW a, NEW c, Block(d, a, c), Head(todo).op = "entry" => hi' = due'
  PROVE  DueInv'
<1>1. PICK s, q : /\ s \in Seq(PlanStep) /\ Segment(d, bits[d], s, 0, q)
                  /\ EntryPlan(d) = s \o <<Step("endBlock")>>
  BY EntryRun, Zenon
<1> DEFINE e == Step("endBlock")
           t == Tail(todo)
           n == Len(s)
           m == Len(t)
           u == s \o <<e>> \o t
<1>2. todo' = u
  BY <1>1, Zenon DEF Block
<1>3. e \in PlanStep /\ e.op = "endBlock"
  BY DEF Step, PlanStep, Labels
<1>4. t \in Seq(PlanStep) /\ todo \in Seq(PlanStep)
  BY Rested, Zenon DEF BoundsInv
<1>5. Free(t) /\ (t # <<>> /\ t[1].op = "entry" => hi' = due')
  <2>1. ~Field(Head(todo)) /\ Head(todo).op # "endBlock" BY DEF Field
  <2> QED BY <1>4, <2>1, BehindIsFree, Zenon
<1> HIDE DEF e, t
<1>6. /\ n \in Nat /\ m \in Nat /\ Len(u) = (n + 1) + m
      /\ \A i \in 1 .. n : u[i] = s[i]
      /\ u[n + 1] = e
      /\ \A i \in 1 .. m : u[(n + 1) + i] = t[i]
      /\ m # 0 => t # <<>>
  BY <1>1, <1>3, <1>4
<1> HIDE DEF n, m, u
<1>7. ASSUME NEW i \in 1 .. Len(u)
      PROVE  i \in 1 .. n \/ i = n + 1 \/ \E j \in 1 .. m : i = (n + 1) + j
  <2>1. CASE i > n + 1
    <3>1. i - (n + 1) \in 1 .. m /\ i = (n + 1) + (i - (n + 1)) BY <1>6, <2>1
    <3> QED BY <3>1
  <2> QED BY <1>6, <2>1
<1>8. \A i \in 1 .. n : Field(u[i])
  BY <1>1, <1>6, Zenon DEF Segment, n
<1>9. \A j \in 1 .. m : u[(n + 1) + j].op \notin {"endBlock", "entries"}
  BY <1>5, <1>6, Zenon DEF Free, m
<1>10. ASSUME NEW i \in 1 .. Len(u) PROVE u[i].op # "entries"
  BY <1>3, <1>6, <1>7, <1>8, <1>9, Zenon DEF Field
<1>11. ASSUME NEW i \in 1 .. Len(u), NEW j \in 1 .. Len(u), i < j, u[j].op = "endBlock"
       PROVE  Field(u[i])
  <2>1. ~\E k \in 1 .. m : j = (n + 1) + k BY <1>9, <1>11, Zenon
  <2>2. i \in 1 .. n BY <1>6, <1>7, <1>11, <2>1
  <2> QED BY <1>8, <2>2
<1>12. ASSUME NEW i \in 1 .. Len(u) - 1, u[i + 1].op = "entry"
       PROVE  u[i].op = "entry" \/ (u[i].op = "endBlock" /\ hi' = due')
  <2>1. i \in 1 .. Len(u) /\ i + 1 \in 1 .. Len(u) BY <1>6
  <2>2. i + 1 \notin 1 .. n BY <1>8, <1>12, Zenon DEF Field
  <2>3. i + 1 # n + 1 BY <1>3, <1>6, <1>12, Zenon
  <2>4. PICK j \in 1 .. m : i + 1 = (n + 1) + j BY <1>7, <2>1, <2>2, <2>3, Zenon
  <2>5. t[j].op = "entry" BY <1>6, <1>12, <2>4, Zenon
  <2>6. CASE j = 1
    <3>1. i = n + 1 /\ m # 0 BY <1>6, <2>1, <2>4, <2>6
    <3> QED BY <1>3, <1>5, <1>6, <2>5, <2>6, <3>1, Zenon
  <2>7. CASE j # 1
    <3>1. /\ j - 1 \in 1 .. m /\ j - 1 \in 1 .. m - 1 /\ i = (n + 1) + (j - 1)
          /\ j = (j - 1) + 1
      BY <1>6, <2>1, <2>4, <2>7
    <3>2. t[j - 1].op = "entry" BY <1>5, <2>5, <3>1, Zenon DEF Free, m
    <3> QED BY <1>6, <3>1, <3>2, Zenon
  <2> QED BY <2>6, <2>7
<1>13. u[1].op # "entry"
  <2>1. CASE n = 0
    <3>1. u[1] = e BY <1>6, <2>1
    <3> QED BY <1>3, <3>1
  <2>2. CASE n # 0
    <3>1. 1 \in 1 .. n BY <1>6, <2>2
    <3> QED BY <1>8, <3>1 DEF Field
  <2> QED BY <2>1, <2>2
<1> QED
  BY <1>2, <1>10, <1>11, <1>12, <1>13, Zenon DEF DueInv

\* Wherever a block is left, and however much of it was read, the next entry
\* begins.
LEMMA DueStep == BoundsInv /\ DueInv /\ [Next]_vars => DueInv'
<1> SUFFICES ASSUME BoundsInv, DueInv, Next PROVE DueInv'
  <2>1. ASSUME UNCHANGED <<todo, pos, due, hi, err>>, DueInv PROVE DueInv'
    BY <2>1 DEF DueInv, Field
  <2> QED BY <2>1, Zenon DEF vars
<1>1. /\ todo \in Seq(PlanStep)
      /\ todo # <<>> => Tail(todo) \in Seq(PlanStep) /\ Head(todo) = todo[1]
  BY DEF BoundsInv
<1>2. ASSUME todo' = <<>> PROVE DueInv'
  <2>1. Len(<<>>) = 0 /\ 1 .. 0 = {} /\ 1 .. 0 - 1 = {} OBVIOUS
  <2> QED BY <1>2, <2>1, Zenon DEF DueInv
\* A field: what is behind it stays.
<1>3. ASSUME TakeField \/ Name, todo' = Tail(todo) PROVE DueInv'
  <2>1. /\ todo # <<>> /\ todo[1].op \in {"take", "name"} /\ hi' = hi /\ due' = due
        /\ todo[1].op = "take" => TakeField
    BY <1>1, <1>3, Zenon DEF TakeField, Name, At
  <2> DEFINE n == Len(todo) - 1
             t == Tail(todo)
  <2>2. /\ n \in Nat /\ Len(t) = n /\ Len(todo) = n + 1 /\ t \in Seq(PlanStep)
        /\ \A i \in 1 .. n : t[i] = todo[i + 1]
    BY <1>1, <2>1, TailAt
  <2>3. t # <<>> => n # 0
    BY <1>1, <2>1, TailAt
  <2> HIDE DEF n, t
  <2>4. \A i \in 1 .. n : i + 1 \in 1 .. Len(todo)
    BY <2>2
  <2>5. ASSUME t # <<>> PROVE t[1].op # "entry"
    <3>1. 1 \in 1 .. n /\ 1 \in 1 .. Len(todo) - 1 BY <2>2, <2>3, <2>5
    <3>2. t[1] = todo[1 + 1] BY <2>2, <3>1, Zenon
    <3> QED BY <2>1, <3>1, <3>2, Zenon DEF DueInv
  <2>6. ASSUME NEW i \in 1 .. n - 1, t[i + 1].op = "entry"
        PROVE  t[i].op = "entry" \/ (t[i].op = "endBlock" /\ hi = due)
    <3>1. i \in 1 .. n /\ i + 1 \in 1 .. n /\ i + 1 \in 1 .. Len(todo) - 1 BY <2>2
    <3> QED BY <2>2, <2>6, <3>1, Zenon DEF DueInv
  <2>7. ASSUME NEW i \in 1 .. n, NEW j \in 1 .. n, i < j, t[j].op = "endBlock" PROVE Field(t[i])
    <3>1. i + 1 < j + 1 BY <2>7
    <3> QED BY <2>2, <2>4, <2>7, <3>1, Zenon DEF DueInv
  <2>8. ASSUME NEW i \in 1 .. n, t[i].op = "entries"
        PROVE  due = 6 /\ (\A j \in 1 .. n : t[j].op # "entry") /\ i = 1 /\ (err' \/ pos' = 4)
    <3>1. todo[i + 1].op = "entries" /\ i + 1 # 1 BY <2>2, <2>8
    <3>2. /\ due = 6 /\ \A j \in 1 .. Len(todo) : todo[j].op # "entry"
          /\ i + 1 = 2 /\ pos = 0 /\ todo[1].op = "take" /\ todo[1].w = 4
      BY <2>4, <3>1, Zenon DEF DueInv
    <3>3. \A j \in 1 .. n : t[j].op # "entry" BY <2>2, <2>4, <3>2, Zenon
    <3>4. pos' = pos + todo[1].w \/ err'
      BY <1>1, <2>1, <3>2, Zenon DEF TakeField, Advance, Fail
    <3>5. i = 1 /\ (pos' = pos + todo[1].w => pos' = 4) BY <3>2
    <3> QED BY <3>2, <3>3, <3>4, <3>5, Zenon
  <2>9. todo' = t BY <1>3, Zenon DEF t
  <2>10. 1 .. Len(t) = 1 .. n /\ 1 .. Len(t) - 1 = 1 .. n - 1 BY <2>2
  <2> QED BY <2>1, <2>5, <2>6, <2>7, <2>8, <2>9, <2>10, Zenon DEF DueInv
\* Any other step is behind what may still have to leave a block.
<1>4. ASSUME todo # <<>>, Head(todo).op \notin {"take", "name"}
      PROVE  /\ Free(Tail(todo))
             /\ Tail(todo) # <<>> /\ Tail(todo)[1].op = "entry" =>
                  Head(todo).op = "entry" \/ (Head(todo).op = "endBlock" /\ hi = due)
  BY <1>1, <1>4, BehindIsFree, Zenon DEF Field
<1>5. ASSUME todo # <<>>, Head(todo).op \notin {"take", "name", "entry", "endBlock"},
             \/ Quit \/ todo' = Tail(todo)
             \/ \E s \in Seq(PlanStep) : /\ Free(s) /\ todo' = s \o Tail(todo)
                                         /\ ~(s # <<>> /\ s[1].op = "entry")
      PROVE  DueInv'
  <2>1. Free(Tail(todo)) /\ ~(Tail(todo) # <<>> /\ Tail(todo)[1].op = "entry")
    BY <1>4, <1>5, Zenon
  <2>2. CASE todo' = Tail(todo)
    BY <1>1, <1>5, <2>1, <2>2, FreeIsDue, Zenon
  <2>3. ASSUME NEW s \in Seq(PlanStep), Free(s), todo' = s \o Tail(todo),
               ~(s # <<>> /\ s[1].op = "entry")
        PROVE  DueInv'
    <3>1. Free(todo') /\ todo' \in Seq(PlanStep)
      BY <1>1, <1>5, <2>1, <2>3, FreeJoined, Joined, Zenon
    <3>2. CASE s = <<>>
      <4>1. todo' = Tail(todo) BY <1>1, <1>5, <2>3, <3>2
      <4> QED BY <2>2, <4>1
    <3>3. CASE s # <<>>
      <4>1. todo'[1] = s[1] BY <1>1, <1>5, <2>3, <3>3
      <4> QED BY <2>3, <3>1, <3>3, <4>1, FreeIsDue, Zenon
    <3> QED BY <3>2, <3>3
  <2> QED BY <1>2, <1>5, <2>2, <2>3, Zenon DEF Quit
<1>6. ASSUME TakeField \/ Name PROVE DueInv'
  <2>1. todo' = <<>> \/ todo' = Tail(todo)
    BY <1>6, Zenon DEF TakeField, Name, GoOn, Quit
  <2> QED BY <1>2, <1>3, <1>6, <2>1
<1>7. ASSUME Rest PROVE DueInv'
  <2>1. PICK d \in BOOLEAN : Block(d, pos, len) BY <1>7, Zenon DEF Rest
  <2>2. todo # <<>> /\ Head(todo).op = "rest" BY <1>7, Zenon DEF Rest, At
  <2> QED BY <2>1, <2>2, BlockIsDue, Zenon
<1>8. ASSUME Entry PROVE DueInv'
  <2>1. PICK length \in 0 .. len + 1, d \in BOOLEAN :
          \/ Block(d, pos + 4, pos + length) /\ due' = due + length
          \/ Quit
    BY <1>8, Zenon DEF Entry
  <2>2. todo # <<>> /\ Head(todo).op = "entry" BY <1>8, Zenon DEF Entry, At
  <2>3. pos = due BY <1>1, <2>2, Zenon DEF DueInv
  <2>4. CASE Quit BY <1>2, <2>4, Zenon DEF Quit
  <2>5. CASE Block(d, pos + 4, pos + length) /\ due' = due + length
    <3>1. hi' = due' BY <2>3, <2>5, Zenon DEF Block
    <3> QED BY <2>2, <2>5, <3>1, BlockIsDue, Zenon
  <2> QED BY <2>1, <2>4, <2>5
<1>9. ASSUME EndBlock PROVE DueInv'
  <2>1. /\ todo # <<>> /\ Head(todo).op = "endBlock" /\ (todo' = <<>> \/ todo' = Tail(todo))
        /\ pos' = hi /\ due' = due
    BY <1>9, Zenon DEF EndBlock, At, Quit, GoOn
  <2>2. CASE todo' = Tail(todo)
    <3>1. Free(todo') /\ (todo' # <<>> /\ todo'[1].op = "entry" => hi = due)
      BY <1>4, <2>1, <2>2, Zenon
    <3> QED BY <1>1, <2>1, <2>2, <3>1, FreeIsDue, Zenon
  <2> QED BY <1>2, <2>1, <2>2
<1>10. ASSUME Count("entries", 2, "entry") PROVE DueInv'
  <2>1. /\ todo # <<>> /\ Head(todo).op = "entries" /\ due' = due
        /\ \/ todo' = Tail(todo)
           \/ /\ ~err /\ pos' = pos + 2
              /\ \E n \in 0 .. MaxItems : todo' = Repeat("entry", n) \o Tail(todo)
    BY <1>10, Zenon DEF Count, At, Fits, Advance
  <2>2. CASE todo' = Tail(todo) BY <1>5, <2>1, <2>2
  <2>3. CASE /\ ~err /\ pos' = pos + 2
             /\ \E n \in 0 .. MaxItems : todo' = Repeat("entry", n) \o Tail(todo)
    <3>1. PICK n \in 0 .. MaxItems : todo' = Repeat("entry", n) \o Tail(todo) BY <2>3, Zenon
    <3>2. n \in Nat /\ "entry" \in Labels BY RepliesAssumption DEF Labels
    <3>3. Free(Repeat("entry", n)) /\ Repeat("entry", n) \in Seq(PlanStep)
      BY <3>2, RepeatFree, RepeatIsPlan
    <3>4. Free(todo') /\ todo' \in Seq(PlanStep)
      <4>1. Free(Tail(todo)) /\ ~(Tail(todo) # <<>> /\ Tail(todo)[1].op = "entry")
        BY <1>4, <2>1
      <4> QED BY <1>1, <2>1, <3>1, <3>3, <4>1, FreeJoined, Joined, Zenon
    <3>5. due = 6 /\ pos = 4
      <4>1. 1 \in 1 .. Len(todo) /\ 1 # 2 BY <1>1, <2>1, TailAt
      <4>2. todo[1].op = "entries" BY <1>1, <2>1, Zenon
      <4> QED BY <2>3, <4>1, <4>2, Zenon DEF DueInv
    <3>6. pos' = due' BY <2>1, <2>3, <3>5
    <3> QED BY <3>4, <3>6, FreeIsDue, Zenon
  <2> QED BY <2>1, <2>2, <2>3, Zenon
<1>11. ASSUME NEW op \in {"volumes", "list"}, NEW item \in {"volume", "item"},
              NEW n \in 0 .. MaxItems, todo # <<>>, Head(todo).op = op,
              todo' = Repeat(item, n) \o Tail(todo)
       PROVE  DueInv'
  <2>1. n \in Nat /\ item \in Labels \ {"endBlock", "entries"} /\ item # "entry"
    BY RepliesAssumption DEF Labels
  <2>2. Free(Repeat(item, n)) /\ Repeat(item, n) \in Seq(PlanStep)
    BY <2>1, RepeatFree, RepeatIsPlan
  <2>3. ~(Repeat(item, n) # <<>> /\ Repeat(item, n)[1].op = "entry")
    BY <2>1 DEF Repeat, Step
  <2>4. Head(todo).op \notin {"take", "name", "entry", "endBlock"} BY <1>11
  <2> QED BY <1>5, <1>11, <2>2, <2>3, <2>4, Zenon
<1>12. ASSUME Count("volumes", 1, "volume") PROVE DueInv'
  <2>1. /\ todo # <<>> /\ Head(todo).op = "volumes"
        /\ \/ todo' = Tail(todo)
           \/ \E n \in 0 .. MaxItems : todo' = Repeat("volume", n) \o Tail(todo)
    BY <1>12, Zenon DEF Count, At
  <2> QED BY <1>5, <1>11, <2>1, Zenon
<1>13. ASSUME List PROVE DueInv'
  <2>1. /\ todo # <<>> /\ Head(todo).op = "list"
        /\ \/ todo' = Tail(todo) \/ Quit
           \/ \E n \in 0 .. MaxItems : todo' = Repeat("item", n) \o Tail(todo)
    BY <1>13, Zenon DEF List, At, GoOn
  <2> QED BY <1>5, <1>11, <2>1, Zenon
<1>14. ASSUME VolParams PROVE DueInv'
  <2>1. todo # <<>> /\ Head(todo).op = "volParams" BY <1>14, Zenon DEF VolParams, At
  <2>2. PICK s, t \in {<<Take("attributes", 2)>>, <<Take("id", 2)>>, <<>>} :
          todo' = s \o t \o Tail(todo)
    BY <1>14, Zenon DEF VolParams
  <2>3. s \in Seq(PlanStep) /\ t \in Seq(PlanStep) BY <2>2, VolParamIsPlan, Zenon
  <2>4. NoEntry(s \o t)
    BY <2>2, <2>3 DEF Take, NoEntry
  <2>5. Free(s \o t) /\ s \o t \in Seq(PlanStep) /\ ~(s \o t # <<>> /\ (s \o t)[1].op = "entry")
    BY <2>3, <2>4 DEF Free, NoEntry
  <2> QED BY <1>5, <2>1, <2>2, <2>5, Zenon
<1>15. ASSUME Option PROVE DueInv'
  <2>1. todo # <<>> /\ Head(todo).op = "option" /\ due' = due /\ hi' = hi
        /\ (Quit \/ todo' = Tail(todo) \/ todo' = todo)
    BY <1>15, Zenon DEF Option, At, GoOn
  <2>2. CASE todo' = todo
    <3>1. todo[1].op = "option" BY <1>1, <2>1, Zenon
    <3>2. \A i \in 1 .. Len(todo) : todo[i].op # "entries" BY <3>1, Zenon DEF DueInv
    <3> QED BY <2>1, <2>2, <3>1, <3>2, Zenon DEF DueInv, Field
  <2> QED BY <1>5, <2>1, <2>2, Zenon
<1>16. ASSUME CheckErr \/ Volume \/ Minimum \/ ServerName \/ MachineType \/ Item PROVE DueInv'
  <2>1. /\ todo # <<>> /\ Head(todo).op \notin {"take", "name", "entry", "endBlock"}
        /\ Quit \/ todo' = Tail(todo)
    BY <1>16, Zenon DEF CheckErr, Volume, Minimum, ServerName, MachineType, Item,
                PascalString, At, GoOn
  <2> QED BY <1>5, <2>1, Zenon
<1>17. ASSUME Return PROVE DueInv'
  BY <1>2, <1>17, Zenon DEF Return
<1> QED
  BY <1>6, <1>7, <1>8, <1>9, <1>10, <1>12, <1>13, <1>14, <1>15, <1>16, <1>17, Zenon DEF Next

\* Every field of every block is read where the layout of the protocol puts it,
\* for any bitmap, and an entry of an enumeration begins where the one before it
\* ends: the order and the widths in parseEntryParams are those of the bits, and
\* parseEnumerateReply counts on from the length of the entry.
THEOREM FieldsArePlaced == Spec => []FieldsInPlace
<1>1. BoundsInv /\ PlaceInv /\ DueInv => FieldsInPlace
  BY DEF PlaceInv, DueInv, FieldsInPlace, BoundsInv
<1>2. QED
  BY <1>1, BoundsInit, BoundsStep, PlaceInit, PlaceStep, DueInit, DueStep, PTL DEF Spec
=============================================================================
