-------------------------- MODULE Session_proofs --------------------------
(***************************************************************************)
(* Proofs about Enumerate and Command, the two that use a session from     *)
(* end to end.                                                             *)
(*                                                                         *)
(* Enumerate, for any names, any size of a page and any number of changes: *)
(* an undisturbed listing is the directory, and any other is off by no     *)
(* more than what others changed while it ran.  What counts is what lies   *)
(* ahead of the start index.  An entry that is neither listed nor ahead    *)
(* will be missed, one that is both will be repeated; a removal makes at   *)
(* most one more of the first kind, and an addition at most one more of    *)
(* the second.                                                             *)
(*                                                                         *)
(* Command, for any offers of the server: connections are closed, what was *)
(* acquired is given back in the reverse order, and no request comes       *)
(* before what it needs.  The deferred calls are always a beginning of one *)
(* list, and what the server holds covers what the calls still to run      *)
(* need, as long as the link works.                                        *)
(***************************************************************************)
EXTENDS Enumerate, Command, FiniteSetTheorems, SequenceTheorems, TLAPS

\* The entries from the start index on.
Ahead == {dir[k] : k \in start .. Len(dir)}

TypeInv ==
  /\ dir \in Seq(Names) /\ IsInjective(dir)
  /\ start \in Nat \ {0} /\ all \in Seq(Names) /\ stayed \subseteq Names
  /\ added \in Nat /\ removed \in Nat /\ phase \in {"loop", "done"}

\* Nobody changed the directory: what is listed is its beginning.
QuietInv ==
  phase = "loop" /\ added = 0 /\ removed = 0 =>
    /\ start <= Len(dir) + 1 /\ Len(all) = start - 1
    /\ \A k \in 1 .. Len(all) : all[k] = dir[k]

MissInv == phase = "loop" => Cardinality(stayed \ (Range(all) \cup Ahead)) <= removed

RepeatInv ==
  phase = "loop" => Len(all) + Cardinality(Range(all) \cap Ahead) <= Cardinality(Range(all)) + added

DoneInv == phase = "done" => ExactWhenQuiet /\ OffByChanges

Inv == TypeInv /\ QuietInv /\ MissInv /\ RepeatInv /\ DoneInv

-----------------------------------------------------------------------------
(* Counting. *)

\* A set with at most one more element.
LEMMA OneMore ==
  ASSUME NEW S, IsFiniteSet(S), NEW x, NEW T, T \subseteq S \cup {x}
  PROVE  Cardinality(T) <= Cardinality(S) + 1
<1>1. IsFiniteSet(S \cup {x}) /\ Cardinality(S \cup {x}) <= Cardinality(S) + 1
  <2>1. /\ IsFiniteSet(S \cup {x})
        /\ Cardinality(S \cup {x}) = IF x \in S THEN Cardinality(S) ELSE Cardinality(S) + 1
    BY FS_AddElement, Zenon
  <2>2. Cardinality(S) \in Nat
    BY FS_CardinalityType
  <2> QED
    BY <2>1, <2>2
<1>2. Cardinality(T) <= Cardinality(S \cup {x}) /\ IsFiniteSet(T)
  BY <1>1, FS_Subset
<1> QED
  BY <1>1, <1>2, FS_CardinalityType

\* Listing a page P of what is ahead, A: what it repeats of R it takes away
\* from what is both listed and ahead.
LEMMA PageCounts ==
  ASSUME NEW R, IsFiniteSet(R), NEW A, IsFiniteSet(A), NEW P, P \subseteq A
  PROVE  Cardinality(P) + Cardinality((R \cup P) \cap (A \ P)) + Cardinality(R)
           = Cardinality(R \cup P) + Cardinality(R \cap A)
<1> DEFINE Q == (R \cup P) \cap (A \ P)
           B == R \cap P
<1>1. IsFiniteSet(P) /\ IsFiniteSet(B) /\ IsFiniteSet(Q)
  BY FS_Subset
<1>2. Cardinality(R \cup P) = (Cardinality(R) + Cardinality(P)) - Cardinality(B)
  <2>1. Cardinality(R \cup P) = Cardinality(R) + Cardinality(P) - Cardinality(R \cap P)
    BY <1>1, FS_Union
  <2> QED
    BY <1>1, <2>1, FS_CardinalityType
<1>3. Cardinality(R \cap A) = Cardinality(Q) + Cardinality(B)
  <2>1. R \cap A = Q \cup B /\ Q \cap B = {}
    OBVIOUS
  <2>2. Cardinality(Q \cup B) = Cardinality(Q) + Cardinality(B) - Cardinality(Q \cap B)
    BY <1>1, FS_Union
  <2> HIDE DEF Q, B
  <2>3. Cardinality(Q \cap B) = 0
    BY <2>1, FS_EmptySet
  <2>4. Cardinality(Q) \in Nat /\ Cardinality(B) \in Nat
    BY <1>1, FS_CardinalityType
  <2>5. Cardinality(R \cap A) = Cardinality(Q \cup B)
    BY <2>1
  <2> QED
    BY <2>2, <2>3, <2>4, <2>5
<1>4. /\ Cardinality(P) \in Nat /\ Cardinality(Q) \in Nat /\ Cardinality(R) \in Nat
      /\ Cardinality(B) \in Nat
  BY <1>1, FS_CardinalityType
<1> HIDE DEF B
<1> QED
  BY <1>2, <1>3, <1>4

\* A stretch of a sequence without repetitions has as many elements as places.
LEMMA Stretch ==
  ASSUME NEW S, NEW d \in Seq(S), IsInjective(d), NEW a \in Nat \ {0}, NEW e \in Nat,
         a <= e, e <= Len(d)
  PROVE  Cardinality({d[k] : k \in a .. e}) = (e - a) + 1
<1> DEFINE P == {d[k] : k \in a .. e}
           f == [k \in a .. e |-> d[k]]
<1>1. \A k \in a .. e : k \in DOMAIN d
  OBVIOUS
<1>2. f \in Bijection(a .. e, P)
  <2>1. f \in [a .. e -> P]
    OBVIOUS
  <2>2. \A x, y \in a .. e : f[x] = f[y] => x = y
    BY <1>1 DEF IsInjective
  <2>3. \A t \in P : \E s \in a .. e : f[s] = t
    OBVIOUS
  <2>4. DOMAIN f = a .. e
    OBVIOUS
  <2> HIDE DEF f, P
  <2> QED
    BY <2>1, <2>2, <2>3, <2>4, Zenon DEF Bijection, Injection, Surjection, IsInjective
<1>3. IsFiniteSet(a .. e) /\ Cardinality(a .. e) = (e - a) + 1
  BY FS_Interval
<1>4. ExistsBijection(a .. e, P)
  BY <1>2, Zenon DEF ExistsBijection
<1> HIDE DEF P
<1>5. Cardinality(P) = Cardinality(a .. e)
  BY <1>3, <1>4, FS_Bijection
<1> QED
  BY <1>3, <1>5 DEF P

-----------------------------------------------------------------------------
\* There are finitely many names.
LEMMA Counted ==
  ASSUME NEW S, S \subseteq Names
  PROVE  IsFiniteSet(S) /\ Cardinality(S) \in Nat
BY EnumerateAssumption, FS_Subset, FS_CardinalityType

\* What is listed and what is ahead are finite sets of names.
LEMMA Finite ==
  ASSUME TypeInv
  PROVE  /\ Range(all) \subseteq Names /\ Ahead \subseteq Names
         /\ IsFiniteSet(Range(all)) /\ IsFiniteSet(Ahead)
         /\ IsFiniteSet(stayed \ (Range(all) \cup Ahead)) /\ IsFiniteSet(Range(all) \cap Ahead)
         /\ Cardinality(Range(all)) \in Nat /\ Cardinality(Range(all) \cap Ahead) \in Nat
         /\ Cardinality(stayed \ (Range(all) \cup Ahead)) \in Nat /\ Len(all) \in Nat
<1>1. Range(all) \subseteq Names
  BY RangeOfSeq DEF TypeInv
<1>2. Ahead \subseteq Names
  BY DEF TypeInv, Ahead
<1>3. /\ IsFiniteSet(Range(all)) /\ IsFiniteSet(Ahead)
      /\ IsFiniteSet(stayed \ (Range(all) \cup Ahead)) /\ IsFiniteSet(Range(all) \cap Ahead)
  BY <1>1, <1>2, EnumerateAssumption, FS_Subset DEF TypeInv
<1>4. Len(all) \in Nat
  BY DEF TypeInv
<1> QED
  BY <1>1, <1>2, <1>3, <1>4, FS_CardinalityType

\* At the start of a run everything is ahead.
LEMMA FreshStart ==
  ASSUME NEW d \in Seq(Names)
  PROVE  {d[k] : k \in 1 .. Len(d)} = Range(d) /\ Range(<<>>) = {}
<1>1. {d[k] : k \in 1 .. Len(d)} = Range(d)
  BY RangeEquality
<1>2. Range(<<>>) = {}
  BY DEF Range
<1> QED
  BY <1>1, <1>2

\* A run that starts satisfies the invariants of the loop.
LEMMA StartInv ==
  ASSUME TypeInv, phase = "loop", all = <<>>, start = 1, stayed = Range(dir)
  PROVE  QuietInv /\ MissInv /\ RepeatInv /\ DoneInv
<1>1. Range(all) = {} /\ Ahead = Range(dir) /\ Len(all) = 0
  BY FreshStart DEF TypeInv, Ahead
<1>2. Cardinality({}) = 0
  BY FS_EmptySet
<1>3. QuietInv
  BY <1>1 DEF QuietInv, TypeInv
<1>4. MissInv
  <2>1. stayed \ (Range(all) \cup Ahead) = {}
    BY <1>1
  <2>2. Cardinality(stayed \ (Range(all) \cup Ahead)) = 0
    BY <1>2, <2>1, Zenon
  <2> QED
    BY <2>2 DEF MissInv, TypeInv
<1>5. RepeatInv
  <2>1. Range(all) \cap Ahead = {}
    BY <1>1
  <2>2. Cardinality(Range(all) \cap Ahead) = 0 /\ Cardinality(Range(all)) = 0
    BY <1>1, <1>2, <2>1, Zenon
  <2> QED
    BY <1>1, <2>2 DEF RepeatInv, TypeInv
<1> QED
  BY <1>3, <1>4, <1>5 DEF DoneInv

LEMMA InitInv == ListInit => Inv
<1> SUFFICES ASSUME ListInit PROVE Inv
  OBVIOUS
<1>1. PICK S \in SUBSET Names : dir \in Bijection(1 .. Cardinality(S), S) /\ stayed = S
  BY DEF ListInit
<1>2. Cardinality(S) \in Nat
  BY EnumerateAssumption, FS_Subset, FS_CardinalityType
<1>3. /\ dir \in [1 .. Cardinality(S) -> S] /\ IsInjective(dir)
      /\ \A s \in S : \E k \in 1 .. Cardinality(S) : dir[k] = s
  BY <1>1 DEF Bijection, Injection, Surjection
<1>4. dir \in Seq(Names)
  <2>1. dir \in Seq(S)
    BY <1>2, <1>3, SeqDef
  <2> QED
    BY <2>1, SeqMonotonic
<1>5. stayed = Range(dir)
  BY <1>1, <1>3 DEF Range
<1>6. TypeInv
  BY <1>1, <1>3, <1>4, EmptySeq DEF TypeInv, ListInit
<1> QED
  BY <1>5, <1>6, StartInv DEF Inv, ListInit

-----------------------------------------------------------------------------
\* A page moves entries from ahead to the listing.
LEMMA FetchPageStep == ASSUME Inv, FetchPage PROVE Inv'
<1> USE DEF Inv
<1>1. /\ phase = "loop" /\ phase' = phase /\ dir' = dir /\ stayed' = stayed
      /\ added' = added /\ removed' = removed /\ start <= Len(dir)
  BY DEF FetchPage, others
<1>2. PICK e \in start .. Len(dir) : Page(SubSeq(dir, start, e))
  <2>1. PICK p \in Pages : Page(p)
    BY DEF FetchPage
  <2>2. PICK e \in start .. IF start + Batch - 1 < Len(dir) THEN start + Batch - 1 ELSE Len(dir) :
          p = SubSeq(dir, start, e)
    BY <2>1 DEF Pages
  <2>3. e \in start .. Len(dir)
    BY EnumerateAssumption DEF TypeInv
  <2> QED
    BY <2>1, <2>2, <2>3
<1> DEFINE p == SubSeq(dir, start, e)
           P == {dir[k] : k \in start .. e}
<1>3. start \in Nat \ {0} /\ e \in Nat /\ start <= e /\ e <= Len(dir) /\ Len(dir) \in Nat
  BY <1>1, <1>2 DEF TypeInv
<1>4. /\ p \in Seq(Names) /\ Len(p) = (e - start) + 1
      /\ \A k \in 1 .. Len(p) : p[k] = dir[(start + k) - 1]
  BY <1>3, SubSeqProperties DEF TypeInv
<1>5. Range(p) = P
  <2>1. \A k \in 1 .. Len(p) : (start + k) - 1 \in start .. e
    BY <1>3, <1>4
  <2>2. \A k \in start .. e : (k - start) + 1 \in 1 .. Len(p) /\ dir[k] = p[(k - start) + 1]
    BY <1>3, <1>4
  <2>3. Range(p) = {p[k] : k \in 1 .. Len(p)}
    BY <1>4, RangeEquality, Zenon
  <2> HIDE DEF p
  <2>4. ASSUME NEW k \in 1 .. Len(p) PROVE p[k] \in P
    BY <1>4, <2>1
  <2>5. ASSUME NEW k \in start .. e PROVE dir[k] \in Range(p)
    BY <2>2, <2>3
  <2> QED
    BY <2>3, <2>4, <2>5
<1>6. /\ all' = all \o p /\ start' = start + Len(p)
  BY <1>2 DEF Page
<1> HIDE DEF p
<1>7. /\ all' \in Seq(Names) /\ Len(all') = Len(all) + Len(p)
      /\ \A i \in 1 .. Len(all) + Len(p) : all'[i] =
           IF i <= Len(all) THEN all[i] ELSE p[i - Len(all)]
  BY <1>4, <1>6, ConcatProperties, Zenon DEF TypeInv
<1>8. start' = e + 1
  BY <1>3, <1>4, <1>6
<1>9. TypeInv'
  BY <1>1, <1>3, <1>7, <1>8 DEF TypeInv
<1>10. QuietInv'
  <2> SUFFICES ASSUME added = 0, removed = 0
               PROVE  /\ start' <= Len(dir) + 1 /\ Len(all') = start' - 1
                      /\ \A k \in 1 .. Len(all') : all'[k] = dir[k]
    BY <1>1 DEF QuietInv
  <2>1. Len(all) = start - 1 /\ \A k \in 1 .. Len(all) : all[k] = dir[k]
    BY <1>1 DEF QuietInv
  <2>2. ASSUME NEW k \in 1 .. Len(all') PROVE all'[k] = dir[k]
    <3>0. /\ Len(all') = Len(all) + Len(p) /\ Len(p) \in Nat
          /\ Len(all) \in Nat /\ Len(all) = start - 1
      BY <1>3, <1>4, <1>7, <2>1
    <3>1. CASE k <= Len(all)
      <4>1. k \in 1 .. Len(all) /\ k \in 1 .. Len(all) + Len(p)
        BY <3>0, <3>1
      <4> QED
        BY <1>7, <2>1, <3>1, <4>1, Zenon
    <3>2. CASE k > Len(all)
      <4>1. k - Len(all) \in 1 .. Len(p) /\ (start + (k - Len(all))) - 1 = k
        BY <1>3, <3>0, <3>2
      <4>2. all'[k] = p[k - Len(all)]
        BY <1>3, <1>4, <1>7, <2>1, <3>2
      <4> QED
        BY <1>4, <4>1, <4>2
    <3> QED
      BY <1>3, <2>1, <3>1, <3>2
  <2> QED
    BY <1>3, <1>4, <1>7, <1>8, <2>1, <2>2
<1>11. Range(all') = Range(all) \cup P
  BY <1>4, <1>5, <1>6, RangeConcatenation DEF TypeInv
<1>12. P \subseteq Ahead /\ Ahead' = Ahead \ P
  <2>1. P \subseteq Ahead
    BY <1>3 DEF Ahead
  <2>2. Ahead' = {dir[k] : k \in e + 1 .. Len(dir)}
    BY <1>1, <1>8 DEF Ahead
  <2>3. \A k \in e + 1 .. Len(dir), j \in start .. e : dir[k] # dir[j]
    BY <1>3 DEF TypeInv, IsInjective
  <2>4. ASSUME NEW x \in Ahead \ P PROVE x \in Ahead'
    <3>1. PICK k \in start .. Len(dir) : x = dir[k]
      BY DEF Ahead
    <3>2. k \notin start .. e
      BY <3>1
    <3> QED
      BY <1>3, <2>2, <3>1, <3>2
  <2>5. ASSUME NEW k \in e + 1 .. Len(dir) PROVE dir[k] \in Ahead \ P
    BY <1>3, <2>3 DEF Ahead
  <2> QED
    BY <2>1, <2>2, <2>4, <2>5
<1> HIDE DEF P
<1>13. MissInv'
  <2>1. (stayed \ (Range(all) \cup Ahead))' = stayed \ (Range(all) \cup Ahead)
    BY <1>1, <1>11, <1>12
  <2> QED
    BY <1>1, <2>1, Zenon DEF MissInv
<1>14. RepeatInv'
  <2>1. Cardinality(P) = Len(p)
    <3>1. dir \in Seq(Names) /\ IsInjective(dir)
      BY DEF TypeInv
    <3>2. Cardinality({dir[k] : k \in start .. e}) = (e - start) + 1
      BY <1>3, <3>1, Stretch, Zenon
    <3> QED
      BY <1>4, <3>2 DEF P
  <2>2. Cardinality(P) + Cardinality((Range(all) \cup P) \cap (Ahead \ P)) + Cardinality(Range(all))
          = Cardinality(Range(all) \cup P) + Cardinality(Range(all) \cap Ahead)
    BY <1>12, Finite, PageCounts
  <2>3. /\ Cardinality(Range(all)') = Cardinality(Range(all) \cup P)
        /\ Cardinality((Range(all) \cap Ahead)') = Cardinality((Range(all) \cup P) \cap (Ahead \ P))
    BY <1>11, <1>12
  <2>4. /\ Cardinality(Range(all)') \in Nat /\ Cardinality((Range(all) \cap Ahead)') \in Nat
        /\ Cardinality(Range(all)) \in Nat /\ Cardinality(Range(all) \cap Ahead) \in Nat
        /\ Len(all) \in Nat /\ Len(p) \in Nat
    <3>1. Range(all') \subseteq Names /\ Range(all') \cap Ahead' \subseteq Names
      BY <1>7, RangeOfSeq
    <3>2. Len(p) \in Nat
      BY <1>4
    <3> QED
      BY <3>1, <3>2, Finite, Counted
  <2> QED
    <3>1. Len(all) + Cardinality(Range(all) \cap Ahead) <= Cardinality(Range(all)) + added
      BY <1>1, Zenon DEF RepeatInv
    <3>2. Len(all') = Len(all) + Len(p) /\ added' = added /\ added \in Nat
      BY <1>1, <1>7 DEF TypeInv
    <3>3. Len(all') + Cardinality((Range(all) \cap Ahead)') <= Cardinality(Range(all)') + added'
      BY <2>1, <2>2, <2>3, <2>4, <3>1, <3>2
    <3> QED
      BY <3>3, Zenon DEF RepeatInv
<1> QED
  BY <1>1, <1>9, <1>10, <1>13, <1>14 DEF DoneInv

\* A function on the first n numbers is a sequence of length n.
LEMMA FunIsSeq ==
  ASSUME NEW S, NEW n \in Nat, NEW f \in [1 .. n -> S]
  PROVE  f \in Seq(S) /\ Len(f) = n
<1>1. f \in Seq(S)
  BY SeqDef
<1>2. DOMAIN f = 1 .. n /\ DOMAIN f = 1 .. Len(f) /\ Len(f) \in Nat
  BY <1>1
<1> QED
  BY <1>1, <1>2

\* An entry more: everything ahead stays ahead, and at most one entry joins it.
LEMMA AddEntryStep ==
  ASSUME Inv, NEW n \in Names, NEW i \in 1 .. Len(dir) + 1, AddEntry(n, i)
  PROVE  Inv'
<1> USE DEF Inv
<1>1. /\ phase = "loop" /\ phase' = phase /\ start' = start /\ all' = all /\ stayed' = stayed
      /\ added' = added + 1 /\ removed' = removed /\ n \notin Range(dir)
      /\ dir' = [k \in 1 .. Len(dir) + 1 |->
                   IF k < i THEN dir[k] ELSE IF k = i THEN n ELSE dir[k - 1]]
  BY DEF AddEntry
<1>2. /\ start \in Nat \ {0} /\ Len(dir) \in Nat /\ i \in Nat /\ DOMAIN dir = 1 .. Len(dir)
      /\ \A k \in 1 .. Len(dir) : dir[k] \in Names /\ dir[k] # n
  BY <1>1 DEF TypeInv, Range
<1>3. dir' \in Seq(Names) /\ Len(dir') = Len(dir) + 1
  <2>1. dir' \in [1 .. Len(dir) + 1 -> Names]
    BY <1>1, <1>2
  <2>2. Len(dir) + 1 \in Nat
    BY <1>2
  <2> QED
    BY <2>1, <2>2, FunIsSeq
<1>4. /\ \A k \in 1 .. Len(dir) + 1 : k < i => dir'[k] = dir[k]
      /\ dir'[i] = n
      /\ \A k \in 1 .. Len(dir) + 1 : k > i => dir'[k] = dir[k - 1]
  BY <1>1, <1>2
<1>5. IsInjective(dir')
  <2>1. DOMAIN dir' = 1 .. Len(dir) + 1
    BY <1>1
  <2>2. \A a, b \in 1 .. Len(dir) : dir[a] = dir[b] => a = b
    BY <1>2 DEF TypeInv, IsInjective
  <2> SUFFICES ASSUME NEW a \in 1 .. Len(dir) + 1, NEW b \in 1 .. Len(dir) + 1, dir'[a] = dir'[b]
               PROVE  a = b
    BY <2>1 DEF IsInjective
  <2>3. CASE a = i \/ b = i
    BY <1>2, <1>4, <2>3
  <2>4. CASE a < i /\ b < i
    BY <1>2, <1>4, <2>2, <2>4
  <2>5. CASE a > i /\ b > i
    BY <1>2, <1>4, <2>2, <2>5
  <2>6. CASE (a < i /\ b > i) \/ (a > i /\ b < i)
    BY <1>2, <1>4, <2>2, <2>6
  <2> QED
    BY <2>3, <2>4, <2>5, <2>6
<1>6. TypeInv'
  BY <1>1, <1>3, <1>5 DEF TypeInv
<1>7. QuietInv'
  BY <1>1 DEF QuietInv, TypeInv
<1>8. Ahead' = {dir'[k] : k \in start .. Len(dir) + 1}
  BY <1>1, <1>3, Zenon DEF Ahead
<1>9. Ahead \subseteq Ahead'
  <2> SUFFICES ASSUME NEW k \in start .. Len(dir) PROVE dir[k] \in Ahead'
    BY DEF Ahead
  <2>1. CASE k < i
    BY <1>2, <1>4, <1>8, <2>1
  <2>2. CASE k >= i
    <3>1. dir'[k + 1] = dir[k] /\ k + 1 \in start .. Len(dir) + 1
      BY <1>2, <1>4, <2>2
    <3> QED
      BY <1>8, <3>1
  <2> QED
    BY <1>2, <2>1, <2>2
<1>10. PICK x : Ahead' \subseteq Ahead \cup {x}
  <2> DEFINE y == IF i >= start THEN n ELSE dir[start - 1]
  <2> SUFFICES ASSUME NEW k \in start .. Len(dir) + 1 PROVE dir'[k] \in Ahead \cup {y}
    BY <1>8, Zenon
  <2>1. CASE k < i
    BY <1>2, <1>4, <2>1 DEF Ahead
  <2>2. CASE k = i
    BY <1>2, <1>4, <2>2
  <2>3. CASE k > i
    <3>1. dir'[k] = dir[k - 1]
      BY <1>2, <1>4, <2>3
    <3>2. CASE k - 1 >= start
      BY <1>2, <3>1, <3>2 DEF Ahead
    <3>3. CASE k = start
      BY <1>2, <2>3, <3>1, <3>3
    <3> QED
      BY <1>2, <3>2, <3>3
  <2> QED
    BY <1>2, <2>1, <2>2, <2>3
<1>11. MissInv'
  <2> DEFINE Old == stayed \ (Range(all) \cup Ahead)
             New == stayed \ (Range(all) \cup Ahead')
  <2>1. New \subseteq Old
    BY <1>9
  <2>2. IsFiniteSet(Old) /\ Cardinality(Old) \in Nat /\ Cardinality(Old) <= removed
    BY <1>1, Finite DEF MissInv
  <2>3. Cardinality(New) <= Cardinality(Old) /\ Cardinality(New) \in Nat
    <3> HIDE DEF Old, New
    <3> QED
      BY <2>1, <2>2, FS_Subset, FS_CardinalityType
  <2>4. Cardinality(New) <= removed
    <3> HIDE DEF Old, New
    <3> QED
      BY <2>2, <2>3 DEF TypeInv
  <2> QED
    BY <1>1, <2>4 DEF MissInv
<1>12. RepeatInv'
  <2> DEFINE Old == Range(all) \cap Ahead
             New == Range(all) \cap Ahead'
  <2>1. New \subseteq Old \cup {x}
    BY <1>10
  <2>2. /\ IsFiniteSet(Old) /\ Cardinality(Old) \in Nat /\ Cardinality(Range(all)) \in Nat
        /\ Len(all) \in Nat /\ Len(all) + Cardinality(Old) <= Cardinality(Range(all)) + added
    BY <1>1, Finite DEF RepeatInv
  <2>3. New \subseteq Names
    BY Finite
  <2> HIDE DEF Old
  <2>4. Cardinality(New) <= Cardinality(Old) + 1 /\ Cardinality(New) \in Nat
    <3> HIDE DEF New
    <3> QED
      BY <2>1, <2>2, <2>3, OneMore, Counted, Zenon
  <2>5. Len(all) + Cardinality(New) <= Cardinality(Range(all)) + (added + 1)
    <3> HIDE DEF New
    <3> QED
      BY <2>2, <2>4 DEF TypeInv
  <2> QED
    BY <1>1, <2>5 DEF RepeatInv
<1> QED
  BY <1>1, <1>6, <1>7, <1>11, <1>12 DEF DoneInv

\* An entry less: nothing new is ahead, and at most one entry that stays is
\* no longer ahead.
LEMMA RemoveEntryStep ==
  ASSUME Inv, NEW i \in 1 .. Len(dir), RemoveEntry(i)
  PROVE  Inv'
<1> USE DEF Inv
<1>1. /\ phase = "loop" /\ phase' = phase
      /\ start' = start /\ all' = all /\ stayed' = stayed \ {dir[i]}
      /\ added' = added /\ removed' = removed + 1
      /\ dir' = [k \in 1 .. Len(dir) - 1 |-> IF k < i THEN dir[k] ELSE dir[k + 1]]
  BY DEF RemoveEntry
<1>2. /\ start \in Nat \ {0} /\ Len(dir) \in Nat \ {0} /\ i \in Nat
      /\ DOMAIN dir = 1 .. Len(dir) /\ \A k \in 1 .. Len(dir) : dir[k] \in Names
  BY DEF TypeInv
<1>3. dir' \in Seq(Names) /\ Len(dir') = Len(dir) - 1
  <2>1. dir' \in [1 .. Len(dir) - 1 -> Names]
    BY <1>1, <1>2
  <2>2. Len(dir) - 1 \in Nat
    BY <1>2
  <2> QED
    BY <2>1, <2>2, FunIsSeq
<1>4. \A k \in 1 .. Len(dir) - 1 : dir'[k] = dir[IF k < i THEN k ELSE k + 1]
  BY <1>1, <1>2
<1>5. IsInjective(dir')
  <2>1. DOMAIN dir' = 1 .. Len(dir) - 1
    BY <1>1
  <2>2. \A a, b \in 1 .. Len(dir) : dir[a] = dir[b] => a = b
    BY <1>2 DEF TypeInv, IsInjective
  <2> SUFFICES ASSUME NEW a \in 1 .. Len(dir) - 1, NEW b \in 1 .. Len(dir) - 1, dir'[a] = dir'[b]
               PROVE  a = b
    BY <2>1 DEF IsInjective
  <2>3. (IF a < i THEN a ELSE a + 1) = (IF b < i THEN b ELSE b + 1)
    BY <1>2, <1>4, <2>2
  <2> QED
    BY <1>2, <2>3
<1>6. TypeInv'
  BY <1>1, <1>3, <1>5 DEF TypeInv
<1>7. QuietInv'
  BY <1>1 DEF QuietInv, TypeInv
<1>8. Ahead' = {dir'[k] : k \in start .. Len(dir) - 1}
  BY <1>1, <1>3, Zenon DEF Ahead
<1>9. Ahead' \subseteq Ahead
  <2> SUFFICES ASSUME NEW k \in start .. Len(dir) - 1 PROVE dir'[k] \in Ahead
    BY <1>8
  <2>1. k \in start .. Len(dir) /\ k + 1 \in start .. Len(dir) /\ k \in 1 .. Len(dir) - 1
    BY <1>2
  <2> QED
    BY <1>4, <2>1 DEF Ahead
<1>10. /\ i < start => Ahead \subseteq Ahead' \cup {dir[start]}
       /\ i >= start => Ahead \subseteq Ahead' \cup {dir[i]}
  <2>1. ASSUME NEW k \in start .. Len(dir), k < i PROVE dir[k] \in Ahead'
    BY <1>2, <1>4, <1>8, <2>1
  <2>2. ASSUME NEW k \in start .. Len(dir), k > i, k # start PROVE dir[k] \in Ahead'
    <3>1. k - 1 \in start .. Len(dir) - 1 /\ dir'[k - 1] = dir[k]
      BY <1>2, <1>4, <2>2
    <3> QED
      BY <1>8, <3>1
  <2>3. ASSUME NEW k \in start .. Len(dir), dir[k] \notin Ahead'
        PROVE  k = i \/ (k = start /\ i < start)
    BY <1>2, <2>1, <2>2, <2>3
  <2>4. \A k \in start .. Len(dir) : dir[k] \notin Ahead' => k = i \/ (k = start /\ i < start)
    BY <2>3
  <2>5. i < start => \A k \in start .. Len(dir) : k # i
    BY <1>2
  <2> QED
    BY <1>2, <2>4, <2>5 DEF Ahead
<1>11. MissInv'
  <2> DEFINE Old == stayed \ (Range(all) \cup Ahead)
             New == (stayed \ {dir[i]}) \ (Range(all) \cup Ahead')
  <2>1. New \subseteq Old \cup {dir[start]}
    BY <1>2, <1>10
  <2>2. IsFiniteSet(Old) /\ Cardinality(Old) \in Nat /\ Cardinality(Old) <= removed
    BY <1>1, Finite DEF MissInv
  <2>3. New \subseteq Names
    BY DEF TypeInv
  <2> HIDE DEF Old
  <2>4. Cardinality(New) <= Cardinality(Old) + 1 /\ Cardinality(New) \in Nat
    <3> HIDE DEF New
    <3> QED
      BY <2>1, <2>2, <2>3, OneMore, Counted, Zenon
  <2>5. Cardinality(New) <= removed + 1
    <3> HIDE DEF New
    <3> QED
      BY <2>2, <2>4 DEF TypeInv
  <2> QED
    BY <1>1, <2>5 DEF MissInv
<1>12. RepeatInv'
  <2> DEFINE Old == Range(all) \cap Ahead
             New == Range(all) \cap Ahead'
  <2>1. New \subseteq Old
    BY <1>9
  <2>2. /\ IsFiniteSet(Old) /\ Cardinality(Old) \in Nat /\ Cardinality(Range(all)) \in Nat
        /\ Len(all) \in Nat /\ Len(all) + Cardinality(Old) <= Cardinality(Range(all)) + added
    BY <1>1, Finite DEF RepeatInv
  <2>3. Cardinality(New) <= Cardinality(Old) /\ Cardinality(New) \in Nat
    <3> HIDE DEF Old, New
    <3> QED
      BY <2>1, <2>2, FS_Subset, FS_CardinalityType
  <2>4. Len(all) + Cardinality(New) <= Cardinality(Range(all)) + added
    <3> HIDE DEF Old, New
    <3> QED
      BY <2>2, <2>3 DEF TypeInv
  <2> QED
    BY <1>1, <2>4 DEF RepeatInv
<1> QED
  BY <1>1, <1>6, <1>7, <1>11, <1>12 DEF DoneInv

\* The loop ends when nothing is ahead.
LEMMA PastEndStep == ASSUME Inv, PastEnd PROVE Inv'
<1> USE DEF Inv
<1>1. /\ phase = "loop" /\ phase' = "done" /\ start > Len(dir)
      /\ UNCHANGED <<dir, start, all, err, stayed, added, removed>>
  BY DEF PastEnd, others
<1>2. Ahead = {}
  BY <1>1 DEF Ahead, TypeInv
<1>3. added = 0 /\ removed = 0 => all = dir
  <2> SUFFICES ASSUME added = 0, removed = 0 PROVE all = dir
    OBVIOUS
  <2>1. Len(all) = Len(dir) /\ \A k \in 1 .. Len(all) : all[k] = dir[k]
    BY <1>1 DEF QuietInv, TypeInv
  <2>2. all \in Seq(Names) /\ dir \in Seq(Names)
    BY DEF TypeInv
  <2> QED
    BY <2>1, <2>2, SeqEqual
<1>4. Cardinality(stayed \ Range(all)) <= removed
  <2>1. stayed \ (Range(all) \cup Ahead) = stayed \ Range(all)
    BY <1>2
  <2> QED
    BY <1>1, <2>1, Zenon DEF MissInv
<1>5. Len(all) - Cardinality(Range(all)) <= added
  <2>1. Range(all) \cap Ahead = {}
    BY <1>2
  <2>2. Cardinality(Range(all) \cap Ahead) = 0
    BY <2>1, FS_EmptySet, Zenon
  <2> QED
    BY <1>1, <2>2, Finite DEF RepeatInv, TypeInv
<1>6. TypeInv' /\ QuietInv' /\ MissInv' /\ RepeatInv'
  BY <1>1 DEF TypeInv, QuietInv, MissInv, RepeatInv
<1>7. DoneInv'
  BY <1>1, <1>3, <1>4, <1>5 DEF DoneInv, ExactWhenQuiet, OffByChanges, Listed
<1> QED
  BY <1>6, <1>7

\* Errors: nothing is listed, or the listing starts over.
LEMMA ErrorStep == ASSUME Inv, PageError \/ Drop PROVE Inv'
<1> USE DEF Inv
<1>1. phase = "loop" /\ dir' = dir
  BY DEF PageError, Drop
<1>2. CASE phase' = "done"
  <2>1. err' # "nil" /\ all' = <<>> /\ UNCHANGED <<start, stayed, added, removed>>
    BY <1>1, <1>2 DEF PageError, Drop, others
  <2> QED
    BY <1>1, <1>2, <2>1, EmptySeq
    DEF TypeInv, QuietInv, MissInv, RepeatInv, DoneInv, ExactWhenQuiet, OffByChanges, Listed
<1>3. CASE phase' # "done"
  <2>1. /\ phase' = "loop" /\ all' = <<>> /\ start' = 1 /\ stayed' = Range(dir')
        /\ added' = 0 /\ removed' = 0
    BY <1>1, <1>3 DEF PageError, Drop, Rerun
  <2>2. TypeInv'
    BY <1>1, <2>1, EmptySeq, RangeOfSeq DEF TypeInv
  <2>3. Len(all') = 0 /\ Range(all') = {} /\ Ahead' = Range(dir')
    BY <1>1, <2>1, FreshStart DEF TypeInv, Ahead
  <2>4. QuietInv'
    BY <2>1, <2>2, <2>3 DEF QuietInv, TypeInv
  <2>5. Cardinality({}) = 0
    BY FS_EmptySet
  <2>6. MissInv'
    <3>1. stayed' \ (Range(all') \cup Ahead') = {}
      BY <2>1, <2>3
    <3>2. Cardinality(stayed' \ (Range(all') \cup Ahead')) = 0
      BY <2>5, <3>1, Zenon
    <3> QED
      BY <2>1, <3>2 DEF MissInv
  <2>7. RepeatInv'
    <3>1. Range(all') \cap Ahead' = {}
      BY <2>3
    <3>2. Cardinality(Range(all') \cap Ahead') = 0 /\ Cardinality(Range(all')) = 0
      BY <2>3, <2>5, <3>1, Zenon
    <3> QED
      BY <2>1, <2>3, <3>2 DEF RepeatInv
  <2> QED
    BY <2>1, <2>2, <2>4, <2>6, <2>7 DEF DoneInv
<1> QED
  BY <1>2, <1>3

LEMMA NextInv == Inv /\ [ListNext]_listVars => Inv'
<1>1. ASSUME Inv, UNCHANGED listVars PROVE Inv'
  BY <1>1 DEF listVars, others, Inv, TypeInv, QuietInv, MissInv, RepeatInv, DoneInv, Ahead,
     ExactWhenQuiet, OffByChanges, Listed
<1> QED
  BY <1>1, FetchPageStep, PastEndStep, ErrorStep, AddEntryStep, RemoveEntryStep
  DEF ListNext, ReadDir

LEMMA Invariance == ListSpec => []Inv
BY InitInv, NextInv, PTL DEF ListSpec

\* The listing of a directory nobody changes is the directory, however the
\* server cuts its pages, also after a reconnect half way.
THEOREM QuietListingIsExact == ListSpec => []ExactWhenQuiet
<1>1. Inv => ExactWhenQuiet
  BY DEF Inv, DoneInv, ExactWhenQuiet, Listed
<1> QED
  BY <1>1, Invariance, PTL

\* A listing misses no more entries than others removed while it ran, and
\* repeats no more names than they added.
THEOREM ListingIsOffByChanges == ListSpec => []OffByChanges
<1>1. Inv => OffByChanges
  BY DEF Inv, DoneInv, OffByChanges, Listed
<1> QED
  BY <1>1, Invariance, PTL
-----------------------------------------------------------------------------
(* Command. *)

Reqs == {"openSession", "loginStep", "auth", "openVol", "openFork", "op"} \cup Releases

\* The deferred calls are a beginning of this list.
Order == <<"closeSession", "logout", "closeVol", "closeFork">>

\* What is still to be asked for suits n deferred calls: the volume is opened
\* once, and before the fork, which is opened once.
Suits(n, t) ==
  /\ t \in Seq({"openVol", "openFork", "op"})
  /\ \A i \in 1 .. Len(t) : t[i] = "openVol" => n = 2
  /\ \A i \in 1 .. Len(t) : t[i] = "openFork" =>
       n = 3 \/ (n = 2 /\ \E j \in 1 .. i - 1 : t[j] = "openVol")
  /\ \A i, j \in 1 .. Len(t) : t[i] = t[j] /\ t[i] # "op" => i = j

CmdTypeInv ==
  /\ cmd \in DOMAIN Plan /\ sent \in Seq(Reqs) /\ up \in BOOLEAN
  /\ deferred \in Seq(Reqs) /\ Len(deferred) \in {0, 2, 3, 4} /\ left \in 0 .. Len(deferred)
  /\ \A i \in 1 .. Len(deferred) : deferred[i] = Order[i]

ConnInv ==
  /\ pc \in {"status", "dial", "open", "login", "body", "serve", "abort", "return",
             "done"}
  /\ pc = "status" => conns \in {{}, {"status"}}
  /\ pc \in {"dial", "done"} => conns = {}
  /\ pc \in {"open", "login", "body", "serve", "abort"} => conns = {"session"}
  /\ pc = "return" => conns = IF left = 0 THEN {} ELSE {"session"}

PlanInv ==
  /\ pc \in {"status", "dial", "open", "login"} => todo = Plan[cmd]
  /\ pc \notin {"body", "return", "done"} => Len(deferred) = 0
  /\ cmd = "mount" => Len(deferred) = 0 /\ pc # "return"
  /\ pc = "body" /\ cmd = "mount" =>
       todo \in Seq({"openVol"})
  /\ pc = "body" /\ cmd # "mount" =>
       Len(deferred) # 0 /\ left = Len(deferred) /\ Suits(Len(deferred), todo)
  /\ pc = "return" => Len(deferred) # 0

\* What the first n of the deferred calls need.
Held(n) ==
  /\ n >= 2 => {"session", "auth"} \subseteq granted
  /\ n >= 3 => "vol" \in granted
  /\ n >= 4 => "fork" \in granted

HeldInv ==
  up => /\ pc = "login" => "session" \in granted
        /\ pc = "body" => {"session", "auth"} \subseteq granted
        /\ pc \in {"body", "return"} => Held(left)

\* The last k requests are the releases of the last k deferred calls.
Mirrored(k) ==
  /\ k <= Len(sent)
  /\ \A i \in 1 .. Len(sent) - k : sent[i] \notin Releases
  /\ \A i \in 1 .. k : sent[(Len(sent) - k) + i] = deferred[(Len(deferred) - i) + 1]

SentInv ==
  /\ pc \in {"status", "dial", "open", "login", "body"} =>
       \A i \in 1 .. Len(sent) : sent[i] \notin Releases
  /\ pc = "return" /\ up => Mirrored(Len(deferred) - left)
  /\ pc = "done" /\ up /\ Len(deferred) # 0 => Mirrored(Len(deferred))

CmdInv == CmdTypeInv /\ ConnInv /\ PlanInv /\ HeldInv /\ SentInv

-----------------------------------------------------------------------------
\* What the server holds after a request.
LEMMA AfterIs ==
  /\ \A q \in {"openSession", "loginStep", "auth", "openVol", "openFork", "op"} :
       granted \subseteq After(q)
  /\ "session" \in After("openSession") /\ "auth" \in After("auth")
  /\ "vol" \in After("openVol") /\ "fork" \in After("openFork")
  /\ After("closeFork") = granted \ {"fork"} /\ After("closeVol") = granted \ {"vol"}
<1>1. /\ After("openSession") = granted \cup {"session"}
      /\ After("auth") = granted \cup {"auth"}
      /\ After("openVol") = granted \cup {"vol"} /\ After("openFork") = granted \cup {"fork"}
      /\ After("loginStep") = granted /\ After("op") = granted
      /\ After("closeFork") = granted \ {"fork"} /\ After("closeVol") = granted \ {"vol"}
  BY Zenon DEF After
<1> QED
  BY <1>1

\* A request goes out while the link works, and only then; what the server
\* holds is what it held or what it holds after the request.
LEMMA RequestStep ==
  ASSUME NEW q \in Reqs, Answered(q) \/ NotAnswered(q),
         sent \in Seq(Reqs), up \in BOOLEAN, conns = {"session"}
  PROVE  /\ sent' \in Seq(Reqs) /\ up' \in BOOLEAN
         /\ up => sent' = Append(sent, q)
         /\ ~up => sent' = sent /\ ~up'
         /\ up' => up /\ granted' \in {granted, After(q)}
<1>1. Write(q)
  BY Zenon DEF Answered, NotAnswered
<1>2. (up => sent' = Append(sent, q)) /\ (~up => sent' = sent)
  BY <1>1 DEF Write, Reachable
<1>3. sent' \in Seq(Reqs)
  BY <1>1 DEF Write
<1>4. up' \in BOOLEAN /\ (~up => ~up') /\ (up' => granted' \in {granted, After(q)})
  <2>1. CASE UNCHANGED env /\ granted' \in {granted, After(q)}
    <3>1. up' = up
      BY <2>1 DEF env
    <3> QED
      BY <2>1, <3>1
  <2>2. CASE up' = FALSE
    BY <2>2, Zenon
  <2>3. CASE Reachable /\ up' = up /\ granted' \in {granted, After(q)}
    BY <2>3
  <2> QED
    BY <2>1, <2>2, <2>3, Zenon DEF Answered, NotAnswered
<1> QED
  BY <1>2, <1>3, <1>4, Zenon

\* A request that releases nothing leaves a run without releases.
LEMMA NoRelease ==
  ASSUME NEW q \in Reqs \ Releases, sent \in Seq(Reqs), sent' \in {sent, Append(sent, q)},
         \A i \in 1 .. Len(sent) : sent[i] \notin Releases
  PROVE  \A i \in 1 .. Len(sent') : sent'[i] \notin Releases
OBVIOUS

\* Nothing is mirrored yet when the run has made no release.
LEMMA MirroredNone ==
  ASSUME sent \in Seq(Reqs), \A i \in 1 .. Len(sent) : sent[i] \notin Releases
  PROVE  Mirrored(0)
BY DEF Mirrored

\* The commands' plans.
LEMMA PlansSuit ==
  ASSUME NEW c \in DOMAIN Plan
  PROVE  /\ c # "mount" => Suits(2, Plan[c])
         /\ c = "mount" => Plan[c] \in Seq({"openVol"})
<1> DEFINE A == {"openVol", "openFork", "op"}
<1>1. /\ <<"op">> \in Seq(A) /\ <<"openVol", "op">> \in Seq(A) /\ <<>> \in Seq(A)
      /\ <<"openVol", "openFork", "op">> \in Seq(A)
      /\ <<"openVol", "op", "openFork", "op">> \in Seq(A)
      /\ <<"openVol">> \in Seq({"openVol"})
  OBVIOUS
<1>2. CASE c = "put"
  BY <1>1, <1>2 DEF Plan, Suits
<1>3. CASE c = "get"
  BY <1>1, <1>3 DEF Plan, Suits
<1>4. CASE c = "ls"
  BY <1>1, <1>4 DEF Plan, Suits
<1>5. CASE c = "volumes"
  BY <1>1, <1>5 DEF Plan, Suits
<1>6. CASE c = "status"
  <2>1. Plan[c] = <<>> /\ Len(<<>>) = 0
    BY <1>6 DEF Plan
  <2> QED
    BY <1>1, <1>6, <2>1 DEF Suits
<1> QED
  BY <1>1, <1>2, <1>3, <1>4, <1>5, <1>6 DEF Plan

LEMMA CmdInitInv == Init => CmdInv
<1> SUFFICES ASSUME Init PROVE CmdInv
  OBVIOUS
<1>1. CmdTypeInv
  BY EmptySeq DEF Init, CmdTypeInv
<1>2. ConnInv /\ HeldInv /\ PlanInv
  BY DEF Init, ConnInv, HeldInv, PlanInv
<1>3. SentInv
  BY DEF Init, SentInv
<1> QED
  BY <1>1, <1>2, <1>3 DEF CmdInv

-----------------------------------------------------------------------------
\* The steps of connect before a request, and those that only go on.
LEMMA QuietStep ==
  ASSUME CmdInv, FetchStatus \/ ParseServerInfo \/ Dial \/ NoUAM \/ BodyDone
         \/ ServeReturns \/ Return
  PROVE  CmdInv'
<1> USE DEF CmdInv
<1>1. /\ cmd' = cmd /\ sent' = sent /\ up' = up /\ granted' = granted
      /\ left' = left /\ deferred' = deferred
  BY DEF FetchStatus, ParseServerInfo, Dial, NoUAM, BodyDone, ServeReturns, Return,
     env
<1>2. CmdTypeInv'
  BY <1>1, Zenon DEF CmdTypeInv
<1>3. ConnInv' /\ PlanInv'
  <2>1. CASE FetchStatus
    BY <1>1, <2>1 DEF ConnInv, PlanInv, FetchStatus, Stop
  <2>2. CASE ParseServerInfo
    BY <1>1, <2>2 DEF ConnInv, PlanInv, ParseServerInfo, Stop
  <2>3. CASE Dial \/ NoUAM
    BY <1>1, <2>3 DEF ConnInv, PlanInv, Dial, NoUAM, Stop
  <2>4. CASE BodyDone \/ ServeReturns
    BY <1>1, <2>4 DEF ConnInv, PlanInv, BodyDone, ServeReturns
  <2>5. CASE Return
    BY <1>1, <2>5 DEF ConnInv, PlanInv, Return, Stop
  <2> QED
    BY <2>1, <2>2, <2>3, <2>4, <2>5
<1>4. HeldInv'
  BY <1>1 DEF HeldInv, Held, FetchStatus, ParseServerInfo, Dial, NoUAM, BodyDone,
     ServeReturns, Return, Stop, CmdTypeInv, PlanInv
<1>5. SentInv'
  <2>1. \A n \in Nat : Mirrored(n)' <=> Mirrored(n)
    BY <1>1 DEF Mirrored
  <2>2. CASE BodyDone
    <3>1. pc' = "return" => Len(deferred) - left = 0
      BY <2>2 DEF BodyDone, PlanInv, CmdTypeInv
    <3>2. Mirrored(0)'
      BY <2>1, <2>2, MirroredNone DEF SentInv, CmdTypeInv, BodyDone
    <3> QED
      BY <1>1, <2>2, <3>1, <3>2 DEF SentInv, BodyDone
  <2>3. CASE Return
    <3>1. up => Mirrored(Len(deferred))
      BY <2>3 DEF SentInv, Return, CmdTypeInv
    <3> QED
      BY <1>1, <2>3, <3>1 DEF SentInv, Return, Stop, Mirrored
  <2>4. CASE FetchStatus \/ ParseServerInfo \/ Dial \/ NoUAM
    <3>1. /\ pc \in {"status", "dial", "login"} /\ Len(deferred') = 0
          /\ pc' \in {"status", "dial", "open", "abort", "done"}
      BY <1>1, <2>4 DEF PlanInv, FetchStatus, ParseServerInfo, Dial, NoUAM, Stop
    <3> QED
      BY <1>1, <3>1, Zenon DEF SentInv
  <2>5. CASE ServeReturns
    BY <1>1, <2>5 DEF SentInv, ServeReturns
  <2> QED
    BY <2>2, <2>3, <2>4, <2>5
<1> QED
  BY <1>2, <1>3, <1>4, <1>5

\* OpenSession and the messages of the login.
LEMMA LoginStep ==
  ASSUME CmdInv, OpenSession \/ LoginContinue \/ LoggedIn \/ LoginFails
  PROVE  CmdInv'
<1> USE DEF CmdInv
<1>1. /\ pc \in {"open", "login"} /\ conns = {"session"} /\ conns' = conns
      /\ cmd' = cmd /\ todo' = todo /\ Len(deferred) = 0 /\ todo = Plan[cmd]
  BY DEF OpenSession, LoginContinue, LoggedIn, LoginFails, ConnInv, PlanInv
<1>2. PICK q \in {"openSession", "loginStep", "auth"} : Answered(q) \/ NotAnswered(q)
  BY DEF OpenSession, LoginContinue, LoggedIn, LoginFails
<1>3. /\ sent' \in Seq(Reqs) /\ up' \in BOOLEAN /\ sent' \in {sent, Append(sent, q)}
      /\ up' => up /\ granted' \in {granted, After(q)}
  BY <1>1, <1>2, RequestStep DEF CmdTypeInv, Reqs
<1>4. /\ \/ UNCHANGED <<deferred, left>> /\ pc' \in {"login", "abort"}
         \/ pc' = "body" /\ cmd = "mount" /\ deferred' = <<>> /\ left' = 0
         \/ pc' = "body" /\ cmd # "mount" /\ deferred' = <<"closeSession", "logout">> /\ left' = 2
      /\ pc' = "login" \/ pc' \in {"body", "abort"}
  BY <1>1, Zenon DEF OpenSession, LoginContinue, LoggedIn, LoginFails
<1>5. CmdTypeInv'
  <2>1. /\ deferred' \in Seq(Reqs) /\ Len(deferred') \in {0, 2} /\ left' \in 0 .. Len(deferred')
        /\ \A i \in 1 .. Len(deferred') : deferred'[i] = Order[i]
    <3>1. CASE UNCHANGED <<deferred, left>>
      BY <1>1, <3>1 DEF CmdTypeInv
    <3>2. CASE deferred' = <<>> /\ left' = 0
      BY <3>2
    <3>3. CASE deferred' = <<"closeSession", "logout">> /\ left' = 2
      <4>1. <<"closeSession", "logout">> \in Seq(Reqs)
        BY DEF Reqs, Releases
      <4> QED
        BY <3>3, <4>1 DEF Order
    <3> QED
      BY <1>4, <3>1, <3>2, <3>3
  <2> QED
    BY <1>1, <1>3, <2>1, Zenon DEF CmdTypeInv
<1>6. ConnInv' /\ PlanInv'
  BY <1>1, <1>4, <1>5, PlansSuit DEF CmdTypeInv, ConnInv, PlanInv
<1>7. HeldInv'
  <2>1. up' => granted \subseteq granted'
    BY <1>2, <1>3, AfterIs
  <2>2. CASE OpenSession
    <3>1. pc' = "login" => "session" \in granted'
      BY <2>2, AfterIs DEF OpenSession, Answered
    <3> QED
      BY <2>2, <3>1 DEF HeldInv, OpenSession
  <2>3. CASE LoginContinue
    BY <1>3, <2>1, <2>3 DEF HeldInv, LoginContinue
  <2>4. CASE LoggedIn
    <3>1. up' => {"session", "auth"} \subseteq granted'
      BY <1>3, <2>1, <2>4, AfterIs DEF LoggedIn, Answered, HeldInv
    <3>2. left' <= 2
      BY <2>4 DEF LoggedIn
    <3> QED
      BY <2>4, <3>1, <3>2, <1>5 DEF HeldInv, Held, LoggedIn, CmdTypeInv
  <2>5. CASE LoginFails
    BY <2>5 DEF HeldInv, LoginFails
  <2> QED
    BY <2>2, <2>3, <2>4, <2>5
<1>8. SentInv'
  <2>1. \A i \in 1 .. Len(sent') : sent'[i] \notin Releases
    BY <1>1, <1>3, NoRelease DEF Reqs, Releases, CmdTypeInv, SentInv
  <2>2. pc' \notin {"return", "done"}
    BY <1>1 DEF OpenSession, LoginContinue, LoggedIn, LoginFails
  <2> QED
    BY <2>1, <2>2 DEF SentInv
<1> QED
  BY <1>5, <1>6, <1>7, <1>8


\* What a request that worked leaves to be asked for suits the calls deferred.
LEMMA SuitsNext ==
  ASSUME NEW n \in {2, 3, 4}, NEW t, Suits(n, t), t # <<>>
  PROVE  /\ Head(t) \in {"openVol", "openFork", "op"}
         /\ Head(t) = "openVol" => n = 2 /\ Suits(3, Tail(t))
         /\ Head(t) = "openFork" => n = 3 /\ Suits(4, Tail(t))
         /\ Head(t) = "op" => Suits(n, Tail(t))
<1> DEFINE u == Tail(t)
<1>1. /\ t \in Seq({"openVol", "openFork", "op"}) /\ Len(t) \in Nat \ {0} /\ Head(t) = t[1]
      /\ u \in Seq({"openVol", "openFork", "op"}) /\ Len(u) = Len(t) - 1
      /\ \A i \in 1 .. Len(u) : u[i] = t[i + 1] /\ i + 1 \in 1 .. Len(t)
  BY DEF Suits
<1> HIDE DEF u
<1>2. \A i, j \in 1 .. Len(u) : u[i] = u[j] /\ u[i] # "op" => i = j
  BY <1>1 DEF Suits
<1>3. \A i \in 1 .. Len(u) : u[i] = Head(t) => Head(t) = "op"
  BY <1>1 DEF Suits
<1>4. CASE Head(t) = "openVol"
  <2>1. n = 2
    BY <1>1, <1>4 DEF Suits
  <2>2. Suits(3, u)
    BY <1>1, <1>2, <1>3, <1>4 DEF Suits
  <2> QED
    BY <1>4, <2>1, <2>2 DEF u
<1>5. CASE Head(t) = "openFork"
  <2>1. n = 3
    BY <1>1, <1>5 DEF Suits
  <2>2. Suits(4, u)
    BY <1>1, <1>2, <1>3, <1>5, <2>1 DEF Suits
  <2> QED
    BY <1>5, <2>1, <2>2 DEF u
<1>6. CASE Head(t) = "op"
  <2>1. \A i \in 1 .. Len(u) : u[i] = "openFork" =>
          n = 3 \/ (n = 2 /\ \E j \in 1 .. i - 1 : u[j] = "openVol")
    <3> SUFFICES ASSUME NEW i \in 1 .. Len(u), u[i] = "openFork", n # 3
                 PROVE  n = 2 /\ \E j \in 1 .. i - 1 : u[j] = "openVol"
      OBVIOUS
    <3>1. PICK j \in 1 .. i : t[j] = "openVol" /\ n = 2
      BY <1>1 DEF Suits
    <3>2. j # 1
      BY <1>1, <1>6, <3>1
    <3>3. j - 1 \in 1 .. i - 1 /\ u[j - 1] = "openVol"
      BY <1>1, <3>1, <3>2
    <3> QED
      BY <3>1, <3>3
  <2>2. \A i \in 1 .. Len(u) : u[i] = "openVol" => n = 2
    BY <1>1 DEF Suits
  <2> QED
    BY <1>1, <1>2, <1>6, <2>1, <2>2 DEF Suits, u
<1> QED
  BY <1>1, <1>4, <1>5, <1>6 DEF u

\* A deferred call more: the list goes on in its order.
LEMMA DeferMore ==
  ASSUME CmdTypeInv, NEW x \in Reqs, deferred' = deferred \o <<x>>, Len(deferred) \in {2, 3},
         x = Order[Len(deferred) + 1]
  PROVE  /\ deferred' \in Seq(Reqs) /\ Len(deferred') = Len(deferred) + 1
         /\ \A i \in 1 .. Len(deferred') : deferred'[i] = Order[i]
<1>1. deferred \in Seq(Reqs) /\ deferred' = Append(deferred, x)
  BY AppendIsConcat DEF CmdTypeInv
<1>2. /\ deferred' \in Seq(Reqs) /\ Len(deferred') = Len(deferred) + 1
      /\ \A i \in 1 .. Len(deferred) : deferred'[i] = deferred[i]
      /\ deferred'[Len(deferred) + 1] = x
  BY <1>1
<1> QED
  BY <1>2 DEF CmdTypeInv

\* A request of the command's own.
LEMMA BodyStepInv == ASSUME CmdInv, BodyStep PROVE CmdInv'
<1> USE DEF CmdInv
<1> DEFINE q == Head(todo)
<1>1. /\ pc = "body" /\ conns = {"session"} /\ conns' = conns /\ cmd' = cmd /\ todo # <<>>
      /\ \/ Answered(q) /\ todo' = Tail(todo) /\ Defer(q) /\ pc' = pc
         \/ /\ NotAnswered(q) /\ todo' = <<>> /\ UNCHANGED <<deferred, left>>
            /\ pc' = IF cmd = "mount" THEN "abort" ELSE "return"
  BY DEF BodyStep, ConnInv
<1>2. /\ q \in {"openVol", "openFork", "op"}
      /\ cmd # "mount" => Len(deferred) \in {2, 3, 4} /\ left = Len(deferred)
  <2>1. CASE cmd = "mount"
    BY <1>1, <2>1 DEF PlanInv
  <2>2. CASE cmd # "mount"
    BY <1>1, <2>2, SuitsNext, Zenon DEF PlanInv, CmdTypeInv
  <2> QED
    BY <2>1, <2>2
<1>3. /\ sent' \in Seq(Reqs) /\ up' \in BOOLEAN /\ sent' \in {sent, Append(sent, q)}
      /\ up' => up /\ granted' \in {granted, After(q)}
  <2> HIDE DEF q
  <2> QED
    BY <1>1, <1>2, RequestStep DEF CmdTypeInv, Reqs
<1>4. /\ up' => granted \subseteq granted'
      /\ Answered(q) => granted' = After(q)
  <2> HIDE DEF q
  <2> QED
    BY <1>2, <1>3, AfterIs DEF Answered
<1>5. PlanInv' /\ CmdTypeInv' /\ HeldInv'
  <2>1. CASE pc' # "body"
    <3>1. todo' = <<>> /\ UNCHANGED <<deferred, left>> /\ pc' \in {"abort", "return"}
      BY <1>1, <2>1
    <3>2. PlanInv' /\ CmdTypeInv'
      BY <1>1, <1>2, <1>3, <3>1, Zenon DEF PlanInv, CmdTypeInv
    <3>3. HeldInv'
      BY <1>1, <1>3, <1>4, <3>1 DEF HeldInv, Held, CmdTypeInv
    <3> QED
      BY <3>2, <3>3
  <2>2. CASE pc' = "body" /\ cmd = "mount"
    <3>1. Answered(q) /\ todo' = Tail(todo) /\ deferred' = <<>> /\ left' = 0
      BY <1>1, <2>2 DEF Defer
    <3>2. todo' \in Seq({"openVol"})
      BY <1>1, <2>2, <3>1 DEF PlanInv
    <3>3. PlanInv' /\ CmdTypeInv'
      BY <1>1, <1>3, <2>2, <3>1, <3>2 DEF PlanInv, CmdTypeInv
    <3>4. HeldInv'
      BY <1>1, <1>3, <1>4, <2>2, <3>1 DEF HeldInv, Held
    <3> QED
      BY <3>3, <3>4
  <2>3. CASE pc' = "body" /\ cmd # "mount"
    <3>1. /\ Answered(q) /\ todo' = Tail(todo)
          /\ deferred' = deferred \o Release[q] /\ left' = Len(deferred')
      BY <1>1, <2>3 DEF Defer
    <3>2. /\ q = "openVol" => Len(deferred) = 2 /\ Suits(3, todo')
          /\ q = "openFork" => Len(deferred) = 3 /\ Suits(4, todo')
          /\ q = "op" => Suits(Len(deferred), todo')
      BY <1>1, <1>2, <2>3, <3>1, SuitsNext, Zenon DEF PlanInv
    <3>3. /\ deferred' \in Seq(Reqs)
          /\ Len(deferred') = IF q = "op" THEN Len(deferred) ELSE Len(deferred) + 1
          /\ \A i \in 1 .. Len(deferred') : deferred'[i] = Order[i]
      <4> HIDE DEF q
      <4>1. CASE q = "op"
        <5>1. deferred' = deferred
          BY <3>1, <4>1 DEF Release, CmdTypeInv
        <5> QED
          BY <4>1, <5>1 DEF CmdTypeInv
      <4>2. CASE q = "openVol"
        <5>1. /\ deferred' = deferred \o <<"closeVol">> /\ "closeVol" \in Reqs
              /\ Order[3] = "closeVol"
          BY <3>1, <4>2 DEF Release, Reqs, Releases, Order
        <5>2. Len(deferred) \in {2, 3} /\ "closeVol" = Order[Len(deferred) + 1]
          <6>1. Len(deferred) = 2
            BY <3>2, <4>2, Zenon
          <6> QED
            BY <5>1, <6>1
        <5>3. /\ deferred' \in Seq(Reqs) /\ Len(deferred') = Len(deferred) + 1
              /\ \A i \in 1 .. Len(deferred') : deferred'[i] = Order[i]
          BY <5>1, <5>2, DeferMore, Zenon
        <5> QED
          BY <4>2, <5>3
      <4>3. CASE q = "openFork"
        <5>1. /\ deferred' = deferred \o <<"closeFork">> /\ "closeFork" \in Reqs
              /\ Order[4] = "closeFork"
          BY <3>1, <4>3 DEF Release, Reqs, Releases, Order
        <5>2. Len(deferred) \in {2, 3} /\ "closeFork" = Order[Len(deferred) + 1]
          <6>1. Len(deferred) = 3
            BY <3>2, <4>3, Zenon
          <6> QED
            BY <5>1, <6>1
        <5>3. /\ deferred' \in Seq(Reqs) /\ Len(deferred') = Len(deferred) + 1
              /\ \A i \in 1 .. Len(deferred') : deferred'[i] = Order[i]
          BY <5>1, <5>2, DeferMore, Zenon
        <5> QED
          BY <4>3, <5>3
      <4> QED
        BY <1>2, <4>1, <4>2, <4>3
    <3> HIDE DEF q
    <3>4. Len(deferred') \in {2, 3, 4} /\ Suits(Len(deferred'), todo')
      <4>1. CASE q = "op"
        BY <1>2, <2>3, <3>2, <3>3, <4>1, Zenon
      <4>2. CASE q = "openVol"
        <5>1. Len(deferred) = 2 /\ Suits(3, todo') /\ Len(deferred') = Len(deferred) + 1
          BY <3>2, <3>3, <4>2, Zenon
        <5> QED
          BY <5>1
      <4>3. CASE q = "openFork"
        <5>1. Len(deferred) = 3 /\ Suits(4, todo') /\ Len(deferred') = Len(deferred) + 1
          BY <3>2, <3>3, <4>3, Zenon
        <5> QED
          BY <5>1
      <4> QED
        BY <1>2, <4>1, <4>2, <4>3, Zenon
    <3>5. CmdTypeInv'
      <4>1. left' \in 0 .. Len(deferred')
        BY <3>1, <3>4
      <4> QED
        BY <1>1, <1>3, <3>3, <3>4, <4>1 DEF CmdTypeInv
    <3>6. PlanInv'
      BY <1>1, <2>3, <3>1, <3>4 DEF PlanInv
    <3>7. HeldInv'
      BY <1>1, <1>2, <1>3, <1>4, <2>3, <3>1, <3>2, <3>3, AfterIs DEF HeldInv, Held
    <3> QED
      BY <3>5, <3>6, <3>7
  <2> QED
    BY <2>1, <2>2, <2>3
<1>6. ConnInv'
  <2>1. CASE pc' = "return"
    <3>1. left' # 0 /\ conns' = {"session"}
      BY <1>1, <1>2, <2>1, SMTT(30)
    <3> QED
      BY <2>1, <3>1 DEF ConnInv
  <2>2. CASE pc' \in {"body", "abort"}
    BY <1>1, <2>2 DEF ConnInv
  <2> QED
    BY <1>1, <2>1, <2>2
<1>7. SentInv'
  <2>1. \A i \in 1 .. Len(sent') : sent'[i] \notin Releases
    <3> HIDE DEF q
    <3> QED
      BY <1>1, <1>2, <1>3, NoRelease DEF Reqs, Releases, CmdTypeInv, SentInv
  <2>2. pc' = "return" => Mirrored(Len(deferred) - left)'
    <3>1. pc' = "return" => Len(deferred') - left' = 0
      BY <1>1, <1>2
    <3> QED
      BY <1>3, <2>1, <3>1 DEF Mirrored
  <2> QED
    BY <1>1, <2>1, <2>2 DEF SentInv
<1> QED
  BY <1>5, <1>6, <1>7
\* One more release is mirrored.
LEMMA MirroredMore ==
  ASSUME NEW n \in Nat, n < Len(deferred), Mirrored(n), sent \in Seq(Reqs), deferred \in Seq(Reqs),
         deferred' = deferred, sent' = Append(sent, deferred[Len(deferred) - n])
  PROVE  Mirrored(n + 1)'
<1>1. Len(sent') = Len(sent) + 1 /\ Len(sent') - (n + 1) = Len(sent) - n
  OBVIOUS
<1>2. \A i \in 1 .. Len(sent) - n : sent'[i] = sent[i]
  BY DEF Mirrored
<1>3. \A i \in 1 .. n : sent'[(Len(sent) - n) + i] = sent[(Len(sent) - n) + i]
  BY DEF Mirrored
<1>4. sent'[(Len(sent) - n) + (n + 1)] = deferred[(Len(deferred) - (n + 1)) + 1]
  OBVIOUS
<1>5. \A i \in 1 .. Len(sent') - (n + 1) : sent'[i] \notin Releases
  BY <1>1, <1>2 DEF Mirrored
<1>6. \A i \in 1 .. n + 1 :
        sent'[(Len(sent') - (n + 1)) + i] = deferred'[(Len(deferred') - i) + 1]
  <2> TAKE i \in 1 .. n + 1
  <2>1. CASE i = n + 1
    BY <1>1, <1>4, <2>1
  <2>2. CASE i \in 1 .. n
    BY <1>1, <1>3, <2>2, Zenon DEF Mirrored
  <2>3. i = n + 1 \/ i \in 1 .. n
    OBVIOUS
  <2> QED
    BY <2>1, <2>2, <2>3, Zenon
<1>7. n + 1 <= Len(sent')
  BY <1>1 DEF Mirrored
<1> QED
  BY <1>5, <1>6, <1>7, Zenon DEF Mirrored

LEMMA RunDeferredStep == ASSUME CmdInv, RunDeferred PROVE CmdInv'
<1> USE DEF CmdInv
<1> DEFINE q == deferred[left]
<1>1. /\ pc = "return" /\ pc' = pc /\ left > 0 /\ left' = left - 1 /\ cmd' = cmd
      /\ todo' = todo /\ deferred' = deferred /\ conns = {"session"}
  BY DEF RunDeferred, ConnInv
<1>2. /\ left \in 1 .. Len(deferred) /\ left \in 1 .. 4 /\ deferred \in Seq(Reqs)
      /\ q = Order[left] /\ q \in Releases
      /\ left = 1 <=> q = "closeSession"
  <2>1. left \in 1 .. Len(deferred) /\ left \in 1 .. 4 /\ deferred \in Seq(Reqs) /\ q = Order[left]
    BY <1>1 DEF CmdTypeInv
  <2>2. /\ Order[1] = "closeSession" /\ Order[2] = "logout"
        /\ Order[3] = "closeVol" /\ Order[4] = "closeFork"
    BY DEF Order
  <2> HIDE DEF q
  <2> QED
    BY <2>1, <2>2 DEF Releases
<1>3. /\ conns' = IF left' = 0 THEN {} ELSE {"session"}
      /\ \/ q = "closeSession" /\ CloseConn
         \/ Answered(q) \/ NotAnswered(q)
  BY <1>1, <1>2 DEF RunDeferred, CloseConn
<1>4. /\ sent' \in Seq(Reqs) /\ up' \in BOOLEAN /\ (up => sent' = Append(sent, q))
      /\ up' => up /\ (q # "closeSession" => granted' \in {granted, After(q)})
  <2>1. CASE q = "closeSession" /\ CloseConn
    <3>1. up' = up /\ Write(q)
      BY <2>1 DEF CloseConn, env
    <3>2. sent' \in Seq(Reqs) /\ (up => sent' = Append(sent, q))
      BY <1>1, <2>1, <3>1 DEF Write, Reachable, CmdTypeInv, Reqs, Releases
    <3> QED
      BY <2>1, <3>1, <3>2, Zenon DEF CmdTypeInv
  <2>2. CASE Answered(q) \/ NotAnswered(q)
    <3> HIDE DEF q
    <3> QED
      BY <1>1, <1>2, <2>2, RequestStep, Zenon DEF CmdTypeInv, Reqs
  <2> QED
    BY <1>3, <2>1, <2>2
<1>5. CmdTypeInv' /\ ConnInv' /\ PlanInv'
  <2>1. CmdTypeInv'
    BY <1>1, <1>2, <1>4 DEF CmdTypeInv
  <2>2. ConnInv' /\ PlanInv'
    BY <1>1, <1>3 DEF ConnInv, PlanInv
  <2> QED
    BY <2>1, <2>2
<1>6. HeldInv'
  <2> SUFFICES ASSUME up' PROVE Held(left)'
    BY <1>1 DEF HeldInv
  <2>1. CASE left' < 2
    BY <1>1, <1>2, <2>1 DEF Held
  <2>2. CASE left' = 2
    <3>1. left = 3 /\ q = "closeVol"
      BY <1>1, <1>2, <2>2 DEF Order
    <3>2. granted' \in {granted, granted \ {"vol"}} /\ Held(3)
      BY <1>1, <1>4, <3>1, AfterIs DEF HeldInv
    <3> QED
      BY <2>2, <3>2 DEF Held
  <2>3. CASE left' = 3
    <3>1. left = 4 /\ q = "closeFork"
      BY <1>1, <1>2, <2>3 DEF Order
    <3>2. granted' \in {granted, granted \ {"fork"}} /\ Held(4)
      BY <1>1, <1>4, <3>1, AfterIs DEF HeldInv
    <3> QED
      BY <2>3, <3>2 DEF Held
  <2> QED
    BY <1>1, <1>2, <2>1, <2>2, <2>3
<1>7. SentInv'
  <2> SUFFICES ASSUME up' PROVE Mirrored(Len(deferred) - left)'
    BY <1>1 DEF SentInv
  <2>1. PICK n \in Nat : n = Len(deferred) - left
    BY <1>2
  <2>2. Mirrored(n) /\ n < Len(deferred) /\ q = deferred[Len(deferred) - n]
    BY <1>1, <1>2, <1>4, <2>1 DEF SentInv
  <2>3. Mirrored(n + 1)'
    <3> HIDE DEF q
    <3> QED
      BY <1>1, <1>2, <1>4, <2>2, MirroredMore, Zenon DEF CmdTypeInv
  <2>4. Len(deferred') - left' = n + 1
    BY <1>1, <1>2, <2>1
  <2> QED
    BY <2>3, <2>4, Zenon DEF Mirrored
<1> QED
  BY <1>5, <1>6, <1>7

LEMMA AbortStep == ASSUME CmdInv, Abort PROVE CmdInv'
<1> USE DEF CmdInv
<1>1. /\ pc = "abort" /\ pc' = "done" /\ conns' = {} /\ Len(deferred) = 0 /\ deferred' = deferred
      /\ cmd' = cmd /\ left' = left /\ up' = up
  BY DEF Abort, CloseConn, Stop, PlanInv, env
<1>2. sent' \in Seq(Reqs)
  BY DEF Abort, CloseConn, Write, CmdTypeInv, Reqs, Releases
<1>3. CmdTypeInv'
  BY <1>1, <1>2, Zenon DEF CmdTypeInv
<1> QED
  BY <1>1, <1>3 DEF ConnInv, PlanInv, HeldInv, SentInv

LEMMA EnvironmentStep == ASSUME CmdInv, Environment PROVE CmdInv'
<1> USE DEF CmdInv
<1>1. /\ cmd' = cmd /\ pc' = pc /\ todo' = todo /\ conns' = conns /\ deferred' = deferred
      /\ left' = left /\ sent' = sent
  BY DEF Environment
<1>2. up' \in BOOLEAN /\ (up' => up /\ granted' = granted)
  <2>1. CASE up' = FALSE
    BY <2>1, Zenon
  <2>2. CASE up' = up /\ granted' = granted
    BY <2>2 DEF CmdTypeInv
  <2> QED
    BY <2>1, <2>2, Zenon DEF Environment
<1>3. ConnInv' /\ PlanInv'
  BY <1>1 DEF ConnInv, PlanInv
<1>4. HeldInv' /\ SentInv'
  BY <1>1, <1>2 DEF HeldInv, SentInv, Held, Mirrored
<1>5. CmdTypeInv'
  BY <1>1, <1>2, Zenon DEF CmdTypeInv
<1> QED
  BY <1>3, <1>4, <1>5

LEMMA CmdNextInv == CmdInv /\ [Next]_vars => CmdInv'
<1>1. ASSUME CmdInv, UNCHANGED vars PROVE CmdInv'
  BY <1>1 DEF vars, env, CmdInv, CmdTypeInv, ConnInv, PlanInv, HeldInv, SentInv, Held, Mirrored
<1> QED
  BY <1>1, QuietStep, LoginStep, BodyStepInv, RunDeferredStep, AbortStep, EnvironmentStep, Zenon
  DEF Next, Request, Local

LEMMA CmdInvariance == Spec => []CmdInv
BY CmdInitInv, CmdNextInv, PTL DEF Spec

-----------------------------------------------------------------------------
\* However a command ends, it has closed the connections it dialled.
THEOREM ConnectionsAreClosed == Spec => []NoConnectionLeft
<1>1. CmdInv => NoConnectionLeft
  BY DEF CmdInv, ConnInv, NoConnectionLeft
<1> QED
  BY <1>1, CmdInvariance, PTL

\* As long as the link works, the last requests of a command release what it
\* acquired, in the reverse order, and it releases nothing before.
THEOREM TeardownIsMirrored == Spec => []TeardownMirrors
<1>1. CmdInv => TeardownMirrors
  <2> SUFFICES ASSUME CmdInv, pc = "done", up, deferred # <<>>
               PROVE  Mirrored(Len(deferred)) /\ Len(sent) - Len(deferred) >= 0
    BY Zenon DEF TeardownMirrors, Mirrored
  <2>1. Len(sent) \in Nat /\ Len(deferred) \in Nat \ {0}
    BY EmptySeq DEF CmdInv, CmdTypeInv
  <2>2. Mirrored(Len(deferred))
    BY <2>1 DEF CmdInv, SentInv
  <2> QED
    BY <2>1, <2>2 DEF Mirrored
<1> QED
  BY <1>1, CmdInvariance, PTL

\* What the requests need.
LEMMA NeedsAre ==
  /\ Needs("openSession") = {} /\ Needs("closeSession") = {}
  /\ Needs("loginStep") = {"session"} /\ Needs("auth") = {"session"}
  /\ Needs("openVol") = {"session", "auth"} /\ Needs("op") = {"session", "auth"}
  /\ Needs("logout") = {"session", "auth"}
  /\ Needs("openFork") = {"session", "auth", "vol"}
  /\ Needs("closeVol") = {"session", "auth", "vol"}
  /\ Needs("closeFork") = {"session", "auth", "vol", "fork"}
BY Zenon DEF Needs

\* What goes out is the request, on a link that works.
LEMMA WhatGoesOut ==
  ASSUME CmdInv, NEW q \in Reqs, Write(q), sent' # sent
  PROVE  up /\ sent'[Len(sent')] = q
<1>1. up /\ sent' = Append(sent, q)
  BY Zenon DEF Write, Reachable
<1> QED
  BY <1>1 DEF CmdInv, CmdTypeInv

LEMMA ReadyStep ==
  ASSUME CmdInv, Next, sent' # sent
  PROVE  Needs(sent'[Len(sent')]) \subseteq granted
<1> USE DEF CmdInv
<1>1. CASE OpenSession
  <2>1. Write("openSession") /\ "openSession" \in Reqs
    BY <1>1, Zenon DEF OpenSession, Answered, NotAnswered, Reqs
  <2> QED
    BY <2>1, WhatGoesOut, NeedsAre
<1>2. CASE Abort
  <2>1. Write("closeSession") /\ "closeSession" \in Reqs
    BY <1>2 DEF Abort, CloseConn, Reqs, Releases
  <2> QED
    BY <2>1, WhatGoesOut, NeedsAre
<1>3. CASE LoginContinue \/ LoggedIn \/ LoginFails
  <2>1. PICK q \in {"loginStep", "auth"} : Write(q)
    BY <1>3, Zenon DEF LoginContinue, LoggedIn, LoginFails, Answered, NotAnswered
  <2>2. up /\ sent'[Len(sent')] = q
    BY <2>1, WhatGoesOut DEF Reqs
  <2>3. pc = "login"
    BY <1>3 DEF LoginContinue, LoggedIn, LoginFails
  <2> QED
    BY <2>1, <2>2, <2>3, NeedsAre DEF HeldInv
<1>4. CASE BodyStep
  <2>1. pc = "body" /\ Write(Head(todo)) /\ todo # <<>>
    BY <1>4, Zenon DEF BodyStep, Answered, NotAnswered
  <2>2. CASE cmd = "mount"
    <3>1. Head(todo) = "openVol"
      BY <2>1, <2>2 DEF PlanInv
    <3>2. up /\ sent'[Len(sent')] = "openVol"
      BY <2>1, <3>1, WhatGoesOut DEF Reqs
    <3> QED
      BY <2>1, <3>2, NeedsAre DEF HeldInv
  <2>3. CASE cmd # "mount"
    <3>1. /\ left = Len(deferred) /\ Len(deferred) \in {2, 3, 4} /\ Suits(Len(deferred), todo)
      BY <2>1, <2>3 DEF PlanInv, CmdTypeInv
    <3>2. /\ Head(todo) \in {"openVol", "openFork", "op"}
          /\ Head(todo) = "openFork" => Len(deferred) = 3
      BY <2>1, <3>1, SuitsNext, Zenon
    <3>3. up /\ sent'[Len(sent')] = Head(todo)
      BY <2>1, <3>2, WhatGoesOut DEF Reqs
    <3>4. {"session", "auth"} \subseteq granted /\ Held(left)
      BY <2>1, <3>3 DEF HeldInv
    <3>5. CASE Head(todo) = "openFork"
      <4>1. left = 3
        BY <3>1, <3>2, <3>5, Zenon
      <4> QED
        BY <3>3, <3>4, <3>5, <4>1, NeedsAre DEF Held
    <3>6. CASE Head(todo) \in {"openVol", "op"}
      BY <3>3, <3>4, <3>6, NeedsAre
    <3> QED
      BY <3>2, <3>5, <3>6
  <2> QED
    BY <2>2, <2>3
<1>5. CASE RunDeferred
  <2>1. /\ pc = "return" /\ left \in 1 .. 4 /\ deferred[left] = Order[left]
        /\ Write(deferred[left])
    <3>1. pc = "return" /\ left \in 1 .. 4 /\ deferred[left] = Order[left]
      BY <1>5 DEF RunDeferred, CmdTypeInv
    <3>2. Write(deferred[left])
      BY <1>5, Zenon DEF RunDeferred, CloseConn, Answered, NotAnswered
    <3> QED
      BY <3>1, <3>2
  <2>2. /\ Order[1] = "closeSession" /\ Order[2] = "logout"
        /\ Order[3] = "closeVol" /\ Order[4] = "closeFork"
    BY DEF Order
  <2>3. up /\ sent'[Len(sent')] = Order[left]
    BY <2>1, <2>2, WhatGoesOut DEF Reqs, Releases
  <2>4. Held(left)
    BY <2>1, <2>3 DEF HeldInv
  <2> QED
    BY <2>1, <2>2, <2>3, <2>4, NeedsAre DEF Held
<1> QED
  BY <1>1, <1>2, <1>3, <1>4, <1>5
  DEF Next, Request, Local, Environment, FetchStatus, ParseServerInfo, Dial, NoUAM,
      BodyDone, ServeReturns, Return

\* No request reaches a server that is not ready for it.
THEOREM RequestsAreInTurn == Spec => ServerIsReady
<1>1. CmdInv /\ [Next]_vars =>
        [sent' # sent => Needs(sent'[Len(sent')]) \subseteq granted]_vars
  BY ReadyStep
<1> QED
  BY <1>1, CmdInvariance, PTL DEF Spec, ServerIsReady
=============================================================================
