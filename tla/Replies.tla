------------------------------- MODULE Replies -------------------------------
(***************************************************************************)
(* How the client takes replies apart: the reader of internal/afp/wire.go, *)
(* the parameter blocks of entry.go, the replies parsed in session.go,     *)
(* setparams.go, fork.go and serverinfo.go, and the options of OpenSession *)
(* (internal/dsi/conn.go).                                                 *)
(*                                                                         *)
(* A payload is its length: what matters is where the client looks in it.  *)
(* A number that steers the parsing (a count, a length, an offset) is      *)
(* whatever the server sent, and is chosen when it is read.  Each kind of  *)
(* reply has a plan, the sequence of reads its parser makes.               *)
(***************************************************************************)
EXTENDS Integers, Sequences

CONSTANTS
  Bitmaps,      \* for each kind of reply, the bitmaps it may have: the fields of
                \* a file (FALSE) and of a directory (TRUE)
  MaxLen,       \* for each kind of reply, a bound on its length
  MaxItems,     \* bound on the items of a list
  StringLens,   \* lengths of strings
  Epoch, Span,  \* the AFP epoch, and 2^32, scaled down
  Times         \* times given to SetModTime

Kinds == {"stat", "enumerate", "volumes", "openVolume", "statFS", "openFork",
          "serverInfo", "openSession"}

ASSUME RepliesAssumption ==
  /\ MaxLen \in [Kinds -> Nat] /\ MaxItems \in Nat /\ StringLens \subseteq Nat
  /\ Epoch \in Int /\ Span \in Nat /\ \E h \in 1 .. Span : Span = 2 * h
  /\ Times \subseteq Int

VARIABLES
  kind, len,    \* the reply
  bits,         \* its bitmaps, for files and for directories
  isDir,        \* what the current block describes
  pos,          \* where the parser is
  lo, hi,       \* the block it may look at: bytes lo .. hi - 1 of the payload
  todo,         \* what remains of its plan
  err,          \* reader.err
  ret,          \* what the parser returns, once it does
  seen,         \* the bytes the last read looked at
  at,           \* where each field of the current block was read
  due,          \* where the next entry of an enumeration begins
  mtime, got    \* the time SetModTime was given; what the entry says

vars == <<kind, len, bits, isDir, pos, lo, hi, todo, err, ret, seen, at, due, mtime, got>>

-----------------------------------------------------------------------------
(* Plans. *)

Take(f, w) == [op |-> "take", f |-> f, w |-> w]
Step(op) == [op |-> op, f |-> op, w |-> 0]

\* parseEntryParams: a field is read if its bit is set; for a name, w bytes
\* that hold its offset.
Param(d, f, w) == IF f \in bits[d] THEN <<Take(f, w)>> ELSE <<>>
NameParam(d, f, w) == IF f \in bits[d] THEN <<[Take(f, w) EXCEPT !.op = "name"]>> ELSE <<>>

CommonParams(d) ==
  Param(d, "attributes", 2) \o Param(d, "parent", 4) \o Param(d, "created", 4)
  \o Param(d, "modified", 4) \o Param(d, "backup", 4) \o Param(d, "finder", 32)
  \o NameParam(d, "longName", 2) \o Param(d, "shortName", 2) \o Param(d, "node", 4)
DirParams(d) ==
  Param(d, "offspring", 2) \o Param(d, "owner", 4) \o Param(d, "group", 4)
  \o Param(d, "access", 4)
FileParams(d) ==
  Param(d, "dataLen", 4) \o Param(d, "rsrcLen", 4) \o Param(d, "extDataLen", 8)
  \o Param(d, "launchLimit", 2)
LastParams(d) ==
  (IF d THEN <<>> ELSE Param(d, "extRsrcLen", 8)) \o Param(d, "unix", 16)

\* Mutant of EntryPlan: the name is read before the fields of a file.
EntryPlanNameFirst(d) ==
  CommonParams(d) \o NameParam(d, "utf8Name", 6) \o (IF d THEN DirParams(d) ELSE FileParams(d))
  \o LastParams(d) \o <<Step("endBlock")>>

EntryPlan(d) ==
  CommonParams(d) \o (IF d THEN DirParams(d) ELSE FileParams(d)) \o NameParam(d, "utf8Name", 6)
  \o LastParams(d) \o <<Step("endBlock")>>

Check == Step("check")  \* if r.err != nil, return it

Plan(k) ==
  CASE k = "stat"       -> <<Take("bitmaps", 4), Take("isdir", 2), Check, Step("rest")>>
    [] k = "enumerate"  -> <<Take("bitmaps", 4), Step("entries"), Check>>
    [] k = "volumes"    -> <<Take("serverTime", 4), Step("volumes")>>
    [] k = "openVolume" -> <<Take("bitmap", 2), Step("volParams"), Check>>
    [] k = "statFS"     -> <<Take("bitmap", 2), Take("free", 8), Take("total", 8),
                             Take("block", 4), Check>>
    [] k = "openFork"   -> <<Take("bitmap", 2), Take("id", 2), Take("length", 8), Check>>
    [] k = "serverInfo" -> <<Step("minimum"), Step("serverName"), Step("machineType"),
                             Step("list"), Step("list")>>
    [] k = "openSession" -> <<Step("option")>>

Init ==
  /\ kind \in Kinds /\ len \in 0 .. MaxLen[kind] /\ bits \in Bitmaps[kind]
  /\ mtime \in IF bits[FALSE] = {"modified"} THEN Times ELSE {Epoch}
  /\ isDir = FALSE /\ pos = 0 /\ lo = 0 /\ hi = len /\ todo = Plan(kind)
  /\ err = FALSE /\ ret = "none" /\ seen = {} /\ at = {} /\ due = 6 /\ got = mtime

-----------------------------------------------------------------------------
(* reader: after a failure nothing more is taken. *)

At(op) == ret = "none" /\ todo # <<>> /\ Head(todo).op = op

Fits(n) == ~err /\ pos + n <= hi

Advance(n) == pos' = pos + n /\ seen' = pos .. pos + n - 1 /\ UNCHANGED err
Fail == err' = TRUE /\ seen' = {} /\ UNCHANGED pos

\* An error that is returned on the spot.
Quit == ret' = "err" /\ todo' = <<>>
GoOn == todo' = Tail(todo) /\ UNCHANGED ret

\* What SetModTime sends for a time, and what afpDate makes of it.
Signed(v) == IF v < Span \div 2 THEN v ELSE v - Span

\* Mutant of AfpDate: the date on the wire is taken for an unsigned one.
AfpDateUnsigned(v) == v + Epoch

AfpDate(v) == Signed(v) + Epoch

DateField(t) == (t - Epoch) % Span

\* take, u8, u16, u32 and u64.
TakeField ==
  /\ At("take")
  /\ LET f == Head(todo).f
     IN  \/ /\ Fits(Head(todo).w) /\ Advance(Head(todo).w)
            /\ at' = at \cup {<<f, pos>>}
            /\ got' = IF f = "modified" THEN AfpDate(DateField(mtime)) ELSE got
         \/ ~Fits(Head(todo).w) /\ Fail /\ UNCHANGED <<at, got>>
  /\ GoOn
  /\ UNCHANGED <<kind, len, bits, isDir, lo, hi, due, mtime>>

\* Mutant of CheckErr: the error is not looked at.
CheckErrSkipped ==
  /\ At("check")
  /\ GoOn
  /\ UNCHANGED <<kind, len, bits, isDir, pos, lo, hi, err, seen, at, due, mtime, got>>

CheckErr ==
  /\ At("check")
  /\ IF err THEN Quit ELSE GoOn
  /\ UNCHANGED <<kind, len, bits, isDir, pos, lo, hi, err, seen, at, due, mtime, got>>

\* A string with w bytes of length at byte s of the payload, as pascalAt,
\* pascal2At and pascalString check it; n is its length.
Outside(s, w) == s + w > hi

\* Mutant of Overruns: the end of the payload is taken for that of the block.
OverrunsPayload(s, w, n) == s + w + n > len

Overruns(s, w, n) == s + w + n > hi

\* The offset of a name, counted from the start of the block, and the name
\* there: pascalAt for the long name, pascal2At behind a hint for the other.
Name ==
  /\ At("name")
  /\ LET w    == Head(todo).w
         utf8 == Head(todo).f = "utf8Name"
         size == IF utf8 THEN 2 ELSE 1
     IN  \/ ~Fits(w) /\ Fail /\ GoOn /\ UNCHANGED at
         \/ /\ Fits(w) /\ pos' = pos + w /\ at' = at \cup {<<Head(todo).f, pos>>}
            /\ UNCHANGED err
            /\ \E off \in 0 .. hi - lo + 1, n \in StringLens :
                 LET s == lo + off + IF utf8 THEN 4 ELSE 0
                 IN  IF Outside(s, size) \/ Overruns(s, size, n)
                       THEN Quit /\ seen' = {}
                       ELSE GoOn /\ seen' = s .. s + size + n - 1
  /\ UNCHANGED <<kind, len, bits, isDir, lo, hi, due, mtime, got>>

-----------------------------------------------------------------------------
(* Enumerations and Stat: blocks. *)

Repeat(step, n) == [i \in 1 .. n |-> Step(step)]

\* The count of a list; a count that cannot be read is zero.
Count(op, w, item) ==
  /\ At(op)
  /\ \/ /\ Fits(w) /\ Advance(w)
        /\ \E n \in 0 .. MaxItems : todo' = Repeat(item, n) \o Tail(todo)
     \/ ~Fits(w) /\ Fail /\ todo' = Tail(todo)
  /\ UNCHANGED <<kind, len, bits, isDir, lo, hi, ret, at, due, mtime, got>>

Block(d, from, to) ==
  /\ isDir' = d /\ lo' = from /\ hi' = to /\ pos' = from /\ at' = {}
  /\ todo' = EntryPlan(d) \o Tail(todo)
  /\ UNCHANGED ret

\* Stat: the block is what remains.
Rest ==
  /\ At("rest")
  /\ \E d \in BOOLEAN : Block(d, pos, len)
  /\ seen' = {}
  /\ UNCHANGED <<kind, len, bits, err, due, mtime, got>>

\* An entry of an enumeration: its length, its kind, and a block of its own.
Entry ==
  /\ At("entry")
  /\ \E length \in 0 .. len + 1, d \in BOOLEAN :
       IF Fits(4) /\ length >= 4 /\ pos + length <= hi
         THEN Block(d, pos + 4, pos + length) /\ due' = due + length
         ELSE Quit /\ UNCHANGED <<isDir, lo, hi, pos, at, due>>
  /\ seen' = {}
  /\ UNCHANGED <<kind, len, bits, err, mtime, got>>

\* parseEntryParams returns; the enumeration goes on behind the block.
EndBlock ==
  /\ At("endBlock")
  /\ IF err THEN Quit ELSE GoOn
  /\ pos' = hi /\ lo' = 0 /\ hi' = len /\ seen' = {} /\ at' = {}
  /\ UNCHANGED <<kind, len, bits, isDir, err, due, mtime, got>>

-----------------------------------------------------------------------------
(* The other replies. *)

\* ListVolumes: flags and name of a volume, and the check in the loop. That the
\* names are sorted afterwards changes nothing here.
Volume ==
  /\ At("volume")
  /\ \E n \in StringLens :
       IF Fits(2 + n) THEN Advance(2 + n) /\ GoOn ELSE Fail /\ Quit
  /\ UNCHANGED <<kind, len, bits, isDir, lo, hi, at, due, mtime, got>>

\* OpenVolume: the parameters the reply's bitmap names.
VolParams ==
  /\ At("volParams")
  /\ \E b \in SUBSET {"attributes", "id"} :
       LET known == IF err THEN {} ELSE b
           If(f) == IF f \in known THEN <<Take(f, 2)>> ELSE <<>>
       IN  todo' = If("attributes") \o If("id") \o Tail(todo)
  /\ UNCHANGED <<kind, len, bits, isDir, pos, lo, hi, err, ret, seen, at, due, mtime, got>>

\* ParseServerInfo: the fixed part must be there.
Minimum ==
  /\ At("minimum")
  /\ IF hi - lo < 11 THEN Quit /\ seen' = {} ELSE GoOn /\ seen' = lo .. lo + 9
  /\ UNCHANGED <<kind, len, bits, isDir, pos, lo, hi, err, at, due, mtime, got>>

\* pascalString at byte s, where the next string may begin.
PascalString(s) ==
  \E n \in StringLens :
    IF s >= hi \/ Overruns(s, 1, n) THEN Quit /\ seen' = {} /\ UNCHANGED pos
                                     ELSE GoOn /\ seen' = s .. s + n /\ pos' = s + 1 + n

ServerName ==
  /\ At("serverName") /\ PascalString(lo + 10)
  /\ UNCHANGED <<kind, len, bits, isDir, lo, hi, err, at, due, mtime, got>>

MachineType ==
  /\ At("machineType") /\ \E off \in 0 .. len + 1 : PascalString(lo + off)
  /\ UNCHANGED <<kind, len, bits, isDir, lo, hi, err, at, due, mtime, got>>

\* pascalList: an offset of 0 says that there is no list.
List ==
  /\ At("list")
  /\ \/ GoOn /\ seen' = {} /\ UNCHANGED pos
     \/ \E off \in 1 .. len + 1, n \in 0 .. MaxItems :
          IF off >= hi - lo THEN Quit /\ seen' = {} /\ UNCHANGED pos
          ELSE /\ pos' = lo + off + 1 /\ seen' = {lo + off}
               /\ todo' = Repeat("item", n) \o Tail(todo) /\ UNCHANGED ret
  /\ UNCHANGED <<kind, len, bits, isDir, lo, hi, err, at, due, mtime, got>>

Item ==
  /\ At("item") /\ PascalString(pos)
  /\ UNCHANGED <<kind, len, bits, isDir, lo, hi, err, at, due, mtime, got>>

\* OpenSession: options until less than two bytes remain.
Option ==
  /\ At("option")
  /\ \E n \in StringLens :
       IF pos + 2 > hi THEN GoOn /\ seen' = {} /\ UNCHANGED pos
       ELSE IF pos + 2 + n > hi THEN Quit /\ seen' = {} /\ UNCHANGED pos
       ELSE pos' = pos + 2 + n /\ seen' = pos .. pos + 1 + n /\ UNCHANGED <<todo, ret>>
  /\ UNCHANGED <<kind, len, bits, isDir, lo, hi, err, at, due, mtime, got>>

Return ==
  /\ ret = "none" /\ todo = <<>>
  /\ ret' = "nil"
  /\ UNCHANGED <<kind, len, bits, isDir, pos, lo, hi, todo, err, seen, at, due, mtime, got>>

Next ==
  \/ TakeField \/ CheckErr \/ Name \/ Rest \/ Entry \/ EndBlock
  \/ Count("entries", 2, "entry") \/ Count("volumes", 1, "volume")
  \/ Volume \/ VolParams \/ Minimum \/ ServerName \/ MachineType \/ List \/ Item \/ Option
  \/ Return

Spec == Init /\ [][Next]_vars

-----------------------------------------------------------------------------
(* What the protocol says of a block: its fields in the order of their bits. *)
Layout(d) ==
  << <<"attributes", 2>>, <<"parent", 4>>, <<"created", 4>>, <<"modified", 4>>,
     <<"backup", 4>>, <<"finder", 32>>, <<"longName", 2>>, <<"shortName", 2>>, <<"node", 4>> >>
  \o (IF d THEN << <<"offspring", 2>>, <<"owner", 4>>, <<"group", 4>>, <<"access", 4>>,
                   <<"utf8Name", 6>>, <<"unix", 16>> >>
           ELSE << <<"dataLen", 4>>, <<"rsrcLen", 4>>, <<"extDataLen", 8>>,
                   <<"launchLimit", 2>>, <<"utf8Name", 6>>, <<"extRsrcLen", 8>>, <<"unix", 16>> >>)

\* Where field f of a block with bitmap b lies: behind the fields with lower
\* bits.
Offset(d, b, f) ==
  LET l == Layout(d)
      sum[i \in 0 .. Len(l)] ==
        IF i = 0 THEN 0 ELSE sum[i - 1] + IF l[i][1] \in b THEN l[i][2] ELSE 0
      i == CHOOSE j \in DOMAIN l : l[j][1] = f
  IN  sum[i - 1]

\* Whatever the server sends, the parser looks only at bytes of the block it is
\* in, which is a part of the reply: "All offsets are bounds-checked; a malformed
\* block yields an error, never a panic", and a name is never taken from the
\* entry behind.
InBounds == hi <= len /\ seen \subseteq lo .. hi - 1

\* Every field is read where the protocol puts it, whatever the bitmap, and an
\* entry begins where the one before it ends, however much of that was used.
FieldsInPlace ==
  /\ \A a \in at : kind \in {"stat", "enumerate"} /\ todo # <<>> /\ lo > 0 =>
       a[2] = lo + Offset(isDir, bits[isDir], a[1])
  /\ ret = "none" /\ todo # <<>> /\ Head(todo).op = "entry" => pos = due

\* A parser never returns nil with a read that failed: zero values do not stand
\* for what is missing, but for the list of volumes, where a reply without a
\* count is an empty list. The options of OpenSession are used to the end, but
\* for one byte: an option cut off behind its type is passed over.
ErrorsAreReported ==
  ret = "nil" => /\ err => kind = "volumes" /\ len < 5
                 /\ kind = "openSession" => len - pos <= 1

\* A modification time that 32 bits hold, as seconds before or after the AFP
\* epoch, is read back as it was set.
DateReadsBack ==
  mtime - Epoch \in -(Span \div 2) .. Span \div 2 - 1 => got = mtime
=============================================================================
