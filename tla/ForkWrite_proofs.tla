-------------------------- MODULE ForkWrite_proofs --------------------------
(***************************************************************************)
(* Proofs about ForkWrite, for any sizes of piece, window, source and      *)
(* file, and any number of seeks, truncations and writes by others.        *)
(***************************************************************************)
EXTENDS ForkWrite, FiniteSetTheorems, TLAPS

Sending == pc \in {"send", "sum"}

InCall == pc \in {"send", "sum", "window"} \/ (pc = "do" /\ err # "nil")

TypeInv ==
  /\ src \in Nat /\ total \in Int /\ len \in Nat /\ n \in Nat
  /\ size \in Nat /\ end \in Nat /\ next \in Nat /\ uses \in Nat
  /\ mode \in {"WriteAt", "readFrom", "File"}
  /\ pc \in {"idle", "send", "sum", "window", "do", "done"}
  /\ piece \in [Pieces(len) -> {"new", "run", "executed", "ok", "failed"}]
  /\ written \in [Pieces(len) -> Nat]
  /\ wire \in SUBSET [of : Nat, from : Int, to : Int]
  /\ file \in SUBSET Nat
  /\ pc \in {"do", "idle"} => mode = "File"
  /\ pc = "window" => mode = "readFrom"
  /\ pc = "done" => mode # "File"
  /\ InCall => len > 0

Bytes(i) == total + Start(i) .. (total + Start(i) + PieceLen(i)) - 1

\* What is known of a piece: only one the server has executed is counted.
PieceInv ==
  /\ pc = "send" =>
       /\ n = 0
       /\ \A i \in Pieces(len) : i >= next => piece[i] = "new"
       /\ err \in {"nil", "err"}
       /\ \A r \in wire : r.of # 0 =>
            /\ r.of \in Pieces(len)
            /\ r.from = total + Start(r.of) /\ r.to = total + Start(r.of) + PieceLen(r.of)
  /\ pc # "send" => \A i \in Pieces(len) : piece[i] \in {"ok", "failed"}
  /\ Sending => \A i \in Pieces(len) :
       /\ piece[i] \in {"executed", "ok"} => Bytes(i) \subseteq file
       /\ written[i] = IF piece[i] = "ok" THEN PieceLen(i) ELSE 0
       /\ err = "nil" => piece[i] # "failed"

\* The bytes the current WriteAt has written, up to m.
Done(m) == file \cap (total .. total + m - 1)

\* The sum has come to a piece.
SumInv ==
  pc = "sum" =>
    /\ next \in Pieces(len)
    /\ n <= Cardinality(Done(Start(next)))
    /\ err = "nil" => n = Start(next)

\* What WriteAt has returned.
ResultInv ==
  pc \in {"window", "do"} \/ (pc = "done" /\ mode = "WriteAt" /\ src > 0) =>
    /\ n <= Cardinality(Done(len))
    /\ err = "nil" => n = len

\* What has been counted is in the file.
PrefixInv ==
  /\ acked \subseteq file
  /\ mode = "readFrom" => /\ total \in Nat /\ 0 .. total - 1 \subseteq file
                          /\ pc \in {"send", "sum", "window"} => total + len <= src
                          /\ pc = "done" /\ err = "nil" => total = src

\* How far the file reaches, now or once what is on the wire is executed, as
\* long as nothing is in doubt.
Reach == IF pc = "idle" THEN size ELSE Max(size, total + len)

\* File.size against the end of the file.
SizeInv ==
  /\ \A b \in file : b < end
  /\ mode = "File" =>
       /\ {"truncate", "gap"} \cap doubt = {} => size <= end
       /\ doubt = {} => end <= Reach /\ \A r \in wire : r.to <= Reach

Inv == TypeInv /\ PieceInv /\ SumInv /\ ResultInv /\ PrefixInv /\ SizeInv

USE ForkWriteAssumption

-----------------------------------------------------------------------------
(* Where a piece lies. *)

LEMMA ChunkSizeIsPositive == WriteChunkSize \in Nat /\ WriteChunkSize > 0
BY DEF WriteChunkSize

LEMMA WindowIsPositive == Window \in Nat /\ Window > 0
BY ChunkSizeIsPositive DEF Window

LEMMA StartFacts ==
  /\ Start(1) = 0
  /\ \A i \in Nat \ {0} : Start(i) \in Nat /\ Start(i + 1) = Start(i) + WriteChunkSize
BY ChunkSizeIsPositive DEF Start

LEMMA PieceFacts ==
  ASSUME NEW l \in Nat
  PROVE  /\ Pieces(l) \subseteq Nat \ {0}
         /\ l > 0 => 1 \in Pieces(l)
         /\ \A i \in Pieces(l) : Start(i) < l
         /\ \A i \in Pieces(l) : i + 1 \notin Pieces(l) => Start(i + 1) >= l
<1>1. \A i \in Pieces(l) : i + 1 \notin Pieces(l) => Start(i + 1) >= l
  <2> SUFFICES ASSUME NEW i \in Pieces(l), i + 1 \notin Pieces(l), ~(Start(i + 1) >= l)
               PROVE  FALSE
    OBVIOUS
  <2>1. i = l
    BY StartFacts DEF Pieces
  <2>2. Start(i + 1) = l * WriteChunkSize
    BY <2>1 DEF Start
  <2>3. l * WriteChunkSize >= l
    BY ChunkSizeIsPositive
  <2> QED BY <2>2, <2>3, StartFacts
<1> QED BY <1>1, StartFacts DEF Pieces

LEMMA PieceLenFacts ==
  ASSUME TypeInv, NEW i \in Pieces(len)
  PROVE  /\ i \in Nat \ {0} /\ Start(i) \in Nat /\ Start(i) < len
         /\ PieceLen(i) \in Nat /\ PieceLen(i) > 0 /\ Start(i) + PieceLen(i) <= len
         /\ IF i + 1 \in Pieces(len)
              THEN Start(i + 1) = Start(i) + PieceLen(i) /\ Start(i + 1) < len
              ELSE len = Start(i) + PieceLen(i)
<1>1. len \in Nat
  BY DEF TypeInv
<1>2. /\ i \in Nat \ {0} /\ Start(i) \in Nat /\ Start(i) < len
      /\ Start(i + 1) = Start(i) + WriteChunkSize
  BY <1>1, PieceFacts, StartFacts
<1>3. i + 1 \in Pieces(len) => Start(i + 1) < len
  BY <1>1, PieceFacts
<1>4. i + 1 \notin Pieces(len) => Start(i + 1) >= len
  BY <1>1, PieceFacts
<1> QED BY <1>1, <1>2, <1>3, <1>4, ChunkSizeIsPositive DEF PieceLen, Min

(* How many bytes have been written. *)

LEMMA DoneFacts ==
  ASSUME TypeInv, NEW m \in Nat
  PROVE  /\ IsFiniteSet(Done(m)) /\ Cardinality(Done(m)) \in Nat /\ Cardinality(Done(m)) <= m
         /\ Cardinality(Done(m)) = m => total .. total + m - 1 \subseteq file
<1> DEFINE all == total .. total + m - 1
<1>1. IsFiniteSet(all) /\ Cardinality(all) = m
  <2>1. total \in Int /\ total + m - 1 \in Int
    BY DEF TypeInv
  <2> QED BY <2>1, FS_Interval DEF TypeInv
<1>2. Done(m) \in SUBSET all
  BY DEF Done
<1> HIDE DEF all
<1>3. /\ IsFiniteSet(Done(m)) /\ Cardinality(Done(m)) <= Cardinality(all)
      /\ Cardinality(all) = Cardinality(Done(m)) => all = Done(m)
  BY <1>1, <1>2, FS_Subset
<1>4. Cardinality(Done(m)) \in Nat
  BY <1>3, FS_CardinalityType
<1>5. Done(m) \subseteq file
  BY DEF Done
<1> QED BY <1>1, <1>3, <1>4, <1>5, Zenon DEF all

\* Bytes that are added do not make it less.
LEMMA DoneGrows ==
  ASSUME NEW old, NEW new, old \subseteq new, NEW a \in Int, NEW m \in Nat
  PROVE  /\ Cardinality(old \cap (a .. a + m - 1)) \in Nat
         /\ Cardinality(new \cap (a .. a + m - 1)) \in Nat
         /\ Cardinality(old \cap (a .. a + m - 1)) <= Cardinality(new \cap (a .. a + m - 1))
<1> DEFINE all == a .. a + m - 1
<1>1. IsFiniteSet(all)
  BY FS_Interval
<1> HIDE DEF all
<1>2. IsFiniteSet(old \cap all) /\ IsFiniteSet(new \cap all)
  BY <1>1, FS_Intersection
<1>3. old \cap all \in SUBSET (new \cap all)
  OBVIOUS
<1>4. /\ Cardinality(old \cap all) \in Nat /\ Cardinality(new \cap all) \in Nat
      /\ Cardinality(old \cap all) <= Cardinality(new \cap all)
  BY <1>2, <1>3, FS_Subset, FS_CardinalityType
<1> QED BY <1>4 DEF all

\* A piece in the file adds its length.
LEMMA DoneAdds ==
  ASSUME TypeInv, NEW i \in Pieces(len), Bytes(i) \subseteq file
  PROVE  Cardinality(Done(Start(i) + PieceLen(i))) = Cardinality(Done(Start(i))) + PieceLen(i)
<1>1. Start(i) \in Nat /\ PieceLen(i) \in Nat /\ PieceLen(i) > 0 /\ total \in Int
  BY PieceLenFacts DEF TypeInv
<1>2. IsFiniteSet(Bytes(i)) /\ Cardinality(Bytes(i)) = PieceLen(i)
  <2> DEFINE lo == total + Start(i)
             hi == (total + Start(i) + PieceLen(i)) - 1
  <2>1. lo \in Int /\ hi \in Int /\ lo <= hi /\ hi - lo + 1 = PieceLen(i) /\ Bytes(i) = lo .. hi
    BY <1>1 DEF Bytes
  <2> HIDE DEF lo, hi
  <2> QED BY <2>1, FS_Interval
<1>3. Done(Start(i) + PieceLen(i)) = Done(Start(i)) \cup Bytes(i)
  BY <1>1 DEF Done, Bytes
<1>4. Done(Start(i)) \cap Bytes(i) = {}
  BY <1>1 DEF Done, Bytes
<1>5. IsFiniteSet(Done(Start(i))) /\ Cardinality(Done(Start(i))) \in Nat
  BY <1>1, DoneFacts
<1>6. Cardinality(Done(Start(i)) \cup Bytes(i))
        = Cardinality(Done(Start(i))) + Cardinality(Bytes(i))
          - Cardinality(Done(Start(i)) \cap Bytes(i))
  BY <1>2, <1>5, FS_Union
<1>7. Cardinality(Done(Start(i)) \cap Bytes(i)) = 0
  BY <1>4, FS_EmptySet
<1>8. Cardinality(Done(Start(i) + PieceLen(i))) = Cardinality(Done(Start(i)) \cup Bytes(i))
  BY <1>3, Zenon
<1> HIDE <1>3
<1> QED BY <1>1, <1>2, <1>5, <1>6, <1>7, <1>8

-----------------------------------------------------------------------------
LEMMA InitInv == Init => Inv
<1> SUFFICES ASSUME Init PROVE Inv
  OBVIOUS
<1>1. /\ src \in Nat /\ end \in Nat /\ len \in Nat /\ total \in Nat
      /\ mode \in {"WriteAt", "readFrom", "File"}
      /\ mode = "readFrom" => total = 0 /\ len <= src /\ (src > 0 => len > 0)
      /\ mode = "WriteAt" => len = src
      /\ mode = "File" => len = 0
  BY WindowIsPositive DEF Init, Min
<1>2. /\ piece = [i \in Pieces(len) |-> "new"] /\ written = [i \in Pieces(len) |-> 0]
      /\ pc = IF mode = "File" THEN "idle" ELSE IF len = 0 THEN "done" ELSE "send"
      /\ next = 1 /\ att = 0 /\ wire = {} /\ file = {} /\ n = 0 /\ doubt = {} /\ uses = 0
      /\ size = end /\ acked = {}
  BY DEF Init
<1>3. len = 0 => Pieces(len) = {}
  BY DEF Pieces
<1>4. TypeInv
  BY <1>1, <1>2 DEF TypeInv, InCall
<1>5. err \in {"nil", "rerr"} /\ (pc # "done" => err = "nil")
  BY <1>1, <1>2 DEF Init, SourceEnd
<1>6. PieceInv /\ SumInv /\ ResultInv
  BY <1>1, <1>2, <1>3, <1>5 DEF PieceInv, SumInv, ResultInv, Sending
<1>7. PrefixInv
  BY <1>1, <1>2, <1>5 DEF PrefixInv, InCall
<1>8. SizeInv
  BY <1>1, <1>2, <1>5 DEF SizeInv, Reach, Max
<1> QED BY <1>4, <1>6, <1>7, <1>8 DEF Inv

-----------------------------------------------------------------------------
(* The goroutines of WriteAt and the server. *)

LEMMA SpawnStep == Inv /\ Spawn => Inv'
<1> SUFFICES ASSUME Inv, Spawn PROVE Inv'
  OBVIOUS
<1> USE DEF Inv, Spawn, fileVars
<1> DEFINE new == [of |-> next, from |-> total + Start(next),
                   to |-> total + Start(next) + PieceLen(next)]
<1>1. /\ next \in Pieces(len) /\ next \in Nat \ {0} /\ Start(next) \in Nat
      /\ PieceLen(next) \in Nat /\ Start(next) + PieceLen(next) <= len
  BY PieceLenFacts DEF TypeInv
<1>2. new \in [of : Nat, from : Int, to : Int] /\ wire' = wire \cup {new}
  BY <1>1 DEF TypeInv
<1>3. /\ new.of = next /\ new.from = total + Start(next)
      /\ new.to = total + Start(next) + PieceLen(next) /\ new.to <= total + len
  BY <1>1 DEF TypeInv
<1> HIDE DEF new
<1>4. TypeInv'
  BY <1>1, <1>2 DEF TypeInv, InCall
<1>5. PieceInv'
  <2>1. piece[next] = "new" /\ piece' = [piece EXCEPT ![next] = "run"]
    BY <1>1 DEF PieceInv
  <2>2. \A i \in Pieces(len) : Bytes(i)' = Bytes(i) /\ PieceLen(i)' = PieceLen(i)
    BY DEF Bytes, PieceLen
  <2> QED BY <1>1, <1>2, <1>3, <2>1, <2>2 DEF PieceInv, Sending, TypeInv
<1>6. SumInv' /\ ResultInv' /\ PrefixInv'
  BY DEF SumInv, ResultInv, PrefixInv, InCall
<1>7. SizeInv'
  <2>1. size \in Nat /\ total \in Int /\ len \in Nat
    BY DEF TypeInv
  <2>2. Reach' = Reach /\ new.to <= Reach
    BY <1>1, <1>3, <2>1 DEF Reach, Max
  <2> QED BY <1>2, <2>2 DEF SizeInv
<1> QED BY <1>4, <1>5, <1>6, <1>7

LEMMA ServerWriteStep == Inv /\ ServerWrite => Inv'
<1> SUFFICES ASSUME Inv, ServerWrite PROVE Inv'
  OBVIOUS
<1> USE DEF Inv, fileVars
<1>1. PICK r \in wire :
        /\ r.from >= 0
        /\ wire' = wire \ {r} /\ file' = file \cup (r.from .. r.to - 1) /\ end' = Max(end, r.to)
        /\ piece' = IF pc = "send" /\ r.of # 0 /\ piece[r.of] = "run"
                      THEN [piece EXCEPT ![r.of] = "executed"] ELSE piece
  BY DEF ServerWrite
<1>2. UNCHANGED <<src, mode, pc, total, len, next, written, err, n, fileVars>>
  BY DEF ServerWrite
<1>3. r.of \in Nat /\ r.from \in Nat /\ r.to \in Int /\ file \subseteq file'
  BY <1>1 DEF TypeInv
<1>4. TypeInv'
  <2>1. end' \in Nat /\ file' \in SUBSET Nat /\ wire' \in SUBSET [of : Nat, from : Int, to : Int]
    <3>1. end' \in Nat
      BY <1>1, <1>3 DEF TypeInv, Max
    <3>2. r.from .. r.to - 1 \subseteq Nat
      BY <1>3
    <3>3. file' \in SUBSET Nat
      BY <1>1, <3>2, Zenon DEF TypeInv
    <3>4. wire' \in SUBSET [of : Nat, from : Int, to : Int]
      BY <1>1, Zenon DEF TypeInv
    <3> QED BY <3>1, <3>3, <3>4
  <2>2. piece' \in [Pieces(len) -> {"new", "run", "executed", "ok", "failed"}]
    BY <1>1, Zenon DEF TypeInv
  <2> QED BY <1>2, <2>1, <2>2 DEF TypeInv, InCall
<1>5. \A i : Bytes(i)' = Bytes(i) /\ PieceLen(i)' = PieceLen(i)
  BY <1>2 DEF Bytes, PieceLen
<1>6. PieceInv'
  <2>1. CASE piece' = piece
    BY <1>1, <1>2, <1>3, <1>5, <2>1 DEF PieceInv, Sending
  <2>2. CASE /\ pc = "send" /\ r.of # 0 /\ piece[r.of] = "run"
             /\ piece' = [piece EXCEPT ![r.of] = "executed"]
    <3>1. r.of \in Pieces(len) /\ Bytes(r.of) \subseteq file' /\ ~(r.of >= next)
      <4>1. /\ r.of \in Pieces(len) /\ r.from = total + Start(r.of)
            /\ r.to = total + Start(r.of) + PieceLen(r.of)
        BY <2>2 DEF PieceInv
      <4>2. Bytes(r.of) = r.from .. r.to - 1
        BY <4>1, Zenon DEF Bytes
      <4>3. ~(r.of >= next)
        BY <2>2, <4>1 DEF PieceInv
      <4> QED BY <1>1, <4>1, <4>2, <4>3
    <3> QED BY <1>1, <1>2, <1>3, <1>5, <2>2, <3>1 DEF TypeInv, PieceInv, Sending
  <2> QED BY <1>1, <2>1, <2>2
<1>7. SumInv'
  <2> SUFFICES ASSUME pc = "sum" PROVE SumInv'
    BY <1>2 DEF SumInv
  <2>1. /\ next \in Pieces(len) /\ Start(next) \in Nat /\ n \in Nat /\ total \in Int
    BY PieceLenFacts DEF SumInv, TypeInv
  <2>2. /\ Cardinality(Done(Start(next))) \in Nat /\ Cardinality(Done(Start(next)))' \in Nat
        /\ Cardinality(Done(Start(next))) <= Cardinality(Done(Start(next)))'
    BY <1>2, <1>3, <2>1, DoneGrows, Zenon DEF Done
  <2> QED BY <1>2, <2>1, <2>2 DEF SumInv
<1>8. ResultInv'
  <2>1. len \in Nat /\ n \in Nat /\ total \in Int
    BY DEF TypeInv
  <2>2. /\ Cardinality(Done(len)) \in Nat /\ Cardinality(Done(len))' \in Nat
        /\ Cardinality(Done(len)) <= Cardinality(Done(len))'
    BY <1>2, <1>3, <2>1, DoneGrows, Zenon DEF Done
  <2> QED BY <1>2, <2>1, <2>2 DEF ResultInv
<1>9. PrefixInv'
  BY <1>2, <1>3 DEF PrefixInv, InCall
<1>10. SizeInv'
  BY <1>1, <1>2, <1>3 DEF TypeInv, SizeInv, Reach, Max
<1> QED BY <1>4, <1>6, <1>7, <1>8, <1>9, <1>10

LEMMA ServerRefuseStep == Inv /\ ServerRefuse => Inv'
<1> SUFFICES ASSUME Inv, ServerRefuse PROVE Inv'
  OBVIOUS
<1>1. wire' \subseteq wire
  BY DEF ServerRefuse
<1> QED BY <1>1 DEF Inv, ServerRefuse, callVars, fileVars, TypeInv, PieceInv, SumInv, ResultInv,
           PrefixInv, SizeInv, Sending, InCall, Bytes, PieceLen, Done, Reach

LEMMA PieceOKStep ==
  ASSUME Inv, NEW i \in DOMAIN piece, PieceOK(i)
  PROVE  Inv'
<1> USE DEF Inv, PieceOK, fileVars
<1>1. i \in Pieces(len) /\ pc = "send" /\ ~(i >= next) /\ PieceLen(i) \in Nat
  <2>1. i \in Pieces(len)
    BY DEF TypeInv
  <2> QED BY <2>1, PieceLenFacts DEF PieceInv
<1>2. TypeInv'
  BY <1>1 DEF TypeInv, InCall
<1>3. \A j : Bytes(j)' = Bytes(j) /\ PieceLen(j)' = PieceLen(j)
  BY DEF Bytes, PieceLen
<1>4. PieceInv'
  BY <1>1, <1>3 DEF TypeInv, PieceInv, Sending
<1>5. SumInv' /\ ResultInv' /\ PrefixInv' /\ SizeInv'
  BY <1>1 DEF SumInv, ResultInv, PrefixInv, SizeInv, InCall, Reach
<1> QED BY <1>2, <1>4, <1>5

LEMMA PieceFailStep ==
  ASSUME Inv, NEW i \in DOMAIN piece, PieceFail(i)
  PROVE  Inv'
<1> USE DEF Inv, PieceFail, fileVars
<1>1. i \in Pieces(len) /\ pc = "send" /\ ~(i >= next) /\ piece[i] # "ok"
  <2>1. i \in Pieces(len)
    BY DEF TypeInv
  <2> QED BY <2>1 DEF PieceInv, Running
<1>2. TypeInv'
  BY <1>1 DEF TypeInv, InCall
<1>3. \A j : Bytes(j)' = Bytes(j) /\ PieceLen(j)' = PieceLen(j)
  BY DEF Bytes, PieceLen
<1>4. PieceInv'
  BY <1>1, <1>3 DEF TypeInv, PieceInv, Sending
<1>5. SumInv' /\ ResultInv' /\ PrefixInv' /\ SizeInv'
  BY <1>1 DEF SumInv, ResultInv, PrefixInv, SizeInv, TypeInv, InCall, Reach
<1> QED BY <1>2, <1>4, <1>5

LEMMA WaitStep == Inv /\ Wait => Inv'
<1> SUFFICES ASSUME Inv, Wait PROVE Inv'
  OBVIOUS
<1> USE DEF Inv, Wait, fileVars
<1>1. 1 \in Pieces(len) /\ Start(1) = 0 /\ DOMAIN piece = Pieces(len) /\ n = 0
  <2>1. len \in Nat /\ len > 0
    BY DEF TypeInv, InCall
  <2> QED BY <2>1, PieceFacts, StartFacts DEF TypeInv, PieceInv
<1>2. TypeInv'
  BY DEF TypeInv, InCall
<1>3. \A j : Bytes(j)' = Bytes(j) /\ PieceLen(j)' = PieceLen(j)
  BY DEF Bytes, PieceLen
<1>4. PieceInv'
  BY <1>1, <1>3 DEF PieceInv, Sending, Joined
<1>5. SumInv'
  <2>1. Cardinality(Done(Start(1))) \in Nat
    BY <1>1, DoneFacts
  <2> QED BY <1>1, <2>1 DEF SumInv, Done
<1>6. ResultInv' /\ PrefixInv' /\ SizeInv'
  BY DEF ResultInv, PrefixInv, SizeInv, InCall, Reach
<1> QED BY <1>2, <1>4, <1>5, <1>6

\* The sum takes another piece, which is in the file if it counts.
LEMMA SumStep == Inv /\ Sum => Inv'
<1> SUFFICES ASSUME Inv, Sum PROVE Inv'
  OBVIOUS
<1> USE DEF Inv, fileVars
<1> DEFINE more == next + 1 \in Pieces(len)
           upto == Start(next) + PieceLen(next)
<1>1. /\ next \in Pieces(len) /\ n <= Cardinality(Done(Start(next))) /\ pc = "sum"
      /\ err = "nil" => n = Start(next)
  BY DEF Sum, SumInv
<1>2. /\ next \in Nat \ {0} /\ Start(next) \in Nat /\ PieceLen(next) \in Nat /\ upto \in Nat
      /\ IF more THEN Start(next + 1) = upto ELSE len = upto
      /\ n \in Nat /\ DOMAIN piece = Pieces(len)
  BY <1>1, PieceLenFacts DEF TypeInv
<1>3. /\ n' = n + written[next] /\ next' = next + 1
      /\ pc' = IF more THEN "sum" ELSE Returned
      /\ UNCHANGED <<src, mode, total, len, piece, written, wire, file, end, err, fileVars>>
  BY <1>2 DEF Sum
<1>4. /\ written[next] = IF piece[next] = "ok" THEN PieceLen(next) ELSE 0
      /\ piece[next] = "ok" => Bytes(next) \subseteq file
      /\ err = "nil" => piece[next] = "ok"
  BY <1>1 DEF PieceInv, Sending
<1>5. /\ n' \in Nat /\ n' <= Cardinality(Done(upto))
      /\ err = "nil" => n' = upto
  <2>1. Cardinality(Done(Start(next))) \in Nat /\ Cardinality(Done(upto)) \in Nat
    BY <1>2, DoneFacts
  <2>2. CASE piece[next] = "ok"
    <3>1. Cardinality(Done(upto)) = Cardinality(Done(Start(next))) + PieceLen(next)
      BY <1>1, <1>4, <2>2, DoneAdds
    <3> HIDE DEF upto
    <3>2. n' = n + PieceLen(next) /\ (err = "nil" => n' = upto)
      BY <1>1, <1>3, <1>4, <2>2 DEF upto
    <3> QED BY <1>1, <1>2, <2>1, <3>1, <3>2
  <2>3. CASE piece[next] # "ok"
    <3>1. n' = n /\ err # "nil"
      BY <1>2, <1>3, <1>4, <2>3
    <3>2. Done(Start(next)) \subseteq Done(upto) /\ IsFiniteSet(Done(upto))
      <4>1. IsFiniteSet(Done(upto))
        BY <1>2, DoneFacts
      <4>2. total \in Int
        BY DEF TypeInv
      <4> QED BY <1>2, <4>1, <4>2 DEF Done
    <3>3. Cardinality(Done(Start(next))) <= Cardinality(Done(upto))
      BY <3>2, FS_Subset
    <3> HIDE DEF upto
    <3> QED BY <1>1, <1>2, <2>1, <3>1, <3>3
  <2> QED BY <2>2, <2>3
<1>6. pc' \in {"sum", "window", "do", "done"} /\ (pc' # "sum" => pc' = Returned /\ ~more)
  BY <1>3 DEF Returned
<1>7. TypeInv'
  <2>1. /\ pc' = "window" => mode = "readFrom"
        /\ pc' = "do" => mode = "File"
        /\ pc' = "done" => mode = "WriteAt"
    BY <1>6 DEF Returned, TypeInv
  <2> HIDE DEF more, upto
  <2> QED BY <1>1, <1>2, <1>3, <1>5, <1>6, <2>1 DEF TypeInv, InCall
<1>8. PieceInv'
  <2>1. \A j : Bytes(j)' = Bytes(j) /\ PieceLen(j)' = PieceLen(j)
    BY <1>3 DEF Bytes, PieceLen
  <2> HIDE DEF more, upto
  <2> QED BY <1>1, <1>3, <1>6, <2>1 DEF PieceInv, Sending
<1>9. SumInv' /\ ResultInv'
  <2>1. ASSUME pc' = "sum" PROVE SumInv'
    <3>1. more /\ next' = next + 1 /\ Start(next + 1) = upto /\ total' = total /\ file' = file
          /\ len' = len /\ err' = err
      BY <1>2, <1>3, <2>1 DEF Returned
    <3> HIDE DEF upto
    <3> QED BY <1>5, <3>1, Zenon DEF SumInv, Done
  <2>2. ASSUME pc' # "sum" PROVE ResultInv'
    <3>1. len = upto /\ total' = total /\ file' = file /\ len' = len /\ err' = err
      BY <1>2, <1>3, <1>6, <2>2
    <3> HIDE DEF upto
    <3> QED BY <1>5, <3>1 DEF ResultInv, Done
  <2> QED BY <2>1, <2>2 DEF SumInv, ResultInv
<1>10. PrefixInv'
  BY <1>1, <1>3, <1>6 DEF PrefixInv, InCall, Returned, TypeInv
<1>11. SizeInv'
  BY <1>1, <1>3, <1>6 DEF SizeInv, Reach
<1> QED BY <1>7, <1>8, <1>9, <1>10, <1>11

-----------------------------------------------------------------------------
(* The callers of WriteAt. *)

\* Nothing is lost sight of that is still on the wire.
LEMMA WriteAtFacts ==
  ASSUME TypeInv, NEW l \in Nat, WriteAt(l)
  PROVE  /\ len' = l /\ next' = 1 /\ n' = 0
         /\ piece' = [i \in Pieces(l) |-> "new"] /\ written' = [i \in Pieces(l) |-> 0]
         /\ wire' \in SUBSET [of : Nat, from : Int, to : Int]
         /\ \A r \in wire' : r.of = 0 /\ \E q \in wire : r.to = q.to
<1>1. \A q \in wire : /\ [q EXCEPT !.of = 0] \in [of : Nat, from : Int, to : Int]
                      /\ [q EXCEPT !.of = 0].of = 0 /\ [q EXCEPT !.of = 0].to = q.to
  BY DEF TypeInv
<1> QED BY <1>1 DEF WriteAt

\* A call of WriteAt begins.
LEMMA BeginStep ==
  ASSUME Inv, NEW l \in Nat, l > 0, WriteAt(l), pc' = "send", err' = "nil",
         UNCHANGED <<src, mode, file, end, size>>, uses' \in Nat, total' \in Int
  PROVE  TypeInv' /\ PieceInv' /\ SumInv' /\ ResultInv'
<1>1. /\ len' = l /\ next' = 1 /\ n' = 0
      /\ piece' = [i \in Pieces(l) |-> "new"] /\ written' = [i \in Pieces(l) |-> 0]
      /\ wire' \in SUBSET [of : Nat, from : Int, to : Int]
      /\ \A r \in wire' : r.of = 0
  BY WriteAtFacts DEF Inv
<1>2. TypeInv'
  BY <1>1 DEF Inv, TypeInv, InCall
<1>3. PieceInv'
  BY <1>1 DEF PieceInv, Sending
<1> QED BY <1>2, <1>3 DEF SumInv, ResultInv

\* A WriteAt that counts everything has written everything.
LEMMA AllWritten ==
  ASSUME Inv, pc \in {"window", "do"}, err = "nil"
  PROVE  n = len /\ total .. (total + len) - 1 \subseteq file
<1>1. len \in Nat /\ total \in Int /\ n \in Nat
  BY DEF Inv, TypeInv
<1>2. n = len /\ n <= Cardinality(Done(len))
  BY DEF Inv, ResultInv
<1>3. Cardinality(Done(len)) = len
  BY <1>1, <1>2, DoneFacts DEF Inv
<1>4. total .. total + len - 1 \subseteq file
  BY <1>1, <1>3, DoneFacts DEF Inv
<1> QED BY <1>1, <1>2, <1>4

LEMMA WindowDoneStep == Inv /\ WindowDone => Inv'
<1> SUFFICES ASSUME Inv, WindowDone PROVE Inv'
  OBVIOUS
<1> USE DEF Inv, WindowDone, fileVars
<1>1. /\ mode = "readFrom" /\ total \in Nat /\ len \in Nat /\ src \in Nat /\ total + len <= src
      /\ 0 .. total - 1 \subseteq file
  BY DEF TypeInv, PrefixInv
<1>2. total' \in Nat /\ total' <= src /\ 0 .. total' - 1 \subseteq file
  <2>1. CASE err = "nil"
    BY <1>1, <2>1, AllWritten
  <2>2. CASE err # "nil"
    BY <1>1, <2>2
  <2> QED BY <2>1, <2>2
<1>3. CASE err = "nil" /\ total' < src
  <2> DEFINE l == Min(Window, src - total')
  <2>1. l \in Nat /\ l > 0 /\ total' + l <= src
    BY <1>1, <1>2, <1>3, WindowIsPositive DEF Min
  <2>2. WriteAt(l) /\ pc' = "send" /\ err' = "nil"
    BY <1>1, <1>2, <1>3
  <2> HIDE DEF l
  <2>3. TypeInv' /\ PieceInv' /\ SumInv' /\ ResultInv' /\ len' = l
    BY <1>2, <2>1, <2>2, BeginStep, WriteAtFacts DEF TypeInv
  <2>4. PrefixInv'
    BY <1>1, <1>2, <2>1, <2>2, <2>3 DEF PrefixInv
  <2>5. SizeInv'
    BY <1>1 DEF SizeInv
  <2> QED BY <2>3, <2>4, <2>5
<1>4. CASE ~(err = "nil" /\ total' < src)
  <2>1. pc' = "done" /\ UNCHANGED <<len, next, piece, written, n, wire>>
    BY <1>4
  <2>2. err' = "nil" => total' = src
    BY <1>1, <1>2, <1>4
  <2>3. TypeInv'
    BY <1>1, <1>2, <2>1 DEF TypeInv, InCall
  <2>4. PieceInv' /\ SumInv' /\ ResultInv'
    BY <1>1, <2>1 DEF PieceInv, SumInv, ResultInv, Sending
  <2>5. PrefixInv'
    BY <1>1, <1>2, <2>1, <2>2 DEF PrefixInv, InCall
  <2>6. SizeInv'
    BY <1>1 DEF SizeInv
  <2> QED BY <2>3, <2>4, <2>5, <2>6
<1> QED BY <1>3, <1>4

LEMMA StartWriteStep ==
  ASSUME Inv, NEW l \in Nat, StartWrite(l)
  PROVE  Inv'
<1> USE DEF Inv, StartWrite, Use
<1>1. mode = "File" /\ total \in Int /\ size \in Nat /\ end \in Nat /\ uses' \in Nat
  BY DEF TypeInv
<1>2. /\ len' = l /\ next' = 1 /\ n' = 0
      /\ piece' = [i \in Pieces(l) |-> "new"] /\ written' = [i \in Pieces(l) |-> 0]
      /\ wire' \in SUBSET [of : Nat, from : Int, to : Int]
      /\ \A r \in wire' : r.of = 0 /\ \E q \in wire : r.to = q.to
  BY WriteAtFacts
<1>3. TypeInv' /\ PieceInv' /\ SumInv' /\ ResultInv'
  <2>1. CASE l > 0
    BY <1>1, <2>1, BeginStep
  <2>2. CASE l = 0
    <3>1. Pieces(l) = {} /\ pc' = "do" /\ err' = "nil"
      BY <2>2 DEF Pieces
    <3>2. TypeInv'
      BY <1>1, <1>2, <2>2, <3>1 DEF TypeInv, InCall
    <3>3. Cardinality(Done(l))' \in Nat
      BY <1>1, <3>2, DoneGrows, Zenon DEF Done
    <3>4. PieceInv' /\ SumInv'
      BY <1>2, <3>1 DEF PieceInv, SumInv, Sending
    <3>5. ResultInv'
      BY <1>2, <2>2, <3>1, <3>3 DEF ResultInv
    <3> QED BY <3>2, <3>4, <3>5
  <2> QED BY <2>1, <2>2
<1>4. PrefixInv'
  BY <1>1 DEF PrefixInv
<1>5. SizeInv'
  <2>1. doubt = {} => \A r \in wire : r.to <= size /\ r.to \in Int
    BY <1>1 DEF SizeInv, Reach, TypeInv
  <2> QED BY <1>1, <1>2, <2>1 DEF SizeInv, Reach, Max
<1> QED BY <1>3, <1>4, <1>5

LEMMA RunAgainStep == Inv /\ RunAgain => Inv'
<1> SUFFICES ASSUME Inv, RunAgain PROVE Inv'
  OBVIOUS
<1> USE DEF Inv, RunAgain
<1>1. len \in Nat /\ len > 0 /\ total \in Int /\ uses \in Nat /\ mode = "File"
  BY DEF TypeInv, InCall
<1>2. TypeInv' /\ PieceInv' /\ SumInv' /\ ResultInv'
  BY <1>1, BeginStep
<1>3. len' = len /\ \A r \in wire' : \E q \in wire : r.to = q.to
  BY <1>1, WriteAtFacts
<1>4. PrefixInv'
  BY <1>1 DEF PrefixInv
<1>5. SizeInv'
  BY <1>1, <1>3 DEF SizeInv, Reach
<1> QED BY <1>2, <1>4, <1>5

\* A Write does not take the cursor past the end of the file: a count is a
\* number of bytes that lie between the two.
LEMMA CursorStaysInside ==
  ASSUME Inv, pc = "do"
  PROVE  n = 0 \/ total + n <= end
<1>1. len \in Nat /\ total \in Int /\ n \in Nat /\ end \in Nat
  BY DEF Inv, TypeInv
<1>2. n <= Cardinality(Done(len))
  BY DEF Inv, ResultInv
<1>3. Cardinality(Done(len)) \in Nat
  BY <1>1, DoneFacts DEF Inv
<1>4. CASE end <= total
  <2>1. Done(len) = {}
    BY <1>1, <1>4 DEF Done, Inv, SizeInv
  <2> QED BY <1>1, <1>2, <2>1, FS_EmptySet
<1>5. CASE end > total
  <2>1. Done(len) \in SUBSET (total .. end - 1)
    BY <1>1 DEF Done, Inv, SizeInv
  <2>2. IsFiniteSet(total .. end - 1) /\ Cardinality(total .. end - 1) = end - total
    <3>1. /\ total \in Int /\ end - 1 \in Int /\ ~(total > end - 1)
          /\ (end - 1) - total + 1 = end - total
      BY <1>1, <1>5
    <3> QED BY <3>1, FS_Interval
  <2>3. Cardinality(Done(len)) <= end - total
    BY <2>1, <2>2, FS_Subset, Zenon
  <2> QED BY <1>1, <1>2, <1>3, <2>3
<1> QED BY <1>1, <1>4, <1>5

LEMMA WriteReturnsStep == Inv /\ WriteReturns => Inv'
<1> SUFFICES ASSUME Inv, WriteReturns PROVE Inv'
  OBVIOUS
<1> USE DEF Inv, WriteReturns
<1>1. /\ mode = "File" /\ total \in Int /\ n \in Nat /\ size \in Nat /\ end \in Nat /\ len \in Nat
      /\ total' = total + n /\ size' = Max(size, total + n) /\ size' \in Nat
  BY DEF TypeInv, Max
<1>2. err = "nil" => n = len /\ total .. (total + len) - 1 \subseteq file
  BY AllWritten
<1>3. TypeInv'
  BY <1>1 DEF TypeInv, InCall
<1>4. PieceInv' /\ SumInv' /\ ResultInv'
  BY DEF PieceInv, SumInv, ResultInv, Sending
<1>5. PrefixInv'
  <2>1. acked' \subseteq file
    BY <1>1, <1>2 DEF PrefixInv
  <2> QED BY <1>1, <2>1 DEF PrefixInv
<1>6. SizeInv'
  <2>1. n = 0 \/ total + n <= end
    BY CursorStaysInside
  <2>2. {"truncate", "gap"} \cap doubt' = {} => size' <= end'
    <3> SUFFICES ASSUME {"truncate", "gap"} \cap doubt' = {} PROVE size' <= end
      OBVIOUS
    <3>1. size <= end
      BY <1>1 DEF SizeInv
    <3>2. ~(n = 0 /\ total > size)
      BY DEF WriteDoubt
    <3> QED BY <1>1, <2>1, <3>1, <3>2 DEF Max
  <2>3. doubt' = {} => end <= size' /\ \A r \in wire : r.to <= size'
    <3> SUFFICES ASSUME doubt' = {} PROVE end <= size' /\ \A r \in wire : r.to <= size'
      OBVIOUS
    <3>1. doubt = {} /\ err = "nil"
      BY DEF WriteDoubt
    <3>2. Reach = size'
      BY <1>1, <1>2, <3>1 DEF Reach
    <3> QED BY <1>1, <3>1, <3>2 DEF SizeInv
  <2> QED BY <1>1, <2>2, <2>3 DEF SizeInv, Reach
<1> QED BY <1>3, <1>4, <1>5, <1>6

LEMMA SeekStep ==
  ASSUME Inv, NEW w \in {"start", "current", "end"}, NEW o \in Int, Seek(w, o)
  PROVE  Inv'
<1> USE DEF Inv, Seek, Use
<1>1. total' \in Int
  BY DEF TypeInv
<1>2. TypeInv'
  BY <1>1 DEF TypeInv, InCall
<1>3. PieceInv' /\ SumInv' /\ ResultInv' /\ PrefixInv'
  BY DEF PieceInv, SumInv, ResultInv, PrefixInv, Sending
<1>4. SizeInv'
  BY DEF SizeInv, Reach
<1> QED BY <1>2, <1>3, <1>4

\* Either form of FPSetForkParms carries the length it is given.
LEMMA TruncateIsExact == \A s \in Nat : ForkTruncate(s) = s
BY DEF ForkTruncate

LEMMA TruncateStep ==
  ASSUME Inv, NEW s \in Nat, Truncate(s)
  PROVE  Inv'
<1> USE DEF Inv, Truncate, Use, callVars
<1>1. ForkTruncate(s) = s /\ end \in Nat /\ size \in Nat /\ mode = "File"
  BY TruncateIsExact DEF TypeInv
<1>2. PICK executed \in BOOLEAN, ok \in BOOLEAN :
        /\ ok => executed
        /\ end' = IF executed THEN s ELSE end
        /\ file' = IF executed THEN {b \in file : b < s} ELSE file
        /\ acked' = IF executed THEN {b \in acked : b < s} ELSE acked
        /\ size' = IF ok THEN s ELSE size
        /\ doubt' = IF ~ok THEN doubt \cup {"truncate"}
                    ELSE IF wire = {} THEN {} ELSE {"late"}
  BY <1>1
<1>3. TypeInv'
  <2>1. end' \in Nat /\ size' \in Nat
    BY <1>1, <1>2
  <2>2. file' \in SUBSET Nat
    BY <1>2, Zenon DEF TypeInv
  <2>3. UNCHANGED <<callVars, pc, wire, att>> /\ uses' = uses + 1
    OBVIOUS
  <2> HIDE DEF Truncate, Use
  <2> QED BY <2>1, <2>2, <2>3 DEF TypeInv, InCall
<1>4. PieceInv' /\ SumInv' /\ ResultInv'
  BY Zenon DEF PieceInv, SumInv, ResultInv, Sending
<1>5. PrefixInv'
  BY <1>1, <1>2 DEF PrefixInv
<1>6. SizeInv'
  <2>1. \A b \in file' : b < end'
    BY <1>1, <1>2 DEF SizeInv, TypeInv
  <2>2. CASE ok
    BY <1>1, <1>2, <2>1, <2>2 DEF SizeInv, Reach
  <2>3. CASE ~ok
    BY <1>1, <1>2, <2>1, <2>3 DEF SizeInv
  <2> QED BY <2>2, <2>3
<1> QED BY <1>3, <1>4, <1>5, <1>6

LEMMA OthersAppendStep == Inv /\ OthersAppend => Inv'
<1> SUFFICES ASSUME Inv, OthersAppend PROVE Inv'
  OBVIOUS
<1> USE DEF Inv, OthersAppend, Use, callVars
<1>1. TypeInv'
  BY DEF TypeInv, InCall
<1>2. PieceInv' /\ SumInv' /\ ResultInv' /\ PrefixInv'
  BY DEF PieceInv, SumInv, ResultInv, PrefixInv, Sending
<1>3. SizeInv'
  BY DEF SizeInv, Reach, TypeInv
<1> QED BY <1>1, <1>2, <1>3

LEMMA NextInv == Inv /\ [Next]_vars => Inv'
<1> SUFFICES ASSUME Inv, [Next]_vars PROVE Inv'
  BY Zenon
<1>1. CASE UNCHANGED vars
  BY <1>1 DEF vars, callVars, fileVars, Inv, TypeInv, PieceInv, SumInv, ResultInv, PrefixInv,
              SizeInv, Sending, InCall, Bytes, PieceLen, Done, Reach
<1> QED BY <1>1, SpawnStep, WaitStep, SumStep, WindowDoneStep, ServerWriteStep, ServerRefuseStep,
           PieceOKStep, PieceFailStep, StartWriteStep, RunAgainStep, WriteReturnsStep,
           SeekStep, OthersAppendStep, TruncateStep DEF Next

LEMMA Invariance == Spec => []Inv
BY InitInv, NextInv, PTL DEF Spec

-----------------------------------------------------------------------------
\* WriteAt counts only what is in the file, and all of it unless it reports an
\* error, for any split into pieces and whichever of them fail or come late.
THEOREM CountsAreHonest == Spec => []CountIsHonest
<1>1. Inv => CountIsHonest
  BY DEF Inv, ResultInv, Done, CountIsHonest
<1> QED BY <1>1, Invariance, PTL

\* What readFrom counts is a prefix of its source that is in the file, and what
\* a File.Write that returned nil was given stays there until it is truncated
\* away, for any writes, seeks and truncations of any length.
THEOREM CountedIsInFile == Spec => []CountedIsWritten
<1>1. Inv => CountedIsWritten
  BY DEF Inv, PrefixInv, CountedIsWritten
<1> QED BY <1>1, Invariance, PTL

\* File.size is the end of the file until something fails, is late or is done by
\* somebody else; it is not beyond the end unless a truncation failed or a
\* Write beyond the end wrote nothing. So for any writes, seeks and truncations.
THEOREM SizeIsTracked == Spec => []SizeTracksEnd
<1>1. Inv => SizeTracksEnd
  BY DEF Inv, TypeInv, SizeInv, Reach, SizeTracksEnd
<1> QED BY <1>1, Invariance, PTL
=============================================================================
