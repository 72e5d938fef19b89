------------------------------ MODULE ForkWrite ------------------------------
(***************************************************************************)
(* The write path of internal/afp/write.go: WriteAt splits its data into   *)
(* pieces and writes them with concurrent FPWriteExt requests; readFrom    *)
(* streams a whole source in windows of maxParallel pieces; File.Write of  *)
(* internal/nfsfs/file.go writes at a cursor, keeps a size of its own, and *)
(* runs WriteAt again when its link died.                                  *)
(*                                                                         *)
(* Of the bytes only their positions in the file are followed.  A request  *)
(* may be executed by the server although its caller gets an error, and    *)
(* even after WriteAt has returned.                                        *)
(***************************************************************************)
EXTENDS Integers, FiniteSets

CONSTANTS
  ChunkSize,     \* Fork.chunkSize
  Quantum,       \* Conn.ServerQuantum, 0 when unknown
  HeaderLen,     \* writeChunkHeaderLen: 20 in the code
  DefaultChunk,  \* the chunk size used for want of a better: 32 KiB in the code
  MaxParallel,   \* Fork.maxParallel
  MaxSrc,        \* bound on the length of what WriteAt or readFrom is given
  MaxWrite,      \* bound on what a caller gives to one File.Write
  MaxSeek,       \* bound on the offsets of File.Seek
  MaxSize,       \* bound on the lengths of File.Truncate
  Limit32,       \* the longest length that fits 32 bits: 2^32 - 1 in the code
  MaxUses        \* bound on the calls of a File and the writes by others

ASSUME ForkWriteAssumption ==
  /\ ChunkSize \in Nat /\ Quantum \in Nat /\ HeaderLen \in Nat
  /\ DefaultChunk \in Nat \ {0} /\ MaxParallel \in Nat \ {0} /\ MaxSrc \in Nat
  /\ MaxWrite \in Nat /\ MaxSeek \in Nat /\ MaxSize \in Nat /\ Limit32 \in Nat
  /\ MaxUses \in Nat

VARIABLES
  src,        \* length of what WriteAt or readFrom is given
  mode,       \* "WriteAt" for one call by a caller, "readFrom" for a stream, "File"
  pc,         \* where the caller is
  total,      \* what readFrom has counted so far; File.cursor
  len,        \* length of the data the current WriteAt writes
  next,       \* the next piece g.Go starts, or the sum counts
  piece,      \* the state of each piece
  written,    \* the count each piece returned
  wire,       \* pieces sent and not yet executed: where they begin and end in the file,
              \* and which piece of the current WriteAt, 0 for one of an earlier call
  file,       \* positions in the file that the caller's pieces have written
  err,        \* the errgroup's first error, and what readFrom returns
  n,          \* WriteAt's total
  att,        \* File.Write: which run of WriteAt
  size,       \* File.size
  end,        \* the length of the file
  acked,      \* positions written by a File.Write that returned nil, and not cut off
  doubt,      \* what may have made size wrong since a Truncate last set it: "write",
              \* "truncate", "gap", "late" or "others"
  uses        \* bound used up

callVars == <<src, mode, total, len, next, piece, written, err, n>>
fileVars == <<att, size, acked, doubt, uses>>
vars == <<callVars, pc, wire, file, end, fileVars>>

Min(a, b) == IF a < b THEN a ELSE b
Max(a, b) == IF a > b THEN a ELSE b

WriteChunkSize ==
  LET max    == Quantum - HeaderLen
      capped == IF Quantum > 0 /\ max > 0 /\ ChunkSize > max THEN max ELSE ChunkSize
  IN  IF capped <= 0 THEN DefaultChunk ELSE capped

Window == WriteChunkSize * MaxParallel

\* for pos := 0; pos < len(p); pos += chunk
Start(i) == (i - 1) * WriteChunkSize
Pieces(l) == {i \in 1 .. l : Start(i) < l}
PieceLen(i) == Min(WriteChunkSize, len - Start(i))

\* WriteAt is called with l bytes.
WriteAt(l) ==
  /\ len' = l /\ next' = 1 /\ n' = 0
  /\ wire' = {[r EXCEPT !.of = 0] : r \in wire}
  /\ piece' = [i \in Pieces(l) |-> "new"]
  /\ written' = [i \in Pieces(l) |-> 0]

\* How the source ends: by EOF, or by an error after its last byte.
SourceEnd == {"nil", "rerr"}

\* A File is opened with the length of the fork, and with O_APPEND its cursor
\* is there.
Init ==
  /\ \/ mode = "WriteAt" /\ src \in 0 .. MaxSrc /\ len = src /\ end = 0
     \/ mode = "readFrom" /\ src \in 0 .. MaxSrc /\ len = Min(Window, src) /\ end = 0
     \/ mode = "File" /\ src = 0 /\ len = 0 /\ end \in 0 .. 1
  /\ total \in {0, end} /\ size = end
  /\ pc = IF mode = "File" THEN "idle" ELSE IF len = 0 THEN "done" ELSE "send"
  /\ next = 1 /\ att = 0
  /\ piece = [i \in Pieces(len) |-> "new"]
  /\ written = [i \in Pieces(len) |-> 0]
  /\ wire = {} /\ file = {} /\ n = 0 /\ acked = {} /\ doubt = {} /\ uses = 0
  /\ err \in IF mode = "readFrom" /\ src = 0 THEN SourceEnd ELSE {"nil"}

-----------------------------------------------------------------------------
Running == {i \in DOMAIN piece : piece[i] \in {"run", "executed"}}

\* g.Go, with its limit, and writeChunk up to the wait for the reply. Once a
\* piece has failed the context is done, and the rest is sent all the same.
Spawn ==
  /\ pc = "send" /\ next \in DOMAIN piece
  /\ Cardinality(Running) < MaxParallel
  /\ piece' = [piece EXCEPT ![next] = "run"]
  /\ wire' = wire \cup
       {[of |-> next, from |-> total + Start(next), to |-> total + Start(next) + PieceLen(next)]}
  /\ next' = next + 1
  /\ UNCHANGED <<src, mode, pc, total, len, written, file, end, err, n, fileVars>>

\* The server writes all of a piece, unless it would begin before the file.
ServerWrite ==
  /\ \E r \in wire :
       /\ r.from >= 0
       /\ wire' = wire \ {r}
       /\ file' = file \cup (r.from .. r.to - 1)
       /\ end' = Max(end, r.to)
       /\ piece' = IF pc = "send" /\ r.of # 0 /\ piece[r.of] = "run"
                     THEN [piece EXCEPT ![r.of] = "executed"] ELSE piece
  /\ UNCHANGED <<src, mode, pc, total, len, next, written, err, n, fileVars>>

\* The server refuses it, or it is lost.
ServerRefuse ==
  /\ \E r \in wire : wire' = wire \ {r}
  /\ UNCHANGED <<callVars, pc, file, end, fileVars>>

PieceOK(i) ==
  /\ i \in DOMAIN piece /\ piece[i] = "executed"
  /\ piece' = [piece EXCEPT ![i] = "ok"]
  /\ written' = [written EXCEPT ![i] = PieceLen(i)]
  /\ UNCHANGED <<src, mode, pc, total, len, next, wire, file, end, err, n, fileVars>>

\* Mutant of PieceFail: what was sent is counted, whatever the answer.
PieceFailCounted(i) ==
  /\ i \in Running
  /\ piece' = [piece EXCEPT ![i] = "failed"]
  /\ written' = [written EXCEPT ![i] = PieceLen(i)]
  /\ err' = "err"
  /\ UNCHANGED <<src, mode, pc, total, len, next, wire, file, end, n, fileVars>>

\* A refusal, a dead connection, a deadline or the cancelled context: the
\* piece may have been executed, and may still be.
PieceFail(i) ==
  /\ i \in Running
  /\ piece' = [piece EXCEPT ![i] = "failed"]
  /\ err' = "err"
  /\ UNCHANGED <<src, mode, pc, total, len, next, written, wire, file, end, n, fileVars>>

Joined == \A i \in DOMAIN piece : piece[i] \in {"ok", "failed"}

\* Where WriteAt returns to.
Returned == IF mode = "readFrom" THEN "window" ELSE IF mode = "File" THEN "do" ELSE "done"

\* g.Wait.
Wait ==
  /\ pc = "send" /\ Joined
  /\ pc' = "sum" /\ next' = 1
  /\ UNCHANGED <<src, mode, total, len, piece, written, wire, file, end, err, n, fileVars>>

\* The sum of the counts, an error or not.
Sum ==
  /\ pc = "sum"
  /\ n' = n + written[next] /\ next' = next + 1
  /\ pc' = IF next' \in DOMAIN piece THEN "sum" ELSE Returned
  /\ UNCHANGED <<src, mode, total, len, piece, written, wire, file, end, err, fileVars>>

\* Mutant of WindowDone: the window is counted before its error is looked at.
WindowDoneCountsFirst ==
  /\ pc = "window"
  /\ total' = total + len
  /\ IF err = "nil" /\ total' < src
       THEN pc' = "send" /\ WriteAt(Min(Window, src - total'))
       ELSE pc' = "done" /\ UNCHANGED <<len, next, piece, written, n, wire>>
  /\ err' \in IF err = "nil" /\ total' = src THEN SourceEnd ELSE {err}
  /\ UNCHANGED <<src, mode, file, end, fileVars>>

\* readFrom counts a window that was written and reads the next one; the
\* source's end is found with the window that is not full.
WindowDone ==
  /\ pc = "window"
  /\ total' = IF err = "nil" THEN total + len ELSE total
  /\ IF err = "nil" /\ total' < src
       THEN pc' = "send" /\ WriteAt(Min(Window, src - total'))
       ELSE pc' = "done" /\ UNCHANGED <<len, next, piece, written, n, wire>>
  /\ err' \in IF err = "nil" /\ total' = src THEN SourceEnd ELSE {err}
  /\ UNCHANGED <<src, mode, file, end, fileVars>>

-----------------------------------------------------------------------------
(* File.Write, Seek and Truncate. *)

Use == mode = "File" /\ pc = "idle" /\ uses < MaxUses /\ uses' = uses + 1

\* WriteAt does nothing for no bytes.
StartWrite(l) ==
  /\ Use /\ WriteAt(l)
  /\ err' = "nil" /\ att' = 1 /\ pc' = IF l = 0 THEN "do" ELSE "send"
  /\ UNCHANGED <<src, mode, total, file, end, size, acked, doubt>>

\* WriteAt failed and the link is dead: do reconnects, File.open opens the fork
\* again, and WriteAt runs once more, at the same cursor.
RunAgain ==
  /\ pc = "do" /\ err # "nil" /\ att = 1
  /\ WriteAt(len)
  /\ err' = "nil" /\ att' = 2 /\ pc' = "send"
  /\ UNCHANGED <<src, mode, total, file, end, size, acked, doubt, uses>>

\* What a Write that counted c bytes leaves in doubt: where its data ends,
\* if it failed; and whether there is anything up to the cursor, if that lies
\* beyond the end and nothing was written there.
WriteDoubt(c) ==
  (IF err = "nil" THEN {} ELSE {"write"}) \cup (IF c = 0 /\ total > size THEN {"gap"} ELSE {})

\* Mutant of WriteReturns: the whole of the data is counted.
WriteReturnsLen ==
  /\ pc = "do"
  /\ total' = total + len /\ size' = Max(size, total')
  /\ doubt' = doubt \cup WriteDoubt(len)
  /\ acked' = IF err = "nil" THEN acked \cup (total .. total + len - 1) ELSE acked
  /\ pc' = "idle"
  /\ UNCHANGED <<src, mode, len, next, piece, written, err, n, wire, file, end, att, uses>>

\* File.Write counts what WriteAt did, also when that failed: on a living link,
\* twice, or for want of a link or a fork to run again on.
WriteReturns ==
  /\ pc = "do"
  /\ total' = total + n /\ size' = Max(size, total')
  /\ doubt' = doubt \cup WriteDoubt(n)
  /\ acked' = IF err = "nil" THEN acked \cup (total .. total + len - 1) ELSE acked
  /\ pc' = "idle"
  /\ UNCHANGED <<src, mode, len, next, piece, written, err, n, wire, file, end, att, uses>>

\* File.Seek, to wherever its caller says. File.Read moves the cursor as well.
Seek(whence, offset) ==
  /\ Use
  /\ total' = CASE whence = "start"   -> offset
                [] whence = "current" -> total + offset
                [] whence = "end"     -> size + offset
  /\ UNCHANGED <<src, mode, pc, len, next, piece, written, err, n, wire, file, end, att, size,
                 acked, doubt>>

\* Fork.Truncate: the length the server gets, in 32 bits if it fits.
ForkTruncate(s) ==
  IF s <= Limit32 THEN s % (Limit32 + 1) ELSE s

\* The server executes it or not, and if it did the answer arrives or not. What
\* is still on the wire then may lengthen the file again.
Truncate(s) ==
  /\ Use
  /\ \E executed, ok \in BOOLEAN :
       /\ ok => executed
       /\ end' = IF executed THEN ForkTruncate(s) ELSE end
       /\ file' = IF executed THEN {b \in file : b < end'} ELSE file
       /\ acked' = IF executed THEN {b \in acked : b < end'} ELSE acked
       /\ size' = IF ok THEN s ELSE size
       /\ doubt' = IF ~ok THEN doubt \cup {"truncate"}
                   ELSE IF wire = {} THEN {} ELSE {"late"}
  /\ UNCHANGED <<callVars, pc, wire, att>>

\* Somebody else writes at the end of the file.
OthersAppend ==
  /\ Use /\ end' = end + 1 /\ doubt' = doubt \cup {"others"}
  /\ UNCHANGED <<callVars, pc, wire, file, att, size, acked>>

Next ==
  \/ Spawn \/ Wait \/ Sum \/ WindowDone \/ ServerWrite \/ ServerRefuse
  \/ \E i \in DOMAIN piece : PieceOK(i) \/ PieceFail(i)
  \/ RunAgain \/ WriteReturns \/ OthersAppend
  \/ \E l \in 0 .. MaxWrite : StartWrite(l)
  \/ \E w \in {"start", "current", "end"}, o \in -MaxSeek .. MaxSeek : Seek(w, o)
  \/ \E s \in 0 .. MaxSize : Truncate(s)

Spec == Init /\ [][Next]_vars

-----------------------------------------------------------------------------
\* WriteAt never counts a byte that is not in the file, and without an error it
\* counts all of them: no piece is forgotten between two others, and no error
\* of a piece is lost. A piece whose caller gave up may be in the file,
\* uncounted.
CountIsHonest ==
  pc \in {"window", "do"} \/ (pc = "done" /\ mode = "WriteAt" /\ src > 0) =>
    /\ n <= Cardinality(file \cap (total .. total + len - 1))
    /\ err = "nil" => n = len

\* What readFrom counts is a prefix of its source that is in the file, and all
\* of the source when it returns nil. What a File.Write that returned nil was
\* given stays in the file until it is truncated away, whatever failed before
\* it and wherever the caller seeks.
CountedIsWritten ==
  /\ mode = "readFrom" => /\ 0 .. total - 1 \subseteq file
                          /\ pc = "done" /\ err = "nil" => total = src
  /\ acked \subseteq file

\* File.size is the length of the file as long as no call failed, nobody else
\* wrote, and nothing was late when a Truncate shortened the file. Failed and
\* late writes and writes by others can only make it too small, although the
\* count of a failed Write is not where its data ends: appending never leaves
\* a hole. That takes a Truncate that failed, or a Write beyond the end that
\* wrote nothing: it failed, or there was nothing to write.
SizeTracksEnd ==
  mode = "File" /\ pc = "idle" =>
    /\ doubt = {} => size = end
    /\ {"truncate", "gap"} \cap doubt = {} => size <= end
=============================================================================
