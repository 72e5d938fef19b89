------------------------------ MODULE ForkRead ------------------------------
(***************************************************************************)
(* The read path of internal/afp/fork.go: ReadAt splits its buffer into    *)
(* chunks and reads them with concurrent FPReadExt requests; writeTo       *)
(* streams a whole fork in windows of maxParallel chunks through one       *)
(* buffer that it uses again and again.                                    *)
(*                                                                         *)
(* A byte of the fork is its own offset, so a byte in the wrong place is   *)
(* visible.  Other clients may change the fork's length at any time.       *)
(***************************************************************************)
EXTENDS Integers, Sequences, FiniteSets

CONSTANTS
  ChunkSize,     \* Fork.chunkSize
  MaxParallel,   \* Fork.maxParallel
  MaxSize,       \* bound on the fork's length and on a caller's offset
  MaxLen,        \* bound on the length of a caller's buffer
  MaxChanges,    \* bound on changes of the length by other clients
  Stale          \* what a buffer holds before anything is read into it

ASSUME ForkReadAssumption ==
  /\ ChunkSize \in Nat \ {0} /\ MaxParallel \in Nat \ {0}
  /\ MaxSize \in Nat /\ MaxLen \in Nat /\ MaxChanges \in Nat
  /\ Stale \notin Nat

VARIABLES
  size,       \* the fork's length at the server
  changes,    \* changes of it so far
  mode,       \* "ReadAt" for one call by a caller, "writeTo" for a stream
  pc,         \* where the caller is
  off,        \* ReadAt's offset; in writeTo also the bytes written so far
  buf,        \* the buffer p
  next,       \* the next chunk g.Go starts, or reassembly copies
  chunk,      \* per chunk: its state, the bytes it got, and short
  err,        \* the errgroup's first error
  n,          \* ReadAt's n
  sink        \* what w has received

vars == <<size, changes, mode, pc, off, buf, next, chunk, err, n, sink>>

Min(a, b) == IF a < b THEN a ELSE b
Max(a, b) == IF a > b THEN a ELSE b

Window == ChunkSize * MaxParallel

\* for pos := 0; pos < len(p); pos += f.chunkSize
Start(c) == (c - 1) * ChunkSize
Chunks(len) == {c \in 1 .. len : Start(c) < len}

Want(c) == Min(ChunkSize, Len(buf) - Start(c))

NewChunks(len) == [c \in Chunks(len) |-> [st |-> "new", got |-> 0, short |-> FALSE]]

Init ==
  /\ size \in 0 .. MaxSize /\ changes = 0
  /\ \/ /\ mode = "writeTo" /\ off = 0
        /\ buf = [i \in 1 .. Window |-> Stale]
     \/ /\ mode = "ReadAt" /\ off \in 0 .. MaxSize
        /\ \E len \in 0 .. MaxLen : buf = [i \in 1 .. len |-> Stale]
  /\ pc = IF buf = <<>> THEN "done" ELSE "read"
  /\ next = 1 /\ chunk = NewChunks(Len(buf))
  /\ err = "nil" /\ n = 0 /\ sink = <<>>

-----------------------------------------------------------------------------
Running == {c \in DOMAIN chunk : chunk[c].st = "run"}

\* g.SetLimit: g.Go blocks while maxParallel goroutines run.
HasSlot == Cardinality(Running) < MaxParallel

Spawn ==
  /\ pc = "read" /\ next \in DOMAIN chunk
  /\ HasSlot
  /\ chunk' = [chunk EXCEPT ![next].st = "run"]
  /\ next' = next + 1
  /\ UNCHANGED <<size, changes, mode, pc, off, buf, err, n, sink>>

\* readChunk: the server answers with what lies in the range. A chunk that
\* ends where the fork ends may come with EOF even if it is complete.
ChunkRead(c) ==
  /\ c \in Running
  /\ LET from == off + Start(c)
         got  == Max(0, Min(Want(c), size - from))
     IN  \E eof \in IF from + got >= size THEN BOOLEAN ELSE {FALSE} :
           chunk' = [chunk EXCEPT ![c] =
                       [st |-> "ok", got |-> got, short |-> eof \/ got < Want(c)]]
  /\ UNCHANGED <<size, changes, mode, pc, off, buf, next, err, n, sink>>

\* The request fails, or its context is done: g keeps the first error. The
\* chunks that follow are still started and still sent.
ChunkFail(c) ==
  /\ c \in Running
  /\ chunk' = [chunk EXCEPT ![c].st = "failed"]
  /\ err' = "err"
  /\ UNCHANGED <<size, changes, mode, pc, off, buf, next, n, sink>>

Joined == \A c \in DOMAIN chunk : chunk[c].st \in {"ok", "failed"}

\* Where ReadAt returns to.
Returned == IF mode = "writeTo" THEN "write" ELSE "done"

\* g.Wait: an error of any chunk is ReadAt's.
Wait ==
  /\ pc = "read" /\ Joined
  /\ n' = 0 /\ next' = 1
  /\ pc' = IF err = "nil" THEN "copy" ELSE Returned
  /\ UNCHANGED <<size, changes, mode, off, buf, chunk, err, sink>>

Copied(c) == Start(c) + 1 .. Start(c) + chunk[c].got

\* Mutant of Copy: reassembly goes on after a short chunk.
CopyAll ==
  /\ pc = "copy"
  /\ n' = n + chunk[next].got
  /\ buf' = [i \in DOMAIN buf |-> IF i \in Copied(next) THEN off + i - 1 ELSE buf[i]]
  /\ err' = IF chunk[next].short THEN "EOF" ELSE err
  /\ next' = next + 1
  /\ pc' = IF next' \in DOMAIN chunk THEN "copy" ELSE Returned
  /\ UNCHANGED <<size, changes, mode, off, chunk, sink>>

\* The reassembly of one chunk: n += copy(p[c.start:], c.data). A short chunk
\* is the last.
Copy ==
  /\ pc = "copy"
  /\ n' = n + chunk[next].got
  /\ buf' = [i \in DOMAIN buf |-> IF i \in Copied(next) THEN off + i - 1 ELSE buf[i]]
  /\ err' = IF chunk[next].short THEN "EOF" ELSE "nil"
  /\ next' = next + 1
  /\ pc' = IF next' \in DOMAIN chunk /\ ~chunk[next].short THEN "copy" ELSE Returned
  /\ UNCHANGED <<size, changes, mode, off, chunk, sink>>

-----------------------------------------------------------------------------
(* writeTo, after each ReadAt. *)

\* Mutant of Last: only an error ends the loop.
LastNotEOF == err = "err"

Last == err # "nil" \/ n = 0

\* Mutant of Write: EOF is looked at before the bytes that came with it.
WriteDropsTail ==
  /\ pc = "write"
  /\ sink' = IF Last THEN sink ELSE sink \o SubSeq(buf, 1, n)
  /\ off' = IF Last THEN off ELSE off + n
  /\ IF Last THEN pc' = "done" /\ UNCHANGED <<next, chunk, err>>
             ELSE /\ pc' = "read" /\ next' = 1 /\ chunk' = NewChunks(Window)
                  /\ err' = "nil"
  /\ UNCHANGED <<size, changes, mode, buf, n>>

\* w.Write takes the window.
Write ==
  /\ pc = "write"
  /\ sink' = sink \o SubSeq(buf, 1, n)
  /\ off' = off + n
  /\ IF Last THEN pc' = "done" /\ UNCHANGED <<next, chunk, err>>
             ELSE /\ pc' = "read" /\ next' = 1 /\ chunk' = NewChunks(Window)
                  /\ err' = "nil"
  /\ UNCHANGED <<size, changes, mode, buf, n>>

WriteFail ==
  /\ pc = "write" /\ n > 0
  /\ pc' = "done" /\ err' = "werr"
  /\ UNCHANGED <<size, changes, mode, off, buf, next, chunk, n, sink>>

\* Another client truncates or extends the file.
Resize ==
  /\ changes < MaxChanges /\ changes' = changes + 1
  /\ size' \in 0 .. MaxSize
  /\ UNCHANGED <<mode, pc, off, buf, next, chunk, err, n, sink>>

ReadStep == Spawn \/ Wait \/ Copy \/ Write \/ \E c \in DOMAIN chunk : ChunkRead(c)

Next == ReadStep \/ WriteFail \/ Resize \/ \E c \in DOMAIN chunk : ChunkFail(c)

Spec == Init /\ [][Next]_vars

\* Every request ends, in a reply or by its deadline: DSIConn's RequestReturns,
\* whose proviso on the stream is assumed here.
FairSpec == Spec /\ WF_vars(ReadStep)

-----------------------------------------------------------------------------
\* The bytes ReadAt counts, and the bytes writeTo has written, are the fork's,
\* without a gap, in the order of the file, however the replies came and
\* whatever others did to the length between two chunks: nothing a short
\* chunk left unread, or an earlier window left in the buffer, gets through.
BytesInPlace ==
  /\ pc = "done" /\ mode = "ReadAt" => \A i \in 1 .. n : buf[i] = off + i - 1
  /\ \A i \in DOMAIN sink : sink[i] = i - 1

\* When nobody changed the file and no request or write failed, writeTo has
\* written all of it, also when the length is a multiple of the window; and
\* ReadAt has read all there is. Whatever others did, a ReadAt that returns
\* neither EOF nor an error has filled its buffer.
WholeFile ==
  /\ pc = "done" /\ changes = 0 /\ err \in {"nil", "EOF"} =>
       IF mode = "writeTo" THEN Len(sink) = size
       ELSE n = Max(0, Min(Len(buf), size - off))
  /\ pc = "done" /\ mode = "ReadAt" /\ err = "nil" => n = Len(buf)

\* ReadAt and writeTo end, provided their requests do.
Ends == <>(pc = "done")
=============================================================================
