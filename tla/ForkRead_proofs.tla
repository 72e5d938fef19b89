-------------------------- MODULE ForkRead_proofs --------------------------
(***************************************************************************)
(* Proofs about ForkRead, for any sizes of chunk, window, buffer and file. *)
(***************************************************************************)
EXTENDS ForkRead, SequenceTheorems, TLAPS

Bytes == Nat \cup {Stale}

ChunkType == [st : {"new", "run", "ok", "failed"}, got : Nat, short : BOOLEAN]

TypeInv ==
  /\ size \in Nat /\ changes \in Nat /\ off \in Nat /\ n \in Nat
  /\ mode \in {"ReadAt", "writeTo"}
  /\ pc \in {"read", "copy", "write", "done"}
  /\ buf \in Seq(Bytes) /\ sink \in Seq(Bytes)
  /\ chunk \in [Chunks(Len(buf)) -> ChunkType]
  /\ pc # "done" => Len(buf) > 0
  /\ mode = "writeTo" => Len(buf) = Window
  /\ pc = "write" => mode = "writeTo"

\* What a reply holds, and how much of it when nobody changed the length.
Answered(c) ==
  /\ chunk[c].got <= Want(c)
  /\ chunk[c].short \/ chunk[c].got = Want(c)
  /\ changes = 0 => /\ chunk[c].got = Max(0, Min(Want(c), size - (off + Start(c))))
                    /\ chunk[c].short => off + Start(c) + chunk[c].got >= size

\* The first m bytes of the buffer are read.
Filled(m) == \A i \in 1 .. m : buf[i] = off + i - 1

ReadInv ==
  /\ \A c \in Chunks(Len(buf)) : chunk[c].st = "run" => pc = "read"
  /\ pc \in {"read", "copy"} => \A c \in Chunks(Len(buf)) : chunk[c].st = "ok" => Answered(c)
  /\ pc = "read" => /\ err \in {"nil", "err"}
                    /\ err = "nil" => \A c \in Chunks(Len(buf)) : chunk[c].st # "failed"

\* Reassembly has come to a chunk: all before it were complete.
CopyInv ==
  pc = "copy" =>
    /\ err = "nil" /\ next \in Chunks(Len(buf)) /\ n = Start(next)
    /\ \A c \in Chunks(Len(buf)) : chunk[c].st = "ok"
    /\ Filled(n)
    /\ changes = 0 => n = 0 \/ off + n <= size

\* What ReadAt has returned.
ResultInv ==
  pc = "write" \/ (pc = "done" /\ mode = "ReadAt") =>
    /\ n <= Len(buf) /\ Filled(n)
    /\ err \in {"nil", "EOF", "err"}
    /\ err = "nil" => n = Len(buf)
    /\ changes = 0 /\ err # "err" => n = Max(0, Min(Len(buf), size - off))
    /\ changes = 0 /\ err = "EOF" => off + n >= size
    /\ err = "err" => n = 0

SinkInv ==
  /\ \A i \in DOMAIN sink : sink[i] = i - 1
  /\ mode = "ReadAt" => sink = <<>>
  /\ mode = "writeTo" =>
       /\ Len(sink) = off
       /\ changes = 0 => off <= size
       /\ pc = "done" /\ changes = 0 /\ err \in {"nil", "EOF"} => off = size

Inv == TypeInv /\ ReadInv /\ CopyInv /\ ResultInv /\ SinkInv

USE ForkReadAssumption

-----------------------------------------------------------------------------
(* Where a chunk lies. *)

LEMMA StartFacts ==
  /\ Start(1) = 0
  /\ \A c \in Nat \ {0} : Start(c) \in Nat /\ Start(c + 1) = Start(c) + ChunkSize
BY DEF Start

LEMMA ChunkFacts ==
  ASSUME NEW len \in Nat
  PROVE  /\ Chunks(len) \subseteq Nat \ {0}
         /\ len > 0 => 1 \in Chunks(len)
         /\ \A c \in Chunks(len) : Start(c) < len
         /\ \A c \in Chunks(len) : c + 1 \notin Chunks(len) => Start(c + 1) >= len
<1>1. \A c \in Chunks(len) : c + 1 \notin Chunks(len) => Start(c + 1) >= len
  <2> SUFFICES ASSUME NEW c \in Chunks(len), c + 1 \notin Chunks(len), ~(Start(c + 1) >= len)
               PROVE  FALSE
    OBVIOUS
  <2>1. c = len
    BY StartFacts DEF Chunks
  <2>2. Start(c + 1) = len * ChunkSize
    BY <2>1 DEF Start
  <2>3. len * ChunkSize >= len
    OBVIOUS
  <2> QED BY <2>2, <2>3, StartFacts, Zenon
<1> QED BY <1>1, StartFacts DEF Chunks

LEMMA WindowIsPositive == Window \in Nat /\ Window > 0
BY DEF Window

-----------------------------------------------------------------------------
LEMMA InitInv == Init => Inv
<1> SUFFICES ASSUME Init PROVE Inv
  OBVIOUS
<1>1. buf \in Seq(Bytes) /\ off \in Nat /\ mode \in {"ReadAt", "writeTo"}
      /\ (mode = "writeTo" => Len(buf) = Window /\ off = 0)
  <2>1. ASSUME NEW len \in Nat, buf = [i \in 1 .. len |-> Stale]
        PROVE  buf \in Seq(Bytes) /\ Len(buf) = len
    BY <2>1 DEF Bytes
  <2> QED BY <2>1, WindowIsPositive DEF Init
<1>2. Len(buf) \in Nat /\ (buf # <<>> => Len(buf) > 0) /\ (buf = <<>> => Len(buf) = 0)
  BY <1>1, EmptySeq
<1>3. chunk = [c \in Chunks(Len(buf)) |-> [st |-> "new", got |-> 0, short |-> FALSE]]
  BY DEF Init, NewChunks
<1>4. TypeInv
  <2>1. sink \in Seq(Bytes)
    BY DEF Init
  <2>2. chunk \in [Chunks(Len(buf)) -> ChunkType]
    BY <1>3 DEF ChunkType
  <2> QED BY <1>1, <1>2, <2>1, <2>2 DEF Init, TypeInv
<1>5. ReadInv /\ CopyInv
  BY <1>3 DEF Init, ReadInv, CopyInv
<1>6. ResultInv
  BY <1>1, <1>2 DEF Init, ResultInv, Filled, Min, Max
<1>7. SinkInv
  BY <1>1, <1>2, WindowIsPositive DEF Init, SinkInv
<1> QED BY <1>4, <1>5, <1>6, <1>7 DEF Inv

\* Steps of the goroutines that read a chunk.
LEMMA SpawnStep == Inv /\ Spawn => Inv'
<1> SUFFICES ASSUME Inv, Spawn PROVE Inv'
  OBVIOUS
<1> USE DEF Inv, Spawn
<1>1. TypeInv'
  BY Zenon DEF TypeInv, ChunkType
<1>2. \A c \in Chunks(Len(buf)) : chunk'[c] = chunk[c] \/ chunk'[c].st = "run"
  BY DEF TypeInv, ChunkType
<1>3. ReadInv'
  BY <1>2 DEF TypeInv, ReadInv, Answered, Want
<1>4. CopyInv' /\ ResultInv' /\ SinkInv'
  BY DEF CopyInv, ResultInv, SinkInv
<1> QED BY <1>1, <1>3, <1>4

LEMMA ChunkReadStep ==
  ASSUME Inv, NEW c \in DOMAIN chunk, ChunkRead(c)
  PROVE  Inv'
<1> USE DEF Inv, ChunkRead
<1> DEFINE from == off + Start(c)
           got == Max(0, Min(Want(c), size - from))
<1>1. PICK eof \in BOOLEAN :
        /\ eof => from + got >= size
        /\ chunk' = [chunk EXCEPT ![c] = [st |-> "ok", got |-> got, short |-> eof \/ got < Want(c)]]
  <2>1. \E eof \in IF from + got >= size THEN BOOLEAN ELSE {FALSE} :
          chunk' = [chunk EXCEPT ![c] = [st |-> "ok", got |-> got, short |-> eof \/ got < Want(c)]]
    BY Zenon
  <2> HIDE DEF from, got
  <2> QED BY <2>1, Zenon
<1>2. /\ c \in Chunks(Len(buf)) /\ Start(c) \in Nat /\ Want(c) \in Nat \ {0} /\ got \in Nat
      /\ got <= Want(c) /\ (got < Want(c) => from + got >= size)
  <2>1. c \in Chunks(Len(buf)) /\ Len(buf) \in Nat /\ off \in Nat /\ size \in Nat
    BY DEF TypeInv
  <2>2. Start(c) \in Nat /\ Start(c) < Len(buf)
    BY <2>1, StartFacts, ChunkFacts
  <2> QED BY <2>1, <2>2 DEF Want, Min, Max
<1> DEFINE short == eof \/ got < Want(c)
<1>3. /\ chunk'[c] = [st |-> "ok", got |-> got, short |-> short]
      /\ \A b \in Chunks(Len(buf)) : b # c => chunk'[b] = chunk[b]
  BY <1>1, <1>2 DEF TypeInv
<1>4. Answered(c)'
  <2>1. /\ chunk'[c].got = got /\ Want(c)' = Want(c)
        /\ chunk'[c].short = short
    <3>1. Want(c)' = Want(c)
      BY DEF Want
    <3>2. chunk'[c].got = got /\ chunk'[c].short = short
      <4> HIDE DEF got, from, short, ChunkRead
      <4> QED BY <1>3
    <3> QED BY <3>1, <3>2
  <2>2. /\ got <= Want(c) /\ (short \/ got = Want(c))
        /\ short => off + Start(c) + got >= size
    BY <1>1, <1>2
  <2> QED BY <2>1, <2>2, Zenon DEF Answered
<1> HIDE DEF from, got
<1>5. TypeInv'
  BY <1>1, <1>2 DEF TypeInv, ChunkType
<1>6. ReadInv'
  BY <1>2, <1>3, <1>4 DEF ReadInv, Answered, Want
<1>7. CopyInv' /\ ResultInv' /\ SinkInv'
  <2>1. chunk[c].st = "run"
    BY DEF Running
  <2> QED BY <1>2, <2>1 DEF CopyInv, ResultInv, SinkInv, Filled
<1> QED BY <1>5, <1>6, <1>7

LEMMA ChunkFailStep ==
  ASSUME Inv, NEW c \in DOMAIN chunk, ChunkFail(c)
  PROVE  Inv'
<1> USE DEF Inv, ChunkFail
<1>1. chunk[c].st = "run" /\ c \in Chunks(Len(buf)) /\ pc = "read"
  BY DEF Running, TypeInv, ReadInv
<1>2. \A b \in Chunks(Len(buf)) : chunk'[b] = chunk[b] \/ chunk'[b].st = "failed"
  BY DEF TypeInv, ChunkType
<1>3. TypeInv'
  BY DEF TypeInv, ChunkType
<1>4. ReadInv'
  BY <1>1, <1>2 DEF TypeInv, ReadInv, Answered, Want
<1>5. CopyInv' /\ ResultInv' /\ SinkInv'
  BY <1>1 DEF CopyInv, ResultInv, SinkInv, Filled
<1> QED BY <1>3, <1>4, <1>5

LEMMA ResizeStep == Inv /\ Resize => Inv'
<1> SUFFICES ASSUME Inv, Resize PROVE Inv'
  OBVIOUS
<1> USE DEF Inv, Resize
<1>1. TypeInv' /\ changes' # 0
  BY DEF TypeInv
<1>2. ReadInv' /\ CopyInv' /\ ResultInv' /\ SinkInv'
  BY <1>1 DEF ReadInv, Answered, Want, CopyInv, ResultInv, SinkInv, Filled
<1> QED BY <1>1, <1>2

-----------------------------------------------------------------------------
(* Reassembly. *)

LEMMA WaitStep == Inv /\ Wait => Inv'
<1> SUFFICES ASSUME Inv, Wait PROVE Inv'
  OBVIOUS
<1> USE DEF Inv, Wait, Returned
<1>1. TypeInv'
  BY DEF TypeInv
<1>2. Len(buf) \in Nat /\ Len(buf) > 0 /\ DOMAIN chunk = Chunks(Len(buf))
  BY DEF TypeInv
<1>3. ReadInv' /\ SinkInv'
  <2>1. \A c \in Chunks(Len(buf)) : chunk[c].st # "run"
    BY <1>2 DEF Joined
  <2> QED BY <2>1 DEF ReadInv, Answered, Want, SinkInv
<1>4. CopyInv'
  <2> SUFFICES ASSUME err = "nil" PROVE CopyInv'
    BY DEF ReadInv, CopyInv
  <2>1. \A c \in Chunks(Len(buf)) : chunk[c].st = "ok"
    BY <1>2 DEF Joined, ReadInv
  <2> QED BY <1>2, <2>1, StartFacts, ChunkFacts DEF CopyInv, Filled
<1>5. ResultInv'
  BY <1>2 DEF ReadInv, ResultInv, Filled
<1> QED BY <1>1, <1>3, <1>4, <1>5

LEMMA CopyStep == Inv /\ Copy => Inv'
<1> SUFFICES ASSUME Inv, Copy PROVE Inv'
  OBVIOUS
<1> USE DEF Inv
<1> DEFINE len == Len(buf)
           got == chunk[next].got
           more == next + 1 \in Chunks(len) /\ ~chunk[next].short
<1>1. /\ pc = "copy" /\ next \in Chunks(len) /\ n = Start(next) /\ Filled(n) /\ Answered(next)
      /\ changes = 0 => n = 0 \/ off + n <= size
  BY DEF Copy, CopyInv, ReadInv
<1>2. /\ len \in Nat /\ off \in Nat /\ size \in Nat /\ got \in Nat /\ chunk[next].short \in BOOLEAN
      /\ DOMAIN buf = 1 .. len /\ DOMAIN chunk = Chunks(len)
  BY <1>1 DEF TypeInv, ChunkType
<1>3. /\ next \in Nat \ {0} /\ n \in Nat /\ n < len /\ Start(next + 1) = n + ChunkSize
      /\ next + 1 \notin Chunks(len) => Start(next + 1) >= len
  BY <1>1, <1>2, StartFacts, ChunkFacts, Zenon
<1>4. /\ n' = n + got /\ next' = next + 1
      /\ buf' = [i \in 1 .. len |-> IF i \in n + 1 .. n + got THEN off + i - 1 ELSE buf[i]]
      /\ err' = IF chunk[next].short THEN "EOF" ELSE "nil"
      /\ pc' = IF more THEN "copy" ELSE Returned
      /\ UNCHANGED <<size, changes, mode, off, chunk, sink>>
  BY <1>1, <1>2 DEF Copy, Copied
<1>5. /\ Want(next) = Min(ChunkSize, len - n) /\ got <= Want(next)
      /\ ~chunk[next].short => got = Want(next)
      /\ changes = 0 => /\ got = Max(0, Min(Want(next), size - (off + n)))
                        /\ chunk[next].short => off + n + got >= size
  BY <1>1 DEF Want, Answered
<1>6. buf' \in Seq(Bytes) /\ Len(buf') = len
  BY <1>2, <1>4 DEF TypeInv, Bytes
<1>7. Filled(n)'
  <2> SUFFICES ASSUME NEW i \in 1 .. n + got PROVE buf'[i] = off + i - 1
    BY <1>4 DEF Filled
  <2>1. n + got <= len /\ i \in 1 .. len
    BY <1>2, <1>3, <1>5 DEF Min
  <2>2. i \notin n + 1 .. n + got => i \in 1 .. n
    BY <1>2, <1>3
  <2>3. buf'[i] = IF i \in n + 1 .. n + got THEN off + i - 1 ELSE buf[i]
    BY <1>4, <2>1
  <2> QED BY <1>1, <2>2, <2>3 DEF Filled
<1> HIDE DEF len, got
<1>8. TypeInv'
  <2>1. n' \in Nat /\ Len(buf') = Len(buf)
    BY <1>2, <1>3, <1>4, <1>6 DEF len
  <2>2. pc' \in {"copy", "write", "done"} /\ (pc' = "write" => mode = "writeTo")
    BY <1>4, Zenon DEF Returned
  <2> HIDE DEF more
  <2> QED BY <1>1, <1>4, <1>6, <2>1, <2>2 DEF TypeInv
<1>9. ReadInv'
  BY <1>1, <1>4, <1>6 DEF ReadInv, Returned, Answered, Want, len
<1>10. SinkInv'
  BY <1>1, <1>4 DEF SinkInv, Returned
<1>11. CASE more
  <2>1. n' = Start(next') /\ (changes' = 0 => off' + n' <= size')
    <3>1. n + ChunkSize < len
      BY <1>2, <1>3, <1>11, ChunkFacts
    <3>2. got = ChunkSize
      BY <1>2, <1>3, <1>5, <1>11, <3>1 DEF Min
    <3>3. changes = 0 => off + n + got <= size
      BY <1>2, <1>3, <1>5, <3>1, <3>2 DEF Min, Max
    <3> QED BY <1>2, <1>3, <1>4, <3>2, <3>3
  <2>2. CopyInv'
    BY <2>1, <1>1, <1>4, <1>6, <1>7, <1>11 DEF CopyInv, len
  <2>3. ResultInv'
    BY <1>4, <1>11 DEF ResultInv
  <2> QED BY <1>8, <1>9, <1>10, <2>2, <2>3
<1>12. CASE ~more
  <2>1. CopyInv'
    BY <1>4, <1>12 DEF CopyInv, Returned
  <2>2. /\ n' <= len
        /\ err' = "nil" => n' = len
        /\ changes = 0 => n' = Max(0, Min(len, size - off))
        /\ changes = 0 /\ err' = "EOF" => off + n' >= size
    <3>1. CASE chunk[next].short
      <4>1. n' = n + got /\ n' <= len /\ err' = "EOF"
        BY <1>2, <1>3, <1>4, <1>5, <3>1 DEF Min
      <4>2. changes = 0 => off + n + got >= size /\ (got = 0 \/ got = size - (off + n))
        BY <1>2, <1>3, <1>5, <3>1 DEF Min, Max
      <4>3. changes = 0 => n' = Max(0, Min(len, size - off))
        <5> SUFFICES ASSUME changes = 0 PROVE n + got = Max(0, Min(len, size - off))
          BY <4>1
        <5>1. /\ n + got <= len /\ (n = 0 \/ off + n <= size)
              /\ off + n + got >= size /\ (got = 0 \/ got = size - (off + n))
          BY <1>1, <4>1, <4>2
        <5>2. CASE size <= off
          <6>1. n + got = 0
            BY <1>2, <1>3, <5>1, <5>2
          <6> QED BY <1>2, <5>2, <6>1 DEF Min, Max
        <5>3. CASE size > off
          <6>1. n + got = size - off
            BY <1>2, <1>3, <5>1, <5>3
          <6> QED BY <1>2, <5>1, <5>3, <6>1 DEF Min, Max
        <5> QED BY <1>2, <5>2, <5>3
      <4> QED BY <1>2, <1>3, <4>1, <4>2, <4>3
    <3>2. CASE ~chunk[next].short
      <4>1. got = len - n
        BY <1>2, <1>3, <1>5, <1>12, <3>2 DEF Min
      <4>2. changes = 0 => off + len <= size
        BY <1>2, <1>3, <1>5, <3>2, <4>1 DEF Min, Max
      <4>3. n' = len /\ err' = "nil"
        BY <1>2, <1>3, <1>4, <3>2, <4>1
      <4> QED BY <1>2, <4>2, <4>3 DEF Min, Max
    <3> QED BY <3>1, <3>2
  <2>3. ResultInv'
    BY <1>4, <1>6, <1>7, <2>2, Zenon DEF ResultInv
  <2> QED BY <1>8, <1>9, <1>10, <2>1, <2>3
<1> QED BY <1>11, <1>12

-----------------------------------------------------------------------------
(* writeTo's loop. *)

LEMMA WriteStep == Inv /\ Write => Inv'
<1> SUFFICES ASSUME Inv, Write PROVE Inv'
  OBVIOUS
<1> USE DEF Inv, Write
<1>1. /\ mode = "writeTo" /\ Len(buf) = Window /\ Window \in Nat /\ Window > 0
      /\ n \in Nat /\ off \in Nat /\ size \in Nat /\ n <= Len(buf) /\ Filled(n) /\ Len(sink) = off
      /\ buf \in Seq(Bytes) /\ sink \in Seq(Bytes)
  BY WindowIsPositive DEF TypeInv, ResultInv, SinkInv
<1>2. /\ SubSeq(buf, 1, n) \in Seq(Bytes) /\ Len(SubSeq(buf, 1, n)) = n
      /\ \A i \in 1 .. n : SubSeq(buf, 1, n)[i] = buf[i]
  BY <1>1
<1>3. /\ sink' \in Seq(Bytes) /\ Len(sink') = off'
      /\ \A i \in DOMAIN sink' : sink'[i] = i - 1
  <2> DEFINE part == SubSeq(buf, 1, n)
  <2> HIDE DEF part
  <2>1. sink' = sink \o part /\ part \in Seq(Bytes) /\ Len(part) = n
    BY <1>2 DEF part
  <2>2. /\ sink' \in Seq(Bytes) /\ Len(sink') = off + n
        /\ \A i \in 1 .. off + n : sink'[i] = IF i <= off THEN sink[i] ELSE part[i - off]
    <3> HIDE DEF Write, Inv
    <3>1. /\ sink \o part \in Seq(Bytes) /\ Len(sink \o part) = Len(sink) + Len(part)
          /\ \A i \in 1 .. Len(sink) + Len(part) :
               (sink \o part)[i] = IF i <= Len(sink) THEN sink[i] ELSE part[i - Len(sink)]
      BY <1>1, <2>1, ConcatProperties, Zenon
    <3> QED BY <1>1, <2>1, <3>1
  <2>3. ASSUME NEW i \in 1 .. off + n PROVE sink'[i] = i - 1
    <3>1. CASE i <= off
      <4>1. sink'[i] = sink[i] /\ i \in DOMAIN sink
        BY <1>1, <2>2, <3>1
      <4> HIDE DEF Write
      <4> QED BY <4>1 DEF SinkInv
    <3>2. CASE i > off
      <4>1. sink'[i] = part[i - off] /\ i - off \in 1 .. n
        BY <1>1, <2>2, <3>2
      <4>2. \A j \in 1 .. n : part[j] = off + j - 1
        BY <1>1, <1>2 DEF Filled, part
      <4> QED BY <1>1, <4>1, <4>2
    <3> QED BY <1>1, <3>1, <3>2
  <2>4. DOMAIN sink' = 1 .. off + n
    BY <2>2
  <2> QED BY <1>1, <2>2, <2>3, <2>4, Zenon
<1>4. changes = 0 /\ err # "err" => off' <= size /\ (err = "EOF" => off' = size)
  <2> SUFFICES ASSUME changes = 0, err # "err" PROVE off' <= size /\ (err = "EOF" => off' = size)
    OBVIOUS
  <2>1. n = Max(0, Min(Len(buf), size - off)) /\ (err = "EOF" => off + n >= size)
    BY DEF ResultInv
  <2>2. off <= size /\ off' = off + n
    BY <1>1 DEF SinkInv
  <2> QED BY <1>1, <2>1, <2>2 DEF Min, Max
<1>5. err \in {"nil", "EOF", "err"} /\ (err = "nil" => n > 0) 
  BY <1>1 DEF ResultInv
<1>6. CASE Last
  <2>1. pc' = "done" /\ UNCHANGED <<next, chunk, err>> /\ err # "nil"
    BY <1>6, <1>5 DEF Last
  <2>2. TypeInv'
    BY <1>1, <1>3, <2>1 DEF TypeInv
  <2>3. ReadInv' /\ CopyInv' /\ ResultInv'
    BY <1>1, <2>1 DEF ReadInv, CopyInv, ResultInv
  <2>4. SinkInv'
    <3>1. changes = 0 => (err # "err" => off' <= size) /\ (err' \in {"nil", "EOF"} => off' = size)
      BY <1>4, <1>5, <2>1
    <3>2. changes = 0 /\ err = "err" => off' <= size
      BY <1>1 DEF ResultInv, SinkInv
    <3> QED BY <1>1, <1>3, <2>1, <3>1, <3>2 DEF SinkInv
  <2> QED BY <2>2, <2>3, <2>4
<1>7. CASE ~Last
  <2>1. /\ pc' = "read" /\ err' = "nil"
        /\ chunk' = [c \in Chunks(Len(buf)) |-> [st |-> "new", got |-> 0, short |-> FALSE]]
    BY <1>1, <1>7 DEF NewChunks
  <2>2. chunk' \in [Chunks(Len(buf)) -> ChunkType]
    BY <2>1 DEF ChunkType
  <2>3. TypeInv'
    BY <1>1, <1>3, <2>1, <2>2 DEF TypeInv
  <2>4. ReadInv' /\ CopyInv' /\ ResultInv'
    BY <2>1 DEF ReadInv, CopyInv, ResultInv
  <2>5. SinkInv'
    BY <1>1, <1>3, <1>4, <1>7, <2>1 DEF SinkInv, Last
  <2> QED BY <2>3, <2>4, <2>5
<1> QED BY <1>6, <1>7

LEMMA WriteFailStep == Inv /\ WriteFail => Inv'
BY DEF Inv, WriteFail, TypeInv, ReadInv, CopyInv, ResultInv, SinkInv

LEMMA NextInv == Inv /\ [Next]_vars => Inv'
<1> SUFFICES ASSUME Inv, [Next]_vars PROVE Inv'
  OBVIOUS
<1>1. CASE UNCHANGED vars
  BY <1>1 DEF vars, Inv, TypeInv, ReadInv, CopyInv, ResultInv, SinkInv, Answered, Want, Filled
<1> QED BY <1>1, SpawnStep, ChunkReadStep, ChunkFailStep, ResizeStep, WaitStep, CopyStep, WriteStep,
           WriteFailStep DEF Next, ReadStep

LEMMA Invariance == Spec => []Inv
BY InitInv, NextInv, PTL DEF Spec

-----------------------------------------------------------------------------
\* Whatever the sizes, the order of the replies and the changes of the file's
\* length between them, the bytes ReadAt counts and writeTo has written are the
\* fork's bytes in their places.
THEOREM BytesStayInPlace == Spec => []BytesInPlace
<1>1. Inv => BytesInPlace
  BY DEF Inv, ResultInv, SinkInv, Filled, BytesInPlace
<1> QED BY <1>1, Invariance, PTL

\* An undisturbed writeTo delivers the whole fork, an undisturbed ReadAt all
\* there is, and a ReadAt without EOF or error has filled its buffer.
THEOREM NothingIsMissed == Spec => []WholeFile
<1>1. Inv => WholeFile
  BY DEF Inv, TypeInv, ResultInv, SinkInv, WholeFile
<1> QED BY <1>1, Invariance, PTL
=============================================================================
