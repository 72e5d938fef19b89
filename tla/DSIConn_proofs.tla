--------------------------- MODULE DSIConn_proofs ---------------------------
(***************************************************************************)
(* Proofs about DSIConn, for any set of callers, any size of the ID space  *)
(* and any bounds.                                                         *)
(*                                                                         *)
(* The invariant follows a request and its reply through the places they   *)
(* pass: the outgoing stream, the server, the incoming stream, readLoop,   *)
(* and a caller's channel.  A reply is in one place at a time and carries  *)
(* the ID its call was given.  As long as the counter has not wrapped, no  *)
(* two calls were given the same ID, so the call readLoop finds under a    *)
(* reply's ID is the one the reply answers.                                *)
(***************************************************************************)
EXTENDS DSIConn, TLAPS

Unwrapped == issued < IDSpace

\* The request has been written, or its call has ended.
Sent(r) == pc[r] \in {"wait", "unreg", "done"}

\* The reply to s is neither owed by the server nor on its way back.
NotAhead(s) ==
  /\ \A f \in srv : f.from # s
  /\ \A i \in 1 .. Len(inn) : inn[i].type = "reply" => inn[i].re # s

OutInv ==
  /\ \A i \in 1 .. Len(out) : out[i].from \in Requests =>
       out[i].id = id[out[i].from] /\ Sent(out[i].from) /\ out[i].from \notin served
  /\ \A i, j \in 1 .. Len(out) :
       out[i].from = out[j].from /\ out[i].from \in Requests => i = j

SrvInv ==
  /\ \A r \in served : Sent(r)
  /\ \A f \in srv : f.from \in served /\ f.id = id[f.from]

InnInv ==
  /\ \A i \in 1 .. Len(inn) : inn[i].type = "reply" =>
       /\ inn[i].re \in served /\ inn[i].id = id[inn[i].re]
       /\ \A f \in srv : f.from # inn[i].re
  /\ \A i, j \in 1 .. Len(inn) :
       inn[i].type = "reply" /\ inn[j].type = "reply" /\ inn[i].re = inn[j].re
         => i = j

MsgInv ==
  /\ rmsg.type = "reply" =>
       rmsg.re \in served /\ rmsg.id = id[rmsg.re] /\ NotAhead(rmsg.re)
  /\ rpc = "deliver" => rmsg.type = "reply" /\ rto \in Requests
  /\ rpc = "read" => rmsg.type # "reply"

ChInv ==
  \A r \in Requests : ch[r] # None =>
    /\ ch[r] \in served /\ NotAhead(ch[r])
    /\ rmsg.type = "reply" => rmsg.re # ch[r]

GotInv ==
  \A r \in Requests :
    /\ got[r] # None => got[r] \in served /\ err[r] = "nil"
    /\ got[r] # None \/ err[r] # "nil" => pc[r] \in {"unreg", "done"}

FreshIDs ==
  /\ nextID = issued
  /\ \A r \in Requests : id[r] <= issued
  /\ \A r, s \in Requests : id[r] = id[s] /\ id[r] # 0 => r = s
  /\ \A r \in Requests : Registered(r) \/ r \in served => id[r] # 0
  /\ \A i \in 1 .. Len(out) : out[i].from \in Requests => out[i].id # 0
IdInv == Unwrapped => FreshIDs

RouteInv == Unwrapped =>
  /\ RightCaller
  /\ rpc = "deliver" => rto = rmsg.re

Inv == /\ TypeOK /\ PendingExact /\ OutInv /\ SrvInv /\ InnInv /\ MsgInv
       /\ ChInv /\ GotInv /\ IdInv /\ RouteInv

USE ActorsAssumption, BoundsAssumption DEF Actors, IDs

-----------------------------------------------------------------------------
(* Facts about the streams. *)

LEMMA AppendFacts ==
  ASSUME NEW S, NEW s \in Seq(S), NEW e \in S
  PROVE  /\ Append(s, e) \in Seq(S)
         /\ Len(s) \in Nat /\ Len(Append(s, e)) = Len(s) + 1
         /\ \A i \in 1 .. Len(s) : Append(s, e)[i] = s[i]
         /\ Append(s, e)[Len(s) + 1] = e
OBVIOUS

LEMMA TailFacts ==
  ASSUME NEW S, NEW s \in Seq(S), s # <<>>
  PROVE  /\ Tail(s) \in Seq(S)
         /\ Len(s) \in Nat /\ 1 \in 1 .. Len(s) /\ Len(Tail(s)) = Len(s) - 1
         /\ Head(s) = s[1] /\ Head(s) \in S
         /\ \A i \in 1 .. Len(Tail(s)) : i + 1 \in 1 .. Len(s) /\ Tail(s)[i] = s[i + 1]
OBVIOUS

-----------------------------------------------------------------------------
LEMMA InitInv == Init => Inv
<1> SUFFICES ASSUME Init PROVE Inv
  OBVIOUS
<1>1. TypeOK
  BY DEF Init, TypeOK, PushTypes, InFrame, NoFrame
<1>2. PendingExact
  BY Zenon DEF Init, TypeOK, PendingExact, Registered
<1>3. OutInv
  BY DEF Init, OutInv
<1>4. SrvInv
  BY DEF Init, SrvInv
<1>5. InnInv
  BY DEF Init, InnInv
<1>6. MsgInv
  BY DEF Init, MsgInv, NoFrame
<1>7. ChInv
  BY DEF Init, ChInv
<1>8. GotInv
  BY Zenon DEF Init, TypeOK, GotInv, ChInv
<1>9. IdInv
  BY DEF Init, IdInv, FreshIDs, Registered
<1>10. RouteInv
  BY DEF Init, RouteInv, RightCaller
<1> QED
  BY <1>1, <1>2, <1>3, <1>4, <1>5, <1>6, <1>7, <1>8, <1>9, <1>10 DEF Inv

\* One turn of register's loop, from either place it is reached.
LEMMA TryIDInv ==
  ASSUME Inv, NEW r \in Requests, pc[r] \in {"idle", "reg"}, TryID(r)
  PROVE  Inv'
<1> DEFINE n == Inc(nextID)
<1>0. /\ TypeOK /\ n \in IDs /\ nextID' = n
      /\ issued' = issued + 1 /\ issued \in Nat /\ issued' \in 0 .. MaxIDs
  BY DEF Inv, TypeOK, TryID, Inc
<1>a. /\ \A s \in Requests \ {r} : pc'[s] = pc[s] /\ id'[s] = id[s]
      /\ pc'[r] \in {"lock", "reg"} /\ ~Sent(r) /\ ~Sent(r)'
  BY <1>0 DEF TypeOK, TryID, Sent
<1>b. \A s \in Requests : Sent(s) => s # r /\ Sent(s)' /\ id'[s] = id[s]
  BY <1>a DEF Sent
<1>c. /\ UNCHANGED <<ch, got, err, readVars, netVars>>
      /\ served \subseteq Requests
  BY <1>0 DEF TryID, TypeOK
<1>1. TypeOK'
  <2>1. mu' \in Requests \cup {None}
    BY <1>0 DEF TypeOK, TryID
  <2>b. pending' = pending \/ pending' = [pending EXCEPT ![n] = r]
    BY DEF TryID
  <2>c. pending' \in [IDs -> Requests \cup {None}]
    BY <1>0, <2>b, Zenon DEF TypeOK
  <2>a. id' = id \/ id' = [id EXCEPT ![r] = n]
    BY DEF TryID
  <2>2. id' \in [Actors -> IDs]
    BY <1>0, <2>a, Zenon DEF TypeOK
  <2>3. pc' \in [Actors -> {"off", "idle", "reg", "lock", "write", "wait", "unreg",
                            "run", "nc", "fail", "done", "exit"}]
    BY <1>0, ZenonT(60) DEF TypeOK, TryID
  <2> QED
    BY <1>0, <2>1, <2>c, <2>2, <2>3, Zenon DEF TypeOK, TryID, readVars, netVars
<1>2. PendingExact'
  BY DEF Inv, TypeOK, PendingExact, Registered, TryID, Taken
<1>3. OutInv'
  BY <1>b, <1>c DEF Inv, OutInv, netVars
<1>4. SrvInv'
  BY <1>b, <1>c DEF Inv, SrvInv, netVars
<1>5. InnInv'
  BY <1>b, <1>c DEF Inv, SrvInv, InnInv, netVars
<1>6. MsgInv' /\ ChInv'
  BY <1>b, <1>c DEF Inv, SrvInv, MsgInv, ChInv, NotAhead, netVars, readVars
<1>7. GotInv'
  BY <1>a, <1>c DEF Inv, GotInv, netVars
<1>8. IdInv'
  <2> SUFFICES ASSUME Unwrapped' PROVE FreshIDs'
    BY DEF IdInv
  <2>1. Unwrapped /\ nextID = issued /\ n = issued + 1
    BY <1>0 DEF Inv, IdInv, FreshIDs, Unwrapped, Inc
  <2>2. id'[r] \in {id[r], n} /\ (Registered(r)' => id'[r] = n)
    BY <1>0 DEF TypeOK, TryID, Registered
  <2>3. \A s \in Requests : id[s] \in Nat /\ id[s] <= issued
    BY <2>1 DEF Inv, IdInv, FreshIDs, TypeOK
  <2>4. \A s \in Requests : id'[s] <= issued'
    BY <1>0, <1>a, <2>1, <2>2, <2>3
  <2>5. \A s, t \in Requests : id'[s] = id'[t] /\ id'[s] # 0 => s = t
    BY <1>0, <1>a, <2>1, <2>2, <2>3 DEF Inv, IdInv, FreshIDs
  <2>6. \A s \in Requests : Registered(s)' \/ s \in served' => id'[s] # 0
    <3>1. ASSUME NEW s \in Requests, s # r, Registered(s)' \/ s \in served'
          PROVE  id'[s] # 0
      BY <1>a, <1>c, <2>1, <3>1 DEF Inv, IdInv, FreshIDs, Registered, netVars
    <3>2. r \notin served
      BY <1>b DEF Inv, SrvInv
    <3> QED
      BY <1>0, <1>c, <2>1, <2>2, <3>1, <3>2 DEF netVars
  <2> QED
    BY <1>0, <1>c, <2>1, <2>4, <2>5, <2>6 DEF Inv, IdInv, FreshIDs, netVars
<1>9. RouteInv'
  BY <1>0, <1>c DEF Inv, RouteInv, RightCaller, Unwrapped, readVars
<1> QED
  BY <1>1, <1>2, <1>3, <1>4, <1>5, <1>6, <1>7, <1>8, <1>9 DEF Inv

\* Steps that move no request, no reply and no ID: a goroutine other than a
\* caller goes on, a caller gets writeMu, or readLoop is done with a frame.
Quiet ==
  /\ UNCHANGED <<nextID, issued, pending, id, ch, got, err, out, inn, srv,
                 served, rto>>
  /\ \A r \in Requests : pc'[r] = pc[r] \/ (pc[r] = "lock" /\ pc'[r] = "write")
  /\ \/ UNCHANGED <<rpc, rmsg>>
     \/ rpc' = "exit" /\ UNCHANGED rmsg
     \/ rpc' \in {"read", "closing"} /\ rmsg' = NoFrame

LEMMA QuietInv == ASSUME Inv, Quiet, TypeOK' PROVE Inv'
<1> USE DEF Inv, Quiet
<1>1. PendingExact'
  BY DEF PendingExact, Registered
<1>2. OutInv' /\ SrvInv'
  <2>1. \A r \in Requests : Sent(r)' <=> Sent(r)
    BY DEF Sent
  <2> QED
    BY <2>1, Zenon DEF TypeOK, OutInv, SrvInv
<1>3. InnInv'
  BY DEF InnInv
<1>4. MsgInv'
  BY DEF MsgInv, NotAhead, NoFrame
<1>5. ChInv'
  BY DEF ChInv, NotAhead, NoFrame
<1>6. GotInv'
  BY DEF GotInv
<1>7. IdInv'
  BY DEF IdInv, FreshIDs, Unwrapped, Registered
<1>8. RouteInv'
  BY DEF RouteInv, RightCaller, Unwrapped
<1> QED
  BY <1>1, <1>2, <1>3, <1>4, <1>5, <1>6, <1>7, <1>8

LEMMA QuietSteps ==
  ASSUME Inv,
         \/ \E a \in Actors : SendLock(a)
         \/ \E k \in Closers : CloseSocket(k) \/ CloseFail(k)
         \/ StartTickle \/ TickleStop \/ LinkDown
         \/ ReadErr \/ IgnorePush \/ Abort \/ AbortSocket
  PROVE  Inv'
<1> USE DEF connVars, callVars, readVars, netVars
<1>0. TypeOK /\ NoFrame \in InFrame
  BY DEF Inv, NoFrame, InFrame, PushTypes
<1>1. ASSUME NEW a \in Actors, SendLock(a) PROVE Quiet /\ TypeOK'
  BY <1>0, <1>1 DEF TypeOK, SendLock, Quiet
<1>2. ASSUME NEW k \in Closers, CloseSocket(k) \/ CloseFail(k) PROVE Quiet /\ TypeOK'
  <2>1. ncOpen' \in BOOLEAN /\ closeErr' \in ConnErrs \cup {"nil"}
    BY <1>0, <1>2, Zenon DEF TypeOK, CloseSocket, CloseFail, Fail, ConnErrs
  <2>2. Quiet
    BY <1>0, <1>2 DEF TypeOK, CloseSocket, CloseFail, Quiet
  <2>3. TypeOK'
    BY <1>0, <1>2, <2>1, ZenonT(60) DEF TypeOK, CloseSocket, CloseFail
  <2> QED
    BY <2>2, <2>3
<1>3. CASE StartTickle \/ TickleStop
  BY <1>0, <1>3, QuietInv, SMTT(60) DEF TypeOK, StartTickle, TickleStop, Quiet
<1>4. CASE LinkDown
  <2>1. linkUp' \in BOOLEAN
    BY <1>4, Zenon DEF LinkDown
  <2> QED
    BY <1>0, <1>4, <2>1, QuietInv DEF TypeOK, LinkDown, Quiet
<1>5. CASE ReadErr \/ Abort
  <2>1. closeErr' \in ConnErrs \cup {"nil"}
    BY <1>0, <1>5 DEF TypeOK, ReadErr, Abort, Fail, ConnErrs
  <2>2. Quiet
    BY <1>5 DEF ReadErr, Abort, Quiet
  <2>3. TypeOK'
    BY <1>0, <1>5, <2>1, Zenon DEF TypeOK, ReadErr, Abort
  <2> QED
    BY <2>2, <2>3, QuietInv
<1>6. CASE IgnorePush
  BY <1>0, <1>6, QuietInv DEF TypeOK, IgnorePush, Quiet
<1>7. CASE AbortSocket
  <2>1. ncOpen' \in BOOLEAN
    BY <1>7, Zenon DEF AbortSocket
  <2> QED
    BY <1>0, <1>7, <2>1, QuietInv DEF TypeOK, AbortSocket, Quiet
<1> QED
  BY <1>1, <1>2, <1>3, <1>4, <1>5, <1>6, <1>7, QuietInv

\* tickleLoop and Close take an ID without registering.
LEMMA NewIDInv ==
  ASSUME Inv, Tickle \/ \E k \in Closers : CloseStart(k)
  PROVE  Inv'
<1> USE DEF connVars, callVars, readVars, netVars
<1>0. PICK a \in Closers \cup {Tickler} :
        /\ NewID(a) /\ pc' = [pc EXCEPT ![a] = "lock"]
        /\ UNCHANGED <<pending, closeErr, mu, ch, got, err, writeMu, readVars,
                       netVars>>
  BY DEF Tickle, CloseStart
<1>a. /\ \A r \in Requests : pc'[r] = pc[r] /\ id'[r] = id[r]
      /\ served \subseteq Requests /\ nextID' = Inc(nextID)
      /\ issued \in Nat /\ issued' = issued + 1 /\ issued' \in 0 .. MaxIDs
  BY <1>0 DEF Inv, TypeOK, NewID
<1>1. TypeOK'
  <2>1. nextID' \in IDs
    BY <1>a DEF Inv, TypeOK, Inc
  <2> QED
    BY <1>0, <2>1, SMTT(60) DEF Inv, TypeOK, NewID
<1>2. PendingExact'
  BY <1>0, <1>a DEF Inv, PendingExact, Registered
<1>3. OutInv' /\ SrvInv'
  BY <1>0, <1>a DEF Inv, OutInv, SrvInv, Sent
<1>4. InnInv' /\ MsgInv' /\ ChInv'
  BY <1>0, <1>a DEF Inv, InnInv, MsgInv, ChInv, NotAhead
<1>5. GotInv'
  BY <1>0 DEF Inv, GotInv
<1>6. IdInv'
  <2> SUFFICES ASSUME Unwrapped' PROVE FreshIDs'
    BY DEF IdInv
  <2>1. Unwrapped /\ nextID = issued /\ nextID' = issued'
    BY <1>a DEF Inv, IdInv, FreshIDs, Unwrapped, Inc
  <2>2. \A r \in Requests : id[r] \in Nat /\ id[r] <= issued
    BY <2>1 DEF Inv, IdInv, FreshIDs, TypeOK
  <2> QED
    BY <1>0, <1>a, <2>1, <2>2 DEF Inv, IdInv, FreshIDs, Registered
<1>7. RouteInv'
  BY <1>0, <1>a DEF Inv, RouteInv, RightCaller, Unwrapped
<1> QED
  BY <1>1, <1>2, <1>3, <1>4, <1>5, <1>6, <1>7 DEF Inv

\* request leaves its select with an error.
LEMMA GiveUpInv ==
  ASSUME Inv, NEW r \in Requests, Wake(r) \/ Timeout(r)
  PROVE  Inv'
<1> USE DEF connVars, callVars, readVars, netVars
<1>0. /\ pc[r] = "wait" /\ pc' = [pc EXCEPT ![r] = "unreg"]
      /\ got' = [got EXCEPT ![r] = None]
      /\ \E e \in {"closed", "ctx"} : err' = [err EXCEPT ![r] = e]
      /\ UNCHANGED <<connVars, id, ch, writeMu, readVars, netVars>>
  BY DEF Wake, Timeout, Leave
<1>1. TypeOK'
  BY <1>0 DEF Inv, TypeOK
<1>2. PendingExact'
  BY <1>0 DEF Inv, PendingExact, Registered
<1>3. OutInv' /\ SrvInv'
  BY <1>0 DEF Inv, OutInv, SrvInv, Sent
<1>4. InnInv' /\ MsgInv' /\ ChInv'
  BY <1>0 DEF Inv, InnInv, MsgInv, ChInv, NotAhead
<1>5. GotInv'
  BY <1>0 DEF Inv, TypeOK, GotInv
<1>6. IdInv'
  BY <1>0 DEF Inv, IdInv, FreshIDs, Registered, Unwrapped
<1>7. RouteInv'
  BY <1>0 DEF Inv, RouteInv, RightCaller, Unwrapped
<1> QED
  BY <1>1, <1>2, <1>3, <1>4, <1>5, <1>6, <1>7 DEF Inv

LEMMA RegisterRefusedInv == ASSUME Inv, NEW r \in Requests, RegisterRefused(r) PROVE Inv'
<1> USE DEF Inv, connVars, callVars, readVars, netVars
<1>1. TypeOK'
  BY SMTT(60) DEF TypeOK, ConnErrs, OutFrame, RegisterRefused
<1>2. PendingExact'
  BY DEF PendingExact, Registered, RegisterRefused
<1>3. OutInv'
  BY DEF OutInv, Sent, RegisterRefused
<1>4. SrvInv'
  BY DEF SrvInv, Sent, RegisterRefused
<1>5. GotInv'
  BY DEF TypeOK, GotInv, RegisterRefused
<1>6. IdInv'
  BY DEF IdInv, FreshIDs, Registered, Unwrapped, RegisterRefused
<1>7. InnInv' /\ MsgInv' /\ ChInv' /\ RouteInv'
  BY DEF InnInv, MsgInv, NotAhead, ChInv, RouteInv, RightCaller, Unwrapped,
         RegisterRefused
<1> QED
  BY <1>1, <1>2, <1>3, <1>4, <1>5, <1>6, <1>7

LEMMA ReceiveInv == ASSUME Inv, NEW r \in Requests, Receive(r) PROVE Inv'
<1> USE DEF Inv, connVars, callVars, readVars, netVars
<1>1. TypeOK'
  BY Zenon DEF TypeOK, PushTypes, Receive, Leave
<1>2. PendingExact'
  BY DEF PendingExact, Registered, Receive, Leave
<1>3. OutInv'
  BY DEF OutInv, Sent, Receive, Leave
<1>4. SrvInv'
  BY DEF SrvInv, Sent, Receive, Leave
<1>5. ChInv'
  BY DEF ChInv, NotAhead, Receive, Leave
<1>6. GotInv'
  BY DEF TypeOK, GotInv, ChInv, Receive, Leave
<1>7. IdInv'
  BY DEF IdInv, FreshIDs, Registered, Unwrapped, Receive, Leave
<1>8. RouteInv'
  BY DEF RouteInv, RightCaller, Unwrapped, Receive, Leave
<1>9. InnInv' /\ MsgInv'
  BY DEF InnInv, MsgInv, NotAhead, Receive, Leave
<1> QED
  BY <1>1, <1>2, <1>3, <1>4, <1>5, <1>6, <1>7, <1>8, <1>9

LEMMA UnregisterInv == ASSUME Inv, NEW r \in Requests, Unregister(r) PROVE Inv'
<1> USE DEF Inv, connVars, callVars, readVars, netVars
<1>1. TypeOK'
  BY DEF TypeOK, Unregister
<1>2. PendingExact'
  BY DEF TypeOK, PendingExact, Registered, Unregister
<1>3. OutInv'
  BY DEF OutInv, SrvInv, Sent, Unregister
<1>4. SrvInv'
  BY DEF SrvInv, Sent, Unregister
<1>5. GotInv'
  BY DEF GotInv, Unregister
<1>6. IdInv'
  BY SMTT(60) DEF IdInv, FreshIDs, Registered, Unwrapped, Unregister
<1>7. InnInv' /\ MsgInv' /\ ChInv' /\ RouteInv'
  BY DEF InnInv, MsgInv, NotAhead, ChInv, RouteInv, RightCaller, Unwrapped,
         Unregister
<1> QED
  BY <1>1, <1>2, <1>3, <1>4, <1>5, <1>6, <1>7

LEMMA SendOKInv == ASSUME Inv, NEW a \in Actors, SendOK(a) PROVE Inv'
<1> USE DEF Inv, connVars, callVars, readVars, netVars
<1> DEFINE f == [id |-> id[a], from |-> a]
<1>a. f \in OutFrame /\ out \in Seq(OutFrame)
  BY DEF TypeOK, OutFrame
<1>b. /\ Append(out, f) \in Seq(OutFrame) /\ Len(out) \in Nat
      /\ Len(Append(out, f)) = Len(out) + 1
      /\ \A i \in 1 .. Len(out) : Append(out, f)[i] = out[i]
      /\ Append(out, f)[Len(out) + 1] = f
  BY <1>a
<1>c. out' = Append(out, f) \/ out' = out
  BY DEF SendOK
<1>1. TypeOK'
  <2>1. out' \in Seq(OutFrame)
    BY <1>b, <1>c
  <2>2. pc' \in [Actors -> {"off", "idle", "reg", "lock", "write", "wait", "unreg",
                            "run", "nc", "fail", "done", "exit"}]
    BY DEF TypeOK, SendOK, AfterSend
  <2> QED
    BY <2>1, <2>2 DEF TypeOK, SendOK
<1>2. PendingExact'
  BY DEF PendingExact, Registered, SendOK, AfterSend
<1>3. OutInv'
  <2>1. /\ \A s \in Requests : Sent(s) => Sent(s)' /\ s # a
        /\ a \in Requests => Sent(a)' /\ a \notin served
        /\ id' = id /\ served' = served
    BY Zenon DEF TypeOK, SendOK, AfterSend, Sent, SrvInv
  <2>2. CASE out' = out
    BY <2>1, <2>2 DEF OutInv
  <2>3. CASE out' = Append(out, f)
    <3>1. \A i \in 1 .. Len(out') :
            \/ i \in 1 .. Len(out) /\ out'[i] = out[i]
            \/ i = Len(out) + 1 /\ out'[i] = f
      BY <2>3
    <3>2. \A i \in 1 .. Len(out) : out[i].from \in Requests => out[i].from # a
      BY <2>1, Zenon DEF OutInv
    <3> QED
      BY <2>1, <3>1 DEF OutInv
  <2> QED
    BY <1>c, <2>2, <2>3
<1>4. SrvInv'
  BY DEF SrvInv, Sent, SendOK
<1>5. GotInv'
  <2>1. got' = got /\ err' = err /\ served' = served
    BY DEF SendOK
  <2>2. \A s \in Requests : pc[s] \in {"unreg", "done"} => pc'[s] = pc[s]
    BY DEF TypeOK, SendOK
  <2> QED
    BY <2>1, <2>2 DEF GotInv
<1>6. IdInv'
  BY SMTT(60) DEF IdInv, FreshIDs, Registered, Unwrapped, SendOK
<1>7. InnInv' /\ MsgInv' /\ ChInv' /\ RouteInv'
  BY DEF InnInv, MsgInv, NotAhead, ChInv, RouteInv, RightCaller, Unwrapped,
         SendOK
<1> QED
  BY <1>1, <1>2, <1>3, <1>4, <1>5, <1>6, <1>7

LEMMA SendErrInv == ASSUME Inv, NEW a \in Actors, SendErr(a) PROVE Inv'
<1> USE DEF Inv, connVars, callVars, readVars, netVars
<1>1. TypeOK'
  <2>1. err' \in [Requests -> {"nil", "closed", "write", "ctx"}]
    BY DEF TypeOK, SendErr
  <2>2. pc' \in [Actors -> {"off", "idle", "reg", "lock", "write", "wait", "unreg",
                            "run", "nc", "fail", "done", "exit"}]
    BY DEF TypeOK, SendErr, AfterSendErr
  <2> QED
    BY <2>1, <2>2 DEF TypeOK, SendErr
<1>2. PendingExact'
  BY DEF PendingExact, Registered, SendErr, AfterSendErr
<1>3. OutInv'
  BY DEF OutInv, SrvInv, Sent, SendErr, AfterSendErr
<1>4. SrvInv'
  BY DEF SrvInv, Sent, SendErr
<1>5. GotInv'
  BY SMTT(60) DEF TypeOK, GotInv, ChInv, SendErr, AfterSendErr
<1>6. IdInv'
  BY DEF IdInv, FreshIDs, Registered, Unwrapped, SendErr
<1>7. InnInv' /\ MsgInv' /\ ChInv' /\ RouteInv'
  BY DEF InnInv, MsgInv, NotAhead, ChInv, RouteInv, RightCaller, Unwrapped,
         SendErr
<1> QED
  BY <1>1, <1>2, <1>3, <1>4, <1>5, <1>6, <1>7

LEMMA ReadFrameInv == ASSUME Inv, ReadFrame PROVE Inv'
<1> USE DEF Inv, connVars, callVars, readVars, netVars
<1>a. inn \in Seq(InFrame) /\ inn # <<>> /\ inn' = Tail(inn) /\ rmsg' = Head(inn)
  BY DEF TypeOK, ReadFrame
<1>b. /\ Tail(inn) \in Seq(InFrame)
      /\ Len(inn) \in Nat /\ 1 \in 1 .. Len(inn) /\ Len(Tail(inn)) = Len(inn) - 1
      /\ Head(inn) = inn[1] /\ Head(inn) \in InFrame
      /\ \A i \in 1 .. Len(Tail(inn)) :
           i + 1 \in 1 .. Len(inn) /\ Tail(inn)[i] = inn[i + 1]
  BY <1>a
<1>1. TypeOK'
  BY <1>a, <1>b DEF TypeOK, ReadFrame
<1>2. InnInv'
  <2>1. \A i \in 1 .. Len(inn') : i + 1 \in 1 .. Len(inn) /\ inn'[i] = inn[i + 1]
    BY <1>a
  <2>2. UNCHANGED <<id, srv, served>>
    BY DEF ReadFrame
  <2>3. \A i, j \in 1 .. Len(inn') : i + 1 = j + 1 => i = j
    OBVIOUS
  <2>4. \A i \in 1 .. Len(inn') : inn'[i].type = "reply" =>
          /\ inn'[i].re \in served' /\ inn'[i].id = id'[inn'[i].re]
          /\ \A f \in srv' : f.from # inn'[i].re
    BY <2>1, <2>2 DEF InnInv
  <2>5. ASSUME NEW i \in 1 .. Len(inn'), NEW j \in 1 .. Len(inn'),
               inn'[i].type = "reply", inn'[j].type = "reply",
               inn'[i].re = inn'[j].re
        PROVE  i = j
    <3>1. i + 1 = j + 1
      BY <2>1, <2>5 DEF InnInv
    <3> QED
      BY <2>3, <3>1
  <2> QED
    BY <2>4, <2>5 DEF InnInv
<1>3. MsgInv'
  <2>1. \A i \in 1 .. Len(inn') : i + 1 \in 1 .. Len(inn) /\ inn'[i] = inn[i + 1]
                                   /\ i + 1 # 1
    BY <1>a
  <2>2. rpc' = "frame" /\ rmsg' = inn[1] /\ 1 \in 1 .. Len(inn)
        /\ UNCHANGED <<id, srv, served>>
    BY <1>a DEF ReadFrame
  <2> QED
    BY <2>1, <2>2 DEF InnInv, MsgInv, NotAhead
<1>4. ChInv'
  <2>1. \A i \in 1 .. Len(inn') : i + 1 \in 1 .. Len(inn) /\ inn'[i] = inn[i + 1]
    BY <1>a
  <2>2. rmsg' = inn[1] /\ 1 \in 1 .. Len(inn) /\ UNCHANGED <<ch, srv, served>>
    BY <1>a, <1>b DEF ReadFrame
  <2> QED
    BY <2>1, <2>2 DEF ChInv, NotAhead
<1>5. RouteInv'
  BY SMTT(60) DEF RouteInv, RightCaller, Unwrapped, ReadFrame
<1>6. PendingExact' /\ OutInv' /\ SrvInv' /\ GotInv' /\ IdInv'
  BY DEF PendingExact, Registered, OutInv, Sent, SrvInv, GotInv, IdInv,
         FreshIDs, Unwrapped, ReadFrame
<1> QED
  BY <1>1, <1>2, <1>3, <1>4, <1>5, <1>6

LEMMA DispatchInv == ASSUME Inv, Dispatch PROVE Inv'
<1> USE DEF Inv, connVars, callVars, readVars, netVars
<1>1. TypeOK'
  BY SMTT(60) DEF TypeOK, ConnErrs, PushTypes, InFrame, NoFrame, Dispatch
<1>2. MsgInv'
  BY SMTT(60) DEF TypeOK, MsgInv, InnInv, SrvInv, Sent, NotAhead, OutInv, NoFrame, Dispatch
<1>3. ChInv'
  BY SMTT(60) DEF ChInv, MsgInv, NotAhead, InFrame, OutFrame, NoFrame, Dispatch
<1>4. RouteInv'
  <2> SUFFICES ASSUME Unwrapped', rpc' = "deliver" PROVE rto' = rmsg'.re
    BY DEF RouteInv, RightCaller, Unwrapped, Dispatch
  <2>1. /\ rto' \in Requests /\ pending[rmsg.id] = rto' /\ rmsg.id \in IDs
        /\ rmsg' = rmsg /\ rmsg.type = "reply" /\ Unwrapped
    BY DEF TypeOK, Dispatch, InFrame, Unwrapped
  <2>2. Registered(rto') /\ id[rto'] = rmsg.id
    BY <2>1 DEF PendingExact
  <2>3. rmsg.re \in Requests /\ id[rmsg.re] = rmsg.id
    BY <2>1, Zenon DEF TypeOK, MsgInv
  <2> QED
    BY <2>1, <2>2, <2>3, Zenon DEF IdInv, FreshIDs
<1>5. PendingExact' /\ OutInv' /\ SrvInv' /\ InnInv' /\ GotInv' /\ IdInv'
  BY DEF PendingExact, Registered, OutInv, Sent, SrvInv, InnInv, GotInv,
         IdInv, FreshIDs, Unwrapped, Dispatch
<1> QED
  BY <1>1, <1>2, <1>3, <1>4, <1>5, SMTT(60)

LEMMA DeliverInv == ASSUME Inv, Deliver PROVE Inv'
<1> USE DEF Inv, connVars, callVars, readVars, netVars
<1>1. TypeOK'
  <2>1. rto \in Requests /\ rmsg.re \in Requests \cup {None}
    BY DEF TypeOK, MsgInv, Deliver, InFrame
  <2>2. ch' \in [Requests -> Requests \cup {None}]
    BY <2>1 DEF TypeOK, Deliver
  <2>3. NoFrame \in InFrame
    BY SMTT(60) DEF NoFrame, InFrame, PushTypes
  <2> QED
    BY <2>2, <2>3 DEF TypeOK, Deliver
<1>2. MsgInv'
  BY Zenon DEF MsgInv, NoFrame, Deliver, CanDeliver
<1>3. ChInv'
  BY SMTT(60) DEF ChInv, MsgInv, NotAhead, OutFrame, NoFrame, Deliver
<1>4. RouteInv'
  BY SMTT(60) DEF RouteInv, RightCaller, Unwrapped, Deliver
<1>5. PendingExact' /\ OutInv' /\ SrvInv' /\ InnInv' /\ GotInv' /\ IdInv'
  BY DEF PendingExact, Registered, OutInv, Sent, SrvInv, InnInv, GotInv,
         IdInv, FreshIDs, Unwrapped, Deliver
<1> QED
  BY <1>1, <1>2, <1>3, <1>4, <1>5 DEF Inv

LEMMA ServerTakeInv == ASSUME Inv, ServerTake PROVE Inv'
<1> USE DEF Inv, connVars, callVars, readVars, netVars
<1>a. out \in Seq(OutFrame) /\ out # <<>> /\ out' = Tail(out)
  BY DEF TypeOK, ServerTake
<1>b. /\ Tail(out) \in Seq(OutFrame)
      /\ Len(out) \in Nat /\ 1 \in 1 .. Len(out) /\ Len(Tail(out)) = Len(out) - 1
      /\ Head(out) = out[1] /\ Head(out) \in OutFrame
      /\ \A i \in 1 .. Len(Tail(out)) :
           i + 1 \in 1 .. Len(out) /\ Tail(out)[i] = out[i + 1]
  BY <1>a
<1>c. \A i \in 1 .. Len(out') :
        i + 1 \in 1 .. Len(out) /\ i + 1 # 1 /\ out'[i] = out[i + 1]
  BY <1>a
<1>d. IF out[1].from \in Requests
        THEN srv' = srv \cup {out[1]} /\ served' = served \cup {out[1].from}
        ELSE srv' = srv /\ served' = served
  BY SMTT(60) DEF ServerTake
<1>1. TypeOK'
  <2>1. linkUp' \in BOOLEAN
    BY DEF ServerTake
  <2>2. srv' \subseteq OutFrame /\ served' \subseteq Requests
    BY <1>b, <1>d, SMTT(60) DEF TypeOK
  <2> QED
    BY <1>a, <1>b DEF TypeOK, ServerTake
<1>2. OutInv'
  <2>1. \A i \in 1 .. Len(out') : out'[i].from \in Requests => out'[i].from # out[1].from
    BY <1>b, <1>c, SMTT(60) DEF OutInv
  <2>2. UNCHANGED <<id, pc>>
    BY DEF ServerTake
  <2>3. \A i, j \in 1 .. Len(out') : i + 1 = j + 1 => i = j
    OBVIOUS
  <2>4. ASSUME NEW i \in 1 .. Len(out'), out'[i].from \in Requests
        PROVE  /\ out'[i].id = id[out'[i].from] /\ Sent(out'[i].from)
               /\ out'[i].from \notin served'
    BY <1>c, <1>d, <2>1, <2>4 DEF OutInv
  <2>5. ASSUME NEW i \in 1 .. Len(out'), NEW j \in 1 .. Len(out'),
               out'[i].from = out'[j].from, out'[i].from \in Requests
        PROVE  i = j
    BY <1>c, <2>3, <2>5, SMTT(60) DEF OutInv
  <2> QED
    BY <2>2, <2>4, <2>5, Zenon DEF OutInv, Sent
<1>3. SrvInv'
  BY SMTT(60) DEF OutInv, SrvInv, Sent, ServerTake
<1>4. InnInv'
  BY SMTT(60) DEF InnInv, OutInv, OutFrame, ServerTake
<1>5. MsgInv'
  BY SMTT(60) DEF MsgInv, NotAhead, OutInv, InFrame, ServerTake
<1>6. ChInv'
  BY SMTT(60) DEF ChInv, InnInv, NotAhead, OutInv, InFrame, OutFrame, NoFrame, ServerTake
<1>7. GotInv'
  BY ZenonT(60) DEF GotInv, ServerTake
<1>8. IdInv'
  <2>1. UNCHANGED <<nextID, issued, pc, id>>
    BY Zenon DEF ServerTake
  <2>2. out[1].from \in Requests /\ Unwrapped => id[out[1].from] # 0
    BY <1>b, SMTT(60) DEF OutInv, IdInv, FreshIDs
  <2> QED
    BY <1>c, <1>d, <2>1, <2>2, SMTT(60) DEF IdInv, FreshIDs, Unwrapped, Registered
<1>9. PendingExact' /\ RouteInv'
  BY DEF PendingExact, Registered, RouteInv, RightCaller, Unwrapped,
         ServerTake
<1> QED
  BY <1>1, <1>2, <1>3, <1>4, <1>5, <1>6, <1>7, <1>8, <1>9, Zenon DEF Inv

LEMMA ServerReplyInv == ASSUME Inv, ServerReply PROVE Inv'
<1> USE DEF Inv, connVars, callVars, readVars, netVars
<1>a. PICK f \in srv :
        /\ inn' = Append(inn, [type |-> "reply", id |-> f.id, re |-> f.from])
        /\ srv' = srv \ {f}
  BY DEF ServerReply
<1> DEFINE m == [type |-> "reply", id |-> f.id, re |-> f.from]
<1>b. f \in OutFrame /\ f.from \in served /\ f.id = id[f.from] /\ served \subseteq Requests
  BY DEF TypeOK, SrvInv
<1>c. m \in InFrame /\ inn \in Seq(InFrame)
  BY <1>b DEF TypeOK, InFrame, OutFrame
<1>d. /\ inn' \in Seq(InFrame) /\ Len(inn) \in Nat /\ Len(inn') = Len(inn) + 1
      /\ \A i \in 1 .. Len(inn) : inn'[i] = inn[i]
      /\ inn'[Len(inn) + 1] = m
  BY <1>a, <1>c, SMTT(60)
<1>e. \A i \in 1 .. Len(inn') :
        \/ i \in 1 .. Len(inn) /\ inn'[i] = inn[i]
        \/ i = Len(inn) + 1 /\ inn'[i] = m
  BY <1>d
<1>f. \A g \in srv' : g \in srv /\ g.from # f.from
  <2>1. \A g \in srv : g = [id |-> g.id, from |-> g.from]
    BY DEF TypeOK, OutFrame
  <2>2. \A g \in srv : g.from = f.from => g.id = f.id
    BY Zenon DEF SrvInv
  <2> QED
    BY <1>a, <2>1, <2>2
<1>1. TypeOK'
  BY <1>a, <1>d, Zenon DEF TypeOK, ServerReply
<1>2. SrvInv'
  BY SMTT(60) DEF SrvInv, Sent, ServerReply
<1>3. InnInv'
  <2>1. \A i \in 1 .. Len(inn) : inn[i].type = "reply" => inn[i].re # f.from
    BY DEF InnInv
  <2>2. UNCHANGED <<id, served>>
    BY DEF ServerReply
  <2> QED
    BY <1>b, <1>e, <1>f, <2>1, <2>2, SMTT(60) DEF InnInv
<1>4. MsgInv'
  <2>1. UNCHANGED <<id, served, rmsg, rpc, rto>>
    BY SMTT(60) DEF ServerReply
  <2> QED
    BY <1>e, <1>f, <2>1 DEF MsgInv, NotAhead
<1>5. ChInv'
  <2>1. UNCHANGED <<served, rmsg, ch>>
    BY Zenon DEF ServerReply
  <2> QED
    BY <1>e, <1>f, <2>1 DEF ChInv, NotAhead
<1>6. PendingExact' /\ OutInv' /\ GotInv' /\ IdInv' /\ RouteInv'
  BY DEF PendingExact, Registered, OutInv, Sent, GotInv, IdInv, FreshIDs,
         Unwrapped, RouteInv, RightCaller, ServerReply
<1> QED
  BY <1>1, <1>2, <1>3, <1>4, <1>5, <1>6

LEMMA ServerPushInv == ASSUME Inv, NEW t \in PushTypes, ServerPush(t) PROVE Inv'
<1> USE DEF Inv, connVars, callVars, readVars, netVars
<1> DEFINE m == [type |-> t, id |-> 0, re |-> None]
<1>a. m \in InFrame /\ inn \in Seq(InFrame) /\ inn' = Append(inn, m)
  BY DEF TypeOK, InFrame, ServerPush
<1>b. /\ inn' \in Seq(InFrame) /\ Len(inn) \in Nat /\ Len(inn') = Len(inn) + 1
      /\ \A i \in 1 .. Len(inn) : inn'[i] = inn[i]
      /\ inn'[Len(inn) + 1] = m
  BY <1>a, SMTT(60)
<1>c. \A i \in 1 .. Len(inn') :
        \/ i \in 1 .. Len(inn) /\ inn'[i] = inn[i]
        \/ inn'[i].type # "reply"
  BY <1>b DEF PushTypes
<1>d. UNCHANGED <<id, srv, served, rmsg, rpc, rto, ch>>
  BY Zenon DEF ServerPush
<1>1. TypeOK'
  BY <1>b, Zenon DEF TypeOK, ServerPush
<1>2. InnInv'
  BY <1>c, <1>d, Zenon DEF InnInv
<1>3. MsgInv'
  BY <1>c, <1>d, Zenon DEF MsgInv, NotAhead
<1>4. ChInv'
  BY <1>c, <1>d, Zenon DEF ChInv, NotAhead
<1>5. PendingExact' /\ RouteInv' /\ GotInv'
  BY SMTT(60) DEF PendingExact, Registered, GotInv, Unwrapped, RouteInv, RightCaller, ServerPush
<1>6. OutInv' /\ SrvInv'
  BY Zenon DEF OutInv, Sent, SrvInv, ServerPush
<1>7. IdInv'
  BY DEF IdInv, FreshIDs, Registered, Unwrapped, ServerPush
<1> QED
  BY <1>1, <1>2, <1>3, <1>4, <1>5, <1>6, <1>7, SMTT(60)

LEMMA RegisterInv ==
  ASSUME Inv, NEW r \in Requests, Register(r) \/ RegisterLoop(r) PROVE Inv'
BY TryIDInv DEF Register, RegisterLoop

LEMMA NextInv == Inv /\ [Next]_vars => Inv'
<1> SUFFICES ASSUME Inv, [Next]_vars PROVE Inv'
  OBVIOUS
<1>1. CASE UNCHANGED vars
  <2>1. Quiet
    BY <1>1, SMTT(60) DEF vars, Quiet
  <2>2. TypeOK'
    BY <1>1 DEF vars, Inv, TypeOK
  <2> QED
    BY <2>1, <2>2, QuietInv
<1>2. ASSUME NEW r \in Requests, CallStep(r) PROVE Inv'
  BY <1>2, RegisterInv, RegisterRefusedInv, ReceiveInv, GiveUpInv,
     UnregisterInv DEF CallStep
<1>3. ASSUME NEW a \in Actors, SendStep(a) PROVE Inv'
  BY <1>3, QuietSteps, SendOKInv, SendErrInv DEF SendStep
<1>4. CASE TickleStep
  BY <1>4, QuietSteps, NewIDInv DEF TickleStep
<1>5. ASSUME NEW k \in Closers, CloseStep(k) PROVE Inv'
  BY <1>5, QuietSteps, NewIDInv DEF CloseStep
<1>6. CASE ReadStep
  BY <1>6, QuietSteps, ReadFrameInv, DispatchInv, DeliverInv DEF ReadStep
<1>7. CASE ServerStep
  BY <1>7, QuietSteps, ServerTakeInv, ServerReplyInv, ServerPushInv DEF
     ServerStep
<1> QED
  BY <1>1, <1>2, <1>3, <1>4, <1>5, <1>6, <1>7 DEF Next

LEMMA AlwaysInv == Spec => []Inv
BY InitInv, NextInv, PTL DEF Spec

-----------------------------------------------------------------------------
\* The variables of the connection keep their types.
THEOREM TypeCorrect == Spec => []TypeOK
<1>1. Inv => TypeOK
  BY DEF Inv
<1> QED
  BY <1>1, AlwaysInv, PTL

\* Conn.pending is exact for every size of the ID space, wrapped or not: no
\* two calls in flight share an ID.
THEOREM PendingIsExact == Spec => []PendingExact
<1>1. Inv => PendingExact
  BY DEF Inv
<1> QED
  BY <1>1, AlwaysInv, PTL

\* Until the request counter wraps, readLoop hands every reply to the call
\* it answers, in whatever order replies arrive and callers give up.
THEOREM RepliesReachTheirCallers == Spec => []RoutedRight
<1>1. Inv => RoutedRight
  BY DEF Inv, RouteInv, RoutedRight, Unwrapped
<1> QED
  BY <1>1, AlwaysInv, PTL

\* Until the request counter wraps, readLoop never blocks on a channel.
THEOREM ReaderIsFree == Spec => []ReaderNeverBlocks
<1>1. Inv => ReaderNeverBlocks
  <2> SUFFICES ASSUME Inv, issued < IDSpace, rpc = "deliver", ch[rto] # None
               PROVE  FALSE
    BY DEF ReaderNeverBlocks, CanDeliver
  <2>1. rto \in Requests /\ rmsg.type = "reply" /\ rto = rmsg.re
    BY DEF Inv, MsgInv, RouteInv, Unwrapped
  <2>2. ch[rto] = rto
    BY <2>1 DEF Inv, RouteInv, RightCaller, Unwrapped
  <2> QED
    BY <2>1, <2>2 DEF Inv, ChInv
<1> QED
  BY <1>1, AlwaysInv, PTL

\* fail never replaces an error that is already set.
THEOREM ErrorIsFinal == Spec => FirstErrorWins
<1>1. [Next]_vars => [closeErr # "nil" => closeErr' = closeErr]_closeErr
  BY Zenon DEF Next, CallStep, SendStep, TickleStep, CloseStep, ReadStep, ServerStep, Register,
     RegisterLoop, TryID, RegisterRefused, Receive, Wake, Timeout, Leave, Unregister, SendLock,
     SendOK, SendErr, StartTickle, Tickle, TickleStop, CloseStart, CloseSocket, CloseFail,
     ReadFrame, ReadErr, Dispatch, Deliver, IgnorePush, Abort, AbortSocket, ServerTake,
     ServerReply, ServerPush, LinkDown, Fail, connVars, vars
<1> QED
  BY <1>1, PTL DEF Spec, FirstErrorWins
-----------------------------------------------------------------------------
(* DSIConn implements RequestReply as long as the request counter does not *)
(* wrap, for any set of callers.  The mapping reads a call's state off its *)
(* program counter, error and reply; the invariant above shows that a      *)
(* reply a call takes from its channel is its own and was executed.        *)

\* Steps that change no call's state as its caller sees it.
Same == /\ served' = served
        /\ \A r \in Requests :
             /\ pc'[r] = "idle" <=> pc[r] = "idle"
             /\ err'[r] = err[r] /\ got'[r] = got[r]

LEMMA SameStutters == ASSUME Same PROVE UNCHANGED <<call, served>>
<1>1. \A r \in Requests : CallState(r)' = CallState(r)
  BY DEF Same, CallState
<1> QED
  BY <1>1 DEF Same, call

\* One call changes its state and nothing is executed.
LEMMA OneCall ==
  ASSUME NEW r \in Requests, served' = served,
         \A s \in Requests \ {r} : pc'[s] = pc[s] /\ err'[s] = err[s] /\ got'[s] = got[s]
  PROVE  call' = [call EXCEPT ![r] = CallState(r)']
<1>1. \A s \in Requests \ {r} : CallState(s)' = CallState(s)
  BY DEF CallState
<1> QED
  BY <1>1, Zenon DEF call

LEMMA BeginStep ==
  ASSUME Inv, NEW r \in Requests, Register(r)
  PROVE  RR!Begin(r)
<1>1. pc[r] = "idle" /\ pc'[r] \in {"lock", "reg"} /\ served' = served
  BY DEF Inv, TypeOK, Register, TryID, netVars
<1>2. CallState(r) = "idle" /\ CallState(r)' = "open"
  <2>1. err'[r] = "nil" /\ got'[r] = None
    BY <1>1, Zenon DEF Inv, GotInv, Register, TryID
  <2> QED
    BY <1>1, <2>1, Zenon DEF CallState
<1>3. call' = [call EXCEPT ![r] = "open"]
  <2>1. \A s \in Requests \ {r} : pc'[s] = pc[s] /\ err'[s] = err[s] /\ got'[s] = got[s]
    BY Zenon DEF Inv, TypeOK, Register, TryID
  <2> QED
    BY <1>1, <1>2, <2>1, OneCall
<1> QED
  BY <1>1, <1>2, <1>3 DEF RR!Begin, call

LEMMA RefuseStep ==
  ASSUME Inv, NEW r \in Requests, RegisterRefused(r)
  PROVE  RR!Refuse(r)
<1>1. /\ pc[r] = "idle" /\ pc'[r] = "done" /\ err'[r] = "closed" /\ served' = served
      /\ \A s \in Requests \ {r} : pc'[s] = pc[s] /\ err'[s] = err[s] /\ got'[s] = got[s]
  BY DEF Inv, TypeOK, RegisterRefused, netVars
<1>2. got'[r] = None
  BY <1>1 DEF Inv, GotInv, RegisterRefused
<1>3. CallState(r) = "idle" /\ CallState(r)' = "err"
  BY <1>1, <1>2 DEF CallState
<1> QED
  BY <1>1, <1>3, OneCall, Zenon DEF RR!Refuse, call

\* Every call in its select, or writing, has neither reply nor error yet.
LEMMA OpenCall ==
  ASSUME Inv, NEW r \in Requests, pc[r] \in {"reg", "lock", "write", "wait"}
  PROVE  CallState(r) = "open" /\ err[r] = "nil" /\ got[r] = None
BY Zenon DEF Inv, GotInv, CallState

LEMMA ReturnStep ==
  ASSUME Inv, Unwrapped, NEW r \in Requests, Receive(r)
  PROVE  RR!Return(r)
<1>1. /\ pc[r] = "wait" /\ ch[r] = r /\ r \in served
      /\ served' = served /\ pc'[r] = "unreg" /\ got'[r] = r /\ err'[r] = "nil"
      /\ \A s \in Requests \ {r} : pc'[s] = pc[s] /\ err'[s] = err[s] /\ got'[s] = got[s]
  BY DEF Inv, TypeOK, ChInv, RouteInv, RightCaller, Receive, Leave, netVars
<1>2. CallState(r) = "open" /\ CallState(r)' = "ok"
  BY <1>1, OpenCall, Zenon DEF CallState
<1> QED
  BY <1>1, <1>2, OneCall DEF RR!Return, call

LEMMA GiveUpStep ==
  ASSUME Inv, NEW r \in Requests, Wake(r) \/ Timeout(r) \/ SendErr(r)
  PROVE  RR!GiveUp(r)
<1>1. /\ pc[r] \in {"wait", "write"} /\ pc'[r] = "unreg"
      /\ served' = served /\ err'[r] \in {"closed", "ctx", "write"}
      /\ \A s \in Requests \ {r} : pc'[s] = pc[s] /\ err'[s] = err[s] /\ got'[s] = got[s]
  BY Zenon DEF Inv, TypeOK, Wake, Timeout, SendErr, AfterSendErr, Leave, netVars
<1>2. got'[r] = None
  BY <1>1, OpenCall DEF Inv, TypeOK, Wake, Timeout, SendErr, Leave
<1>3. CallState(r) = "open" /\ CallState(r)' = "err"
  BY <1>1, <1>2, OpenCall DEF CallState
<1> QED
  BY <1>1, <1>3, OneCall DEF RR!GiveUp, call

\* The server may take the request of a call that has ended with an error,
\* never that of one that has its reply.
LEMMA ExecuteStep ==
  ASSUME Inv, Unwrapped, ServerTake
  PROVE  (\E r \in Requests : RR!Execute(r)) \/ UNCHANGED <<call, served>>
<1>0. /\ pc' = pc /\ err' = err /\ got' = got
      /\ Len(out) \in Nat \ {0} /\ out[1] = Head(out)
  BY DEF Inv, TypeOK, ServerTake, callVars
<1>1. CASE Head(out).from \notin Requests
  <2>1. Same
    BY <1>0, <1>1 DEF ServerTake, Same
  <2> QED
    BY <2>1, SameStutters
<1>2. CASE Head(out).from \in Requests
  <2> DEFINE r == Head(out).from
  <2>1. Sent(r) /\ r \notin served /\ served' = served \cup {r}
    <3>1. 1 \in 1 .. Len(out)
      BY <1>0
    <3>2. OutInv
      BY DEF Inv
    <3>3. Sent(r) /\ r \notin served
      BY <1>0, <1>2, <3>1, <3>2, Zenon DEF OutInv
    <3>4. served' = served \cup {r}
      BY <1>2, Zenon DEF ServerTake
    <3> QED
      BY <3>3, <3>4
  <2>2. got[r] = None
    BY <1>2, <2>1, Zenon DEF Inv, GotInv, RouteInv, RightCaller
  <2>3. CallState(r) \in {"open", "err"}
    BY <2>1, <2>2 DEF CallState, Sent
  <2>4. call' = call
    BY <1>0 DEF call, CallState
  <2> QED
    BY <1>2, <2>1, <2>3, <2>4, Zenon DEF RR!Execute, call
<1> QED
  BY <1>1, <1>2

LEMMA Simulates ==
  ASSUME Inv, Unwrapped, [Next]_vars
  PROVE  [RR!Next]_<<call, served>>
<1> USE DEF connVars, callVars, readVars, netVars
<1>1. CASE UNCHANGED vars
  BY <1>1, SameStutters DEF vars, Same
<1>2. ASSUME NEW r \in Requests, CallStep(r) PROVE [RR!Next]_<<call, served>>
  <2>1. CASE RegisterLoop(r) \/ Unregister(r)
    <3>1. Same
      BY <2>1 DEF Inv, TypeOK, RegisterLoop, TryID, Unregister, Same
    <3> QED
      BY <3>1, SameStutters
  <2> QED
    BY <1>2, <2>1, BeginStep, RefuseStep, ReturnStep, GiveUpStep
    DEF CallStep, RR!Next
<1>3. ASSUME NEW a \in Actors, SendStep(a) PROVE [RR!Next]_<<call, served>>
  <2>1. CASE a \in Requests /\ SendErr(a)
    BY <2>1, GiveUpStep DEF RR!Next
  <2>2. CASE SendLock(a) \/ SendOK(a) \/ (a \notin Requests /\ SendErr(a))
    <3>1. Same
      BY <2>2, Zenon DEF Inv, TypeOK, SendLock, SendOK, SendErr, AfterSend, Same
    <3> QED
      BY <3>1, SameStutters
  <2> QED
    BY <1>3, <2>1, <2>2 DEF SendStep
<1>4. CASE TickleStep
  <2>1. Same
    BY <1>4 DEF Inv, TypeOK, TickleStep, StartTickle, Tickle, TickleStop, Same
  <2> QED
    BY <2>1, SameStutters
<1>5. ASSUME NEW k \in Closers, CloseStep(k) PROVE [RR!Next]_<<call, served>>
  <2>1. Same
    BY <1>5, Zenon DEF Inv, TypeOK, CloseStep, CloseStart, CloseSocket, CloseFail, Same
  <2> QED
    BY <2>1, SameStutters, Zenon
<1>6. CASE ReadStep
  <2>1. Same
    BY <1>6 DEF ReadStep, ReadFrame, ReadErr, Dispatch, Deliver, IgnorePush,
                Abort, AbortSocket, Same
  <2> QED
    BY <2>1, SameStutters
<1>7. CASE ServerStep
  <2>1. CASE ServerTake
    BY <2>1, ExecuteStep DEF RR!Next
  <2>2. CASE ServerReply \/ LinkDown \/ \E t \in PushTypes : ServerPush(t)
    <3>1. Same
      BY <2>2, Zenon DEF ServerReply, LinkDown, ServerPush, Same
    <3> QED
      BY <3>1, SameStutters
  <2> QED
    BY <1>7, <2>1, <2>2 DEF ServerStep
<1> QED
  BY <1>1, <1>2, <1>3, <1>4, <1>5, <1>6, <1>7 DEF Next

\* Until the 16-bit counter wraps, every step of the connection is a step of
\* RequestReply or changes nothing its callers see.
THEOREM Refinement == Spec => ImplementsRequestReply
<1>1. Init => RR!Init
  BY DEF Init, RR!Init, CallState, call
<1>2. Inv /\ [Next]_vars => [issued < IDSpace => RR!Next]_<<call, served>>
  BY Simulates DEF Unwrapped
<1> QED
  BY <1>1, <1>2, AlwaysInv, PTL DEF Spec, ImplementsRequestReply

\* A connection that draws fewer IDs than there are implements RequestReply:
\* request returns its own reply, after the server executed it, or an error.
THEOREM RefinesRequestReply ==
  ASSUME MaxIDs < IDSpace
  PROVE  Spec => RR!Spec
<1>1. Init => RR!Init
  BY DEF Init, RR!Init, CallState, call
<1>2. Inv => Unwrapped
  BY DEF Inv, TypeOK, Unwrapped
<1>3. Inv /\ [Next]_vars => [RR!Next]_<<call, served>>
  BY <1>2, Simulates
<1> QED
  BY <1>1, <1>3, AlwaysInv, PTL DEF Spec, RR!Spec
=============================================================================
