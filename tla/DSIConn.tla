------------------------------- MODULE DSIConn -------------------------------
(***************************************************************************)
(* One DSI connection of internal/dsi/conn.go: any number of concurrent    *)
(* calls of Conn.request multiplexed over one TCP stream by a 16-bit       *)
(* request ID, the readLoop and tickleLoop goroutines, Conn.Close, and the *)
(* server at the other end of the stream.                                  *)
(*                                                                         *)
(* Every element of Requests is one call of Conn.request, made by its own  *)
(* goroutine with its own reply channel.  An element's name stands for the *)
(* request's contents, and for the contents of the reply the server gives  *)
(* to it, so a reply in the wrong hands is visible.                        *)
(***************************************************************************)
EXTENDS Integers, Sequences

CONSTANTS
  Requests,   \* calls of Conn.request
  Opener,     \* the call of Conn.request made by OpenSession
  Closers,    \* calls of Conn.Close
  Tickler,    \* the tickleLoop goroutine
  None,       \* nil: no channel, no reply, no lock holder
  IDSpace,    \* number of request IDs: 2^16 in the code
  MaxIDs,     \* bound on the increments of nextID
  SendBuf,    \* frames the stream towards the server can hold
  RecvBuf     \* frames the stream towards the client can hold

Actors == Requests \cup Closers \cup {Tickler}

ASSUME ActorsAssumption ==
  /\ Opener \in Requests
  /\ Requests \cap Closers = {}
  /\ Tickler \notin Requests \cup Closers
  /\ None \notin Actors

ASSUME BoundsAssumption ==
  /\ IDSpace \in Nat /\ IDSpace > 1
  /\ MaxIDs \in Nat
  /\ SendBuf \in Nat
  /\ RecvBuf \in Nat

VARIABLES
  nextID,     \* Conn.nextID, wraps at IDSpace
  issued,     \* how often nextID was incremented, without the wrap
  pending,    \* Conn.pending: the call whose channel is registered per ID
  closeErr,   \* Conn.closeErr; Conn.done is closed exactly when it is set
  mu,         \* the call that holds Conn.mu across steps (register's loop)
  writeMu,    \* the goroutine that holds Conn.writeMu
  pc,         \* where each goroutine is
  id,         \* the request ID each goroutine was given
  ch,         \* the reply in each call's channel, which has room for one
  got,        \* the reply a call returned
  err,        \* the error a call returned
  rpc,        \* where readLoop is
  rmsg,       \* the frame readLoop is working on
  rto,        \* the call whose channel readLoop looked up
  ncOpen,     \* the client's socket has not been closed locally
  linkUp,     \* the peer and the network are there
  out,        \* frames written and not yet taken by the server
  inn,        \* frames sent by the server and not yet read
  srv,        \* requests the server has taken and not answered
  served      \* requests the server has ever taken

connVars == <<nextID, issued, pending, closeErr, mu>>
callVars == <<pc, id, ch, got, err, writeMu>>
readVars == <<rpc, rmsg, rto>>
netVars  == <<ncOpen, linkUp, out, inn, srv, served>>
vars == <<nextID, issued, pending, closeErr, mu, pc, id, ch, got, err,
          writeMu, rpc, rmsg, rto, ncOpen, linkUp, out, inn, srv, served>>

IDs == 0 .. IDSpace - 1
ConnErrs == {"read", "protocol", "closed"}
PushTypes == {"notice", "abort"}
OutFrame == [id : IDs, from : Actors]
InFrame == [type : {"reply"} \cup PushTypes, id : IDs, re : Requests \cup {None}]
NoFrame == [type |-> "notice", id |-> 0, re |-> None]

Init ==
  /\ nextID = 0 /\ issued = 0
  /\ pending = [i \in IDs |-> None]
  /\ closeErr = "nil" /\ mu = None /\ writeMu = None
  /\ pc = [a \in Actors |-> IF a = Tickler THEN "off" ELSE "idle"]
  /\ id = [a \in Actors |-> 0]
  /\ ch = [r \in Requests |-> None]
  /\ got = [r \in Requests |-> None]
  /\ err = [r \in Requests |-> "nil"]
  /\ rpc = "read" /\ rmsg = NoFrame /\ rto = None
  /\ ncOpen = TRUE /\ linkUp = TRUE
  /\ out = <<>> /\ inn = <<>> /\ srv = {} /\ served = {}

-----------------------------------------------------------------------------
(* The state under Conn.mu. *)

MuFree == mu = None

\* c.nextID++ on a uint16.
Inc(n) == IF n = IDSpace - 1 THEN 0 ELSE n + 1

\* fail: the first error stays, and closes done.
Fail(e) == closeErr' = IF closeErr = "nil" THEN e ELSE closeErr

\* The goroutines that wait on done are woken exactly when closeErr is set.
Done == closeErr # "nil"

\* newID: the next ID, whether or not a call waits under it.
NewID(a) ==
  /\ MuFree
  /\ issued < MaxIDs
  /\ issued' = issued + 1
  /\ nextID' = Inc(nextID)
  /\ id' = [id EXCEPT ![a] = nextID']

\* Mutant of Taken: register does not look whether an ID is waited for.
TakenUnchecked(n) == FALSE

Taken(n) == pending[n] # None

\* Mutant of TryID: the lowest free ID is handed out again.
TryLowestID(r) ==
  /\ issued < MaxIDs
  /\ issued' = issued + 1
  /\ \E i \in IDs :
       /\ ~Taken(i) /\ \A j \in 0 .. i - 1 : Taken(j)
       /\ nextID' = i
       /\ pending' = [pending EXCEPT ![i] = r]
       /\ id' = [id EXCEPT ![r] = i]
  /\ pc' = [pc EXCEPT ![r] = "lock"]
  /\ UNCHANGED <<mu, closeErr, ch, got, err, writeMu, readVars, netVars>>

\* One turn of register's loop: the ID is claimed, or Conn.mu is kept.
TryID(r) ==
  /\ issued < MaxIDs
  /\ issued' = issued + 1
  /\ nextID' = Inc(nextID)
  /\ \/ /\ ~Taken(nextID')
        /\ pending' = [pending EXCEPT ![nextID'] = r]
        /\ id' = [id EXCEPT ![r] = nextID']
        /\ mu' = None
        /\ pc' = [pc EXCEPT ![r] = "lock"]
     \/ /\ Taken(nextID')
        /\ mu' = r
        /\ pc' = [pc EXCEPT ![r] = "reg"]
        /\ UNCHANGED <<pending, id>>
  /\ UNCHANGED <<closeErr, ch, got, err, writeMu, readVars, netVars>>

-----------------------------------------------------------------------------
(* Conn.request. *)

\* OpenSession makes the first call; the rest follow once the session exists.
MayStart(r) == r = Opener \/ pc[Tickler] # "off"

Register(r) ==
  /\ pc[r] = "idle" /\ MayStart(r)
  /\ MuFree /\ closeErr = "nil"
  /\ TryID(r)

RegisterLoop(r) ==
  /\ pc[r] = "reg" /\ mu = r
  /\ TryID(r)

\* register finds the connection dead: request returns before its defer.
RegisterRefused(r) ==
  /\ pc[r] = "idle" /\ MayStart(r)
  /\ MuFree /\ closeErr # "nil"
  /\ err' = [err EXCEPT ![r] = "closed"]
  /\ pc' = [pc EXCEPT ![r] = "done"]
  /\ UNCHANGED <<connVars, id, ch, got, writeMu, readVars, netVars>>

\* A case of request's select fired: leave with a reply or an error.
Leave(r, reply, e) ==
  /\ got' = [got EXCEPT ![r] = reply]
  /\ err' = [err EXCEPT ![r] = e]
  /\ pc' = [pc EXCEPT ![r] = "unreg"]
  /\ UNCHANGED <<connVars, id, writeMu, readVars, netVars>>

Receive(r) ==
  /\ pc[r] = "wait" /\ ch[r] # None
  /\ ch' = [ch EXCEPT ![r] = None]
  /\ Leave(r, ch[r], "nil")

Wake(r) ==
  /\ pc[r] = "wait" /\ Done /\ MuFree
  /\ Leave(r, None, "closed") /\ UNCHANGED ch

\* Mutant of Timeout: the select has no case for the context.
TimeoutIgnored(r) == FALSE /\ UNCHANGED vars

\* The context of every call has a deadline, which may pass at any time.
Timeout(r) ==
  /\ pc[r] = "wait"
  /\ Leave(r, None, "ctx") /\ UNCHANGED ch

Unregister(r) ==
  /\ pc[r] = "unreg" /\ MuFree
  /\ pending' = [pending EXCEPT ![id[r]] = None]
  /\ pc' = [pc EXCEPT ![r] = "done"]
  /\ UNCHANGED <<nextID, issued, closeErr, mu, id, ch, got, err, writeMu,
                 readVars, netVars>>

-----------------------------------------------------------------------------
(* Conn.send, called by request, tickleLoop and Close.                     *)

SendLock(a) ==
  /\ pc[a] = "lock" /\ writeMu = None
  /\ writeMu' = a
  /\ pc' = [pc EXCEPT ![a] = "write"]
  /\ UNCHANGED <<connVars, id, ch, got, err, readVars, netVars>>

\* nc.Write returns once the stream has taken the frame: no deadline is set.
\* A write to a peer that is gone may still report success.
Room == Len(out) < SendBuf

AfterSend(a) ==
  CASE a \in Requests -> "wait"
    [] a \in Closers  -> "nc"
    [] OTHER          -> "run"

SendOK(a) ==
  /\ pc[a] = "write" /\ ncOpen /\ Room
  /\ out' = IF linkUp THEN Append(out, [id |-> id[a], from |-> a]) ELSE out
  /\ writeMu' = None
  /\ pc' = [pc EXCEPT ![a] = AfterSend(a)]
  /\ UNCHANGED <<connVars, id, ch, got, err, readVars, ncOpen, linkUp, inn,
                 srv, served>>

\* A failed write is returned to the caller; it does not call fail.
AfterSendErr(a) ==
  CASE a \in Requests -> "unreg"
    [] a \in Closers  -> "nc"
    [] OTHER          -> "exit"

\* Mutant of SendErr: writeMu is not released on the error path.
SendErrKeepsLock(a) ==
  /\ pc[a] = "write" /\ (~ncOpen \/ ~linkUp)
  /\ err' = IF a \in Requests THEN [err EXCEPT ![a] = "write"] ELSE err
  /\ pc' = [pc EXCEPT ![a] = AfterSendErr(a)]
  /\ UNCHANGED <<connVars, id, ch, got, writeMu, readVars, netVars>>

SendErr(a) ==
  /\ pc[a] = "write" /\ (~ncOpen \/ ~linkUp)
  /\ err' = IF a \in Requests THEN [err EXCEPT ![a] = "write"] ELSE err
  /\ writeMu' = None
  /\ pc' = [pc EXCEPT ![a] = AfterSendErr(a)]
  /\ UNCHANGED <<connVars, id, ch, got, readVars, netVars>>

-----------------------------------------------------------------------------
(* OpenSession's goroutine, tickleLoop, and Close. *)

StartTickle ==
  /\ pc[Tickler] = "off"
  /\ pc[Opener] = "done" /\ got[Opener] # None
  /\ pc' = [pc EXCEPT ![Tickler] = "run"]
  /\ UNCHANGED <<connVars, id, ch, got, err, writeMu, readVars, netVars>>

Tickle ==
  /\ pc[Tickler] = "run"
  /\ NewID(Tickler)
  /\ pc' = [pc EXCEPT ![Tickler] = "lock"]
  /\ UNCHANGED <<pending, closeErr, mu, ch, got, err, writeMu, readVars, netVars>>

TickleStop ==
  /\ pc[Tickler] = "run" /\ Done
  /\ pc' = [pc EXCEPT ![Tickler] = "exit"]
  /\ UNCHANGED <<connVars, id, ch, got, err, writeMu, readVars, netVars>>

CloseStart(k) ==
  /\ pc[k] = "idle"
  /\ NewID(k)
  /\ pc' = [pc EXCEPT ![k] = "lock"]
  /\ UNCHANGED <<pending, closeErr, mu, ch, got, err, writeMu, readVars, netVars>>

\* Mutant of CloseSocket: the socket is not closed.
CloseSocketSkipped(k) ==
  /\ pc[k] = "nc"
  /\ pc' = [pc EXCEPT ![k] = "fail"]
  /\ UNCHANGED <<connVars, id, ch, got, err, writeMu, readVars, netVars>>

CloseSocket(k) ==
  /\ pc[k] = "nc"
  /\ ncOpen' = FALSE
  /\ pc' = [pc EXCEPT ![k] = "fail"]
  /\ UNCHANGED <<connVars, id, ch, got, err, writeMu, readVars, linkUp, out,
                 inn, srv, served>>

CloseFail(k) ==
  /\ pc[k] = "fail" /\ MuFree
  /\ Fail("closed")
  /\ pc' = [pc EXCEPT ![k] = "done"]
  /\ UNCHANGED <<nextID, issued, pending, mu, id, ch, got, err, writeMu,
                 readVars, netVars>>

-----------------------------------------------------------------------------
(* readLoop. *)

\* io.ReadFull of a header and its payload.
ReadFrame ==
  /\ rpc = "read" /\ ncOpen /\ inn # <<>>
  /\ rmsg' = Head(inn)
  /\ inn' = Tail(inn)
  /\ rpc' = "frame"
  /\ UNCHANGED <<connVars, callVars, rto, ncOpen, linkUp, out, srv, served>>

\* Mutant of ReadErr: readLoop returns without fail.
ReadErrSilent ==
  /\ rpc = "read" /\ (~ncOpen \/ ~linkUp) /\ MuFree
  /\ rpc' = "exit"
  /\ UNCHANGED <<connVars, callVars, rmsg, rto, netVars>>

\* Either ReadFull fails. The socket is left open.
ReadErr ==
  /\ rpc = "read" /\ (~ncOpen \/ ~linkUp) /\ MuFree
  /\ Fail("read")
  /\ rpc' = "exit"
  /\ UNCHANGED <<nextID, issued, pending, mu, callVars, rmsg, rto, netVars>>

\* Mutant of Dispatch: the reply goes to any call that waits.
DispatchToAny ==
  /\ rpc = "frame" /\ rmsg.type = "reply" /\ MuFree
  /\ \E r \in Requests : pc[r] = "wait" /\ rto' = r
  /\ rpc' = "deliver"
  /\ UNCHANGED <<connVars, callVars, rmsg, netVars>>

\* The channel is looked up under Conn.mu and used after it is released.
Dispatch ==
  /\ rpc = "frame" /\ rmsg.type = "reply" /\ MuFree
  /\ rto' = pending[rmsg.id]
  /\ IF rto' = None THEN rpc' = "read" /\ rmsg' = NoFrame
                    ELSE rpc' = "deliver" /\ UNCHANGED rmsg
  /\ UNCHANGED <<connVars, callVars, netVars>>

\* Mutant of CanDeliver: the channel has no buffer.
CanDeliverUnbuffered(r) == pc[r] = "wait"

\* The channel's buffer of one is what lets readLoop send to a caller that
\* has left.
CanDeliver(r) == ch[r] = None

Deliver ==
  /\ rpc = "deliver" /\ CanDeliver(rto)
  /\ ch' = [ch EXCEPT ![rto] = rmsg.re]
  /\ rpc' = "read" /\ rmsg' = NoFrame /\ rto' = None
  /\ UNCHANGED <<connVars, pc, id, got, err, writeMu, netVars>>

\* Mutant of IgnorePush: readLoop returns instead of going on.
IgnorePushReturns ==
  /\ rpc = "frame" /\ rmsg.type = "notice"
  /\ rpc' = "exit" /\ rmsg' = NoFrame
  /\ UNCHANGED <<connVars, callVars, rto, netVars>>

\* Tickle and Attention are read and need no answer.
IgnorePush ==
  /\ rpc = "frame" /\ rmsg.type = "notice"
  /\ rpc' = "read" /\ rmsg' = NoFrame
  /\ UNCHANGED <<connVars, callVars, rto, netVars>>

\* The server ends the session, or announces a payload over maxPayload.
Abort ==
  /\ rpc = "frame" /\ rmsg.type = "abort" /\ MuFree
  /\ Fail("protocol")
  /\ rpc' = "closing" /\ rmsg' = NoFrame
  /\ UNCHANGED <<nextID, issued, pending, mu, callVars, rto, netVars>>

AbortSocket ==
  /\ rpc = "closing"
  /\ ncOpen' = FALSE
  /\ rpc' = "exit"
  /\ UNCHANGED <<connVars, callVars, rmsg, rto, linkUp, out, inn, srv, served>>

-----------------------------------------------------------------------------
(* The server and the network, as far as the client can tell. The server  *)
(* answers each request at most once, in any order; it answers neither     *)
(* tickles nor CloseSession, and it may stop taking frames at any time.    *)

ServerTake ==
  /\ out # <<>>
  /\ LET f == Head(out) IN
       /\ srv' = IF f.from \in Requests THEN srv \cup {f} ELSE srv
       /\ served' = IF f.from \in Requests THEN served \cup {f.from} ELSE served
       /\ linkUp' = (linkUp /\ f.from \notin Closers)
  /\ out' = Tail(out)
  /\ UNCHANGED <<connVars, callVars, readVars, ncOpen, inn>>

ServerReply ==
  /\ linkUp /\ Len(inn) < RecvBuf
  /\ \E f \in srv :
       /\ inn' = Append(inn, [type |-> "reply", id |-> f.id, re |-> f.from])
       /\ srv' = srv \ {f}
  /\ UNCHANGED <<connVars, callVars, readVars, ncOpen, linkUp, out, served>>

ServerPush(t) ==
  /\ linkUp /\ Len(inn) < RecvBuf
  /\ inn' = Append(inn, [type |-> t, id |-> 0, re |-> None])
  /\ UNCHANGED <<connVars, callVars, readVars, ncOpen, linkUp, out, srv, served>>

LinkDown ==
  /\ linkUp
  /\ linkUp' = FALSE
  /\ UNCHANGED <<connVars, callVars, readVars, ncOpen, out, inn, srv, served>>

-----------------------------------------------------------------------------
CallStep(r) ==
  \/ Register(r) \/ RegisterLoop(r) \/ RegisterRefused(r)
  \/ Receive(r) \/ Wake(r) \/ Timeout(r) \/ Unregister(r)

SendStep(a) == SendLock(a) \/ SendOK(a) \/ SendErr(a)

TickleStep == StartTickle \/ Tickle \/ TickleStop

CloseStep(k) == CloseStart(k) \/ CloseSocket(k) \/ CloseFail(k)

ReadStep ==
  \/ ReadFrame \/ ReadErr \/ Dispatch \/ Deliver
  \/ IgnorePush \/ Abort \/ AbortSocket

ServerStep ==
  \/ ServerTake \/ ServerReply \/ LinkDown
  \/ \E t \in PushTypes : ServerPush(t)

Next ==
  \/ \E r \in Requests : CallStep(r)
  \/ \E a \in Actors : SendStep(a)
  \/ TickleStep
  \/ \E k \in Closers : CloseStep(k)
  \/ ReadStep
  \/ ServerStep

Spec == Init /\ [][Next]_vars

(* The Go scheduler runs every goroutine that can run, and locks are       *)
(* handed on; the server and the network promise nothing.                  *)
GoroutineFairness ==
  /\ \A r \in Requests :
       /\ WF_vars(RegisterLoop(r))
       /\ WF_vars(Receive(r) \/ Wake(r))
       /\ WF_vars(Unregister(r))
  /\ \A a \in Actors : WF_vars(SendLock(a)) /\ WF_vars(SendOK(a) \/ SendErr(a))
  /\ \A k \in Closers : WF_vars(CloseSocket(k)) /\ WF_vars(CloseFail(k))
  /\ WF_vars(TickleStop)
  /\ WF_vars(ReadStep)

\* Deadlines may be arbitrarily far away, unless a property says otherwise.
FairSpec == Spec /\ GoroutineFairness

\* Every call has a deadline, and it passes.
Deadlines == \A r \in Requests : WF_vars(Timeout(r))

-----------------------------------------------------------------------------
TypeOK ==
  /\ nextID \in IDs /\ issued \in 0 .. MaxIDs
  /\ pending \in [IDs -> Requests \cup {None}]
  /\ closeErr \in ConnErrs \cup {"nil"}
  /\ mu \in Requests \cup {None}
  /\ writeMu \in Actors \cup {None}
  /\ pc \in [Actors -> {"off", "idle", "reg", "lock", "write", "wait", "unreg",
                        "run", "nc", "fail", "done", "exit"}]
  /\ id \in [Actors -> IDs]
  /\ ch \in [Requests -> Requests \cup {None}]
  /\ got \in [Requests -> Requests \cup {None}]
  /\ err \in [Requests -> {"nil", "closed", "write", "ctx"}]
  /\ rpc \in {"read", "frame", "deliver", "closing", "exit"}
  /\ rmsg \in InFrame
  /\ rto \in Requests \cup {None}
  /\ ncOpen \in BOOLEAN /\ linkUp \in BOOLEAN
  /\ out \in Seq(OutFrame) /\ inn \in Seq(InFrame)
  /\ srv \subseteq OutFrame /\ served \subseteq Requests

\* A call is registered from the moment it has its ID until its defer runs.
Registered(r) == pc[r] \in {"lock", "write", "wait", "unreg"}

\* Conn.pending holds exactly the calls between register and unregister, each
\* under its own ID, even after the 16-bit counter has wrapped around IDs
\* that are still waited for: so no two calls share an ID, and unregister
\* never deletes another call's channel.
PendingExact ==
  \A i \in IDs, r \in Requests :
    pending[i] = r <=> Registered(r) /\ id[r] = i

\* No call returns, or holds in its channel, the reply to another call; the
\* repository puts it as "replies are matched to callers by request ID"
\* (internal/dsi/header.go, package comment).
RightCaller ==
  \A r \in Requests : ch[r] \in {None, r} /\ got[r] \in {None, r}

\* As long as the counter has not wrapped (65535 increments in the code),
\* every reply reaches its own caller, whatever the order of replies, and
\* however many callers gave up with their replies still on the way.
RoutedRight == issued < IDSpace => RightCaller

\* The call as its caller sees it, and the requests the server executed.
CallState(r) ==
  CASE pc[r] = "idle"                    -> "idle"
    [] pc[r] # "idle" /\ err[r] # "nil"  -> "err"
    [] pc[r] # "idle" /\ got[r] # None   -> IF got[r] = r THEN "ok" ELSE "wrong"
    [] OTHER                             -> "open"

call == [r \in Requests |-> CallState(r)]

RR == INSTANCE RequestReply WITH executed <- served

\* As long as the counter has not wrapped, the connection implements
\* RequestReply: a call that returns a reply was executed, and the reply is its
\* own; one that returns an error may have been, before or after it returned.
ImplementsRequestReply ==
  RR!Init /\ [][issued < IDSpace => RR!Next]_<<call, served>>

\* readLoop is never stuck in "ch <- Reply": until the counter wraps, the
\* channel it has looked up is empty, even when the caller left between the
\* lookup and the send.
ReaderNeverBlocks ==
  issued < IDSpace /\ rpc = "deliver" => CanDeliver(rto)

\* fail keeps the first error: what a waiter reads from err() after done is
\* closed is never nil and never changes.
FirstErrorWins == [][closeErr # "nil" => closeErr' = closeErr]_closeErr

\* The stream moves: a write to it goes through or fails. nc.Write has no
\* deadline, so nothing in the client ends a write while this is false.
StreamMoves == Room \/ ~linkUp \/ ~ncOpen

\* What README.md promises of a hung server: under deadlines every call of
\* request returns. It is false: a server that stops reading fills the stream,
\* and send then waits in nc.Write for ever, past every deadline.
RequestBounded ==
  Deadlines => \A r \in Requests : pc[r] # "idle" ~> pc[r] = "done"

\* Under deadlines, and as long as the stream does not stay full for good,
\* every call of request returns, whatever else the server does, and although
\* it queues for writeMu behind writers that wait for room.
RequestReturns == []<>StreamMoves => RequestBounded

\* Under the same proviso, without deadlines: Close returns, whatever else the
\* server does, whoever else closes, and whoever holds writeMu when it sends
\* its CloseSession. (Close needs the proviso too: it closes the socket only
\* after that send.)
CloseReturns ==
  []<>StreamMoves => \A k \in Closers : pc[k] # "idle" ~> pc[k] = "done"

\* Once the connection is dead, by Close or by itself, readLoop and tickleLoop
\* end: a reconnect leaves no goroutine behind.
GoroutinesEnd ==
  closeErr # "nil" ~> rpc = "exit" /\ pc[Tickler] \in {"off", "exit"}

\* Without any help from deadlines: a call whose reply is on its way back,
\* or whose connection dies, returns.
AnsweredOrDead(r) == closeErr # "nil" \/ \E i \in DOMAIN inn : inn[i].re = r
AnsweredReturns ==
  \A r \in Requests : pc[r] = "wait" /\ AnsweredOrDead(r) ~> pc[r] = "done"

\* send does not call fail, but the connection that failed a write is
\* noticed to be dead: IsAlive turns false, so that connManager reconnects.
WriteErrorNoticed ==
  (\E r \in Requests : err[r] = "write") ~> closeErr # "nil"
=============================================================================
