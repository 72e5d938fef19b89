------------------------------ MODULE Command ------------------------------
(***************************************************************************)
(* One run of the goafp command, from connect to the last deferred call:   *)
(* the throwaway status connection, the session connection, the login, the *)
(* volume and the fork, and their release in whatever way the run ends     *)
(* (cmd/goafp/main.go; Login and OpenVolume of internal/afp/session.go;    *)
(* internal/afp/uam.go and srp.go).                                        *)
(*                                                                         *)
(* The program is sequential, so a request, its answer and what the client *)
(* makes of it are one step.  The server's answer is a choice, and so is   *)
(* the moment at which the link dies or the context's deadline passes.     *)
(* Cryptography is abstracted to whether a check of it succeeds.           *)
(***************************************************************************)
EXTENDS Integers, Sequences

CONSTANT Offers  \* the sets of UAMs servers offer

UAMs == {"guest", "dhx2", "srp", "cleartext"}

\* What each command asks for once it is logged in; "op" stands for the
\* requests of its own that change nothing of the session.
Plan == [volumes |-> <<"op">>,
         ls      |-> <<"openVol", "op">>,
         get     |-> <<"openVol", "openFork", "op">>,
         put     |-> <<"openVol", "op", "openFork", "op">>,
         mount   |-> <<"openVol">>,
         status  |-> <<>>]

ASSUME CommandAssumption == Offers \subseteq SUBSET UAMs

VARIABLES
  cmd, user,  \* the command, and whether its URL names a user
  pc,         \* where it is
  todo,       \* requests of its plan still to be made
  round,      \* the next message of the login exchange
  info,       \* ServerInfo: the UAMs offered, and whether a version suits
  conns,      \* which of its two connections are open
  deferred,   \* deferred calls, in the order in which they were deferred
  left,       \* how many of them have still to run
  res,        \* its error
  up,         \* the session connection's link works
  expired,    \* the context's deadline has passed
  granted,    \* what the server holds open for the session
  sent        \* requests that went out on the session connection

env == <<up, expired>>
vars == <<cmd, user, pc, todo, round, info, conns, deferred, left, res, env, granted, sent>>

Init ==
  /\ cmd \in DOMAIN Plan /\ user \in BOOLEAN
  /\ pc = "status" /\ todo = Plan[cmd] /\ round = 1
  /\ info = [uams |-> {}, version |-> FALSE]
  /\ conns = {} /\ deferred = <<>> /\ left = 0 /\ res = "nil"
  /\ up = TRUE /\ expired = FALSE /\ granted = {} /\ sent = <<>>

-----------------------------------------------------------------------------
(* Requests. *)

Reachable == up /\ "session" \in conns

\* Whether the request is written: request does not look at its context first.
Write(req) == sent' = IF Reachable THEN Append(sent, req) ELSE sent

\* What the server holds once it has served the request.
After(req) ==
  CASE req = "openSession" -> granted \cup {"session"}
    [] req = "auth"        -> granted \cup {"auth"}
    [] req = "openVol"     -> granted \cup {"vol"}
    [] req = "openFork"    -> granted \cup {"fork"}
    [] req = "closeFork"   -> granted \ {"fork"}
    [] req = "closeVol"    -> granted \ {"vol"}
    [] req = "logout"      -> granted \ {"auth", "vol", "fork"}
    [] OTHER               -> granted

\* The server does what is asked and its answer is seen.
Answered(req) == Reachable /\ Write(req) /\ granted' = After(req) /\ UNCHANGED env

\* It refuses; or its answer is of no use, because the link dies, the deadline
\* passes or it cannot be parsed, and what was asked may be done all the same.
NotAnswered(req) ==
  /\ Write(req)
  /\ \/ UNCHANGED <<env, granted>>
     \/ up' = FALSE /\ granted' = {} /\ UNCHANGED expired
     \/ /\ Reachable /\ granted' \in {granted, After(req)}
        /\ expired' \in {expired, TRUE} /\ UNCHANGED up

Stop(e) == pc' = "done" /\ res' = e /\ todo' = <<>>

-----------------------------------------------------------------------------
(* connect *)

\* fetchStatus on a connection of its own, closed on every path.
FetchStatus ==
  /\ pc = "status" /\ conns = {}
  /\ \/ conns' = {"status"} /\ UNCHANGED <<pc, todo, res>>
     \/ conns' = {} /\ Stop("dial")
  /\ UNCHANGED <<cmd, user, round, info, deferred, left, env, granted, sent>>

ParseServerInfo ==
  /\ pc = "status" /\ conns = {"status"}
  /\ conns' = {}
  /\ \/ /\ \E o \in Offers, v \in BOOLEAN : info' = [uams |-> o, version |-> v]
        /\ IF cmd = "status" THEN Stop("nil") ELSE pc' = "dial" /\ UNCHANGED <<todo, res>>
     \/ UNCHANGED info /\ Stop("status")
  /\ UNCHANGED <<cmd, user, round, deferred, left, env, granted, sent>>

Dial ==
  /\ pc = "dial"
  /\ \/ conns' = {"session"} /\ pc' = "open" /\ UNCHANGED <<todo, res>>
     \/ UNCHANGED conns /\ Stop("dial")
  /\ UNCHANGED <<cmd, user, round, info, deferred, left, env, granted, sent>>

\* Mutant of CloseConn: the connection is left to somebody else.
CloseConnForgets == Write("closeSession") /\ UNCHANGED <<conns, granted, env>>

\* Conn.Close: the server is told, if it can be.
CloseConn == Write("closeSession") /\ conns' = {} /\ granted' = {} /\ UNCHANGED env

OpenSession ==
  /\ pc = "open"
  /\ \/ Answered("openSession") /\ pc' = "login" /\ UNCHANGED <<todo, res>>
     \/ NotAnswered("openSession") /\ pc' = "abort" /\ res' = "open" /\ UNCHANGED todo
  /\ UNCHANGED <<cmd, user, round, info, conns, deferred, left>>

\* The caller of a failed OpenSession, Login or, in mount, OpenVolume.
Abort ==
  /\ pc = "abort"
  /\ CloseConn /\ Stop(res)
  /\ UNCHANGED <<cmd, user, round, info, deferred, left>>

-----------------------------------------------------------------------------
(* Login *)

\* The UAM that Login picks: the first of these that the server offers.
Preferred == IF user THEN <<"dhx2", "srp", "cleartext">> ELSE <<"guest">>

UAM ==
  LET usable == SelectSeq(Preferred, LAMBDA u : u \in info.uams)
  IN  IF info.version /\ usable # <<>> THEN Head(usable) ELSE "none"

\* Messages of the exchange.
Rounds == [guest |-> 1, cleartext |-> 1, dhx2 |-> 3, srp |-> 2]

NoUAM ==
  /\ pc = "login" /\ UAM = "none"
  /\ pc' = "abort" /\ res' = "login"
  /\ UNCHANGED <<cmd, user, todo, round, info, conns, deferred, left, env, granted, sent>>

\* The server asks for the next message, and what it sent passes the checks.
LoginContinue ==
  /\ pc = "login" /\ UAM # "none" /\ round < Rounds[UAM]
  /\ Answered("loginStep")
  /\ round' = round + 1
  /\ UNCHANGED <<cmd, user, pc, todo, info, conns, deferred, left, res>>

\* Mutant of LoggedIn: the calls are deferred in the wrong order.
LoggedInSwapped ==
  /\ pc = "login" /\ UAM # "none"
  /\ Answered("auth")
  /\ pc' = "body"
  /\ deferred' = IF cmd = "mount" THEN <<>> ELSE <<"logout", "closeSession">>
  /\ left' = Len(deferred')
  /\ UNCHANGED <<cmd, user, todo, round, info, conns, res>>

\* The server lets the user in, at the last message or, if it likes, before;
\* the caller defers the release. The dialer of mount defers nothing.
LoggedIn ==
  /\ pc = "login" /\ UAM # "none"
  /\ Answered("auth")
  /\ pc' = "body"
  /\ deferred' = IF cmd = "mount" THEN <<>> ELSE <<"closeSession", "logout">>
  /\ left' = Len(deferred')
  /\ UNCHANGED <<cmd, user, todo, round, info, conns, res>>

\* The server refuses, answers out of turn, or fails a check of the client's:
\* SRP's proof is checked when the server has already let the user in.
LoginFails ==
  /\ pc = "login" /\ UAM # "none"
  /\ \/ NotAnswered(IF round = Rounds[UAM] THEN "auth" ELSE "loginStep")
     \/ UAM = "dhx2" /\ round < 3 /\ Answered("loginStep")
     \/ UAM = "srp" /\ Answered(IF round = 1 THEN "loginStep" ELSE "auth")
  /\ pc' = "abort" /\ res' = "login"
  /\ UNCHANGED <<cmd, user, todo, round, info, conns, deferred, left>>

-----------------------------------------------------------------------------
(* The body of the command. *)

Release == [openVol |-> <<"closeVol">>, openFork |-> <<"closeFork">>, op |-> <<>>]

Defer(step) ==
  /\ deferred' = IF cmd = "mount" THEN <<>> ELSE deferred \o Release[step]
  /\ left' = Len(deferred')

\* Mutant of BodyStep: the call is deferred whether or not the request worked.
BodyStepDefersFirst ==
  /\ pc = "body" /\ todo # <<>>
  /\ Defer(Head(todo))
  /\ \/ Answered(Head(todo)) /\ todo' = Tail(todo) /\ UNCHANGED <<pc, res>>
     \/ /\ NotAnswered(Head(todo))
        /\ res' = "request" /\ todo' = <<>>
        /\ pc' = IF cmd = "mount" THEN "abort" ELSE "return"
  /\ UNCHANGED <<cmd, user, round, info, conns>>

BodyStep ==
  /\ pc = "body" /\ todo # <<>>
  /\ \/ Answered(Head(todo)) /\ todo' = Tail(todo) /\ Defer(Head(todo)) /\ UNCHANGED <<pc, res>>
     \/ /\ NotAnswered(Head(todo))
        /\ res' = "request" /\ todo' = <<>> /\ UNCHANGED <<deferred, left>>
        /\ pc' = IF cmd = "mount" THEN "abort" ELSE "return"
  /\ UNCHANGED <<cmd, user, round, info, conns>>

\* mount hands its connection to the filesystem and serves it, unless Listen
\* fails; the filesystem closes the connection then, or when Serve returns: no
\* volume is closed and nobody is logged out.
BodyDone ==
  /\ pc = "body" /\ todo = <<>>
  /\ \/ cmd = "mount" /\ pc' = "abort" /\ res' = "listen"
     \/ cmd = "mount" /\ pc' = "serve" /\ UNCHANGED res
     \/ cmd # "mount" /\ pc' = "return" /\ UNCHANGED res
  /\ UNCHANGED <<cmd, user, todo, round, info, conns, deferred, left, env, granted, sent>>

\* Serve returns when accepting a connection fails; nothing in mount stops it.
ServeReturns ==
  /\ pc = "serve"
  /\ pc' = "abort" /\ res' = "serve"
  /\ UNCHANGED <<cmd, user, todo, round, info, conns, deferred, left, env, granted, sent>>

\* Mutant of RunDeferred: a deferred call that fails is tried again.
RunDeferredWaits ==
  /\ pc = "return" /\ left > 0
  /\ left' = left - 1
  /\ IF deferred[left] = "closeSession" THEN CloseConn
       ELSE Answered(deferred[left]) /\ UNCHANGED conns
  /\ UNCHANGED <<cmd, user, pc, todo, round, info, deferred, res>>

\* The deferred calls, the last one first; their errors are dropped.
RunDeferred ==
  /\ pc = "return" /\ left > 0
  /\ left' = left - 1
  /\ IF deferred[left] = "closeSession" THEN CloseConn ELSE
       /\ Answered(deferred[left]) \/ NotAnswered(deferred[left])
       /\ UNCHANGED conns
  /\ UNCHANGED <<cmd, user, pc, todo, round, info, deferred, res>>

Return ==
  /\ pc = "return" /\ left = 0
  /\ Stop(res)
  /\ UNCHANGED <<cmd, user, round, info, conns, deferred, left, env, granted, sent>>

\* Between two requests.
Environment ==
  /\ conns = {"session"}
  /\ \/ up /\ up' = FALSE /\ granted' = {} /\ UNCHANGED expired
     \/ ~expired /\ expired' = TRUE /\ UNCHANGED <<up, granted>>
  /\ UNCHANGED <<cmd, user, pc, todo, round, info, conns, deferred, left, res, sent>>

\* The steps that wait for the server, and those that do not: FetchStatus and
\* Dial are bounded by the context of the dialer.
Request ==
  \/ ParseServerInfo \/ OpenSession \/ LoginContinue \/ LoggedIn \/ LoginFails
  \/ BodyStep \/ RunDeferred \/ Abort

Local == FetchStatus \/ Dial \/ NoUAM \/ BodyDone \/ Return

Next == Request \/ Local \/ ServeReturns \/ Environment

Spec == Init /\ [][Next]_vars /\ WF_vars(Local)

\* Every request ends, in an answer or an error, and so does Close: what
\* RequestReturns and CloseReturns of DSIConn say, unless the server stops
\* reading and the stream stays full.
RequestsEnd == WF_vars(Request)

-----------------------------------------------------------------------------
Releases == {"closeFork", "closeVol", "logout", "closeSession"}

\* However a command ends it has closed every connection it dialled, the one
\* for the status and the one of its session. (The connections with which a
\* mounted filesystem replaces the latter are ConnManager's.)
NoConnectionLeft == pc = "done" => conns = {}

\* What a command acquired it gives back, once and in the reverse order, also
\* after an error or a deadline, as long as the link works: these are the last
\* requests it makes.
TeardownMirrors ==
  pc = "done" /\ up /\ deferred # <<>> =>
    LET before == Len(sent) - Len(deferred)
    IN  /\ before >= 0
        /\ \A i \in 1 .. before : sent[i] \notin Releases
        /\ \A i \in 1 .. Len(deferred) : sent[before + i] = deferred[(Len(deferred) - i) + 1]

\* What the server must hold for a request to make sense.
Needs(req) ==
  CASE req \in {"openSession", "closeSession"} -> {}
    [] req \in {"loginStep", "auth"}           -> {"session"}
    [] req \in {"openVol", "op", "logout"}     -> {"session", "auth"}
    [] req \in {"openFork", "closeVol"}        -> {"session", "auth", "vol"}
    [] req = "closeFork"                       -> {"session", "auth", "vol", "fork"}

\* No request reaches a server that is not ready for it: a volume is opened by
\* a user who is logged in, a fork is closed while its volume is open.
ServerIsReady == [][sent' # sent => Needs(sent'[Len(sent')]) \subseteq granted]_vars

\* A command ends, or serves, whatever the server answers and the link does,
\* if its requests end: no failure leaves it waiting for something else.
Ends == RequestsEnd => <>(pc \in {"done", "serve"})
=============================================================================
