---------------------------- MODULE RequestReply ----------------------------
(***************************************************************************)
(* What a DSI connection promises its callers (internal/dsi/conn.go,       *)
(* Conn.Request): each call ends at most once, with the reply to that very *)
(* call or with an error.  A reply means the server executed the request;  *)
(* an error means nothing about it: the request may never be executed, may *)
(* have been, or may still be after the caller has left.  The server       *)
(* executes a request at most once.                                        *)
(***************************************************************************)
CONSTANT Requests

VARIABLES
  call,       \* how far each call is
  executed    \* requests the server has executed

Init ==
  /\ call = [r \in Requests |-> "idle"]
  /\ executed = {}

Begin(r) ==
  /\ call[r] = "idle"
  /\ call' = [call EXCEPT ![r] = "open"]
  /\ UNCHANGED executed

\* The connection is already dead.
Refuse(r) ==
  /\ call[r] = "idle"
  /\ call' = [call EXCEPT ![r] = "err"]
  /\ UNCHANGED executed

Execute(r) ==
  /\ call[r] \in {"open", "err"} /\ r \notin executed
  /\ executed' = executed \cup {r}
  /\ UNCHANGED call

Return(r) ==
  /\ call[r] = "open" /\ r \in executed
  /\ call' = [call EXCEPT ![r] = "ok"]
  /\ UNCHANGED executed

GiveUp(r) ==
  /\ call[r] = "open"
  /\ call' = [call EXCEPT ![r] = "err"]
  /\ UNCHANGED executed

Next == \E r \in Requests :
          Begin(r) \/ Refuse(r) \/ Execute(r) \/ Return(r) \/ GiveUp(r)

Spec == Init /\ [][Next]_<<call, executed>>
=============================================================================
