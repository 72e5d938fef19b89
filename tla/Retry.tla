------------------------------- MODULE Retry --------------------------------
(***************************************************************************)
(* connManager.do (internal/nfsfs/conn.go) as the operations of FS see it: *)
(* an operation runs on the current volume, and once more when its link    *)
(* was found dead.  ConnManager has the locks and the order of the steps;  *)
(* here a reconnect is one step, and so is the loss of a link: whether the *)
(* client has noticed it when an operation fails is a choice made then.    *)
(***************************************************************************)
EXTENDS Integers, FiniteSets

CONSTANTS
  Calls,         \* operations under way
  MaxGens,       \* bound on generations of the connection
  MaxDialFails,  \* bound on failed dials
  MaxTimeouts    \* bound on timeouts

ASSUME RetryAssumption ==
  /\ IsFiniteSet(Calls)
  /\ MaxGens \in Nat \ {0} /\ MaxDialFails \in Nat /\ MaxTimeouts \in Nat

\* No operation: a call that is not made.
NoCall == [do |-> "none"]

VARIABLES
  gen, link,    \* connManager.gen; its link is "up", "down" or "none"
  dialFails, timeouts,
  outage,       \* calls whose own dial failed
  op,           \* what each call is
  pc,           \* the request it waits for
  att, vol,     \* do: which run of the function, and on which generation
  res           \* its error

linkVars == <<gen, link, dialFails, timeouts, outage>>
callVars == <<op, pc, att, vol, res>>

RetryInit ==
  /\ gen = 1 /\ link = "up" /\ dialFails = 0 /\ timeouts = 0 /\ outage = {}
  /\ pc = [c \in Calls |-> CASE op[c] = NoCall -> "done"
                             [] op[c].do = "change" -> "start"
                             [] OTHER -> "enter"]
  /\ att = [c \in Calls |-> 1]
  /\ vol = [c \in Calls |-> 0] /\ res = [c \in Calls |-> "nil"]

Usable(c) == vol[c] = gen /\ link = "up"

Goto(c, step) == pc' = [pc EXCEPT ![c] = step]
Finish(c, e) == Goto(c, "done") /\ res' = [res EXCEPT ![c] = e]

\* connManager's dial: a new link, or none and an error.
Dial ==
  /\ gen < MaxGens /\ gen' = gen + 1 /\ link' = "up"
  /\ UNCHANGED <<dialFails, timeouts, outage>>
DialFail(c) ==
  /\ dialFails < MaxDialFails /\ dialFails' = dialFails + 1 /\ link' = "none"
  /\ outage' = outage \cup {c}
  /\ UNCHANGED <<gen, timeouts>>

\* do takes the current generation and runs the function, which begins with
\* the request first.
Enter(c, first) ==
  /\ pc[c] = "enter"
  /\ Goto(c, first) /\ vol' = [vol EXCEPT ![c] = gen]
  /\ UNCHANGED <<linkVars, op, att, res>>

\* The deadline passes on a link that works: do returns the error.
Timeout(c) ==
  /\ pc[c] \notin {"start", "enter", "done"} /\ Usable(c)
  /\ timeouts < MaxTimeouts /\ timeouts' = timeouts + 1
  /\ Finish(c, "timeout")
  /\ UNCHANGED <<gen, link, dialFails, outage, op, att, vol>>

MayRetry(c) == att[c] = 1

\* IsAlive has not turned false yet: do takes the error for the server's.
Unnoticed(c) == vol[c] = gen /\ link = "down"

\* The link is gone, and the function returns e. reconnect dials, unless somebody
\* has, and the function begins anew; do returns one of dialErrs if the dial
\* fails, and e after the second run, or if the loss went unnoticed: a write
\* failed, or the deadline passed, before readLoop gave up. That the function
\* would begin without a volume, when a later dial has failed meanwhile, is
\* ConnManager's FnGetsVolume and not followed here.
LinkError(c, first, e, dialErrs) ==
  /\ pc[c] \notin {"start", "enter", "done"} /\ ~Usable(c)
  /\ \/ /\ MayRetry(c)
        /\ \/ gen = vol[c] /\ Dial
           \/ gen # vol[c] /\ link # "none" /\ UNCHANGED linkVars
        /\ att' = [att EXCEPT ![c] = @ + 1] /\ vol' = [vol EXCEPT ![c] = gen']
        /\ Goto(c, first) /\ UNCHANGED res
     \/ /\ MayRetry(c) /\ gen = vol[c] /\ DialFail(c)
        /\ \E d \in dialErrs : Finish(c, d)
        /\ UNCHANGED <<att, vol>>
     \/ /\ ~MayRetry(c) \/ Unnoticed(c)
        /\ Finish(c, e) /\ UNCHANGED <<linkVars, att, vol>>
  /\ UNCHANGED op

LinkDown ==
  /\ link = "up" /\ gen < MaxGens
  /\ link' = "down"
  /\ UNCHANGED <<gen, dialFails, timeouts, outage, callVars>>
=============================================================================
