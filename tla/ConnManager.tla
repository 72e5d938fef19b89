----------------------------- MODULE ConnManager -----------------------------
(***************************************************************************)
(* connManager of internal/nfsfs/conn.go: concurrent filesystem operations *)
(* run through do, which reconnects and retries once when the link they    *)
(* used has died.                                                          *)
(*                                                                         *)
(* Every element of Ops is one call of do.  A connection is the number of  *)
(* the dial that made it; m.conn, m.sess and m.vol are set and cleared     *)
(* together and are one variable.  The function do runs is one request     *)
(* with the promises of RequestReply: it may have been executed whenever   *)
(* it ends in an error.                                                    *)
(***************************************************************************)
EXTENDS Integers

CONSTANTS
  Ops,         \* calls of connManager.do
  Idempotent,  \* the ones whose second execution succeeds like the first
  None,        \* nil: no connection, no lock holder
  MaxConns,    \* bound on successful dials
  MaxFaults    \* bound on link failures, failed dials and timeouts

ASSUME ConnManagerAssumption ==
  /\ Idempotent \subseteq Ops
  /\ None \notin Ops /\ None \notin Nat
  /\ MaxConns \in Nat \ {0}
  /\ MaxFaults \in Nat

Conns == 1 .. MaxConns

VARIABLES
  gen,        \* m.gen
  cur,        \* m.conn, m.sess and m.vol
  mu,         \* the call of reconnect that holds m.mu while it dials
  dialled,    \* connections made so far
  link,       \* per connection: up, broken (peer gone, IsAlive still true), dead
  open,       \* connections Conn.Close was not called on
  fsClosed,   \* FS.Close was called
  faults,     \* faults so far
  pc,         \* where each call of do is
  att,        \* which run of fn each call is in: 1, or 2 after reconnect
  conn,       \* the connection do read first
  sgen,       \* the generation do read with it
  vol,        \* the volume fn runs on
  did,        \* what the server did with the current run of fn
  effects,    \* how many runs of fn changed the server's state
  res         \* the error do returns

vars == <<gen, cur, mu, dialled, link, open, fsClosed, faults, pc, att, conn,
          sgen, vol, did, effects, res>>
mgrVars == <<gen, cur, mu, dialled, link, open, fsClosed>>
opVars == <<pc, att, conn, sgen, vol, did, effects, res>>

Results == {"nil", "afp", "timeout", "link", "dial"}

\* newConnManager has dialled once.
Init ==
  /\ gen = 1 /\ cur = 1 /\ mu = None /\ dialled = 1
  /\ link = [c \in Conns |-> IF c = 1 THEN "up" ELSE "none"]
  /\ open = {1} /\ fsClosed = FALSE /\ faults = 0
  /\ pc = [o \in Ops |-> "start"]
  /\ att = [o \in Ops |-> 1]
  /\ conn = [o \in Ops |-> None]
  /\ sgen = [o \in Ops |-> 0]
  /\ vol = [o \in Ops |-> None]
  /\ did = [o \in Ops |-> "no"]
  /\ effects = [o \in Ops |-> 0]
  /\ res = [o \in Ops |-> "nil"]

MuFree == mu = None

\* Conn.IsAlive: readLoop has not failed and Close was not called.
IsAlive(c) == link[c] \in {"up", "broken"}

\* Mutant of CloseCurrent: the old connection is dropped without Close.
CloseCurrentSkipped == UNCHANGED <<open, link>>

\* Conn.Close on the managed connection, if there is one.
CloseCurrent ==
  /\ open' = open \ {cur}
  /\ link' = [c \in Conns |-> IF c = cur THEN "dead" ELSE link[c]]

Fault == faults < MaxFaults /\ faults' = faults + 1

-----------------------------------------------------------------------------
(* connManager.do, up to the reconnect. *)

\* Mutant of Snapshot: without a volume, do fails at once.
SnapshotGivesUp(o) ==
  /\ pc[o] = "start" /\ MuFree /\ ~fsClosed
  /\ conn' = [conn EXCEPT ![o] = cur]
  /\ vol' = [vol EXCEPT ![o] = cur]
  /\ sgen' = [sgen EXCEPT ![o] = gen]
  /\ pc' = [pc EXCEPT ![o] = IF cur = None THEN "done" ELSE "fn"]
  /\ res' = [res EXCEPT ![o] = IF cur = None THEN "dial" ELSE "nil"]
  /\ UNCHANGED <<mgrVars, faults, att, did, effects>>

Snapshot(o) ==
  /\ pc[o] = "start" /\ MuFree /\ ~fsClosed
  /\ conn' = [conn EXCEPT ![o] = cur]
  /\ vol' = [vol EXCEPT ![o] = cur]
  /\ sgen' = [sgen EXCEPT ![o] = gen]
  /\ pc' = [pc EXCEPT ![o] = IF cur = None THEN "reconnect" ELSE "fn"]
  /\ UNCHANGED <<mgrVars, faults, att, did, effects, res>>

\* The server executes fn's request: it takes effect, or is refused. What is
\* not idempotent is refused the second time.
Execute(o) ==
  /\ pc[o] = "fn" /\ vol[o] # None
  /\ link[vol[o]] = "up" /\ did[o] = "no"
  /\ \/ /\ o \in Idempotent \/ effects[o] = 0
        /\ did' = [did EXCEPT ![o] = "ok"]
        /\ effects' = [effects EXCEPT ![o] = @ + 1]
     \/ /\ did' = [did EXCEPT ![o] = "refused"]
        /\ UNCHANGED effects
  /\ UNCHANGED <<mgrVars, faults, pc, att, conn, sgen, vol, res>>

\* fn returns e: the second run's error is do's, the first one's is looked at.
FnReturn(o, e) ==
  /\ res' = [res EXCEPT ![o] = e]
  /\ pc' = [pc EXCEPT ![o] = IF e = "nil" \/ att[o] = 2 THEN "done" ELSE "check"]
  /\ UNCHANGED <<mgrVars, att, conn, sgen, vol, did, effects>>

FnReply(o) ==
  /\ pc[o] = "fn" /\ vol[o] # None
  /\ link[vol[o]] = "up" /\ did[o] # "no"
  /\ FnReturn(o, IF did[o] = "ok" THEN "nil" ELSE "afp")
  /\ UNCHANGED faults

\* The connection died, or a write to it failed.
FnLinkError(o) ==
  /\ pc[o] = "fn" /\ vol[o] # None
  /\ link[vol[o]] \in {"broken", "dead"}
  /\ FnReturn(o, "link")
  /\ UNCHANGED faults

\* opTimeout passes while the server, or the network, stays silent.
FnTimeout(o) ==
  /\ pc[o] = "fn" /\ vol[o] # None
  /\ Fault
  /\ FnReturn(o, "timeout")

\* A nil volume is dereferenced.
FnPanic(o) ==
  /\ pc[o] = "fn" /\ vol[o] = None
  /\ pc' = [pc EXCEPT ![o] = "panic"]
  /\ UNCHANGED <<mgrVars, faults, att, conn, sgen, vol, did, effects, res>>

Check(o) ==
  /\ pc[o] = "check"
  /\ pc' = [pc EXCEPT ![o] = IF IsAlive(conn[o]) THEN "done" ELSE "reconnect"]
  /\ UNCHANGED <<mgrVars, faults, att, conn, sgen, vol, did, effects, res>>

-----------------------------------------------------------------------------
(* connManager.reconnect: m.mu is held from the check of the generation to *)
(* the end of the dial. *)

\* Mutant of AlreadyReconnected: the generation is not compared.
AlreadyReconnectedUnchecked(o) == FALSE

AlreadyReconnected(o) == gen # sgen[o]

ReconnectSkip(o) ==
  /\ pc[o] = "reconnect" /\ MuFree
  /\ AlreadyReconnected(o)
  /\ pc' = [pc EXCEPT ![o] = "resnap"]
  /\ UNCHANGED <<mgrVars, faults, att, conn, sgen, vol, did, effects, res>>

ReconnectBegin(o) ==
  /\ pc[o] = "reconnect" /\ MuFree
  /\ ~AlreadyReconnected(o)
  /\ mu' = o
  /\ CloseCurrent
  /\ pc' = [pc EXCEPT ![o] = "dial"]
  /\ UNCHANGED <<gen, cur, dialled, fsClosed, faults, att, conn, sgen, vol, did,
                 effects, res>>

DialOK(o) ==
  /\ pc[o] = "dial" /\ dialled < MaxConns
  /\ dialled' = dialled + 1
  /\ cur' = dialled'
  /\ link' = [link EXCEPT ![dialled'] = "up"]
  /\ open' = open \cup {dialled'}
  /\ gen' = gen + 1
  /\ mu' = None
  /\ pc' = [pc EXCEPT ![o] = "resnap"]
  /\ UNCHANGED <<fsClosed, faults, att, conn, sgen, vol, did, effects, res>>

\* Mutant of DialFail: m.mu is not released on the error path.
DialFailKeepsLock(o) ==
  /\ pc[o] = "dial"
  /\ Fault
  /\ cur' = None
  /\ res' = [res EXCEPT ![o] = "dial"]
  /\ pc' = [pc EXCEPT ![o] = "done"]
  /\ UNCHANGED <<gen, mu, dialled, link, open, fsClosed, att, conn, sgen, vol,
                 did, effects>>

\* Mutant of DialFail: the error of the dial is lost.
DialFailSilent(o) ==
  /\ pc[o] = "dial"
  /\ Fault
  /\ cur' = None
  /\ mu' = None
  /\ res' = [res EXCEPT ![o] = "nil"]
  /\ pc' = [pc EXCEPT ![o] = "done"]
  /\ UNCHANGED <<gen, dialled, link, open, fsClosed, att, conn, sgen, vol, did,
                 effects>>

\* The generation stays: the next operation dials again.
DialFail(o) ==
  /\ pc[o] = "dial"
  /\ Fault
  /\ cur' = None
  /\ mu' = None
  /\ res' = [res EXCEPT ![o] = "dial"]
  /\ pc' = [pc EXCEPT ![o] = "done"]
  /\ UNCHANGED <<gen, dialled, link, open, fsClosed, att, conn, sgen, vol, did,
                 effects>>

\* Mutant of Resnap: the retry keeps the volume of the dead link.
ResnapStale(o) ==
  /\ pc[o] = "resnap" /\ MuFree
  /\ att' = [att EXCEPT ![o] = 2]
  /\ did' = [did EXCEPT ![o] = "no"]
  /\ pc' = [pc EXCEPT ![o] = "fn"]
  /\ UNCHANGED <<mgrVars, faults, conn, sgen, vol, effects, res>>

\* do reads m.vol after reconnect has released m.mu, and runs fn again.
Resnap(o) ==
  /\ pc[o] = "resnap" /\ MuFree
  /\ vol' = [vol EXCEPT ![o] = cur]
  /\ att' = [att EXCEPT ![o] = 2]
  /\ did' = [did EXCEPT ![o] = "no"]
  /\ pc' = [pc EXCEPT ![o] = "fn"]
  /\ UNCHANGED <<mgrVars, faults, conn, sgen, effects, res>>

-----------------------------------------------------------------------------
\* FS.Close. Whoever closes the filesystem starts no further operation.
CloseFS ==
  /\ MuFree /\ ~fsClosed
  /\ fsClosed' = TRUE
  /\ CloseCurrent
  /\ UNCHANGED <<gen, cur, mu, dialled, faults, opVars>>

\* The server sleeps, or the network drops.
Break(c) ==
  /\ link[c] = "up"
  /\ Fault
  /\ link' = [link EXCEPT ![c] = "broken"]
  /\ UNCHANGED <<gen, cur, mu, dialled, open, fsClosed, opVars>>

\* readLoop gets a read error and calls fail.
Notice(c) ==
  /\ link[c] = "broken"
  /\ link' = [link EXCEPT ![c] = "dead"]
  /\ UNCHANGED <<gen, cur, mu, dialled, open, fsClosed, faults, opVars>>

OpStep(o) ==
  \/ Execute(o) \/ FnReply(o) \/ FnLinkError(o) \/ FnPanic(o) \/ Check(o)
  \/ ReconnectSkip(o) \/ ReconnectBegin(o) \/ DialOK(o) \/ Resnap(o)

Next ==
  \/ \E o \in Ops : Snapshot(o) \/ OpStep(o) \/ FnTimeout(o) \/ DialFail(o)
  \/ CloseFS
  \/ \E c \in Conns : Break(c) \/ Notice(c)

Spec == Init /\ [][Next]_vars

(* Every operation goes on; a server that keeps silent is a fault that ends *)
(* in a timeout, and a dial ends, by dialTimeout, one way or the other.      *)
FairSpec ==
  /\ Spec
  /\ \A o \in Ops : /\ WF_vars(Snapshot(o))
                    /\ WF_vars(OpStep(o) \/ FnTimeout(o) \/ DialFail(o))
  /\ \A c \in Conns : WF_vars(Notice(c))

-----------------------------------------------------------------------------
\* Among the types: fn runs, and so takes effect, at most twice per call of do.
TypeOK ==
  /\ gen \in Nat
  /\ cur \in Conns \cup {None}
  /\ mu \in Ops \cup {None}
  /\ dialled \in Conns
  /\ link \in [Conns -> {"none", "up", "broken", "dead"}]
  /\ open \subseteq Conns
  /\ fsClosed \in BOOLEAN
  /\ faults \in 0 .. MaxFaults
  /\ pc \in [Ops -> {"start", "fn", "check", "reconnect", "dial", "resnap",
                     "done", "panic"}]
  /\ att \in [Ops -> 1 .. 2]
  /\ conn \in [Ops -> Conns \cup {None}]
  /\ sgen \in [Ops -> Nat]
  /\ vol \in [Ops -> Conns \cup {None}]
  /\ did \in [Ops -> {"no", "ok", "refused"}]
  /\ effects \in [Ops -> 0 .. 2]
  /\ res \in [Ops -> Results]

\* At most one connection is open or alive, and it is the one the manager
\* holds: a superseded connection is closed, and none is lost by a failed
\* dial, however many operations reconnect at once.
OnlyNewestLives ==
  \A c \in Conns : c \in open \/ IsAlive(c) => c = cur

\* reconnect never tears down a connection that still works: concurrent
\* callers that hit the same dead link reconnect once between them, and a
\* late one does not close the link another caller has just rebuilt.
ReconnectClosesOnlyDead ==
  [][\A c \in open \ open' : link[c] = "dead" \/ fsClosed' # fsClosed]_vars

\* A retry never runs on the link its first run failed on, or on an older one.
RetryOnNewerLink ==
  \A o \in Ops :
    pc[o] = "fn" /\ att[o] = 2 /\ vol[o] # None /\ conn[o] # None
      => vol[o] > conn[o]

\* What do returns is true of the server: nil means that fn has taken effect,
\* and a refusal that it has not, unless it ran again after its effect. The
\* refusals are fn's own: what a dial was refused with is "dial" here, and
\* Catalog's HonestResult follows what mapErr makes of it.
ResultIsHonest ==
  \A o \in Ops : pc[o] = "done" =>
    /\ res[o] = "nil" => effects[o] > 0
    /\ res[o] = "afp" => effects[o] = 0 \/ att[o] = 2

\* Every call of do ends if fn does: fn ends by a reply, an error or its deadline,
\* which a stream that stays full would not let it do (DSIConn's RequestBounded).
DoReturns ==
  \A o \in Ops : pc[o] # "start" ~> pc[o] \in {"done", "panic"}

\* A mount survives: once the faults are over and noticed, an operation that
\* starts gets the server's answer, whatever state the faults left.
Quiet == faults = MaxFaults /\ \A c \in Conns : link[c] # "broken"
Recovers ==
  \A o \in Ops :
    pc[o] = "start" /\ Quiet
      ~> fsClosed \/ (pc[o] = "done" /\ res[o] \in {"nil", "afp"})

\* fn runs on a connection; internal/nfsfs/conn.go puts it as "fn receives the
\* op context and the current volume". The code does not keep to it.
FnGetsVolume == \A o \in Ops : pc[o] = "fn" => vol[o] # None
=============================================================================
