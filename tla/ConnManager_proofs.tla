------------------------- MODULE ConnManager_proofs -------------------------
(***************************************************************************)
(* Proofs about ConnManager, for any set of operations and any bounds.     *)
(*                                                                         *)
(* The invariant says what a generation number stands for.  The manager's  *)
(* generation is the number of its last successful dial, so an operation   *)
(* that still sees the generation it read knows that the managed           *)
(* connection is the one it read, or that a failed dial has cleared it.    *)
(***************************************************************************)
EXTENDS ConnManager, TLAPS

\* The manager's own state.
MgrInv ==
  /\ gen = dialled
  /\ cur \in {dialled, None}
  /\ \A c \in Conns : c > dialled <=> link[c] = "none"
  /\ OnlyNewestLives

\* While an operation dials, it holds m.mu and no connection is left.
DialInv ==
  /\ \A o \in Ops : pc[o] = "dial" => mu = o
  /\ mu # None => open = {} /\ \A c \in Conns : ~IsAlive(c)

\* What an operation knows from its snapshot.
SnapInv ==
  \A o \in Ops : pc[o] # "start" =>
    /\ sgen[o] <= gen
    /\ conn[o] \in {sgen[o], None}
    /\ conn[o] = None /\ sgen[o] = gen => cur = None

\* What an operation knows at each point of do.
PcInv ==
  \A o \in Ops :
    /\ att[o] = 2 => pc[o] \in {"fn", "done", "panic"} /\ sgen[o] < gen
    /\ pc[o] = "fn" /\ att[o] = 1 => vol[o] = conn[o] /\ conn[o] # None
    /\ pc[o] = "fn" /\ att[o] = 2 /\ vol[o] # None => vol[o] > sgen[o]
    /\ pc[o] = "check" => conn[o] # None
    /\ pc[o] \in {"reconnect", "dial"} /\ conn[o] # None => link[conn[o]] = "dead"
    /\ pc[o] = "resnap" => sgen[o] < gen

\* Each run of fn takes effect at most once.
RunInv ==
  \A o \in Ops :
    /\ effects[o] <= att[o]
    /\ did[o] = "no" => effects[o] < att[o]

Inv == TypeOK /\ MgrInv /\ DialInv /\ SnapInv /\ PcInv /\ RunInv

USE ConnManagerAssumption DEF Conns

LEMMA InitInv == Init => Inv
<1> SUFFICES ASSUME Init PROVE Inv
  OBVIOUS
<1>1. TypeOK
  <2>1. /\ link \in [Conns -> {"none", "up", "broken", "dead"}]
        /\ att \in [Ops -> 1 .. 2] /\ effects \in [Ops -> 0 .. 2]
        /\ sgen \in [Ops -> Nat]
    BY DEF Init
  <2>2. /\ gen \in Nat /\ cur \in Conns \cup {None} /\ dialled \in Conns
        /\ open \subseteq Conns /\ faults \in 0 .. MaxFaults
    BY DEF Init
  <2>3. /\ conn \in [Ops -> Conns \cup {None}]
        /\ vol \in [Ops -> Conns \cup {None}]
        /\ mu \in Ops \cup {None} /\ fsClosed \in BOOLEAN
    BY Zenon DEF Init
  <2>4. /\ pc \in [Ops -> {"start", "fn", "check", "reconnect", "dial", "resnap",
                           "done", "panic"}]
        /\ did \in [Ops -> {"no", "ok", "refused"}]
        /\ res \in [Ops -> Results]
    BY DEF Init, Results
  <2> QED
    BY <2>1, <2>2, <2>3, <2>4 DEF TypeOK
<1>2. MgrInv
  BY DEF Init, MgrInv, OnlyNewestLives, IsAlive
<1>3. DialInv /\ SnapInv
  BY DEF Init, DialInv, SnapInv
<1>4. PcInv /\ RunInv
  BY DEF Init, PcInv, RunInv
<1> QED
  BY <1>1, <1>2, <1>3, <1>4 DEF Inv

LEMMA SnapshotInv == ASSUME Inv, NEW o \in Ops, Snapshot(o) PROVE Inv'
<1> USE DEF mgrVars, opVars
<1>0. TypeOK /\ MgrInv /\ DialInv /\ SnapInv /\ PcInv /\ RunInv
  BY DEF Inv
<1>1. TypeOK'
  BY <1>0 DEF TypeOK, Snapshot
<1>2. MgrInv'
  BY <1>0 DEF MgrInv, OnlyNewestLives, IsAlive, Snapshot
<1>3. DialInv'
  BY <1>0 DEF DialInv, IsAlive, Snapshot
<1>4. SnapInv'
  BY <1>0 DEF TypeOK, MgrInv, SnapInv, Snapshot
<1>5. PcInv'
  BY <1>0 DEF TypeOK, PcInv, Snapshot
<1>6. RunInv'
  BY <1>0 DEF RunInv, Snapshot
<1> QED
  BY <1>1, <1>2, <1>3, <1>4, <1>5, <1>6 DEF Inv

LEMMA ExecuteInv == ASSUME Inv, NEW o \in Ops, Execute(o) PROVE Inv'
<1> USE DEF mgrVars, opVars
<1>0. TypeOK /\ MgrInv /\ DialInv /\ SnapInv /\ PcInv /\ RunInv
  BY DEF Inv
<1>1. TypeOK'
  <2>1. effects[o] \in 0 .. 2 /\ att[o] \in 1 .. 2 /\ effects[o] < att[o]
    BY <1>0 DEF TypeOK, RunInv, Execute
  <2>2. effects[o] + 1 \in 0 .. 2
    BY <2>1
  <2>a. /\ effects' = effects \/ effects' = [effects EXCEPT ![o] = effects[o] + 1]
        /\ \E d \in {"ok", "refused"} : did' = [did EXCEPT ![o] = d]
    BY DEF Execute
  <2>3. effects' \in [Ops -> 0 .. 2]
    BY <1>0, <2>2, <2>a, Zenon DEF TypeOK
  <2>4. did' \in [Ops -> {"no", "ok", "refused"}]
    BY <1>0, <2>a DEF TypeOK
  <2> QED
    BY <1>0, <2>3, <2>4 DEF TypeOK, Execute
<1>2. MgrInv'
  BY <1>0 DEF MgrInv, OnlyNewestLives, IsAlive, Execute
<1>3. DialInv'
  BY <1>0 DEF DialInv, IsAlive, Execute
<1>4. SnapInv'
  BY <1>0 DEF SnapInv, Execute
<1>5. PcInv'
  BY <1>0 DEF PcInv, Execute
<1>6. RunInv'
  <2> SUFFICES ASSUME NEW p \in Ops
               PROVE  /\ effects'[p] <= att[p]
                      /\ did'[p] = "no" => effects'[p] < att[p]
    BY DEF RunInv, Execute
  <2>1. CASE p = o
    <3>1. effects[o] \in 0 .. 2 /\ att[o] \in 1 .. 2 /\ effects[o] < att[o]
      BY <1>0 DEF TypeOK, RunInv, Execute
    <3>2. effects'[o] \in {effects[o], effects[o] + 1} /\ did'[o] # "no"
      BY <1>0 DEF TypeOK, Execute
    <3> QED
      BY <2>1, <3>1, <3>2
  <2>2. CASE p # o
    BY <1>0, <2>2 DEF TypeOK, RunInv, Execute
  <2> QED
    BY <2>1, <2>2
<1> QED
  BY <1>1, <1>2, <1>3, <1>4, <1>5, <1>6 DEF Inv

LEMMA FnReplyInv == ASSUME Inv, NEW o \in Ops, FnReply(o) PROVE Inv'
<1> USE DEF mgrVars, opVars
<1>0. TypeOK /\ MgrInv /\ DialInv /\ SnapInv /\ PcInv /\ RunInv
  BY DEF Inv
<1>1. TypeOK'
  BY <1>0 DEF TypeOK, Results, FnReply, FnReturn
<1>2. MgrInv'
  BY <1>0 DEF MgrInv, OnlyNewestLives, IsAlive, FnReply, FnReturn
<1>3. DialInv'
  BY <1>0 DEF DialInv, IsAlive, FnReply, FnReturn
<1>4. SnapInv'
  BY <1>0 DEF SnapInv, FnReply, FnReturn
<1>5. PcInv'
  BY <1>0 DEF TypeOK, PcInv, FnReply, FnReturn
<1>6. RunInv'
  BY <1>0 DEF RunInv, FnReply, FnReturn
<1> QED
  BY <1>1, <1>2, <1>3, <1>4, <1>5, <1>6 DEF Inv

LEMMA FnLinkErrorInv == ASSUME Inv, NEW o \in Ops, FnLinkError(o) PROVE Inv'
<1> USE DEF mgrVars, opVars
<1>0. TypeOK /\ MgrInv /\ DialInv /\ SnapInv /\ PcInv /\ RunInv
  BY DEF Inv
<1>1. TypeOK'
  BY <1>0 DEF TypeOK, Results, FnLinkError, FnReturn
<1>2. MgrInv'
  BY <1>0 DEF MgrInv, OnlyNewestLives, IsAlive, FnLinkError, FnReturn
<1>3. DialInv'
  BY <1>0 DEF DialInv, IsAlive, FnLinkError, FnReturn
<1>4. SnapInv'
  BY <1>0 DEF SnapInv, FnLinkError, FnReturn
<1>5. PcInv'
  BY <1>0 DEF TypeOK, PcInv, FnLinkError, FnReturn
<1>6. RunInv'
  BY <1>0 DEF RunInv, FnLinkError, FnReturn
<1> QED
  BY <1>1, <1>2, <1>3, <1>4, <1>5, <1>6 DEF Inv

LEMMA FnTimeoutInv == ASSUME Inv, NEW o \in Ops, FnTimeout(o) PROVE Inv'
<1> USE DEF mgrVars, opVars
<1>0. TypeOK /\ MgrInv /\ DialInv /\ SnapInv /\ PcInv /\ RunInv
  BY DEF Inv
<1>1. TypeOK'
  BY <1>0 DEF TypeOK, Results, FnTimeout, FnReturn, Fault
<1>2. MgrInv'
  BY <1>0 DEF MgrInv, OnlyNewestLives, IsAlive, FnTimeout, FnReturn
<1>3. DialInv'
  BY <1>0 DEF DialInv, IsAlive, FnTimeout, FnReturn
<1>4. SnapInv'
  BY <1>0 DEF SnapInv, FnTimeout, FnReturn
<1>5. PcInv'
  BY <1>0 DEF TypeOK, PcInv, FnTimeout, FnReturn
<1>6. RunInv'
  BY <1>0 DEF RunInv, FnTimeout, FnReturn
<1> QED
  BY <1>1, <1>2, <1>3, <1>4, <1>5, <1>6 DEF Inv

LEMMA FnPanicInv == ASSUME Inv, NEW o \in Ops, FnPanic(o) PROVE Inv'
<1> USE DEF mgrVars, opVars
<1>0. TypeOK /\ MgrInv /\ DialInv /\ SnapInv /\ PcInv /\ RunInv
  BY DEF Inv
<1>1. TypeOK'
  BY <1>0 DEF TypeOK, FnPanic
<1>2. MgrInv'
  BY <1>0 DEF MgrInv, OnlyNewestLives, IsAlive, FnPanic
<1>3. DialInv'
  BY <1>0 DEF DialInv, IsAlive, FnPanic
<1>4. SnapInv'
  BY <1>0 DEF SnapInv, FnPanic
<1>5. PcInv'
  BY <1>0 DEF PcInv, FnPanic
<1>6. RunInv'
  BY <1>0 DEF RunInv, FnPanic
<1> QED
  BY <1>1, <1>2, <1>3, <1>4, <1>5, <1>6 DEF Inv

LEMMA CheckInv == ASSUME Inv, NEW o \in Ops, Check(o) PROVE Inv'
<1> USE DEF mgrVars, opVars
<1>0. TypeOK /\ MgrInv /\ DialInv /\ SnapInv /\ PcInv /\ RunInv
  BY DEF Inv
<1>1. TypeOK'
  BY <1>0 DEF TypeOK, Check
<1>2. MgrInv'
  BY <1>0 DEF MgrInv, OnlyNewestLives, IsAlive, Check
<1>3. DialInv'
  BY <1>0 DEF DialInv, IsAlive, Check
<1>4. SnapInv'
  BY <1>0 DEF SnapInv, Check
<1>5. PcInv'
  BY <1>0 DEF TypeOK, MgrInv, SnapInv, PcInv, IsAlive, Check
<1>6. RunInv'
  BY <1>0 DEF RunInv, Check
<1> QED
  BY <1>1, <1>2, <1>3, <1>4, <1>5, <1>6 DEF Inv

LEMMA ReconnectSkipInv == ASSUME Inv, NEW o \in Ops, ReconnectSkip(o) PROVE Inv'
<1> USE DEF mgrVars, opVars
<1>0. TypeOK /\ MgrInv /\ DialInv /\ SnapInv /\ PcInv /\ RunInv
  BY DEF Inv
<1>1. TypeOK'
  BY <1>0 DEF TypeOK, ReconnectSkip
<1>2. MgrInv'
  BY <1>0 DEF MgrInv, OnlyNewestLives, IsAlive, ReconnectSkip
<1>3. DialInv'
  BY <1>0 DEF DialInv, IsAlive, ReconnectSkip
<1>4. SnapInv'
  BY <1>0 DEF SnapInv, ReconnectSkip
<1>5. PcInv'
  <2>a. /\ sgen[o] \in Nat /\ gen \in Nat
        /\ pc[o] = "reconnect" /\ gen # sgen[o]
    BY <1>0 DEF TypeOK, ReconnectSkip, AlreadyReconnected
  <2>b. sgen[o] <= gen
    BY <1>0, <2>a DEF SnapInv
  <2>1. sgen[o] < gen
    BY <2>a, <2>b
  <2> QED
    BY <1>0, <2>1 DEF PcInv, ReconnectSkip
<1>6. RunInv'
  BY <1>0 DEF RunInv, ReconnectSkip
<1> QED
  BY <1>1, <1>2, <1>3, <1>4, <1>5, <1>6 DEF Inv

LEMMA ReconnectBeginInv == ASSUME Inv, NEW o \in Ops, ReconnectBegin(o) PROVE Inv'
<1> USE DEF mgrVars, opVars
<1>0. TypeOK /\ MgrInv /\ DialInv /\ SnapInv /\ PcInv /\ RunInv
  BY DEF Inv
<1>1. TypeOK'
  BY <1>0 DEF TypeOK, ReconnectBegin, CloseCurrent
<1>2. MgrInv'
  BY <1>0 DEF MgrInv, OnlyNewestLives, IsAlive, ReconnectBegin, CloseCurrent
<1>3. DialInv'
  BY <1>0 DEF TypeOK, MgrInv, OnlyNewestLives, DialInv, IsAlive,
     ReconnectBegin, CloseCurrent, MuFree
<1>4. SnapInv'
  BY <1>0 DEF SnapInv, ReconnectBegin
<1>5. PcInv'
  BY <1>0 DEF TypeOK, PcInv, ReconnectBegin, CloseCurrent
<1>6. RunInv'
  BY <1>0 DEF RunInv, ReconnectBegin
<1> QED
  BY <1>1, <1>2, <1>3, <1>4, <1>5, <1>6 DEF Inv

LEMMA DialOKInv == ASSUME Inv, NEW o \in Ops, DialOK(o) PROVE Inv'
<1> USE DEF mgrVars, opVars
<1>0. TypeOK /\ MgrInv /\ DialInv /\ SnapInv /\ PcInv /\ RunInv
  BY DEF Inv
<1>1. TypeOK'
  BY <1>0 DEF TypeOK, DialOK
<1>2. MgrInv'
  BY <1>0 DEF TypeOK, MgrInv, DialInv, OnlyNewestLives, IsAlive, DialOK
<1>3. DialInv'
  BY <1>0 DEF TypeOK, DialInv, DialOK
<1>4. SnapInv'
  BY <1>0 DEF TypeOK, SnapInv, DialOK
<1>5. PcInv'
  <2>1. /\ dialled' = dialled + 1 /\ gen' = gen + 1 /\ gen = dialled
        /\ pc'[o] = "resnap" /\ \A p \in Ops \ {o} : pc'[p] = pc[p]
        /\ UNCHANGED <<att, conn, sgen, vol>>
    BY <1>0 DEF TypeOK, MgrInv, DialOK
  <2>2. \A c \in Conns : link[c] = "dead" => link'[c] = "dead"
    BY <1>0 DEF TypeOK, MgrInv, DialOK
  <2>3. pc[o] = "dial" /\ sgen[o] <= gen /\ gen \in Nat /\ sgen[o] \in Nat
    BY <1>0 DEF TypeOK, SnapInv, DialOK
  <2>4. \A p \in Ops : sgen[p] \in Nat /\ conn[p] \in Conns \cup {None}
    BY <1>0 DEF TypeOK
  <2> QED
    BY <1>0, <2>1, <2>2, <2>3, <2>4 DEF PcInv
<1>6. RunInv'
  BY <1>0 DEF RunInv, DialOK
<1> QED
  BY <1>1, <1>2, <1>3, <1>4, <1>5, <1>6 DEF Inv

LEMMA DialFailInv == ASSUME Inv, NEW o \in Ops, DialFail(o) PROVE Inv'
<1> USE DEF mgrVars, opVars
<1>0. TypeOK /\ MgrInv /\ DialInv /\ SnapInv /\ PcInv /\ RunInv
  BY DEF Inv
<1>1. TypeOK'
  BY <1>0 DEF TypeOK, Results, DialFail, Fault
<1>2. MgrInv'
  BY <1>0 DEF MgrInv, DialInv, OnlyNewestLives, IsAlive, DialFail
<1>3. DialInv'
  BY <1>0 DEF TypeOK, DialInv, DialFail
<1>4. SnapInv'
  BY <1>0 DEF SnapInv, DialFail
<1>5. PcInv'
  BY <1>0 DEF PcInv, DialFail
<1>6. RunInv'
  BY <1>0 DEF RunInv, DialFail
<1> QED
  BY <1>1, <1>2, <1>3, <1>4, <1>5, <1>6 DEF Inv

LEMMA ResnapInv == ASSUME Inv, NEW o \in Ops, Resnap(o) PROVE Inv'
<1> USE DEF mgrVars, opVars
<1>0. TypeOK /\ MgrInv /\ DialInv /\ SnapInv /\ PcInv /\ RunInv
  BY DEF Inv
<1>1. TypeOK'
  BY <1>0 DEF TypeOK, Resnap
<1>2. MgrInv'
  BY <1>0 DEF MgrInv, OnlyNewestLives, IsAlive, Resnap
<1>3. DialInv'
  BY <1>0 DEF DialInv, Resnap, MuFree
<1>4. SnapInv'
  BY <1>0 DEF SnapInv, Resnap
<1>5. PcInv'
  BY <1>0 DEF TypeOK, MgrInv, PcInv, Resnap
<1>6. RunInv'
  <2>0. att[o] \in 1 .. 2 /\ att[o] # 2 /\ att'[o] = 2
    BY <1>0, ZenonT(60) DEF TypeOK, PcInv, Resnap
  <2>1. att[o] = 1 /\ att'[o] = 2 /\ effects[o] <= 1
    BY <1>0, <2>0 DEF RunInv
  <2>2. effects[o] \in 0 .. 2
    BY <1>0 DEF TypeOK
  <2>3. effects' = effects /\ \A p \in Ops \ {o} : att'[p] = att[p] /\ did'[p] = did[p]
    BY DEF Resnap
  <2> QED
    BY <1>0, <2>1, <2>2, <2>3 DEF RunInv
<1> QED
  BY <1>1, <1>2, <1>3, <1>4, <1>5, <1>6 DEF Inv

LEMMA CloseFSInv == ASSUME Inv, CloseFS PROVE Inv'
<1> USE DEF mgrVars, opVars
<1>0. TypeOK /\ MgrInv /\ DialInv /\ SnapInv /\ PcInv /\ RunInv
  BY DEF Inv
<1>1. TypeOK'
  BY <1>0 DEF TypeOK, CloseFS, CloseCurrent
<1>2. MgrInv'
  BY <1>0 DEF MgrInv, OnlyNewestLives, IsAlive, CloseFS, CloseCurrent
<1>3. DialInv'
  BY <1>0 DEF DialInv, CloseFS, MuFree
<1>4. SnapInv'
  BY <1>0 DEF SnapInv, CloseFS
<1>5. PcInv'
  BY <1>0 DEF TypeOK, PcInv, CloseFS, CloseCurrent
<1>6. RunInv'
  BY <1>0 DEF RunInv, CloseFS
<1> QED
  BY <1>1, <1>2, <1>3, <1>4, <1>5, <1>6 DEF Inv

LEMMA BreakInv == ASSUME Inv, NEW c \in Conns, Break(c) PROVE Inv'
<1> USE DEF mgrVars, opVars
<1>0. TypeOK /\ MgrInv /\ DialInv /\ SnapInv /\ PcInv /\ RunInv
  BY DEF Inv
<1>1. TypeOK'
  BY <1>0 DEF TypeOK, Break, Fault
<1>2. MgrInv'
  BY <1>0 DEF MgrInv, OnlyNewestLives, IsAlive, Break
<1>3. DialInv'
  BY <1>0 DEF DialInv, IsAlive, Break
<1>4. SnapInv'
  BY <1>0 DEF SnapInv, Break
<1>5. PcInv'
  BY <1>0 DEF PcInv, Break
<1>6. RunInv'
  BY <1>0 DEF RunInv, Break
<1> QED
  BY <1>1, <1>2, <1>3, <1>4, <1>5, <1>6 DEF Inv

LEMMA NoticeInv == ASSUME Inv, NEW c \in Conns, Notice(c) PROVE Inv'
<1> USE DEF mgrVars, opVars
<1>0. TypeOK /\ MgrInv /\ DialInv /\ SnapInv /\ PcInv /\ RunInv
  BY DEF Inv
<1>1. TypeOK'
  BY <1>0 DEF TypeOK, Notice
<1>2. MgrInv'
  BY <1>0 DEF MgrInv, OnlyNewestLives, IsAlive, Notice
<1>3. DialInv'
  BY <1>0 DEF DialInv, IsAlive, Notice
<1>4. SnapInv'
  BY <1>0 DEF SnapInv, Notice
<1>5. PcInv'
  BY <1>0 DEF PcInv, Notice
<1>6. RunInv'
  BY <1>0 DEF RunInv, Notice
<1> QED
  BY <1>1, <1>2, <1>3, <1>4, <1>5, <1>6 DEF Inv

LEMMA NextInv == Inv /\ [Next]_vars => Inv'
<1> SUFFICES ASSUME Inv, [Next]_vars PROVE Inv'
  OBVIOUS
<1>1. CASE UNCHANGED vars
  BY <1>1 DEF vars, Inv, TypeOK, MgrInv, OnlyNewestLives, IsAlive, DialInv,
     SnapInv, PcInv, RunInv
<1>2. CASE Next
  BY <1>2, SnapshotInv, ExecuteInv, FnReplyInv, FnLinkErrorInv, FnTimeoutInv,
     FnPanicInv, CheckInv, ReconnectSkipInv, ReconnectBeginInv, DialOKInv,
     DialFailInv, ResnapInv, CloseFSInv, BreakInv, NoticeInv DEF Next, OpStep
<1> QED
  BY <1>1, <1>2

LEMMA AlwaysInv == Spec => []Inv
BY InitInv, NextInv, PTL DEF Spec

-----------------------------------------------------------------------------
\* The variables of connManager keep their types, and do runs fn at most twice.
THEOREM TypeCorrect == Spec => []TypeOK
<1>1. Inv => TypeOK
  BY DEF Inv
<1> QED
  BY <1>1, AlwaysInv, PTL

\* However many operations find the link dead at once, at most one connection
\* is ever open or alive, and it is the one the manager holds.
THEOREM NewestOnly == Spec => []OnlyNewestLives
<1>1. Inv => OnlyNewestLives
  BY DEF Inv, MgrInv
<1> QED
  BY <1>1, AlwaysInv, PTL

\* do never retries on the link its first run of fn failed on.
THEOREM RetryNewer == Spec => []RetryOnNewerLink
<1>1. Inv => RetryOnNewerLink
  <2> SUFFICES ASSUME Inv, NEW o \in Ops, pc[o] = "fn", att[o] = 2,
                      vol[o] # None, conn[o] # None
               PROVE  vol[o] > conn[o]
    BY DEF RetryOnNewerLink
  <2>1. vol[o] > sgen[o]
    BY DEF Inv, PcInv
  <2>2. conn[o] = sgen[o]
    BY DEF Inv, SnapInv
  <2> QED
    BY <2>1, <2>2
<1> QED
  BY <1>1, AlwaysInv, PTL

\* reconnect closes only connections that are already dead: the comparison of
\* generations keeps a late caller from closing the link just rebuilt.
THEOREM ClosesOnlyDead == Spec => ReconnectClosesOnlyDead
<1> DEFINE Safe == \A c \in open \ open' : link[c] = "dead" \/ fsClosed' # fsClosed
<1>1. ASSUME Inv, [Next]_vars PROVE [Safe]_vars
  <2>1. ASSUME NEW o \in Ops, ReconnectBegin(o) PROVE Safe
    <3>1. pc[o] = "reconnect" /\ gen = sgen[o] /\ open' = open \ {cur}
      BY <2>1 DEF ReconnectBegin, AlreadyReconnected, CloseCurrent
    <3>2. conn[o] = None => cur = None
      BY <1>1, <3>1 DEF Inv, SnapInv
    <3>3. conn[o] # None => conn[o] = gen /\ link[conn[o]] = "dead"
      BY <1>1, <3>1 DEF Inv, SnapInv, PcInv
    <3>4. cur \in {gen, None} /\ open \subseteq Conns
      BY <1>1 DEF Inv, MgrInv, TypeOK
    <3> QED
      BY <3>1, <3>2, <3>3, <3>4
  <2>2. CASE CloseFS
    BY <2>2, Zenon DEF CloseFS
  <2>3. ASSUME NEW o \in Ops,
               Snapshot(o) \/ Execute(o) \/ FnReply(o) \/ FnLinkError(o)
               \/ FnTimeout(o) \/ FnPanic(o) \/ Check(o) \/ ReconnectSkip(o)
               \/ DialOK(o) \/ DialFail(o) \/ Resnap(o)
        PROVE Safe
    BY <2>3 DEF Snapshot, Execute, FnReply, FnLinkError, FnTimeout, FnPanic,
       Check, ReconnectSkip, DialOK, DialFail, Resnap, FnReturn, mgrVars
  <2>4. ASSUME NEW c \in Conns, Break(c) \/ Notice(c) PROVE Safe
    BY <2>4 DEF Break, Notice
  <2> QED
    BY <1>1, <2>1, <2>2, <2>3, <2>4 DEF Next, OpStep
<1> QED
  BY <1>1, AlwaysInv, PTL DEF Spec, ReconnectClosesOnlyDead

\* What an operation's answer stands for: the server's verdict on the last run
\* of fn, which in the first run is also all that has happened.
AnswerInv ==
  \A o \in Ops :
    /\ did[o] = "ok" => effects[o] > 0
    /\ did[o] = "refused" /\ att[o] = 1 => effects[o] = 0
    /\ pc[o] \in {"check", "done"} => /\ res[o] = "nil" => did[o] = "ok"
                                      /\ res[o] = "afp" => did[o] = "refused"

\* Only fn's return and a failed dial give do a result, and no step in between
\* changes what the server did.
LEMMA AnswerStep == Inv /\ AnswerInv /\ [Next]_vars => AnswerInv'
<1> SUFFICES ASSUME Inv, AnswerInv, [Next]_vars PROVE AnswerInv'
  OBVIOUS
<1>0. TypeOK /\ RunInv
  BY DEF Inv
<1>1. ASSUME NEW o \in Ops, Snapshot(o) PROVE AnswerInv'
  BY <1>0, <1>1 DEF Snapshot, AnswerInv, TypeOK
<1>2. ASSUME NEW o \in Ops, Execute(o) PROVE AnswerInv'
  <2> SUFFICES ASSUME NEW p \in Ops
               PROVE  /\ did'[p] = "ok" => effects'[p] > 0
                      /\ did'[p] = "refused" /\ att[p] = 1 => effects'[p] = 0
                      /\ pc[p] \in {"check", "done"} => /\ res[p] = "nil" => did'[p] = "ok"
                                                        /\ res[p] = "afp" => did'[p] = "refused"
    BY <1>2 DEF Execute, AnswerInv
  <2>1. CASE p # o
    BY <1>0, <1>2, <2>1 DEF Execute, AnswerInv, TypeOK
  <2>2. CASE p = o
    <3>1. effects[o] \in 0 .. 2 /\ att[o] \in 1 .. 2 /\ effects[o] < att[o] /\ pc[o] = "fn"
      BY <1>0, <1>2 DEF Execute, RunInv, TypeOK
    <3>2. \/ did'[o] = "ok" /\ effects'[o] = effects[o] + 1
          \/ did'[o] = "refused" /\ effects'[o] = effects[o]
      BY <1>0, <1>2 DEF Execute, TypeOK
    <3> QED
      BY <2>2, <3>1, <3>2
  <2> QED
    BY <2>1, <2>2
<1>3. ASSUME NEW o \in Ops, FnReply(o) PROVE AnswerInv'
  BY <1>0, <1>3 DEF FnReply, FnReturn, AnswerInv, TypeOK
<1>4. ASSUME NEW o \in Ops, FnLinkError(o) \/ FnTimeout(o) PROVE AnswerInv'
  <2>1. ASSUME FnLinkError(o) PROVE AnswerInv'
    BY <1>0, <2>1 DEF FnLinkError, FnReturn, AnswerInv, TypeOK
  <2>2. ASSUME FnTimeout(o) PROVE AnswerInv'
    BY <1>0, <2>2 DEF FnTimeout, FnReturn, AnswerInv, TypeOK
  <2> QED
    BY <1>4, <2>1, <2>2
<1>5. ASSUME NEW o \in Ops, FnPanic(o) \/ ReconnectSkip(o) \/ ReconnectBegin(o) \/ DialOK(o)
      PROVE  AnswerInv'
  BY <1>0, <1>5 DEF FnPanic, ReconnectSkip, ReconnectBegin, DialOK, AnswerInv, TypeOK
<1>6. ASSUME NEW o \in Ops, Check(o) PROVE AnswerInv'
  BY <1>0, <1>6 DEF Check, AnswerInv, TypeOK
<1>7. ASSUME NEW o \in Ops, DialFail(o) PROVE AnswerInv'
  BY <1>0, <1>7 DEF DialFail, AnswerInv, TypeOK
<1>8. ASSUME NEW o \in Ops, Resnap(o) PROVE AnswerInv'
  BY <1>0, <1>8 DEF Resnap, AnswerInv, TypeOK
<1>9. CASE UNCHANGED opVars
  BY <1>9 DEF opVars, AnswerInv
<1>10. CASE CloseFS \/ \E c \in Conns : Break(c) \/ Notice(c)
  BY <1>9, <1>10 DEF CloseFS, Break, Notice
<1>11. CASE UNCHANGED vars
  BY <1>9, <1>11 DEF vars, opVars
<1> QED
  BY <1>1, <1>2, <1>3, <1>4, <1>5, <1>6, <1>7, <1>8, <1>10, <1>11 DEF Next, OpStep

\* What do returns is true of the server, for any number of operations and
\* faults: nil means that fn has taken effect, and a refusal that it has not,
\* unless reconnect made do run it again.
THEOREM AnswersAreHonest == Spec => []ResultIsHonest
<1>1. Init => AnswerInv
  BY DEF Init, AnswerInv
<1>2. Inv /\ AnswerInv => ResultIsHonest
  <2> SUFFICES ASSUME Inv, AnswerInv, NEW o \in Ops, pc[o] = "done"
               PROVE  /\ res[o] = "nil" => effects[o] > 0
                      /\ res[o] = "afp" => effects[o] = 0 \/ att[o] = 2
    BY DEF ResultIsHonest
  <2>1. att[o] = 1 \/ att[o] = 2
    BY DEF Inv, TypeOK
  <2> QED
    BY <2>1 DEF AnswerInv
<1> QED
  BY <1>1, <1>2, InitInv, NextInv, AnswerStep, PTL DEF Spec
=============================================================================
