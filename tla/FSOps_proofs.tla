---------------------------- MODULE FSOps_proofs ----------------------------
(***************************************************************************)
(* Proofs about FSOps, for any number of calls, any paths, any operations  *)
(* and any bounds: a call leaves no fork behind, its result is true of     *)
(* what it did, and privileges are silently not set only in an outage.     *)
(***************************************************************************)
EXTENDS FSOps, TLAPS

\* f is a function on the calls.
OverCalls(f) == f = [c \in Calls |-> f[c]]

\* What the proofs need of the types.
Typed ==
  /\ op \in [Calls -> Changes \cup CatalogOps \cup {NoCall}]
  /\ OverCalls(pc) /\ OverCalls(res) /\ OverCalls(vol) /\ OverCalls(fork) /\ OverCalls(why)
  /\ att \in [Calls -> {1, 2}]
  /\ gen \in Nat /\ clock \in Nat /\ setAt \in [Calls -> Nat]
  /\ tree = [p \in Paths |-> tree[p]]

-----------------------------------------------------------------------------
\* The operations of the two modules are different ones.
LEMMA OpsDiffer == Changes \cap CatalogOps = {}
BY CatalogAssumption DEF Changes, Chtimes

\* The errors that the codes of the server become.
LEMMA MapErrCodes ==
  /\ MapErr("ObjectNotFound") = "notExist" /\ MapErr("DirNotFound") = "notExist"
  /\ MapErr("AccessDenied") = "permission" /\ MapErr("ObjectExists") = "exist"
  /\ MapErr("ObjectTypeErr") = "ObjectTypeErr" /\ MapErr("DirNotEmpty") = "DirNotEmpty"
  /\ MapErr("DiskFull") = "DiskFull" /\ MapErr("dial") = "dial"
  /\ MapErr("UserNotAuth") = "permission"
BY DEF MapErr

\* The variables have their types at first.
LEMMA InitTyped == Init => Typed
<1> SUFFICES ASSUME Init PROVE Typed
  OBVIOUS
<1>1. PICK s \in Scenarios : tree = s.tree /\ op = s.op
  BY DEF Init
<1>2. /\ s.tree \in [Paths -> {None, Dir, Old}]
      /\ s.op \in [Calls -> Changes \cup CatalogOps \cup {NoCall}]
  BY FSOpsAssumption
<1>3. /\ OverCalls(pc) /\ OverCalls(res) /\ OverCalls(vol)
      /\ att \in [Calls -> {1, 2}] /\ gen \in Nat
  BY DEF Init, RetryInit, OverCalls
<1>4. clock \in Nat /\ setAt \in [Calls -> Nat]
  BY DEF Init, ChangeInit
<1>5. OverCalls(fork) /\ OverCalls(why)
  BY DEF Init, CatalogInit, OverCalls
<1> QED
  BY <1>1, <1>2, <1>3, <1>4, <1>5 DEF Typed

\* A step of a change keeps the types.
LEMMA ChangeTyped ==
  ASSUME Typed, NEW c \in Calls, ChangeStep(c), UNCHANGED catalogVars
  PROVE  Typed'
<1> USE DEF Typed, OverCalls, Goto, Finish, linkVars, callVars, changeVars, catalogVars
<1>1. CASE Sample(c)
  BY <1>1 DEF Sample, Answer, Dial, DialFail
<1>2. CASE Stat(c) \/ Set(c) \/ ChangeRefused(c)
  BY <1>2 DEF Stat, Set, ChangeRefused
<1>3. CASE (Enter(c, FirstRequest(c)) \/ Timeout(c)) /\ UNCHANGED changeVars
  BY <1>3 DEF Enter, Timeout
<1>4. CASE LinkError(c, FirstRequest(c), "link", {"dial"}) /\ UNCHANGED changeVars
  BY <1>4 DEF LinkError, Dial, DialFail, MayRetry
<1> QED
  BY <1>1, <1>2, <1>3, <1>4 DEF ChangeStep

\* A step on the catalog keeps the types.
LEMMA CatalogTyped ==
  ASSUME Typed, NEW c \in Calls, CatalogStep(c), UNCHANGED changeVars
  PROVE  Typed'
<1> USE DEF Typed, OverCalls, Goto, Finish, Fails, linkVars, callVars, changeVars, catalogVars
<1>1. CASE Enter(c, First(c)) /\ UNCHANGED catalogVars
  BY <1>1, Zenon DEF Enter
<1>2. CASE CreateFile(c) \/ SetFinderInfo(c)
  BY <1>2, Zenon DEF CreateFile, SetFinderInfo, Then
<1>3. CASE OpenFork(c)
  BY <1>3, Zenon DEF OpenFork
<1>4. CASE WriteTarget(c) \/ ReadTarget(c) \/ CloseFork(c) \/ DataRefused(c)
  BY <1>4 DEF WriteTarget, ReadTarget, CloseFork, DataRefused, Then
<1>5. CASE Mkdir(c)
  BY <1>5, Zenon DEF Mkdir, NextComponent, ComponentErr
<1>6. CASE Delete(c) \/ Rename(c)
  BY <1>6, Zenon DEF Delete, Rename, TakeName
<1>7. CASE CatalogRefused(c) \/ CatalogTimeout(c) \/ LinkGoneAtRelease(c)
  BY <1>7 DEF CatalogRefused, CatalogTimeout, LinkGoneAtRelease
<1>8. CASE CatalogLinkError(c)
  BY <1>8 DEF CatalogLinkError, LinkError, Dial, DialFail, MayRetry
<1> QED
  BY <1>1, <1>2, <1>3, <1>4, <1>5, <1>6, <1>7, <1>8 DEF CatalogStep

\* Every step keeps the types.
LEMMA NextTyped == Typed /\ [Next]_vars => Typed'
<1> SUFFICES ASSUME Typed, [Next]_vars PROVE Typed'
  OBVIOUS
<1>1. CASE CatalogLinkDown /\ UNCHANGED changeVars
  BY <1>1 DEF CatalogLinkDown, LinkDown, Typed, OverCalls, callVars, changeVars
<1>2. CASE UNCHANGED vars
  BY <1>2 DEF vars, Typed, OverCalls, linkVars, callVars, changeVars, catalogVars
<1> QED
  BY <1>1, <1>2, ChangeTyped, CatalogTyped DEF Next

-----------------------------------------------------------------------------
\* A step of a change keeps NoopOnlyInOutage.
LEMMA ChangeNoop ==
  ASSUME Typed, NoopOnlyInOutage, NEW c \in Calls, ChangeStep(c)
  PROVE  NoopOnlyInOutage'
<1> USE DEF Typed, OverCalls, Goto, Finish, linkVars, callVars, changeVars, NoopOnlyInOutage
<1>1. CASE Sample(c)
  BY <1>1 DEF Sample, Answer, Dial, DialFail
<1>2. CASE Stat(c) \/ Set(c) \/ ChangeRefused(c)
  BY <1>2 DEF Stat, Set, ChangeRefused
<1>3. CASE (Enter(c, FirstRequest(c)) \/ Timeout(c)) /\ UNCHANGED changeVars
  BY <1>3 DEF Enter, Timeout, FirstRequest
<1>4. CASE LinkError(c, FirstRequest(c), "link", {"dial"}) /\ UNCHANGED changeVars
  BY <1>4 DEF LinkError, Dial, DialFail, MayRetry, FirstRequest
<1> QED
  BY <1>1, <1>2, <1>3, <1>4 DEF ChangeStep

\* What a step of call c leaves alone: what the other calls are at, and
\* whether their requests were served. Nothing that was recorded is forgotten.
Frame(c) ==
  /\ op' = op /\ outage \subseteq outage'
  /\ late \subseteq late' /\ disturbed \subseteq disturbed'
  /\ \A d \in Calls \ {c} :
       /\ pc'[d] = pc[d] /\ res'[d] = res[d] /\ att'[d] = att[d] /\ vol'[d] = vol[d]
       /\ fork'[d] = fork[d] /\ why'[d] = why[d]
       /\ d \in did' <=> d \in did

\* A step on the catalog is a step of one call.
LEMMA CatalogFrame ==
  ASSUME Typed, NEW c \in Calls, CatalogStep(c)
  PROVE  Frame(c)
<1> USE DEF Typed, OverCalls, Goto, Finish, Fails, linkVars, callVars, catalogVars, Frame
<1>1. CASE Enter(c, First(c)) /\ UNCHANGED catalogVars
  BY <1>1 DEF Enter
<1>2. CASE CreateFile(c) \/ SetFinderInfo(c)
  BY <1>2 DEF CreateFile, SetFinderInfo, Then, Served
<1>3. CASE OpenFork(c)
  BY <1>3 DEF OpenFork
<1>4. CASE WriteTarget(c) \/ ReadTarget(c) \/ CloseFork(c) \/ DataRefused(c)
  BY <1>4 DEF WriteTarget, ReadTarget, CloseFork, DataRefused, Then
<1>5. CASE Mkdir(c)
  BY <1>5 DEF Mkdir, NextComponent, ComponentErr, Served
<1>6. CASE Delete(c) \/ Rename(c)
  BY <1>6 DEF Delete, Rename, TakeName, Served
<1>7. CASE CatalogRefused(c) \/ CatalogTimeout(c) \/ LinkGoneAtRelease(c)
  BY <1>7 DEF CatalogRefused, CatalogTimeout, LinkGoneAtRelease
<1>8. CASE CatalogLinkError(c)
  BY <1>8 DEF CatalogLinkError, LinkError, Dial, DialFail, MayRetry
<1> QED
  BY <1>1, <1>2, <1>3, <1>4, <1>5, <1>6, <1>7, <1>8 DEF CatalogStep

\* A call that loses its link begins anew, or ends with an error: that of its
\* dial, that of the link, or that of the write before the close.
LEMMA LinkErrorEnds ==
  ASSUME Typed, NEW c \in Calls, CatalogLinkError(c)
  PROVE  /\ pc[c] # "done"
         /\ \/ att'[c] = 2 /\ pc'[c] = First(c) /\ res'[c] = res[c]
            \/ /\ pc'[c] = "done"
               /\ \/ c \in outage' /\ res'[c] \in {"dial", "notExist", "permission"}
                  \/ res'[c] = "link"
                  \/ pc[c] = "release" /\ why[c] # "nil" /\ res'[c] = why[c]
<1> DEFINE e == IF pc[c] = "release" THEN why[c] ELSE "link"
           ds == {MapErr(code) : code \in DialCodes}
<1>1. LinkError(c, First(c), e, ds) /\ ~(pc[c] = "release" /\ why[c] = "nil")
  BY Zenon DEF CatalogLinkError
<1>2. ds \subseteq {"dial", "notExist", "permission"}
  BY MapErrCodes DEF DialCodes
<1> HIDE DEF ds
<1> USE DEF Typed, OverCalls, Goto, Finish
<1>3. /\ pc[c] # "done"
      /\ \/ att'[c] = 2 /\ pc'[c] = First(c) /\ res'[c] = res[c]
         \/ pc'[c] = "done" /\ c \in outage' /\ \E d \in ds : res'[c] = d
         \/ pc'[c] = "done" /\ res'[c] = e
  BY <1>1 DEF LinkError, MayRetry, DialFail
<1> QED
  BY <1>1, <1>2, <1>3, Zenon

\* A step of a change is one too.
LEMMA ChangeFrame ==
  ASSUME Typed, NEW c \in Calls, ChangeStep(c), UNCHANGED catalogVars
  PROVE  Frame(c)
<1> USE DEF Typed, OverCalls, Goto, Finish, linkVars, callVars, changeVars, catalogVars, Frame
<1>1. CASE Sample(c)
  BY <1>1 DEF Sample, Answer, Dial, DialFail
<1>2. CASE Stat(c) \/ Set(c) \/ ChangeRefused(c)
  BY <1>2 DEF Stat, Set, ChangeRefused
<1>3. CASE (Enter(c, FirstRequest(c)) \/ Timeout(c)) /\ UNCHANGED changeVars
  BY <1>3 DEF Enter, Timeout
<1>4. CASE LinkError(c, FirstRequest(c), "link", {"dial"}) /\ UNCHANGED changeVars
  BY <1>4 DEF LinkError, Dial, DialFail, MayRetry
<1> QED
  BY <1>1, <1>2, <1>3, <1>4 DEF ChangeStep

\* A call that changes privileges on a volume that carries them returns nil
\* without having set anything only after a dial of its own has failed (FS.Chmod,
\* FS.Chown and supportsUnixPrivs), for any number of calls.
THEOREM NoopNeedsOutage == Spec => []NoopOnlyInOutage
<1> DEFINE Inv == Typed /\ NoopOnlyInOutage
<1>1. Init => Inv
  <2> SUFFICES ASSUME Init PROVE NoopOnlyInOutage
    BY InitTyped
  <2>1. \A c \in Calls : op[c] \in Changes => pc[c] # "done"
    BY DEF Init, RetryInit, Changes, Chtimes, NoCall
  <2> QED
    BY <2>1 DEF NoopOnlyInOutage
<1>2. Inv /\ [Next]_vars => Inv'
  <2> SUFFICES ASSUME Inv, [Next]_vars PROVE NoopOnlyInOutage'
    BY NextTyped
  <2>1. ASSUME NEW c \in Calls, op[c] \in Changes, ChangeStep(c)
        PROVE  NoopOnlyInOutage'
    BY <2>1, ChangeNoop
  <2>2. ASSUME NEW c \in Calls, op[c] \in CatalogOps, CatalogStep(c), UNCHANGED changeVars
        PROVE  NoopOnlyInOutage'
    <3>1. Frame(c) /\ Typed'
      BY <2>2, CatalogFrame, CatalogTyped
    <3> QED
      BY <2>2, <3>1, OpsDiffer DEF Frame, NoopOnlyInOutage, changeVars, Typed
  <2>3. CASE CatalogLinkDown /\ UNCHANGED changeVars
    BY <2>3 DEF CatalogLinkDown, LinkDown, NoopOnlyInOutage, callVars, changeVars
  <2>4. CASE UNCHANGED vars
    BY <2>4 DEF vars, linkVars, callVars, changeVars, NoopOnlyInOutage
  <2> QED
    BY <2>1, <2>2, <2>3, <2>4 DEF Next
<1> QED
  BY <1>1, <1>2, PTL DEF Spec

-----------------------------------------------------------------------------
\* A fork at the server belongs to a call that holds it, that waits for an
\* answer it will not get, or that has timed out; and its link works.
Holds(k) ==
  /\ k.by \in Calls /\ op[k.by] \in CatalogOps
  /\ link = "up" /\ vol[k.by] = gen
  /\ \/ k.by \in late /\ pc[k.by] = "done"
     \/ pc[k.by] = "lost"
     \/ pc[k.by] \in {"write", "read", "close", "release"} /\ fork[k.by] = k.file

ForkInv == \A k \in forks : Holds(k)

\* A fork of another call stays what it is while the link and the forks do.
LEMMA OthersForks ==
  ASSUME NEW c \in Calls, Frame(c), ForkInv, UNCHANGED <<gen, link>>,
         NEW k \in forks, k.by # c
  PROVE  Holds(k)'
BY DEF Frame, ForkInv, Holds

\* The steps of a call that keep the link.
LEMMA CatalogForks ==
  ASSUME Typed, ForkInv, NEW c \in Calls, op[c] \in CatalogOps, CatalogStep(c),
         UNCHANGED <<gen, link>>
  PROVE  ForkInv'
<1>1. Frame(c)
  BY CatalogFrame
<1> SUFFICES ASSUME NEW k \in forks', k \in forks => k.by = c PROVE Holds(k)'
  BY <1>1, OthersForks DEF ForkInv
<1> USE DEF Typed, OverCalls, Goto, Finish, Fails, catalogVars, Holds, ForkInv, Usable
<1>2. CASE Enter(c, First(c)) /\ UNCHANGED catalogVars
  BY <1>2, Zenon DEF Enter
<1>3. CASE CreateFile(c) \/ SetFinderInfo(c)
  BY <1>3, Zenon DEF CreateFile, SetFinderInfo
<1>4. CASE OpenFork(c)
  <2>1. k \notin forks
    BY <1>4, Zenon DEF OpenFork
  <2>2. k = [by |-> c, file |-> tree[op[c].path]]
    BY <1>4, <2>1, Zenon DEF OpenFork
  <2>3. \/ pc'[c] = "lost"
        \/ pc'[c] \in {"write", "release", "read"} /\ fork'[c] = k.file
    BY <1>4, <2>1, <2>2, ZenonT(60) DEF OpenFork, AfterOpen, After
  <2> QED
    BY <1>4, <2>2, <2>3, Zenon DEF OpenFork
<1>5. CASE WriteTarget(c) \/ ReadTarget(c) \/ DataRefused(c)
  BY <1>5, Zenon DEF WriteTarget, ReadTarget, DataRefused, Then, After
<1>6. CASE CloseFork(c)
  BY <1>6, Zenon DEF CloseFork, Mine
<1>7. CASE Mkdir(c)
  BY <1>7, Zenon DEF Mkdir
<1>8. CASE Delete(c) \/ Rename(c)
  BY <1>8, Zenon DEF Delete, Rename, TakeName
<1>9. CASE CatalogRefused(c)
  BY <1>9, Zenon DEF CatalogRefused
<1>10. CASE CatalogTimeout(c)
  BY <1>10, Zenon DEF CatalogTimeout
<1>11. CASE LinkGoneAtRelease(c)
  BY <1>11, Zenon DEF LinkGoneAtRelease
<1>12. CASE CatalogLinkError(c)
  BY <1>12, Zenon DEF CatalogLinkError, LinkError
<1> QED
  BY <1>2, <1>3, <1>4, <1>5, <1>6, <1>7, <1>8, <1>9, <1>10, <1>11, <1>12 DEF CatalogStep

\* A call moves the link only when there is none that works.
LEMMA DialsWhenDown ==
  ASSUME NEW c \in Calls,
         CatalogStep(c) \/ (ChangeStep(c) /\ UNCHANGED catalogVars),
         ~UNCHANGED <<gen, link>>
  PROVE  link # "up" /\ forks' = forks
<1> USE DEF linkVars, callVars, catalogVars
<1>1. ASSUME NEW first, NEW e, NEW ds, LinkError(c, first, e, ds) PROVE link # "up"
  BY <1>1 DEF LinkError, Usable, Finish, Goto
<1>2. CASE CatalogStep(c)
  <2>1. CatalogLinkError(c)
    BY <1>2, Zenon DEF CatalogStep, Enter, CreateFile, OpenFork, WriteTarget, ReadTarget,
       CloseFork, SetFinderInfo, DataRefused, Mkdir, Delete, Rename, TakeName, CatalogRefused,
       CatalogTimeout, LinkGoneAtRelease
  <2> QED
    BY <1>1, <2>1, SMTT(60) DEF CatalogLinkError
<1>3. CASE ChangeStep(c) /\ UNCHANGED catalogVars
  <2>1. Sample(c) \/ LinkError(c, FirstRequest(c), "link", {"dial"})
    BY <1>3 DEF ChangeStep, Stat, Set, ChangeRefused, Enter, Timeout
  <2> QED
    BY <1>1, <1>3, <2>1, Zenon DEF Sample
<1> QED
  BY <1>2, <1>3

\* A call that has returned holds no fork at the server, however it ended, but
\* for one that timed out (Volume.Symlink and Volume.ReadLink close the fork on
\* every path), for any number of calls and of lost links.
THEOREM NoForkLeft == Spec => []ForksReleased
<1> DEFINE Inv == Typed /\ ForkInv
<1>1. Init => Inv
  BY InitTyped DEF Init, CatalogInit, ForkInv
<1>2. Inv /\ [Next]_vars => Inv'
  <2> SUFFICES ASSUME Inv, [Next]_vars PROVE ForkInv'
    BY NextTyped
  <2>1. ASSUME NEW c \in Calls, op[c] \in Changes, ChangeStep(c), UNCHANGED catalogVars
        PROVE  ForkInv'
    <3>1. CASE UNCHANGED <<gen, link>>
      <4>1. Frame(c)
        BY <2>1, ChangeFrame
      <4>2. \A k \in forks : k.by # c
        BY <2>1, OpsDiffer DEF ForkInv, Holds
      <4>3. \A k \in forks : Holds(k)'
        BY <3>1, <4>1, <4>2, OthersForks
      <4> QED
        BY <2>1, <4>3 DEF ForkInv, catalogVars
    <3>2. CASE ~UNCHANGED <<gen, link>>
      BY <2>1, <3>2, DialsWhenDown DEF ForkInv, Holds
    <3> QED
      BY <3>1, <3>2
  <2>2. ASSUME NEW c \in Calls, op[c] \in CatalogOps, CatalogStep(c)
        PROVE  ForkInv'
    <3>1. CASE UNCHANGED <<gen, link>>
      BY <2>2, <3>1, CatalogForks
    <3>2. CASE ~UNCHANGED <<gen, link>>
      BY <2>2, <3>2, DialsWhenDown DEF ForkInv, Holds
    <3> QED
      BY <3>1, <3>2
  <2>3. CASE CatalogLinkDown
    BY <2>3 DEF CatalogLinkDown, ForkInv
  <2>4. CASE UNCHANGED vars
    BY <2>4 DEF vars, linkVars, callVars, catalogVars, ForkInv, Holds
  <2> QED
    BY <2>1, <2>2, <2>3, <2>4 DEF Next
<1>3. Inv => ForksReleased
  BY DEF ForkInv, Holds, ForksReleased
<1> QED
  BY <1>1, <1>2, <1>3, PTL DEF Spec

-----------------------------------------------------------------------------
\* Where a call can be, and what is known there: once Symlink is past its first
\* request that request was served, and its name is there unless somebody took
\* it away; before its first request the first run has changed nothing; and
\* what is returned after a close is what the write was refused with.
HonestCall(c) ==
  LET do == op[c].do IN
  op[c] \in CatalogOps /\ do \in {"symlink", "remove", "rename"} =>
    /\ do = "symlink" => pc[c] \in {"enter", "create", "open", "write", "close", "mark",
                                    "release", "lost", "done"}
    /\ do = "remove" => pc[c] \in {"enter", "delete", "lost", "done"}
    /\ do = "rename" => pc[c] \in {"enter", "move", "lost", "done"}
    /\ pc[c] \in {"open", "write", "close", "mark", "release"} => c \in did
    /\ pc[c] = "release" => why[c] \in {"permission", "DiskFull"}
    /\ att[c] = 1 /\ pc[c] \in {"enter", "create", "delete", "move"} => c \notin did
    /\ att[c] = 1 /\ c \notin disturbed /\ pc[c] \in {"open", "write", "close", "mark"} =>
         tree[op[c].path] # None
    /\ pc[c] # "done" => res[c] = "nil"
    /\ pc[c] = "done" =>
         /\ res[c] = "nil" => c \in did
         /\ c \in did /\ res[c] \in {"exist", "notExist"} =>
              att[c] = 2 \/ c \in disturbed \/ c \in outage

HonestInv == \A c \in Calls : HonestCall(c)

\* A name is taken away only by a step that marks the calls under way.
LEMMA NamesStay ==
  ASSUME Typed, NEW c \in Calls, CatalogStep(c), NEW d \in Calls \ {c},
         d \in Running, d \notin disturbed',
         NEW p \in Paths, tree[p] # None
  PROVE  tree'[p] = tree[p]
<1> USE DEF catalogVars
<1>1. CASE CreateFile(c)
  BY <1>1, Zenon DEF CreateFile, CreateCode, Typed
<1>2. CASE Mkdir(c)
  BY <1>2, Zenon DEF Mkdir, CreateCode, Typed
<1>3. CASE Delete(c) \/ Rename(c)
  BY <1>3 DEF Delete, Rename, TakeName, Served
<1>4. CASE UNCHANGED tree
  BY <1>4
<1> QED
  BY <1>1, <1>2, <1>3, <1>4, Zenon DEF CatalogStep, OpenFork, WriteTarget, ReadTarget,
     CloseFork, SetFinderInfo, DataRefused, CatalogRefused, CatalogTimeout, LinkGoneAtRelease,
     CatalogLinkError

\* What is known of the other calls stays known.
LEMMA OthersHonest ==
  ASSUME Typed, NEW c \in Calls, Frame(c), CatalogStep(c) \/ UNCHANGED tree,
         NEW d \in Calls \ {c}, HonestCall(d)
  PROVE  HonestCall(d)'
<1>1. op[d] \in CatalogOps => op[d].path \in Paths
  BY CatalogAssumption
<1>2. op[d] \in CatalogOps /\ tree[op[d].path] # None /\ pc[d] \notin {"enter", "done"}
        /\ d \notin disturbed' => tree'[op[d].path] # None
  BY <1>1, NamesStay, SMTT(60) DEF Running
<1> QED
  BY <1>2 DEF HonestCall, Frame

\* What is known of a call stays known as it goes on.
LEMMA OwnHonest ==
  ASSUME Typed, NEW c \in Calls, op[c] \in CatalogOps, CatalogStep(c), HonestCall(c)
  PROVE  HonestCall(c)'
<1> USE DEF Typed, OverCalls, Goto, Finish, Fails, linkVars, callVars, catalogVars, HonestCall
<1>1. op'[c] = op[c] /\ op[c].path \in Paths
  BY CatalogFrame, CatalogAssumption DEF Frame
<1>2. ASSUME op[c].do \in {"symlink", "remove", "rename"}
      PROVE  First(c) = IF op[c].do = "symlink" THEN "create"
                        ELSE IF op[c].do = "remove" THEN "delete" ELSE "move"
  BY <1>2 DEF First
<1>3. CASE Enter(c, First(c)) /\ UNCHANGED catalogVars
  BY <1>1, <1>2, <1>3, SMTT(60) DEF Enter
<1>4. CASE CreateFile(c)
  <2>1. <<c, att[c]>> # None
    BY CatalogAssumption, SMTT(60) DEF FileIDs
  <2>2. CASE CreateCode(op[c].path) = "NoErr"
    BY <1>1, <1>4, <2>1, <2>2, Zenon DEF CreateFile, Served, Then, After
  <2>3. CASE CreateCode(op[c].path) # "NoErr"
    BY <1>1, <1>4, <2>3, MapErrCodes, ZenonT(60) DEF CreateFile, CreateCode
  <2> QED
    BY <2>2, <2>3
<1>5. CASE OpenFork(c)
  BY <1>1, <1>5, MapErrCodes DEF OpenFork, OpenCode, AfterOpen, After
<1>6. CASE WriteTarget(c)
  BY <1>1, <1>6 DEF WriteTarget, Then, After
<1>7. CASE ReadTarget(c)
  BY <1>1, <1>7, SMTT(60) DEF ReadTarget
<1>8. CASE CloseFork(c)
  BY <1>1, <1>8, SMTT(60) DEF CloseFork, Then, After
<1>9. CASE SetFinderInfo(c)
  <2>1. CASE tree[op[c].path] # None
    BY <1>1, <1>9, <2>1, SMTT(60) DEF SetFinderInfo, Then, After
  <2>2. CASE tree[op[c].path] = None
    <3>1. pc' = [pc EXCEPT ![c] = "done"] /\ res' = [res EXCEPT ![c] = "notExist"]
      BY <1>9, <2>2, MapErrCodes DEF SetFinderInfo
    <3> QED
      BY <1>1, <1>9, <2>2, <3>1 DEF SetFinderInfo
  <2> QED
    BY <2>1, <2>2, SMTT(60)
<1>10. CASE DataRefused(c)
  <2>1. why'[c] \in {"permission", "DiskFull"}
    BY <1>10, MapErrCodes DEF DataRefused
  <2> QED
    BY <1>1, <1>10, <2>1 DEF DataRefused
<1>11. CASE Mkdir(c)
  BY <1>1, <1>11, SMTT(60) DEF Mkdir
<1>12. CASE Delete(c) \/ Rename(c)
  <2>1. PICK step, code, after :
          /\ step \in {"delete", "move"}
          /\ code \in {"ObjectNotFound", "DirNotEmpty", "DirNotFound", "ObjectExists", "NoErr"}
          /\ TakeName(c, step, code, after)
    BY <1>12, SMTT(60) DEF Delete, Rename, DeleteCode, MoveCode, CreateCode
  <2>2. CASE code = "NoErr"
    BY <1>1, <2>1, <2>2, SMTT(60) DEF TakeName, Served
  <2>3. CASE code # "NoErr"
    BY <1>1, <2>1, <2>3, MapErrCodes, ZenonT(60) DEF TakeName
  <2> QED
    BY <2>2, <2>3
<1>13. CASE CatalogRefused(c)
  BY <1>1, <1>13, MapErrCodes DEF CatalogRefused
<1>14. CASE CatalogTimeout(c)
  BY <1>1, <1>14 DEF CatalogTimeout
<1>15. CASE LinkGoneAtRelease(c)
  BY <1>1, <1>15 DEF LinkGoneAtRelease
<1>16. CASE CatalogLinkError(c)
  <2>1. UNCHANGED <<did, disturbed, why, tree>>
    BY <1>16 DEF CatalogLinkError
  <2> QED
    BY <1>1, <1>2, <1>16, <2>1, LinkErrorEnds
<1> QED
  BY <1>3, <1>4, <1>5, <1>6, <1>7, <1>8, <1>9, <1>10, <1>11, <1>12, <1>13, <1>14,
     <1>15, <1>16, ZenonT(60) DEF CatalogStep

\* All of it holds at first.
LEMMA InitHonest == Init => HonestInv
<1> SUFFICES ASSUME Init, NEW c \in Calls, op[c] \in CatalogOps,
                    op[c].do \in {"symlink", "remove", "rename"}
             PROVE  HonestCall(c)
  BY DEF HonestInv, HonestCall
<1>1. pc[c] = "enter" /\ res[c] = "nil"
  BY DEF Init, RetryInit, NoCall
<1>2. did = {}
  BY DEF Init, CatalogInit
<1> QED
  BY <1>1, <1>2 DEF HonestCall

\* Every step keeps it.
LEMMA NextHonest == Typed /\ HonestInv /\ [Next]_vars => HonestInv'
<1> SUFFICES ASSUME Typed, HonestInv, [Next]_vars PROVE HonestInv'
  OBVIOUS
<1>1. ASSUME NEW c \in Calls, op[c] \in Changes, ChangeStep(c), UNCHANGED catalogVars
      PROVE  HonestInv'
  <2>1. Frame(c) /\ UNCHANGED tree
    BY <1>1, ChangeFrame DEF catalogVars
  <2>2. HonestCall(c)'
    BY <1>1, <2>1, OpsDiffer DEF HonestCall, Frame
  <2> QED
    BY <2>1, <2>2, OthersHonest DEF HonestInv
<1>2. ASSUME NEW c \in Calls, op[c] \in CatalogOps, CatalogStep(c)
      PROVE  HonestInv'
  BY <1>2, CatalogFrame, OthersHonest, OwnHonest, SMTT(60) DEF HonestInv
<1>3. CASE CatalogLinkDown
  BY <1>3, SMTT(60) DEF CatalogLinkDown, LinkDown, callVars, HonestInv, HonestCall
<1>4. CASE UNCHANGED vars
  BY <1>4 DEF vars, linkVars, callVars, catalogVars, HonestInv, HonestCall
<1> QED
  BY <1>1, <1>2, <1>3, <1>4 DEF Next

\* Symlink, Remove and Rename return nil only if their request was served; if
\* it was, "exists" and "does not exist" are returned only by a call that ran
\* again, under which somebody took a name away, or whose dial for a second run
\* was refused (connManager.do retries requests that are not idempotent, and
\* mapErr sees the errors of its dials too), for any number of calls.
THEOREM ResultsAreHonest == Spec => []HonestResult
<1> DEFINE Inv == Typed /\ HonestInv
<1>1. Init => Inv
  BY InitTyped, InitHonest
<1>2. Inv /\ [Next]_vars => Inv'
  BY NextTyped, NextHonest, SMTT(60)
<1>3. Inv => HonestResult
  <2> SUFFICES ASSUME Inv, NEW c \in Calls, pc[c] = "done",
                      op[c].do \in {"symlink", "remove", "rename"}
               PROVE  /\ res[c] = "nil" => c \in did
                      /\ c \in did /\ res[c] \in {"exist", "notExist"} =>
                           att[c] = 2 \/ c \in disturbed \/ c \in outage
    BY DEF HonestResult
  <2>1. op[c] \in CatalogOps
    BY DEF Typed, Changes, Chtimes, NoCall
  <2> QED
    BY <2>1, SMTT(60) DEF HonestInv, HonestCall
<1> QED
  BY <1>1, <1>2, <1>3, PTL DEF Spec

-----------------------------------------------------------------------------
\* Field f, which c has set, was set or written back since by a call that
\* sets it too or had read it before.
Excused(c, f) ==
  \E d \in Calls \ {c} :
    /\ setAt[d] > setAt[c]
    /\ f \in op[d].fields \/ (f \in Privs /\ statAt[d] \in 1 .. setAt[c] - 1)

\* The value of field f is c's, or there is an excuse.
Kept(value, c, f) == value = c \/ Excused(c, f)

Times ==
  /\ statAt \in [Calls -> Nat] /\ read = [c \in Calls |-> read[c]]
  /\ obj = [f \in Fields |-> obj[f]]
  /\ \A c \in Calls : setAt[c] <= clock /\ statAt[c] <= clock

\* What c has set is kept; and it is in what another call has read, and is
\* about to write back, unless that call began to read before.
LostInv ==
  \A c \in Calls : op[c] \in Changes /\ setAt[c] # 0 => \A f \in op[c].fields :
    /\ Kept(obj[f], c, f)
    /\ f \in Privs => \A d \in Calls \ {c} :
         op[d] \in Changes \ {Chtimes} /\ pc[d] = "set" =>
           Kept(read[d][f], c, f) \/ f \in op[d].fields \/ statAt[d] < setAt[c]

\* A call that is about to set privileges has read them.
ReadFirst ==
  \A c \in Calls : /\ op[c] \in Changes \ {Chtimes} /\ pc[c] = "set" => statAt[c] # 0
                   /\ setAt[c] # 0 => op[c] \in Changes

\* An excuse stands, whatever else is set, unless c sets its fields again.
LEMMA ExcuseStands ==
  ASSUME Typed, op' = op, setAt' \in [Calls -> Nat],
         NEW c \in Calls, NEW f, Excused(c, f), setAt'[c] = setAt[c],
         \A d \in Calls : /\ setAt'[d] >= setAt[d]
                          /\ statAt[d] # 0 => statAt'[d] = statAt[d]
  PROVE  Excused(c, f)'
<1>1. PICK d \in Calls \ {c} :
        /\ setAt[d] > setAt[c]
        /\ f \in op[d].fields \/ (f \in Privs /\ statAt[d] \in 1 .. setAt[c] - 1)
  BY DEF Excused
<1>2. setAt'[d] > setAt'[c]
  BY <1>1 DEF Typed
<1>3. f \in op'[d].fields \/ (f \in Privs /\ statAt'[d] \in 1 .. setAt'[c] - 1)
  BY <1>1 DEF Typed
<1> QED
  BY <1>2, <1>3 DEF Excused

\* Stat.
LEMMA StatLost ==
  ASSUME Typed, Times, LostInv, ReadFirst, NEW c \in Calls, op[c] \in Changes, Stat(c)
  PROVE  Times' /\ LostInv' /\ ReadFirst'
<1> USE DEF Typed, OverCalls, Goto, linkVars
<1>1. Times'
  <2>1. clock' \in Nat
    BY DEF Stat
  <2>2. statAt' \in [Calls -> Nat]
    BY <2>1 DEF Stat, Times
  <2>3. \A d \in Calls : setAt'[d] <= clock' /\ statAt'[d] <= clock'
    BY DEF Stat, Times
  <2> QED
    BY <2>2, <2>3, Zenon DEF Stat, Times
<1>2. ReadFirst'
  BY DEF Stat, ReadFirst, Times
<1>3. /\ op' = op /\ setAt' = setAt /\ obj' = obj
      /\ \A d \in Calls : statAt[d] # 0 => statAt'[d] = statAt[d]
      /\ \A d \in Calls \ {c} : pc'[d] = pc[d] /\ read'[d] = read[d] /\ statAt'[d] = statAt[d]
      /\ read'[c] = obj
  BY DEF Stat, Times
<1>4. \A d \in Calls : \A f : Excused(d, f) => Excused(d, f)'
  BY <1>1, <1>3, ExcuseStands
<1>5. LostInv'
  BY <1>3, <1>4 DEF LostInv, Kept
<1> QED
  BY <1>1, <1>2, <1>5

\* SetUnixPrivs and SetModTime.
LEMMA SetLost ==
  ASSUME Typed, Times, LostInv, ReadFirst, NEW c \in Calls, op[c] \in Changes, Set(c)
  PROVE  Times' /\ LostInv' /\ ReadFirst'
<1> USE DEF Typed, OverCalls, Goto, linkVars
<1>1. /\ op' = op /\ statAt' = statAt /\ read' = read /\ clock' = clock + 1
      /\ setAt' = [setAt EXCEPT ![c] = clock + 1]
      /\ pc[c] = "set" /\ pc'[c] # "set" /\ \A d \in Calls \ {c} : pc'[d] = pc[d]
  BY DEF Set
<1>2. /\ setAt' \in [Calls -> Nat] /\ setAt'[c] = clock + 1
      /\ \A d \in Calls : setAt'[d] >= setAt[d]
      /\ \A d \in Calls \ {c} : setAt'[d] = setAt[d]
  BY <1>1 DEF Times
<1>3. Times'
  <2>1. obj' = [f \in Fields |-> obj'[f]]
    BY DEF Set, Times
  <2>2. \A d \in Calls : setAt'[d] <= clock' /\ statAt'[d] <= clock'
    BY <1>1, <1>2 DEF Times
  <2> QED
    BY <1>1, <2>1, <2>2 DEF Times
<1>4. ReadFirst'
  BY <1>1, <1>2 DEF ReadFirst
<1>5. \A d \in Calls \ {c} : \A f : Excused(d, f) => Excused(d, f)'
  BY <1>1, <1>2, ExcuseStands
<1>6. op[c].fields \subseteq Fields /\ (op[c] # Chtimes => op[c].fields \subseteq Privs)
  BY DEF Changes, Chtimes, Fields, Privs
<1>7. ASSUME NEW f \in op[c].fields PROVE obj'[f] = c
  <2>1. CASE op[c] = Chtimes
    BY <2>1 DEF Set, Chtimes, Times, Fields
  <2>2. CASE op[c] # Chtimes
    BY <1>6, <2>2 DEF Set, NewPrivs, Fields
  <2> QED
    BY <2>1, <2>2
<1>8. ASSUME NEW f \in Fields \ op[c].fields
      PROVE  obj'[f] = IF op[c] # Chtimes /\ f \in Privs THEN read[c][f] ELSE obj[f]
  <2>1. CASE op[c] = Chtimes
    BY <2>1 DEF Set, Chtimes, Times, Fields
  <2>2. CASE op[c] # Chtimes
    BY <2>2 DEF Set, NewPrivs, Fields
  <2> QED
    BY <2>1, <2>2
<1>9. ASSUME NEW e \in Calls \ {c}, op[e] \in Changes, setAt[e] # 0, NEW f \in op[e].fields
      PROVE  Kept(obj[f], e, f)'
  <2>1. f \in Fields
    BY <1>9 DEF Changes, Chtimes, Fields, Privs
  <2>2. setAt'[c] > setAt'[e]
    BY <1>1, <1>2 DEF Times
  <2>3. CASE f \in op[c].fields
    BY <1>1, <2>2, <2>3 DEF Kept, Excused
  <2>4. CASE f \notin op[c].fields /\ op[c] # Chtimes /\ f \in Privs
    <3>1. Kept(read[c][f], e, f) \/ statAt[c] < setAt[e]
      BY <1>1, <1>9, <2>4 DEF LostInv
    <3>2. CASE Kept(read[c][f], e, f)
      BY <1>5, <1>8, <2>1, <2>4, <3>2 DEF Kept
    <3>3. CASE statAt[c] < setAt[e]
      <4>1. statAt[c] # 0
        BY <1>1, <2>4 DEF ReadFirst
      <4>2. statAt'[c] \in 1 .. setAt'[e] - 1
        BY <1>1, <1>2, <3>3, <4>1 DEF Times
      <4> QED
        BY <2>2, <2>4, <4>2 DEF Kept, Excused
    <3> QED
      BY <3>1, <3>2, <3>3
  <2>5. CASE f \notin op[c].fields /\ ~(op[c] # Chtimes /\ f \in Privs)
    BY <1>5, <1>8, <1>9, <2>1, <2>5 DEF LostInv, Kept
  <2> QED
    BY <2>3, <2>4, <2>5
<1>10. LostInv'
  <2> SUFFICES ASSUME NEW e \in Calls, op'[e] \in Changes, setAt'[e] # 0,
                      NEW f \in op'[e].fields
               PROVE  /\ Kept(obj[f], e, f)'
                      /\ f \in Privs => \A d \in Calls \ {e} :
                           op'[d] \in Changes \ {Chtimes} /\ pc'[d] = "set" =>
                             \/ Kept(read[d][f], e, f)' \/ f \in op'[d].fields
                             \/ statAt'[d] < setAt'[e]
    BY DEF LostInv
  <2>1. CASE e = c
    BY <1>1, <1>2, <1>7, <2>1 DEF Kept, Times
  <2>2. CASE e # c
    <3>1. Kept(obj[f], e, f)'
      BY <1>1, <1>2, <1>9, <2>2
    <3>2. ASSUME f \in Privs, NEW d \in Calls \ {e}, op'[d] \in Changes \ {Chtimes},
                 pc'[d] = "set"
          PROVE  Kept(read[d][f], e, f)' \/ f \in op'[d].fields \/ statAt'[d] < setAt'[e]
      BY <1>1, <1>2, <1>5, <2>2, <3>2, SMTT(60) DEF LostInv, Kept
    <3> QED
      BY <3>1, <3>2
  <2> QED
    BY <2>1, <2>2
<1> QED
  BY <1>3, <1>4, <1>10

\* A step that neither reads nor sets, and brings no call before a set.
LEMMA QuietLost ==
  ASSUME Times, LostInv, ReadFirst, UNCHANGED changeVars, op' = op,
         \A d \in Calls : op[d] \in Changes \ {Chtimes} /\ pc'[d] = "set" => pc[d] = "set"
  PROVE  Times' /\ LostInv' /\ ReadFirst'
<1> USE DEF changeVars
<1>1. Times'
  BY DEF Times
<1>2. ReadFirst'
  BY DEF ReadFirst
<1>3. \A d \in Calls : \A f : Excused(d, f) => Excused(d, f)'
  BY SMTT(60) DEF Excused
<1>4. LostInv'
  BY <1>3 DEF LostInv, Kept
<1> QED
  BY <1>1, <1>2, <1>4

\* What a call has set stays until somebody sets it again, or until a call
\* that had read before writes back what it read (FS.Chmod and FS.Chown read
\* and write back all privileges; FS.Chtimes the time alone), for any number
\* of calls, of which each may run twice.
THEOREM UpdatesLostOnlyToOverlap == Spec => []LostOnlyToOverlap
<1> DEFINE Inv == Typed /\ Times /\ LostInv /\ ReadFirst
<1>1. Init => Inv
  <2> SUFFICES ASSUME Init PROVE Times /\ LostInv /\ ReadFirst
    BY InitTyped
  <2>1. Times
    BY DEF Init, ChangeInit, Times
  <2>2. \A c \in Calls : setAt[c] = 0 /\ pc[c] # "set"
    BY DEF Init, ChangeInit, RetryInit
  <2> QED
    BY <2>1, <2>2 DEF LostInv, ReadFirst
<1>2. Inv /\ [Next]_vars => Inv'
  <2> SUFFICES ASSUME Inv, [Next]_vars PROVE Times' /\ LostInv' /\ ReadFirst'
    BY NextTyped
  <2>1. ASSUME NEW c \in Calls, op[c] \in Changes, ChangeStep(c), UNCHANGED catalogVars
        PROVE  Times' /\ LostInv' /\ ReadFirst'
    <3>1. CASE Stat(c) \/ Set(c)
      BY <2>1, <3>1, StatLost, SetLost
    <3>2. CASE ~(Stat(c) \/ Set(c))
      <4>1. UNCHANGED changeVars
        BY <2>1, <3>2, ZenonT(60) DEF ChangeStep, Sample, ChangeRefused
      <4>2. op[c] # Chtimes => pc'[c] # "set"
        BY <2>1, <3>2 DEF ChangeStep, Sample, Answer, ChangeRefused, Enter, Timeout, LinkError,
             FirstRequest, Goto, Finish, Typed, OverCalls
      <4>3. op' = op /\ \A d \in Calls \ {c} : pc'[d] = pc[d]
        BY <2>1, ChangeFrame DEF Frame
      <4> QED
        BY <4>1, <4>2, <4>3, QuietLost, SMTT(60)
    <3> QED
      BY <3>1, <3>2
  <2>2. ASSUME NEW c \in Calls, op[c] \in CatalogOps, CatalogStep(c), UNCHANGED changeVars
        PROVE  Times' /\ LostInv' /\ ReadFirst'
    <3>1. op' = op /\ \A d \in Calls \ {c} : pc'[d] = pc[d]
      BY <2>2, CatalogFrame DEF Frame
    <3> QED
      BY <2>2, <3>1, OpsDiffer, QuietLost
  <2>3. CASE CatalogLinkDown /\ UNCHANGED changeVars
    BY <2>3, QuietLost DEF CatalogLinkDown, LinkDown, callVars
  <2>4. CASE UNCHANGED vars
    BY <2>4, QuietLost, SMTT(60) DEF vars, callVars
  <2> QED
    BY <2>1, <2>2, <2>3, <2>4 DEF Next
<1>3. Inv => LostOnlyToOverlap
  BY DEF LostInv, ReadFirst, Kept, Excused, LostOnlyToOverlap
<1> QED
  BY <1>1, <1>2, <1>3, PTL DEF Spec
-----------------------------------------------------------------------------
(* A file marked as a link holds a whole target, and a call of Symlink or  *)
(* MkdirAll that returns nil has had its effect, unless a name was taken   *)
(* away under a call.                                                      *)

\* What these proofs need of the types.
Shapes ==
  /\ data = [f \in FileIDs |-> data[f]] /\ marked \subseteq FileIDs
  /\ tree \in [Paths -> FileIDs \cup {None, Dir}]
  /\ OverCalls(got) /\ comp \in [Calls -> Nat] /\ wasLink \subseteq Calls

\* Where a call of Readlink or MkdirAll can be.
At(c) ==
  op[c] \in CatalogOps =>
    /\ op[c].do = "readlink" => pc[c] \in {"enter", "open", "read", "release", "lost", "done"}
    /\ op[c].do = "mkdirAll" => pc[c] \in {"enter", "mkdir", "lost", "done"}

\* The types hold at first.
LEMMA InitShapes == Init => Shapes
<1> SUFFICES ASSUME Init PROVE Shapes
  OBVIOUS
<1>1. tree \in [Paths -> FileIDs \cup {None, Dir}]
  BY FSOpsAssumption DEF Init, FileIDs
<1>2. data = [f \in FileIDs |-> data[f]] /\ marked \subseteq FileIDs
  BY DEF Init, CatalogInit, FileIDs
<1>3. OverCalls(got) /\ comp \in [Calls -> Nat] /\ wasLink \subseteq Calls
  BY DEF Init, CatalogInit, OverCalls
<1> QED
  BY <1>1, <1>2, <1>3 DEF Shapes

\* A step on the catalog keeps them.
LEMMA CatalogShapes ==
  ASSUME Typed, Shapes, NEW c \in Calls, op[c] \in CatalogOps, CatalogStep(c)
  PROVE  Shapes'
<1> USE DEF Shapes, OverCalls, catalogVars
<1>1. CASE CreateFile(c)
  <2>1. <<c, att[c]>> \in FileIDs
    BY DEF FileIDs, Typed
  <2> QED
    BY <1>1, <2>1, Zenon DEF CreateFile
<1>2. CASE OpenFork(c) \/ ReadTarget(c)
  BY <1>2 DEF OpenFork, ReadTarget
<1>3. CASE WriteTarget(c)
  BY <1>3 DEF WriteTarget
<1>4. CASE CloseFork(c) \/ DataRefused(c)
  BY <1>4 DEF CloseFork, DataRefused
<1>5. CASE SetFinderInfo(c)
  BY <1>5 DEF SetFinderInfo
<1>6. CASE Mkdir(c)
  <2>1. tree' \in [Paths -> FileIDs \cup {None, Dir}]
    BY <1>6, Zenon DEF Mkdir
  <2>2. comp' = comp \/ comp' = [comp EXCEPT ![c] = @ + 1]
    BY <1>6, Zenon DEF Mkdir, NextComponent, ComponentErr
  <2>3. comp' \in [Calls -> Nat]
    BY <2>2
  <2> QED
    BY <1>6, <2>1, <2>3 DEF Mkdir
<1>7. CASE Delete(c) \/ Rename(c)
  <2>1. op[c].path \in Paths
    BY CatalogAssumption
  <2> QED
    BY <1>7, <2>1, Zenon DEF Delete, Rename, TakeName
<1>8. CASE UNCHANGED catalogVars \/ CatalogTimeout(c)
  BY <1>8 DEF CatalogTimeout
<1> QED
  BY <1>1, <1>2, <1>3, <1>4, <1>5, <1>6, <1>7, <1>8 DEF CatalogStep, CatalogRefused,
     LinkGoneAtRelease, CatalogLinkError

\* A call of Readlink or MkdirAll stays in its own requests.
LEMMA CatalogAt ==
  ASSUME Typed, NEW c \in Calls, op[c] \in CatalogOps, CatalogStep(c), At(c)
  PROVE  At(c)'
<1> USE DEF Typed, OverCalls, Goto, Finish, Fails, At
<1>1. op' = op
  BY CatalogFrame DEF Frame
<1>2. /\ op[c].do = "readlink" => First(c) = "open"
      /\ op[c].do = "mkdirAll" => First(c) = "mkdir"
  BY DEF First
<1>3. CASE Enter(c, First(c)) \/ CatalogLinkError(c)
  BY <1>1, <1>2, <1>3 DEF Enter, CatalogLinkError, LinkError
<1>4. CASE CreateFile(c) \/ SetFinderInfo(c) \/ WriteTarget(c)
  BY <1>1, <1>4, Zenon DEF CreateFile, SetFinderInfo, WriteTarget
<1>5. CASE OpenFork(c)
  BY <1>1, <1>5 DEF OpenFork, AfterOpen
<1>6. CASE ReadTarget(c) \/ CloseFork(c) \/ DataRefused(c)
  BY <1>1, <1>6 DEF ReadTarget, CloseFork, DataRefused
<1>7. CASE Mkdir(c)
  BY <1>1, <1>7, Zenon DEF Mkdir, NextComponent, ComponentErr
<1>8. CASE Delete(c) \/ Rename(c)
  BY <1>1, <1>8, Zenon DEF Delete, Rename, TakeName
<1>9. CASE CatalogRefused(c) \/ CatalogTimeout(c) \/ LinkGoneAtRelease(c)
  BY <1>1, <1>9 DEF CatalogRefused, CatalogTimeout, LinkGoneAtRelease
<1> QED
  BY <1>3, <1>4, <1>5, <1>6, <1>7, <1>8, <1>9 DEF CatalogStep

-----------------------------------------------------------------------------
\* A file holds nothing or the target of the call that created it, and a file
\* that is marked holds something.
FileInv ==
  /\ data[Old] = Old
  /\ \A c \in Calls, a \in {1, 2} : data[<<c, a>>] \in {None, c}
  /\ \A f \in marked : data[f] # None

\* Symlink works on the file that it created, which it found empty.
SymlinkInv(c) ==
  op[c] \in CatalogOps /\ op[c].do = "symlink" =>
    /\ pc[c] \in {"open", "write", "close", "mark"} => tree[op[c].path] = <<c, att[c]>>
    /\ pc[c] \in {"write", "close"} => fork[c] = <<c, att[c]>>
    /\ pc[c] \in {"close", "mark"} => data[<<c, att[c]>>] = c
    /\ pc[c] \in {"enter", "create", "open"} => data[<<c, att[c]>>] = None
    /\ att[c] = 1 => data[<<c, 2>>] = None

\* A call that has opened a marked file is a Readlink, which stays with that
\* file and, once it has read, has a whole target.
ReadlinkInv(c) ==
  c \in wasLink =>
    /\ op[c] \in CatalogOps /\ op[c].do = "readlink" /\ pc[c] # "enter"
    /\ pc[c] # "done" => tree[op[c].path] \in marked
    /\ pc[c] = "read" => fork[c] = tree[op[c].path]
    /\ pc[c] = "release" /\ why[c] = "nil" => got[c] \in Whole
    /\ pc[c] = "done" /\ res[c] = "nil" => got[c] \in Whole

\* What a step of call c leaves alone of the files and the other calls.
FileFrame(c) ==
  /\ marked \subseteq marked'
  /\ \A d \in Calls \ {c} : /\ got'[d] = got[d] /\ comp'[d] = comp[d]
                            /\ d \in wasLink' <=> d \in wasLink
  /\ \A f \in FileIDs \ {<<c, att[c]>>} : data'[f] = data[f]

\* A marked file holds a whole target.
LEMMA MarkedWhole ==
  ASSUME Shapes, FileInv, NEW f \in marked
  PROVE  data[f] \in Whole
<1>1. CASE f = Old
  BY <1>1 DEF FileInv, Whole
<1>2. CASE f # Old
  <2>1. PICK c \in Calls, a \in {1, 2} : f = <<c, a>>
    BY <1>2 DEF Shapes, FileIDs
  <2> QED
    BY <2>1, Zenon DEF FileInv, Whole
<1> QED
  BY <1>1, <1>2

\* A step on the catalog leaves the files of others alone.
LEMMA CatalogFileFrame ==
  ASSUME Typed, Shapes, NEW c \in Calls, op[c] \in CatalogOps, CatalogStep(c),
         At(c), HonestCall(c), SymlinkInv(c)
  PROVE  FileFrame(c)
<1> USE DEF Shapes, OverCalls, FileFrame, catalogVars
<1>1. CASE WriteTarget(c)
  <2>1. op[c].do = "symlink"
    BY <1>1, CatalogAssumption DEF WriteTarget, At, HonestCall
  <2>2. fork[c] = <<c, att[c]>>
    BY <1>1, <2>1 DEF WriteTarget, SymlinkInv
  <2> QED
    BY <1>1, <2>2 DEF WriteTarget
<1>2. CASE OpenFork(c) \/ ReadTarget(c)
  BY <1>2 DEF OpenFork, ReadTarget
<1>3. CASE Mkdir(c)
  BY <1>3, Zenon DEF Mkdir, NextComponent, ComponentErr
<1>4. CASE SetFinderInfo(c)
  BY <1>4 DEF SetFinderInfo
<1>5. CASE UNCHANGED <<marked, got, comp, wasLink, data>>
  BY <1>5
<1> QED
  BY <1>1, <1>2, <1>3, <1>4, <1>5, Zenon DEF CatalogStep, CreateFile, CloseFork, DataRefused,
     Delete, Rename, TakeName, CatalogRefused, CatalogTimeout, LinkGoneAtRelease,
     CatalogLinkError

\* What is known of the links of other calls stays known.
LEMMA OthersLinks ==
  ASSUME Typed, Shapes, NEW c \in Calls, CatalogStep(c), Frame(c), FileFrame(c),
         disturbed' = {}, NEW d \in Calls \ {c}, SymlinkInv(d), ReadlinkInv(d), FileInv
  PROVE  SymlinkInv(d)' /\ ReadlinkInv(d)'
<1>1. op[d] \in CatalogOps => op[d].path \in Paths
  BY CatalogAssumption
<1>2. op[d] \in CatalogOps /\ tree[op[d].path] # None /\ pc[d] \notin {"enter", "done"}
        => tree'[op[d].path] = tree[op[d].path]
  BY <1>1, NamesStay DEF Running
<1>3. \A a \in {1, 2} : <<d, a>> \in FileIDs \ {<<c, att[c]>>} /\ <<d, a>> # None
  BY CatalogAssumption DEF FileIDs
<1>4. None \notin marked
  BY CatalogAssumption DEF Shapes
<1>5. /\ op' = op /\ pc'[d] = pc[d] /\ att'[d] = att[d] /\ fork'[d] = fork[d]
      /\ att[d] \in {1, 2} /\ \A a \in {1, 2} : data'[<<d, a>>] = data[<<d, a>>]
  BY <1>3 DEF Frame, FileFrame, Typed
<1>6. SymlinkInv(d)'
  BY <1>2, <1>3, <1>5, ZenonT(60) DEF SymlinkInv
<1>7. ReadlinkInv(d)'
  BY <1>2, <1>4, Zenon DEF ReadlinkInv, Frame, FileFrame
<1> QED
  BY <1>6, <1>7

\* Files change only by the requests of the call that created them.
LEMMA CatalogFiles ==
  ASSUME Typed, Shapes, NEW c \in Calls, op[c] \in CatalogOps, CatalogStep(c),
         At(c), HonestCall(c), SymlinkInv(c), FileInv
  PROVE  FileInv'
<1> USE DEF catalogVars
<1>1. Old \in FileIDs /\ <<c, att[c]>> \in FileIDs /\ <<c, att[c]>> # Old /\ c # None
  BY CatalogAssumption DEF FileIDs, Typed
<1>2. CASE WriteTarget(c)
  <2>1. op[c].do = "symlink"
    BY <1>2, CatalogAssumption, Zenon DEF WriteTarget, At, HonestCall
  <2>2. fork[c] = <<c, att[c]>> /\ data[<<c, att[c]>>] \in {None, c}
    BY <1>2, <2>1, ZenonT(60) DEF WriteTarget, SymlinkInv, FileInv, Typed
  <2>3. data' = [data EXCEPT ![<<c, att[c]>>] = c] /\ marked' = marked
    BY <1>2, <2>2, Zenon DEF WriteTarget
  <2>4. data'[<<c, att[c]>>] = c /\ \A f \in FileIDs \ {<<c, att[c]>>} : data'[f] = data[f]
    BY <1>1, <2>3, Zenon DEF Shapes
  <2>5. data'[Old] = Old
    BY <1>1, <2>4 DEF FileInv
  <2>6. \A d \in Calls, a \in {1, 2} : data'[<<d, a>>] \in {None, d}
    BY <2>4, Zenon DEF FileInv, FileIDs
  <2>7. \A f \in marked' : data'[f] # None
    BY <1>1, <2>3, <2>4, Zenon DEF FileInv, Shapes
  <2> QED
    BY <2>5, <2>6, <2>7, Zenon DEF FileInv
<1>3. CASE SetFinderInfo(c)
  <2>1. op[c].do = "symlink"
    BY <1>3, CatalogAssumption, ZenonT(60) DEF SetFinderInfo, At, HonestCall
  <2>2. tree[op[c].path] = <<c, att[c]>> /\ data[<<c, att[c]>>] # None
    BY <1>1, <1>3, <2>1 DEF SetFinderInfo, SymlinkInv
  <2>3. FileInv'
    <3>1. data' = data /\ marked' \subseteq marked \cup {<<c, att[c]>>}
      BY <1>3, <2>2, Zenon DEF SetFinderInfo
    <3> QED
      BY <2>2, <3>1, Zenon DEF FileInv
  <2> QED
    BY <2>3
<1>4. CASE UNCHANGED <<data, marked>>
  BY <1>4, Zenon DEF FileInv
<1> QED
  BY <1>2, <1>3, <1>4, Zenon DEF CatalogStep, CreateFile, OpenFork, ReadTarget, CloseFork,
     DataRefused, Mkdir, Delete, Rename, TakeName, CatalogRefused, CatalogTimeout,
     LinkGoneAtRelease, CatalogLinkError

\* Symlink keeps to its file.
LEMMA OwnSymlink ==
  ASSUME Typed, Shapes, NEW c \in Calls, op[c] \in CatalogOps, op[c].do = "symlink",
         CatalogStep(c), HonestCall(c), SymlinkInv(c), FileInv
  PROVE  SymlinkInv(c)'
<1> USE DEF Typed, OverCalls, Goto, Finish, Fails, catalogVars, SymlinkInv
<1>1. op' = op /\ op[c].path \in Paths
  BY CatalogFrame, CatalogAssumption DEF Frame
<1>2. First(c) = "create"
  BY DEF First
<1>3. <<c, 1>> \in FileIDs /\ <<c, 2>> \in FileIDs /\ <<c, 1>> # <<c, 2>>
  BY DEF FileIDs
<1>4. CASE Enter(c, First(c)) /\ UNCHANGED catalogVars
  BY <1>1, <1>2, <1>4 DEF Enter
<1>5. CASE CreateFile(c)
  BY <1>1, <1>5, ZenonT(60) DEF CreateFile, Then, After
<1>6. CASE OpenFork(c)
  BY <1>1, <1>6, Zenon DEF OpenFork, AfterOpen, After
<1>7. CASE WriteTarget(c)
  <2>1. /\ pc[c] = "write" /\ fork[c] = <<c, att[c]>> /\ data[<<c, att[c]>>] \in {None, c}
        /\ <<c, att[c]>> \in FileIDs
    BY <1>3, <1>7 DEF WriteTarget, FileInv
  <2>2. data' = [data EXCEPT ![<<c, att[c]>>] = c]
    BY <1>7, <2>1, Zenon DEF WriteTarget
  <2>3. data'[<<c, att[c]>>] = c /\ (att[c] = 1 => data'[<<c, 2>>] = None)
    BY <1>3, <2>1, <2>2 DEF Shapes
  <2> QED
    BY <1>1, <1>7, <2>1, <2>3 DEF WriteTarget, Then, After
<1>8. CASE CloseFork(c)
  BY <1>1, <1>8 DEF CloseFork, Then, After
<1>9. CASE SetFinderInfo(c)
  BY <1>1, <1>9 DEF SetFinderInfo, Then, After
<1>10. CASE DataRefused(c)
  BY <1>1, <1>10 DEF DataRefused
<1>11. CASE ReadTarget(c) \/ Mkdir(c) \/ Delete(c) \/ Rename(c)
  BY <1>11, Zenon DEF ReadTarget, Mkdir, Delete, Rename, TakeName, HonestCall
<1>12. CASE CatalogRefused(c) \/ CatalogTimeout(c) \/ LinkGoneAtRelease(c)
  BY <1>1, <1>12 DEF CatalogRefused, CatalogTimeout, LinkGoneAtRelease
<1>13. CASE CatalogLinkError(c)
  BY <1>1, <1>2, <1>13 DEF CatalogLinkError, LinkError, MayRetry
<1> QED
  BY <1>4, <1>5, <1>6, <1>7, <1>8, <1>9, <1>10, <1>11, <1>12, <1>13, Zenon DEF CatalogStep

\* Readlink keeps to the marked file that it opened.
LEMMA OwnReadlink ==
  ASSUME Typed, Shapes, NEW c \in Calls, op[c] \in CatalogOps, CatalogStep(c),
         At(c), HonestCall(c), SymlinkInv(c), ReadlinkInv(c), FileInv
  PROVE  ReadlinkInv(c)'
<1> USE DEF Typed, OverCalls, Goto, Finish, Fails, catalogVars
<1>1. op' = op
  BY CatalogFrame DEF Frame
<1>2. CASE OpenFork(c)
  <2>1. op[c].do \in {"symlink", "readlink"}
    BY <1>2, CatalogAssumption DEF OpenFork, At, HonestCall
  <2>2. CASE op[c].do = "symlink"
    <3>1. tree[op[c].path] \notin marked
      BY <1>2, <2>2, Zenon DEF OpenFork, SymlinkInv, FileInv
    <3> QED
      BY <1>1, <1>2, <2>2, <3>1 DEF OpenFork, ReadlinkInv
  <2>3. CASE op[c].do = "readlink" /\ tree[op[c].path] \in marked
    <3>1. data[tree[op[c].path]] # None
      BY <2>3 DEF FileInv
    <3>2. /\ tree' = tree /\ marked' = marked
          /\ \/ pc'[c] = "read" /\ fork'[c] = tree[op[c].path]
             \/ pc'[c] = "lost"
             \/ pc'[c] = "done" /\ res'[c] # "nil"
      BY <1>2, <2>3, <3>1, MapErrCodes DEF OpenFork, AfterOpen, OpenCode
    <3> QED
      BY <1>1, <2>3, <3>2 DEF ReadlinkInv
  <2>4. CASE op[c].do = "readlink" /\ tree[op[c].path] \notin marked
    BY <1>1, <1>2, <2>4, SMTT(60) DEF OpenFork, ReadlinkInv
  <2> QED
    BY <2>1, <2>2, <2>3, <2>4, Zenon
<1>3. CASE ~OpenFork(c)
  <2>1. wasLink' = wasLink
    BY <1>3, Zenon DEF CatalogStep, CreateFile, WriteTarget, ReadTarget, CloseFork,
       SetFinderInfo, DataRefused, Mkdir, Delete, Rename, TakeName, CatalogRefused,
       CatalogTimeout, LinkGoneAtRelease, CatalogLinkError
  <2> SUFFICES ASSUME c \in wasLink PROVE ReadlinkInv(c)'
    BY <2>1 DEF ReadlinkInv
  <2>2. /\ op[c].do = "readlink" /\ pc[c] \in {"open", "read", "release", "lost", "done"}
        /\ First(c) = "open"
    BY DEF ReadlinkInv, At, First
  <2>3. CASE ReadTarget(c)
    <3>1. got' = [got EXCEPT ![c] = data[fork[c]]] /\ data[fork[c]] \in Whole
      BY <2>3, MarkedWhole DEF ReadTarget, ReadlinkInv
    <3>2. got'[c] \in Whole
      BY <3>1 DEF Shapes
    <3> QED
      BY <1>1, <2>1, <2>2, <2>3, <3>2 DEF ReadTarget, ReadlinkInv
  <2>4. CASE CloseFork(c)
    BY <1>1, <2>1, <2>2, <2>4 DEF CloseFork, ReadlinkInv
  <2>5. CASE DataRefused(c)
    <3>1. why'[c] # "nil"
      BY <2>5, MapErrCodes DEF DataRefused
    <3> QED
      BY <1>1, <2>1, <2>2, <2>5, <3>1 DEF DataRefused, ReadlinkInv
  <2>6. CASE CatalogRefused(c)
    BY <1>1, <2>1, <2>2, <2>6, MapErrCodes DEF CatalogRefused, ReadlinkInv
  <2>7. CASE CatalogTimeout(c)
    BY <1>1, <2>1, <2>2, <2>7 DEF CatalogTimeout, ReadlinkInv
  <2>8. CASE LinkGoneAtRelease(c)
    BY <1>1, <2>1, <2>2, <2>8 DEF LinkGoneAtRelease, ReadlinkInv
  <2>9. CASE CatalogLinkError(c)
    BY <1>1, <2>1, <2>2, <2>9, LinkErrorEnds, Zenon DEF CatalogLinkError, ReadlinkInv
  <2> QED
    BY <1>3, <2>2, <2>3, <2>4, <2>5, <2>6, <2>7, <2>8, <2>9, ZenonT(60) DEF CatalogStep, Enter,
       CreateFile, WriteTarget, SetFinderInfo, Mkdir, Delete, Rename, TakeName
<1> QED
  BY <1>2, <1>3

-----------------------------------------------------------------------------
\* The invariant of the links: as long as nobody was disturbed.
LinkInv ==
  /\ Typed /\ Shapes /\ HonestInv
  /\ \A c \in Calls : At(c)
  /\ disturbed = {} => FileInv /\ \A c \in Calls : SymlinkInv(c) /\ ReadlinkInv(c)

\* The invariant holds at first.
LEMMA InitLinks == Init => LinkInv
<1> SUFFICES ASSUME Init PROVE LinkInv
  OBVIOUS
<1>1. \A c \in Calls : op[c] \in CatalogOps => pc[c] = "enter"
  <2> SUFFICES ASSUME NEW c \in Calls, op[c] \in CatalogOps PROVE pc[c] = "enter"
    OBVIOUS
  <2>1. op[c].do \in {"symlink", "readlink", "mkdirAll", "remove", "rename"}
    BY CatalogAssumption
  <2> QED
    BY <2>1 DEF Init, RetryInit, NoCall
<1>2. /\ data = [f \in FileIDs |-> IF f = Old THEN Old ELSE None]
      /\ marked = {Old} /\ wasLink = {}
  BY DEF Init, CatalogInit
<1>3. \A c \in Calls, a \in {1, 2} : <<c, a>> \in FileIDs \ {Old}
  BY CatalogAssumption DEF FileIDs
<1>4. FileInv
  BY <1>2, <1>3, CatalogAssumption DEF FileInv, FileIDs
<1>5. \A c \in Calls : At(c) /\ ReadlinkInv(c)
  BY <1>1, <1>2 DEF At, ReadlinkInv
<1>6. \A c \in Calls : SymlinkInv(c)
  <2>1. \A c \in Calls : att[c] = 1
    BY DEF Init, RetryInit
  <2> QED
    BY <1>1, <1>2, <1>3, <2>1 DEF SymlinkInv
<1> QED
  BY <1>4, <1>5, <1>6, InitTyped, InitShapes, InitHonest DEF LinkInv

\* Every step keeps it.
LEMMA NextLinks == LinkInv /\ [Next]_vars => LinkInv'
<1> SUFFICES ASSUME LinkInv, [Next]_vars PROVE LinkInv'
  OBVIOUS
<1>1. Typed' /\ HonestInv'
  BY NextTyped, NextHonest DEF LinkInv
<1> DEFINE Rest == /\ Shapes /\ \A c \in Calls : At(c)
                   /\ disturbed = {} =>
                        FileInv /\ \A c \in Calls : SymlinkInv(c) /\ ReadlinkInv(c)
<1>2. ASSUME NEW c \in Calls, op[c] \in CatalogOps, CatalogStep(c) PROVE Rest'
  <2>1. Frame(c)
    BY <1>2, CatalogFrame DEF LinkInv
  <2>2. Shapes'
    BY <1>2, CatalogShapes DEF LinkInv
  <2>3. \A d \in Calls : At(d)'
    <3>1. At(c)'
      BY <1>2, CatalogAt DEF LinkInv
    <3> QED
      BY <2>1, <3>1 DEF LinkInv, At, Frame
  <2>4. ASSUME disturbed' = {}
        PROVE  FileInv' /\ \A d \in Calls : SymlinkInv(d)' /\ ReadlinkInv(d)'
    <3>1. FileInv /\ \A d \in Calls : SymlinkInv(d) /\ ReadlinkInv(d)
      BY <2>1, <2>4 DEF LinkInv, Frame
    <3>2. Typed /\ Shapes /\ At(c) /\ HonestCall(c)
      BY DEF LinkInv, HonestInv
    <3>3. FileFrame(c)
      BY <1>2, <3>1, <3>2, CatalogFileFrame
    <3>4. FileInv'
      BY <1>2, <3>1, <3>2, CatalogFiles
    <3>5. SymlinkInv(c)'
      <4>1. CASE op[c].do = "symlink"
        BY <1>2, <3>1, <3>2, <4>1, OwnSymlink
      <4>2. CASE op[c].do # "symlink"
        BY <2>1, <4>2 DEF SymlinkInv, Frame
      <4> QED
        BY <4>1, <4>2
    <3>6. ReadlinkInv(c)'
      BY <1>2, <3>1, <3>2, OwnReadlink
    <3>7. \A d \in Calls \ {c} : SymlinkInv(d)' /\ ReadlinkInv(d)'
      BY <1>2, <2>1, <2>4, <3>1, <3>2, <3>3, OthersLinks
    <3> QED
      BY <3>4, <3>5, <3>6, <3>7, Zenon
  <2> QED
    BY <2>2, <2>3, <2>4
<1>3. ASSUME NEW c \in Calls, op[c] \in Changes, ChangeStep(c), UNCHANGED catalogVars
      PROVE  Rest'
  <2>1. Frame(c) /\ op[c] \notin CatalogOps
    BY <1>3, ChangeFrame, OpsDiffer DEF LinkInv
  <2>2. Shapes' /\ (FileInv => FileInv')
    BY <1>3 DEF LinkInv, Shapes, FileInv, OverCalls, catalogVars
  <2>3. \A d \in Calls : At(d)'
    <3> SUFFICES ASSUME NEW d \in Calls PROVE At(d)'
      OBVIOUS
    <3>1. CASE d = c
      BY <2>1, <3>1, Zenon DEF At, Frame
    <3>2. CASE d # c
      BY <2>1, <3>2, Zenon DEF LinkInv, At, Frame
    <3> QED
      BY <3>1, <3>2
  <2>4. \A d \in Calls : SymlinkInv(d) => SymlinkInv(d)'
    <3> SUFFICES ASSUME NEW d \in Calls, SymlinkInv(d) PROVE SymlinkInv(d)'
      OBVIOUS
    <3>1. CASE d = c
      BY <2>1, <3>1, Zenon DEF SymlinkInv, Frame
    <3>2. CASE d # c
      <4>1. tree' = tree /\ data' = data
        BY <1>3, Zenon DEF catalogVars
      <4> QED
        BY <2>1, <3>2, <4>1, Zenon DEF SymlinkInv, Frame
    <3> QED
      BY <3>1, <3>2
  <2>5. \A d \in Calls : ReadlinkInv(d) => ReadlinkInv(d)'
    BY <1>3, <2>1, Zenon DEF ReadlinkInv, Frame, catalogVars
  <2>6. disturbed' = disturbed
    BY <1>3, Zenon DEF catalogVars
  <2> QED
    BY <2>2, <2>3, <2>4, <2>5, <2>6 DEF LinkInv
<1>4. ASSUME CatalogLinkDown \/ UNCHANGED vars PROVE Rest'
  <2>1. UNCHANGED <<callVars, tree, data, marked, fork, comp, why, got, wasLink, disturbed>>
    BY <1>4 DEF CatalogLinkDown, LinkDown, vars, callVars, catalogVars
  <2>2. Shapes' /\ (FileInv => FileInv') /\ \A d \in Calls : At(d)'
    BY <2>1, Zenon DEF LinkInv, Shapes, FileInv, At, OverCalls, callVars
  <2>3. \A d \in Calls : /\ SymlinkInv(d) => SymlinkInv(d)'
                         /\ ReadlinkInv(d) => ReadlinkInv(d)'
    BY <2>1 DEF SymlinkInv, ReadlinkInv, callVars
  <2> QED
    BY <2>1, <2>2, <2>3 DEF LinkInv
<1>5. Rest'
  BY <1>2, <1>3, <1>4 DEF Next
<1> QED
  BY <1>1, <1>5 DEF LinkInv

\* Unless a name is taken away under a running call, a file that is marked as
\* a link holds a whole target, whatever fails on the way, and so does what a
\* Readlink that found the mark returns (Volume.Symlink marks last), for any
\* number of calls.
THEOREM LinksWhole == Spec => []LinksAreWhole
<1>1. LinkInv => LinksAreWhole
  <2> SUFFICES ASSUME LinkInv, disturbed = {} PROVE LinksAreWhole
    BY DEF LinksAreWhole
  <2>1. \A f \in marked : data[f] \in Whole
    BY MarkedWhole DEF LinkInv
  <2>2. \A c \in wasLink : pc[c] = "done" /\ res[c] = "nil" => got[c] \in Whole
    BY DEF LinkInv, ReadlinkInv, Shapes
  <2> QED
    BY <2>1, <2>2 DEF LinksAreWhole
<1> QED
  BY <1>1, InitLinks, NextLinks, PTL DEF Spec

-----------------------------------------------------------------------------
\* The first i components of MkdirAll's path.
Prefix(c, i) == SubSeq(op[c].path, 1, i)

\* MkdirAll has passed the components before the one it is at: the last of
\* them is there, and the others, in which it was found, are directories.
MkdirInv(c) ==
  op[c] \in CatalogOps /\ op[c].do = "mkdirAll" /\ pc[c] # "done" =>
    /\ comp[c] \in 1 .. Len(op[c].path)
    /\ \A i \in 1 .. comp[c] - 2 : tree[Prefix(c, i)] = Dir
    /\ comp[c] > 1 => tree[Prefix(c, comp[c] - 1)] # None

\* Prefixes are paths, and prefixes of each other.
LEMMA Prefixes ==
  ASSUME NEW c \in Calls, op[c] \in CatalogOps, NEW n \in 1 .. Len(op[c].path)
  PROVE  /\ Prefix(c, n) \in Paths /\ Len(Prefix(c, n)) = n
         /\ \A i \in 1 .. n - 1 : /\ SubSeq(Prefix(c, n), 1, i) = Prefix(c, i)
                                 /\ Prefix(c, i) # Prefix(c, n) /\ Prefix(c, i) \in Paths
         /\ Prefix(c, Len(op[c].path)) = op[c].path
<1>1. op[c].path \in Paths /\ op[c].path \in Seq(STRING)
  BY CatalogAssumption
<1>2. \A i \in 1 .. Len(op[c].path) : Prefix(c, i) \in Paths /\ Len(Prefix(c, i)) = i
  BY <1>1, CatalogAssumption DEF Prefix
<1>3. \A i \in 1 .. n - 1 : SubSeq(Prefix(c, n), 1, i) = Prefix(c, i)
  BY <1>1 DEF Prefix
<1>4. Prefix(c, Len(op[c].path)) = op[c].path
  BY <1>1 DEF Prefix
<1> QED
  BY <1>1, <1>2, <1>3, <1>4

\* A component that MkdirAll has got past is there, and those before it are
\* directories.
LEMMA MkdirPasses ==
  ASSUME Typed, Shapes, NEW c \in Calls, op[c] \in CatalogOps, op[c].do = "mkdirAll",
         Mkdir(c), MkdirInv(c),
         comp'[c] # comp[c] \/ (pc'[c] = "done" /\ res'[c] = "nil")
  PROVE  /\ \A i \in 1 .. comp[c] - 1 : tree'[Prefix(c, i)] = Dir
         /\ tree'[Prefix(c, comp[c])] # None
<1> DEFINE n == comp[c]
           q == Prefix(c, n)
<1>1. n \in 1 .. Len(op[c].path)
  BY DEF Mkdir, MkdirInv
<1>2. /\ q \in Paths /\ Len(q) = n
      /\ \A i \in 1 .. n - 1 : SubSeq(q, 1, i) = Prefix(c, i) /\ Prefix(c, i) # q
  BY <1>1, Prefixes, ZenonT(60)
<1>3. CreateCode(q) \in {"NoErr", "ObjectExists"}
  BY MapErrCodes, Zenon DEF Mkdir, ComponentErr, NextComponent, CreateCode, Prefix, Goto,
     Finish, Typed, OverCalls
<1>4. HasParent(q) /\ (CreateCode(q) # "NoErr" => tree[q] # None)
  BY <1>3 DEF CreateCode
<1>5. \A i \in 1 .. n - 1 : tree[Prefix(c, i)] = Dir
  <2>1. ASSUME n > 1 PROVE tree[Prefix(c, n - 1)] = Dir
    <3>1. SubSeq(q, 1, n - 1) = Prefix(c, n - 1)
      BY <1>1, <1>2, <2>1
    <3>2. tree[SubSeq(q, 1, n - 1)] = Dir
      BY <1>1, <1>2, <1>4, <2>1 DEF HasParent
    <3> QED
      BY <3>1, <3>2, Zenon
  <2>2. \A i \in 1 .. n - 2 : tree[Prefix(c, i)] = Dir
    BY Zenon DEF Mkdir, MkdirInv
  <2> QED
    BY <1>1, <2>1, <2>2
<1>6. IF CreateCode(q) = "NoErr" THEN tree' = [tree EXCEPT ![q] = Dir] ELSE tree' = tree
  BY Zenon DEF Mkdir, Prefix, Fails
<1>7. Dir # None
  BY CatalogAssumption
<1>8. tree'[q] # None /\ \A p \in Paths \ {q} : tree'[p] = tree[p]
  <2> HIDE DEF q
  <2> QED
    BY <1>2, <1>4, <1>6, <1>7 DEF Shapes
<1>9. \A i \in 1 .. n - 1 : Prefix(c, i) \in Paths \ {q}
  BY <1>1, Prefixes
<1> QED
  BY <1>5, <1>8, <1>9, Zenon

\* MkdirAll goes on from what it has passed.
LEMMA OwnMkdir ==
  ASSUME Typed, Shapes, NEW c \in Calls, op[c] \in CatalogOps, op[c].do = "mkdirAll",
         CatalogStep(c), At(c), MkdirInv(c)
  PROVE  MkdirInv(c)'
<1>1. op' = op
  BY CatalogFrame, Zenon DEF Frame
<1>2. CASE Mkdir(c)
  <2> SUFFICES ASSUME pc'[c] # "done" PROVE MkdirInv(c)'
    BY SMTT(60) DEF MkdirInv
  <2>1. comp[c] \in 1 .. Len(op[c].path)
    BY <1>2, ZenonT(60) DEF Mkdir, MkdirInv
  <2>2. CASE comp'[c] # comp[c]
    <3>1. comp'[c] = comp[c] + 1 /\ comp[c] # Len(op[c].path)
      BY <1>2, <2>2, Zenon DEF Mkdir, ComponentErr, NextComponent, Shapes
    <3>2. /\ \A i \in 1 .. comp[c] - 1 : tree'[Prefix(c, i)] = Dir
          /\ tree'[Prefix(c, comp[c])] # None
      BY <1>2, <2>2, MkdirPasses
    <3>3. comp'[c] - 2 = comp[c] - 1 /\ comp'[c] - 1 = comp[c]
      BY <2>1, <3>1
    <3>4. comp'[c] \in 1 .. Len(op[c].path)
      BY <2>1, <3>1
    <3>5. /\ \A i \in 1 .. comp'[c] - 2 : tree'[Prefix(c, i)] = Dir
          /\ tree'[Prefix(c, comp'[c] - 1)] # None
      BY <3>2, <3>3, Zenon
    <3> QED
      BY <1>1, <3>4, <3>5, Zenon DEF MkdirInv, Prefix
  <2>3. CASE comp'[c] = comp[c]
    <3>1. ASSUME NEW i \in 1 .. comp[c] - 1 PROVE tree'[Prefix(c, i)] = tree[Prefix(c, i)]
      <4>1. Prefix(c, i) \in Paths /\ Prefix(c, i) # Prefix(c, comp[c])
        BY <2>1, Prefixes, SMTT(60)
      <4>2. tree' = tree \/ tree' = [tree EXCEPT ![Prefix(c, comp[c])] = Dir]
        BY <1>2, ZenonT(60) DEF Mkdir, Prefix
      <4> QED
        BY <4>1, <4>2 DEF Shapes
    <3>2. /\ \A i \in 1 .. comp[c] - 2 : tree[Prefix(c, i)] = Dir
          /\ comp[c] > 1 => tree[Prefix(c, comp[c] - 1)] # None
      <4>1. pc[c] # "done"
        BY <1>2 DEF Mkdir
      <4> QED
        BY <4>1, Zenon DEF MkdirInv
    <3>3. /\ \A i \in 1 .. comp[c] - 2 : tree'[Prefix(c, i)] = Dir
          /\ comp[c] > 1 => tree'[Prefix(c, comp[c] - 1)] # None
      <4>1. /\ \A i \in 1 .. comp[c] - 2 : i \in 1 .. comp[c] - 1
            /\ comp[c] > 1 => comp[c] - 1 \in 1 .. comp[c] - 1
        BY <2>1, SMTT(30)
      <4> QED
        BY <3>1, <3>2, <4>1, Zenon
    <3> QED
      BY <1>1, <2>1, <2>3, <3>3 DEF MkdirInv, Prefix
  <2> QED
    BY <2>2, <2>3, ZenonT(60)
<1>3. CASE pc[c] \in {"enter", "lost", "done"} \/ CatalogRefused(c) \/ CatalogTimeout(c)
             \/ CatalogLinkError(c)
  <2>1. tree' = tree /\ comp' = comp /\ (pc[c] = "done" => pc'[c] = "done")
    BY <1>3, ZenonT(60) DEF CatalogStep, Enter, CreateFile, OpenFork, WriteTarget, ReadTarget,
       CloseFork, SetFinderInfo, DataRefused, Mkdir, Delete, Rename, TakeName, CatalogRefused,
       CatalogTimeout, LinkGoneAtRelease, CatalogLinkError, LinkError, catalogVars
  <2> QED
    BY <1>1, <2>1 DEF MkdirInv, Prefix
<1> QED
  BY <1>2, <1>3, Zenon DEF At, CatalogStep, Enter, CreateFile, OpenFork, WriteTarget,
     ReadTarget, CloseFork, SetFinderInfo, DataRefused, Delete, Rename, TakeName,
     LinkGoneAtRelease

\* What MkdirAll has passed stays while other calls go on.
LEMMA OthersMkdir ==
  ASSUME Typed, NEW c \in Calls, CatalogStep(c), Frame(c), FileFrame(c),
         disturbed' = {}, NEW d \in Calls \ {c}, MkdirInv(d)
  PROVE  MkdirInv(d)'
<1> SUFFICES ASSUME op[d] \in CatalogOps, op[d].do = "mkdirAll", pc[d] # "done"
             PROVE  MkdirInv(d)'
  BY ZenonT(60) DEF MkdirInv, Frame
<1>1. comp[d] \in 1 .. Len(op[d].path)
  BY Zenon DEF MkdirInv
<1>2. ASSUME NEW i \in 1 .. comp[d] - 1, tree[Prefix(d, i)] # None
      PROVE  tree'[Prefix(d, i)] = tree[Prefix(d, i)]
  <2>1. Prefix(d, i) \in Paths
    BY <1>1, Prefixes, SMTT(60)
  <2>2. d \in Running
    BY <1>1, <1>2 DEF Running
  <2> QED
    BY <1>2, <2>1, <2>2, NamesStay
<1>3. Dir # None
  BY CatalogAssumption, Zenon
<1>4. /\ \A i \in 1 .. comp[d] - 2 : tree'[Prefix(d, i)] = Dir
      /\ comp[d] > 1 => tree'[Prefix(d, comp[d] - 1)] # None
  BY <1>1, <1>2, <1>3 DEF MkdirInv
<1> QED
  BY <1>1, <1>4, ZenonT(60) DEF MkdirInv, Prefix, Frame, FileFrame

\* The invariant with what MkdirAll has passed.
EffectInv == LinkInv /\ (disturbed = {} => \A c \in Calls : MkdirInv(c))

\* The invariant holds at first.
LEMMA InitEffects == Init => EffectInv
<1> SUFFICES ASSUME Init, NEW c \in Calls, op[c] \in CatalogOps PROVE MkdirInv(c)
  BY InitLinks DEF EffectInv, MkdirInv
<1>1. comp[c] = 1
  BY DEF Init, CatalogInit
<1>2. op[c].path \in Seq(STRING) /\ op[c].path # <<>>
  BY CatalogAssumption
<1>3. 1 \in 1 .. Len(op[c].path)
  BY <1>2
<1> QED
  BY <1>1, <1>3 DEF MkdirInv

\* Every step keeps it.
LEMMA NextEffects == EffectInv /\ [Next]_vars => EffectInv'
<1> SUFFICES ASSUME EffectInv, [Next]_vars, disturbed' = {} PROVE \A d \in Calls : MkdirInv(d)'
  BY NextLinks DEF EffectInv
<1>1. ASSUME NEW c \in Calls, op[c] \in CatalogOps, CatalogStep(c)
      PROVE  \A d \in Calls : MkdirInv(d)'
  <2>1. Typed /\ Shapes /\ At(c) /\ HonestCall(c)
    BY DEF EffectInv, LinkInv, HonestInv
  <2>2. Frame(c)
    BY <1>1, <2>1, CatalogFrame
  <2>3. SymlinkInv(c) /\ \A d \in Calls : MkdirInv(d)
    BY <2>2 DEF EffectInv, LinkInv, Frame
  <2>4. FileFrame(c)
    BY <1>1, <2>1, <2>3, CatalogFileFrame
  <2>5. MkdirInv(c)'
    <3>1. CASE op[c].do = "mkdirAll"
      BY <1>1, <2>1, <2>3, <3>1, OwnMkdir
    <3>2. CASE op[c].do # "mkdirAll"
      BY <2>2, <3>2 DEF MkdirInv, Frame
    <3> QED
      BY <3>1, <3>2
  <2>6. \A d \in Calls \ {c} : MkdirInv(d)'
    BY <1>1, <2>1, <2>2, <2>3, <2>4, OthersMkdir, SMTT(60)
  <2> QED
    BY <2>5, <2>6
<1>2. ASSUME NEW c \in Calls, op[c] \in Changes, ChangeStep(c), UNCHANGED catalogVars
      PROVE  \A d \in Calls : MkdirInv(d)'
  <2>1. Frame(c) /\ op[c] \notin CatalogOps
    BY <1>2, ChangeFrame, OpsDiffer DEF EffectInv, LinkInv
  <2>2. \A d \in Calls : MkdirInv(d)
    BY <1>2 DEF EffectInv, catalogVars
  <2> QED
    BY <1>2, <2>1, <2>2 DEF MkdirInv, Prefix, Frame, catalogVars
<1>3. ASSUME CatalogLinkDown \/ UNCHANGED vars PROVE \A d \in Calls : MkdirInv(d)'
  <2>1. UNCHANGED <<callVars, tree, comp, disturbed>>
    BY <1>3, SMTT(60) DEF CatalogLinkDown, LinkDown, vars, callVars, catalogVars
  <2> QED
    BY <2>1 DEF EffectInv, MkdirInv, Prefix, callVars
<1> QED
  BY <1>1, <1>2, <1>3 DEF Next

\* Symlink returns nil only from its last request, which marks its file.
LEMMA SymlinkEffect ==
  ASSUME Typed, Shapes, NEW c \in Calls, op[c] \in CatalogOps, op[c].do = "symlink",
         CatalogStep(c), HonestCall(c), SymlinkInv(c),
         pc[c] # "done", pc'[c] = "done", res'[c] = "nil"
  PROVE  tree'[op[c].path] \in marked' /\ data'[tree'[op[c].path]] = c
<1> USE DEF Typed, OverCalls, Goto, Finish, Fails, catalogVars
<1>1. pc[c] \in {"enter", "create", "open", "write", "close", "mark", "release", "lost"}
  BY DEF HonestCall
<1>2. First(c) = "create"
  BY DEF First
<1>3. ~Enter(c, First(c)) /\ ~CatalogLinkError(c)
  BY <1>2, LinkErrorEnds DEF Enter
<1>4. ~CreateFile(c)
  BY MapErrCodes, Zenon DEF CreateFile, CreateCode, Then, After
<1>5. ~OpenFork(c)
  BY MapErrCodes DEF OpenFork, OpenCode, AfterOpen, After
<1>6. ~WriteTarget(c) /\ ~DataRefused(c)
  BY SMTT(60) DEF WriteTarget, DataRefused, Then, After
<1>7. ~CloseFork(c)
  BY SMTT(60) DEF CloseFork, Then, After, HonestCall
<1>8. ~ReadTarget(c) /\ ~Mkdir(c) /\ ~Delete(c) /\ ~Rename(c)
  BY <1>1, ZenonT(60) DEF ReadTarget, Mkdir, Delete, Rename, TakeName
<1>9. ~CatalogRefused(c) /\ ~CatalogTimeout(c) /\ ~LinkGoneAtRelease(c)
  BY MapErrCodes DEF CatalogRefused, CatalogTimeout, LinkGoneAtRelease, HonestCall
<1>10. SetFinderInfo(c)
  BY <1>3, <1>4, <1>5, <1>6, <1>7, <1>8, <1>9 DEF CatalogStep
<1>11. tree[op[c].path] = <<c, att[c]>> /\ <<c, att[c]>> \in FileIDs /\ data[<<c, att[c]>>] = c
  BY <1>10, Zenon DEF SetFinderInfo, SymlinkInv, FileIDs
<1> QED
  BY <1>10, <1>11, CatalogAssumption, ZenonT(60) DEF SetFinderInfo

\* MkdirAll returns nil only once it has passed its last component.
LEMMA MkdirEffect ==
  ASSUME Typed, Shapes, NEW c \in Calls, op[c] \in CatalogOps, op[c].do = "mkdirAll",
         CatalogStep(c), At(c), MkdirInv(c),
         pc[c] # "done", pc'[c] = "done", res'[c] = "nil"
  PROVE  /\ \A i \in 1 .. Len(op[c].path) - 1 : tree'[SubSeq(op[c].path, 1, i)] = Dir
         /\ tree'[op[c].path] # None
<1> USE DEF Typed, OverCalls, Goto, Finish, Fails, catalogVars
<1>1. First(c) = "mkdir"
  BY DEF First
<1>2. Mkdir(c)
  <2>1. ~CatalogLinkError(c)
    BY <1>1, LinkErrorEnds
  <2> QED
    BY <1>1, <2>1, MapErrCodes, ZenonT(60) DEF At, CatalogStep, Enter, CreateFile, OpenFork,
       WriteTarget, ReadTarget, CloseFork, SetFinderInfo, DataRefused, Delete, Rename,
       TakeName, CatalogRefused, CatalogTimeout, LinkGoneAtRelease
<1>3. /\ \A i \in 1 .. comp[c] - 1 : tree'[Prefix(c, i)] = Dir
      /\ tree'[Prefix(c, comp[c])] # None
  BY <1>2, MkdirPasses, SMTT(60)
<1>4. comp[c] = Len(op[c].path)
  BY <1>2, MapErrCodes, Zenon DEF Mkdir, ComponentErr, NextComponent, CreateCode
<1>5. Prefix(c, Len(op[c].path)) = op[c].path
  BY <1>4, Prefixes DEF MkdirInv
<1> QED
  BY <1>3, <1>4, <1>5, Zenon DEF Prefix

\* Unless a name is taken away under a running call, a call of Symlink that
\* returns nil has left a marked link with its target, and a call of MkdirAll
\* has left directories but for the last name (FS.Symlink and FS.MkdirAll),
\* whatever the other calls do and however often the link was lost.
THEOREM EffectIsThere == Spec => NilMeansDone
<1>1. EffectInv /\ [Next]_vars =>
        [\A c \in Calls :
           pc[c] # "done" /\ pc'[c] = "done" /\ res'[c] = "nil" /\ disturbed' = {} =>
             LET p == op[c].path IN
             /\ op[c].do = "symlink" => tree'[p] \in marked' /\ data'[tree'[p]] = c
             /\ op[c].do = "mkdirAll" =>
                  /\ \A i \in 1 .. Len(p) - 1 : tree'[SubSeq(p, 1, i)] = Dir
                  /\ tree'[p] # None
        ]_<<pc, res, tree, data, marked, disturbed>>
  <2> SUFFICES ASSUME EffectInv, [Next]_vars, NEW c \in Calls,
                      pc[c] # "done", pc'[c] = "done", res'[c] = "nil", disturbed' = {},
                      op[c].do \in {"symlink", "mkdirAll"}
               PROVE  LET p == op[c].path IN
                      /\ op[c].do = "symlink" => tree'[p] \in marked' /\ data'[tree'[p]] = c
                      /\ op[c].do = "mkdirAll" =>
                           /\ \A i \in 1 .. Len(p) - 1 : tree'[SubSeq(p, 1, i)] = Dir
                           /\ tree'[p] # None
    BY Zenon
  <2>1. Typed /\ Shapes /\ At(c) /\ HonestCall(c)
    BY Zenon DEF EffectInv, LinkInv, HonestInv
  <2>2. op[c] \in CatalogOps
    BY <2>1, SMTT(60) DEF Typed, Changes, Chtimes, NoCall
  <2>3. CatalogStep(c)
    <3>1. ASSUME NEW d \in Calls, CatalogStep(d) PROVE d = c
      BY <2>1, <3>1, CatalogFrame, Zenon DEF Frame
    <3>2. ASSUME NEW d \in Calls, op[d] \in Changes, ChangeStep(d), UNCHANGED catalogVars
          PROVE  FALSE
      <4>1. Frame(d) /\ d # c
        BY <2>1, <2>2, <3>2, ChangeFrame, OpsDiffer, Zenon
      <4> QED
        BY <4>1, Zenon DEF Frame
    <3>3. ~CatalogLinkDown /\ ~UNCHANGED vars
      BY ZenonT(60) DEF CatalogLinkDown, LinkDown, vars, callVars
    <3> QED
      BY <3>1, <3>2, <3>3, SMTT(60) DEF Next
  <2>4. disturbed = {}
    BY <2>1, <2>3, CatalogFrame, Zenon DEF Frame
  <2>5. SymlinkInv(c) /\ MkdirInv(c)
    BY <2>4, Zenon DEF EffectInv, LinkInv
  <2> QED
    BY <2>1, <2>2, <2>3, <2>5, SymlinkEffect, MkdirEffect, Zenon
<1> QED
  BY <1>1, InitEffects, NextEffects, PTL DEF Spec, NilMeansDone
=============================================================================
