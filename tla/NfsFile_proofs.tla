--------------------------- MODULE NfsFile_proofs ---------------------------
(***************************************************************************)
(* Proofs about NfsFile, for any number of Files, paths, calls,            *)
(* generations and faults.                                                 *)
(***************************************************************************)
EXTENDS NfsFile, FiniteSetTheorems, TLAPS

PCs == Requests \cup {"new", "ok", "lost", "reconnect", "idle", "closed", "failed"}

TypeInv ==
  /\ gen \in Nat /\ link \in {"up", "broken", "dead"}
  /\ IsFiniteSet(forks) /\ \A k \in forks : k.id \in Nat
  /\ pc \in [Files -> PCs]
  /\ call \in [Files -> {"OpenFile", "IO", "Close"}]
  /\ fork \in [Files -> Nat \cup {None}]
  /\ fgen \in [Files -> Nat \cup {None}]
  /\ att \in [Files -> {1, 2}]
  /\ vol \in [Files -> Nat \cup {None}]
  /\ hits \in [Files -> Nat]
  /\ res \in [Files -> {"nil", "exists", "afp", "timeout", "link", "dial"}]

\* Generations only grow: a File's fork is of the generation its call runs on
\* or of an older one.
GenInv ==
  \A f \in Files :
    /\ fork[f] = None <=> fgen[f] = None
    /\ pc[f] = "new" => fgen[f] = None
    /\ vol[f] = None => fgen[f] = None /\ ~InCall(f)
    /\ vol[f] # None => vol[f] <= gen
    /\ fgen[f] # None => fgen[f] <= vol[f]

\* What a call knows at each point.
CallInv ==
  \A f \in Files :
    /\ pc[f] \in {"trunc", "io", "close"} => fgen[f] = vol[f]
    /\ pc[f] \in {"create", "open"} => fgen[f] # vol[f]
    /\ pc[f] = "reconnect" => ~IsAlive(vol[f]) /\ att[f] = 1
    /\ pc[f] = "close" => call[f] = "Close"
    /\ pc[f] \in {"create", "trunc"} => call[f] = "OpenFile"
    /\ pc[f] = "open" => call[f] # "Close"
    /\ pc[f] = "io" => call[f] = "IO"

\* A session's forks have different IDs and do not survive its link.
SrvInv ==
  /\ link # "up" => forks = {}
  /\ \A j, k \in forks : j.id = k.id => j = k

\* A fork open at the server is one its File knows of, or its answer was lost.
OwnInv ==
  \A f \in Files : f \notin doubt =>
    \A k \in forks : k.by = f =>
      /\ \/ fork[f] = k.id /\ fgen[f] = gen
         \/ pc[f] = "lost" /\ vol[f] = gen
      /\ ~(pc[f] = "ok" /\ call[f] = "Close")

\* A fork a File knows of on the living link is open, until it is closed.
HeldInv ==
  \A f \in Files :
    fork[f] # None /\ Usable(fgen[f]) /\ ~(call[f] = "Close" /\ pc[f] \in {"ok", "lost"})
      => \E k \in forks : k.id = fork[f] /\ k.by = f

\* Every generation a call has outlived broke while it ran, and so has the link
\* that is broken now.
HitInv ==
  \A f \in Files :
    /\ InCall(f) => hits[f] >= (att[f] - 1) + (gen - vol[f]) + IF link = "up" THEN 0 ELSE 1
    /\ ~InCall(f) /\ res[f] = "link" => hits[f] >= att[f]

Inv == TypeInv /\ GenInv /\ CallInv /\ SrvInv /\ OwnInv /\ HeldInv /\ HitInv

USE NfsFileAssumption

LEMMA InitInv == Init => Inv
<1> SUFFICES ASSUME Init PROVE Inv
  OBVIOUS
<1>1. TypeInv
  BY FS_EmptySet DEF Init, TypeInv, PCs
<1>2. GenInv /\ CallInv /\ SrvInv /\ OwnInv /\ HeldInv /\ HitInv
  BY DEF Init, GenInv, CallInv, SrvInv, OwnInv, HeldInv, HitInv, InCall
<1> QED BY <1>1, <1>2 DEF Inv

-----------------------------------------------------------------------------
(* Three shapes of step that leave the link and the server's forks alone. *)

quiet == <<gen, link, forks>>

\* A call begins.
LEMMA DoStep ==
  ASSUME Inv, NEW f \in Files, NEW c \in {"OpenFile", "IO", "Close"}, NEW fl, Do(f, c, fl),
         pc[f] = IF c = "OpenFile" THEN "new" ELSE "idle"
  PROVE  Inv'
<1> USE DEF Inv, Do, srvVars
<1> DEFINE start == FnStart(f, c, gen, fl)
<1>1. /\ start \in {"create", "open", "io", "close", "ok"}
      /\ start = "close" => c = "Close" /\ fgen[f] = gen
      /\ start = "ok" => c = "Close" /\ fgen[f] # gen
      /\ start = "io" => c = "IO" /\ fgen[f] = gen
      /\ start = "create" => c = "OpenFile" /\ fgen[f] # gen
      /\ start = "open" => c # "Close" /\ fgen[f] # gen
  BY DEF FnStart, NeedsFork, TypeInv, GenInv
<1> HIDE DEF start
<1>2. TypeInv'
  BY <1>1 DEF TypeInv, PCs, Requests, start
<1>3. GenInv'
  BY <1>1 DEF TypeInv, GenInv, InCall, start
<1>4. CallInv'
  BY <1>1 DEF TypeInv, CallInv, Usable, IsAlive, start
<1>5. SrvInv'
  BY DEF SrvInv
<1>6. OwnInv'
  BY <1>1 DEF TypeInv, OwnInv, start
<1>7. HeldInv'
  BY <1>1 DEF TypeInv, HeldInv, Usable, start
<1>8. HitInv'
  BY <1>1 DEF TypeInv, HitInv, InCall, start
<1> QED BY <1>2, <1>3, <1>4, <1>5, <1>6, <1>7, <1>8

\* A call returns.
LEMMA FinishStep ==
  ASSUME Inv, NEW f \in Files, NEW r \in {"nil", "exists", "afp", "timeout", "link", "dial"},
         Finish(f, r), UNCHANGED quiet, InCall(f),
         r = "link" => ~Usable(vol[f]),
         pc[f] = "lost" \/ (call[f] = "Close" /\ pc[f] # "ok") => r = "timeout" \/ ~Usable(vol[f]),
         call[f] = "OpenFile" /\ r # "nil" =>
           pc[f] \in {"create", "open"} \/ (pc[f] = "trunc" /\ r = "afp") \/ r = "timeout"
           \/ ~Usable(vol[f])
  PROVE  Inv'
<1> USE DEF Inv, Finish, Keeps, quiet, doVars
<1>1. /\ End(f, r) \in {"closed", "failed", "idle"}
      /\ End(f, r) # "idle" => call[f] = "Close" \/ (call[f] = "OpenFile" /\ r # "nil")
      /\ call[f] = "Close" => End(f, r) # "idle"
  BY DEF End
<1>2. TypeInv'
  BY <1>1 DEF TypeInv, PCs
<1>3. GenInv'
  BY <1>1 DEF TypeInv, GenInv, InCall
<1>4. CallInv'
  BY <1>1 DEF TypeInv, CallInv, Usable, IsAlive
<1>5. SrvInv'
  BY DEF SrvInv
<1>6. OwnInv'
  <2> SUFFICES ASSUME NEW g \in Files, g \notin doubt', NEW k \in forks, k.by = g
               PROVE  /\ \/ fork'[g] = k.id /\ fgen'[g] = gen
                         \/ pc'[g] = "lost" /\ vol[g] = gen
                      /\ ~(pc'[g] = "ok" /\ call[g] = "Close")
    BY DEF OwnInv
  <2>1. /\ link = "up" /\ g \notin doubt /\ ~(pc[g] = "ok" /\ call[g] = "Close")
        /\ \/ fork[g] = k.id /\ fgen[g] = gen
           \/ pc[g] = "lost" /\ vol[g] = gen
    BY DEF SrvInv, OwnInv
  <2>2. CASE g # f
    BY <2>1, <2>2 DEF TypeInv
  <2>3. CASE g = f
    <3>1. r # "timeout" /\ ~(pc[f] = "trunc" /\ r = "afp")
      BY <2>3
    <3>2. vol[f] = gen
      BY <2>1, <2>3 DEF TypeInv, GenInv, InCall
    <3>3. Usable(vol[f])
      BY <2>1, <3>2 DEF Usable
    <3>4. fork[f] = k.id /\ fgen[f] = gen /\ call[f] # "Close"
      BY <2>1, <2>3, <3>1, <3>3
    <3>5. pc[f] \notin {"create", "open"}
      BY <3>2, <3>4 DEF CallInv
    <3>6. End(f, r) = "idle"
      BY <1>1, <3>1, <3>3, <3>4, <3>5
    <3> QED BY <2>3, <3>4, <3>6 DEF TypeInv
  <2> QED BY <2>2, <2>3
<1>7. HeldInv'
  BY <1>1 DEF TypeInv, GenInv, HeldInv, Usable, InCall
<1>8. HitInv'
  <2>1. ~Usable(vol[f]) => hits[f] >= att[f]
    BY DEF TypeInv, GenInv, HitInv, InCall, Usable
  <2> QED BY <1>1, <2>1 DEF TypeInv, HitInv, InCall
<1> QED BY <1>2, <1>3, <1>4, <1>5, <1>6, <1>7, <1>8

\* A call goes on.
LEMMA PcStep ==
  ASSUME Inv, NEW f \in Files, NEW s \in {"open", "ok", "lost", "reconnect"},
         pc' = [pc EXCEPT ![f] = s], UNCHANGED <<quiet, fileVars, doVars, res>>, InCall(f),
         s = "open" => pc[f] = "create",
         s = "ok" => pc[f] \in {"trunc", "io"},
         s = "lost" => pc[f] \in {"create", "trunc", "io"},
         s = "reconnect" => pc[f] # "ok" /\ ~IsAlive(vol[f]) /\ att[f] = 1
  PROVE  Inv'
<1> USE DEF Inv, quiet, fileVars, doVars
<1>2. TypeInv'
  BY DEF TypeInv, PCs, Requests
<1>3. GenInv'
  BY DEF TypeInv, GenInv, InCall
<1>4. CallInv'
  BY DEF TypeInv, CallInv, Usable, IsAlive
<1>5. SrvInv'
  BY DEF SrvInv
<1>6. OwnInv'
  BY DEF TypeInv, GenInv, CallInv, SrvInv, OwnInv, Usable, IsAlive, InCall
<1>7. HeldInv'
  BY DEF TypeInv, GenInv, CallInv, HeldInv, Usable, IsAlive, InCall
<1>8. HitInv'
  BY DEF TypeInv, HitInv, InCall
<1> QED BY <1>2, <1>3, <1>4, <1>5, <1>6, <1>7, <1>8

-----------------------------------------------------------------------------
\* The server finds a fork ID that is not in use: there are more candidates
\* than forks.
LEMMA FreeIDIsFree ==
  ASSUME IsFiniteSet(forks)
  PROVE  FreeID \in Nat /\ \A k \in forks : k.id # FreeID
<1> DEFINE n == Cardinality(forks)
           ids == 1 .. n + 1
           owner == [i \in ids |-> CHOOSE k \in forks : k.id = i]
<1>1. n \in Nat
  BY FS_CardinalityType
<1>2. \E i \in ids : \A k \in forks : k.id # i
  <2> SUFFICES ASSUME \A i \in ids : \E k \in forks : k.id = i PROVE FALSE
    OBVIOUS
  <2>1. \A i \in ids : owner[i] \in forks /\ owner[i].id = i
    OBVIOUS
  <2>2. owner \in [ids -> forks]
    BY <2>1
  <2>3. IsFiniteSet(ids) /\ Cardinality(ids) = n + 1
    BY <1>1, FS_Interval
  <2>4. Cardinality(forks) < Cardinality(ids)
    BY <1>1, <2>3
  <2> HIDE DEF n, ids, owner
  <2>5. \E i, j \in ids : i # j /\ owner[i] = owner[j]
    BY <2>2, <2>3, <2>4, FS_PigeonHole
  <2> QED BY <2>1, <2>5
<1> QED BY <1>1, <1>2 DEF FreeID

LEMMA OpenForkStep ==
  ASSUME Inv, NEW f \in Files, OpenFork(f)
  PROVE  Inv'
<1> DEFINE new == [id |-> FreeID, file |-> dir[path[f]], by |-> f]
<1> USE DEF Inv, OpenFork, Reaches, Conn, doVars
<1>1. FreeID \in Nat /\ \A k \in forks : k.id # FreeID
  BY FreeIDIsFree DEF TypeInv
<1>2. AfterOpen(f) \in {"io", "trunc", "ok"} /\ (call[f] = "IO" <=> AfterOpen(f) = "io")
  BY DEF AfterOpen
<1>3. /\ forks' = forks \cup {new} /\ new.id = FreeID /\ new.by = f
      /\ link = "up" /\ vol[f] = gen /\ fgen[f] # gen /\ call[f] # "Close"
  BY DEF CallInv, Usable, IsAlive
<1> HIDE DEF new
<1>4. TypeInv'
  <2>1. IsFiniteSet(forks') /\ \A k \in forks' : k.id \in Nat
    BY <1>1, <1>3, FS_AddElement DEF TypeInv
  <2> QED BY <2>1, <1>1, <1>2 DEF TypeInv, PCs, Requests
<1>5. GenInv'
  BY <1>1, <1>2, <1>3 DEF TypeInv, GenInv, InCall
<1>6. CallInv'
  <2>1. AfterOpen(f) = "trunc" => call[f] = "OpenFile"
    BY <1>2, <1>3 DEF TypeInv
  <2> QED BY <2>1, <1>2, <1>3 DEF TypeInv, CallInv, Usable, IsAlive
<1>7. SrvInv'
  BY <1>1, <1>3 DEF SrvInv
<1>8. OwnInv'
  <2>1. f \notin doubt => \A k \in forks : k.by # f
    BY <1>3 DEF OwnInv
  <2> QED BY <2>1, <1>1, <1>2, <1>3 DEF TypeInv, OwnInv
<1>9. HeldInv'
  BY <1>1, <1>2, <1>3 DEF TypeInv, HeldInv, Usable
<1>10. HitInv'
  BY <1>2 DEF TypeInv, HitInv, InCall
<1> QED BY <1>4, <1>5, <1>6, <1>7, <1>8, <1>9, <1>10

LEMMA CloseForkStep ==
  ASSUME Inv, NEW f \in Files, CloseFork(f)
  PROVE  Inv'
<1> USE DEF Inv, CloseFork, Reaches, Conn, Then, fileVars, doVars
<1>1. /\ fgen[f] = gen /\ vol[f] = gen /\ link = "up" /\ call[f] = "Close" /\ fork[f] # None
  BY DEF CallInv, GenInv, Usable, TypeInv
<1>2. PICK s \in {"ok", "lost"} : pc' = [pc EXCEPT ![f] = s]
  OBVIOUS
<1>3. PICK mine \in forks : mine.id = fork[f] /\ mine.by = f
  BY <1>1 DEF HeldInv, Usable
<1>4. TypeInv'
  <2>1. IsFiniteSet(forks') /\ \A k \in forks' : k.id \in Nat
    <3>1. forks' \in SUBSET forks
      OBVIOUS
    <3> QED BY <3>1, FS_Subset DEF TypeInv
  <2> QED BY <2>1, <1>2 DEF TypeInv, PCs
<1>5. GenInv'
  BY <1>1, <1>2 DEF TypeInv, GenInv, InCall
<1>6. CallInv'
  BY <1>2 DEF TypeInv, CallInv, Usable, IsAlive
<1>7. SrvInv'
  BY DEF SrvInv
<1>8. OwnInv'
  BY <1>1, <1>2 DEF TypeInv, OwnInv
<1>9. HeldInv'
  <2> SUFFICES ASSUME NEW g \in Files, g # f, fork[g] # None, Usable(fgen[g]),
                      ~(call[g] = "Close" /\ pc[g] \in {"ok", "lost"})
               PROVE  \E k \in forks' : k.id = fork[g] /\ k.by = g
    BY <1>1, <1>2 DEF TypeInv, HeldInv, Usable
  <2>1. PICK k \in forks : k.id = fork[g] /\ k.by = g
    BY DEF HeldInv
  <2>2. k.id # fork[f]
    BY <1>3, <2>1 DEF SrvInv
  <2> QED BY <2>1, <2>2
<1>10. HitInv'
  BY <1>2 DEF TypeInv, HitInv, InCall
<1> QED BY <1>4, <1>5, <1>6, <1>7, <1>8, <1>9, <1>10

LEMMA ReconnectStep ==
  ASSUME Inv, NEW f \in Files, Reconnect(f)
  PROVE  Inv'
<1> USE DEF Inv, Reconnect, fileVars
<1> DEFINE start == FnStart(f, call[f], gen', flags[f])
<1>1. /\ att[f] = 1 /\ vol[f] \in Nat /\ vol[f] <= gen /\ ~IsAlive(vol[f])
      /\ gen' \in Nat /\ gen' > vol[f] /\ fgen[f] # gen'
  BY DEF TypeInv, GenInv, CallInv, InCall
<1>2. /\ start \in {"create", "open", "ok"}
      /\ start = "ok" => call[f] = "Close"
      /\ start = "create" => call[f] = "OpenFile"
      /\ start = "open" => call[f] # "Close"
  <2>1. call[f] \in {"OpenFile", "IO", "Close"}
    BY DEF TypeInv
  <2> QED BY <1>1, <2>1 DEF FnStart, NeedsFork
<1> HIDE DEF start
<1>3. \/ gen' = gen + 1 /\ gen = vol[f] /\ link' = "up" /\ link = "dead" /\ forks' = {}
      \/ UNCHANGED <<gen, link, forks>>
  BY <1>1 DEF IsAlive, TypeInv
<1>4. TypeInv'
  <2>1. IsFiniteSet(forks') /\ \A k \in forks' : k.id \in Nat
    BY <1>3, FS_EmptySet, Zenon DEF TypeInv
  <2> QED BY <2>1, <1>1, <1>2 DEF TypeInv, PCs, Requests, start
<1>5. GenInv'
  BY <1>1, <1>2, <1>3 DEF TypeInv, GenInv, InCall, start
<1>6. CallInv'
  BY <1>1, <1>2, <1>3 DEF TypeInv, GenInv, CallInv, InCall, IsAlive, start
<1>7. SrvInv'
  BY <1>3 DEF SrvInv
<1>8. OwnInv'
  BY <1>1, <1>2, <1>3 DEF TypeInv, GenInv, OwnInv, start
<1>9. HeldInv'
  <2>1. CASE UNCHANGED <<gen, link, forks>>
    BY <2>1, <1>1, <1>2 DEF TypeInv, HeldInv, Usable
  <2>2. CASE gen' = gen + 1
    <3>1. \A g \in Files : fgen[g] # gen'
      BY <2>2 DEF TypeInv, GenInv
    <3> QED BY <3>1 DEF HeldInv, Usable
  <2> QED BY <1>3, <2>1, <2>2
<1>10. HitInv'
  <2> SUFFICES ASSUME NEW g \in Files PROVE HitInv!(g)'
    BY DEF HitInv
  <2>1. CASE g = f
    <3>1. /\ hits[f] >= (gen - vol[f]) + IF link = "up" THEN 0 ELSE 1
          /\ hits[f] \in Nat
      BY <1>1 DEF TypeInv, HitInv, InCall
    <3>2. /\ att'[f] = 2 /\ vol'[f] = gen' /\ hits'[f] = hits[f]
          /\ InCall(f)'
      BY <1>1, <1>2 DEF TypeInv, InCall, start
    <3> QED BY <2>1, <1>1, <1>3, <3>1, <3>2 DEF TypeInv
  <2>2. CASE g # f
    <3>1. /\ pc'[g] = pc[g] /\ vol'[g] = vol[g] /\ att'[g] = att[g] /\ hits'[g] = hits[g]
          /\ res'[g] = res[g] /\ att[g] \in {1, 2} /\ hits[g] \in Nat
          /\ InCall(g) => vol[g] \in Nat
      BY <2>2 DEF TypeInv, GenInv
    <3>2. InCall(g)' <=> InCall(g)
      BY <3>1 DEF InCall
    <3>3. InCall(g) => hits[g] >= (att[g] - 1) + (gen' - vol[g]) + IF link' = "up" THEN 0 ELSE 1
      BY <1>1, <1>3, <3>1 DEF TypeInv, HitInv
    <3>4. ~InCall(g) /\ res[g] = "link" => hits[g] >= att[g]
      BY DEF HitInv
    <3> QED BY <3>1, <3>2, <3>3, <3>4
  <2> QED BY <2>1, <2>2
<1> QED BY <1>4, <1>5, <1>6, <1>7, <1>8, <1>9, <1>10

LEMMA LinkDownStep == Inv /\ LinkDown => Inv'
<1> SUFFICES ASSUME Inv, LinkDown PROVE Inv'
  OBVIOUS
<1> USE DEF Inv, LinkDown, fileVars
<1>1. TypeInv'
  BY FS_EmptySet DEF TypeInv
<1>2. GenInv' /\ CallInv' /\ SrvInv' /\ OwnInv' /\ HeldInv'
  BY DEF GenInv, CallInv, SrvInv, OwnInv, HeldInv, InCall, Usable, IsAlive
<1>3. HitInv'
  BY DEF TypeInv, GenInv, HitInv, InCall
<1> QED BY <1>1, <1>2, <1>3

LEMMA NoticeStep == Inv /\ Notice => Inv'
BY DEF Inv, TypeInv, GenInv, CallInv, SrvInv, OwnInv, HeldInv, HitInv, Notice, srvVars, fileVars,
       doVars, InCall, Usable, IsAlive

-----------------------------------------------------------------------------
LEMMA FileStepInv ==
  ASSUME Inv, NEW f \in Files, FileStep(f)
  PROVE  Inv'
<1>1. CASE OpenFile(f) \/ IO(f) \/ Close(f)
  BY <1>1, DoStep DEF OpenFile, IO, Close
<1>2. CASE FnOK(f)
  BY <1>2, FinishStep DEF FnOK, InCall, quiet, srvVars
<1>3. CASE CreateFile(f)
  BY <1>3, PcStep DEF CreateFile, Then, InCall, quiet
<1>4. CASE CreateExists(f)
  <2>1. CASE "excl" \in flags[f]
    <3>1. call[f] = "OpenFile"
      BY <1>4 DEF CreateExists, Inv, CallInv
    <3> QED BY <1>4, <2>1, <3>1, FinishStep DEF CreateExists, InCall, quiet, srvVars
  <2>2. CASE "excl" \notin flags[f]
    BY <1>4, <2>2, PcStep DEF CreateExists, InCall, quiet, srvVars
  <2> QED BY <2>1, <2>2
<1>5. CASE OpenFork(f)
  BY <1>5, OpenForkStep
<1>6. CASE UseFork(f)
  BY <1>6, PcStep DEF UseFork, Then, InCall, quiet, srvVars
<1>7. CASE CloseFork(f)
  BY <1>7, CloseForkStep
<1>8. CASE Refused(f)
  <2>1. /\ pc[f] \in Requests \ {"close"} /\ call[f] # "Close"
        /\ call[f] = "OpenFile" => pc[f] \in {"create", "open", "trunc"}
    BY <1>8 DEF Refused, Reaches, Inv, CallInv, Requests
  <2> QED BY <1>8, <2>1, FinishStep DEF Refused, Requests, InCall, quiet, srvVars
<1>9. CASE Timeout(f)
  BY <1>9, FinishStep DEF Timeout, Requests, InCall, quiet, srvVars
<1>10. CASE LinkError(f)
  <2>1. ~Usable(vol[f]) /\ pc[f] \in Requests \cup {"lost"}
    BY <1>10 DEF LinkError, Conn, Inv, CallInv, Usable, IsAlive
  <2>2. CASE att[f] = 1 /\ ~IsAlive(vol[f])
    BY <1>10, <2>1, <2>2, PcStep DEF LinkError, Requests, InCall, quiet, srvVars
  <2>3. CASE ~(att[f] = 1 /\ ~IsAlive(vol[f]))
    BY <1>10, <2>1, <2>3, FinishStep DEF LinkError, Requests, InCall, quiet, srvVars
  <2> QED BY <2>2, <2>3
<1>11. CASE Reconnect(f)
  BY <1>11, ReconnectStep
<1>12. CASE DialFails(f)
  <2>1. ~Usable(vol[f])
    BY <1>12 DEF DialFails, Inv, CallInv, Usable, IsAlive
  <2> QED BY <1>12, <2>1, FinishStep DEF DialFails, InCall, quiet, srvVars
<1> QED BY <1>1, <1>2, <1>3, <1>4, <1>5, <1>6, <1>7, <1>8, <1>9, <1>10, <1>11, <1>12 DEF FileStep

\* The catalog does not matter to what is open.
LEMMA SameInv ==
  ASSUME Inv, UNCHANGED <<quiet, pc, fileVars, doVars, res>>
  PROVE  Inv'
<1> USE DEF Inv, quiet, fileVars, doVars
<1>1. TypeInv' /\ GenInv' /\ SrvInv'
  <2>1. TypeInv'
    BY DEF TypeInv
  <2>2. GenInv' /\ SrvInv'
    BY DEF GenInv, SrvInv, InCall
  <2> QED BY <2>1, <2>2
<1>2. CallInv' /\ HeldInv'
  BY DEF CallInv, HeldInv, Usable, IsAlive
<1>3. OwnInv' /\ HitInv'
  BY DEF OwnInv, HitInv, InCall
<1> QED BY <1>1, <1>2, <1>3

LEMMA NextInv == Inv /\ [Next]_vars => Inv'
<1> SUFFICES ASSUME Inv, [Next]_vars PROVE Inv'
  OBVIOUS
<1>1. ASSUME NEW f \in Files, FileStep(f) PROVE Inv'
  BY <1>1, FileStepInv
<1>2. CASE LinkDown \/ Notice
  BY <1>2, LinkDownStep, NoticeStep
<1>3. ASSUME NEW p \in Paths, NEW q \in Paths, Rename(p, q) PROVE Inv'
  BY <1>3, SameInv DEF Rename, quiet
<1>4. ASSUME NEW p \in Paths, Remove(p) PROVE Inv'
  BY <1>4, SameInv DEF Remove, quiet
<1>5. CASE UNCHANGED vars
  BY <1>5, SameInv DEF vars, quiet, srvVars
<1> QED BY <1>1, <1>2, <1>3, <1>4, <1>5 DEF Next

LEMMA Invariance == Spec => []Inv
BY InitInv, NextInv, PTL DEF Spec

-----------------------------------------------------------------------------
\* Client and server agree on what is open: whatever links die, requests are
\* lost or refused, and however many Files share the connection, a fork at the
\* server belongs to the File that holds it, and a File never uses a fork ID
\* that stands for something else.
THEOREM ForksAgreeAlways == Spec => []ForksAgree
<1>1. Inv => ForksAgree
  BY DEF Inv, OwnInv, HeldInv, ForksAgree, InCall
<1> QED BY <1>1, Invariance, PTL

\* A call fails for want of a link only after as many broken links as do has
\* run its fn: do's one retry hides a drop it notices, and never runs on what
\* is left of the first link.
THEOREM DropsAreSurvived == Spec => []NoticedDropIsSurvived
<1>1. Inv => NoticedDropIsSurvived
  BY DEF Inv, HitInv, NoticedDropIsSurvived
<1> QED BY <1>1, Invariance, PTL
=============================================================================
