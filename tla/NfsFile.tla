------------------------------ MODULE NfsFile ------------------------------
(***************************************************************************)
(* Open files of the NFS bridge: OpenFile of internal/nfsfs/fs.go and File *)
(* of internal/nfsfs/file.go.  A File holds the fork it has open at the    *)
(* server and the volume it was opened on; a reconnect makes a new volume, *)
(* and the fork is opened again, by path, when it is next needed.          *)
(*                                                                         *)
(* A generation of connManager stands for its connection and its volume.   *)
(* connManager.do is taken from ConnManager in a coarser grain: a          *)
(* reconnect is one step, and a dial that fails leaves the dead generation *)
(* in place, which the next call finds as dead as a nil volume.  A link    *)
(* breaks before the client knows it is dead, and a write that fails in    *)
(* between is returned: do reconnects only for a connection it knows dead. *)
(* f.mu makes the calls on one File a sequence.                            *)
(***************************************************************************)
EXTENDS Integers, FiniteSets

CONSTANTS
  Files,       \* calls of OpenFile, and the File objects they make
  Paths,       \* AFP paths
  None,        \* nil, no file, no fork
  Faults,      \* what may go wrong besides the link: "move", "refuse", "timeout"
  MaxFaults,   \* bound on them
  MaxGens,     \* bound on generations
  MaxCalls,    \* bound on calls of Read, Write and the like per File
  MaxCreated   \* bound on files created

ASSUME NfsFileAssumption ==
  /\ None \notin Files \cup Paths /\ None \notin Nat
  /\ MaxFaults \in Nat /\ MaxGens \in Nat \ {0} /\ MaxCalls \in Nat /\ MaxCreated \in Nat

\* The flags of Open, of OpenFile(O_CREATE), of Create and of TempFile.
FlagSets == {{}, {"create"}, {"create", "trunc"}, {"create", "excl"}}

VARIABLES
  gen,          \* the current generation
  link,         \* its link: up, broken, or known to be dead
  created,      \* files ever created
  dir,          \* the server's catalog
  forks,        \* forks open in the server's session with the current generation
  faults,       \* faults so far
  pc,           \* where the call on each File is: the request it waits for
  call,         \* the call: OpenFile, IO or Close
  flags,        \* OpenFile's flags
  path,         \* File.path
  fork, fgen,   \* File.fork and File.forkVol
  att, vol,     \* connManager.do: which run of fn, and on which generation
  res,          \* the error the call ended with
  hits,         \* link failures since the call began
  doubt,        \* Files that may have a fork they do not know of
  calls         \* calls so far

srvVars == <<created, dir, forks>>
fileVars == <<path, flags, fork, fgen, doubt>>
doVars == <<call, att, vol, hits, calls>>
vars == <<gen, link, srvVars, faults, pc, fileVars, doVars, res>>

Init ==
  /\ gen = 1 /\ link = "up" /\ faults = 0
  /\ \E p \in Paths : dir = [q \in Paths |-> IF q = p THEN 1 ELSE None]
  /\ created = 1 /\ forks = {}
  /\ pc = [f \in Files |-> "new"] /\ call = [f \in Files |-> "OpenFile"]
  /\ path = [f \in Files |-> None] /\ flags = [f \in Files |-> {}]
  /\ fork = [f \in Files |-> None] /\ fgen = [f \in Files |-> None]
  /\ doubt = {} /\ res = [f \in Files |-> "nil"]
  /\ att = [f \in Files |-> 1] /\ vol = [f \in Files |-> None]
  /\ hits = [f \in Files |-> 0] /\ calls = [f \in Files |-> 0]

Fault(what) == what \in Faults /\ faults < MaxFaults /\ faults' = faults + 1

Usable(g) == g = gen /\ link = "up"

\* Conn.IsAlive of a generation's connection: an older one was closed.
IsAlive(g) == g = gen /\ link # "dead"

-----------------------------------------------------------------------------
(* connManager.do runs fn on the current volume. *)

\* Mutant of NeedsFork: a fork is kept whatever volume it was opened on.
NeedsForkOnce(f, g) == fork[f] = None

\* File.open: the fork is reused only on the volume it was opened on.
NeedsFork(f, g) == fork[f] = None \/ fgen[f] # g

\* Mutant of FnStart: Close sends FPCloseFork only to an older generation.
FnStartCloseSwapped(f, c, g, fl) ==
  CASE c = "OpenFile" -> IF "create" \in fl THEN "create" ELSE "open"
    [] c = "IO"       -> IF NeedsFork(f, g) THEN "open" ELSE "io"
    [] c = "Close"    -> IF fgen[f] # g THEN "close" ELSE "ok"

\* The first request of fn: Close makes none for an older generation's fork.
FnStart(f, c, g, fl) ==
  CASE c = "OpenFile" -> IF "create" \in fl THEN "create" ELSE "open"
    [] c = "IO"       -> IF NeedsFork(f, g) THEN "open" ELSE "io"
    [] c = "Close"    -> IF fgen[f] = g THEN "close" ELSE "ok"

Do(f, c, fl) ==
  /\ call' = [call EXCEPT ![f] = c]
  /\ att' = [att EXCEPT ![f] = 1]
  /\ vol' = [vol EXCEPT ![f] = gen]
  /\ res' = [res EXCEPT ![f] = "nil"]
  /\ hits' = [hits EXCEPT ![f] = IF link = "up" THEN 0 ELSE 1]
  /\ pc' = [pc EXCEPT ![f] = FnStart(f, c, gen, fl)]
  /\ UNCHANGED <<gen, link, srvVars, faults, fork, fgen, doubt>>

OpenFile(f) ==
  /\ pc[f] = "new"
  /\ \E p \in Paths, fl \in FlagSets :
       /\ path' = [path EXCEPT ![f] = p]
       /\ flags' = [flags EXCEPT ![f] = fl]
       /\ Do(f, "OpenFile", fl)
  /\ UNCHANGED calls

\* Read, ReadAt, Write and Truncate: a request on the fork.
IO(f) ==
  /\ pc[f] = "idle" /\ calls[f] < MaxCalls
  /\ calls' = [calls EXCEPT ![f] = @ + 1]
  /\ Do(f, "IO", flags[f])
  /\ UNCHANGED <<flags, path>>

\* The File has forgotten its fork when the call ends, however it ends.
Close(f) ==
  /\ pc[f] = "idle"
  /\ Do(f, "Close", flags[f])
  /\ UNCHANGED <<flags, path, calls>>

-----------------------------------------------------------------------------
(* A call ends, or goes on to its next request. *)

\* A failed OpenFile makes no File.
End(f, r) ==
  CASE call[f] = "Close"                 -> "closed"
    [] call[f] = "OpenFile" /\ r # "nil" -> "failed"
    [] OTHER                             -> "idle"

Keeps(f, r, x) == IF End(f, r) = "idle" THEN x ELSE None

\* The call returns. An open that timed out may have been executed, and a File
\* whose truncation was refused is dropped with its fork open.
Finish(f, r) ==
  /\ doubt' = IF r = "timeout" \/ (pc[f] = "trunc" /\ r = "afp") THEN doubt \cup {f} ELSE doubt
  /\ res' = [res EXCEPT ![f] = r]
  /\ pc' = [pc EXCEPT ![f] = End(f, r)]
  /\ fork' = [fork EXCEPT ![f] = Keeps(f, r, @)]
  /\ fgen' = [fgen EXCEPT ![f] = Keeps(f, r, @)]
  /\ UNCHANGED <<path, flags, doVars>>

\* fn returns nil.
FnOK(f) ==
  /\ pc[f] = "ok"
  /\ Finish(f, "nil")
  /\ UNCHANGED <<gen, link, srvVars, faults>>

Requests == {"create", "open", "trunc", "io", "close"}

\* The connection a request goes to: that of the volume, or of the fork.
Conn(f) == IF pc[f] \in {"trunc", "io", "close"} THEN fgen[f] ELSE vol[f]

Reaches(f) == pc[f] \in Requests /\ Usable(Conn(f))

\* The answer arrives, or it is lost and the call goes on waiting.
Then(f, step) == pc' = [pc EXCEPT ![f] = step] \/ pc' = [pc EXCEPT ![f] = "lost"]

CreateFile(f) ==
  /\ Reaches(f) /\ pc[f] = "create" /\ created < MaxCreated
  /\ dir[path[f]] = None
  /\ created' = created + 1
  /\ dir' = [dir EXCEPT ![path[f]] = created']
  /\ Then(f, "open")
  /\ UNCHANGED <<gen, link, forks, faults, fileVars, doVars, res>>

\* The file exists: that is an error only for O_EXCL.
CreateExists(f) ==
  /\ Reaches(f) /\ pc[f] = "create" /\ dir[path[f]] # None
  /\ IF "excl" \in flags[f]
       THEN Finish(f, "exists")
       ELSE pc' = [pc EXCEPT ![f] = "open"] /\ UNCHANGED <<fileVars, doVars, res>>
  /\ UNCHANGED <<gen, link, srvVars, faults>>

\* The ID the server gives to a new fork: one that is not in use.
FreeID == CHOOSE i \in 1 .. Cardinality(forks) + 1 : \A k \in forks : k.id # i

AfterOpen(f) ==
  IF call[f] = "IO" THEN "io" ELSE IF "trunc" \in flags[f] THEN "trunc" ELSE "ok"

OpenFork(f) ==
  /\ Reaches(f) /\ pc[f] = "open" /\ dir[path[f]] # None
  /\ forks' = forks \cup {[id |-> FreeID, file |-> dir[path[f]], by |-> f]}
  /\ \/ /\ pc' = [pc EXCEPT ![f] = AfterOpen(f)]
        /\ fork' = [fork EXCEPT ![f] = FreeID]
        /\ fgen' = [fgen EXCEPT ![f] = vol[f]]
     \/ /\ pc' = [pc EXCEPT ![f] = "lost"]
        /\ UNCHANGED <<fork, fgen>>
  /\ UNCHANGED <<gen, link, created, dir, faults, path, flags, doubt, doVars, res>>

\* Truncate in OpenFile, and the request of a Read or Write.
UseFork(f) ==
  /\ Reaches(f) /\ pc[f] \in {"trunc", "io"}
  /\ \E k \in forks : k.id = fork[f]
  /\ Then(f, "ok")
  /\ UNCHANGED <<gen, link, srvVars, faults, fileVars, doVars, res>>

CloseFork(f) ==
  /\ Reaches(f) /\ pc[f] = "close"
  /\ forks' = {k \in forks : k.id # fork[f]}
  /\ Then(f, "ok")
  /\ UNCHANGED <<gen, link, created, dir, faults, fileVars, doVars, res>>

\* The server refuses: no such file, or whatever it has against it. The link
\* is alive, so do returns the error.
Refused(f) ==
  /\ Reaches(f) /\ pc[f] # "close"
  /\ \/ pc[f] = "open" /\ dir[path[f]] = None /\ UNCHANGED faults
     \/ Fault("refuse")
  /\ Finish(f, "afp")
  /\ UNCHANGED <<gen, link, srvVars>>

\* The deadline passes on a link that seems to work, which do does not retry.
Timeout(f) ==
  /\ pc[f] \in Requests \cup {"lost"} /\ IsAlive(vol[f])
  /\ Fault("timeout")
  /\ Finish(f, "timeout")
  /\ UNCHANGED <<gen, link, srvVars>>

\* The request fails with its link: it cannot be written, or it waits for its
\* answer until the link is known to be dead. The first run of fn leads to a
\* reconnect then, but not after a write that failed before.
LinkError(f) ==
  /\ \/ pc[f] \in Requests /\ ~Usable(Conn(f))
     \/ pc[f] = "lost" /\ ~IsAlive(vol[f])
  /\ IF att[f] = 1 /\ ~IsAlive(vol[f])
       THEN pc' = [pc EXCEPT ![f] = "reconnect"] /\ UNCHANGED <<fileVars, doVars, res>>
       ELSE Finish(f, "link")
  /\ UNCHANGED <<gen, link, srvVars, faults>>

\* connManager.reconnect, unless somebody else has; fn runs again on what is
\* the current volume then.
Reconnect(f) ==
  /\ pc[f] = "reconnect"
  /\ IF gen = vol[f] THEN gen < MaxGens /\ gen' = gen + 1 /\ link' = "up" /\ forks' = {}
                     ELSE UNCHANGED <<gen, link, forks>>
  /\ att' = [att EXCEPT ![f] = @ + 1]
  /\ vol' = [vol EXCEPT ![f] = gen']
  /\ pc' = [pc EXCEPT ![f] = FnStart(f, call[f], gen', flags[f])]
  /\ UNCHANGED <<created, dir, faults, fileVars, call, hits, calls, res>>

DialFails(f) ==
  /\ pc[f] = "reconnect" /\ gen = vol[f]
  /\ Fault("timeout")
  /\ Finish(f, "dial")
  /\ UNCHANGED <<gen, link, srvVars>>

-----------------------------------------------------------------------------
\* The link breaks, and the server drops the forks of its session.
LinkDown ==
  /\ link = "up" /\ gen < MaxGens
  /\ link' = "broken" /\ forks' = {}
  /\ hits' = [f \in Files |-> hits[f] + 1]
  /\ UNCHANGED <<gen, created, dir, faults, pc, fileVars, call, att, vol, calls, res>>

\* readLoop finds it dead.
Notice ==
  /\ link = "broken"
  /\ link' = "dead"
  /\ UNCHANGED <<gen, srvVars, faults, pc, fileVars, doVars, res>>

\* FS.Rename and FS.Remove by anybody: an open fork stands in the way of a
\* removal only.
Rename(p, q) ==
  /\ Fault("move") /\ dir[p] # None /\ dir[q] = None
  /\ dir' = [dir EXCEPT ![p] = None, ![q] = dir[p]]
  /\ UNCHANGED <<gen, link, created, forks, pc, fileVars, doVars, res>>

Remove(p) ==
  /\ Fault("move") /\ dir[p] # None /\ \A k \in forks : k.file # dir[p]
  /\ dir' = [dir EXCEPT ![p] = None]
  /\ UNCHANGED <<gen, link, created, forks, pc, fileVars, doVars, res>>

FileStep(f) ==
  \/ OpenFile(f) \/ IO(f) \/ Close(f) \/ FnOK(f)
  \/ CreateFile(f) \/ CreateExists(f) \/ OpenFork(f) \/ UseFork(f) \/ CloseFork(f)
  \/ Refused(f) \/ Timeout(f) \/ LinkError(f) \/ Reconnect(f) \/ DialFails(f)

Next ==
  \/ \E f \in Files : FileStep(f)
  \/ LinkDown \/ Notice
  \/ \E p, q \in Paths : Rename(p, q)
  \/ \E p \in Paths : Remove(p)

Spec == Init /\ [][Next]_vars

-----------------------------------------------------------------------------
InCall(f) == pc[f] \notin {"new", "idle", "closed", "failed"}

\* Server and client agree on open forks. Between calls, a fork the server has
\* open for a File is the one the File holds, so a File that is gone has none,
\* unless a request of it timed out or its truncation failed; and a fork a File
\* holds on a link that works is open there, and is its own: no ID is used that
\* means something else by now.
ForksAgree ==
  \A f \in Files : ~InCall(f) =>
    /\ f \notin doubt => \A k \in forks : k.by = f => fork[f] = k.id /\ fgen[f] = gen
    /\ fork[f] # None /\ Usable(fgen[f]) => \E k \in forks : k.id = fork[f] /\ k.by = f

\* Every run of fn has a link of its own to lose: a call that failed for want of
\* a link before do noticed that it was dead has met one broken link, and a call
\* that was run again has met two. So do hides a drop that it notices, and no
\* call fails because its File holds a fork of an older generation.
NoticedDropIsSurvived ==
  \A f \in Files : ~InCall(f) /\ res[f] = "link" => hits[f] >= att[f]

=============================================================================
