------------------------------ MODULE Catalog -------------------------------
(***************************************************************************)
(* Operations of FS (internal/nfsfs/fs.go) that change the catalog, or     *)
(* need several requests: Symlink and Readlink (internal/afp/symlink.go),  *)
(* MkdirAll, Remove and Rename (internal/afp/ops.go).                      *)
(*                                                                         *)
(* A symbolic link is a file that holds the target and is marked in its    *)
(* Finder info.  A path is a sequence of names.  The target of a link is   *)
(* the call that made it.  An answer that is lost leaves its call waiting. *)
(***************************************************************************)
EXTENDS Retry, Sequences

CONSTANTS
  Paths,       \* the paths there can be
  CatalogOps,  \* the operations: [do |-> ..., path |-> ..., to |-> ...]
  None, Dir,   \* no file; a directory
  Old, Mixed   \* a file that was there before; parts of two targets

\* A file is named after the run that created it.
FileIDs == (Calls \X {1, 2}) \cup {Old}

ASSUME CatalogAssumption ==
  /\ None \notin FileIDs \cup Calls \cup {Dir} /\ Old \notin Calls \X {1, 2}
  /\ \A p \in Paths : p \in Seq(STRING) /\ p # <<>>
  /\ \A p \in Paths : \A i \in 1 .. Len(p) : SubSeq(p, 1, i) \in Paths
  /\ \A o \in CatalogOps :
       /\ o.do \in {"symlink", "readlink", "mkdirAll", "remove", "rename"}
       /\ o.path \in Paths /\ o.to \in Paths
       \* what is renamed is a file or an empty directory
       /\ o.do = "rename" => \A p \in Paths : Len(p) > Len(o.path) =>
                                SubSeq(p, 1, Len(o.path)) # o.path

Whole == Calls \cup {Old}

VARIABLES
  tree,       \* what each path names
  data,       \* what a file holds: a target, None or Mixed
  marked,     \* the files marked as links
  forks,      \* forks open at the server
  fork,       \* the file whose fork a call holds
  comp,       \* MkdirAll: the component it is at
  why,        \* what the function returns once its fork is closed
  got,        \* what Readlink read
  wasLink,    \* calls of Readlink that opened a marked file
  did,        \* calls whose request has changed the tree
  late,       \* calls of which a request timed out
  disturbed   \* calls during which somebody else removed or renamed something

catalogVars == <<tree, data, marked, forks, fork, comp, why, got, wasLink, did, late,
                 disturbed>>

CatalogInit ==
  /\ data = [f \in FileIDs |-> IF f = Old THEN Old ELSE None]
  /\ marked = {Old} /\ forks = {} /\ fork = [c \in Calls |-> None]
  /\ comp = [c \in Calls |-> 1] /\ why = [c \in Calls |-> "nil"]
  /\ got = [c \in Calls |-> None]
  /\ wasLink = {} /\ did = {} /\ late = {} /\ disturbed = {}

-----------------------------------------------------------------------------
(* What the server answers, and what becomes of it. *)

\* Mutant of MapErr: what is not there is no error.
MapErrNotFoundIsNil(code) ==
  CASE code \in {"ObjectNotFound", "DirNotFound", "ItemNotFound"} -> "nil"
    [] code \in {"AccessDenied", "UserNotAuth"} -> "permission"
    [] code = "ObjectExists"                    -> "exist"
    [] OTHER                                    -> code

\* resultErr and mapErr: a result code as the error NFS is told of.
MapErr(code) ==
  CASE code \in {"ObjectNotFound", "DirNotFound", "ItemNotFound"} -> "notExist"
    [] code \in {"AccessDenied", "UserNotAuth"} -> "permission"
    [] code = "ObjectExists"                    -> "exist"
    [] OTHER                                    -> code

IsFile(p) == tree[p] \in FileIDs
HasParent(p) == Len(p) = 1 \/ tree[SubSeq(p, 1, Len(p) - 1)] = Dir
Children(p) == {q \in Paths : tree[q] # None /\ Len(q) > Len(p) /\ SubSeq(q, 1, Len(p)) = p}

\* The answer to a request for a new object at p.
CreateCode(p) ==
  IF ~HasParent(p) THEN "DirNotFound" ELSE IF tree[p] # None THEN "ObjectExists" ELSE "NoErr"

\* The answer to a request to open the file at p.
OpenCode(p) ==
  IF tree[p] = None THEN "ObjectNotFound" ELSE IF IsFile(p) THEN "NoErr" ELSE "ObjectTypeErr"

Running == {c \in Calls : pc[c] \notin {"enter", "done"} \/ comp[c] > 1}

\* A request of call c has been served; others notice if it takes a name away.
Served(c, changes, takes) ==
  /\ did' = IF changes THEN did \cup {c} ELSE did
  /\ disturbed' = IF takes THEN disturbed \cup (Running \ {c}) ELSE disturbed

\* The first request of the function that do runs.
First(c) ==
  CASE op[c].do = "symlink"  -> "create"
    [] op[c].do = "readlink" -> "open"
    [] op[c].do = "mkdirAll" -> "mkdir"
    [] op[c].do = "remove"   -> "delete"
    [] op[c].do = "rename"   -> "move"

\* An AFP error ends the function, and do returns it: the link works.
Fails(c, code) ==
  /\ code # "NoErr"
  /\ Finish(c, MapErr(code))

-----------------------------------------------------------------------------
(* Volume.Symlink and Volume.ReadLink. *)

\* Mutant of After: the file is marked as soon as it is there.
AfterMarkFirst ==
  [create |-> "mark", mark |-> "open", open |-> "write", write |-> "close", close |-> "done"]

\* The order of Symlink's requests.
After ==
  [create |-> "open", open |-> "write", write |-> "close", close |-> "mark", mark |-> "done"]

Then(c, step) == Goto(c, After[step]) \/ Goto(c, "lost")

CreateFile(c) ==
  /\ pc[c] = "create" /\ Usable(c)
  /\ LET p == op[c].path IN
       \/ /\ CreateCode(p) = "NoErr"
          /\ tree' = [tree EXCEPT ![p] = <<c, att[c]>>]
          /\ Served(c, TRUE, FALSE) /\ Then(c, "create") /\ UNCHANGED res
       \/ Fails(c, CreateCode(p)) /\ UNCHANGED <<tree, did, disturbed>>
  /\ UNCHANGED <<linkVars, op, att, vol, data, marked, forks, fork, comp, why, got,
                 wasLink, late>>

\* OpenForkRW for Symlink; for ReadLink OpenFork, whose reply has the size.
AfterOpen(c, f) ==
  IF op[c].do = "symlink" THEN After["open"] ELSE IF data[f] = None THEN "release" ELSE "read"

OpenFork(c) ==
  /\ pc[c] = "open" /\ Usable(c)
  /\ LET f == tree[op[c].path] IN
       \/ /\ OpenCode(op[c].path) = "NoErr"
          /\ forks' = forks \cup {[by |-> c, file |-> f]}
          /\ wasLink' = IF f \in marked THEN wasLink \cup {c} ELSE wasLink
          /\ \/ Goto(c, AfterOpen(c, f)) /\ fork' = [fork EXCEPT ![c] = f]
             \/ Goto(c, "lost") /\ fork' = [fork EXCEPT ![c] = None]
          /\ UNCHANGED res
       \/ Fails(c, OpenCode(op[c].path)) /\ UNCHANGED <<forks, wasLink, fork>>
  /\ got' = [got EXCEPT ![c] = None] /\ why' = [why EXCEPT ![c] = "nil"]
  /\ UNCHANGED <<linkVars, op, att, vol, tree, data, marked, comp, did, late, disturbed>>

\* A target written over another one leaves the rest of a longer one.
WriteTarget(c) ==
  /\ pc[c] = "write" /\ Usable(c)
  /\ \E d \in IF data[fork[c]] \in {None, c} THEN {c} ELSE {c, Mixed} :
       data' = [data EXCEPT ![fork[c]] = d]
  /\ Then(c, "write")
  /\ UNCHANGED <<linkVars, op, att, vol, res, tree, marked, forks, fork, comp, why, got,
                 wasLink, did, late, disturbed>>

ReadTarget(c) ==
  /\ pc[c] = "read" /\ Usable(c)
  /\ got' = [got EXCEPT ![c] = data[fork[c]]]
  /\ \E n \in {"release", "lost"} : Goto(c, n)
  /\ UNCHANGED <<linkVars, op, att, vol, res, tree, data, marked, forks, fork, comp, why,
                 wasLink, did, late, disturbed>>

Mine(c) == {k \in forks : k.by = c /\ k.file = fork[c]}

\* FPCloseFork: between write and mark, or, as "release", before the function
\* returns what it has.
CloseFork(c) ==
  /\ pc[c] \in {"close", "release"} /\ Usable(c)
  /\ forks' = forks \ Mine(c)
  /\ \/ pc[c] = "close" /\ Then(c, "close") /\ UNCHANGED res
     \/ pc[c] = "release" /\ Finish(c, why[c])
     \/ pc[c] = "release" /\ Goto(c, "lost") /\ UNCHANGED res
  /\ UNCHANGED <<linkVars, op, att, vol, tree, data, marked, fork, comp, why, got, wasLink,
                 did, late, disturbed>>

\* setFinderInfo goes by path. A directory cannot become a link.
SetFinderInfo(c) ==
  /\ pc[c] = "mark" /\ Usable(c)
  /\ LET f == tree[op[c].path] IN
       \/ /\ f # None
          /\ marked' = IF f \in FileIDs THEN marked \cup {f} ELSE marked
          /\ Then(c, "mark") /\ UNCHANGED res
       \/ f = None /\ Fails(c, "ObjectNotFound") /\ UNCHANGED marked
  /\ UNCHANGED <<linkVars, op, att, vol, tree, data, forks, fork, comp, why, got, wasLink,
                 did, late, disturbed>>

\* Mutant of DataRefused: return at once.
DataRefusedNoClose(c) ==
  /\ pc[c] \in {"write", "read"} /\ Usable(c)
  /\ \E code \in {"AccessDenied", "DiskFull"} : Fails(c, code)
  /\ UNCHANGED <<linkVars, op, att, vol, catalogVars>>

\* The server refuses the write or the read: close, then return its error.
DataRefused(c) ==
  /\ pc[c] \in {"write", "read"} /\ Usable(c)
  /\ \E code \in {"AccessDenied", "DiskFull"} : why' = [why EXCEPT ![c] = MapErr(code)]
  /\ Goto(c, "release")
  /\ UNCHANGED <<linkVars, op, att, vol, res, tree, data, marked, forks, fork, comp, got,
                 wasLink, did, late, disturbed>>

-----------------------------------------------------------------------------
(* FS.MkdirAll, FS.Remove and FS.Rename. *)

\* A component is there: on to the next, each in a do of its own.
NextComponent(c) ==
  IF comp[c] = Len(op[c].path)
    THEN Finish(c, "nil") /\ UNCHANGED <<comp, att>>
    ELSE /\ comp' = [comp EXCEPT ![c] = @ + 1] /\ att' = [att EXCEPT ![c] = 1]
         /\ Goto(c, "enter") /\ UNCHANGED res

\* Mutant of ComponentErr: one that exists ends the loop.
ComponentErrReturns(c, e) ==
  IF e = "exist" THEN Finish(c, "nil") /\ UNCHANGED <<comp, att>>
                 ELSE Finish(c, e) /\ UNCHANGED <<comp, att>>

\* A component that exists, whatever it is, is passed over.
ComponentErr(c, e) ==
  IF e = "exist" THEN NextComponent(c) ELSE Finish(c, e) /\ UNCHANGED <<comp, att>>

Mkdir(c) ==
  /\ pc[c] = "mkdir" /\ Usable(c)
  /\ LET p == SubSeq(op[c].path, 1, comp[c]) IN
       \/ /\ CreateCode(p) = "NoErr"
          /\ tree' = [tree EXCEPT ![p] = Dir]
          /\ Served(c, TRUE, FALSE)
          /\ \/ NextComponent(c)
             \/ Goto(c, "lost") /\ UNCHANGED <<res, comp, att>>
       \/ /\ CreateCode(p) # "NoErr"
          /\ ComponentErr(c, MapErr(CreateCode(p)))
          /\ UNCHANGED <<tree, did, disturbed>>
  /\ UNCHANGED <<linkVars, op, vol, data, marked, forks, fork, why, got, wasLink, late>>

\* The answers to FPDelete and to FPMoveAndRename.
DeleteCode(p) ==
  IF tree[p] = None THEN "ObjectNotFound" ELSE IF Children(p) # {} THEN "DirNotEmpty" ELSE "NoErr"
MoveCode(p, to) ==
  IF tree[p] = None THEN "ObjectNotFound" ELSE CreateCode(to)

\* One request that takes a name away, and may give another one.
TakeName(c, step, code, after) ==
  /\ pc[c] = step /\ Usable(c)
  /\ \/ /\ code = "NoErr" /\ tree' = after /\ Served(c, TRUE, TRUE)
        /\ \E n \in {"done", "lost"} : Goto(c, n)
        /\ UNCHANGED res
     \/ Fails(c, code) /\ UNCHANGED <<tree, did, disturbed>>
  /\ UNCHANGED <<linkVars, op, att, vol, data, marked, forks, fork, comp, why, got, wasLink,
                 late>>

Delete(c) ==
  LET p == op[c].path IN
  TakeName(c, "delete", DeleteCode(p), [tree EXCEPT ![p] = None])

Rename(c) ==
  LET p == op[c].path
      to == op[c].to
  IN TakeName(c, "move", MoveCode(p, to), [tree EXCEPT ![to] = tree[p], ![p] = None])

\* The server refuses a request that needs no cleaning up after.
CatalogRefused(c) ==
  /\ pc[c] \in {"create", "open", "mark", "mkdir", "delete", "move"} /\ Usable(c)
  /\ Fails(c, "AccessDenied")
  /\ UNCHANGED <<linkVars, op, att, vol, catalogVars>>

-----------------------------------------------------------------------------
(* The end of the deadline and of the link. *)

\* Whatever fork the call holds is closed on the way out, on a context that has
\* expired: the request may be sent or not. Only Close's own error is ignored.
CatalogTimeout(c) ==
  /\ pc[c] \notin {"enter", "done"} /\ Usable(c)
  /\ timeouts < MaxTimeouts /\ timeouts' = timeouts + 1
  /\ Finish(c, IF pc[c] = "release" THEN why[c] ELSE "timeout")
  /\ forks' \in {forks, forks \ Mine(c)}
  /\ late' = late \cup {c}
  /\ UNCHANGED <<gen, link, dialFails, outage, op, att, vol, tree, data, marked, fork, comp, why,
                 got, wasLink, did, disturbed>>

\* ReadLink has its answer, and the link dies under its close: no error.
LinkGoneAtRelease(c) ==
  /\ pc[c] = "release" /\ why[c] = "nil" /\ ~Usable(c)
  /\ Finish(c, "nil")
  /\ UNCHANGED <<linkVars, op, att, vol, catalogVars>>

\* What a dial fails with: no connection, or the refusal of FPLogin or FPOpenVol.
DialCodes == {"dial", "ObjectNotFound", "UserNotAuth"}

\* FS maps what do returns, a failed dial's error included. Of MkdirAll's
\* components none is passed over for it: it is not ObjectExists.
CatalogLinkError(c) ==
  /\ ~(pc[c] = "release" /\ why[c] = "nil")
  /\ LinkError(c, First(c), IF pc[c] = "release" THEN why[c] ELSE "link",
               {MapErr(code) : code \in DialCodes})
  /\ UNCHANGED catalogVars

CatalogStep(c) ==
  \/ Enter(c, First(c)) /\ UNCHANGED catalogVars
  \/ CreateFile(c) \/ OpenFork(c) \/ WriteTarget(c) \/ ReadTarget(c) \/ CloseFork(c)
  \/ SetFinderInfo(c) \/ DataRefused(c) \/ Mkdir(c) \/ Delete(c) \/ Rename(c)
  \/ CatalogRefused(c) \/ CatalogTimeout(c) \/ LinkGoneAtRelease(c) \/ CatalogLinkError(c)

\* The server closes the forks of a link that dies.
CatalogLinkDown ==
  /\ LinkDown /\ forks' = {}
  /\ UNCHANGED <<tree, data, marked, fork, comp, why, got, wasLink, did, late, disturbed>>

-----------------------------------------------------------------------------
\* As long as nobody removes or renames under a running call, a file that is
\* marked as a link holds a whole target, whatever fails on the way, and a
\* Readlink that found the mark returns a whole target: Symlink marks last.
LinksAreWhole ==
  disturbed = {} =>
    /\ \A f \in marked : data[f] \in Whole
    /\ \A c \in wasLink : pc[c] = "done" /\ res[c] = "nil" => got[c] \in Whole

\* When a call returns nil and nobody took a name away under any, its effect is
\* there: Symlink's link is marked and holds its target, and MkdirAll's path is
\* made of directories, but for its last name, which may be anything.
NilMeansDone ==
  [][\A c \in Calls :
       pc[c] # "done" /\ pc'[c] = "done" /\ res'[c] = "nil" /\ disturbed' = {} =>
         LET p == op[c].path IN
         /\ op[c].do = "symlink" => tree'[p] \in marked' /\ data'[tree'[p]] = c
         /\ op[c].do = "mkdirAll" =>
              /\ \A i \in 1 .. Len(p) - 1 : tree'[SubSeq(p, 1, i)] = Dir
              /\ tree'[p] # None
    ]_<<pc, res, tree, data, marked, disturbed>>

\* A call that has returned has left no fork open at the server, whichever of
\* its requests failed, unless one of them timed out.
ForksReleased ==
  \A k \in forks : pc[k.by] = "done" => k.by \in late

\* Symlink, Remove and Rename return nil only if their request was served. If
\* it was, "exists" or "does not exist" is returned only by a call that ran
\* again after its link died, under which somebody took a name away, or whose
\* dial for a second run was refused: mapErr makes no difference between that
\* and a refusal of the operation.
HonestResult ==
  \A c \in Calls : pc[c] = "done" /\ op[c].do \in {"symlink", "remove", "rename"} =>
    /\ res[c] = "nil" => c \in did
    /\ c \in did /\ res[c] \in {"exist", "notExist"} =>
         att[c] = 2 \/ c \in disturbed \/ c \in outage
=============================================================================
