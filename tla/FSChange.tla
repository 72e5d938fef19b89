------------------------------ MODULE FSChange ------------------------------
(***************************************************************************)
(* FS.Chmod and FS.Chown (internal/nfsfs/fs.go): AFP has one request that  *)
(* sets owner, group and mode together, so each call reads all of them     *)
(* (Volume.Stat), replaces its own and writes them back (SetUnixPrivs of   *)
(* internal/afp/setparams.go).  FS.Chtimes sets the time alone.  Calls on  *)
(* one object run concurrently, and connManager.do runs each again, once,  *)
(* when its link is found dead.                                            *)
(***************************************************************************)
EXTENDS Retry

CONSTANTS
  Carries  \* the volume carries unix privileges

ASSUME FSChangeAssumption == Carries \in BOOLEAN

Privs == {"kind", "mode", "uid", "gid"}
Fields == Privs \cup {"mtime"}

\* What a call changes: chmod the mode; chown the IDs that are not negative.
Chtimes == [do |-> "chtimes", fields |-> {"mtime"}]
Changes == {Chtimes} \cup {[do |-> "change", fields |-> f] :
                             f \in {{"mode"}, {"uid"}, {"gid"}, {"uid", "gid"}}}

VARIABLES
  obj,                 \* for each field, the call that set it last, 0 for nobody
  read,                \* what each call's Stat returned
  clock, statAt, setAt \* when its first Stat and its last SetUnixPrivs were served

changeVars == <<obj, read, clock, statAt, setAt>>

ChangeInit ==
  /\ obj = [f \in Fields |-> 0] /\ read = [c \in Calls |-> obj]
  /\ clock = 0 /\ statAt = [c \in Calls |-> 0] /\ setAt = [c \in Calls |-> 0]

Answer(c, carries) == Goto(c, IF carries THEN "enter" ELSE "done")

\* Mutant of Sample: a volume whose link is dead is taken for none.
SampleFromDead(c) ==
  /\ pc[c] = "start"
  /\ \/ UNCHANGED linkVars /\ Answer(c, link = "up" /\ Carries)
     \/ link = "none" /\ Dial /\ Answer(c, Carries)
     \/ link = "none" /\ DialFail(c) /\ Answer(c, FALSE)
  /\ UNCHANGED <<op, att, vol, res, changeVars>>

\* supportsUnixPrivs asks the volume at hand, which takes no request; if there
\* is none and none can be had, the answer is no.
Sample(c) ==
  /\ pc[c] = "start"
  /\ \/ link # "none" /\ UNCHANGED linkVars /\ Answer(c, Carries)
     \/ link = "none" /\ Dial /\ Answer(c, Carries)
     \/ link = "none" /\ DialFail(c) /\ Answer(c, FALSE)
  /\ UNCHANGED <<op, att, vol, res, changeVars>>

Stat(c) ==
  /\ pc[c] = "stat" /\ Usable(c)
  /\ read' = [read EXCEPT ![c] = obj]
  /\ clock' = clock + 1 /\ statAt' = [statAt EXCEPT ![c] = IF @ = 0 THEN clock' ELSE @]
  /\ Goto(c, "set")
  /\ UNCHANGED <<linkVars, op, att, vol, res, obj, setAt>>

\* Mutant of NewPrivs: what is not to be changed is what it was at first.
NewPrivsStale(c) == [f \in Privs |-> IF f \in op[c].fields THEN c ELSE 0]

\* What the call writes back; the file type is part of the mode on the wire.
NewPrivs(c) == [f \in Privs |-> IF f \in op[c].fields THEN c ELSE read[c][f]]

\* SetUnixPrivs or SetModTime is served; its answer arrives or is lost.
Set(c) ==
  /\ pc[c] = "set" /\ Usable(c)
  /\ obj' = IF op[c] = Chtimes THEN [obj EXCEPT !["mtime"] = c]
            ELSE [f \in Fields |-> IF f \in Privs THEN NewPrivs(c)[f] ELSE obj[f]]
  /\ clock' = clock + 1 /\ setAt' = [setAt EXCEPT ![c] = clock']
  /\ \E n \in {"done", "lost"} : Goto(c, n)
  /\ UNCHANGED <<linkVars, op, att, vol, res, read, statAt>>

\* The server refuses.
ChangeRefused(c) ==
  /\ pc[c] \in {"stat", "set"} /\ Usable(c)
  /\ Finish(c, "afp")
  /\ UNCHANGED <<linkVars, op, att, vol, changeVars>>

FirstRequest(c) == IF op[c] = Chtimes THEN "set" ELSE "stat"

ChangeStep(c) ==
  \/ Sample(c) \/ Stat(c) \/ Set(c) \/ ChangeRefused(c)
  \/ /\ \/ Enter(c, FirstRequest(c)) \/ Timeout(c)
        \/ LinkError(c, FirstRequest(c), "link", {"dial"})
     /\ UNCHANGED changeVars

-----------------------------------------------------------------------------
\* What a call has set stays until somebody sets it again, or until a call
\* that had read before writes back what it read: an update is lost only to a
\* call that overlaps it, and a time not even to that.
LostOnlyToOverlap ==
  \A c \in Calls : pc[c] = "done" /\ setAt[c] # 0 =>
    \A f \in op[c].fields : obj[f] = c \/ \E d \in Calls \ {c} :
      /\ setAt[d] > setAt[c]
      /\ f \in op[d].fields \/ (f \in Privs /\ statAt[d] \in 1 .. setAt[c] - 1)

\* On a volume that carries privileges a call returns nil without having set
\* anything only if a dial of its own has failed: a dead link, or a dial that
\* failed for somebody else, is not taken for a volume that lacks them.
NoopOnlyInOutage ==
  \A c \in Calls : op[c] \in Changes /\ pc[c] = "done" /\ res[c] = "nil" /\ Carries
                   /\ setAt[c] = 0 => c \in outage
=============================================================================
