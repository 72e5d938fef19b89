----------------------------- MODULE Enumerate -----------------------------
(***************************************************************************)
(* Listing a directory (Volume.ReadDir in internal/afp/session.go and      *)
(* FS.ReadDir in internal/nfsfs/fs.go): pages of entries are fetched by    *)
(* start index while others add and remove entries, and the filesystem     *)
(* starts over, once, when the link dies.                                  *)
(***************************************************************************)
EXTENDS Integers, Sequences, FiniteSets, Functions

CONSTANTS
  Names,       \* names of entries
  Batch,       \* enumerateBatch
  MaxChanges,  \* bound on changes by others
  MaxDrops     \* bound on link failures

ASSUME EnumerateAssumption ==
  /\ IsFiniteSet(Names) /\ Batch \in Nat \ {0}
  /\ MaxChanges \in Nat /\ MaxDrops \in Nat

VARIABLES
  dir,      \* the directory, in the server's order
  start,    \* ReadDir's start index
  all,      \* the entries it has so far
  phase,    \* "loop", "done"
  err,      \* the error
  att,      \* connManager.do: which run this is
  stayed,   \* entries there from the start of this run on
  added, removed,  \* entries others added and removed during this run
  changes, drops   \* bounds used up

others == <<stayed, added, removed, changes>>
listVars == <<dir, start, all, phase, err, att, others, drops>>

ListInit ==
  /\ \E S \in SUBSET Names : dir \in Bijection(1 .. Cardinality(S), S) /\ stayed = S
  /\ start = 1 /\ all = <<>> /\ phase = "loop" /\ err = "nil" /\ att = 1
  /\ added = 0 /\ removed = 0 /\ changes = 0 /\ drops = 0

\* The server's page: as many entries as it likes, at most a batch.
Pages == {SubSeq(dir, start, e) : e \in start .. IF start + Batch - 1 < Len(dir)
                                                  THEN start + Batch - 1 ELSE Len(dir)}

\* Mutant of Page: the next page is taken to begin a whole batch further on.
PageWholeBatch(p) ==
  /\ all' = all \o p
  /\ start' = start + Batch

Page(p) ==
  /\ all' = all \o p
  /\ start' = start + Len(p)

FetchPage ==
  /\ phase = "loop" /\ start <= Len(dir)
  /\ \E p \in Pages : Page(p)
  /\ UNCHANGED <<dir, phase, err, att, others, drops>>

\* Mutant of PastEnd: only an empty page ends the loop.
PastEndUnnoticed ==
  /\ phase = "loop" /\ start > Len(dir) /\ dir = <<>>
  /\ phase' = "done"
  /\ UNCHANGED <<dir, start, all, err, att, others, drops>>

\* ResObjectNotFound, or an empty page.
PastEnd ==
  /\ phase = "loop" /\ start > Len(dir)
  /\ phase' = "done"
  /\ UNCHANGED <<dir, start, all, err, att, others, drops>>

\* Any other error of the server's, or a page that cannot be parsed.
PageError ==
  /\ phase = "loop"
  /\ phase' = "done" /\ err' = "afp" /\ all' = <<>>
  /\ UNCHANGED <<dir, start, att, others, drops>>

\* Mutant of Rerun: what the first run found is kept.
RerunKeeps == start' = 1 /\ UNCHANGED all

Rerun == start' = 1 /\ all' = <<>>

\* The link dies: do runs ReadDir again on the next one, once, and returns an
\* error the second time, when it has not noticed, or when its dial fails.
Drop ==
  /\ phase = "loop" /\ drops < MaxDrops
  /\ drops' = drops + 1
  /\ \/ /\ att = 1 /\ att' = 2 /\ Rerun
        /\ stayed' = Range(dir) /\ added' = 0 /\ removed' = 0
        /\ UNCHANGED <<phase, err>>
     \/ /\ phase' = "done" /\ err' = "link" /\ all' = <<>>
        /\ UNCHANGED <<start, att, stayed, added, removed>>
  /\ UNCHANGED <<dir, changes>>

-----------------------------------------------------------------------------
\* Somebody else adds or removes an entry.
AddEntry(n, i) ==
  /\ phase = "loop" /\ changes < MaxChanges /\ n \notin Range(dir)
  /\ dir' = [k \in 1 .. Len(dir) + 1 |->
               IF k < i THEN dir[k] ELSE IF k = i THEN n ELSE dir[k - 1]]
  /\ added' = added + 1 /\ changes' = changes + 1
  /\ UNCHANGED <<start, all, phase, err, att, stayed, removed, drops>>

RemoveEntry(i) ==
  /\ phase = "loop" /\ changes < MaxChanges
  /\ dir' = [k \in 1 .. Len(dir) - 1 |-> IF k < i THEN dir[k] ELSE dir[k + 1]]
  /\ stayed' = stayed \ {dir[i]}
  /\ removed' = removed + 1 /\ changes' = changes + 1
  /\ UNCHANGED <<start, all, phase, err, att, added, drops>>

ReadDir == FetchPage \/ PastEnd \/ PageError \/ Drop

ListNext ==
  \/ ReadDir
  \/ \E n \in Names, i \in 1 .. Len(dir) + 1 : AddEntry(n, i)
  \/ \E i \in 1 .. Len(dir) : RemoveEntry(i)

ListSpec == ListInit /\ [][ListNext]_listVars /\ WF_listVars(FetchPage \/ PastEnd)

-----------------------------------------------------------------------------
Listed == phase = "done" /\ err = "nil"

\* The listing of a directory nobody changes is the directory: nothing is
\* missed or repeated, however the server cuts its pages, also after a
\* reconnect half way.
ExactWhenQuiet == Listed /\ added = 0 /\ removed = 0 => all = dir

\* A listing is off by no more than what others changed while it ran, one for
\* one: an entry that was there all the time is missed only because another
\* was removed, and a name is repeated only because another was added.
OffByChanges ==
  Listed => /\ Cardinality(stayed \ Range(all)) <= removed
            /\ Len(all) - Cardinality(Range(all)) <= added

\* The loop ends, provided its requests do.
ListEnds == <>(phase = "done")
=============================================================================
