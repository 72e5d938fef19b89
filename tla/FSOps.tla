------------------------------- MODULE FSOps --------------------------------
(***************************************************************************)
(* Operations of FS that share one connection: concurrent calls, each a    *)
(* change of privileges (FSChange) or an operation on the catalog          *)
(* (Catalog), under one connManager (Retry).                               *)
(***************************************************************************)
EXTENDS FSChange, Catalog

CONSTANTS
  Scenarios  \* what there is at first, and the operations that run together

ASSUME FSOpsAssumption ==
  /\ Scenarios \subseteq [tree : [Paths -> {None, Dir, Old}],
                          op : [Calls -> Changes \cup CatalogOps \cup {NoCall}]]
  /\ \A s \in Scenarios : \A p, q \in Paths : s.tree[p] = Old /\ s.tree[q] = Old => p = q

vars == <<linkVars, callVars, changeVars, catalogVars>>

Init ==
  /\ \E s \in Scenarios : tree = s.tree /\ op = s.op
  /\ RetryInit /\ ChangeInit /\ CatalogInit

Next ==
  \/ \E c \in Calls :
       \/ op[c] \in Changes /\ ChangeStep(c) /\ UNCHANGED catalogVars
       \/ op[c] \in CatalogOps /\ CatalogStep(c) /\ UNCHANGED changeVars
  \/ CatalogLinkDown /\ UNCHANGED changeVars

Spec == Init /\ [][Next]_vars
=============================================================================
