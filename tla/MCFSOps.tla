------------------------------ MODULE MCFSOps -------------------------------
(* The instance of FSOps for TLC. *)
EXTENDS FSOps, TLC

MCPaths == {<<"d">>, <<"d", "e">>, <<"l">>}

MCOp(do, p, q) == [do |-> do, path |-> p, to |-> q]

MCOps ==
  {MCOp(do, <<"l">>, <<"l">>) : do \in {"symlink", "readlink", "remove"}}
    \cup {MCOp("mkdirAll", <<"d", "e">>, <<"l">>), MCOp("remove", <<"d">>, <<"l">>),
          MCOp("rename", <<"l">>, <<"d">>), MCOp("rename", <<"l">>, <<"d", "e">>)}

\* What there is at first: nothing; or something, of either kind, at one of
\* the paths; or a directory and a link.
MCTree(d, l) == (<<"d">> :> d) @@ (<<"d", "e">> :> None) @@ (<<"l">> :> l)
MCTrees ==
  {MCTree(x, None) : x \in {None, Dir, Old}} \cup {MCTree(x, Old) : x \in {None, Dir}}
    \cup {MCTree(None, Dir)}

MCCalls(a, b, x) == 1 :> a @@ 2 :> b @@ 3 :> x

\* Every two operations, up to a swap of the calls, and two links at one path
\* while a third call removes them.
MCPairs == {{a, b} : a, b \in Changes \cup MCOps}
MCScenarios ==
  {[tree |-> t, op |-> LET a == CHOOSE a \in s : TRUE
                       IN MCCalls(a, CHOOSE b \in s : s = {a, b}, NoCall)] :
     t \in MCTrees, s \in MCPairs}
    \cup {[tree |-> MCTree(None, None), op |-> LET Op(do) == MCOp(do, <<"l">>, <<"l">>) IN
                         MCCalls(Op("symlink"), Op("symlink"), Op("remove"))]}
=============================================================================
