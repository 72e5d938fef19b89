----------------------------- MODULE MCDSIConn -----------------------------
(* Instances of DSIConn for TLC. *)
EXTENDS DSIConn, TLC

\* The calls other than OpenSession's are interchangeable.
Symmetry == Permutations(Requests \ {Opener}) \cup Permutations(Closers)
=============================================================================
