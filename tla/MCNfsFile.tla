----------------------------- MODULE MCNfsFile -----------------------------
(* Instances of NfsFile for TLC. *)
EXTENDS NfsFile, TLC

\* Files are interchangeable, and so are paths.
Symmetry == Permutations(Files) \cup Permutations(Paths)
=============================================================================
