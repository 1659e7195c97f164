-------------------------------- MODULE MCShell --------------------------------
(* A small instance of Shell. *)
EXTENDS Shell, TLC

Symmetry == Permutations(Ids) \cup Permutations(Lists)
=============================================================================
