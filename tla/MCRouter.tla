-------------------------------- MODULE MCRouter --------------------------------
(* Small instances of Router. *)
EXTENDS Router, TLC

MCSuits == [k \in Questions |-> Models]
Symmetry == Permutations(Routes)
ApartSymmetry == Symmetry \cup Permutations(Procs)

(* Routes under the default policy only, and nobody clears the cache or      *)
(* disconnects a model: the one thing left that may fail after the provider  *)
(* was paid and its answer accepted is the INSERT of store.                  *)
Storing ==
  /\ \A r \in Routes : runs[r].default
  /\ \A p \in Procs : ~At(p, "clear")
RacingSpec == Init /\ [][Next /\ Storing' /\ models \subseteq models']_vars
=============================================================================
