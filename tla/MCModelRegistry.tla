--------------------------- MODULE MCModelRegistry ---------------------------
(* Small instances of ModelRegistry: one cloud provider, one local one, two  *)
(* spellings of one local endpoint and a second endpoint.                    *)
EXTENDS ModelRegistry, TLC

CONSTANTS a1, a2, openai, ollama, u1, u1slash, u2

MCRank == openai :> 2 @@ ollama :> 1
MCCanon == [u \in Urls |-> IF u = u1slash THEN u1 ELSE u]
MCPrefix == [s \in Shorts |-> {a1}]
Symmetry == Permutations(Metas) \cup Permutations(Names)
ApartSymmetry == Symmetry \cup Permutations(Procs) \cup Permutations(Accounts)
=============================================================================
