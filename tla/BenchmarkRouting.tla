--------------------------- MODULE BenchmarkRouting ---------------------------
(* What routing sees of Benchmark is Routing: however long a run takes and    *)
(* whatever happens meanwhile, scores come in such steps only, and nothing    *)
(* ever takes one away.                                                      *)
EXTENDS Benchmark

CONSTANT Grain   \* a score of Grain is 1.0

ASSUME GrainAssumption == Grain \in Nat \ {0} /\ \A n \in 1..MaxTasks : Grain % n = 0

(* Scorecard.score: the pass rate, in Grain parts; 0 without tasks.          *)
PassRate(c) == IF c.total = 0 THEN 0 ELSE (c.passed * Grain) \div c.total

(* What scores_by_model reads of a scorecard. *)
Seen(c) == [set |-> c.set, name |-> c.row.name, score |-> PassRate(c)]

R == INSTANCE Routing WITH
  TaskSets <- 1..MaxSets,
  cards <- {Seen(c) : c \in cards},
  MaxModels <- Cardinality(Catalogue),
  MaxCards <- MaxRuns * Cardinality(Catalogue),
  LocalProviders <- {}, Requests <- {}, None <- 0

(* Benchmark implements the part of Routing that produces the evidence: a    *)
(* score is between none and all, of a set that exists and a model of the    *)
(* catalogue, and it stays.                                                  *)
ImplementsRouting == R!Spec
=============================================================================
