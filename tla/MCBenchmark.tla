------------------------------ MODULE MCBenchmark ------------------------------
(* A small instance of Benchmark: two models, and two sets of one name.      *)
EXTENDS BenchmarkRouting

CONSTANTS llama, big

MCCatalogue == {[listed |-> 1, name |-> llama], [listed |-> 2, name |-> big]}
=============================================================================
