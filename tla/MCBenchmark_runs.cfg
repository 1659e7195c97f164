\* A shell and a CLI process create sets, add tasks and run benchmarks.
SPECIFICATION Spec
CONSTANTS
  llama = llama
  big = big
  Procs = {cli, tui}
  Shells = {tui}
  Names = {n1}
  Catalogue <- MCCatalogue
  MaxSets = 2
  MaxTasks = 2
  MaxRuns = 2
  Grain = 2
CHECK_DEADLOCK FALSE
INVARIANTS TypeOK RunsAreWhole
PROPERTIES ImplementsRouting
