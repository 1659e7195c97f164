\* Every policy, with and without the evidence of benchmark runs.
SPECIFICATION MCSpec
CONSTANTS
  ollama = ollama
  openai = openai
  llama = llama
  mini = mini
  mid = mid
  wide = wide
  big = big
  t1 = t1
  t2 = t2
  None = None
  LocalProviders = {ollama}
  Grain = 6
  Catalogue <- MCCatalogue
  TaskSets = {t1, t2}
  Requests <- MCRequests
  MaxModels = 5
  MaxCards = 2
CHECK_DEADLOCK FALSE
INVARIANTS TypeOK DefaultIsCheapest StaysLocal AutoKeepsFloor EvidenceDominates
PROPERTIES BenchmarkMovesOnlyItsModels LosersDoNotMatter
