\* A sync that succeeds after one that failed leaves the account invalid.
SPECIFICATION Spec
CONSTANTS
  a1 = a1
  a2 = a2
  openai = openai
  ollama = ollama
  u1 = u1
  u1slash = u1slash
  u2 = u2
  None = None
  Procs = {p1}
  Accounts = {a1}
  Shorts = {}
  Prefix <- MCPrefix
  CloudProviders = {openai}
  LocalProviders = {ollama}
  Rank <- MCRank
  Urls = {u1}
  Canon <- MCCanon
  Names = {m1}
  Metas = {x, y}
  MaxClock = 5
SYMMETRY Symmetry
CHECK_DEADLOCK FALSE
PROPERTIES SyncRevalidates
