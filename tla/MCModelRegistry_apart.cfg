\* Operations that overlap are about different sources, full ids: the registry is exact.
SPECIFICATION ApartSpec
CONSTANTS
  a1 = a1
  a2 = a2
  openai = openai
  ollama = ollama
  u1 = u1
  u1slash = u1slash
  u2 = u2
  None = None
  Procs = {p1, p2}
  Accounts = {a1, a2}
  Shorts = {}
  Prefix <- MCPrefix
  CloudProviders = {openai}
  LocalProviders = {ollama}
  Rank <- MCRank
  Urls = {u1, u1slash, u2}
  Canon <- MCCanon
  Names = {m1}
  Metas = {x, y}
  MaxClock = 5
SYMMETRY ApartSymmetry
CHECK_DEADLOCK FALSE
INVARIANTS
  TypeOK
  NoOrphanRows
  UniqueIdentity
PROPERTIES
  UpsertReachesRouting
  ImplementsCatalogue
