\* Operations that overlap are about different cache entries.
SPECIFICATION ApartSpec
CONSTANTS
  None = None
  Procs = {p1, p2}
  Shells = {p1, p2}
  Routes = {r1, r2, r3}
  Questions = {k1, k2}
  TaskTypes = {{k1}, {k2}}
  Models = {m}
  Suits <- MCSuits
  Ttl = 1
  MaxAge = 1
  MaxClock = 2
SYMMETRY ApartSymmetry
CHECK_DEADLOCK FALSE
INVARIANTS NothingPaidIsLost
PROPERTIES HitsAreFresh
