\* Two routes of one question both miss: the INSERT of the second fails, and
\* its paid, valid answer is lost without a trace.
SPECIFICATION RacingSpec
CONSTANTS
  None = None
  Procs = {p1, p2}
  Shells = {}
  Routes = {r1, r2}
  Questions = {k1}
  TaskTypes = {{k1}}
  Models = {m}
  Suits <- MCSuits
  Ttl = 1
  MaxAge = 1
  MaxClock = 1
SYMMETRY Symmetry
CHECK_DEADLOCK FALSE
INVARIANTS NothingPaidIsLost
