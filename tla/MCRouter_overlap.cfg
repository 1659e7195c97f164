\* A shell and a CLI process, interleaved in every way; every operation ends.
SPECIFICATION FairSpec
CONSTANTS
  None = None
  Procs = {p1, p2}
  Shells = {p2}
  Routes = {r1, r2}
  Questions = {k1, k2}
  TaskTypes = {{k1}, {k2}}
  Models = {m}
  Suits <- MCSuits
  Ttl = 1
  MaxAge = 1
  MaxClock = 1
CHECK_DEADLOCK FALSE
INVARIANTS TypeOK AnsweredRight CacheHoldsAnswers TracesTell
PROPERTIES OperationsEnd
