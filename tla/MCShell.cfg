\* A shell with two open lists that also routes, and other processes.
SPECIFICATION Spec
CONSTANTS
  Ids = {a1, a2, a3}
  Lists = {w1, w2}
  Questions = {k1}
  None = None
SYMMETRY Symmetry
CHECK_DEADLOCK FALSE
INVARIANTS TypeOK LagsOnlyBehindOthers
PROPERTIES EndsByOthers KillKills
