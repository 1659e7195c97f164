\* Two processes set up, migrate and use one home, and one crash.
SPECIFICATION FairSpec
CONSTANTS
  Procs = {p1, p2}
  OldKey = old
  NoKey = none
  MaxCrashes = 1
CHECK_DEADLOCK FALSE
INVARIANTS TypeOK TokensReadable SchemaReady
PROPERTIES EditsKept ShellComes AccountComes
