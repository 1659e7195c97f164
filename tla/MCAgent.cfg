\* Two turns of three calls between them, one file the agent may write.
SPECIFICATION FairSpec
CONSTANTS
  Files = {f}
  Barred = outside
  MaxIterations = 2
  MaxCalls = 3
  Asks <- MCAsks
CHECK_DEADLOCK FALSE
INVARIANTS TypeOK WellPaired TranscriptsSent LogTells UserFilesKept
PROPERTIES RunEnds
