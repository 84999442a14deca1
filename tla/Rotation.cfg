CONSTANTS
  FileCount = 4
  MaxThreads = 2
  MaxRotations = 2
  MaxRestarts = 1
  MaxFaults = 1
  MaxCommands = 2
  MaxWrites = 1
SPECIFICATION FairSpec
INVARIANTS NoFileIsLost ReadableOutsideWindows
PROPERTIES FinishedMeansRotated RotationEnds
CHECK_DEADLOCK FALSE
