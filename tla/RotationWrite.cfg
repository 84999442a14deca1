CONSTANTS
  FileCount = 2
  MaxThreads = 1
  MaxRotations = 1
  MaxRestarts = 0
  MaxFaults = 0
  MaxCommands = 2
  MaxWrites = 1
SPECIFICATION Spec
INVARIANT WritesStayReadable
CHECK_DEADLOCK FALSE
