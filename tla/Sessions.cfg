CONSTANTS
  Sessions = {s1, s2}
  None = None
  MaxJti = 3
  MaxEvents = 1
SPECIFICATION FairSpec
INVARIANTS OpenIsListed OneTokenPerSession
PROPERTY DeadAreEnded
CHECK_DEADLOCK FALSE
