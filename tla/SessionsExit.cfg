CONSTANTS
  Sessions = {s1, s2}
  None = None
  MaxJti = 3
  MaxEvents = 0
SPECIFICATION Spec
INVARIANT NeverExits
CHECK_DEADLOCK FALSE
