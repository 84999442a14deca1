CONSTANTS
  Vaults = {1, 2}
  InitialVaults = {1, 2}
  Tasks = {t1, t2, t3}
  Events = {e1, e2, e3, e4}
  Callers = {c1}
  NoTask = NoTask
  NoEvent = NoEvent
  NoVault = NoVault
  Workers = 2
  MaxFaults = 1
  MaxRequests = 2
  VaultOps = FALSE
SPECIFICATION OneOrAllSpec
PROPERTIES ScheduledIsServed RunNowReturns
CHECK_DEADLOCK FALSE
