CONSTANTS
  Vaults = {1, 2}
  InitialVaults = {1}
  Tasks = {t1, t2, t3}
  Events = {e1, e2, e3, e4}
  Callers = {c1}
  NoTask = NoTask
  NoEvent = NoEvent
  NoVault = NoVault
  Workers = 2
  MaxFaults = 0
  MaxRequests = 1
  VaultOps = TRUE
SPECIFICATION Spec
INVARIANTS TypeOK SinglePlace SoleLiveTask DroppedOnlyBehindAnError
PROPERTY LifecycleKept
CHECK_DEADLOCK FALSE
