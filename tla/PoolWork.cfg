CONSTANTS
  s1 = s1
  s2 = s2
  h1 = h1
  r1 = r1
  r2 = r2
  a1 = a1
  b1 = b1
  x1 = x1
  NoTask = NoTask
  Pools <- SyncAndThumb
  StopOrder <- InStopOrder
  Lending <- SyncBorrows
  Workers = {s1, s2, h1}
  Home <- TwoAndOne
  Tasks = {r1, r2, a1, b1, x1}
  PoolOf <- OneThumbnail
  Subs <- RunsOfOne
SPECIFICATION FairSpec
INVARIANTS HandlesBalanced NoTaskForgotten NobodyLeftBehind
PROPERTIES SubmittedIsRun ShutdownEndsOrHangs
CHECK_DEADLOCK FALSE
