CONSTANTS
  top = top
  nested = nested
  c1 = c1
  c2 = c2
  Garble = Garble
  None = None
  Files = {top, nested}
  Contents = {c1, c2}
  Size <- Lengths
  Tag = 2
  PurgeKey <- FileNameOnly
  Modes <- EveryMode
  MaxEdits = 2
  MaxFaults = 1
SPECIFICATION Spec
INVARIANTS RunReconciles TopFilesStayDeleted OneActionPerFile
PROPERTIES LastCopyIsKept
SYMMETRY SameLength
