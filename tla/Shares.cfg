SPECIFICATION Spec
CONSTANTS
    Conns = {c1, c2}
    Names = {n1}
    None = None
    SessionBound = 2
    UploadBound = 2
    Size = 1
    FileLimit = 1
    MaxAttempts = 1
    MaxChanges = 1
    Scenarios <- MCScenarios
CHECK_DEADLOCK FALSE
INVARIANTS TypeOK RotationEndsSessions CompleteIsStored BytesAgree
PROPERTIES UploadsKeepToIt EveryUploadEnds
