SPECIFICATION FilesystemSpec
CONSTANTS
    Paths = {a, b}
    Threads = {t1, t2}
    None = None
    InoBound = 4
    MaxRestarts = 1
    Globs <- MCGlobs
    Permissions <- MCPermissions
    Base <- MCBase
    AskedPaths <- MCPaths
    Actions = {"Lookup", "List", "Preview"}
    Grants <- MCGrants
    Roles <- MCRoles
    MaxRules = 2
    Nothing = Nothing
SYMMETRY CacheSymmetry
INVARIANTS OneFilePerNumber FreshNumbers MapsAgree MatchesBySegments AllowedIsReachable LinkIsAsAsked
PROPERTY EditsAreMonotone
CHECK_DEADLOCK FALSE
