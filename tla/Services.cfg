SPECIFICATION FairSpec
CONSTANTS
    Services <- MCServices
    Order <- MCOrder
    FUSE = "FUSE"
    MaxEnds = 2
    MaxFailures = 1
INVARIANTS NoneOutlivesTheStop TerminatedByWatchdog
PROPERTIES StopEnds DownIsRestarted
