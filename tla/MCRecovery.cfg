\* One request, one node that restarts, then the leader of view 1 dies.
SPECIFICATION Spec
CONSTANTS
    GroupSize = 3
    OldLeader = 0
    MaxReq = 1
    MaxPnum = 4
    MaxQueue = 0
    MaxFaults = 1
    MaxCrash = 2
    MaxRestart = 1
INVARIANTS
    PersistentKept
CHECK_DEADLOCK FALSE
