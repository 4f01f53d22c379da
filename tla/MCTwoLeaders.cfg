\* Timers that fire while election messages are still on the way.
SPECIFICATION Spec
CONSTANTS
    GroupSize = 3
    OldLeader = 0
    MaxReq = 0
    MaxPnum = 5
    MaxQueue = 4
    MaxFaults = 1
    MaxCrash = 1
    MaxRestart = 0
INVARIANTS
    OneLeader
CHECK_DEADLOCK FALSE
