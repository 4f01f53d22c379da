\* Two requests of view 1; one lost message or unfounded suspicion, one crash,
\* one restart.
SPECIFICATION Spec
CONSTANTS
    GroupSize = 3
    OldLeader = 0
    MaxReq = 2
    MaxPnum = 5
    MaxQueue = 0
    MaxFaults = 1
    MaxCrash = 1
    MaxRestart = 1
INVARIANTS
    TypeOK
    OneLeader
    CommittedKept
    Unchallenged
    KeptInv
CHECK_DEADLOCK FALSE
