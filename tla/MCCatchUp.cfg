\* Three faults around one request.
SPECIFICATION FairSpec
CONSTANTS
    r1 = r1
    NoRecord = NoRecord
    Node = {0, 1, 2}
    Leader = 0
    GroupSize = 3
    Request = {r1}
    Entry = {0, 1}
    INT_BITS = 32
    MAP_BITS = 64
    MaxReq = 1
    MaxQueue = 0
    MaxFaults = 3
    MaxPowerLoss = 0
PROPERTIES
    CatchUp
CHECK_DEADLOCK FALSE
