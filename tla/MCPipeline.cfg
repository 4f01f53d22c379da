\* Two of three replicas are up; three requests in the pipeline, one fault, and
\* a host crash that takes unsynced records.
SPECIFICATION Spec
CONSTANTS
    r1 = r1
    r2 = r2
    r3 = r3
    NoRecord = NoRecord
    Node = {0, 1}
    Leader = 0
    GroupSize = 3
    Request = {r1, r2, r3}
    Entry = {0, 1}
    INT_BITS = 32
    MAP_BITS = 64
    MaxReq = 3
    MaxQueue = 3
    MaxFaults = 1
    MaxPowerLoss = 1
INVARIANTS
    ExecutedOnce
PROPERTIES
    ImplementsLog
CHECK_DEADLOCK FALSE
