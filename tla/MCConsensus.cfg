\* Three replicas, two requests, one lost message, failed store or crash.
SPECIFICATION Spec
CONSTANTS
    r1 = r1
    r2 = r2
    NoRecord = NoRecord
    Node = {0, 1, 2}
    Leader = 0
    GroupSize = 3
    Request = {r1, r2}
    Entry = {0, 1}
    INT_BITS = 32
    MAP_BITS = 64
    MaxReq = 2
    MaxQueue = 1
    MaxFaults = 1
    MaxPowerLoss = 0
SYMMETRY RequestSymmetry
INVARIANTS
    TypeOK
    Agreement
    LeaderRecordPresent
    QuorumDurability
    AgreementInv
    DurabilityInv
    OnceInv
PROPERTIES
    SlotStable
CHECK_DEADLOCK FALSE
