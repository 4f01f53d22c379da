CONSTANTS
    NUM_THREADS = 2
    QUEUE = 2
    BUF_SIZE = 2
    Request <- MCRequest
    Denied = {3}
    Secure = {2}
    MaxFaults = 1
SPECIFICATION FairSpec
CHECK_DEADLOCK FALSE
INVARIANTS
    TypeOK
    HeldOnce
    WorkersRoused
    AnsweredInOrder
    ContextAlive
    QueueInv
    CountInv
PROPERTIES
    StopReturns
