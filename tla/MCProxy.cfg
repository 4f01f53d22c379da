\* Two replicas, one client, two views; one server hangs up, or a submission
\* or the connection to consensus is lost.
SPECIFICATION Spec
CONSTANTS
    Node = {0, 1}
    c1 = c1
    Conn = {c1}
    Home <- HomeOfClients
    KEY_BASE = 8
    MaxView = 2
    MaxReq = 2
    MaxSend = 1
    MaxFaults = 1
INVARIANTS
    TypeOK
    ExecutesAgreed
    ConnectionsFollowLog
    NoLostWakeUp
    ReplayInv
CONSTRAINT OneInLaterViews
CHECK_DEADLOCK FALSE
