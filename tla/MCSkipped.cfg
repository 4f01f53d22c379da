\* Two replicas that see one view change; no fault of the proxies.
SPECIFICATION Spec
CONSTANTS
    Node = {0, 1}
    c1 = c1
    Conn = {c1}
    Home <- HomeOfClients
    KEY_BASE = 8
    MaxView = 2
    MaxReq = 2
    MaxSend = 1
    MaxFaults = 0
INVARIANTS
    SameSequence
CHECK_DEADLOCK FALSE
