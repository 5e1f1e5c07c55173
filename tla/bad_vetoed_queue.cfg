SPECIFICATION Spec
CONSTANTS
    k1 = k1
    k2 = k2
    k3 = k3
    Calls <- MCCalls
    Kinds <- MCKinds
    MaxConns = 1
    AutoReconnect = TRUE
    MaxDisconnects = 0
    MaxPauses = 0
CHECK_DEADLOCK FALSE
PROPERTIES VetoTerminatesRequests
