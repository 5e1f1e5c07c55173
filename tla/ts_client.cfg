SPECIFICATION Spec
CONSTANTS
    k1 = k1
    k2 = k2
    k3 = k3
    Calls <- MCCalls
    Kinds <- MCKinds
    MaxConns = 3
    AutoReconnect = TRUE
    MaxDisconnects = 1
    MaxPauses = 1
CHECK_DEADLOCK FALSE
INVARIANTS TypeOK NoForgottenCaller SingleFlight DisconnectIsFinal
PROPERTIES RequestsEnd Reconnects
