CONSTANTS
    c1 = c1
    c2 = c2
    Conns <- MCConns
    MaxBatches = 2
    SinkCap = 1
    FactoryMayFail = TRUE
SPECIFICATION Spec
INVARIANTS
    TypeOK
    SinkClosedAfterHandlers
    HandlersCloseConnections
PROPERTIES
    CloseTerminates
    ServerLifecycleRefined
CHECK_DEADLOCK FALSE
