CONSTANTS
    c1 = c1
    c2 = c2
    Conns <- MCConns
    MaxBatches = 2
    SinkCap = 1
    FactoryMayFail = TRUE
SPECIFICATION Spec
INVARIANT
    ClosedServerHoldsNoConnection
CHECK_DEADLOCK FALSE
