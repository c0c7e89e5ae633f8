CONSTANTS
    c1 = c1
    c2 = c2
    Conns <- MCConns
    FirstBytes <- MCFirstBytes
    SinkCap <- MCSinkCap
SPECIFICATION Spec
PROPERTY
    PeekEnds
CHECK_DEADLOCK FALSE
