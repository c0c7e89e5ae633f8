CONSTANTS
    c1 = c1
    c2 = c2
    Conns <- MCConns
    FirstBytes <- MCFirstBytes
    SinkCap <- MCSinkCap

SPECIFICATION Spec

INVARIANTS
    TypeOK

PROPERTIES
    ShutdownReleasesConnection
    TopLifecycleRefined

\* Once every connection is routed or closed and Close has returned, nothing
\* is left to do.
CHECK_DEADLOCK FALSE
