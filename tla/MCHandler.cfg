CONSTANTS
    MaxBatches <- MCMaxBatches
    EventCounts <- MCEventCounts
    SinkCap <- MCSinkCap
    KeepaliveOn = TRUE
    MaxKeepalive <- MCMaxKeepalive
    ServerCloses = TRUE

SPECIFICATION Spec

INVARIANTS
    TypeOK
    BackPressure

PROPERTIES
    BatchEventuallyAcked
    HandlerTerminates

\* A connection whose handler has returned and whose batches are all
\* acknowledged has nothing left to do.
CHECK_DEADLOCK FALSE
