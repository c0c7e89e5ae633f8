CONSTANTS
    MaxBatches <- MCMaxBatches
    EventCounts <- MCEventCounts
    SinkCap <- MCSinkCap
    KeepaliveOn = TRUE
    MaxKeepalive = 2
    ServerCloses = FALSE

SPECIFICATION StalledConsumerSpec

INVARIANTS
    AcksFollowReadOrder
    AckOnlyAfterConsumerAck

PROPERTIES
    AckChannelRefined
    KeepaliveWhileWaiting

\* A consumer that has stopped leaves the handler waiting.
CHECK_DEADLOCK FALSE
