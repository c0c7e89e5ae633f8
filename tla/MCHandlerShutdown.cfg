CONSTANTS
    MaxBatches <- MCMaxBatches
    EventCounts <- MCEventCounts
    SinkCap <- MCSinkCap
    KeepaliveOn = FALSE
    MaxKeepalive <- MCMaxKeepalive
    ServerCloses = TRUE

SPECIFICATION Spec

INVARIANT
    AckOnlyAfterConsumerAck

CHECK_DEADLOCK FALSE
