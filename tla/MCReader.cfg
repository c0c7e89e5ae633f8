CONSTANTS
    GoodJSON <- MCGoodJSON
    Inflate <- MCInflate
    Streams <- MCStreams

SPECIFICATION Spec

INVARIANTS
    TypeOK
    BatchesSound
    AllWindowsDelivered

\* The read loop ends when ReadBatch fails; every stream is finite.
CHECK_DEADLOCK FALSE
