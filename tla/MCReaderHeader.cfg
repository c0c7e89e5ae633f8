CONSTANTS
    GoodJSON <- MCGoodJSON
    Inflate <- MCInflate
    Streams <- MCHeaderStreams

SPECIFICATION Spec

INVARIANT BatchesSound

CHECK_DEADLOCK FALSE
