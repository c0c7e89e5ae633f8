CONSTANTS
    GoodJSON <- MCGoodJSON
    Inflate <- MCInflate
    Streams <- MCMixedStreams

SPECIFICATION Spec

INVARIANT AllWindowsDelivered

CHECK_DEADLOCK FALSE
