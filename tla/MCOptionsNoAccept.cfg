CONSTANTS
    OptionSeqs <- MCOptionSeqs

SPECIFICATION Spec

INVARIANT
    ListenerAccepted

CHECK_DEADLOCK FALSE
