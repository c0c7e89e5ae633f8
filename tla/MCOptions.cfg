CONSTANTS
    OptionSeqs <- MCOptionSeqs

SPECIFICATION Spec

INVARIANTS
    TypeOK
    NewServerAsSpecified
    ListenerHeldByServer

\* One call per behaviour: the state after it has no successor.
CHECK_DEADLOCK FALSE
