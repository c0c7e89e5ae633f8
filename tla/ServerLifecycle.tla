--------------------------- MODULE ServerLifecycle ---------------------------
(***************************************************************************)
(* What a lumberjack server promises about its connections and its sink,  *)
(* with no goroutines, wait groups or signals: it takes connections while  *)
(* it serves; each taken connection has a handler that sends batches into  *)
(* the sink until it finishes; Close stops taking connections, makes every *)
(* handler finish, returns only once none is left, and then closes the     *)
(* sink if the server owns it.  No batch is sent into a closed sink.       *)
(* Module Server implements it.                                            *)
(***************************************************************************)
EXTENDS Naturals, Sequences

CONSTANTS Conns, SinkCap

VARIABLES
    own,        \* the server owns the sink
    phase,      \* "serving", "closing" (Close called) or "closed" (returned)
    taken,      \* connections that got a handler
    active,     \* connections whose handler still runs
    sink,       \* batches in the sink, named by their connection
    sinkClosed  \* the sink has been closed

vars == <<own, phase, taken, active, sink, sinkClosed>>

Init ==
    /\ own \in BOOLEAN /\ phase = "serving"
    /\ taken = {} /\ active = {}
    /\ sink = <<>> /\ sinkClosed = FALSE

Take(c) ==
    /\ phase = "serving" /\ c \notin taken
    /\ taken' = taken \cup {c} /\ active' = active \cup {c}
    /\ UNCHANGED <<own, phase, sink, sinkClosed>>

Send(c) ==
    /\ c \in active /\ ~sinkClosed /\ Len(sink) < SinkCap
    /\ sink' = Append(sink, c)
    /\ UNCHANGED <<own, phase, taken, active, sinkClosed>>

Finish(c) ==
    /\ c \in active
    /\ active' = active \ {c}
    /\ UNCHANGED <<own, phase, taken, sink, sinkClosed>>

Consume ==
    /\ sink # <<>>
    /\ sink' = Tail(sink)
    /\ UNCHANGED <<own, phase, taken, active, sinkClosed>>

BeginClose ==
    /\ phase = "serving"
    /\ phase' = "closing"
    /\ UNCHANGED <<own, taken, active, sink, sinkClosed>>

EndClose ==
    /\ phase = "closing" /\ active = {}
    /\ phase' = "closed"
    /\ UNCHANGED <<own, taken, active, sink, sinkClosed>>

CloseSink ==
    /\ phase = "closed" /\ own /\ ~sinkClosed
    /\ sinkClosed' = TRUE
    /\ UNCHANGED <<own, phase, taken, active, sink>>

Next ==
    \/ \E c \in Conns : Take(c) \/ Send(c) \/ Finish(c)
    \/ Consume \/ BeginClose \/ EndClose \/ CloseSink

(* Once Close is under way every handler finishes, Close returns and an    *)
(* owned sink is closed; nothing is promised while the server serves.      *)
Spec ==
    /\ Init /\ [][Next]_vars
    /\ \A c \in Conns : WF_vars(phase # "serving" /\ Finish(c))
    /\ WF_vars(EndClose) /\ WF_vars(CloseSink)

=============================================================================
