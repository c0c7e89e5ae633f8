----------------------------- MODULE AckChannel -----------------------------
(***************************************************************************)
(* What one lumberjack connection promises its client, with no goroutines, *)
(* channels or timers: windows are accepted in order; the application      *)
(* confirms them in any order; while the connection can still write, it    *)
(* ACKs the oldest unACKed window once that window is confirmed, carrying  *)
(* its event count, or writes a keep-alive (count 0); once it can no       *)
(* longer write it writes nothing again.  Module Handler implements it.    *)
(***************************************************************************)
EXTENDS Naturals, Sequences

CONSTANTS MaxBatches, EventCounts

VARIABLES
    sent,       \* event counts of the windows accepted, in order
    confirmed,  \* windows the application has confirmed
    wire,       \* frames written to the client
    open        \* the connection can still write frames

vars == <<sent, confirmed, wire, open>>

\* Number of ACK frames written so far.
Acked == Len(SelectSeq(wire, LAMBDA n : n > 0))

Init ==
    /\ sent = <<>> /\ confirmed = {} /\ wire = <<>> /\ open = TRUE

Accept ==
    /\ Len(sent) < MaxBatches
    /\ \E n \in EventCounts : sent' = Append(sent, n)
    /\ UNCHANGED <<confirmed, wire, open>>

Confirm ==
    /\ \E i \in 1..Len(sent) \ confirmed : confirmed' = confirmed \cup {i}
    /\ UNCHANGED <<sent, wire, open>>

Ack ==
    /\ open
    /\ Acked < Len(sent)
    /\ Acked + 1 \in confirmed
    /\ wire' = Append(wire, sent[Acked + 1])
    /\ UNCHANGED <<sent, confirmed, open>>

KeepAlive ==
    /\ open
    /\ wire' = Append(wire, 0)
    /\ UNCHANGED <<sent, confirmed, open>>

Close ==
    /\ open
    /\ open' = FALSE
    /\ UNCHANGED <<sent, confirmed, wire>>

Next == Accept \/ Confirm \/ Ack \/ KeepAlive \/ Close

Spec == Init /\ [][Next]_vars

=============================================================================
