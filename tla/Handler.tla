------------------------------ MODULE Handler ------------------------------
(***************************************************************************)
(* One lumberjack connection as served by defaultHandler                  *)
(* (src/server/internal/handler.go): the read loop handle(), the ACK loop  *)
(* ackLoop()/waitACK(), the once-guarded Stop(), the chanCallback that     *)
(* hands batches to the server's sink channel, the shutdown watcher of     *)
(* startConnHandler, and the application consumer that receives batches    *)
(* from the sink and acknowledges them.                                    *)
(*                                                                         *)
(* A batch is named by its position in the connection (1, 2, ...); its     *)
(* only data is its event count.  The wire towards the client is the       *)
(* sequence of counts written by ACKWriter: n > 0 for ACK(n), 0 for a      *)
(* keep-alive.                                                             *)
(***************************************************************************)
EXTENDS Naturals, Sequences, SequencesExt, FiniteSets

CONSTANTS
    MaxBatches,    \* bound on the windows the client sends on the connection
    EventCounts,   \* window sizes the client may announce (all > 0)
    SinkCap,       \* buffer of the server sink channel (128 in the code)
    KeepaliveOn,   \* h.keepalive > 0
    MaxKeepalive,  \* bound on keep-alive frames written while one batch waits
    ServerCloses   \* Server.Close() may be called while the connection lives

ASSUME /\ MaxBatches \in Nat \ {0}
       /\ EventCounts \subseteq Nat \ {0} /\ EventCounts # {}
       /\ SinkCap \in Nat \ {0}
       /\ KeepaliveOn \in BOOLEAN
       /\ MaxKeepalive \in Nat
       /\ ServerCloses \in BOOLEAN

Batches == 1..MaxBatches

VARIABLES
    rd,          \* pc of the read loop handle()
    sizes,       \* event counts of the batches read so far, in read order
    ack,         \* pc of ackLoop
    ackCur,      \* batch passed to waitACK
    kaCount,     \* keep-alives written while waiting for ackCur
    signal,      \* h.signal closed
    connClosed,  \* h.client closed
    chClosed,    \* h.ch closed
    watcher,     \* pc of the shutdown watcher goroutine of startConnHandler
    srvDone,     \* server stop signal s.sig.Sig() closed
    sink,        \* server channel s.ch (batches in flight to the consumer)
    consumed,    \* batches the consumer has received
    acked,       \* batches the consumer has acknowledged (batch.ACK())
    wire         \* frames written to the client by ACKWriter

vars == <<rd, sizes, ack, ackCur, kaCount, signal, connClosed, chClosed,
          watcher, srvDone, sink, consumed, acked, wire>>

\* The batch held by the read loop is always the last one it read.
held == Len(sizes)

\* ACK frames on the wire, keep-alives left out.
AckFrames == SelectSeq(wire, LAMBDA n : n > 0)

TypeOK ==
    /\ rd \in {"read", "push", "deliver", "stop", "done"}
    /\ sizes \in BoundedSeq(EventCounts, MaxBatches)
    /\ ack \in {"select", "wait", "drain", "done"}
    /\ ackCur \in 0..MaxBatches
    /\ kaCount \in 0..MaxKeepalive
    /\ signal \in BOOLEAN /\ connClosed \in BOOLEAN /\ chClosed \in BOOLEAN
    /\ watcher \in {"watch", "stop", "done"}
    /\ srvDone \in BOOLEAN
    /\ sink \in BoundedSeq(Batches, SinkCap)
    /\ consumed \subseteq Batches /\ acked \subseteq consumed
    /\ wire \in Seq(EventCounts \cup {0})

Init ==
    /\ rd = "read" /\ sizes = <<>>
    /\ ack = "select" /\ ackCur = 0 /\ kaCount = 0
    /\ signal = FALSE /\ connClosed = FALSE /\ chClosed = FALSE
    /\ watcher = "watch" /\ srvDone = FALSE
    /\ sink = <<>> /\ consumed = {} /\ acked = {} /\ wire = <<>>

-----------------------------------------------------------------------------
(* Stop(), first step: the caller enters stopGuard.Do and the first one   *)
(* closes h.signal.  The connection is closed by a later step (StopClose), *)
(* and every caller of Stop waits in Do until that step has happened.      *)
Stop ==
    /\ signal' = TRUE
    /\ UNCHANGED connClosed

(* handle() returns: its defers run h.Stop() (then close(h.ch), in         *)
(* HandleExit).                                                            *)
HandleReturn ==
    /\ rd' = "stop"
    /\ Stop
    /\ UNCHANGED chClosed

(* ReadBatch delivers a complete non-empty window of n events.  The client *)
(* decides when (or whether) it sends one, so this step is not fair.       *)
(* An empty window (count 0) returns nil and the loop continues: a stutter *)
(* step of this model (the framing is in module Reader).                   *)
ReadWindow ==
    /\ rd = "read" /\ ~connClosed
    /\ Len(sizes) < MaxBatches
    /\ \E n \in EventCounts : sizes' = Append(sizes, n)
    /\ rd' = "push"
    /\ UNCHANGED <<ack, ackCur, kaCount, signal, connClosed, chClosed,
                   watcher, srvDone, sink, consumed, acked, wire>>

(* ReadBatch fails while the connection is open: EOF from the client,      *)
(* protocol error, read deadline exceeded mid-window, decoder error.       *)
ReadError ==
    /\ rd = "read" /\ ~connClosed
    /\ HandleReturn
    /\ UNCHANGED <<sizes, ack, ackCur, kaCount, watcher, srvDone, sink,
                   consumed, acked, wire>>

(* ReadBatch on a closed connection fails: this is how Stop unblocks the   *)
(* read loop.                                                              *)
ReadClosed ==
    /\ rd = "read" /\ connClosed
    /\ HandleReturn
    /\ UNCHANGED <<sizes, ack, ackCur, kaCount, watcher, srvDone, sink,
                   consumed, acked, wire>>

(* select { case <-h.signal: return nil ... } in the push to the ACK loop. *)
PushStopped ==
    /\ rd = "push" /\ signal
    /\ HandleReturn
    /\ UNCHANGED <<sizes, ack, ackCur, kaCount, watcher, srvDone, sink,
                   consumed, acked, wire>>

\* Mutant: the ACK loop starts waitACK(b) without waiting for it
\* (as `go h.waitACK(b)` would), and is at once ready for the next batch.
HandoffNoWait ==
    /\ rd = "push"
    /\ rd' = "deliver"
    /\ ack \in {"select", "drain"}
    /\ UNCHANGED <<ack, ackCur, kaCount, sizes, signal, connClosed, chClosed,
                   watcher, srvDone, sink, consumed, acked, wire>>

(* h.ch <- b: rendezvous of the read loop with the ACK loop's receive      *)
(* (in its main select, then waitACK(b)), or with the drain loop.          *)
Handoff ==
    /\ rd = "push"
    /\ rd' = "deliver"
    /\ \/ /\ ack = "select"
          /\ ack' = "wait" /\ ackCur' = held /\ kaCount' = 0
       \/ /\ ack = "drain"
          /\ UNCHANGED <<ack, ackCur, kaCount>>
    /\ UNCHANGED <<sizes, signal, connClosed, chClosed, watcher, srvDone,
                   sink, consumed, acked, wire>>

\* Mutant: off-by-one in the test for a free slot of the sink channel.
DeliverOffByOne ==
    /\ rd = "deliver"
    /\ Len(sink) < SinkCap - 1
    /\ sink' = Append(sink, held)
    /\ rd' = "read"
    /\ UNCHANGED <<sizes, ack, ackCur, kaCount, signal, connClosed, chClosed,
                   watcher, srvDone, consumed, acked, wire>>

\* Mutant: the send to the sink channel does not wait for a free slot.
DeliverNoBlock ==
    /\ rd = "deliver"
    /\ sink' = Append(sink, held)
    /\ rd' = "read"
    /\ UNCHANGED <<sizes, ack, ackCur, kaCount, signal, connClosed, chClosed,
                   watcher, srvDone, consumed, acked, wire>>

(* h.cb.OnEvents(b) = chanCallback: the send to the sink channel succeeds. *)
Deliver ==
    /\ rd = "deliver"
    /\ Len(sink) < SinkCap
    /\ sink' = Append(sink, held)
    /\ rd' = "read"
    /\ UNCHANGED <<sizes, ack, ackCur, kaCount, signal, connClosed, chClosed,
                   watcher, srvDone, consumed, acked, wire>>

(* chanCallback sees the server's done signal and returns io.EOF; handle   *)
(* then returns nil.                                                       *)
DeliverAborted ==
    /\ rd = "deliver" /\ srvDone
    /\ HandleReturn
    /\ UNCHANGED <<sizes, ack, ackCur, kaCount, watcher, srvDone, sink,
                   consumed, acked, wire>>

-----------------------------------------------------------------------------
(* ackLoop's select: the stop signal wins, or h.ch is found closed; both   *)
(* return, and the deferred loop then drains h.ch.                         *)
AckLoopExit ==
    /\ ack = "select"
    /\ signal \/ chClosed
    /\ ack' = "drain"
    /\ UNCHANGED <<rd, sizes, ackCur, kaCount, signal, connClosed, chClosed,
                   watcher, srvDone, sink, consumed, acked, wire>>

(* The deferred `for range h.ch {}` ends once the read loop closed h.ch.   *)
DrainEnd ==
    /\ ack = "drain" /\ chClosed
    /\ ack' = "done"
    /\ UNCHANGED <<rd, sizes, ackCur, kaCount, signal, connClosed, chClosed,
                   watcher, srvDone, sink, consumed, acked, wire>>

(* waitACK: <-h.signal returns nil, and ackLoop goes back to its select.   *)
WaitStopped ==
    /\ ack = "wait" /\ signal
    /\ ack' = "select"
    /\ UNCHANGED <<rd, sizes, ackCur, kaCount, signal, connClosed, chClosed,
                   watcher, srvDone, sink, consumed, acked, wire>>

\* Mutant: the ACK is written without waiting for batch.Await().
WaitAckedNoAwait ==
    /\ ack = "wait"
    /\ \/ /\ ~connClosed
          /\ wire' = Append(wire, sizes[ackCur])
          /\ ack' = "select"
       \/ /\ ack' = "drain"
          /\ UNCHANGED wire
    /\ UNCHANGED <<rd, sizes, ackCur, kaCount, signal, connClosed, chClosed,
                   watcher, srvDone, sink, consumed, acked>>

\* Mutant: waitACK keeps waiting on the batch after writing its ACK.
WaitAckedNoReturn ==
    /\ ack = "wait" /\ ackCur \in acked
    /\ \/ /\ ~connClosed
          /\ wire' = Append(wire, sizes[ackCur])
          /\ UNCHANGED ack
       \/ /\ ack' = "drain"
          /\ UNCHANGED wire
    /\ UNCHANGED <<rd, sizes, ackCur, kaCount, signal, connClosed, chClosed,
                   watcher, srvDone, sink, consumed, acked>>

(* waitACK: <-batch.Await() fires and ACK(len(batch.Events)) is written.   *)
(* The write fails on a closed connection, and may fail on an open one;    *)
(* on failure ackLoop returns and drains h.ch without ACKing.              *)
WaitAcked ==
    /\ ack = "wait" /\ ackCur \in acked
    /\ \/ /\ ~connClosed
          /\ wire' = Append(wire, sizes[ackCur])
          /\ ack' = "select"
       \/ /\ ack' = "drain"
          /\ UNCHANGED wire
    /\ UNCHANGED <<rd, sizes, ackCur, kaCount, signal, connClosed, chClosed,
                   watcher, srvDone, sink, consumed, acked>>

\* Mutant: the keep-alive timer writes ACK(n) instead of Keepalive(0).
WaitKeepaliveWritesCount ==
    /\ ack = "wait" /\ KeepaliveOn
    /\ kaCount < MaxKeepalive
    /\ \/ /\ ~connClosed
          /\ wire' = Append(wire, sizes[ackCur])
          /\ kaCount' = kaCount + 1
          /\ UNCHANGED ack
       \/ /\ ack' = "drain"
          /\ UNCHANGED <<wire, kaCount>>
    /\ UNCHANGED <<rd, sizes, ackCur, signal, connClosed, chClosed,
                   watcher, srvDone, sink, consumed, acked>>

\* Mutant: waitACK returns after the first keep-alive instead of waiting on.
WaitKeepaliveReturns ==
    /\ ack = "wait" /\ KeepaliveOn
    /\ kaCount < MaxKeepalive
    /\ \/ /\ ~connClosed
          /\ wire' = Append(wire, 0)
          /\ kaCount' = kaCount + 1
          /\ ack' = "select"
       \/ /\ ack' = "drain"
          /\ UNCHANGED <<wire, kaCount>>
    /\ UNCHANGED <<rd, sizes, ackCur, signal, connClosed, chClosed,
                   watcher, srvDone, sink, consumed, acked>>

(* waitACK with keepalive > 0: time.After(h.keepalive) fires first and     *)
(* Keepalive(0) is written; on a write error waitACK returns the error.    *)
WaitKeepalive ==
    /\ ack = "wait" /\ KeepaliveOn
    /\ kaCount < MaxKeepalive
    /\ \/ /\ ~connClosed
          /\ wire' = Append(wire, 0)
          /\ kaCount' = kaCount + 1
          /\ UNCHANGED ack
       \/ /\ ack' = "drain"
          /\ UNCHANGED <<wire, kaCount>>
    /\ UNCHANGED <<rd, sizes, ackCur, signal, connClosed, chClosed,
                   watcher, srvDone, sink, consumed, acked>>

(* Stop(), second step: the function run by stopGuard.Do closes the client *)
(* connection after h.signal.                                              *)
StopClose ==
    /\ signal /\ ~connClosed
    /\ rd = "stop" \/ watcher = "stop"
    /\ connClosed' = TRUE
    /\ UNCHANGED <<rd, sizes, ack, ackCur, kaCount, signal, chClosed,
                   watcher, srvDone, sink, consumed, acked, wire>>

(* h.Stop() returns in handle()'s defers once the Do function completed;   *)
(* the next defer closes h.ch.                                             *)
HandleExit ==
    /\ rd = "stop" /\ connClosed
    /\ rd' = "done" /\ chClosed' = TRUE
    /\ UNCHANGED <<sizes, ack, ackCur, kaCount, signal, connClosed,
                   watcher, srvDone, sink, consumed, acked, wire>>

-----------------------------------------------------------------------------
\* Mutant: the watcher leaves the loop on server shutdown without h.Stop().
WatchStopNoStop ==
    /\ watcher = "watch" /\ srvDone
    /\ watcher' = "done"
    /\ UNCHANGED <<rd, sizes, ack, ackCur, kaCount, signal, connClosed,
                   chClosed, srvDone, sink, consumed, acked, wire>>

(* startConnHandler's watcher: the server's signal closes first and it     *)
(* calls h.Stop(), or the handler's Run returned first (`stopped`).        *)
WatchStop ==
    /\ watcher = "watch" /\ srvDone
    /\ Stop
    /\ watcher' = "stop"
    /\ UNCHANGED <<rd, sizes, ack, ackCur, kaCount, chClosed, srvDone, sink,
                   consumed, acked, wire>>

(* The watcher's h.Stop() returns once the Do function completed.          *)
WatchStopReturn ==
    /\ watcher = "stop" /\ connClosed
    /\ watcher' = "done"
    /\ UNCHANGED <<rd, sizes, ack, ackCur, kaCount, signal, connClosed,
                   chClosed, srvDone, sink, consumed, acked, wire>>

WatchEnd ==
    /\ watcher = "watch" /\ rd = "done"
    /\ watcher' = "done"
    /\ UNCHANGED <<rd, sizes, ack, ackCur, kaCount, signal, connClosed,
                   chClosed, srvDone, sink, consumed, acked, wire>>

(* Server.Close(): s.sig.Close() closes the server's stop signal.          *)
ServerClose ==
    /\ ServerCloses /\ ~srvDone
    /\ srvDone' = TRUE
    /\ UNCHANGED <<rd, sizes, ack, ackCur, kaCount, signal, connClosed,
                   chClosed, watcher, sink, consumed, acked, wire>>

(* The consumer (Server.Receive / ReceiveChan) takes the next batch.       *)
Receive ==
    /\ sink # <<>>
    /\ consumed' = consumed \cup {Head(sink)}
    /\ sink' = Tail(sink)
    /\ UNCHANGED <<rd, sizes, ack, ackCur, kaCount, signal, connClosed,
                   chClosed, watcher, srvDone, acked, wire>>

(* The consumer calls batch.ACK() once, in any order over batches.         *)
ConsumerAck(b) ==
    /\ b \in consumed \ acked
    /\ acked' = acked \cup {b}
    /\ UNCHANGED <<rd, sizes, ack, ackCur, kaCount, signal, connClosed,
                   chClosed, watcher, srvDone, sink, consumed, wire>>

-----------------------------------------------------------------------------
Next ==
    \/ ReadWindow \/ ReadError \/ ReadClosed
    \/ PushStopped \/ Handoff \/ Deliver \/ DeliverAborted
    \/ AckLoopExit \/ DrainEnd
    \/ WaitStopped \/ WaitAcked \/ WaitKeepalive
    \/ StopClose \/ HandleExit
    \/ WatchStop \/ WatchStopReturn \/ WatchEnd \/ ServerClose
    \/ Receive \/ \E b \in Batches : ConsumerAck(b)

(* Goroutines that are runnable eventually run; the client's sending and   *)
(* errors and the server's shutdown are not forced.                        *)
GoroutineFairness ==
    /\ WF_vars(ReadClosed) /\ WF_vars(PushStopped) /\ WF_vars(Handoff)
    /\ WF_vars(Deliver) /\ WF_vars(DeliverAborted)
    /\ WF_vars(AckLoopExit) /\ WF_vars(DrainEnd)
    /\ WF_vars(WaitStopped) /\ WF_vars(WaitAcked)
    /\ WF_vars(StopClose) /\ WF_vars(HandleExit)
    /\ WF_vars(WatchStop) /\ WF_vars(WatchStopReturn) /\ WF_vars(WatchEnd)

(* The consumer honours the contract "batches read from channel must be    *)
(* ACKed".                                                                 *)
ConsumerFairness ==
    WF_vars(Receive) /\ \A b \in Batches : WF_vars(ConsumerAck(b))

Fairness == GoroutineFairness /\ ConsumerFairness

Spec == Init /\ [][Next]_vars /\ Fairness

(* A consumer that stops receiving or acknowledging: nothing forces it,    *)
(* while time.After(h.keepalive) in waitACK's select does fire once the    *)
(* interval has passed.                                                    *)
StalledConsumerSpec ==
    Init /\ [][Next]_vars /\ GoroutineFairness /\ WF_vars(WaitKeepalive)

-----------------------------------------------------------------------------
(* The client's contract: the ACK frames it receives carry the event       *)
(* counts of its windows, in the order it sent them, none skipped or       *)
(* repeated, whatever order the consumer acknowledges batches in and       *)
(* however keep-alives, the stop signal and the handoff interleave.        *)
AcksFollowReadOrder ==
    /\ Len(AckFrames) <= Len(sizes)
    /\ AckFrames = SubSeq(sizes, 1, Len(AckFrames))

(* No partial or early ACK: when k ACK frames have been written, the       *)
(* consumer has acknowledged each of the first k batches (the client drops *)
(* events once ACKed, so this is what at-least-once delivery rests on).    *)
AckOnlyAfterConsumerAck ==
    \A i \in 1..Len(AckFrames) : i \in acked

(* Back-pressure of the unbuffered handoff h.ch: while the ACK loop is     *)
(* alive and Stop has not closed h.signal, the read loop is at most two    *)
(* batches ahead of the ACKs (one in waitACK, one blocked in the push), so *)
(* a stalled consumer stops reading.  Between close(h.signal) and          *)
(* h.client.Close() the ACK loop hands batches through without ACKing     *)
(* them, and the read loop may run ahead.                                  *)
BackPressure ==
    ack \in {"select", "wait"} /\ ~signal => Len(sizes) - Len(AckFrames) <= 2

(* Every batch read is eventually ACKed on the wire, unless the connection *)
(* is torn down (closed, or the ACK loop gave up after a write error):     *)
(* the read loop, ACK loop, sink and consumer never wait on each other     *)
(* forever.                                                                *)
BatchEventuallyAcked ==
    \A i \in Batches :
        Len(sizes) >= i ~> \/ Len(AckFrames) >= i
                           \/ connClosed
                           \/ ack \in {"drain", "done"}

(* The handler implements AckChannel: the windows it accepted are the      *)
(* batches read, confirmations are the consumer's batch.ACK() calls, and    *)
(* the connection can write while it is open and the ACK loop is alive.     *)
AC == INSTANCE AckChannel
        WITH sent <- sizes, confirmed <- acked, wire <- wire,
             open <- ~connClosed /\ ack \in {"select", "wait"}

AckChannelRefined == AC!Spec

(* Keep-alive liveness: while the consumer holds a batch without ACKing    *)
(* it, the ACK loop keeps writing keep-alive frames for that batch (up to  *)
(* the bound), unless the batch is ACKed, the handler is stopped or the     *)
(* ACK loop has given up on a write error.                                 *)
KeepaliveWhileWaiting ==
    \A b \in Batches :
        (ack = "wait" /\ ackCur = b /\ b \notin acked)
            ~> \/ ack = "wait" /\ ackCur = b /\ kaCount = MaxKeepalive
               \/ b \in acked \/ signal \/ ack \in {"drain", "done"}

(* After Stop or server shutdown both goroutines of the handler return,    *)
(* even if the client stays idle and the consumer stops receiving.         *)
HandlerTerminates ==
    (signal \/ srvDone) ~> (rd = "done" /\ ack = "done")

=============================================================================
