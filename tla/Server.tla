------------------------------ MODULE Server ------------------------------
(***************************************************************************)
(* The internal server shell of src/server/internal/handler.go (the        *)
(* internal server.go part): NewWithListener, the accept loop run(),       *)
(* startConnHandler with its handler goroutine and shutdown watcher, the   *)
(* chanCallback that sends batches to the shared sink channel, Receive,    *)
(* and Close.  Several connections share the sink.                        *)
(*                                                                         *)
(* Each connection's handler is cut down to what the server sees of it:    *)
(* the read loop handle() (read a window, push it to the ACK loop, send it *)
(* to the sink), h.signal and the connection.  The ACK loop is module      *)
(* Handler.  closeSignaler is not in the source; it is taken as the spec   *)
(* describes it: a broadcast stop signal and a wait group, whose Close     *)
(* closes the signal and then waits for the group.                        *)
(***************************************************************************)
EXTENDS Naturals, Sequences, FiniteSets, SequencesExt

CONSTANTS
    Conns,         \* clients that may connect
    MaxBatches,    \* bound on the windows a client sends
    SinkCap,       \* buffer of the owned sink channel (128 in the code)
    FactoryMayFail \* the HandlerFactory may return an error

ASSUME /\ MaxBatches \in Nat /\ SinkCap \in Nat \ {0}
       /\ FactoryMayFail \in BOOLEAN

VARIABLES
    ownCH,      \* s.ownCH: the server made the sink channel itself
    lisClosed,  \* s.listener closed
    runPc,      \* pc of the accept loop s.run()
    starting,   \* the connection run() is passing to startConnHandler ({} or one)
    conn,       \* client connection: "idle" (not accepted), "open", "closed"
    hd,         \* pc of the handler goroutine h.Run()/handle()
    hsig,       \* h.signal closed
    watch,      \* pc of the shutdown watcher of startConnHandler
    sent,       \* windows read on each connection
    sigDone,    \* s.sig.Sig() closed
    wg,         \* counter of the wait group of s.sig
    sink,       \* s.ch: batches in flight, named by their connection
    sinkClosed, \* close(s.ch) done
    closePc     \* pc of s.Close()

vars == <<ownCH, lisClosed, runPc, starting, conn, hd, hsig, watch, sent, sigDone, wg,
          sink, sinkClosed, closePc>>

TypeOK ==
    /\ ownCH \in BOOLEAN /\ lisClosed \in BOOLEAN
    /\ runPc \in {"accept", "start", "done"}
    /\ starting \subseteq Conns /\ Cardinality(starting) <= 1
    /\ conn \in [Conns -> {"idle", "open", "closed"}]
    /\ hd \in [Conns -> {"none", "read", "push", "deliver", "stop", "done"}]
    /\ hsig \in [Conns -> BOOLEAN]
    /\ watch \in [Conns -> {"none", "watch", "stop", "done"}]
    /\ sent \in [Conns -> 0..MaxBatches]
    /\ sigDone \in BOOLEAN /\ sinkClosed \in BOOLEAN
    /\ wg \in 0..(Cardinality(Conns) + 1)
    /\ sink \in BoundedSeq(Conns, SinkCap)
    /\ closePc \in {"idle", "listener", "sig", "wait", "chan", "done"}

(* NewWithListener: the sink is the configured channel or, when that is    *)
(* nil, one of the server's own; sig.Add(1) and go s.run().                *)
Init ==
    /\ ownCH \in BOOLEAN
    /\ lisClosed = FALSE /\ runPc = "accept" /\ starting = {}
    /\ conn = [c \in Conns |-> "idle"]
    /\ hd = [c \in Conns |-> "none"]
    /\ hsig = [c \in Conns |-> FALSE]
    /\ watch = [c \in Conns |-> "none"]
    /\ sent = [c \in Conns |-> 0]
    /\ sigDone = FALSE /\ wg = 1
    /\ sink = <<>> /\ sinkClosed = FALSE
    /\ closePc = "idle"

-----------------------------------------------------------------------------
(* s.listener.Accept() returns a client; run() calls startConnHandler.   *)
Accept(c) ==
    /\ runPc = "accept" /\ ~lisClosed /\ conn[c] = "idle"
    /\ conn' = [conn EXCEPT ![c] = "open"]
    /\ runPc' = "start" /\ starting' = {c}
    /\ UNCHANGED <<ownCH, lisClosed, hd, hsig, watch, sent, sigDone, wg, sink,
                   sinkClosed, closePc>>

\* Mutant: startConnHandler forgets s.sig.Add(1) for the handler goroutine.
StartConnNoAdd(c) ==
    /\ runPc = "start" /\ c \in starting
    /\ hd' = [hd EXCEPT ![c] = "read"]
    /\ watch' = [watch EXCEPT ![c] = "watch"]
    /\ runPc' = "accept" /\ starting' = {}
    /\ UNCHANGED <<ownCH, lisClosed, conn, hsig, sent, sigDone, wg, sink,
                   sinkClosed, closePc>>

(* startConnHandler: the factory builds a handler; sig.Add(1); the handler *)
(* goroutine starts (wgStart.Wait), then the watcher goroutine, and run()  *)
(* goes back to Accept.  Neither the listener nor the stop signal is       *)
(* looked at: a handler may start after Close has begun.                   *)
StartConn(c) ==
    /\ runPc = "start" /\ c \in starting
    /\ hd' = [hd EXCEPT ![c] = "read"]
    /\ watch' = [watch EXCEPT ![c] = "watch"]
    /\ wg' = wg + 1
    /\ runPc' = "accept" /\ starting' = {}
    /\ UNCHANGED <<ownCH, lisClosed, conn, hsig, sent, sigDone, sink,
                   sinkClosed, closePc>>

\* Mutant: s.sig.Add(1) is called before the factory, and not undone when
\* it fails.
StartFactoryFailKeepsCount(c) ==
    /\ FactoryMayFail
    /\ runPc = "start" /\ c \in starting
    /\ wg' = wg + 1
    /\ runPc' = "accept" /\ starting' = {}
    /\ UNCHANGED <<ownCH, lisClosed, conn, hd, hsig, watch, sent, sigDone,
                   sink, sinkClosed, closePc>>

(* The factory fails: startConnHandler logs and returns; nobody closes     *)
(* the connection.                                                         *)
StartFactoryFail(c) ==
    /\ FactoryMayFail
    /\ runPc = "start" /\ c \in starting
    /\ runPc' = "accept" /\ starting' = {}
    /\ UNCHANGED <<ownCH, lisClosed, conn, hd, hsig, watch, sent, sigDone,
                   wg, sink, sinkClosed, closePc>>

(* Accept fails on the closed listener: run() breaks and its defer calls   *)
(* s.sig.Done().                                                           *)
AcceptClosed ==
    /\ runPc = "accept" /\ lisClosed
    /\ runPc' = "done" /\ wg' = wg - 1
    /\ UNCHANGED <<ownCH, lisClosed, starting, conn, hd, hsig, watch, sent, sigDone,
                   sink, sinkClosed, closePc>>

-----------------------------------------------------------------------------
(* h.Stop(), first step: the caller enters stopGuard.Do, and the first   *)
(* one closes h.signal; the connection is closed by StopClose.             *)
Stop(c) ==
    /\ hsig' = [hsig EXCEPT ![c] = TRUE]
    /\ UNCHANGED conn

(* handle() returns: its first defer calls h.Stop().                       *)
HandleReturn(c) ==
    /\ Stop(c)
    /\ hd' = [hd EXCEPT ![c] = "stop"]
    /\ UNCHANGED <<ownCH, lisClosed, runPc, starting, watch, sent, sigDone,
                   wg, sink, sinkClosed, closePc>>

(* h.Stop(), second step: the Do function closes the client connection.    *)
StopClose(c) ==
    /\ hsig[c] /\ conn[c] = "open"
    /\ hd[c] = "stop" \/ watch[c] = "stop"
    /\ conn' = [conn EXCEPT ![c] = "closed"]
    /\ UNCHANGED <<ownCH, lisClosed, runPc, starting, hd, hsig, watch, sent,
                   sigDone, wg, sink, sinkClosed, closePc>>

\* Mutant: stopGuard lets a second caller return while the first one is
\* still inside Stop (a flag instead of sync.Once).
HandleExitNoWait(c) ==
    /\ hd[c] = "stop"
    /\ hd' = [hd EXCEPT ![c] = "done"]
    /\ wg' = wg - 1
    /\ UNCHANGED <<ownCH, lisClosed, runPc, starting, conn, hsig, watch, sent,
                   sigDone, sink, sinkClosed, closePc>>

(* h.Stop() returns in handle() once the Do function completed (sync.Once  *)
(* blocks a second caller until then); close(h.ch) and Run return, and the *)
(* goroutine's defers close `stopped` and call s.sig.Done().               *)
HandleExit(c) ==
    /\ hd[c] = "stop" /\ conn[c] = "closed"
    /\ hd' = [hd EXCEPT ![c] = "done"]
    /\ wg' = wg - 1
    /\ UNCHANGED <<ownCH, lisClosed, runPc, starting, conn, hsig, watch, sent,
                   sigDone, sink, sinkClosed, closePc>>

(* ReadBatch returns a window (the client decides when: not fair).         *)
ReadWindow(c) ==
    /\ hd[c] = "read" /\ conn[c] = "open" /\ sent[c] < MaxBatches
    /\ hd' = [hd EXCEPT ![c] = "push"]
    /\ sent' = [sent EXCEPT ![c] = @ + 1]
    /\ UNCHANGED <<ownCH, lisClosed, runPc, starting, conn, hsig, watch, sigDone, wg,
                   sink, sinkClosed, closePc>>

(* ReadBatch fails while the connection is open (EOF, protocol error,      *)
(* deadline), or because it was closed.                                    *)
ReadError(c) ==
    /\ hd[c] = "read" /\ conn[c] = "open"
    /\ HandleReturn(c)

ReadClosed(c) ==
    /\ hd[c] = "read" /\ conn[c] = "closed"
    /\ HandleReturn(c)

(* The push to the ACK loop: h.ch <- b, or return on h.signal.             *)
PushOk(c) ==
    /\ hd[c] = "push"
    /\ hd' = [hd EXCEPT ![c] = "deliver"]
    /\ UNCHANGED <<ownCH, lisClosed, runPc, starting, conn, hsig, watch, sent, sigDone,
                   wg, sink, sinkClosed, closePc>>

PushStopped(c) ==
    /\ hd[c] = "push" /\ hsig[c]
    /\ HandleReturn(c)

(* chanCallback.OnEvents: the send to s.ch succeeds ...                    *)
DeliverOk(c) ==
    /\ hd[c] = "deliver" /\ Len(sink) < SinkCap
    /\ sink' = Append(sink, c)
    /\ hd' = [hd EXCEPT ![c] = "read"]
    /\ UNCHANGED <<ownCH, lisClosed, runPc, starting, conn, hsig, watch, sent, sigDone,
                   wg, sinkClosed, closePc>>

(* ... or the server is done: OnEvents returns io.EOF and handle returns.  *)
DeliverDone(c) ==
    /\ hd[c] = "deliver" /\ sigDone
    /\ HandleReturn(c)

\* Mutant: the watcher ends on shutdown without calling h.Stop().
WatchStopNoStop(c) ==
    /\ watch[c] = "watch" /\ sigDone
    /\ watch' = [watch EXCEPT ![c] = "done"]
    /\ UNCHANGED <<ownCH, lisClosed, runPc, starting, conn, hd, hsig, sent, sigDone, wg,
                   sink, sinkClosed, closePc>>

(* The watcher: on shutdown it calls h.Stop(); once the handler has        *)
(* stopped it just ends.                                                   *)
WatchStop(c) ==
    /\ watch[c] = "watch" /\ sigDone
    /\ Stop(c)
    /\ watch' = [watch EXCEPT ![c] = "stop"]
    /\ UNCHANGED <<ownCH, lisClosed, runPc, starting, hd, sent, sigDone, wg,
                   sink, sinkClosed, closePc>>

(* The watcher's h.Stop() returns once the Do function completed.          *)
WatchStopReturn(c) ==
    /\ watch[c] = "stop" /\ conn[c] = "closed"
    /\ watch' = [watch EXCEPT ![c] = "done"]
    /\ UNCHANGED <<ownCH, lisClosed, runPc, starting, conn, hd, hsig, sent,
                   sigDone, wg, sink, sinkClosed, closePc>>

WatchEnd(c) ==
    /\ watch[c] = "watch" /\ hd[c] = "done"
    /\ watch' = [watch EXCEPT ![c] = "done"]
    /\ UNCHANGED <<ownCH, lisClosed, runPc, starting, conn, hd, hsig, sent, sigDone,
                   wg, sink, sinkClosed, closePc>>

-----------------------------------------------------------------------------
(* The application: Receive takes a batch from s.ch (or returns nil once   *)
(* the server is done, which changes nothing), and calls Close once.       *)
Receive ==
    /\ sink # <<>>
    /\ sink' = Tail(sink)
    /\ UNCHANGED <<ownCH, lisClosed, runPc, starting, conn, hd, hsig, watch, sent,
                   sigDone, wg, sinkClosed, closePc>>

CloseBegin ==
    /\ closePc = "idle"
    /\ closePc' = "listener"
    /\ UNCHANGED <<ownCH, lisClosed, runPc, starting, conn, hd, hsig, watch, sent,
                   sigDone, wg, sink, sinkClosed>>

(* s.listener.Close() *)
CloseListener ==
    /\ closePc = "listener"
    /\ lisClosed' = TRUE /\ closePc' = "sig"
    /\ UNCHANGED <<ownCH, runPc, starting, conn, hd, hsig, watch, sent, sigDone, wg,
                   sink, sinkClosed>>

(* s.sig.Close(): close the stop signal ... *)
CloseSignal ==
    /\ closePc = "sig"
    /\ sigDone' = TRUE /\ closePc' = "wait"
    /\ UNCHANGED <<ownCH, lisClosed, runPc, starting, conn, hd, hsig, watch, sent, wg,
                   sink, sinkClosed>>

\* Mutant: Close closes the sink without checking s.ownCH.
CloseWaitAlwaysClose ==
    /\ closePc = "wait" /\ wg = 0
    /\ closePc' = "chan"
    /\ UNCHANGED <<ownCH, lisClosed, runPc, starting, conn, hd, hsig, watch, sent,
                   sigDone, wg, sink, sinkClosed>>

\* Mutant: Close does not wait for the handler goroutines.
CloseNoWait ==
    /\ closePc = "wait"
    /\ closePc' = IF ownCH THEN "chan" ELSE "done"
    /\ UNCHANGED <<ownCH, lisClosed, runPc, starting, conn, hd, hsig, watch, sent,
                   sigDone, wg, sink, sinkClosed>>

(* ... and wait for the group: the accept loop and every handler goroutine *)
(* have returned.  Then the sink is closed if the server owns it.          *)
CloseWait ==
    /\ closePc = "wait" /\ wg = 0
    /\ closePc' = IF ownCH THEN "chan" ELSE "done"
    /\ UNCHANGED <<ownCH, lisClosed, runPc, starting, conn, hd, hsig, watch, sent,
                   sigDone, wg, sink, sinkClosed>>

(* if s.ownCH { close(s.ch) } *)
CloseSink ==
    /\ closePc = "chan"
    /\ sinkClosed' = TRUE /\ closePc' = "done"
    /\ UNCHANGED <<ownCH, lisClosed, runPc, starting, conn, hd, hsig, watch, sent,
                   sigDone, wg, sink>>

-----------------------------------------------------------------------------
Handler(c) ==
    \/ ReadWindow(c) \/ ReadError(c) \/ ReadClosed(c)
    \/ PushOk(c) \/ PushStopped(c) \/ DeliverOk(c) \/ DeliverDone(c)
    \/ HandleExit(c)

Watcher(c) == WatchStop(c) \/ WatchStopReturn(c) \/ WatchEnd(c)

Next ==
    \/ \E c \in Conns : \/ Accept(c) \/ StartConn(c) \/ StartFactoryFail(c)
                        \/ Handler(c) \/ StopClose(c) \/ Watcher(c)
    \/ AcceptClosed
    \/ Receive
    \/ CloseBegin \/ CloseListener \/ CloseSignal \/ CloseWait \/ CloseSink

(* Goroutines are fair once they can go on; the clients (windows, errors,  *)
(* connecting), the ACK loop's receive and the application (Receive, the   *)
(* call of Close) are not.                                                 *)
Fairness ==
    /\ WF_vars(AcceptClosed)
    /\ WF_vars(\E c \in Conns : StartConn(c) \/ StartFactoryFail(c))
    /\ \A c \in Conns : /\ WF_vars(ReadClosed(c)) /\ WF_vars(PushStopped(c))
                        /\ WF_vars(DeliverDone(c)) /\ WF_vars(HandleExit(c))
                        /\ WF_vars(StopClose(c)) /\ WF_vars(Watcher(c))
    /\ WF_vars(CloseListener) /\ WF_vars(CloseSignal) /\ WF_vars(CloseWait)
    /\ WF_vars(CloseSink)

Spec == Init /\ [][Next]_vars /\ Fairness

-----------------------------------------------------------------------------
(* The owned sink channel is closed only when no handler goroutine can     *)
(* still be in chanCallback.OnEvents: close(s.ch) at the end of Close must *)
(* not race a send, which would panic.  It rests on sig.Close() waiting    *)
(* for every goroutine startConnHandler counted.                           *)
SinkClosedAfterHandlers ==
    sinkClosed => \A c \in Conns : hd[c] \in {"none", "done"}

(* When Close returns, no accepted connection is left open: every          *)
(* connection is closed by its handler's Stop, through handle()'s defer or *)
(* the shutdown watcher.                                                   *)
ClosedServerHoldsNoConnection ==
    closePc = "done" => \A c \in Conns : conn[c] # "open"

(* When Close returns, every connection that got a handler is closed: by    *)
(* the handler's Stop, through handle()'s defer or the shutdown watcher,   *)
(* whichever of the read loop and the watcher gets there first.           *)
HandlersCloseConnections ==
    closePc = "done" => \A c \in Conns : hd[c] # "none" => conn[c] = "closed"

(* Close returns, whatever the clients and the application do: the         *)
(* watchers unblock idle reads, the stop signal unblocks OnEvents and the  *)
(* push, and the accept loop ends on the closed listener.                  *)
CloseTerminates == closePc = "listener" ~> closePc = "done"

-----------------------------------------------------------------------------
(* The lifecycle the server promises (module ServerLifecycle): the server  *)
(* serves until the listener is closed, is closing until the wait group    *)
(* has drained, and closed after; a connection is taken when Accept        *)
(* returns it, and active from then until startConnHandler gives up on it  *)
(* or its handler goroutine returns.                                       *)
Life == INSTANCE ServerLifecycle WITH
    own <- ownCH,
    phase <- IF ~lisClosed THEN "serving"
             ELSE IF closePc \in {"sig", "wait"} THEN "closing" ELSE "closed",
    taken <- {c \in Conns : conn[c] # "idle"},
    active <- starting \cup {c \in Conns : hd[c] \in {"read", "push", "deliver", "stop"}}

(* The server implements its lifecycle: no connection is taken after the   *)
(* listener is closed, no batch reaches a closed sink, Close returns only  *)
(* after every handler goroutine has finished, and once Close is called    *)
(* every handler does finish and an owned sink is closed.                  *)
ServerLifecycleRefined == Life!Spec

=============================================================================
