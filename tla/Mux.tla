------------------------------- MODULE Mux -------------------------------
(***************************************************************************)
(* The version multiplexer of the top-level server (src/server/v2/opts.go, *)
(* the top-level server.go part), in the case newServer builds it: v1 and  *)
(* v2 both enabled.  Handle(c) runs handle(c): a peek goroutine reads the  *)
(* first byte, finds the mux entry of that byte, sends the wrapped         *)
(* connection on the entry's muxListener channel and then calls            *)
(* m.server.Handle(conn); a watcher goroutine closes the connection if the *)
(* server shuts down before the peek ends.  Close closes s.done, closes    *)
(* every versioned server, waits on s.wg and closes the owned sink.        *)
(*                                                                         *)
(* muxListener and the versioned servers are not in the source; they are   *)
(* taken as the spec describes them: the versioned server accepts from its *)
(* in-memory listener channel (an unbuffered rendezvous) until it is       *)
(* closed, and its Handle(conn) injects a connection into it.  A handler   *)
(* of a versioned server behaves as ServerLifecycle says (module Server    *)
(* is checked to refine it): it sends batches into the shared sink, and    *)
(* the versioned server's Close returns once its handlers have returned.   *)
(***************************************************************************)
EXTENDS Naturals, Sequences, FiniteSets

CONSTANTS
    Conns,       \* connections the application passes to Handle
    FirstBytes,  \* first bytes a client may send
    SinkCap      \* buffer of the sink channel

\* The mux entries newServer builds, in order: '1' for v1, '2' for v2.
MuxBytes == <<49, 50>>
Versions == {MuxBytes[i] : i \in 1..Len(MuxBytes)}

VARIABLES
    ownCH,      \* the top-level server made the sink channel itself
    done,       \* s.done closed
    conn,       \* the client connection: "open" or "closed"
    first,      \* the byte the peek read (0: none yet)
    via,        \* the mux entry (its byte) the peek routes to (0: none)
    peek,       \* pc of the peek goroutine of handle()
    watch,      \* pc of the shutdown watcher of handle()
    served,     \* (version, how) pairs: who took up the connection
    subClosed,  \* m.server.Close() done, per version byte
    closePc,    \* pc of s.Close()
    closeIdx,   \* next mux entry Close closes
    sinkClosed, \* close(s.ch) done
    handler,    \* the versioned server's handler of the connection
    sink,       \* batches in s.ch, named by the connection that sent them
    recv        \* the application's Receive call: "idle" or "wait"

\* The state of the versioned servers' handlers and of the sink's reader.
srvVars == <<handler, sink, recv>>

vars == <<ownCH, done, conn, first, via, peek, watch, served, subClosed, closePc,
          closeIdx, sinkClosed, handler, sink, recv>>

TypeOK ==
    /\ ownCH \in BOOLEAN /\ done \in BOOLEAN /\ sinkClosed \in BOOLEAN
    /\ conn \in [Conns -> {"open", "closed"}]
    /\ first \in [Conns -> FirstBytes \cup {0}]
    /\ via \in [Conns -> Versions \cup {0}]
    /\ peek \in [Conns -> {"none", "read", "send", "handle", "done"}]
    /\ watch \in [Conns -> {"none", "watch", "done"}]
    /\ served \in [Conns -> SUBSET (Versions \X {"listener", "handle"})]
    /\ subClosed \in [Versions -> BOOLEAN]
    /\ closePc \in {"idle", "subs", "subwait", "sink", "done"}
    /\ closeIdx \in 1..Len(MuxBytes) + 1
    /\ handler \in [Conns -> {"none", "pending", "active", "done"}]
    /\ sink \in Seq(Conns) /\ recv \in {"idle", "wait"}

(* newServer with v1 and v2: the sink is cfg.ch or, when nil, a channel of *)
(* its own; one versioned server per mux entry; nothing runs yet.          *)
Init ==
    /\ ownCH \in BOOLEAN
    /\ done = FALSE /\ sinkClosed = FALSE
    /\ conn = [c \in Conns |-> "open"]
    /\ first = [c \in Conns |-> 0]
    /\ via = [c \in Conns |-> 0]
    /\ peek = [c \in Conns |-> "none"]
    /\ watch = [c \in Conns |-> "none"]
    /\ served = [c \in Conns |-> {}]
    /\ subClosed = [v \in Versions |-> FALSE]
    /\ closePc = "idle" /\ closeIdx = 1
    /\ handler = [c \in Conns |-> "none"]
    /\ sink = <<>> /\ recv = "idle"

-----------------------------------------------------------------------------
(* Handle(c) = handle(c): start the peek goroutine and the watcher.        *)
Handle(c) ==
    /\ peek[c] = "none"
    /\ peek' = [peek EXCEPT ![c] = "read"]
    /\ watch' = [watch EXCEPT ![c] = "watch"]
    /\ UNCHANGED <<ownCH, done, conn, first, via, served, subClosed, closePc,
                   closeIdx, sinkClosed, srvVars>>

(* io.ReadFull of one byte fails (the client hangs up, or the watcher      *)
(* closed the connection): client.Close(), and the deferred close(sig).    *)
PeekFail(c) ==
    /\ peek[c] = "read"
    /\ conn' = [conn EXCEPT ![c] = "closed"]
    /\ peek' = [peek EXCEPT ![c] = "done"]
    /\ UNCHANGED <<ownCH, done, first, via, watch, served, subClosed, closePc,
                   closeIdx, sinkClosed, srvVars>>

PeekEOF(c) == conn[c] = "open" /\ PeekFail(c)
PeekClosed(c) == conn[c] = "closed" /\ PeekFail(c)

\* Mutant: the routing loop routes on the byte read, with no mux entry
\* for it.
PeekByteAnyByte(c) ==
    /\ peek[c] = "read" /\ conn[c] = "open"
    /\ \E b \in FirstBytes :
        /\ first' = [first EXCEPT ![c] = b]
        /\ via' = [via EXCEPT ![c] = b]
        /\ peek' = [peek EXCEPT ![c] = "send"]
        /\ UNCHANGED conn
    /\ UNCHANGED <<ownCH, done, watch, served, subClosed, closePc, closeIdx,
                   sinkClosed, srvVars>>

(* The byte arrives.  The loop over s.mux finds the entry of that byte and *)
(* goes on to route; with no entry, client.Close() and return.             *)
PeekByte(c) ==
    /\ peek[c] = "read" /\ conn[c] = "open"
    /\ \E b \in FirstBytes :
        /\ first' = [first EXCEPT ![c] = b]
        /\ IF b \in Versions
           THEN /\ via' = [via EXCEPT ![c] = b]
                /\ peek' = [peek EXCEPT ![c] = "send"]
                /\ UNCHANGED conn
           ELSE /\ peek' = [peek EXCEPT ![c] = "done"]
                /\ conn' = [conn EXCEPT ![c] = "closed"]
                /\ UNCHANGED via
    /\ UNCHANGED <<ownCH, done, watch, served, subClosed, closePc, closeIdx,
                   sinkClosed, srvVars>>

(* m.l.ch <- conn: the versioned server's accept loop takes the            *)
(* connection (its Accept returns) and goes on to start a handler for it   *)
(* (HandlerStart); the send blocks once that server is closed.             *)
PeekSend(c) ==
    /\ peek[c] = "send" /\ ~subClosed[via[c]]
    /\ served' = [served EXCEPT ![c] = @ \cup {<<via[c], "listener">>}]
    /\ peek' = [peek EXCEPT ![c] = "handle"]
    /\ handler' = [handler EXCEPT ![c] = "pending"]
    /\ UNCHANGED <<ownCH, done, conn, first, via, watch, subClosed, closePc,
                   closeIdx, sinkClosed, sink, recv>>

(* m.server.Handle(conn), then return and close(sig).                     *)
PeekHandle(c) ==
    /\ peek[c] = "handle"
    /\ served' = [served EXCEPT ![c] = @ \cup {<<via[c], "handle">>}]
    /\ peek' = [peek EXCEPT ![c] = "done"]
    /\ UNCHANGED <<ownCH, done, conn, first, via, watch, subClosed, closePc,
                   closeIdx, sinkClosed, srvVars>>

\* Mutant: the watcher only waits for the peek goroutine.
WatchShutdownIgnored(c) ==
    /\ watch[c] = "watch" /\ done /\ FALSE
    /\ UNCHANGED vars

(* The watcher: the server shuts down first, and it closes the connection; *)
(* or the peek goroutine closed sig, and it ends.                          *)
WatchShutdown(c) ==
    /\ watch[c] = "watch" /\ done
    /\ conn' = [conn EXCEPT ![c] = "closed"]
    /\ watch' = [watch EXCEPT ![c] = "done"]
    /\ UNCHANGED <<ownCH, done, first, via, peek, served, subClosed, closePc,
                   closeIdx, sinkClosed, srvVars>>

WatchPeekDone(c) ==
    /\ watch[c] = "watch" /\ peek[c] = "done"
    /\ watch' = [watch EXCEPT ![c] = "done"]
    /\ UNCHANGED <<ownCH, done, conn, first, via, peek, served, subClosed, closePc,
                   closeIdx, sinkClosed, srvVars>>

-----------------------------------------------------------------------------
(* Close: close(s.done) ... *)
CloseBegin ==
    /\ closePc = "idle"
    /\ done' = TRUE /\ closePc' = "subs"
    /\ UNCHANGED <<ownCH, conn, first, via, peek, watch, served, subClosed,
                   closeIdx, sinkClosed, srvVars>>

(* ... m.server.Close() for each mux entry in order: the versioned server *)
(* closes its listener and its stop signal ...                             *)
CloseSub ==
    /\ closePc = "subs" /\ closeIdx <= Len(MuxBytes)
    /\ subClosed' = [subClosed EXCEPT ![MuxBytes[closeIdx]] = TRUE]
    /\ closePc' = "subwait"
    /\ UNCHANGED <<ownCH, done, conn, first, via, peek, watch, served,
                   closeIdx, sinkClosed, srvVars>>

\* Mutant: the versioned server's Close returns without waiting for its
\* handlers.
CloseSubReturnNoWait ==
    /\ closePc = "subwait"
    /\ closeIdx' = closeIdx + 1 /\ closePc' = "subs"
    /\ UNCHANGED <<ownCH, done, conn, first, via, peek, watch, served,
                   subClosed, sinkClosed, srvVars>>

(* ... and returns once the handlers of that server have returned.         *)
CloseSubReturn ==
    /\ closePc = "subwait"
    /\ \A c \in Conns : via[c] = MuxBytes[closeIdx] => handler[c] \notin {"pending", "active"}
    /\ closeIdx' = closeIdx + 1 /\ closePc' = "subs"
    /\ UNCHANGED <<ownCH, done, conn, first, via, peek, watch, served,
                   subClosed, sinkClosed, srvVars>>

(* ... close the net listener if any, s.wg.Wait() (no run() was started,   *)
(* so nothing was added), and close(s.ch) if the server owns it.           *)
CloseWait ==
    /\ closePc = "subs" /\ closeIdx > Len(MuxBytes)
    /\ closePc' = IF ownCH THEN "sink" ELSE "done"
    /\ UNCHANGED <<ownCH, done, conn, first, via, peek, watch, served,
                   subClosed, closeIdx, sinkClosed, srvVars>>

CloseSink ==
    /\ closePc = "sink"
    /\ sinkClosed' = TRUE /\ closePc' = "done"
    /\ UNCHANGED <<ownCH, done, conn, first, via, peek, watch, served,
                   subClosed, closeIdx, srvVars>>

-----------------------------------------------------------------------------
(* The versioned server's startConnHandler starts the handler goroutine   *)
(* of a connection its accept loop took, whether or not Close has begun.   *)
HandlerStart(c) ==
    /\ handler[c] = "pending"
    /\ handler' = [handler EXCEPT ![c] = "active"]
    /\ UNCHANGED <<ownCH, done, conn, first, via, peek, watch, served,
                   subClosed, closePc, closeIdx, sinkClosed, sink, recv>>

(* The handler a versioned server started for a connection hands a batch  *)
(* to the shared sink (chanCallback.OnEvents: c.ch <- b).  The send blocks *)
(* while the buffer is full; on a closed sink it panics, which the model  *)
(* keeps as a batch sent into the closed sink.                             *)
HandlerSend(c) ==
    /\ handler[c] = "active"
    /\ Len(sink) < SinkCap \/ sinkClosed
    /\ sink' = Append(sink, c)
    /\ UNCHANGED <<ownCH, done, conn, first, via, peek, watch, served,
                   subClosed, closePc, closeIdx, sinkClosed, handler, recv>>

(* The handler returns: the client hung up or sent garbage, OnEvents saw   *)
(* its server's stop signal, or that server's Close stopped it; or the     *)
(* handler factory failed and none was started.                            *)
HandlerFinish(c) ==
    /\ handler[c] \in {"pending", "active"}
    /\ handler' = [handler EXCEPT ![c] = "done"]
    /\ UNCHANGED <<ownCH, done, conn, first, via, peek, watch, served,
                   subClosed, closePc, closeIdx, sinkClosed, sink, recv>>

(* Receive: the application calls it ...                                   *)
ReceiveCall ==
    /\ recv = "idle" /\ recv' = "wait"
    /\ UNCHANGED <<ownCH, done, conn, first, via, peek, watch, served,
                   subClosed, closePc, closeIdx, sinkClosed, handler, sink>>

(* ... and its select takes the next batch of s.ch ...                     *)
ReceiveBatch ==
    /\ recv = "wait" /\ sink # <<>>
    /\ sink' = Tail(sink) /\ recv' = "idle"
    /\ UNCHANGED <<ownCH, done, conn, first, via, peek, watch, served,
                   subClosed, closePc, closeIdx, sinkClosed, handler>>

(* ... or returns nil: s.done is closed, or s.ch is closed and empty.      *)
ReceiveNil ==
    /\ recv = "wait" /\ (done \/ (sinkClosed /\ sink = <<>>))
    /\ recv' = "idle"
    /\ UNCHANGED <<ownCH, done, conn, first, via, peek, watch, served,
                   subClosed, closePc, closeIdx, sinkClosed, handler, sink>>

Next ==
    \/ \E c \in Conns :
        \/ Handle(c) \/ PeekEOF(c) \/ PeekClosed(c) \/ PeekByte(c)
        \/ PeekSend(c) \/ PeekHandle(c)
        \/ WatchShutdown(c) \/ WatchPeekDone(c)
        \/ HandlerStart(c) \/ HandlerSend(c) \/ HandlerFinish(c)
    \/ CloseBegin \/ CloseSub \/ CloseSubReturn \/ CloseWait \/ CloseSink
    \/ ReceiveCall \/ ReceiveBatch \/ ReceiveNil

(* Goroutines are fair, and so is the accept loop of a versioned server    *)
(* that PeekSend meets; a handler returns once its server is closed        *)
(* (ServerLifecycle), and a Receive blocked in its select returns once a   *)
(* case is ready.  The clients (the first byte, hanging up, sending) and   *)
(* the application (Handle, Close, calling Receive) are not fair.          *)
Spec ==
    /\ Init /\ [][Next]_vars
    /\ \A c \in Conns :
        /\ WF_vars(PeekClosed(c)) /\ WF_vars(PeekSend(c))
        /\ WF_vars(PeekHandle(c)) /\ WF_vars(HandlerStart(c))
        /\ WF_vars(WatchShutdown(c)) /\ WF_vars(WatchPeekDone(c))
        /\ WF_vars(via[c] \in Versions /\ subClosed[via[c]] /\ HandlerFinish(c))
    /\ WF_vars(CloseSub) /\ WF_vars(CloseSubReturn) /\ WF_vars(CloseWait)
    /\ WF_vars(CloseSink) /\ WF_vars(ReceiveNil)

(* The top-level server seen as ServerLifecycle: it serves while some      *)
(* versioned server is open, is closing until Close has closed and waited  *)
(* for all of them; a connection is taken when a versioned server's accept *)
(* loop took it, and active until its handler (or the failed start) ends.  *)
Top == INSTANCE ServerLifecycle WITH
         own <- ownCH,
         phase <- CASE \E v \in Versions : ~subClosed[v] -> "serving"
                    [] closePc \in {"subs", "subwait"}   -> "closing"
                    [] OTHER                             -> "closed",
         taken <- {c \in Conns : handler[c] # "none"},
         active <- {c \in Conns : handler[c] \in {"pending", "active"}}

-----------------------------------------------------------------------------
(* Shutdown leaves no connection behind: once s.done is closed, every      *)
(* connection given to Handle is eventually closed or has been accepted by *)
(* a versioned server, whose own Close then stops it (module Server), even *)
(* when the client never sends its first byte or the peek is stuck on a    *)
(* closed versioned server.                                                *)
ShutdownReleasesConnection ==
    \A c \in Conns :
        (done /\ peek[c] # "none")
            ~> (conn[c] = "closed" \/ \E v \in Versions : <<v, "listener">> \in served[c])

(* Shutdown ends every peek goroutine: once s.done is closed, a peek that   *)
(* has started returns (close(sig)), whether it is reading the first byte  *)
(* or handing the connection to a versioned server that Close has closed.  *)
PeekEnds ==
    \A c \in Conns :
        (done /\ peek[c] \in {"read", "send", "handle"}) ~> peek[c] = "done"

(* The multiplexed server keeps the promises of a server: no batch goes    *)
(* into a closed sink, the versioned servers' handlers all return before  *)
(* Close does, and an owned sink is closed once Close returns.  The order  *)
(* of Close (close the versioned servers, each waiting for its handlers,  *)
(* then close the sink) is what makes the shared sink safe.                *)
TopLifecycleRefined == Top!Spec

=============================================================================
