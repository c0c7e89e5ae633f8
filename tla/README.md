# TLA+ models of the go-lumber server

This directory holds TLA+ models of the Lumberjack server in `src/`, the TLC
configurations that check them, and `PROJECT.json`. That file lists the
components, runs, mutants, the map from definitions to source lines, the
findings and the hazards.

Line numbers below refer to the files under `src/` as they are on disk. Several
files hold more than one Go source file joined together, so their line numbers
continue across the joined parts.
- `src/server/internal/handler.go`: lines 1-190 are `handler.go`, lines 191-372
  are the internal `server.go`.
- `src/server/v2/opts.go`: lines 1-111 are the v2 options, 112-245 the top-level
  options, and 246-533 the top-level `server.go`.
- `src/server/server.go` is an older version of that top-level `server.go`. It
  declares the same names in the same package, so it cannot be built beside
  `opts.go`; the models follow `opts.go`.

## 1. Inventory

### Components

| Component | Source | State it keeps | Operations |
|---|---|---|---|
| Connection handler `defaultHandler` | handler.go 29-190 | `signal` (stop channel), `ch` (unbuffered handoff), `client` conn, `stopGuard`, `keepalive` | `Run` (starts `ackLoop`, runs `handle`), `handle` (read loop), `ackLoop`, `waitACK`, `Stop` |
| Sink callback `chanCallback` | handler.go 245-261 | server `done` and `ch` | `OnEvents`: send to the sink, or `io.EOF` once the server is done |
| Internal server shell | handler.go 220-372 | listener, sink `ch`, `ownCH`, `closeSignaler` (signal + wait group) | `NewWithListener`, `run` (accept loop), `startConnHandler` (handler goroutine + shutdown watcher), `Close`, `Receive`, `ReceiveChan` |
| v2 frame decoder `reader` | reader.go 35-189 | buffered input, scratch buffer, timeout, TLS state, remote address | `ReadBatch`, `readEvents`, `readJSONEvent`, `readCompressed`, `readFull` |
| Version multiplexer / top-level server | opts.go 246-533 | `mux` list (version byte, mux listener, versioned server), `done`, `wg`, `ch`, `ownCH` | `newServer`, `Handle`/`handle` (peek goroutine + done watcher), `run`, `Close`, `Receive` |
| Options | opts.go 1-245 | timeout, keepalive, decoder, TLS, channel, v1/v2, logging | `Option` functions, `applyOptions` |
| Not in the given tree | - | - | ACK writer (`protocol/v2`), v1 reader, `lj.Batch`, `closeSignaler`, `muxListener`, `muxConn` |

### How they interact

Each accepted connection gets a `defaultHandler` and three goroutines:
- the read loop `handle()`;
- the ACK loop `ackLoop()`;
- the shutdown watcher of `startConnHandler`.

The read loop calls `ReadBatch`, hands each batch to the ACK loop over the
unbuffered channel `h.ch`, and then passes it to `chanCallback.OnEvents`. That
call sends the batch into the server's sink channel, which holds 128 batches.
The application receives batches from the sink and calls `batch.ACK()` on each.
The ACK loop waits in `waitACK` for that call, for the keep-alive timer or for
the stop signal. It then writes `ACK(n)` or `Keepalive(0)` to the client.

`Stop` is guarded by a `sync.Once`. It closes `h.signal` and then, in a second
statement, the connection, which makes the blocked `ReadBatch` fail. A second
caller of `Stop` waits inside the `Once` until the first has done both. When `handle` returns, its defers call
`Stop` and close `h.ch`. The ACK loop then drains `h.ch` and returns. On server
shutdown the watcher calls `h.Stop()`, and `OnEvents` gives up through the
server's `done` signal.

When both protocol versions are enabled, the top-level server peeks at the first
byte of each connection in its own goroutine and routes the connection to the v1
or v2 server. A second goroutine closes the connection if the server shuts down
first. Connections reach the top-level server only through `Handle(conn)`:
`newServer` keeps the listener but never starts the accept loop (opts.go
473-474 are commented out).

### What is hard

- The read loop, the ACK loop, the watcher, the consumer and the keep-alive
  timer interleave. Go's `select` picks at random when several cases are ready,
  for example `signal` and `Await` after `Stop`.
- The consumer acknowledges batches in any order, but ACKs must leave in read
  order.
- Failures:
  - client EOF, a protocol error, a read deadline or a decoder error, all of
    which end the read loop;
  - ACK or keep-alive write errors, which end only the ACK loop.
- Shutdown must end every goroutine even when the client is idle and the
  consumer has stopped. After shutdown nothing may be ACKed.
- Framing: the window header check, the recursive compressed frame, draining
  the rest of the compressed payload, empty windows, and counts that do not
  match the frames sent.

### Properties that make each component correct

- **Handler**:
  - ACK frames follow read order and carry the window's event count.
  - No ACK is sent before the consumer acknowledges the batch.
  - The handoff keeps back-pressure.
  - Nothing is ACKed for a batch the consumer did not acknowledge, also
    during shutdown.
  - Every batch is ACKed unless the connection is torn down.
  - Both goroutines end after Stop or server shutdown.
  - The handler implements the abstract `AckChannel`.
  - A batch the consumer holds keeps getting keep-alive frames.
- **Reader**:
  - Every batch is a complete window that was sent (soundness).
  - Every well-formed window is delivered (completeness).
  - A malformed window closes the connection without a partial batch.
- **Server shell**: the owned sink is closed only after every handler has
  stopped sending; `Close` returns and leaves no connection open; the server
  implements the abstract `ServerLifecycle`.
- **Multiplexer**: shutdown closes connections that are still in the peek, and
  ends every peek goroutine. With the versioned servers sharing its sink, the
  multiplexed server also implements `ServerLifecycle`.
- **Options**: the v2 server runs with the settings asked for or their
  defaults; `ListenAndServe` keeps a listener only for a server that holds it,
  and that server accepts on it.

## 2. Plan

In order of importance:

1. **Handler** (done): one connection, with all three goroutines, the sink,
   the consumer and server shutdown.
2. **AckChannel** (done): the abstract specification of what a connection
   promises its client. Handler is checked to refine it (`AckChannelRefined`).
3. **Reader** (done): the v2 decoder as recursive operators, checked against a
   reference decoder of the wire grammar. Two violation runs record where the
   code and the spec disagree.
4. **Server** (done): the internal server shell with several connections
   sharing one sink: the accept loop, `startConnHandler` (factory failure, wait
   group, watcher), `chanCallback`, `Receive` and each step of `Close`. Each
   handler is cut down to its read loop; `Handler` has the ACK loop.
5. **Mux** (done): `handle` with the peek goroutine, the routing loop, the send
   on the mux listener, `m.server.Handle`, the done watcher and the top-level
   `Close`.
6. **Options** (done): every `Option`, both `applyOptions` and `newServer`'s
   construction, as operators over all option lists of up to three options.
7. **ServerLifecycle** (done): the abstract specification of what a server
   promises about its connections and its sink. Server is checked to refine it
   (`ServerLifecycleRefined`).
8. **Keep-alive liveness, peek exit, `ListenAndServe`** (done):
   `KeepaliveWhileWaiting` with a stalled consumer; `PeekEnds`;
   `ListenAndServe` in Options.
9. **Composition** (done): in `Mux` the versioned servers' handlers send into
   the shared sink as `ServerLifecycle` describes them, `Close` waits for each
   versioned server, and the application calls `Receive`. The multiplexed
   server is checked to refine `ServerLifecycle` (`TopLifecycleRefined`).
10. The v1 path (`KeepaliveOn = FALSE`) needs no run of its own. In `handler`
    the keep-alive timer is not fair, so the behaviours where it never fires,
    which are those of the v1 path, are among those checked.

## 3. Modules and how they map to the code

### `Handler.tla`

The variables are:
- `rd`: the program counter of `handle`;
- `ack`: the program counter of `ackLoop`/`waitACK`;
- `watcher`: the program counter of the shutdown watcher;
- `sizes`: the batches read, each as its event count;
- `ackCur`: the batch in `waitACK`;
- `kaCount`: keep-alives written for the current batch;
- `signal`, `connClosed`, `chClosed`, `srvDone`: closed channels and
  connections;
- `sink`: the server channel;
- `consumed` and `acked`: the consumer's view;
- `wire`: the frames written, with count n > 0 for an ACK and 0 for a
  keep-alive.

There is one action per branch of the code:
- the read loop: `ReadWindow`, `ReadError`, `ReadClosed`, `PushStopped`,
  `Handoff`, `Deliver`, `DeliverAborted`;
- the ACK loop: `AckLoopExit`, `DrainEnd`, `WaitStopped`, `WaitAcked`,
  `WaitKeepalive`;
- `Stop`'s second statement: `StopClose`;
- the watcher: `WatchStop`, `WatchStopReturn`, `WatchEnd`;
- the environment: `ServerClose`, `Receive`, `ConsumerAck`.

`Spec` makes the goroutines fair (`GoroutineFairness`) and the consumer fair
(`ConsumerFairness`). `StalledConsumerSpec` drops the consumer's fairness and
adds the keep-alive timer's.

Every exit path of `handle` runs its defers. `HandleReturn` enters `Stop`
(`rd = "stop"`) and closes `h.signal` if it is the first caller. `StopClose`
closes the connection. `HandleExit` is `Stop` returning, once the connection
is closed, followed by `close(h.ch)`. The watcher's call (`WatchStop`,
`WatchStopReturn`) has the same two steps. A caller that comes second waits
in the `Once` until `StopClose` has happened, as `sync.Once.Do` makes it.
The constant `ServerCloses` says whether `Server.Close` may be called during
the connection's life. A write fails on a closed connection and may fail on an open
one. An empty window does not change this model's state, so it is a stutter
step here; `Reader` models empty windows.

### `AckChannel.tla`

The abstract connection has four variables: `sent`, `confirmed`, `wire` and
`open`. Its actions:
- `Accept` takes a window;
- `Confirm` records the application's acknowledgement of a window, in any order;
- `Ack` ACKs the oldest unACKed window once it is confirmed;
- `KeepAlive` writes a keep-alive;
- `Close` ends writing for good.

Handler maps onto it as follows:
- `sent` is `sizes`;
- `confirmed` is `acked`;
- `open` is `~connClosed /\ ack \in {"select","wait"}`.

### `Reader.tla`

A token stands for one wire field:
- a version or frame-type byte, as its ASCII code;
- a window count;
- a JSON frame's sequence number, length and text, as one payload token;
- a compressed frame's length and zlib bytes, as one blob token.

`Inflate` is zlib decompression, given as a table from blob to token stream. A
blob outside that table is not a zlib stream.

`ReadEvents` and `ReadBatch` follow the code branch for branch. This includes:
- the `&&` in the header test;
- a compressed frame continuing the same event slice;
- resuming after the whole blob, which is the limit-reader drain.

`RefFrame`, `RefFrames`, `RefAll` and `RefBatches` decode the grammar of the
spec. The state machine is the read loop of `handle` calling `ReadBatch` until
it fails.

### `Server.tla`

The variables are per connection `c` (functions over `Conns`) or global:
- `conn[c]`: `"idle"` until accepted, then `"open"` or `"closed"`;
- `hd[c]`: the pc of the handler goroutine (`read`, `push`, `deliver`, `stop`
  while in `Stop`, `done`);
- `hsig[c]`, `watch[c]`, `sent[c]`: `h.signal`, the watcher's pc, windows read;
- `runPc`, `starting`, `lisClosed`: the accept loop (`accept`, `start` while
  in `startConnHandler`, `done`), the connection it is starting, its listener;
- `sigDone`, `wg`: the `closeSignaler` signal and wait-group counter;
- `sink`, `sinkClosed`, `ownCH`: the shared sink channel;
- `closePc`: the step `Close` is at.

Actions: `Accept` (`Accept` returns a client), `StartConn` and
`StartFactoryFail` (`startConnHandler`, a separate step, so `Close` can run
between the two), `AcceptClosed`; `ReadWindow`, `ReadError`, `ReadClosed`,
`PushOk`, `PushStopped`, `DeliverOk`, `DeliverDone` (the read loop and
`OnEvents`), all leaving through `HandleReturn` (the deferred `Stop`, first
step); `StopClose` (`Stop`'s second step); `HandleExit` (`Stop` returns, then
`close(stopped)` and `sig.Done()`); `WatchStop`, `WatchStopReturn`,
`WatchEnd`; `Receive`; `CloseBegin`,
`CloseListener`, `CloseSignal`, `CloseWait`, `CloseSink`, one per statement of
`Close`. `closeSignaler` is not in the source: following the spec's "stop
signal broadcast to all handlers; a wait group for graceful drain", its `Close`
closes the signal (`CloseSignal`) and waits for the group (`CloseWait`).

### `ServerLifecycle.tla`

The abstract server has the variables `own`, `phase` (`serving`, `closing`,
`closed`), `taken`, `active`, `sink` and `sinkClosed`. Its actions:
- `Take` gives a connection a handler, only while serving;
- `Send` puts a batch into the sink, never into a closed one;
- `Finish` ends a handler;
- `Consume` is the application receiving;
- `BeginClose` and `EndClose`, the second only once no handler is active;
- `CloseSink`, only for an owned sink after `Close`.

Its fairness: once `Close` is called every handler finishes, `Close` returns
and an owned sink is closed.

Server maps onto it as follows:
- `phase` is `serving` until the listener is closed, `closing` while `Close`
  signals and waits, and `closed` after;
- `taken` is the connections `Accept` returned (only while the listener is
  open, so only while serving);
- `active` is the connection in `startConnHandler` and those whose handler is
  in `read`, `push`, `deliver` or `stop`.

`StartConn`, `StopClose` and the watcher's steps are stutter steps; a failed
factory call is `Finish`.

### `Mux.tla`

The top-level server of `opts.go` when both versions are enabled. Per
connection: `conn`, the byte read `first`, the entry routed to `via`, the
peek goroutine's pc `peek` (`read`, `send`, `handle`, `done`), the watcher's pc
`watch`, and `served`, the pairs (version, `"listener"`/`"handle"`) recording
who took the connection up. Globally `done`, `subClosed` per version,
`closePc`/`closeIdx` for `Close`'s loop over the mux entries, `ownCH` and
`sinkClosed`. `muxListener` and the versioned servers are not in the source:
`PeekSend` is the send `m.l.ch <- conn` taken as a rendezvous with the versioned
server's accept loop, which exists until that server is closed; `PeekHandle` is
`m.server.Handle(conn)`, which by the spec injects the connection.

The versioned servers are composed in as `ServerLifecycle` describes a server,
which module `Server` is checked to implement:
- `handler` per connection: `PeekSend` is the versioned server's `Accept`
  taking the connection (`pending`); `HandlerStart` is its `startConnHandler`
  starting the handler (`active`); `HandlerSend` is `chanCallback.OnEvents`
  sending into the shared sink `sink` of `SinkCap` batches; `HandlerFinish`
  is the handler goroutine returning, or the factory failing.
- `m.server.Close()` is two steps: `CloseSub` closes that server, and
  `CloseSubReturn` returns once no connection it accepted is pending or
  active (its accept loop holds the wait group while it starts one).
- `Receive` is `ReceiveCall`, then `ReceiveBatch` or `ReceiveNil`, the two
  cases of its select.

A send into a closed sink panics in Go; the model lets it happen as a batch
appended to a closed sink, which `TopLifecycleRefined` forbids.

`Top` maps the multiplexed server onto `ServerLifecycle`:
- `phase` is `serving` while some versioned server is open, `closing` until
  `Close` has waited for all of them, then `closed`;
- `taken` is the connections a versioned server accepted; `active` is those
  still pending or whose handler still runs.

### `Options.tla`

An `Option` is a record `[k, v]`. `SetOption` is the body of every `Option`
function (only `Keepalive` and `Timeout` can fail), `ApplyOptions` is
`applyOptions` as a `FoldLeft` that stops at the first error, with the
top-level defaults `TopDefaults` or the v2 ones `V2Defaults` (logging off).
`NewServer` is `newServer`: the enabled versions, `ErrNoVersionEnabled`, one
server alone or a mux, the owned channel and the options `V2Forwarded` passes
to the v2 server. Its result records whether the server accepts on the
listener: a single versioned server does (the internal `NewWithListener`
starts `run()`), the mux does not (opts.go 473-474 are commented out).
`ListenAndServe` covers `ListenAndServe`, `ListenAndServeWith` and
`NewWithListener`:
- apply the options, and return an error before binding;
- bind, with TLS when it is configured (the bind may fail, `bindOk`);
- build the server, and close the listener when that fails.

The state machine is one call on each option list, `Call` (`NewServer`) or
`ListenAndServe`. `Setting` is the spec's rule: the last value given, or the
default.

## 4. Runs

| Run | Checks | Result |
|---|---|---|
| `handler` (`MCHandler.cfg`) | TypeOK, BackPressure, BatchEventuallyAcked, HandlerTerminates, with server shutdown | pass, 108,579 states |
| `handler_stalled_consumer` (`MCHandlerStalled.cfg`) | AcksFollowReadOrder, AckOnlyAfterConsumerAck, AckChannelRefined, KeepaliveWhileWaiting, for a connection the server does not shut down, a consumer that may stop, and 2 keep-alives per batch | pass, 21,081 states |
| `handler_shutdown_ack` (`MCHandlerShutdown.cfg`) | AckOnlyAfterConsumerAck with server shutdown, keep-alive off | violation: an ACK is written between `close(h.signal)` and `h.client.Close()` (handler.go:91) |
| `reader_roundtrip` (`MCReader.cfg`) | TypeOK, BatchesSound, AllWindowsDelivered over about 770 streams | pass |
| `reader_window_header` (`MCReaderHeader.cfg`) | BatchesSound on headers `'1''W'`, `'2''J'`, `'1''J'` | violation: the header test at reader.go:72 uses `&&` |
| `reader_compressed_mixed` (`MCReaderMixed.cfg`) | AllWindowsDelivered on windows where a compressed frame is followed by another frame | violation: readEvents fails with EOF inside the compressed frame (reader.go:164) |
| `server` (`MCServer.cfg`) | TypeOK, SinkClosedAfterHandlers, HandlersCloseConnections, CloseTerminates, ServerLifecycleRefined, with a handler factory that may fail | pass, 34,547 states |
| `server_factory_leak` (`MCServerFactory.cfg`) | ClosedServerHoldsNoConnection with a failing factory | violation: the accepted connection is never closed (handler.go:345) |
| `mux` (`MCMux.cfg`) | TypeOK, ShutdownReleasesConnection, TopLifecycleRefined | pass, 95,914 states |
| `mux_peek_blocked` (`MCMuxPeekBlocked.cfg`) | PeekEnds | violation: a peek that routes after `Close` closed the versioned servers blocks for ever (opts.go:518) |
| `options` (`MCOptions.cfg`) | TypeOK, NewServerAsSpecified, ListenerHeldByServer over 2,955 option lists, through `NewServer` and through `ListenAndServe` with a bind that succeeds or fails | pass, 23,640 states |
| `options_no_accept` (`MCOptionsNoAccept.cfg`) | ListenerAccepted | violation: with both versions (the default) nothing accepts on the bound listener (opts.go:473) |

**Bounds.** `handler` uses:
- 3 windows per connection, of 1 or 2 events;
- a sink of 1 slot;
- 1 keep-alive per waiting batch.

Three windows are enough for the read loop to run two batches ahead of the ACKs
(`BackPressure`). They are also enough for ACKs of several batches to be
reordered by the consumer. A one-slot sink makes the read loop block on a full
sink. Each of these is the smallest bound at which its case happens.

`reader_roundtrip` covers:
- windows of up to two JSON frames, followed by an optional compressed frame
  (valid, nested, containing a bad JSON payload, or not zlib);
- counts exact or one too many;
- a second window that is empty, JSON or compressed;
- every prefix of every first window.

`server` uses two connections with up to two windows each and a one-slot
sink: one handler can then be blocked on the full sink while the other reads,
and `Close` can start with handlers in every stage, and between `Accept` and
`startConnHandler`. (Three connections give 2,016,465 states and take over
seven minutes, with no new kind of step.) The sink's owner is chosen
in `Init` (nil or external channel). `mux` uses two connections and the first
bytes `'1'`, `'2'` and one other, so that both versions, the unknown byte and
shutdown during every peek stage occur; its sink holds two batches, so a
handler can block on a full sink while `Close` runs. `options` enumerates every list of up
to three options drawn from a negative, zero and positive duration for each of
`Timeout` and `Keepalive`, both values of `V1` and `V2`, and `Channel`, `TLS`,
`JSONDecoder`, `Logging(false)`: enough for an override to follow a setting
and for an error to come before or after one.

`handler_stalled_consumer` allows two keep-alives per batch, so that the ACK
loop has to go round `waitACK`'s loop at least once after a keep-alive. It
leaves out `Server.Close` (`ServerCloses = FALSE`): with it, the ACK contract
does not hold (`handler_shutdown_ack`), and the run shows that it holds for
connections ended by the client or by errors. The safety properties do not
depend on the consumer's fairness, so the stalled consumer only adds
behaviours.

**Fairness.** The goroutines of the handler are weakly fair: a runnable
goroutine eventually runs. `ReadClosed` is weakly fair because a read on a
closed connection returns at once, and so are `StopClose` and the returns from
`Stop`: the `Do` function closes the connection without blocking. The client's sending (`ReadWindow`), its
errors (`ReadError`) and server shutdown (`ServerClose`) are not fair: a client
may stay idle forever, which is spec scenario S4. The consumer is weakly fair on
`Receive` and on each `ConsumerAck`. This is the documented contract "Batches
read from channel must be ACKed".

`handler_stalled_consumer` drops that contract: it checks what happens when
the consumer stops. It makes the keep-alive timer weakly fair instead, because
`time.After(h.keepalive)` fires once the interval has passed while `waitACK`
is blocked in its select.

In `Server` and `Mux` the goroutines are weakly fair, including `run()` in
`startConnHandler` (`StartConn` or `StartFactoryFail`) and a versioned server
starting a handler (`HandlerStart`), and so are a read or peek on a closed
connection and a versioned server's accept loop; clients
(windows, errors, connecting, the first byte) and the application (`Receive`,
`Handle`, calling `Close` or `Receive`) are not. In `Mux` a versioned server's
handler returns once that server is closed, which is what `Server` shows of
its `Close`, and a `Receive` blocked in its select returns once one of its
cases is ready. Liveness therefore holds whatever clients
and the application do. `ServerLifecycle` asks for fairness only once `Close`
has been called.

**Deadlock checking** is off in every passing run. A connection whose handler
has returned, a stream read to the end, a server after `Close`, or a finished
`newServer` call has nothing left to do.

## 5. Findings

- **Code bug, `reader.go:72`.** `win[0] != CodeVersion && win[1] != CodeWindowSize`
  rejects a header only when both bytes are wrong. TLC reads the stream
  `'1' 'W' 1 '2' 'J' e`, and also `'2' 'J' 1 '2' 'J' e`, as a one-event batch. The same thing happens
  after a window that announced too few events: the next event frame is then
  read as a window header.
- **Spec/code divergence, `reader.go:164`.** A compressed frame has to carry
  every remaining event of its window, because `readEvents` keeps reading from
  the zlib reader until the window is full. The spec describes a compressed
  frame as a sequence of event frames of the window. Real clients compress
  whole windows, which is why `reader_roundtrip` passes on them.

- **Code bug, `handler.go:345`.** When the handler factory fails,
  `startConnHandler` logs (the nil handler, not the error) and returns without
  closing the accepted connection. After `Close` it is still open
  (`server_factory_leak`). `DefaultHandler` fails whenever its protocol factory
  does. The `server` run, where the factory may fail, shows that the wait group
  is not affected: `Close` still returns.
- **Spec/code divergence, `opts.go:518`.** A peek that has read the first byte
  sends the connection on `m.l.ch`. When `Close` has closed the versioned
  servers in the meantime, nobody receives: the goroutine blocks for ever and
  holds the connection (`mux_peek_blocked`). The spec says `Close` stops the
  server and its connections.
- **Code bug, `handler.go:91`.** `Stop` closes `h.signal` and only then the
  connection. In between, `waitACK` returns on the signal without ACKing its
  batch, `ackLoop`'s select may still take the next batch from `h.ch` (Go picks
  at random among ready cases), and that batch's `waitACK` may pick
  `batch.Await()` and write its ACK on the still open connection. Trace, with
  keep-alive off: two windows are read; `Server.Close`; the watcher closes
  `h.signal`; `waitACK` of batch 1 returns; batch 2 is handed over and
  delivered; the consumer ACKs batch 2 only; `ACK(1)` is written. The client
  counts ACKs against its oldest window, so it drops batch 1, which was never
  acknowledged (`handler_shutdown_ack`). The spec says ACKs follow read order
  and that batches queued at `Close` get no further ACK. The same window breaks
  `AcksFollowReadOrder` and `AckChannelRefined`; without server shutdown all
  three hold (`handler_stalled_consumer`).
- **Code bug, `opts.go:473`.** With both versions enabled, which is the default
  of `applyOptions`, `newServer` stores the listener but the start of the
  accept loop is commented out: a server from `ListenAndServe` binds the
  address and never accepts a connection (`options_no_accept`). The doc
  comment of `ListenAndServe` says it handles requests from accepted clients.
- **Not checked by a run.** After sending the connection on `m.l.ch`, the
  peek goroutine also calls `m.server.Handle(conn)` (opts.go:519). If the
  versioned `Handle` injects the connection as the spec describes, the
  connection is taken up twice. `Mux` keeps both steps (`served`), but
  the versioned `Handle` is not in the source, so no run states it. Likewise,
  after `Close`, `Receive` (opts.go:387) may still return a queued batch,
  because Go picks at random between `s.done` and `s.ch`. `Mux` allows it; the
  batch's ACK then produces no frame and the client resends it.

## 6. Not modelled (yet) and why

- **`src/server/server.go`**: an older version of the top-level server (it
  cannot be built beside the one in `opts.go`). Its mux entries leave
  `l` nil (line 156 commented out), so routing any connection dereferences nil
  at line 205: a crash on the first routed connection, with no interleaving to
  explore.
- **The Option functions and `applyOptions` of each package**: the v2 ones
  (opts.go 1-111) and the top-level ones are the same code over different
  defaults; `SetOption` and `ApplyOptions` stand for both.
- **`ReceiveChan`**: it only returns the channel; `Receive` is modelled in
  `Mux`.
- **The versioned servers inside `Mux`**: they are taken at the level of
  `ServerLifecycle`, not as the goroutines of `Server`. Composing the detailed
  modules would multiply two state spaces that take 23 s and 186,328 states
  alone. `m.server.Handle(conn)` starts no second handler in the composition.
- **Top-level `run()` and the net listener**: commented out in the code;
  connections reach the top-level server only through `Handle`.
- **Double `Close`**: a second call closes `s.done` again and panics
  (opts.go:363), while the spec calls `Close` idempotent. It is one sequential
  call, not modelled.
- **Read deadlines** (`SetReadDeadline`): a timeout mid-window is one of the
  errors `ReadError` stands for. There is no deadline between windows, which is
  why an idle client is not forced to act.
- **ACK writer, v1 reader, `lj.Batch`, `closeSignaler`, `muxListener`**: not in
  the source tree given. The Batch acknowledgement is modelled from the spec
  (`ConsumerAck`).
- **Event contents, TLS state, remote address, logging, buffer reuse**: data
  that no property tells apart.
