------------------------------ MODULE Reader ------------------------------
(***************************************************************************)
(* The lumberjack v2 frame decoder of src/server/v2/reader.go (ReadBatch,  *)
(* readEvents, readJSONEvent, readCompressed) as operators over a token    *)
(* stream, driven by the read loop of handle() that calls ReadBatch until  *)
(* it fails, and checked against a reference decoder of the wire grammar.  *)
(*                                                                         *)
(* A token stands for one field of a frame: a version or frame-type byte   *)
(* (its ASCII code), a window size, the sequence number, length and JSON   *)
(* text of a 'J' frame (one payload token), the length and zlib bytes of a *)
(* 'C' frame (one blob token).  Inflate maps a blob to the token stream it *)
(* decompresses to; a blob outside its domain is not a zlib stream.        *)
(***************************************************************************)
EXTENDS Naturals, Sequences, SequencesExt

CONSTANTS
    GoodJSON,   \* payloads the JSON decoder accepts (each decodes to itself)
    Inflate,    \* zlib decompression: blob token -> token stream
    Streams     \* the client byte streams a connection may carry

CodeVersion == 50          \* '2'
CodeWindowSize == 87       \* 'W'
CodeJSONDataFrame == 74    \* 'J'
CodeCompressed == 67       \* 'C'

\* io.ReadFull of k tokens: the stream holds at least k more.
Has(in, k) == Len(in) >= k
Drop(in, k) == SubSeq(in, k + 1, Len(in))

Fail == [ok |-> FALSE, events |-> <<>>, rest |-> <<>>]
Ok(ev, rest) == [ok |-> TRUE, events |-> ev, rest |-> rest]

\* Mutants of readEvents: the loop stops one event early; the payload of a
\* 'J' frame is left unread; the decoder's error is ignored.
RECURSIVE ReadEventsShort(_, _, _), ReadEventsNoPayload(_, _, _),
          ReadEventsNoDecodeError(_, _, _)
ReadEventsShort(in, events, cap) ==
    IF Len(events) + 1 >= cap THEN Ok(events, in)
    ELSE IF ~Has(in, 2) \/ in[1] # CodeVersion THEN Fail
    ELSE CASE in[2] = CodeJSONDataFrame /\ Has(in, 3) /\ in[3] \in GoodJSON ->
                ReadEventsShort(Drop(in, 3), Append(events, in[3]), cap)
           [] in[2] = CodeCompressed /\ Has(in, 3) /\ in[3] \in DOMAIN Inflate ->
                LET r == ReadEventsShort(Inflate[in[3]], events, cap)
                IN IF r.ok THEN ReadEventsShort(Drop(in, 3), r.events, cap)
                           ELSE Fail
           [] OTHER -> Fail

ReadEventsNoPayload(in, events, cap) ==
    IF Len(events) >= cap THEN Ok(events, in)
    ELSE IF ~Has(in, 2) \/ in[1] # CodeVersion THEN Fail
    ELSE CASE in[2] = CodeJSONDataFrame /\ Has(in, 3) /\ in[3] \in GoodJSON ->
                ReadEventsNoPayload(Drop(in, 2), Append(events, in[3]), cap)
           [] in[2] = CodeCompressed /\ Has(in, 3) /\ in[3] \in DOMAIN Inflate ->
                LET r == ReadEventsNoPayload(Inflate[in[3]], events, cap)
                IN IF r.ok THEN ReadEventsNoPayload(Drop(in, 3), r.events, cap)
                           ELSE Fail
           [] OTHER -> Fail

ReadEventsNoDecodeError(in, events, cap) ==
    IF Len(events) >= cap THEN Ok(events, in)
    ELSE IF ~Has(in, 2) \/ in[1] # CodeVersion THEN Fail
    ELSE CASE in[2] = CodeJSONDataFrame /\ Has(in, 3) ->
                ReadEventsNoDecodeError(Drop(in, 3), Append(events, in[3]), cap)
           [] in[2] = CodeCompressed /\ Has(in, 3) /\ in[3] \in DOMAIN Inflate ->
                LET r == ReadEventsNoDecodeError(Inflate[in[3]], events, cap)
                IN IF r.ok THEN ReadEventsNoDecodeError(Drop(in, 3), r.events, cap)
                           ELSE Fail
           [] OTHER -> Fail

(* readEvents: read event frames until len(events) = cap(events).  A       *)
(* compressed frame continues the same events slice on the inflated        *)
(* stream; the outer stream then resumes after the whole blob (the limit   *)
(* reader is drained).  Any short read, bad version, unknown frame type,   *)
(* decoder or zlib error fails the whole window.                           *)
RECURSIVE ReadEvents(_, _, _)
ReadEvents(in, events, cap) ==
    IF Len(events) >= cap THEN Ok(events, in)
    ELSE IF ~Has(in, 2) \/ in[1] # CodeVersion THEN Fail
    ELSE CASE in[2] = CodeJSONDataFrame /\ Has(in, 3) /\ in[3] \in GoodJSON ->
                ReadEvents(Drop(in, 3), Append(events, in[3]), cap)
           [] in[2] = CodeCompressed /\ Has(in, 3) /\ in[3] \in DOMAIN Inflate ->
                LET r == ReadEvents(Inflate[in[3]], events, cap)
                IN IF r.ok THEN ReadEvents(Drop(in, 3), r.events, cap)
                           ELSE Fail
           [] OTHER -> Fail

(* ReadBatch: read the 6-byte window header, reject it as a protocol       *)
(* error, return no batch for a window of size 0, else read `count`        *)
(* events.  The header test is the code's: version AND type must both be   *)
(* wrong for the window to be rejected.                                    *)
ReadBatch(in) ==
    IF ~Has(in, 3) THEN Fail
    ELSE IF in[1] # CodeVersion /\ in[2] # CodeWindowSize THEN Fail
    ELSE IF in[3] = 0 THEN Ok(<<>>, Drop(in, 3))
    ELSE ReadEvents(Drop(in, 3), <<>>, in[3])

-----------------------------------------------------------------------------
(* The reference: the wire grammar of the protocol.  A window is a header  *)
(* '2' 'W' N followed by frames carrying exactly N events; a 'C' frame     *)
(* carries all events of the frames its blob inflates to.                  *)
RECURSIVE RefFrame(_), RefFrames(_, _), RefAll(_)
\* One event frame: its events and what follows it.
RefFrame(in) ==
    IF ~Has(in, 3) \/ in[1] # CodeVersion THEN Fail
    ELSE CASE in[2] = CodeJSONDataFrame /\ in[3] \in GoodJSON ->
                 Ok(<<in[3]>>, Drop(in, 3))
           [] in[2] = CodeCompressed /\ in[3] \in DOMAIN Inflate ->
                 LET z == RefAll(Inflate[in[3]])
                 IN IF z.ok THEN Ok(z.events, Drop(in, 3)) ELSE Fail
           [] OTHER -> Fail

\* Frames carrying exactly n events.
RefFrames(in, n) ==
    IF n = 0 THEN Ok(<<>>, in)
    ELSE LET f == RefFrame(in)
             r == RefFrames(f.rest, n - Len(f.events))
         IN IF f.ok /\ Len(f.events) <= n /\ r.ok
            THEN Ok(f.events \o r.events, r.rest)
            ELSE Fail

\* A whole inflated stream of frames.
RefAll(s) ==
    IF s = <<>> THEN Ok(<<>>, <<>>)
    ELSE LET f == RefFrame(s)
             r == RefAll(f.rest)
         IN IF f.ok /\ r.ok THEN Ok(f.events \o r.events, <<>>) ELSE Fail

(* The batches the spec says a stream carries: one per non-empty window,   *)
(* up to the first malformed or incomplete window.                         *)
RECURSIVE RefBatches(_)
RefBatches(in) ==
    IF ~Has(in, 3) \/ in[1] # CodeVersion \/ in[2] # CodeWindowSize
    THEN <<>>
    ELSE LET r == RefFrames(Drop(in, 3), in[3])
         IN IF ~r.ok THEN <<>>
            ELSE (IF in[3] = 0 THEN <<>> ELSE <<r.events>>)
                 \o RefBatches(r.rest)

-----------------------------------------------------------------------------
(* The read loop of handle() driving ReadBatch over one connection.       *)
VARIABLES
    stream,    \* what the client sent on the connection
    in,        \* what is still unread
    batches,   \* batches ReadBatch returned, in order
    closed     \* ReadBatch failed and the handler returned

vars == <<stream, in, batches, closed>>

TypeOK ==
    /\ stream \in Streams
    /\ in \in Suffixes(stream) \cup {<<>>}
    /\ batches \in Seq(Seq(GoodJSON))
    /\ closed \in BOOLEAN

Init ==
    /\ stream \in Streams
    /\ in = stream
    /\ batches = <<>>
    /\ closed = FALSE

(* ReadBatch returns a batch, which the loop passes on. *)
ReadNonEmpty ==
    LET r == ReadBatch(in) IN
    /\ ~closed /\ r.ok /\ r.events # <<>>
    /\ batches' = Append(batches, r.events)
    /\ in' = r.rest
    /\ UNCHANGED <<stream, closed>>

(* An empty window: ReadBatch returns nil and the loop reads on. *)
ReadEmpty ==
    LET r == ReadBatch(in) IN
    /\ ~closed /\ r.ok /\ r.events = <<>>
    /\ in' = r.rest
    /\ UNCHANGED <<stream, batches, closed>>

(* ReadBatch fails (protocol error, short read, decoder or zlib error, EOF *)
(* at the end of the stream): handle() returns and the connection closes.  *)
ReadFailed ==
    /\ ~closed /\ ~ReadBatch(in).ok
    /\ closed' = TRUE
    /\ UNCHANGED <<stream, in, batches>>

Next == ReadNonEmpty \/ ReadEmpty \/ ReadFailed

Spec == Init /\ [][Next]_vars /\ WF_vars(Next)

-----------------------------------------------------------------------------
(* Round trip, soundness: every batch ReadBatch returns is, in order, a    *)
(* complete window the client sent: the same events, as many as the window *)
(* announced, never a partial window and never one out of a malformed      *)
(* window or out of frames read with the wrong framing.                    *)
BatchesSound == IsPrefix(batches, RefBatches(stream))

(* Round trip, completeness: when the connection ends, the read loop has   *)
(* returned a batch for every non-empty well-formed window before the      *)
(* first malformed one, empty windows included in the stream.              *)
AllWindowsDelivered == closed => batches = RefBatches(stream)

=============================================================================
