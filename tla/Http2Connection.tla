---------------------------- MODULE Http2Connection ----------------------------
(***************************************************************************)
(* One HTTP/2 connection: the reader task of http2_reader.rs, the          *)
(* connection task of http2_connection.rs with its context, the tasks it   *)
(* spawns to dispatch requests, and the stream tasks of Http2Stream.  The  *)
(* client is any sequence of at most MaxFrames frames of ClientFrames.     *)
(*                                                                         *)
(* The handshake is over: preface and first SETTINGS have been exchanged.  *)
(* Arithmetic on the count of active streams wraps, as in a release build. *)
(* The window the server grants (window_size_of_server) is written and     *)
(* never read, and the client's options are stored and never used: neither *)
(* has a counterpart here.                                                 *)
(***************************************************************************)
EXTENDS Http2Stream, FiniteSets

CONSTANTS ClientFrames,   \* the frames the client may send
          MaxFrames,      \* how many of them it sends
          ReaderChannel,  \* capacity of the channel from the reader (100)
          Permits,        \* permits of concurrent_dispatch_limit (100)
          Sizes,          \* sizes of response bodies
          HeaderOutcomes, \* what decoding a block of headers may give
          TrailerOutcomes,\* what decoding a block of trailers may give
          GoawayIds,      \* identifiers that fit the mask of GOAWAY (2^27)
          MaxFrameSize, MaxStreams, CountModulus

ASSUME ClientAssumption ==
  /\ ClientFrames \subseteq Frame /\ Sizes \subseteq Nat
  /\ \A f \in ClientFrames : f.sid \in Streams \cup {0}
  /\ HeaderOutcomes \subseteq {"plain", "trailer", "malformed", "compression", "other"}
  /\ TrailerOutcomes \subseteq {"fields", "empty", "malformed", "compression", "other"}

ASSUME LimitsAssumption ==
  /\ MaxFrames \in Nat /\ MaxFrameSize \in Nat /\ MaxStreams \in Nat
  /\ CountModulus \in Nat /\ CountModulus > MaxStreams + 1
  /\ GoawayIds \in Nat \ {0}

Handlers == INSTANCE FrameHandlers

VARIABLES reader,     \* the reader task: "reading" or "ended"
          fromReader, \* parsed frames on their way to the connection
          framesRead, \* how many frames the client has sent
          peer,       \* does the client keep its socket open?
          ctx,        \* Http2ConnectionContext1
          root,       \* is the root token cancelled?
          fresh,      \* is a stream's re-created token cancelled?
          blocked,    \* the message the connection waits to send to a stream
          parked,     \* pending_frames of serve
          dispatch,   \* the dispatch task of a stream's request
          wire,       \* the frames written, per stream, 0 the connection
          stage       \* how far a request has been forwarded (not in the code)

readerVars == <<reader, fromReader, framesRead, peer>>
connVars   == <<ctx, root, fresh, blocked, parked, wire, stage>>
vars == <<streamVars, readerVars, connVars, dispatch>>

NoGoaway == -1

\* The Last-Stream-ID of a GOAWAY, written or read: its mask 0x7FFF_FFF leaves
\* 27 bits of the identifier.
LastStreamId(id) == id % GoawayIds

\* What send puts on the socket: last is GOAWAY's Last-Stream-ID.
Written(kind, es, len, last, code) ==
  [kind |-> kind, es |-> es, len |-> len, last |-> last, code |-> code]
GoawayFor(last, code) == Written("GOAWAY", FALSE, 8, LastStreamId(last), code)
ResetFor(code)        == Written("RST_STREAM", FALSE, 4, 0, code)
AckOf(f)              == Written(f.kind, FALSE, IF f.kind = "PING" THEN f.len ELSE 0, 0, "NO_ERROR")
ResponseFrame(f)      == Written(f.kind, f.es, f.len, 0, "NO_ERROR")

ConnInit ==
  /\ StreamInit
  /\ reader = "reading" /\ fromReader = <<>> /\ framesRead = 0 /\ peer = "open"
  /\ ctx = [known     |-> {},       \* keys of streams_channels
            token     |-> [s \in Streams |-> "none"], \* child_tokens
            inflight  |-> 0,        \* inflight_headers_frame_stream_id, 0 for None
            active    |-> 0,        \* current_active_stream_count
            window    |-> InitWindow, \* current_window_size_of_client
            maxActive |-> 0,
            seenMax   |-> 0,
            goaway    |-> NoGoaway, \* go_away_stream_id
            error     |-> NoError]
  /\ root = FALSE
  /\ fresh = [s \in Streams |-> FALSE]
  /\ blocked = <<>>
  /\ parked = <<>>
  /\ dispatch = [s \in Streams |-> [at |-> "none", token |-> "none", size |-> 0]]
  /\ wire = [s \in Streams \cup {0} |-> <<>>]
  /\ stage = [s \in Streams |-> "idle"]

-----------------------------------------------------------------------------
(* The client and the reader task *)

\* The frame goes to the connection; when that is gone the send is unwrapped
\* and the reader ends.
ReadFrame(f) ==
  /\ reader = "reading" /\ framesRead < MaxFrames
  /\ \/ /\ connUp /\ Len(fromReader) < ReaderChannel
        /\ fromReader' = Append(fromReader, f)
        /\ UNCHANGED reader
     \/ /\ ~connUp /\ reader' = "ended"
        /\ UNCHANGED fromReader
  /\ framesRead' = framesRead + 1
  /\ UNCHANGED <<streamVars, connVars, dispatch, peer>>

PeerCloses ==
  /\ peer = "open" /\ peer' = "closed"
  /\ UNCHANGED <<streamVars, connVars, dispatch, reader, fromReader, framesRead>>

\* The reader's token is cancelled, or the socket is at its end.
ReaderStops ==
  /\ reader = "reading" /\ (root \/ peer = "closed")
  /\ reader' = "ended"
  /\ UNCHANGED <<streamVars, connVars, dispatch, fromReader, framesRead, peer>>

-----------------------------------------------------------------------------
(* What the connection does in its steps *)

\* A write to the socket fails only once the client has closed it.
WriteOutcomes == IF peer = "open" THEN {TRUE} ELSE {TRUE, FALSE}

Write(sid, frames) == wire' = [wire EXCEPT ![sid] = @ \o frames]

\* Mutant of CancelAll: the tokens of the streams are no children of the root.
CancelRootOnly == root' = TRUE /\ UNCHANGED <<cancelled, fresh>>

CancelAll ==
  /\ root' = TRUE
  /\ cancelled' = [s \in Streams |-> TRUE]
  /\ fresh' = [s \in Streams |-> TRUE]

\* serve returns; its receiving ends are dropped, and the channels' contents.
Leave ==
  /\ connUp' = FALSE
  /\ toConn' = <<>> /\ fromReader' = <<>> /\ blocked' = <<>>

\* serve returns early: nobody cancels the root token.
Abandon ==
  /\ Leave
  /\ UNCHANGED <<root, cancelled, fresh>>

Decremented(count) == (count - 1) % CountModulus
Incremented(count) == (count + 1) % CountModulus

\* At the top of the loop, with nothing waiting to be sent.
Ready == connUp /\ blocked = <<>>
Selecting == Ready /\ ctx.error = NoError

\* Mutant of HandleConnectionError: serve goes on after GOAWAY.
HandleConnectionErrorOnly ==
  /\ Ready /\ ctx.error.scope = "connection"
  /\ CancelAll
  /\ \E written \in WriteOutcomes :
       Write(0, IF written THEN <<GoawayFor(ctx.seenMax, ctx.error.code)>> ELSE <<>>)
  /\ ctx' = [ctx EXCEPT !.error = NoError]
  /\ UNCHANGED <<task, inbox, toConn, connUp, fromReader, blocked, reader, framesRead,
                 peer, parked, dispatch, stage>>

\* handle_connection_error, then should_close.
HandleConnectionError ==
  /\ Ready /\ ctx.error.scope = "connection"
  /\ CancelAll
  /\ \E written \in WriteOutcomes :
       Write(0, IF written THEN <<GoawayFor(ctx.seenMax, ctx.error.code)>> ELSE <<>>)
  /\ Leave
  /\ ctx' = [ctx EXCEPT !.error = NoError]
  /\ UNCHANGED <<task, inbox, reader, framesRead, peer, parked, dispatch, stage>>

\* cancel_stream_token: the token's entry goes, and one from the count.
CancelToken(s) ==
  /\ ctx' = IF ctx.token[s] = "none" THEN [ctx EXCEPT !.error = NoError]
            ELSE [ctx EXCEPT !.error = NoError, !.token[s] = "none",
                             !.active = Decremented(@)]
  /\ cancelled' = [cancelled EXCEPT ![s] = @ \/ ctx.token[s] = "task"]
  /\ fresh'     = [fresh EXCEPT ![s] = @ \/ ctx.token[s] = "fresh"]

HandleStreamError ==
  /\ Ready /\ ctx.error.scope = "stream"
  /\ CancelToken(ctx.error.sid)
  /\ \E written \in WriteOutcomes :
       IF written
       THEN /\ Write(ctx.error.sid, <<ResetFor(ctx.error.code)>>)
            /\ UNCHANGED <<connUp, toConn, fromReader, blocked>>
       ELSE Leave /\ UNCHANGED wire
  /\ UNCHANGED <<task, inbox, root, reader, framesRead, peer, parked, dispatch, stage>>

\* An error that is no Http2Error is dropped.
DropOtherError ==
  /\ Ready /\ ctx.error.scope = "other"
  /\ ctx' = [ctx EXCEPT !.error = NoError]
  /\ UNCHANGED <<streamVars, readerVars, root, fresh, blocked, parked, wire, stage, dispatch>>

-----------------------------------------------------------------------------
(* A frame from the reader *)

\* Mutant of InflightViolated: a frame of the same stream may interrupt a block.
InflightOfOther(f) == ctx.inflight # 0 /\ f.sid # ctx.inflight

\* is_valid_considering_inflight_headers
InflightViolated(f) ==
  ctx.inflight # 0 /\ ~(f.sid = ctx.inflight /\ f.kind = "CONTINUATION")

OnConnectionLevel(f) == f.kind \in {"SETTINGS", "PING", "GOAWAY"}

TakeFrame(f) ==
  /\ Selecting /\ fromReader # <<>> /\ f = Head(fromReader)
  /\ UNCHANGED <<reader, framesRead, peer, parked, dispatch>>

\* The connection is left without GOAWAY and without cancelling anything.
FrameInsideBlock ==
  \E f \in ClientFrames :
    /\ TakeFrame(f) /\ InflightViolated(f)
    /\ Abandon
    /\ ctx' = [ctx EXCEPT !.error = Handlers!ProtocolError]
    /\ UNCHANGED <<task, inbox, wire, stage>>

Verdict(f, c) == Handlers!Verdict(f, c.active, c.window)

\* Mutant of Processed: a block is open after HEADERS without END_STREAM.
ProcessedByEndStream(f, c) ==
  CASE f.kind = "GOAWAY" -> [c EXCEPT !.goaway = LastStreamId(f.val)]
    [] f.kind = "WINDOW_UPDATE" /\ f.sid = 0 -> [c EXCEPT !.window = @ + f.val]
    [] f.kind = "HEADERS" /\ c.inflight = 0 /\ ~f.es -> [c EXCEPT !.inflight = f.sid]
    [] f.kind = "CONTINUATION" /\ c.inflight = f.sid /\ f.eh -> [c EXCEPT !.inflight = 0]
    [] OTHER -> c

\* FrameHandler::process
Processed(f, c) ==
  CASE f.kind = "GOAWAY" -> [c EXCEPT !.goaway = LastStreamId(f.val)]
    [] f.kind = "WINDOW_UPDATE" /\ f.sid = 0 -> [c EXCEPT !.window = @ + f.val]
    [] f.kind = "HEADERS" /\ c.inflight = 0 /\ ~f.eh -> [c EXCEPT !.inflight = f.sid]
    [] f.kind = "CONTINUATION" /\ c.inflight = f.sid /\ f.eh -> [c EXCEPT !.inflight = 0]
    [] OTHER -> c

\* handle_connection_level_frame.  A failed write is an error that is no
\* Http2Error.
HandleConnectionFrame(f) ==
  LET verdict == Verdict(f, ctx) IN
  \/ /\ verdict.scope = "panic"
     /\ Abandon /\ UNCHANGED <<ctx, wire>>
  \/ /\ verdict # NoError /\ verdict.scope # "panic"
     /\ ctx' = [ctx EXCEPT !.error = verdict]
     /\ fromReader' = Tail(fromReader)
     /\ UNCHANGED <<toConn, cancelled, connUp, root, fresh, blocked, wire>>
  \/ /\ verdict = NoError
     /\ \E written \in WriteOutcomes :
          /\ ctx' = [Processed(f, ctx) EXCEPT
                       !.error = Check(~Handlers!NeedsAck(f) \/ written, OtherError)]
          /\ Write(0, IF Handlers!NeedsAck(f) /\ written
                      THEN <<AckOf(f)>> ELSE <<>>)
     /\ fromReader' = Tail(fromReader)
     /\ UNCHANGED <<toConn, cancelled, connUp, root, fresh, blocked>>

TakeConnectionFrame ==
  \E f \in ClientFrames :
    /\ TakeFrame(f) /\ ~InflightViolated(f) /\ OnConnectionLevel(f)
    /\ HandleConnectionFrame(f)
    /\ UNCHANGED <<task, inbox, stage>>

\* should_ignore, should_init_stream
ShouldIgnore(f) == ctx.goaway # NoGoaway /\ f.sid > ctx.goaway
ShouldInit(f)   == f.sid # 0 /\ f.sid \notin ctx.known

Larger(i, j) == IF i > j THEN i ELSE j

\* update_max_active_stream_id comes first, then the check of the identifier.
MaxActiveAfter(f) == IF f.kind = "HEADERS" THEN Larger(ctx.maxActive, f.sid) ELSE ctx.maxActive
OutOfOrder(f) == ShouldInit(f) /\ f.sid < MaxActiveAfter(f)

\* Mutant of WithStream: seen_max_stream_id is not updated.
WithStreamUnseen(f) ==
  IF ShouldInit(f)
  THEN [ctx EXCEPT !.known = @ \cup {f.sid}, !.token[f.sid] = "task",
                   !.active = Incremented(@), !.maxActive = MaxActiveAfter(f)]
  ELSE ctx

\* add_stream and update_seen_max_stream_id
WithStream(f) ==
  IF ShouldInit(f)
  THEN [ctx EXCEPT !.known = @ \cup {f.sid}, !.token[f.sid] = "task",
                   !.active = Incremented(@), !.maxActive = MaxActiveAfter(f),
                   !.seenMax = Larger(@, f.sid)]
  ELSE ctx

\* The rest of handle_stream_level_frame, in the context with the stream.
ValidateAndForward(f, c) ==
  LET verdict == Verdict(f, c) IN
  \/ /\ verdict.scope = "panic"
     /\ Abandon /\ ctx' = c /\ UNCHANGED stage
  \/ /\ verdict # NoError /\ verdict.scope # "panic"
     /\ ctx' = [c EXCEPT !.error = verdict]
     /\ fromReader' = Tail(fromReader)
     /\ UNCHANGED <<toConn, cancelled, connUp, root, fresh, blocked, stage>>
  \/ /\ verdict = NoError
     /\ ctx' = Processed(f, c)
     /\ fromReader' = Tail(fromReader)
     /\ IF f.sid \in c.known
        THEN /\ blocked' = <<[to |-> f.sid, msg |-> [type |-> "FrameForRequest", frame |-> f]]>>
             /\ stage' = [stage EXCEPT ![f.sid] = StageAfter(@, f)]
        ELSE UNCHANGED <<blocked, stage>>
     /\ UNCHANGED <<toConn, cancelled, connUp, root, fresh>>

TakeStreamFrame ==
  \E f \in ClientFrames :
    /\ TakeFrame(f) /\ ~InflightViolated(f) /\ ~OnConnectionLevel(f)
    /\ ~ShouldIgnore(f) /\ ~OutOfOrder(f)
    /\ task' = IF ShouldInit(f) THEN [task EXCEPT ![f.sid] = NewTask("running")] ELSE task
    /\ ValidateAndForward(f, WithStream(f))
    /\ UNCHANGED <<inbox, wire>>

\* A frame beyond the client's GOAWAY is ignored; a new stream below the
\* largest one is an error, and is not created.
TakeRefusedFrame ==
  \E f \in ClientFrames :
    /\ TakeFrame(f) /\ ~InflightViolated(f) /\ ~OnConnectionLevel(f)
    /\ ShouldIgnore(f) \/ OutOfOrder(f)
    /\ ctx' = IF ShouldIgnore(f) THEN ctx
              ELSE [ctx EXCEPT !.maxActive = MaxActiveAfter(f),
                               !.error = Handlers!ProtocolError]
    /\ fromReader' = Tail(fromReader)
    /\ UNCHANGED <<streamVars, root, fresh, blocked, wire, stage>>

-----------------------------------------------------------------------------
(* A message from a stream task *)

TakeMessage(type) ==
  /\ Selecting /\ toConn # <<>> /\ Head(toConn).type = type
  /\ UNCHANGED <<task, inbox, reader, framesRead, peer, stage>>

\* What a message leaves alone that ends neither serve nor the channels.
KeepRunning ==
  /\ toConn' = Tail(toConn)
  /\ UNCHANGED <<cancelled, connUp, fromReader, root>>

\* A task is spawned to dispatch the request; get_stream_token_by_stream_id
\* re-creates the token of a stream that has been cancelled.
StartDispatch ==
  /\ TakeMessage("RequestContextForDispatch")
  /\ LET s == Head(toConn).sid
         token == IF ctx.token[s] = "none" THEN "fresh" ELSE ctx.token[s] IN
       /\ ctx' = [ctx EXCEPT !.token[s] = token]
       /\ dispatch' = [dispatch EXCEPT ![s] = [at |-> "waiting", token |-> token, size |-> 0]]
  /\ KeepRunning
  /\ UNCHANGED <<fresh, blocked, parked, wire>>

\* Mutant of Affordable: the connection's window is not looked at.
AffordableAlways(frame, window) == TRUE

Affordable(frame, window) == frame.kind = "DATA" => frame.len <= window

\* From the first DATA frame the connection's window does not cover, the
\* frames are put aside (a message holds at most one DATA frame).
CoversFirst(n, frames, window) ==
  /\ \A i \in 1..n : Affordable(frames[i], window)
  /\ n < Len(frames) => ~Affordable(frames[n + 1], window)

DataLength(frames) ==
  IF \E i \in 1..Len(frames) : frames[i].kind = "DATA"
  THEN frames[CHOOSE i \in 1..Len(frames) : frames[i].kind = "DATA"].len ELSE 0

WriteResponse ==
  /\ TakeMessage("DoResponseToClient")
  /\ LET s      == Head(toConn).sid
         frames == Head(toConn).frames IN
       \E n \in 0..Len(frames), written \in WriteOutcomes :
         LET now   == SubSeq(frames, 1, n)
             later == SubSeq(frames, n + 1, Len(frames)) IN
         /\ CoversFirst(n, frames, ctx.window)
         /\ IF written
            THEN /\ Write(s, [i \in 1..n |-> ResponseFrame(now[i])])
                 /\ ctx' = [ctx EXCEPT !.window = @ - DataLength(now)]
                 /\ parked' = parked \o [i \in 1..Len(later) |-> [sid |-> s, frame |-> later[i]]]
                 /\ KeepRunning
                 /\ UNCHANGED <<fresh, blocked>>
            ELSE Abandon /\ UNCHANGED <<ctx, parked, wire>>
  /\ UNCHANGED dispatch

DecodeError(s, outcome) ==
  CASE outcome = "malformed"   -> StreamError(s, "PROTOCOL_ERROR")
    [] outcome = "compression" -> ConnectionError("COMPRESSION_ERROR")
    [] outcome = "other"       -> OtherError
    [] OTHER                   -> NoError

\* The reply to a decoding request waits in blocked; a failed decoding and
\* trailers with no field that was announced have none.
ReplyOrError(s, outcome, reply) ==
  /\ ctx' = [ctx EXCEPT !.error = DecodeError(s, outcome)]
  /\ blocked' = IF DecodeError(s, outcome) = NoError /\ outcome # "empty"
                THEN <<[to |-> s, msg |-> reply]>> ELSE <<>>
  /\ KeepRunning
  /\ UNCHANGED <<fresh, parked, wire, dispatch>>

DecodeHeaders ==
  /\ TakeMessage("DecodingHeadersRequest")
  /\ \E outcome \in HeaderOutcomes :
       ReplyOrError(Head(toConn).sid, outcome,
                    [type |-> "DecodingHeadersResponse", trailer |-> outcome = "trailer"])

DecodeTrailers ==
  /\ TakeMessage("DecodingTrailersRequest")
  /\ \E outcome \in TrailerOutcomes :
       ReplyOrError(Head(toConn).sid, outcome, [type |-> "DecodingTrailersResponse"])

TakeError ==
  /\ TakeMessage("Error")
  /\ ctx' = [ctx EXCEPT !.error = Head(toConn).error]
  /\ KeepRunning
  /\ UNCHANGED <<fresh, blocked, parked, wire, dispatch>>

Counted(count, cmd) ==
  CASE cmd = "Increment" -> Incremented(count)
    [] cmd = "Decrement" -> Decremented(count)
    [] cmd = "Keep"      -> count

TakeCount ==
  /\ TakeMessage("ActiveStreamCount")
  /\ ctx' = [ctx EXCEPT !.active = Counted(@, Head(toConn).cmd)]
  /\ KeepRunning
  /\ UNCHANGED <<fresh, blocked, parked, wire, dispatch>>

-----------------------------------------------------------------------------
(* Sending to a stream task, and the idle timer *)

\* Mutant of Deliver: what was sent is sent again.
DeliverAgain ==
  /\ connUp /\ blocked # <<>>
  /\ LET s == Head(blocked).to IN
       /\ Running(s) /\ Len(inbox[s]) < StreamChannel
       /\ inbox' = [inbox EXCEPT ![s] = Append(@, Head(blocked).msg)]
  /\ UNCHANGED <<task, toConn, cancelled, connUp, readerVars, ctx, root, fresh, blocked,
                 parked, dispatch, wire, stage>>

Deliver ==
  /\ connUp /\ blocked # <<>>
  /\ LET s == Head(blocked).to IN
       /\ Running(s) /\ Len(inbox[s]) < StreamChannel
       /\ inbox' = [inbox EXCEPT ![s] = Append(@, Head(blocked).msg)]
  /\ blocked' = <<>>
  /\ UNCHANGED <<task, toConn, cancelled, connUp, readerVars, ctx, root, fresh, parked,
                 dispatch, wire, stage>>

\* The stream task is over: a frame is lost to an error that is dropped, a
\* decoded block takes serve with it (the ? in the arms of select).
DeliverFails ==
  /\ connUp /\ blocked # <<>> /\ ~Running(Head(blocked).to)
  /\ IF Head(blocked).msg.type = "FrameForRequest"
     THEN /\ ctx' = [ctx EXCEPT !.error = OtherError]
          /\ blocked' = <<>>
          /\ UNCHANGED <<toConn, cancelled, connUp, fromReader, root, fresh>>
     ELSE Abandon /\ UNCHANGED ctx
  /\ UNCHANGED <<task, inbox, reader, framesRead, peer, parked, dispatch, wire, stage>>

\* Five seconds without a message: the loop ends, without GOAWAY.  A message
\* that comes just as the timer fires may lose to it.
IdleTimeout ==
  /\ Selecting
  /\ CancelAll /\ Leave
  /\ UNCHANGED <<task, inbox, reader, framesRead, peer, ctx, parked, dispatch, wire, stage>>

ConnStep ==
  \/ HandleConnectionError \/ HandleStreamError \/ DropOtherError
  \/ FrameInsideBlock \/ TakeConnectionFrame \/ TakeStreamFrame \/ TakeRefusedFrame
  \/ StartDispatch \/ WriteResponse \/ DecodeHeaders \/ DecodeTrailers
  \/ TakeError \/ TakeCount \/ Deliver \/ DeliverFails

-----------------------------------------------------------------------------
(* The dispatch tasks *)

DispatchVars == <<readerVars, connVars, task, toConn, cancelled, connUp>>

HoldsPermit(s) == dispatch[s].at \in {"running", "replying"}
PermitsFree    == Cardinality({s \in Streams : HoldsPermit(s)}) < Permits

TokenCancelled(s) == IF dispatch[s].token = "task" THEN cancelled[s] ELSE fresh[s]

Acquire(s) ==
  /\ dispatch[s].at = "waiting" /\ PermitsFree
  /\ dispatch' = [dispatch EXCEPT ![s].at = "running"]
  /\ UNCHANGED <<DispatchVars, inbox>>

DispatchCancelled(s) ==
  /\ dispatch[s].at = "running" /\ TokenCancelled(s)
  /\ dispatch' = [dispatch EXCEPT ![s].at = "done"]
  /\ UNCHANGED <<DispatchVars, inbox>>

\* The handler returns, or fails and is answered with 500.
Dispatched(s) ==
  /\ dispatch[s].at = "running" /\ ~TokenCancelled(s)
  /\ \E size \in Sizes :
       dispatch' = [dispatch EXCEPT ![s].at = "replying", ![s].size = size]
  /\ UNCHANGED <<DispatchVars, inbox>>

\* The result of the send is ignored.
DispatchReplies(s) ==
  /\ dispatch[s].at = "replying"
  /\ Running(s) => Len(inbox[s]) < StreamChannel
  /\ inbox' = [inbox EXCEPT ![s] =
       IF Running(s) THEN Append(@, [type |-> "ResponseObject", size |-> dispatch[s].size])
       ELSE @]
  /\ dispatch' = [dispatch EXCEPT ![s].at = "done", ![s].size = 0]
  /\ UNCHANGED DispatchVars

DispatchStep(s) ==
  Acquire(s) \/ DispatchCancelled(s) \/ Dispatched(s) \/ DispatchReplies(s)

-----------------------------------------------------------------------------
StreamTask(s) == StreamStep(s) /\ UNCHANGED <<readerVars, connVars, dispatch>>

Reading == \E f \in ClientFrames : ReadFrame(f)

OtherThanReading ==
  \/ PeerCloses \/ ReaderStops \/ ConnStep \/ IdleTimeout
  \/ \E s \in Streams : StreamTask(s) \/ DispatchStep(s)

Next == Reading \/ OtherThanReading

Spec == ConnInit /\ [][Next]_vars

\* tokio runs every task that can make a step; the client owes nothing.  A
\* handler is assumed to return (Dispatched is not starved).
Fairness == /\ WF_vars(ConnStep) /\ WF_vars(ReaderStops)
            /\ \A s \in Streams : WF_vars(StreamTask(s)) /\ WF_vars(DispatchStep(s))

FairSpec == Spec /\ Fairness

-----------------------------------------------------------------------------
(* The connection as the environment of its stream tasks *)

\* The streams whose request has been accepted for dispatch and not answered.
Owed == {s \in Streams : dispatch[s].at \in {"waiting", "running", "replying"}}

Contract == INSTANCE StreamContract WITH
  Frames <- ClientFrames, owed <- Owed, client <- "any"
=============================================================================
