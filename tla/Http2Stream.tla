------------------------------ MODULE Http2Stream ------------------------------
(***************************************************************************)
(* The stream task of http2_stream.rs: one task per HTTP/2 stream, started *)
(* by the connection task, that assembles a request from the frames of its *)
(* stream, has its header blocks decoded by the connection, hands the      *)
(* request over for dispatch and turns the response into frames.           *)
(*                                                                         *)
(* A task talks to its connection through two bounded channels, inbox[s]   *)
(* towards the task and toConn, shared by all tasks, towards the           *)
(* connection.  A send may wait for room: the message is kept in out while *)
(* the task waits, and only Send moves it.  The environment of the tasks   *)
(* is in StreamContract (any connection) and Http2Connection (this one).   *)
(***************************************************************************)
EXTENDS StreamStateMachine, Sequences

CONSTANTS Streams,      \* the stream identifiers in play
          InitWindow,   \* initial flow-control window of the client (65535)
          MaxWindow,    \* largest value of a u32 window (2^32 - 1)
          ConnChannel,  \* capacity of the channel to the connection (100)
          StreamChannel \* capacity of the channel to a stream task (100)

ASSUME StreamsAssumption == Streams \subseteq Nat \ {0}
ASSUME WindowAssumption ==
  InitWindow \in Nat /\ MaxWindow \in Nat /\ InitWindow <= MaxWindow
ASSUME CapacityAssumption ==
  ConnChannel \in Nat \ {0} /\ StreamChannel \in Nat \ {0}

VARIABLES task,      \* the state of each stream task
          inbox,     \* messages on their way to a task
          toConn,    \* messages on their way to the connection
          cancelled, \* is the task's cancellation token cancelled?
          connUp     \* is the connection task still there to receive?

streamVars == <<task, inbox, toConn, cancelled, connUp>>

-----------------------------------------------------------------------------
(* Messages *)

\* Connection -> Stream
ToStream == [type : {"FrameForRequest"}, frame : Frame]
       \cup [type : {"ResponseObject"}, size : Nat]
       \cup [type : {"DecodingHeadersResponse"}, trailer : BOOLEAN]
       \cup [type : {"DecodingTrailersResponse"}]

\* Stream -> Connection
ToConnection ==
            [type : {"DecodingHeadersRequest", "DecodingTrailersRequest"},
             sid : Streams, block : Seq(Frame)]
       \cup [type : {"RequestContextForDispatch"}, sid : Streams]
       \cup [type : {"DoResponseToClient"}, sid : Streams, frames : Seq(OutFrame)]
       \cup [type : {"Error"}, sid : Streams, error : Error]
       \cup [type : {"ActiveStreamCount"}, sid : Streams, cmd : CountCommands]

DecodeRequest(type, s, block) == [type |-> type, sid |-> s, block |-> block]
ErrorMessage(s, e)            == [type |-> "Error", sid |-> s, error |-> e]
CountMessage(s, cmd)          == [type |-> "ActiveStreamCount", sid |-> s, cmd |-> cmd]
ResponseMessage(s, frames)    == [type |-> "DoResponseToClient", sid |-> s, frames |-> frames]
DispatchMessage(s)            == [type |-> "RequestContextForDispatch", sid |-> s]

-----------------------------------------------------------------------------
(* The task's state, the fields of Http2Stream.  Optional maps are reduced *)
(* to whether they are present, queued bodies to their number; error and   *)
(* the flags the code writes and never reads have no counterpart.          *)

Task == [phase      : {"absent", "running", "ended", "panicked"},
         state      : StreamStates,
         hdr        : DecodingStates,  \* decoding_header_state
         trl        : DecodingStates,  \* decoding_trailers_state
         headers    : Seq(Frame),      \* inflight_headers
         trailers   : Seq(Frame),      \* inflight_trailers_headers
         announced  : BOOLEAN,         \* maybe_trailers.is_some()
         composited : BOOLEAN,         \* composited_header.is_some()
         bodies     : Nat,             \* inflight_bodies.len()
         requestEnd : BOOLEAN,
         dispatched : BOOLEAN,
         window     : 0..MaxWindow,    \* window_about_client
         pending    : Seq(OutFrame),   \* pending_frames
         out        : Seq(ToConnection)]

NewTask(phase) ==
  [phase |-> phase, state |-> "Idle", hdr |-> "Initial", trl |-> "Initial",
   headers |-> <<>>, trailers |-> <<>>, announced |-> FALSE,
   composited |-> FALSE, bodies |-> 0, requestEnd |-> FALSE,
   dispatched |-> FALSE, window |-> InitWindow, pending |-> <<>>, out |-> <<>>]

StreamInit ==
  /\ task      = [s \in Streams |-> NewTask("absent")]
  /\ inbox     = [s \in Streams |-> <<>>]
  /\ toConn    = <<>>
  /\ cancelled = [s \in Streams |-> FALSE]
  /\ connUp    = TRUE

Running(s) == task[s].phase = "running"

\* Mutant of Become: what a task that is over had not read stays about.
BecomeKeeping(s, t, rest) ==
  task' = [task EXCEPT ![s] = t] /\ inbox' = [inbox EXCEPT ![s] = rest]

\* The task after a step.  When it is over its locals are dropped, and its
\* receiver with the messages it had not read.
Become(s, t, rest) ==
  /\ task'  = [task EXCEPT ![s] = t]
  /\ inbox' = [inbox EXCEPT ![s] = IF t.phase = "running" THEN rest ELSE <<>>]

-----------------------------------------------------------------------------
(* The work at the top of the loop of serve *)

NeedsHeaders(t)  == t.hdr = "Ready"
NeedsTrailers(t) == t.requestEnd /\ t.trl = "Ready" /\ t.hdr = "Completed"
\* Mutants of NeedsDispatch: it does not wait for the trailers, or for END_STREAM.
DispatchEarly(t)      == t.requestEnd /\ ~t.dispatched /\ t.composited
DispatchUnfinished(t) == ~t.dispatched /\ t.composited /\ t.hdr = "Completed"

NeedsDispatch(t) == /\ t.requestEnd /\ ~t.dispatched /\ t.composited
                    /\ t.hdr = "Completed" /\ t.trl = "Completed"

\* Flow control on what the task holds back: a DATA frame leaves only when
\* the client's window covers it.
FitsWindow(t, frame) ==
  t.window # 0 /\ (frame.kind = "DATA" => frame.len <= t.window)
NeedsFlush(t) == t.pending # <<>> /\ FitsWindow(t, Head(t.pending))

AtTop(s) == Running(s) /\ task[s].out = <<>>
Idle(s)  == LET t == task[s] IN
  AtTop(s) /\ ~(NeedsHeaders(t) \/ NeedsTrailers(t) \/ NeedsDispatch(t) \/ NeedsFlush(t))

\* Mutant of AskForHeaders: the state stays Ready.
AskForHeadersAgain(s, t) ==
  [t EXCEPT !.out = <<DecodeRequest("DecodingHeadersRequest", s, t.headers)>>]

\* maybe_composite_headers: the queued fragments become one decoding request.
AskForHeaders(s, t) ==
  [t EXCEPT !.hdr = "Waiting", !.headers = <<>>,
            !.out = <<DecodeRequest("DecodingHeadersRequest", s, t.headers)>>]

\* Mutant of AskForTrailers: the state stays Ready.
AskForTrailersAgain(s, t) ==
  IF t.announced
  THEN [t EXCEPT !.out = <<DecodeRequest("DecodingTrailersRequest", s, t.trailers)>>]
  ELSE NewTask("panicked")

\* maybe_composite_trailers; maybe_trailers is unwrapped.
AskForTrailers(s, t) ==
  IF t.announced
  THEN [t EXCEPT !.trl = "Waiting", !.trailers = <<>>,
                 !.out = <<DecodeRequest("DecodingTrailersRequest", s, t.trailers)>>]
  ELSE NewTask("panicked")

\* Mutant of HandOver: the header map is cloned and no flag is set.
HandOverClone(s, t) ==
  [t EXCEPT !.bodies = IF t.bodies = 0 THEN 0 ELSE t.bodies - 1, !.out = <<DispatchMessage(s)>>]

\* maybe_dispatch_if_needed: the first queued body goes with the request.
HandOver(s, t) ==
  [t EXCEPT !.composited = FALSE, !.dispatched = TRUE,
            !.bodies = IF t.bodies = 0 THEN 0 ELSE t.bodies - 1,
            !.out = <<DispatchMessage(s)>>]

\* Mutant of Flush: HEADERS are sent again with the frame that was held.
FlushWithHeaders(s, t) ==
  LET frame == Head(t.pending) IN
  IF MaySend(t.state, frame)
  THEN [t EXCEPT !.state = NextFromMe(t.state, frame), !.pending = Tail(t.pending),
                 !.out = <<ResponseMessage(s, <<ResponseHeaders, frame>>)>>]
  ELSE NewTask("ended")

\* response_to_client_if_possible, one held frame at a time: it leaves
\* without a debit of the window, and the state advances for it.
Flush(s, t) ==
  LET frame == Head(t.pending) IN
  IF MaySend(t.state, frame)
  THEN [t EXCEPT !.state = NextFromMe(t.state, frame), !.pending = Tail(t.pending),
                 !.out = <<ResponseMessage(s, <<frame>>)>>]
  ELSE NewTask("ended")

TopOfLoop(s, needed, t) ==
  /\ AtTop(s) /\ needed
  /\ Become(s, t, inbox[s])
  /\ UNCHANGED <<toConn, cancelled, connUp>>

CompositeHeaders(s)  == TopOfLoop(s, NeedsHeaders(task[s]), AskForHeaders(s, task[s]))
CompositeTrailers(s) == TopOfLoop(s, NeedsTrailers(task[s]), AskForTrailers(s, task[s]))
DispatchIfNeeded(s)  == TopOfLoop(s, NeedsDispatch(task[s]), HandOver(s, task[s]))
RespondIfPossible(s) == TopOfLoop(s, NeedsFlush(task[s]), Flush(s, task[s]))

-----------------------------------------------------------------------------
(* handle_frame_for_request *)

ToTrailers(t) == t.hdr \in {"Waiting", "Completed"}

\* Mutant of Progress: END_HEADERS is not looked at.
AlwaysReady(f) == "Ready"

Progress(f)   == IF HasEndHeaders(f) THEN "Ready" ELSE "KeepGoing"

\* Mutant of WindowOverflow: the sum is not looked at.
WindowUnchecked(t, f) == FALSE

\* The window may not exceed the u32 the code keeps it in.
WindowOverflow(t, f) == f.kind = "WINDOW_UPDATE" /\ t.window + f.val > MaxWindow

Accepted(t, f) ==
  LET forTrailers == CarriesHeaders(f) /\ ToTrailers(t)
      forHeaders  == CarriesHeaders(f) /\ ~ToTrailers(t)
  IN [t EXCEPT !.state      = NextFromClient(t.state, f),
               !.requestEnd = @ \/ HasEndStream(f),
               !.hdr        = IF forHeaders  THEN Progress(f) ELSE @,
               !.trl        = IF forTrailers THEN Progress(f) ELSE @,
               !.headers    = IF forHeaders  THEN Append(@, f) ELSE @,
               !.trailers   = IF forTrailers THEN Append(@, f) ELSE @,
               !.bodies     = IF f.kind = "DATA" THEN @ + 1 ELSE @,
               !.window     = IF f.kind = "WINDOW_UPDATE" /\ ~WindowOverflow(t, f)
                              THEN @ + f.val ELSE @]

\* What the task sends to the connection after a frame.
FrameVerdict(s, t, f) ==
  LET invalid == ValidateFromClient(t.state, t.hdr, t.trl, f)
      late    == Check(~WindowOverflow(t, f), StreamError(s, "FLOW_CONTROL_ERROR"))
  IN  IF invalid ?? late # NoError
      THEN ErrorMessage(s, invalid ?? late)
      ELSE CountMessage(s, CountCommand(t.state, NextFromClient(t.state, f)))

HandleFrame(s, t, f) ==
  LET valid == ValidateFromClient(t.state, t.hdr, t.trl, f) = NoError
  IN  [(IF valid THEN Accepted(t, f) ELSE t) EXCEPT !.out = <<FrameVerdict(s, t, f)>>]

\* Mutant of CanSendFrame: a window that is open covers any size.
WindowOpen(t, size) == t.window # 0

\* handle_response_object: HEADERS and DATA, the DATA held back when the
\* client's window does not cover it.
CanSendFrame(t, size) == t.window # 0 /\ t.window >= size

HandleResponse(s, t, size) ==
  IF CanSendFrame(t, size)
  THEN [t EXCEPT !.window = @ - size,
                 !.out = <<ResponseMessage(s, <<ResponseHeaders, ResponseData(size)>>)>>]
  ELSE [t EXCEPT !.pending = Append(@, ResponseData(size)),
                 !.out = <<ResponseMessage(s, <<ResponseHeaders>>)>>]

\* Mutant of HandleDecodedHeaders: without announced trailers, the trailers'
\* state is left as it is.
HandleDecodedOnly(s, t, trailer) ==
  [t EXCEPT !.hdr = "Completed", !.announced = @ \/ trailer, !.composited = TRUE]

\* The arm for DecodingHeadersResponse.  Trailers that arrived while the
\* headers were being decoded are an error unless they were announced.
HandleDecodedHeaders(s, t, trailer) ==
  LET done == [t EXCEPT !.hdr = "Completed",
                        !.announced = @ \/ trailer,
                        !.trl = IF trailer THEN @ ELSE "Completed"]
  IN  IF ~trailer /\ t.trailers # <<>>
      THEN [done EXCEPT !.out = <<ErrorMessage(s, ConnectionError("PROTOCOL_ERROR"))>>]
      ELSE [done EXCEPT !.composited = TRUE]

\* The arm for DecodingTrailersResponse; composited_header is unwrapped.
HandleDecodedTrailers(t) ==
  IF t.composited THEN [t EXCEPT !.trl = "Completed"] ELSE NewTask("panicked")

Handle(s, t, m) ==
  CASE m.type = "FrameForRequest"          -> HandleFrame(s, t, m.frame)
    [] m.type = "ResponseObject"           -> HandleResponse(s, t, m.size)
    [] m.type = "DecodingHeadersResponse"  -> HandleDecodedHeaders(s, t, m.trailer)
    [] m.type = "DecodingTrailersResponse" -> HandleDecodedTrailers(t)

-----------------------------------------------------------------------------
(* The select of serve: cancellation first, then the next message *)

Receive(s, type) ==
  /\ Idle(s) /\ ~cancelled[s]
  /\ inbox[s] # <<>> /\ Head(inbox[s]).type = type
  /\ Become(s, Handle(s, task[s], Head(inbox[s])), Tail(inbox[s]))
  /\ UNCHANGED <<toConn, cancelled, connUp>>

ReceiveFrame(s)    == Receive(s, "FrameForRequest")
ReceiveResponse(s) == Receive(s, "ResponseObject")
ReceiveHeaders(s)  == Receive(s, "DecodingHeadersResponse")
ReceiveTrailers(s) == Receive(s, "DecodingTrailersResponse")

Terminate(s) ==
  /\ Idle(s) /\ cancelled[s]
  /\ Become(s, NewTask("ended"), <<>>)
  /\ UNCHANGED <<toConn, cancelled, connUp>>

\* sender_to_conn.send(..).await
Send(s) ==
  /\ Running(s) /\ task[s].out # <<>>
  /\ connUp /\ Len(toConn) < ConnChannel
  /\ toConn' = Append(toConn, Head(task[s].out))
  /\ task'   = [task EXCEPT ![s].out = Tail(@)]
  /\ UNCHANGED <<inbox, cancelled, connUp>>

\* The same send once the connection task is gone: serve returns the error.
SendFails(s) ==
  /\ Running(s) /\ task[s].out # <<>> /\ ~connUp
  /\ Become(s, NewTask("ended"), <<>>)
  /\ UNCHANGED <<toConn, cancelled, connUp>>

StreamStep(s) ==
  \/ CompositeHeaders(s) \/ CompositeTrailers(s)
  \/ DispatchIfNeeded(s) \/ RespondIfPossible(s)
  \/ ReceiveFrame(s) \/ ReceiveResponse(s) \/ ReceiveHeaders(s) \/ ReceiveTrailers(s)
  \/ Terminate(s) \/ Send(s) \/ SendFails(s)

-----------------------------------------------------------------------------
(* How far the client has got with the request of a stream *)

Stages == {"idle", "opening", "body", "closing", "done"}
BlockOpen(stage) == stage \in {"opening", "closing"}

StageAfter(stage, f) ==
  CASE f.kind = "HEADERS" ->
         IF f.es THEN (IF f.eh THEN "done" ELSE "closing")
                 ELSE (IF f.eh THEN "body" ELSE "opening")
    [] f.kind = "CONTINUATION" /\ f.eh /\ stage = "opening" -> "body"
    [] f.kind = "CONTINUATION" /\ f.eh /\ stage = "closing" -> "done"
    [] f.kind = "DATA" /\ f.es -> "done"
    [] OTHER -> stage
=============================================================================
