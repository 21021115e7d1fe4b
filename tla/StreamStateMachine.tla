-------------------------- MODULE StreamStateMachine --------------------------
(***************************************************************************)
(* The per-stream state machine of http2_stream.rs as pure functions: what *)
(* a frame from the client may do in a state, the next state for a frame   *)
(* received and for a frame sent, and the command the stream task sends to *)
(* its connection for the count of active streams.                         *)
(***************************************************************************)
EXTENDS Http2Frames

StreamStates   == {"Idle", "Reserved", "Open", "HalfClosedLocal", "HalfClosedRemote", "Closed"}
ActiveStates   == {"Open", "HalfClosedLocal", "HalfClosedRemote"}
\* Progress of a header block; hdr is the request's, trl the trailers'.
DecodingStates == {"Initial", "KeepGoing", "Ready", "Waiting", "Completed"}

ContinuationMisplaced(hdr, trl) ==
  \/ hdr = "Initial"
  \/ trl = "Completed"
  \/ hdr \in {"Waiting", "Completed"} /\ trl = "Initial"

HeadersMisplaced(hdr, trl) ==
  \/ hdr # "Initial" /\ trl # "Initial"
  \/ hdr = "Completed" /\ trl \in {"Waiting", "Ready", "Completed"}

\* The frames answered with STREAM_CLOSED once the client has ended its side.
RefusedAfterEnd == {"DATA", "HEADERS", "PING", "GOAWAY"}

RefusedInIdle == {"RST_STREAM", "DATA", "PING", "CONTINUATION", "GOAWAY", "WINDOW_UPDATE"}

ValidateFromClient(state, hdr, trl, f) ==
  Check(~(f.kind = "CONTINUATION" /\ ContinuationMisplaced(hdr, trl)),
        ConnectionError("PROTOCOL_ERROR")) ??
  Check(~(f.kind = "HEADERS" /\ HeadersMisplaced(hdr, trl)),
        ConnectionError("PROTOCOL_ERROR")) ??
  Check(~(state = "Idle" /\ f.kind \in RefusedInIdle),
        ConnectionError("PROTOCOL_ERROR")) ??
  Check(~(state \in {"HalfClosedRemote", "Closed"} /\ f.kind \in RefusedAfterEnd),
        StreamError(f.sid, "STREAM_CLOSED"))

NextFromClient(state, f) ==
  CASE state = "Idle" /\ f.kind = "HEADERS" ->
         IF f.es THEN "HalfClosedRemote" ELSE "Open"
    [] state = "Open" /\ HasEndStream(f) -> "HalfClosedRemote"
    [] state = "HalfClosedLocal" /\ HasEndStream(f) -> "Closed"
    [] state \in ActiveStates /\ f.kind = "RST_STREAM" -> "Closed"
    [] OTHER -> state

NextFromMe(state, f) ==
  CASE state = "Idle" /\ f.kind = "HEADERS" ->
         IF f.es THEN "HalfClosedLocal" ELSE "Open"
    [] state = "Open" /\ HasEndStream(f) -> "HalfClosedLocal"
    [] state = "HalfClosedRemote" /\ HasEndStream(f) -> "Closed"
    [] state \in ActiveStates /\ f.kind = "RST_STREAM" -> "Closed"
    [] OTHER -> state

\* A frame this side may send in a state (validate_from_me).
MaySend(state, f) == state = "Idle" => f.kind \in {"HEADERS", "PRIORITY"}

CountCommands == {"Increment", "Decrement", "Keep"}
CountCommand(prev, new) ==
  CASE prev = "Idle" /\ new \in ActiveStates -> "Increment"
    [] prev \in ActiveStates /\ new = "Closed" -> "Decrement"
    [] OTHER -> "Keep"
=============================================================================
