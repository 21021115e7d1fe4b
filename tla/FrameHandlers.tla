---------------------------- MODULE FrameHandlers ----------------------------
(***************************************************************************)
(* The frame handlers (http2/frame_*.rs) as pure functions: the verdict on *)
(* a frame, in the order FrameHandler::handle makes its checks, and the    *)
(* acknowledgement it asks for.  A frame with no verdict but NoError is    *)
(* applied by the connection.                                              *)
(***************************************************************************)
EXTENDS Http2Frames

CONSTANTS MaxFrameSize, \* SETTINGS_MAX_FRAME_SIZE of this server (16384)
          MaxStreams,   \* SETTINGS_MAX_CONCURRENT_STREAMS of this server (100)
          MaxWindow,    \* 2^32 - 1
          CountModulus  \* 2^32, where the u32 count of active streams wraps

ProtocolError  == ConnectionError("PROTOCOL_ERROR")
FrameSizeError == ConnectionError("FRAME_SIZE_ERROR")

OddStream(f) == f.sid = 0 \/ f.sid % 2 = 1

CommonValidate(f) ==
  Check(OddStream(f), ProtocolError) ??
  Check(f.len <= MaxFrameSize,
        IF f.sid = 0 \/ f.kind \in {"HEADERS", "SETTINGS"}
        THEN FrameSizeError
        ELSE StreamError(f.sid, "FRAME_SIZE_ERROR"))

OnStream(f)     == Check(f.sid # 0, ProtocolError)
OnConnection(f) == Check(f.sid = 0, ProtocolError)

\* What precedes the header block fragment: Pad Length and the five octets of
\* the priority fields.  bytes panics when it reads past the end.
Prefix(f) == (IF f.pad >= 0 THEN 1 + f.pad ELSE 0) + (IF f.val > 0 THEN 5 ELSE 0)

HeadersVerdict(f, active) ==
  Check(f.len >= Prefix(f), Panic) ??
  OnStream(f) ??
  Check((active + 1) % CountModulus <= MaxStreams, StreamError(f.sid, "REFUSED_STREAM")) ??
  Check(f.val = 0 \/ f.val # f.sid, ProtocolError)

PriorityVerdict(f) ==
  Check(f.len >= 5, Panic) ??
  OnStream(f) ??
  Check(f.len = 5, StreamError(f.sid, "FRAME_SIZE_ERROR")) ??
  Check(f.val # f.sid, ProtocolError)

DataVerdict(f) ==
  OnStream(f) ??
  Check(f.pad = -1 \/ f.len > 0, Panic) ??
  Check(f.pad <= f.len, ProtocolError)

RstStreamVerdict(f) == OnStream(f) ?? Check(f.len = 4, FrameSizeError)
PingVerdict(f)      == OnConnection(f) ?? Check(f.len = 8, FrameSizeError)
GoawayVerdict(f)    == OnConnection(f) ?? Check(f.len >= 8, Panic)

\* val: 0 all parameters in range, 1 one that is a PROTOCOL_ERROR, 2 an
\* initial window above 2^31 - 1.
SettingsVerdict(f) ==
  OnConnection(f) ??
  Check(f.len % 6 = 0, FrameSizeError) ??
  Check(f.val # 1, ProtocolError) ??
  Check(f.val # 2, ConnectionError("FLOW_CONTROL_ERROR"))

WindowUpdateVerdict(f, window) ==
  Check(f.len >= 4, Panic) ??
  Check(f.val # 0, IF f.sid = 0 THEN ProtocolError
                   ELSE StreamError(f.sid, "PROTOCOL_ERROR")) ??
  Check(f.sid # 0 \/ window + f.val <= MaxWindow,
        ConnectionError("FLOW_CONTROL_ERROR")) ??
  Check(f.len = 4, FrameSizeError)

\* handle: active is the count of active streams, window the connection's.
Verdict(f, active, window) ==
  IF f.kind = "UNKNOWN" THEN NoError
  ELSE CommonValidate(f) ??
       CASE f.kind = "HEADERS"       -> HeadersVerdict(f, active)
         [] f.kind = "PRIORITY"      -> PriorityVerdict(f)
         [] f.kind = "DATA"          -> DataVerdict(f)
         [] f.kind = "RST_STREAM"    -> RstStreamVerdict(f)
         [] f.kind = "PING"          -> PingVerdict(f)
         [] f.kind = "GOAWAY"        -> GoawayVerdict(f)
         [] f.kind = "SETTINGS"      -> SettingsVerdict(f)
         [] f.kind = "WINDOW_UPDATE" -> WindowUpdateVerdict(f, window)
         [] f.kind = "CONTINUATION"  -> OnStream(f)

\* maybe_ack: SETTINGS and PING without ACK are acknowledged.
NeedsAck(f) == f.kind \in {"SETTINGS", "PING"} /\ ~f.ack
=============================================================================
