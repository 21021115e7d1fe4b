----------------------------- MODULE MCConnection -----------------------------
(* Http2Connection for TLC: the alphabets of frames a client may send. *)
EXTENDS ConnectionProperties

F(kind, sid, es, eh, ack, len, pad, val) ==
  [kind |-> kind, sid |-> sid, es |-> es, eh |-> eh, ack |-> ack,
   len |-> len, pad |-> pad, val |-> val]

Headers(sid, es, eh)  == F("HEADERS", sid, es, eh, FALSE, 1, -1, 0)
Continuation(sid, eh) == F("CONTINUATION", sid, FALSE, eh, FALSE, 1, -1, 0)
Data(sid, es)         == F("DATA", sid, es, FALSE, FALSE, 1, -1, 0)
WindowUpdate(sid, n)  == F("WINDOW_UPDATE", sid, FALSE, FALSE, FALSE, 4, -1, n)
RstStream(sid)        == F("RST_STREAM", sid, FALSE, FALSE, FALSE, 4, -1, 0)
Priority(sid, on)     == F("PRIORITY", sid, FALSE, FALSE, FALSE, 5, -1, on)
Settings(ack)         == F("SETTINGS", 0, FALSE, FALSE, ack, 6, -1, 0)
Ping                  == F("PING", 0, FALSE, FALSE, FALSE, 8, -1, 0)
ClientGoaway(last)    == F("GOAWAY", 0, FALSE, FALSE, FALSE, 8, -1, last)

\* One request after another, reset streams, credit, a block in two frames.
RequestFrames ==
  {Headers(1, TRUE, TRUE), Headers(3, TRUE, TRUE), Headers(1, TRUE, FALSE),
   Continuation(1, TRUE), RstStream(1), WindowUpdate(0, 2), WindowUpdate(1, 2)}

\* Two requests that contend for the permits, one of them reset.
ContendingFrames == {Headers(1, TRUE, TRUE), Headers(3, TRUE, TRUE), RstStream(1)}

\* A request, and credit for its stream and for the connection.
CreditFrames == {Headers(1, TRUE, TRUE), WindowUpdate(0, 2), WindowUpdate(1, 2)}

\* A request with a body and trailers, or with two blocks of headers.
TrailerFrames ==
  {Headers(1, FALSE, TRUE), Headers(1, TRUE, FALSE), Data(1, FALSE), Continuation(1, TRUE)}

\* A request with trailers, each block in one frame.
BodyFrames == {Headers(1, FALSE, TRUE), Data(1, FALSE), Headers(1, TRUE, TRUE)}

\* Frames of the connection, ignored and refused streams, malformed frames.
ControlFrames ==
  {Headers(1, TRUE, TRUE), Headers(3, TRUE, TRUE), Priority(3, 0), Ping, Settings(FALSE),
   ClientGoaway(1), F("WINDOW_UPDATE", 0, FALSE, FALSE, FALSE, 3, -1, 1), WindowUpdate(0, 8)}
=============================================================================
