----------------------------- MODULE Http2Frames -----------------------------
(***************************************************************************)
(* HTTP/2 frames and errors as the reader, the connection task and the     *)
(* stream tasks exchange them.  A frame keeps the fields some decision of  *)
(* the code reads; payload bytes are reduced to their length.              *)
(***************************************************************************)
EXTENDS Integers

FrameKinds == {"DATA", "HEADERS", "PRIORITY", "RST_STREAM", "SETTINGS", "PING",
               "GOAWAY", "WINDOW_UPDATE", "CONTINUATION", "UNKNOWN"}

\* val: WINDOW_UPDATE's increment, GOAWAY's last stream id, the dependency of
\* PRIORITY or of HEADERS with the PRIORITY flag (0: no flag), and for SETTINGS
\* the first parameter found out of range (see SettingsVerdict).
\* pad: the Pad Length, -1 without the PADDED flag.
Frame == [kind : FrameKinds, sid : Nat, es : BOOLEAN, eh : BOOLEAN,
          ack : BOOLEAN, len : Nat, pad : Int, val : Nat]

HasEndStream(f)  == f.kind \in {"HEADERS", "DATA"} /\ f.es
HasEndHeaders(f) == f.kind \in {"HEADERS", "CONTINUATION"} /\ f.eh
CarriesHeaders(f) == f.kind \in {"HEADERS", "CONTINUATION"}

\* A frame this server writes for a response.
OutFrame == [kind : {"HEADERS", "DATA"}, es : BOOLEAN, len : Nat]
ResponseHeaders    == [kind |-> "HEADERS", es |-> TRUE, len |-> 0]
ResponseData(size) == [kind |-> "DATA", es |-> TRUE, len |-> size]

-----------------------------------------------------------------------------
ErrorCodes == {"NO_ERROR", "PROTOCOL_ERROR", "FLOW_CONTROL_ERROR", "STREAM_CLOSED",
               "FRAME_SIZE_ERROR", "REFUSED_STREAM", "COMPRESSION_ERROR"}

\* "other" is an anyhow::Error that is no Http2Error; "panic" a handler that
\* does not return.
Error == [scope : {"none", "connection", "stream", "other", "panic"},
          sid : Nat, code : ErrorCodes]

NoError               == [scope |-> "none", sid |-> 0, code |-> "NO_ERROR"]
ConnectionError(code) == [scope |-> "connection", sid |-> 0, code |-> code]
StreamError(sid, code) == [scope |-> "stream", sid |-> sid, code |-> code]
OtherError            == [scope |-> "other", sid |-> 0, code |-> "NO_ERROR"]
Panic                 == [scope |-> "panic", sid |-> 0, code |-> "NO_ERROR"]

\* Checks in the order the code makes them: the first error is the answer.
e1 ?? e2 == IF e1 # NoError THEN e1 ELSE e2

Check(ok, error) == IF ok THEN NoError ELSE error
=============================================================================
