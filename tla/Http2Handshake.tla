---------------------------- MODULE Http2Handshake ----------------------------
(***************************************************************************)
(* The first part of Http2Connection::serve (http2_connection.rs): the     *)
(* rest of the connection preface is read, the server's SETTINGS are       *)
(* written, and the first frame of the client is judged and acknowledged.  *)
(* Http2Connection.tla takes over at "serving".                            *)
(***************************************************************************)
EXTENDS Preface, Settings

\* The payload of a SETTINGS frame is a list of identifiers and unsigned values
\* (decoded_payload); of any other frame, and of HTTP/1 requests, the list is empty.
ASSUME ParametersAssumption ==
  \A r \in Requests :
    r.frame.parameters \in Seq([id : Identifiers \cup {"unknown"}, value : Nat])

VARIABLES options, \* http2_options_from_client
          written  \* the frames written to the client

handshakeVars == <<options, written>>

HandshakeInit == options = Defaults /\ written = <<>>

\* send: a failed write ends the task.
WriteThen(next, frame) ==
  \E ok \in WriteOutcomes :
    /\ broken' = ~ok
    /\ at' = IF ok THEN next ELSE "closed"
    /\ written' = IF ok THEN Append(written, frame) ELSE written

ServerSettings == [kind |-> "SETTINGS", ack |-> FALSE]
AckOf(frame)   == [kind |-> frame.kind, ack |-> TRUE]

\* handle_preface: eight octets are read, and used whatever they are.
ReadMagic ==
  /\ at = "magic" /\ Arrived(pos) /\ pos' = After(pos)
  /\ WriteThen("settings", ServerSettings)
  /\ UNCHANGED <<sent, arrived, peer, protocol, preface, options>>

\* handle_settings: the first frame is taken for SETTINGS, but handled by its
\* own type.  A frame without an acknowledgement ends the task (unwrap), as an
\* error does, and the client is told nothing.
Acceptable(frame) ==
  /\ frame.sid = 0 /\ ~frame.ack /\ frame.len <= Defaults["MAX_FRAME_SIZE"]
  /\ \/ frame.kind = "SETTINGS" /\ frame.len % 6 = 0 /\ Valid(frame.parameters)
     \/ frame.kind = "PING" /\ frame.len = 8

ReadFirstFrame ==
  /\ at = "settings" /\ Arrived(pos) /\ pos' = After(pos)
  /\ LET frame == sent[1].frame IN
     IF Acceptable(frame)
     THEN /\ WriteThen("serving", AckOf(frame))
          /\ options' = IF frame.kind = "SETTINGS" THEN Updated(options, frame.parameters)
                        ELSE options
     ELSE at' = "closed" /\ UNCHANGED <<broken, written, options>>
  /\ UNCHANGED <<sent, arrived, peer, protocol, preface>>

HandshakeStep == ReadMagic \/ ReadFirstFrame
=============================================================================
