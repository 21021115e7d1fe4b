-------------------------- MODULE ConnectionProperties --------------------------
(***************************************************************************)
(* What a connection promises: its context stays within its types, it      *)
(* keeps its side of StreamContract, what it writes is an HTTP/2 response, *)
(* and it neither hangs nor leaves tasks behind.                           *)
(***************************************************************************)
EXTENDS Http2Connection

Tokens    == {"none", "task", "fresh"}
Context   == [known : SUBSET Streams, token : [Streams -> Tokens],
              inflight : Streams \cup {0}, active : 0..(CountModulus - 1),
              window : 0..MaxWindow, maxActive : Streams \cup {0},
              seenMax : Streams \cup {0}, goaway : Nat \cup {NoGoaway}, error : Error]
Request   == [at : {"none", "waiting", "running", "replying", "done"},
              token : Tokens, size : Nat]
Parked    == [sid : Streams, frame : OutFrame]
WireFrame == [kind : FrameKinds, es : BOOLEAN, len : Nat, last : Nat, code : ErrorCodes]

\* The state of the connection and of its tasks keeps within its types; the
\* count of active streams and the window of the connection within their width.
OwnTypeOK ==
  /\ reader \in {"reading", "ended"} /\ peer \in {"open", "closed"}
  /\ fromReader \in Seq(ClientFrames) /\ framesRead \in 0..MaxFrames
  /\ ctx \in Context
  /\ wire \in [Streams \cup {0} -> Seq(WireFrame)]
  /\ root \in BOOLEAN /\ fresh \in [Streams -> BOOLEAN]
  /\ parked \in Seq(Parked)
  /\ dispatch \in [Streams -> Request]

TypeOK == Contract!TypeOK /\ OwnTypeOK

\* The connection, its reader and its dispatch tasks are an environment that
\* the stream tasks can rely on: frames of a stream in order, header blocks not
\* interrupted, one answer to a request for decoding and to a dispatch.
KeepsContract == Contract!Spec

\* What the connection knows of its streams is true, though it learns of them
\* from the reader and they act on their own: a stream is known if and only if
\* its task has been started, seen_max_stream_id is not below any of them, an
\* open header block is the one of inflight_headers_frame_stream_id, and only
\* known streams send messages or have a request dispatched.
ContextFaithful ==
  /\ \A s \in Streams :
       /\ s \in ctx.known <=> task[s].phase # "absent"
       /\ s \in ctx.known => s <= ctx.seenMax
       /\ connUp /\ BlockOpen(stage[s]) => ctx.inflight = s
       /\ dispatch[s].at # "none" => s \in ctx.known
       /\ dispatch[s].at = "replying" => dispatch[s].size \in Sizes
  /\ \A i \in 1..Len(toConn) : toConn[i].sid \in ctx.known

Kinds(frames) == {frames[i].kind : i \in 1..Len(frames)}

\* After GOAWAY the server writes nothing, whatever the stream and dispatch
\* tasks that are still about have sent it.
SilentAfterGoaway == [][ "GOAWAY" \in Kinds(wire[0]) => UNCHANGED wire ]_vars

\* GOAWAY names no stream below one that was handed to a handler: a client may
\* retry the requests above it without having them served twice.
GoawayCoversDispatched ==
  \A i \in 1..Len(wire[0]) : wire[0][i].kind = "GOAWAY" =>
    \A s \in Streams : dispatch[s].at # "none" => s <= wire[0][i].last

\* The code keeps to it, though dispatches start and run while the connection
\* meets its error, as long as the client's identifiers fit its mask: of the 31
\* bits of the field frame_goaway.rs keeps 27, and beyond them it is false.
ShortIdsCovered == ctx.seenMax < GoawayIds => GoawayCoversDispatched

\* What is written on a stream, resets apart, is the start of a response: one
\* HEADERS, then at most one DATA, also when the DATA was held back by a window.
IsResponse(frame) == frame.kind \in {"HEADERS", "DATA"}

ResponseInOrder ==
  \A s \in Streams :
    /\ \A i, j \in 1..Len(wire[s]) :
         i < j /\ IsResponse(wire[s][i]) /\ IsResponse(wire[s][j]) =>
           wire[s][i].kind = "HEADERS" /\ wire[s][j].kind = "DATA"
    /\ \A j \in 1..Len(wire[s]) : wire[s][j].kind = "DATA" =>
         \E i \in 1..(j - 1) : wire[s][i].kind = "HEADERS"

\* The inductive invariant behind ResponseInOrder.  A response travels in
\* parts: in pending_frames of its task, in the message the task has to send, in
\* the channel, on the wire.  Where is a frame of kind k of stream s?
Response(m) == m.type = "DoResponseToClient"
Bears(m, k, s) ==
  Response(m) /\ m.sid = s /\ \E i \in 1..Len(m.frames) : m.frames[i].kind = k

ToBeSent(k, s) == task[s].out # <<>> /\ Bears(Head(task[s].out), k, s)
Carrying(k, s) == {i \in 1..Len(toConn) : Bears(toConn[i], k, s)}
Wrote(k, s)    == k \in Kinds(wire[s])

\* A message carries HEADERS, DATA, or both in this order.
ResponseForm(frames) ==
  /\ Len(frames) \in 1..2 /\ IsResponse(frames[1])
  /\ Len(frames) = 2 => frames[1].kind = "HEADERS" /\ frames[2].kind = "DATA"

InOnePlace(k, s) ==
  /\ \A i, j \in Carrying(k, s) : i = j
  /\ ToBeSent(k, s) => Carrying(k, s) = {}
  /\ Wrote(k, s) => ~ToBeSent(k, s) /\ Carrying(k, s) = {}

Somewhere(k, s) == Wrote(k, s) \/ Carrying(k, s) # {} \/ ToBeSent(k, s)

HeadersFirst(s) ==
  /\ task[s].pending # <<>> \/ ToBeSent("DATA", s) => Somewhere("HEADERS", s)
  /\ \A i \in Carrying("DATA", s) :
       Wrote("HEADERS", s) \/ \E j \in Carrying("HEADERS", s) : j <= i

Begun(s) ==
  task[s].pending # <<>> \/ Somewhere("HEADERS", s) \/ Somewhere("DATA", s)

ResponseInv(s) ==
  /\ \A i \in 1..Len(toConn) : Response(toConn[i]) => ResponseForm(toConn[i].frames)
  /\ task[s].out # <<>> /\ Response(Head(task[s].out)) => ResponseForm(Head(task[s].out).frames)
  /\ InOnePlace("HEADERS", s) /\ InOnePlace("DATA", s)
  /\ task[s].pending # <<>> =>
       Len(task[s].pending) = 1 /\ Head(task[s].pending).kind = "DATA" /\ ~Somewhere("DATA", s)
  /\ connUp => HeadersFirst(s)
  /\ Begun(s) => Contract!Answered(s)

ResponsesInStep == \A s \in Streams : ResponseInv(s)

\* No task outlives the connection: once the root token is cancelled, every
\* stream task, every dispatch and the reader come to their end.
EveryTaskEnds ==
  root ~> /\ reader = "ended"
          /\ \A s \in Streams : ~Running(s) /\ dispatch[s].at \in {"none", "done"}

\* The client has ended its request, which announced trailers, without any.
AwaitsTrailers(s) == task[s].requestEnd /\ task[s].announced /\ task[s].trl = "Initial"

\* A request that has been forwarded whole is answered, with a response or a
\* reset, unless the connection ends first; no permit, no lost wake-up and no
\* full channel keeps it waiting for ever.  Only one whose announced trailers
\* are missing is never dispatched.
RequestsAnswered ==
  \A s \in Streams :
    Running(s) /\ stage[s] = "done" ~> wire[s] # <<>> \/ ~connUp \/ AwaitsTrailers(s)
-----------------------------------------------------------------------------
(* What comments of the source state and the code does not do.  Each is the  *)
(* property of a run that finds it violated; README tells what each shows.   *)

\* http2_stream.rs: "An endpoint MUST NOT send frames other than PRIORITY on a
\* closed stream": no HEADERS and no DATA of a response follows a reset.
SilentAfterReset ==
  [][ \A s \in Streams : "RST_STREAM" \in Kinds(wire[s]) /\ wire'[s] # wire[s] =>
        wire'[s][Len(wire'[s])].kind = "RST_STREAM" ]_vars

\* http2_connection.rs: DATA that "cannot be finished because of lack of window
\* size" is held in pending_frames; with credit it leaves.
ParkedDataLeaves ==
  parked # <<>> /\ Head(parked).frame.len <= ctx.window ~> parked = <<>> \/ ~connUp

\* http2_connection.rs, on the select of serve: before it, messages "often could
\* not be read from the channel when they were needed".  A full channel to the
\* connection is read again.
ChannelIsRead == Len(toConn) = ConnChannel ~> Len(toConn) < ConnChannel

\* http2_stream.rs: "Task #1 : Graceful shutdown"; no stream task waits for a
\* connection that is gone.
NoOrphans == ~connUp ~> \A s \in Streams : ~Running(s)
================================================================================
