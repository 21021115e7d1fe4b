---------------------------- MODULE StreamContract ----------------------------
(***************************************************************************)
(* The stream tasks against any connection task that keeps its side of the *)
(* contract: frames of a stream arrive in order, a header block is not     *)
(* interrupted, a decoding request is answered at most once, and so is a   *)
(* request handed over for dispatch.  What the tasks promise under this    *)
(* contract is stated, and proved in StreamContractProofs, here; that the  *)
(* connection of http2_connection.rs keeps it is checked in                *)
(* Http2Connection.                                                        *)
(***************************************************************************)
EXTENDS Http2Stream

CONSTANTS Frames, \* the frames that may arrive
          Sizes   \* the sizes of response bodies

ASSUME FramesAssumption == Frames \subseteq Frame
ASSUME SizesAssumption  == Sizes \subseteq Nat

VARIABLES blocked, \* the message the connection is sending to a task, if any
          stage,   \* how far the request of a stream has been forwarded
          owed,    \* the streams whose dispatched request awaits its response
          client   \* does the client keep to the grammar of a request, or not?

contractVars == <<streamVars, blocked, stage, owed, client>>

Init == /\ StreamInit
        /\ blocked = <<>>
        /\ stage = [s \in Streams |-> "idle"]
        /\ owed = {}
        /\ client \in {"orderly", "any"}

\* A message and the task it is for.
Envelope == [to : Streams, msg : ToStream]
ToTask(s, m) == <<[to |-> s, msg |-> m]>>

\* Mutant of Started: the stream of a task that is over gets another.
StartedAfresh(s) == IF Running(s) THEN task[s] ELSE NewTask("running")

\* A stream task is started, once, for the first frame of its stream.
Started(s) == IF task[s].phase = "absent" THEN NewTask("running") ELSE task[s]

Start(s) ==
  /\ connUp
  /\ task' = [task EXCEPT ![s] = Started(s)]
  /\ UNCHANGED <<inbox, toConn, cancelled, connUp, blocked, stage, owed, client>>

\* The grammar of a request, RFC 7540 8.1: a header block, DATA, and at most one
\* block of trailers, the last of them with END_STREAM.
Grammatical(at, f) ==
  /\ f.kind = "HEADERS"      => at = "idle" \/ (at = "body" /\ f.es)
  /\ f.kind = "CONTINUATION" => BlockOpen(at)
  /\ f.kind = "DATA"         => at = "body"

\* A block that is open admits only CONTINUATION, whatever the client.
Forward(s, f) ==
  /\ connUp /\ blocked = <<>> /\ f.sid = s
  /\ f.kind \notin {"SETTINGS", "PING", "GOAWAY"}
  /\ BlockOpen(stage[s]) => f.kind = "CONTINUATION"
  /\ client = "orderly" => Grammatical(stage[s], f)
  /\ task' = [task EXCEPT ![s] = Started(s)]
  /\ blocked' = ToTask(s, [type |-> "FrameForRequest", frame |-> f])
  /\ stage' = [stage EXCEPT ![s] = StageAfter(@, f)]
  /\ UNCHANGED <<inbox, toConn, cancelled, connUp, owed, client>>

\* The connection takes the next message of a task...
Take(type) ==
  /\ connUp /\ blocked = <<>>
  /\ toConn # <<>> /\ Head(toConn).type = type
  /\ toConn' = Tail(toConn)
  /\ UNCHANGED <<task, inbox, cancelled, connUp, stage, client>>

\* ... and answers a request for decoding, or reports an error instead.
DecodeHeaders ==
  /\ Take("DecodingHeadersRequest")
  /\ blocked' \in {<<>>} \cup
       {ToTask(Head(toConn).sid, [type |-> "DecodingHeadersResponse", trailer |-> trailer])
          : trailer \in BOOLEAN}
  /\ UNCHANGED owed

DecodeTrailers ==
  /\ Take("DecodingTrailersRequest")
  /\ blocked' \in {<<>>, ToTask(Head(toConn).sid, [type |-> "DecodingTrailersResponse"])}
  /\ UNCHANGED owed

AcceptDispatch ==
  /\ Take("RequestContextForDispatch")
  /\ owed' = owed \cup {Head(toConn).sid}
  /\ UNCHANGED blocked

TakeOther ==
  /\ \E type \in {"DoResponseToClient", "Error", "ActiveStreamCount"} : Take(type)
  /\ UNCHANGED <<blocked, owed>>

\* What waits to be sent reaches the task, or finds it over.
Deliver ==
  /\ blocked # <<>>
  /\ LET s == Head(blocked).to IN
       IF Running(s)
       THEN /\ Len(inbox[s]) < StreamChannel
            /\ inbox' = [inbox EXCEPT ![s] = Append(@, Head(blocked).msg)]
       ELSE UNCHANGED inbox
  /\ blocked' = <<>>
  /\ UNCHANGED <<task, toConn, cancelled, connUp, stage, owed, client>>

\* A dispatched request is answered, or its dispatch is given up.
Respond(s, size) ==
  /\ s \in owed /\ owed' = owed \ {s}
  /\ Running(s) /\ Len(inbox[s]) < StreamChannel
  /\ inbox' = [inbox EXCEPT ![s] = Append(@, [type |-> "ResponseObject", size |-> size])]
  /\ UNCHANGED <<task, toConn, cancelled, connUp, blocked, stage, client>>

GiveUp(s) ==
  /\ s \in owed /\ owed' = owed \ {s}
  /\ UNCHANGED <<streamVars, blocked, stage, client>>

Cancel(S) ==
  /\ connUp
  /\ cancelled' = [s \in Streams |-> cancelled[s] \/ s \in S]
  /\ UNCHANGED <<task, inbox, toConn, connUp, blocked, stage, owed, client>>

\* The connection task ends, with or without cancelling its streams, and with
\* or without having taken a last frame.
Disconnect(S) ==
  /\ connUp /\ connUp' = FALSE
  /\ \/ UNCHANGED task
     \/ \E s \in Streams : task' = [task EXCEPT ![s] = Started(s)]
  /\ cancelled' = [s \in Streams |-> cancelled[s] \/ s \in S]
  /\ toConn' = <<>> /\ blocked' = <<>>
  /\ UNCHANGED <<inbox, stage, owed, client>>

TaskStep(s) == StreamStep(s) /\ UNCHANGED <<blocked, stage, owed, client>>

Forwarding == \E s \in Streams, f \in Frames : Forward(s, f)
OtherStep ==
  \/ \E s \in Streams : TaskStep(s) \/ Start(s) \/ GiveUp(s)
  \/ \E s \in Streams, size \in Sizes : Respond(s, size)
  \/ \E S \in SUBSET Streams : Cancel(S) \/ Disconnect(S)
  \/ DecodeHeaders \/ DecodeTrailers \/ AcceptDispatch \/ TakeOther \/ Deliver

Next == Forwarding \/ OtherStep
Spec == Init /\ [][Next]_contractVars

-----------------------------------------------------------------------------
(* What the tasks promise *)

\* The tasks, and what is under way between them and the connection, keep
\* within their types; the client's window stays within the u32 that holds it.
TypeOK ==
  /\ task \in [Streams -> Task]
  /\ inbox \in [Streams -> Seq(ToStream)]
  /\ toConn \in Seq(ToConnection)
  /\ cancelled \in [Streams -> BOOLEAN]
  /\ connUp \in BOOLEAN
  /\ blocked \in Seq(Envelope) /\ Len(blocked) <= 1
  /\ stage \in [Streams -> Stages]
  /\ owed \in SUBSET Streams
  /\ client \in {"orderly", "any"}

\* No stream task panics: composited_header, unwrapped when decoded trailers
\* come back, is still there, although headers, trailers and the answers about
\* them arrive in any interleaving.  It takes a client that keeps to the grammar
\* of a request.
NoPanic == client = "orderly" => \A s \in Streams : task[s].phase # "panicked"

\* maybe_trailers, unwrapped when trailers are sent for decoding, is there
\* whatever the client sends.
TrailersWereAnnounced ==
  \A s \in Streams : Running(s) /\ NeedsTrailers(task[s]) => task[s].announced

\* The requests and replies of one kind that are on their way for stream s:
\* about to be sent, in the channel, with the connection, in the inbox.
Asking(type, s)   == task[s].out # <<>> /\ Head(task[s].out).type = type
Requests(type, s) == {i \in 1..Len(toConn) : toConn[i].type = type /\ toConn[i].sid = s}
Held(type, s)     == blocked # <<>> /\ Head(blocked).to = s /\ Head(blocked).msg.type = type
Replies(type, s)  == {i \in 1..Len(inbox[s]) : inbox[s][i].type = type}

UnderWay(request, reply, s) ==
  \/ Asking(request, s) \/ Requests(request, s) # {}
  \/ Held(reply, s) \/ Replies(reply, s) # {}

\* At most one request or reply of a kind is under way for a stream.
OneAtATime(request, reply, s) ==
  /\ \A i, j \in Requests(request, s) : i = j
  /\ \A i, j \in Replies(reply, s) : i = j
  /\ Asking(request, s) => Requests(request, s) = {} /\ ~Held(reply, s) /\ Replies(reply, s) = {}
  /\ Requests(request, s) # {} => ~Held(reply, s) /\ Replies(reply, s) = {}
  /\ Held(reply, s) => Replies(reply, s) = {}

\* A running task waits for the decoder while a request or a reply is under
\* way, so that no answer is applied twice or to a task that has moved on.
InStep(request, reply, s) ==
  /\ OneAtATime(request, reply, s)
  /\ Running(s) /\ UnderWay(request, reply, s) =>
       (IF request = "DecodingHeadersRequest" THEN task[s].hdr ELSE task[s].trl) = "Waiting"

HeaderDecoderInStep ==
  \A s \in Streams : InStep("DecodingHeadersRequest", "DecodingHeadersResponse", s)
TrailerDecoderInStep ==
  \A s \in Streams : InStep("DecodingTrailersRequest", "DecodingTrailersResponse", s)

\* A request is handed over at most once, and answered at most once.
OneDispatch(s) ==
  /\ OneAtATime("RequestContextForDispatch", "ResponseObject", s)
  /\ s \in owed => ~UnderWay("RequestContextForDispatch", "ResponseObject", s)
DispatchedOnce == \A s \in Streams : OneDispatch(s)

\* The response to a request has been handled or given up: none is on its way.
Answered(s) ==
  /\ task[s].phase \in {"absent", "running"} => task[s].dispatched
  /\ s \notin owed /\ ~UnderWay("RequestContextForDispatch", "ResponseObject", s)

\* That is for good: whatever comes after, the request of a stream is not
\* handed over again, and no second response reaches its task.
AnsweredForGood ==
  [][\A s \in Streams : Answered(s) => Answered(s)']_contractVars

\* The block given to the decoder is a whole one: HEADERS first, then
\* CONTINUATION frames only, END_HEADERS on the last frame and on no other.
WholeBlock(block) ==
  /\ block # <<>>
  /\ \A i \in 1..Len(block) :
       /\ block[i].kind = IF i = 1 THEN "HEADERS" ELSE "CONTINUATION"
       /\ HasEndHeaders(block[i]) <=> i = Len(block)

BlocksAreWhole(type) ==
  /\ \A i \in 1..Len(toConn) : toConn[i].type = type => WholeBlock(toConn[i].block)
  /\ \A s \in Streams : \A i \in 1..Len(task[s].out) :
       task[s].out[i].type = type => WholeBlock(task[s].out[i].block)

WholeHeaderBlocks  == BlocksAreWhole("DecodingHeadersRequest")

\* Trailers too reach the decoder as one whole block, and the answer about them
\* finds the task waiting for it.  It takes a client that keeps to the grammar: a
\* stray CONTINUATION can come after trailers, or stand for them.
WholeTrailerBlocks == BlocksAreWhole("DecodingTrailersRequest")
TrailersInOrder    == client = "orderly" => TrailerDecoderInStep /\ WholeTrailerBlocks

\* The server never closes its side first: a stream is never half-closed
\* (local), and once END_STREAM was seen the client's side stays closed.
ServerClosesLast ==
  \A s \in Streams :
    /\ task[s].state \notin {"HalfClosedLocal", "Reserved"}
    /\ task[s].requestEnd => task[s].state \in {"HalfClosedRemote", "Closed"}
-----------------------------------------------------------------------------
(* The inductive invariant behind the safety properties proved in           *)
(* StreamContractProofs: what a task knows of the messages under way for it. *)

\* The parts of a task's state that go together.
Coherent(s, t) ==
  /\ t.state \in {"Idle", "Open", "HalfClosedRemote", "Closed"}
  /\ t.requestEnd => t.state \in {"HalfClosedRemote", "Closed"}
  /\ t.dispatched => t.requestEnd
  /\ t.pending # <<>> => t.dispatched
  /\ t.hdr = "Completed" => t.announced \/ t.trl = "Completed"
  /\ Len(t.out) <= 1 /\ (t.out # <<>> => Head(t.out).sid = s)
  /\ t.phase # "running" => t.out = <<>>
  /\ t.phase = "absent" => t.hdr = "Initial" /\ ~t.dispatched

\* A task that runs, or may still be started.
Live(s) == task[s].phase \in {"absent", "running"}

HeadersAwaited(s) ==
  Live(s) /\ UnderWay("DecodingHeadersRequest", "DecodingHeadersResponse", s)
    => task[s].hdr = "Waiting"
ResponseAwaited(s) ==
  Live(s) /\ (s \in owed \/ UnderWay("RequestContextForDispatch", "ResponseObject", s))
    => task[s].dispatched

StreamInv(s) ==
  /\ Coherent(s, task[s])
  /\ ~Running(s) => inbox[s] = <<>>
  /\ OneAtATime("DecodingHeadersRequest", "DecodingHeadersResponse", s) /\ HeadersAwaited(s)
  /\ OneDispatch(s) /\ ResponseAwaited(s)

\* Whatever the client sends, each task is coherent and knows what is under way
\* for it.
TasksInStep == \A s \in Streams : StreamInv(s)
-----------------------------------------------------------------------------
(* The inductive invariant behind WholeHeaderBlocks: what a task has         *)
(* collected, the frames on their way to it and the stage of the request.    *)

IsFrame(m) == m.type = "FrameForRequest"
Opens(m)   == IsFrame(m) /\ m.frame.kind = "HEADERS" /\ ~m.frame.eh
Closes(m)  == IsFrame(m) /\ m.frame.kind = "CONTINUATION" /\ m.frame.eh

\* Is a block open before the j-th message of a line, if open says whether one
\* is before the first?
OpenBefore(open, line, j) ==
  \/ open /\ \A k \in 1..(j - 1) : ~Closes(line[k])
  \/ \E i \in 1..(j - 1) : Opens(line[i]) /\ \A k \in (i + 1)..(j - 1) : ~Closes(line[k])

Uninterrupted(open, line) ==
  \A j \in 1..Len(line) : IsFrame(line[j]) /\ OpenBefore(open, line, j)
    => line[j].frame.kind = "CONTINUATION"

\* The messages that stream s has yet to read, the one the connection holds last.
Line(s) == IF blocked # <<>> /\ Head(blocked).to = s
           THEN Append(inbox[s], Head(blocked).msg) ELSE inbox[s]

\* The part of a whole block that comes before its last frame.
BeginsBlock(block) ==
  /\ block # <<>>
  /\ \A i \in 1..Len(block) :
       /\ block[i].kind = IF i = 1 THEN "HEADERS" ELSE "CONTINUATION"
       /\ ~HasEndHeaders(block[i])

Collected(t) ==
  /\ t.hdr = "Initial" => t.headers = <<>>
  /\ t.hdr = "KeepGoing" => t.state # "Idle" /\ BeginsBlock(t.headers)
  /\ t.hdr = "Ready" => WholeBlock(t.headers)
  /\ t.hdr \in {"Initial", "KeepGoing", "Ready"} => t.trl = "Initial" /\ ~t.composited
  /\ t.phase # "running" => t.hdr = "Initial"

Collecting(s) == task[s].hdr = "KeepGoing"

BlockInv(s) ==
  /\ Collected(task[s])
  /\ Uninterrupted(Collecting(s), Line(s))
  /\ connUp /\ OpenBefore(Collecting(s), Line(s), Len(Line(s)) + 1) => BlockOpen(stage[s])

\* Whatever the client sends, a task that collects a header block is sent
\* nothing but the rest of it.
BlocksInStep == \A s \in Streams : BlockInv(s)
-----------------------------------------------------------------------------
(* The inductive invariant behind NoPanic and TrailersInOrder, for clients    *)
(* that keep to the grammar: how far a task has heard a request, and how the   *)
(* messages it has yet to read lead from there to where the client is.        *)

Heard(at, m, next) ==
  IF IsFrame(m) THEN Grammatical(at, m.frame) /\ next = StageAfter(at, m.frame)
                ELSE next = at

Along(from, line, to) ==
  \E at \in [1..(Len(line) + 1) -> Stages] :
    /\ at[1] = from /\ at[Len(line) + 1] = to
    /\ \A i \in 1..Len(line) : Heard(at[i], line[i], at[i + 1])

LeadsOn(from, s) ==
  \E to \in Stages : Along(from, Line(s), to) /\ (connUp => to = stage[s])

HeardSoFar(t) ==
  IF t.hdr = "Initial" THEN "idle"
  ELSE IF t.hdr = "KeepGoing" \/ t.trl = "KeepGoing"
       THEN IF t.requestEnd THEN "closing" ELSE "opening"
       ELSE IF t.requestEnd THEN "done" ELSE "body"

\* A task that refuses whatever trailers may come.
Deaf(t) ==
  \/ t.hdr = "Completed" /\ t.trl = "Completed"
  \/ t.hdr \in {"Ready", "Waiting", "Completed"} /\ t.trl = "Initial" /\ t.state = "Closed"

Orderly(t) ==
  /\ t.hdr = "Initial" <=> t.state = "Idle"
  /\ t.state = "HalfClosedRemote" => t.requestEnd
  /\ t.trl = "Initial" => t.trailers = <<>>
  /\ t.trl = "KeepGoing" => t.requestEnd /\ BeginsBlock(t.trailers)
  /\ t.trl = "Ready" => t.requestEnd /\ WholeBlock(t.trailers)
  /\ t.trl = "Waiting" => t.requestEnd /\ t.hdr = "Completed"
  /\ t.trl = "Completed" => t.hdr = "Completed"
  /\ t.hdr = "Completed" => t.composited \/ t.trl = "Completed"

TrailersAwaited(s) ==
  /\ OneAtATime("DecodingTrailersRequest", "DecodingTrailersResponse", s)
  /\ Live(s) /\ UnderWay("DecodingTrailersRequest", "DecodingTrailersResponse", s)
       => task[s].trl = "Waiting"

Follows(s) ==
  Live(s) => Orderly(task[s]) /\ (Deaf(task[s]) \/ LeadsOn(HeardSoFar(task[s]), s))

TrailerInv(s) ==
  /\ task[s].phase # "panicked"
  /\ task[s].phase = "absent" => Line(s) = <<>>
  /\ TrailersAwaited(s) /\ Follows(s)

\* If the client keeps to the grammar, each task either knows where in its request
\* the client is, once it has read what is under way, or will hear no more of it.
TrailersInStep == client = "orderly" => \A s \in Streams : TrailerInv(s)
=============================================================================
