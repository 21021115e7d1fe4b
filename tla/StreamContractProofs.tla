-------------------------- MODULE StreamContractProofs --------------------------
(***************************************************************************)
(* What TLAPS proves of StreamContract, for any set of streams, frames and *)
(* body sizes, any windows and channel capacities.                         *)
(***************************************************************************)
EXTENDS StreamContract, SequenceTheorems, TLAPS

-----------------------------------------------------------------------------
(* Types of what the transforms of a task return *)

LEMMA Singletons ==
  ASSUME NEW S, NEW x \in S
  PROVE  <<x>> \in Seq(S)
OBVIOUS

LEMMA Appended ==
  ASSUME NEW S, NEW seq \in Seq(S), NEW x \in S
  PROVE  Append(seq, x) \in Seq(S)
OBVIOUS

LEMMA Single ==
  ASSUME NEW S, NEW seq \in Seq(S), seq # <<>>, Len(seq) <= 1
  PROVE  Head(seq) \in S /\ Tail(seq) = <<>>
<1>1. Len(seq) = 1
  <2>1. Len(seq) # 0 BY EmptySeq
  <2>2. Len(seq) \in Nat OBVIOUS
  <2>. QED BY <2>1, <2>2
<1>2. Tail(seq) \in Seq(S) /\ Len(Tail(seq)) = 0 BY <1>1
<1>3. Tail(seq) = <<>> BY <1>2
<1>. QED BY <1>3

USE StreamsAssumption, WindowAssumption, CapacityAssumption, FramesAssumption,
    SizesAssumption

LEMMA NewTaskType ==
  ASSUME NEW phase \in {"absent", "running", "ended", "panicked"}
  PROVE  NewTask(phase) \in Task
BY DEF NewTask, Task, StreamStates, DecodingStates

LEMMA ErrorTypes ==
  ASSUME NEW code \in ErrorCodes, NEW sid \in Nat
  PROVE  /\ NoError \in Error /\ ConnectionError(code) \in Error
         /\ StreamError(sid, code) \in Error
BY DEF NoError, ConnectionError, StreamError, Error, ErrorCodes

LEMMA MessageTypes ==
  ASSUME NEW s \in Streams
  PROVE  /\ \A type \in {"DecodingHeadersRequest", "DecodingTrailersRequest"}, b \in Seq(Frame) :
              DecodeRequest(type, s, b) \in ToConnection
         /\ \A e \in Error : ErrorMessage(s, e) \in ToConnection
         /\ \A cmd \in CountCommands : CountMessage(s, cmd) \in ToConnection
         /\ \A frames \in Seq(OutFrame) : ResponseMessage(s, frames) \in ToConnection
         /\ DispatchMessage(s) \in ToConnection
BY DEF DecodeRequest, ErrorMessage, CountMessage, ResponseMessage, DispatchMessage, ToConnection

LEMMA OutFrameTypes ==
  /\ ResponseHeaders \in OutFrame
  /\ \A n \in Nat : ResponseData(n) \in OutFrame
BY DEF ResponseHeaders, ResponseData, OutFrame

LEMMA CommandType ==
  ASSUME NEW prev, NEW new
  PROVE  CountCommand(prev, new) \in CountCommands
BY DEF CountCommand, CountCommands

LEMMA NextStateTypes ==
  ASSUME NEW state \in StreamStates, NEW f
  PROVE  NextFromClient(state, f) \in StreamStates /\ NextFromMe(state, f) \in StreamStates
BY DEF NextFromClient, NextFromMe, StreamStates

LEMMA ValidateType ==
  ASSUME NEW state, NEW hdr, NEW trl, NEW f \in Frame
  PROVE  ValidateFromClient(state, hdr, trl, f) \in Error
<1>1. f.sid \in Nat BY DEF Frame
<1>2. /\ NoError \in Error /\ ConnectionError("PROTOCOL_ERROR") \in Error
      /\ StreamError(f.sid, "STREAM_CLOSED") \in Error
  BY <1>1, ErrorTypes DEF ErrorCodes
<1>. QED BY <1>2 DEF ValidateFromClient, Check, ??

LEMMA VerdictType ==
  ASSUME NEW s \in Streams, NEW t \in Task, NEW f \in Frame
  PROVE  FrameVerdict(s, t, f) \in ToConnection
<1>1. ValidateFromClient(t.state, t.hdr, t.trl, f) \in Error BY ValidateType
<1>2. NoError \in Error /\ StreamError(s, "FLOW_CONTROL_ERROR") \in Error
  BY ErrorTypes DEF ErrorCodes
<1>. QED BY <1>1, <1>2, MessageTypes, CommandType DEF FrameVerdict, Check, ??

LEMMA AcceptedType ==
  ASSUME NEW t \in Task, NEW f \in Frame
  PROVE  Accepted(t, f) \in Task
<1>1. NextFromClient(t.state, f) \in StreamStates BY NextStateTypes DEF Task
<1>2. Progress(f) \in DecodingStates BY DEF Progress, DecodingStates
<1>3. f.val \in Nat BY DEF Frame
<1>4. WindowOverflow(t, f) \in BOOLEAN BY DEF WindowOverflow
<1>5. f.kind = "WINDOW_UPDATE" /\ ~WindowOverflow(t, f) => t.window + f.val \in 0..MaxWindow
  BY <1>3 DEF WindowOverflow, Task
<1>6. HasEndStream(f) \in BOOLEAN BY DEF HasEndStream, Frame
<1>7. Append(t.headers, f) \in Seq(Frame) /\ Append(t.trailers, f) \in Seq(Frame)
  BY Appended DEF Task
<1>. DEFINE forTrailers == CarriesHeaders(f) /\ ToTrailers(t)
             forHeaders  == CarriesHeaders(f) /\ ~ToTrailers(t)
<1>8. /\ (IF forHeaders  THEN Progress(f) ELSE t.hdr) \in DecodingStates
      /\ (IF forTrailers THEN Progress(f) ELSE t.trl) \in DecodingStates
  BY <1>2 DEF Task
<1>9. /\ (IF forHeaders  THEN Append(t.headers, f) ELSE t.headers) \in Seq(Frame)
      /\ (IF forTrailers THEN Append(t.trailers, f) ELSE t.trailers) \in Seq(Frame)
  BY <1>7 DEF Task
<1>10. /\ (IF f.kind = "DATA" THEN t.bodies + 1 ELSE t.bodies) \in Nat
       /\ (IF f.kind = "WINDOW_UPDATE" /\ ~WindowOverflow(t, f)
            THEN t.window + f.val ELSE t.window) \in 0..MaxWindow
       /\ (t.requestEnd \/ HasEndStream(f)) \in BOOLEAN
  BY <1>5, <1>6 DEF Task
<1>. HIDE DEF forTrailers, forHeaders
<1>. QED BY <1>1, <1>8, <1>9, <1>10, ZenonT(40) DEF Accepted, Task, forTrailers, forHeaders

LEMMA HandleFrameType ==
  ASSUME NEW s \in Streams, NEW t \in Task, NEW f \in Frame
  PROVE  HandleFrame(s, t, f) \in Task
<1>1. <<FrameVerdict(s, t, f)>> \in Seq(ToConnection) BY VerdictType, Singletons
<1>2. Accepted(t, f) \in Task BY AcceptedType
<1>. QED BY <1>1, <1>2 DEF HandleFrame, Task

LEMMA HandleResponseType ==
  ASSUME NEW s \in Streams, NEW t \in Task, NEW size \in Nat
  PROVE  HandleResponse(s, t, size) \in Task
<1>1. <<ResponseHeaders, ResponseData(size)>> \in Seq(OutFrame)
      /\ <<ResponseHeaders>> \in Seq(OutFrame)
  BY OutFrameTypes
<1>2. /\ <<ResponseMessage(s, <<ResponseHeaders, ResponseData(size)>>)>> \in Seq(ToConnection)
      /\ <<ResponseMessage(s, <<ResponseHeaders>>)>> \in Seq(ToConnection)
  BY <1>1, MessageTypes, Singletons
<1>3. Append(t.pending, ResponseData(size)) \in Seq(OutFrame)
  BY OutFrameTypes, Appended DEF Task
<1>4. CanSendFrame(t, size) => t.window - size \in 0..MaxWindow
  BY DEF CanSendFrame, Task
<1>. QED BY <1>2, <1>3, <1>4 DEF HandleResponse, Task

LEMMA HandleDecodedTypes ==
  ASSUME NEW s \in Streams, NEW t \in Task, NEW trailer \in BOOLEAN
  PROVE  /\ HandleDecodedHeaders(s, t, trailer) \in Task
         /\ HandleDecodedTrailers(t) \in Task
<1>1. <<ErrorMessage(s, ConnectionError("PROTOCOL_ERROR"))>> \in Seq(ToConnection)
  BY ErrorTypes, MessageTypes, Singletons DEF ErrorCodes
<1>2. HandleDecodedHeaders(s, t, trailer) \in Task
  BY <1>1 DEF HandleDecodedHeaders, Task, DecodingStates
<1>3. HandleDecodedTrailers(t) \in Task
  BY NewTaskType DEF HandleDecodedTrailers, Task, DecodingStates
<1>. QED BY <1>2, <1>3

LEMMA HandleType ==
  ASSUME NEW s \in Streams, NEW t \in Task, NEW m \in ToStream
  PROVE  Handle(s, t, m) \in Task
BY HandleFrameType, HandleResponseType, HandleDecodedTypes DEF Handle, ToStream

LEMMA TopOfLoopTypes ==
  ASSUME NEW s \in Streams, NEW t \in Task
  PROVE  /\ AskForHeaders(s, t) \in Task
         /\ AskForTrailers(s, t) \in Task
         /\ HandOver(s, t) \in Task
         /\ t.pending # <<>> => Flush(s, t) \in Task
<1>1. /\ <<DecodeRequest("DecodingHeadersRequest", s, t.headers)>> \in Seq(ToConnection)
      /\ <<DecodeRequest("DecodingTrailersRequest", s, t.trailers)>> \in Seq(ToConnection)
      /\ <<DispatchMessage(s)>> \in Seq(ToConnection)
  BY MessageTypes, Singletons DEF Task
<1>2. AskForHeaders(s, t) \in Task
  BY <1>1, EmptySeq DEF AskForHeaders, Task, DecodingStates
<1>3. AskForTrailers(s, t) \in Task
  BY <1>1, NewTaskType, EmptySeq DEF AskForTrailers, Task, DecodingStates
<1>4. HandOver(s, t) \in Task
  <2>1. (IF t.bodies = 0 THEN 0 ELSE t.bodies - 1) \in Nat BY DEF Task
  <2>. QED BY <1>1, <2>1 DEF HandOver, Task
<1>5. ASSUME t.pending # <<>> PROVE Flush(s, t) \in Task
  <2>1. Head(t.pending) \in OutFrame /\ Tail(t.pending) \in Seq(OutFrame)
    BY <1>5 DEF Task
  <2>2. <<ResponseMessage(s, <<Head(t.pending)>>)>> \in Seq(ToConnection)
    BY <2>1, MessageTypes, Singletons
  <2>3. NextFromMe(t.state, Head(t.pending)) \in StreamStates BY NextStateTypes DEF Task
  <2>. QED BY <2>1, <2>2, <2>3, NewTaskType DEF Flush, Task
<1>. QED BY <1>2, <1>3, <1>4, <1>5
-----------------------------------------------------------------------------
(* Type correctness *)

LEMMA BecomeType ==
  ASSUME TypeOK, NEW s \in Streams, NEW t \in Task, NEW rest \in Seq(ToStream),
         Become(s, t, rest)
  PROVE  task' \in [Streams -> Task] /\ inbox' \in [Streams -> Seq(ToStream)]
BY EmptySeq DEF Become, TypeOK

\* A step of a stream task keeps the types.
LEMMA TaskStepType ==
  ASSUME TypeOK, NEW s \in Streams, StreamStep(s)
  PROVE  /\ task' \in [Streams -> Task] /\ inbox' \in [Streams -> Seq(ToStream)]
         /\ toConn' \in Seq(ToConnection)
         /\ cancelled' \in [Streams -> BOOLEAN] /\ connUp' \in BOOLEAN
<1>. /\ task[s] \in Task /\ inbox[s] \in Seq(ToStream) BY DEF TypeOK
<1>1. ASSUME NEW needed, NEW t \in Task, TopOfLoop(s, needed, t)
      PROVE  /\ task' \in [Streams -> Task] /\ inbox' \in [Streams -> Seq(ToStream)]
             /\ UNCHANGED <<toConn, cancelled, connUp>>
  BY <1>1, BecomeType DEF TopOfLoop
<1>2. CASE CompositeHeaders(s)
  <2>1. AskForHeaders(s, task[s]) \in Task BY TopOfLoopTypes
  <2>. QED BY <1>1, <1>2, <2>1 DEF CompositeHeaders, TypeOK
<1>3. CASE CompositeTrailers(s)
  <2>1. AskForTrailers(s, task[s]) \in Task BY TopOfLoopTypes
  <2>. QED BY <1>1, <1>3, <2>1 DEF CompositeTrailers, TypeOK
<1>4. CASE DispatchIfNeeded(s)
  <2>1. HandOver(s, task[s]) \in Task BY TopOfLoopTypes
  <2>. QED BY <1>1, <1>4, <2>1 DEF DispatchIfNeeded, TypeOK
<1>5. CASE RespondIfPossible(s)
  <2>1. Flush(s, task[s]) \in Task
    BY <1>5, TopOfLoopTypes DEF RespondIfPossible, TopOfLoop, NeedsFlush
  <2>. QED BY <1>1, <1>5, <2>1 DEF RespondIfPossible, TypeOK
<1>6. ASSUME NEW type, Receive(s, type)
      PROVE  /\ task' \in [Streams -> Task] /\ inbox' \in [Streams -> Seq(ToStream)]
             /\ UNCHANGED <<toConn, cancelled, connUp>>
  <2>1. Head(inbox[s]) \in ToStream /\ Tail(inbox[s]) \in Seq(ToStream)
    BY <1>6 DEF Receive
  <2>2. Handle(s, task[s], Head(inbox[s])) \in Task BY <2>1, HandleType
  <2>. QED BY <1>6, <2>1, <2>2, BecomeType DEF Receive
<1>7. CASE ReceiveFrame(s) \/ ReceiveResponse(s) \/ ReceiveHeaders(s) \/ ReceiveTrailers(s)
  BY <1>6, <1>7 DEF ReceiveFrame, ReceiveResponse, ReceiveHeaders, ReceiveTrailers, TypeOK
<1>8. CASE Terminate(s) \/ SendFails(s)
  <2>1. NewTask("ended") \in Task BY NewTaskType
  <2>2. Become(s, NewTask("ended"), <<>>) /\ UNCHANGED <<toConn, cancelled, connUp>>
    BY <1>8 DEF Terminate, SendFails
  <2>. QED BY <2>1, <2>2, BecomeType, EmptySeq DEF TypeOK
<1>9. CASE Send(s)
  <2>1. /\ task[s].out # <<>> /\ UNCHANGED <<inbox, cancelled, connUp>>
        /\ toConn' = Append(toConn, Head(task[s].out))
        /\ task' = [task EXCEPT ![s].out = Tail(task[s].out)]
    BY <1>9 DEF Send
  <2>2. Head(task[s].out) \in ToConnection /\ Tail(task[s].out) \in Seq(ToConnection)
    BY <2>1 DEF Task
  <2>3. toConn' \in Seq(ToConnection) BY <2>1, <2>2, Appended DEF TypeOK
  <2>4. [task[s] EXCEPT !.out = Tail(task[s].out)] \in Task BY <2>2 DEF Task
  <2>5. task' \in [Streams -> Task] BY <2>1, <2>4 DEF TypeOK
  <2>. QED BY <2>1, <2>3, <2>5 DEF TypeOK
<1>. QED BY <1>2, <1>3, <1>4, <1>5, <1>7, <1>8, <1>9 DEF StreamStep
LEMMA EnvelopeType ==
  ASSUME NEW s \in Streams, NEW m \in ToStream
  PROVE  ToTask(s, m) \in Seq(Envelope) /\ Len(ToTask(s, m)) <= 1
         /\ Head(ToTask(s, m)) = [to |-> s, msg |-> m]
<1>1. [to |-> s, msg |-> m] \in Envelope BY DEF Envelope
<1>. QED BY <1>1 DEF ToTask

LEMMA StageType ==
  ASSUME NEW st \in Stages, NEW f
  PROVE  StageAfter(st, f) \in Stages
BY DEF StageAfter, Stages

LEMMA StartedType ==
  ASSUME TypeOK, NEW s \in Streams
  PROVE  [task EXCEPT ![s] = Started(s)] \in [Streams -> Task]
BY NewTaskType DEF Started, TypeOK

LEMMA ToStreamTypes ==
  /\ \A f \in Frame : [type |-> "FrameForRequest", frame |-> f] \in ToStream
  /\ \A n \in Nat : [type |-> "ResponseObject", size |-> n] \in ToStream
  /\ \A b \in BOOLEAN : [type |-> "DecodingHeadersResponse", trailer |-> b] \in ToStream
  /\ [type |-> "DecodingTrailersResponse"] \in ToStream
BY DEF ToStream

LEMMA TypeOKInit == Init => TypeOK
<1>. SUFFICES ASSUME Init PROVE TypeOK OBVIOUS
<1>1. NewTask("absent") \in Task BY NewTaskType
<1>. QED BY <1>1, EmptySeq DEF Init, StreamInit, TypeOK, Stages

LEMMA TypeOKStep == TypeOK /\ [Next]_contractVars => TypeOK'
<1>. SUFFICES ASSUME TypeOK, [Next]_contractVars PROVE TypeOK' OBVIOUS
<1>1. ASSUME NEW s \in Streams, TaskStep(s) PROVE TypeOK'
  BY <1>1, TaskStepType DEF TaskStep, TypeOK
<1>2. ASSUME NEW s \in Streams, Start(s) PROVE TypeOK'
  BY <1>2, StartedType DEF Start, TypeOK
<1>3. ASSUME NEW s \in Streams, NEW f \in Frames, Forward(s, f) PROVE TypeOK'
  <2>1. task' \in [Streams -> Task] BY <1>3, StartedType DEF Forward
  <2>2. blocked' \in Seq(Envelope) /\ Len(blocked') <= 1
    BY <1>3, EnvelopeType, ToStreamTypes DEF Forward
  <2>3. stage' \in [Streams -> Stages]
    BY <1>3, StageType DEF Forward, TypeOK
  <2>. QED BY <1>3, <2>1, <2>2, <2>3 DEF Forward, TypeOK
<1>4. ASSUME NEW type, Take(type)
      PROVE  /\ Head(toConn) \in ToConnection /\ toConn' \in Seq(ToConnection)
             /\ UNCHANGED <<task, inbox, cancelled, connUp, stage, client>>
  BY <1>4 DEF Take, TypeOK
<1>5. ASSUME NEW m \in ToConnection PROVE m.sid \in Streams
  BY <1>5 DEF ToConnection
<1>6. CASE DecodeHeaders
  <2>1. Head(toConn).sid \in Streams BY <1>4, <1>5, <1>6 DEF DecodeHeaders
  <2>2. <<>> \in Seq(Envelope) /\ Len(<<>>) <= 1 OBVIOUS
  <2>3. blocked' \in Seq(Envelope) /\ Len(blocked') <= 1
    BY <2>1, <2>2, <1>6, EnvelopeType, ToStreamTypes DEF DecodeHeaders
  <2>. QED BY <1>4, <1>6, <2>3 DEF DecodeHeaders, TypeOK
<1>7. CASE DecodeTrailers
  <2>1. Head(toConn).sid \in Streams BY <1>4, <1>5, <1>7 DEF DecodeTrailers
  <2>2. <<>> \in Seq(Envelope) /\ Len(<<>>) <= 1 OBVIOUS
  <2>3. blocked' \in Seq(Envelope) /\ Len(blocked') <= 1
    BY <2>1, <2>2, <1>7, EnvelopeType, ToStreamTypes DEF DecodeTrailers
  <2>. QED BY <1>4, <1>7, <2>3 DEF DecodeTrailers, TypeOK
<1>8. CASE AcceptDispatch
  BY <1>4, <1>5, <1>8 DEF AcceptDispatch, TypeOK
<1>9. CASE TakeOther
  BY <1>4, <1>9 DEF TakeOther, TypeOK
<1>10. CASE Deliver
  <2>1. Head(blocked).to \in Streams /\ Head(blocked).msg \in ToStream
    <3>1. Head(blocked) \in Envelope BY <1>10 DEF Deliver, TypeOK
    <3>. QED BY <3>1 DEF Envelope
  <2>2. inbox' \in [Streams -> Seq(ToStream)]
    <3>. DEFINE d == Head(blocked).to
    <3>1. Append(inbox[d], Head(blocked).msg) \in Seq(ToStream) BY <2>1, Appended DEF TypeOK
    <3>2. inbox' \in {inbox, [inbox EXCEPT ![d] = Append(inbox[d], Head(blocked).msg)]}
      BY <1>10 DEF Deliver
    <3>. QED BY <2>1, <3>1, <3>2 DEF TypeOK
  <2>. QED BY <1>10, <2>2, EmptySeq DEF Deliver, TypeOK
<1>11. ASSUME NEW s \in Streams, NEW size \in Sizes, Respond(s, size) PROVE TypeOK'
  <2>1. inbox' \in [Streams -> Seq(ToStream)]
    BY <1>11, ToStreamTypes, Appended DEF Respond, TypeOK
  <2>. QED BY <1>11, <2>1 DEF Respond, TypeOK
<1>12. ASSUME NEW s \in Streams, GiveUp(s) PROVE TypeOK'
  BY <1>12 DEF GiveUp, TypeOK, streamVars
<1>13. ASSUME NEW S \in SUBSET Streams, Cancel(S) PROVE TypeOK'
  BY <1>13 DEF Cancel, TypeOK
<1>14. ASSUME NEW S \in SUBSET Streams, Disconnect(S) PROVE TypeOK'
  <2>1. task' \in [Streams -> Task] BY <1>14, StartedType DEF Disconnect, TypeOK
  <2>2. toConn' \in Seq(ToConnection) /\ blocked' \in Seq(Envelope) /\ Len(blocked') <= 1
    BY <1>14 DEF Disconnect
  <2>. QED BY <1>14, <2>1, <2>2 DEF Disconnect, TypeOK
<1>15. CASE UNCHANGED contractVars
  BY <1>15 DEF contractVars, streamVars, TypeOK
<1>. QED
  BY <1>1, <1>2, <1>3, <1>6, <1>7, <1>8, <1>9, <1>10, <1>11, <1>12, <1>13, <1>14, <1>15
  DEF Next, Forwarding, OtherStep

\* The state and the messages of tasks and connection keep their types,
\* whatever frames the client sends and in whatever order.
THEOREM TypeCorrect == Spec => []TypeOK
<1>1. Init => TypeOK BY TypeOKInit
<1>2. TypeOK /\ [Next]_contractVars => TypeOK' BY TypeOKStep
<1>. QED BY <1>1, <1>2, PTL DEF Spec
-----------------------------------------------------------------------------
(* What sending and receiving does to the messages under way *)

LEMMA SentToConnection ==
  ASSUME TypeOK, NEW m \in ToConnection, toConn' = Append(toConn, m), NEW type, NEW s
  PROVE  Requests(type, s)' = Requests(type, s) \cup
           (IF m.type = type /\ m.sid = s THEN {Len(toConn) + 1} ELSE {})
BY DEF Requests, TypeOK

LEMMA TakenByConnection ==
  ASSUME TypeOK, toConn # <<>>, toConn' = Tail(toConn), NEW type, NEW s
  PROVE  /\ \A i \in Requests(type, s)' : i + 1 \in Requests(type, s)
         /\ Head(toConn).type = type /\ Head(toConn).sid = s => 1 \in Requests(type, s)
         /\ Requests(type, s)' \subseteq Nat /\ 0 \notin Requests(type, s)'
<1>. toConn \in Seq(ToConnection) BY DEF TypeOK
<1>1. /\ Len(toConn') = Len(toConn) - 1 /\ Len(toConn) \in Nat /\ Len(toConn) >= 1
      /\ \A i \in 1..Len(toConn') : toConn'[i] = toConn[i + 1]
      /\ Head(toConn) = toConn[1]
  OBVIOUS
<1>. QED BY <1>1 DEF Requests

LEMMA PutInInbox ==
  ASSUME TypeOK, NEW s \in Streams, NEW m \in ToStream,
         inbox'[s] = Append(inbox[s], m), NEW type
  PROVE  Replies(type, s)' = Replies(type, s) \cup
           (IF m.type = type THEN {Len(inbox[s]) + 1} ELSE {})
<1>1. inbox[s] \in Seq(ToStream) BY DEF TypeOK
<1>2. /\ Len(inbox'[s]) = Len(inbox[s]) + 1 /\ inbox'[s][Len(inbox[s]) + 1] = m
      /\ \A i \in 1..Len(inbox[s]) : inbox'[s][i] = inbox[s][i]
      /\ Len(inbox[s]) \in Nat
  BY <1>1
<1>. QED BY <1>2 DEF Replies

LEMMA TakenFromInbox ==
  ASSUME TypeOK, NEW s \in Streams, inbox[s] # <<>>, inbox'[s] = Tail(inbox[s]), NEW type
  PROVE  /\ \A i \in Replies(type, s)' : i + 1 \in Replies(type, s)
         /\ Head(inbox[s]).type = type => 1 \in Replies(type, s)
         /\ Replies(type, s)' \subseteq Nat /\ 0 \notin Replies(type, s)'
<1>. inbox[s] \in Seq(ToStream) BY DEF TypeOK
<1>1. /\ Len(inbox'[s]) = Len(inbox[s]) - 1 /\ Len(inbox[s]) \in Nat /\ Len(inbox[s]) >= 1
      /\ \A i \in 1..Len(inbox'[s]) : inbox'[s][i] = inbox[s][i + 1]
      /\ Head(inbox[s]) = inbox[s][1]
  OBVIOUS
<1>. QED BY <1>1 DEF Replies
-----------------------------------------------------------------------------
(* The transforms of a task keep it coherent *)

LEMMA CoherentNew ==
  ASSUME NEW s, NEW phase
  PROVE  Coherent(s, NewTask(phase))
BY DEF Coherent, NewTask

\* A frame that passes validation leads to no state in which the server has
\* closed its side, and to a closed client side once END_STREAM has been seen.
LEMMA NextState ==
  ASSUME NEW t \in Task, NEW f \in Frame,
         t.state \in {"Idle", "Open", "HalfClosedRemote", "Closed"},
         t.requestEnd => t.state \in {"HalfClosedRemote", "Closed"},
         ValidateFromClient(t.state, t.hdr, t.trl, f) = NoError
  PROVE  /\ NextFromClient(t.state, f) \in {"Idle", "Open", "HalfClosedRemote", "Closed"}
         /\ t.requestEnd \/ HasEndStream(f) =>
              NextFromClient(t.state, f) \in {"HalfClosedRemote", "Closed"}
<1>1. /\ ConnectionError("PROTOCOL_ERROR") # NoError
      /\ StreamError(f.sid, "STREAM_CLOSED") # NoError
  BY DEF ConnectionError, StreamError, NoError
<1>2. ~(t.state = "Idle" /\ f.kind \in RefusedInIdle)
  BY <1>1 DEF ValidateFromClient, Check, ??
<1>. QED BY <1>2 DEF NextFromClient, HasEndStream, RefusedInIdle, ActiveStates

LEMMA CoherentFrame ==
  ASSUME NEW s \in Streams, NEW t \in Task, NEW f \in Frame,
         Coherent(s, t), t.out = <<>>, t.phase = "running"
  PROVE  LET u == HandleFrame(s, t, f) IN
         /\ Coherent(s, u) /\ u.phase = "running" /\ u.dispatched = t.dispatched
         /\ t.hdr = "Waiting" => u.hdr = "Waiting"
         /\ Head(u.out).type \in {"Error", "ActiveStreamCount"}
<1>. DEFINE u == HandleFrame(s, t, f)
            a == Accepted(t, f)
            valid == ValidateFromClient(t.state, t.hdr, t.trl, f) = NoError
<1>1. FrameVerdict(s, t, f).sid = s /\ FrameVerdict(s, t, f).type \in {"Error", "ActiveStreamCount"}
  BY DEF FrameVerdict, ErrorMessage, CountMessage
<1>2. u.out = <<FrameVerdict(s, t, f)>> BY AcceptedType DEF HandleFrame, Task
<1>3. /\ a.state = NextFromClient(t.state, f)
      /\ a.requestEnd = (t.requestEnd \/ HasEndStream(f))
      /\ a.hdr = IF CarriesHeaders(f) /\ ~ToTrailers(t) THEN Progress(f) ELSE t.hdr
      /\ a.trl = IF CarriesHeaders(f) /\ ToTrailers(t) THEN Progress(f) ELSE t.trl
      /\ a.dispatched = t.dispatched /\ a.pending = t.pending
      /\ a.announced = t.announced /\ a.phase = t.phase
  BY DEF Accepted, Task
<1>4. /\ u.state = IF valid THEN a.state ELSE t.state
      /\ u.requestEnd = IF valid THEN a.requestEnd ELSE t.requestEnd
      /\ u.hdr = IF valid THEN a.hdr ELSE t.hdr
      /\ u.trl = IF valid THEN a.trl ELSE t.trl
      /\ u.dispatched = t.dispatched /\ u.pending = t.pending
      /\ u.announced = t.announced /\ u.phase = t.phase
  BY <1>3, AcceptedType DEF HandleFrame, Task
<1>5. /\ u.state \in {"Idle", "Open", "HalfClosedRemote", "Closed"}
      /\ u.requestEnd => u.state \in {"HalfClosedRemote", "Closed"}
      /\ t.requestEnd => u.requestEnd
  BY <1>3, <1>4, NextState DEF Coherent
<1>6. Progress(f) \in {"Ready", "KeepGoing"} BY DEF Progress
<1>7. u.hdr = "Completed" => u.announced \/ u.trl = "Completed"
  <2>1. SUFFICES ASSUME valid, u.hdr = "Completed", ~t.announced PROVE u.trl = "Completed"
    BY <1>4 DEF Coherent
  <2>2. t.hdr = "Completed" /\ t.trl = "Completed" BY <1>3, <1>4, <1>6, <2>1 DEF Coherent
  <2>3. ~CarriesHeaders(f)
    <3>1. ConnectionError("PROTOCOL_ERROR") # NoError BY DEF ConnectionError, NoError
    <3>. QED BY <2>1, <2>2, <3>1
      DEF ValidateFromClient, Check, ??, ContinuationMisplaced, HeadersMisplaced, CarriesHeaders
  <2>. QED BY <1>3, <1>4, <2>1, <2>2, <2>3
<1>8. t.hdr = "Waiting" => u.hdr = "Waiting" BY <1>3, <1>4 DEF ToTrailers
<1>. QED BY <1>1, <1>2, <1>4, <1>5, <1>7, <1>8 DEF Coherent

LEMMA CoherentReplies ==
  ASSUME NEW s \in Streams, NEW t \in Task, Coherent(s, t), t.out = <<>>, t.phase = "running"
  PROVE  /\ \A size \in Nat : LET u == HandleResponse(s, t, size) IN
              /\ t.dispatched => Coherent(s, u)
              /\ u.phase = "running" /\ u.dispatched = t.dispatched /\ u.hdr = t.hdr
              /\ Head(u.out).type = "DoResponseToClient"
         /\ \A trailer \in BOOLEAN : LET u == HandleDecodedHeaders(s, t, trailer) IN
              /\ Coherent(s, u) /\ u.phase = "running" /\ u.dispatched = t.dispatched
              /\ u.out # <<>> => Head(u.out).type = "Error"
         /\ LET u == HandleDecodedTrailers(t) IN
              /\ Coherent(s, u) /\ u.out = <<>> /\ u.phase \in {"running", "panicked"}
              /\ u.phase = "running" => u.dispatched = t.dispatched /\ u.hdr = t.hdr
<1>1. ASSUME NEW size \in Nat
      PROVE  LET u == HandleResponse(s, t, size) IN
              /\ t.dispatched => Coherent(s, u)
              /\ u.phase = "running" /\ u.dispatched = t.dispatched /\ u.hdr = t.hdr
              /\ Head(u.out).type = "DoResponseToClient"
  BY DEF HandleResponse, ResponseMessage, Coherent, Task
<1>2. ASSUME NEW trailer \in BOOLEAN
      PROVE  LET u == HandleDecodedHeaders(s, t, trailer) IN
              /\ Coherent(s, u) /\ u.phase = "running" /\ u.dispatched = t.dispatched
              /\ u.out # <<>> => Head(u.out).type = "Error"
  BY DEF HandleDecodedHeaders, ErrorMessage, Coherent, Task
<1>3. LET u == HandleDecodedTrailers(t) IN
        /\ Coherent(s, u) /\ u.out = <<>> /\ u.phase \in {"running", "panicked"}
        /\ u.phase = "running" => u.dispatched = t.dispatched /\ u.hdr = t.hdr
  BY CoherentNew DEF HandleDecodedTrailers, NewTask, Coherent, Task
<1>. QED BY <1>1, <1>2, <1>3
LEMMA CoherentTop ==
  ASSUME NEW s \in Streams, NEW t \in Task, Coherent(s, t), t.out = <<>>, t.phase = "running"
  PROVE  /\ LET u == AskForHeaders(s, t) IN
              /\ Coherent(s, u) /\ u.phase = "running" /\ u.dispatched = t.dispatched
              /\ u.hdr = "Waiting" /\ Head(u.out).type = "DecodingHeadersRequest"
         /\ LET u == AskForTrailers(s, t) IN
              /\ Coherent(s, u) /\ u.phase \in {"running", "panicked"}
              /\ u.phase = "running" => u.dispatched = t.dispatched /\ u.hdr = t.hdr
              /\ u.out # <<>> => Head(u.out).type = "DecodingTrailersRequest"
         /\ NeedsDispatch(t) => LET u == HandOver(s, t) IN
              /\ Coherent(s, u) /\ u.phase = "running" /\ u.dispatched /\ u.hdr = t.hdr
              /\ Head(u.out).type = "RequestContextForDispatch"
         /\ NeedsFlush(t) => LET u == Flush(s, t) IN
              /\ Coherent(s, u) /\ u.phase \in {"running", "ended"}
              /\ u.phase = "running" => u.dispatched = t.dispatched /\ u.hdr = t.hdr
              /\ u.out # <<>> => Head(u.out).type = "DoResponseToClient"
<1>1. LET u == AskForHeaders(s, t) IN
        /\ Coherent(s, u) /\ u.phase = "running" /\ u.dispatched = t.dispatched
        /\ u.hdr = "Waiting" /\ Head(u.out).type = "DecodingHeadersRequest"
  BY DEF AskForHeaders, DecodeRequest, Coherent, Task
<1>2. LET u == AskForTrailers(s, t) IN
        /\ Coherent(s, u) /\ u.phase \in {"running", "panicked"}
        /\ u.phase = "running" => u.dispatched = t.dispatched /\ u.hdr = t.hdr
        /\ u.out # <<>> => Head(u.out).type = "DecodingTrailersRequest"
  <2>1. CASE t.announced
    BY <2>1 DEF AskForTrailers, DecodeRequest, Coherent, Task
  <2>2. CASE ~t.announced
    <3>1. AskForTrailers(s, t) = NewTask("panicked") BY <2>2 DEF AskForTrailers
    <3>. QED BY <3>1, CoherentNew DEF NewTask
  <2>. QED BY <2>1, <2>2
<1>3. ASSUME NeedsDispatch(t)
      PROVE  LET u == HandOver(s, t) IN
              /\ Coherent(s, u) /\ u.phase = "running" /\ u.dispatched /\ u.hdr = t.hdr
              /\ Head(u.out).type = "RequestContextForDispatch"
  BY <1>3 DEF NeedsDispatch, HandOver, DispatchMessage, Coherent, Task
<1>4. ASSUME NeedsFlush(t)
      PROVE  LET u == Flush(s, t) IN
              /\ Coherent(s, u) /\ u.phase \in {"running", "ended"}
              /\ u.phase = "running" => u.dispatched = t.dispatched /\ u.hdr = t.hdr
              /\ u.out # <<>> => Head(u.out).type = "DoResponseToClient"
  <2>. DEFINE frame == Head(t.pending)
  <2>1. t.requestEnd /\ t.dispatched /\ t.state \in {"HalfClosedRemote", "Closed"}
    BY <1>4 DEF NeedsFlush, Coherent
  <2>2. NextFromMe(t.state, frame) \in {"HalfClosedRemote", "Closed"}
    BY <2>1 DEF NextFromMe, ActiveStates
  <2>3. MaySend(t.state, frame) BY <2>1 DEF MaySend
  <2>. DEFINE u == Flush(s, t)
  <2>4. /\ u.state = NextFromMe(t.state, frame) /\ u.out = <<ResponseMessage(s, <<frame>>)>>
        /\ u.hdr = t.hdr /\ u.trl = t.trl /\ u.announced = t.announced /\ u.phase = t.phase
        /\ u.requestEnd = t.requestEnd /\ u.dispatched = t.dispatched
    BY <2>3 DEF Flush, Task
  <2>5. /\ Head(u.out).sid = s /\ Head(u.out).type = "DoResponseToClient"
        /\ Len(u.out) = 1
    BY <2>4 DEF ResponseMessage
  <2>. HIDE DEF u, frame
  <2>. QED BY <2>1, <2>2, <2>4, <2>5 DEF Coherent, u
<1>. QED BY <1>1, <1>2, <1>3, <1>4

-----------------------------------------------------------------------------
(* Each step keeps every stream's part of the invariant *)

\* A stream that a step does not touch.
LEMMA Untouched ==
  ASSUME NEW s \in Streams, StreamInv(s),
         task'[s] = task[s], inbox'[s] = inbox[s], blocked' = blocked,
         s \in owed' <=> s \in owed,
         \A type \in {"DecodingHeadersRequest", "RequestContextForDispatch"} :
           Requests(type, s)' = Requests(type, s)
  PROVE  StreamInv(s)'
BY DEF StreamInv, HeadersAwaited, ResponseAwaited, OneDispatch, OneAtATime, UnderWay,
       Asking, Held, Replies, Live, Running

\* A task that comes to its end.
LEMMA Over ==
  ASSUME NEW s \in Streams, NEW u \in Task, NEW rest, StreamInv(s), TypeOK,
         u.phase \in {"ended", "panicked"}, Coherent(s, u),
         Become(s, u, rest), UNCHANGED <<toConn, blocked, owed>>
  PROVE  StreamInv(s)'
<1>1. task'[s] = u /\ inbox'[s] = <<>> BY DEF Become, TypeOK
<1>2. task'[s].phase = u.phase /\ task'[s].out = <<>> BY <1>1 DEF Coherent
<1>3. \A type : Requests(type, s)' = Requests(type, s) /\ Held(type, s)' = Held(type, s)
                /\ Replies(type, s)' = {} /\ ~Asking(type, s)'
  BY <1>1, <1>2 DEF Requests, Held, Replies, Asking
<1>4. Coherent(s, task[s])' BY <1>1
<1>. QED BY <1>1, <1>2, <1>3, <1>4
  DEF StreamInv, HeadersAwaited, ResponseAwaited, OneDispatch, OneAtATime, UnderWay, Live, Running

\* A task that has a new message to send.
LEMMA NewMessage ==
  ASSUME NEW s \in Streams, NEW u \in Task, StreamInv(s), TypeOK, AtTop(s),
         Become(s, u, inbox[s]), UNCHANGED <<toConn, blocked, owed>>,
         Coherent(s, u), u.phase = "running", u.out # <<>>,
         IF Head(u.out).type = "DecodingHeadersRequest"
         THEN task[s].hdr # "Waiting" /\ u.hdr = "Waiting" ELSE u.hdr = task[s].hdr,
         IF Head(u.out).type = "RequestContextForDispatch"
         THEN ~task[s].dispatched /\ u.dispatched ELSE u.dispatched = task[s].dispatched
  PROVE  StreamInv(s)'
<1>1. task'[s] = u /\ inbox'[s] = inbox[s] BY DEF Become, TypeOK
<1>2. \A type : Requests(type, s)' = Requests(type, s) /\ Held(type, s)' = Held(type, s)
                /\ Replies(type, s)' = Replies(type, s) /\ ~Asking(type, s)
                /\ Asking(type, s)' = (Head(u.out).type = type)
  BY <1>1 DEF Requests, Held, Replies, Asking, AtTop
<1>3. Coherent(s, task[s])' /\ Live(s) /\ Running(s)' BY <1>1 DEF AtTop, Running, Live
<1>4. HeadersAwaited(s)' /\ OneAtATime("DecodingHeadersRequest", "DecodingHeadersResponse", s)'
  <2>1. CASE Head(u.out).type = "DecodingHeadersRequest"
    <3>1. ~UnderWay("DecodingHeadersRequest", "DecodingHeadersResponse", s)
      BY <1>3, <2>1 DEF StreamInv, HeadersAwaited
    <3>2. OneAtATime("DecodingHeadersRequest", "DecodingHeadersResponse", s)'
      BY <1>2, <3>1 DEF OneAtATime, UnderWay
    <3>3. task'[s].hdr = "Waiting" BY <1>1, <2>1
    <3>. QED BY <3>2, <3>3 DEF HeadersAwaited
  <2>2. CASE Head(u.out).type # "DecodingHeadersRequest"
    <3>1. task'[s].hdr = task[s].hdr BY <1>1, <2>2
    <3>2. UnderWay("DecodingHeadersRequest", "DecodingHeadersResponse", s)'
            => UnderWay("DecodingHeadersRequest", "DecodingHeadersResponse", s)
      BY <1>2, <2>2 DEF UnderWay
    <3>3. OneAtATime("DecodingHeadersRequest", "DecodingHeadersResponse", s)'
      <4>1. /\ ~Asking("DecodingHeadersRequest", s)'
            /\ Requests("DecodingHeadersRequest", s)' = Requests("DecodingHeadersRequest", s)
            /\ Held("DecodingHeadersResponse", s)' <=> Held("DecodingHeadersResponse", s)
            /\ Replies("DecodingHeadersResponse", s)' = Replies("DecodingHeadersResponse", s)
        BY <1>2, <2>2
      <4>. QED BY <4>1 DEF StreamInv, OneAtATime
    <3>. QED BY <1>3, <3>1, <3>2, <3>3 DEF StreamInv, HeadersAwaited
  <2>. QED BY <2>1, <2>2
<1>5. ResponseAwaited(s)' /\ OneDispatch(s)'
  BY <1>1, <1>2, <1>3, ZenonT(40) DEF StreamInv, ResponseAwaited, OneDispatch, OneAtATime, UnderWay
<1>. QED BY <1>1, <1>3, <1>4, <1>5 DEF StreamInv

LEMMA TopKeeps ==
  ASSUME NEW s \in Streams, StreamInv(s), TypeOK, UNCHANGED <<blocked, owed>>,
         \/ CompositeHeaders(s) \/ CompositeTrailers(s)
         \/ DispatchIfNeeded(s) \/ RespondIfPossible(s)
  PROVE  StreamInv(s)'
<1>. DEFINE t == task[s]
<1>. t \in Task BY DEF TypeOK
<1>1. AtTop(s) /\ t.phase = "running" /\ t.out = <<>> /\ Coherent(s, t) /\ toConn' = toConn
  BY DEF CompositeHeaders, CompositeTrailers, DispatchIfNeeded, RespondIfPossible, TopOfLoop,
         AtTop, Running, StreamInv
<1>2. CASE CompositeHeaders(s)
  <2>. DEFINE u == AskForHeaders(s, t)
  <2>1. NeedsHeaders(t) /\ Become(s, u, inbox[s]) BY <1>2 DEF CompositeHeaders, TopOfLoop
  <2>2. u \in Task BY TopOfLoopTypes
  <2>3. u.out # <<>> BY DEF AskForHeaders, Task
  <2>4. /\ Coherent(s, u) /\ u.phase = "running" /\ u.dispatched = t.dispatched
        /\ u.hdr = "Waiting" /\ Head(u.out).type = "DecodingHeadersRequest"
    BY <1>1, CoherentTop
  <2>. HIDE DEF u
  <2>. QED BY <1>1, <2>1, <2>2, <2>3, <2>4, NewMessage DEF NeedsHeaders
<1>3. CASE CompositeTrailers(s)
  <2>. DEFINE u == AskForTrailers(s, t)
  <2>1. NeedsTrailers(t) /\ Become(s, u, inbox[s]) BY <1>3 DEF CompositeTrailers, TopOfLoop
  <2>2. u \in Task BY TopOfLoopTypes
  <2>3. u.phase = "running" => u.out # <<>> BY DEF AskForTrailers, NewTask, Task
  <2>4. /\ Coherent(s, u) /\ u.phase \in {"running", "panicked"}
        /\ u.phase = "running" => u.dispatched = t.dispatched /\ u.hdr = t.hdr
        /\ u.out # <<>> => Head(u.out).type = "DecodingTrailersRequest"
    BY <1>1, CoherentTop
  <2>. HIDE DEF u
  <2>. QED BY <1>1, <2>1, <2>2, <2>3, <2>4, NewMessage, Over
<1>4. CASE DispatchIfNeeded(s)
  <2>. DEFINE u == HandOver(s, t)
  <2>1. NeedsDispatch(t) /\ Become(s, u, inbox[s]) BY <1>4 DEF DispatchIfNeeded, TopOfLoop
  <2>2. u \in Task BY TopOfLoopTypes
  <2>3. u.out # <<>> BY DEF HandOver, Task
  <2>4. /\ Coherent(s, u) /\ u.phase = "running" /\ u.dispatched /\ u.hdr = t.hdr
        /\ Head(u.out).type = "RequestContextForDispatch"
    BY <1>1, <2>1, CoherentTop
  <2>. HIDE DEF u
  <2>. QED BY <1>1, <2>1, <2>2, <2>3, <2>4, NewMessage DEF NeedsDispatch
<1>5. CASE RespondIfPossible(s)
  <2>. DEFINE u == Flush(s, t)
  <2>1. NeedsFlush(t) /\ Become(s, u, inbox[s]) BY <1>5 DEF RespondIfPossible, TopOfLoop
  <2>2. u \in Task BY <2>1, TopOfLoopTypes DEF NeedsFlush
  <2>3. u.phase = "running" => u.out # <<>> BY DEF Flush, NewTask, Task
  <2>4. /\ Coherent(s, u) /\ u.phase \in {"running", "ended"}
        /\ u.phase = "running" => u.dispatched = t.dispatched /\ u.hdr = t.hdr
        /\ u.out # <<>> => Head(u.out).type = "DoResponseToClient"
    BY <1>1, <2>1, CoherentTop
  <2>. HIDE DEF u
  <2>. QED BY <1>1, <2>1, <2>2, <2>3, <2>4, NewMessage, Over
<1>. QED BY <1>2, <1>3, <1>4, <1>5
\* A task that has handled a message m and now is u.
LEMMA Received ==
  ASSUME NEW s \in Streams, NEW u \in Task, StreamInv(s), TypeOK, AtTop(s), inbox[s] # <<>>,
         Become(s, u, Tail(inbox[s])), UNCHANGED <<toConn, blocked, owed>>,
         Coherent(s, u), u.phase = "running", u.dispatched = task[s].dispatched,
         u.out # <<>> => Head(u.out).type \notin {"DecodingHeadersRequest", "RequestContextForDispatch"},
         Head(inbox[s]).type # "DecodingHeadersResponse" /\ task[s].hdr = "Waiting"
           => u.hdr = "Waiting"
  PROVE  StreamInv(s)'
<1>. DEFINE HReq == "DecodingHeadersRequest"
            HRep == "DecodingHeadersResponse"
            DReq == "RequestContextForDispatch"
            DRep == "ResponseObject"
<1>1. task'[s] = u /\ inbox'[s] = Tail(inbox[s]) BY DEF Become, TypeOK
<1>2. /\ ~Asking(HReq, s)' /\ ~Asking(DReq, s)'
      /\ Requests(HReq, s)' = Requests(HReq, s) /\ Requests(DReq, s)' = Requests(DReq, s)
      /\ Held(HRep, s)' <=> Held(HRep, s)
      /\ Held(DRep, s)' <=> Held(DRep, s)
  BY <1>1 DEF Requests, Held, Asking
<1>3. Coherent(s, task[s])' /\ Live(s) /\ Running(s)' BY <1>1 DEF AtTop, Running, Live
<1>4. \A type : /\ \A i \in Replies(type, s)' : i + 1 \in Replies(type, s)
                /\ Head(inbox[s]).type = type => 1 \in Replies(type, s)
                /\ Replies(type, s)' \subseteq Nat /\ 0 \notin Replies(type, s)'
  BY <1>1, TakenFromInbox
<1>5. /\ Replies(HRep, s) = {} => Replies(HRep, s)' = {}
      /\ Replies(DRep, s) = {} => Replies(DRep, s)' = {}
      /\ Replies(HRep, s)' # {} => Replies(HRep, s) # {}
      /\ Replies(DRep, s)' # {} => Replies(DRep, s) # {}
  BY <1>4
<1>6. OneAtATime(HReq, HRep, s)'
  <2>1. \A i, j \in Replies(HRep, s)' : i = j
    <3>1. \A i, j \in Replies(HRep, s) : i = j BY DEF StreamInv, OneAtATime
    <3>. QED BY <1>4, <3>1
  <2>. QED BY <1>2, <1>5, <2>1 DEF StreamInv, OneAtATime
<1>7. OneAtATime(DReq, DRep, s)'
  <2>1. \A i, j \in Replies(DRep, s)' : i = j
    <3>1. \A i, j \in Replies(DRep, s) : i = j BY DEF StreamInv, OneDispatch, OneAtATime
    <3>. QED BY <1>4, <3>1
  <2>. QED BY <1>2, <1>5, <2>1 DEF StreamInv, OneDispatch, OneAtATime
<1>8. UnderWay(DReq, DRep, s)' => UnderWay(DReq, DRep, s)
  BY <1>2, <1>5 DEF UnderWay
<1>9. ResponseAwaited(s)' /\ OneDispatch(s)'
  BY <1>1, <1>3, <1>7, <1>8 DEF StreamInv, ResponseAwaited, OneDispatch
<1>10. HeadersAwaited(s)'
  <2>1. CASE Head(inbox[s]).type = HRep
    <3>1. 1 \in Replies(HRep, s) BY <1>4, <2>1
    <3>2. Replies(HRep, s)' = {}
      <4>1. \A i, j \in Replies(HRep, s) : i = j BY DEF StreamInv, OneAtATime
      <4>. QED BY <1>4, <3>1, <4>1
    <3>3. Requests(HReq, s) = {} /\ ~Held(HRep, s) BY <3>1 DEF StreamInv, OneAtATime
    <3>4. ~UnderWay(HReq, HRep, s)' BY <1>2, <3>2, <3>3 DEF UnderWay
    <3>. QED BY <3>4 DEF HeadersAwaited
  <2>2. CASE Head(inbox[s]).type # HRep
    <3>1. UnderWay(HReq, HRep, s)' => UnderWay(HReq, HRep, s) BY <1>2, <1>5 DEF UnderWay
    <3>. QED BY <1>1, <1>3, <2>2, <3>1 DEF StreamInv, HeadersAwaited
  <2>. QED BY <2>1, <2>2
<1>. QED BY <1>3, <1>6, <1>9, <1>10 DEF StreamInv

LEMMA ReceiveKeeps ==
  ASSUME NEW s \in Streams, StreamInv(s), TypeOK, UNCHANGED <<blocked, owed>>,
         NEW type, Receive(s, type)
  PROVE  StreamInv(s)'
<1>. DEFINE t == task[s]
            m == Head(inbox[s])
            u == Handle(s, t, m)
<1>1. /\ t \in Task /\ m \in ToStream /\ inbox[s] # <<>> /\ AtTop(s) /\ toConn' = toConn
      /\ Become(s, u, Tail(inbox[s]))
  BY DEF TypeOK, Receive, Idle
<1>2. t.phase = "running" /\ t.out = <<>> /\ Coherent(s, t)
  BY <1>1 DEF AtTop, Running, StreamInv
<1>3. u \in Task BY <1>1, HandleType
<1>4. CASE m.type = "FrameForRequest"
  <2>1. u = HandleFrame(s, t, m.frame) /\ m.frame \in Frame BY <1>1, <1>4 DEF Handle, ToStream
  <2>2. /\ Coherent(s, u) /\ u.phase = "running" /\ u.dispatched = t.dispatched
        /\ t.hdr = "Waiting" => u.hdr = "Waiting"
        /\ Head(u.out).type \in {"Error", "ActiveStreamCount"}
    BY <1>1, <1>2, <2>1, CoherentFrame
  <2>. QED BY <1>1, <1>3, <2>2, Received
<1>5. CASE m.type = "ResponseObject"
  <2>1. u = HandleResponse(s, t, m.size) /\ m.size \in Nat BY <1>1, <1>5 DEF Handle, ToStream
  <2>2. t.dispatched
    <3>1. 1 \in Replies("ResponseObject", s) BY <1>1, <1>5 DEF Replies, TypeOK
    <3>2. UnderWay("RequestContextForDispatch", "ResponseObject", s) BY <3>1 DEF UnderWay
    <3>. QED BY <1>2, <3>2 DEF StreamInv, ResponseAwaited, Live
  <2>3. /\ Coherent(s, u) /\ u.phase = "running" /\ u.dispatched = t.dispatched
        /\ u.hdr = t.hdr /\ Head(u.out).type = "DoResponseToClient"
    <3>. HIDE DEF t, u
    <3>1. \A size \in Nat : LET v == HandleResponse(s, t, size) IN
              /\ t.dispatched => Coherent(s, v)
              /\ v.phase = "running" /\ v.dispatched = t.dispatched /\ v.hdr = t.hdr
              /\ Head(v.out).type = "DoResponseToClient"
      BY <1>1, <1>2, CoherentReplies
    <3>. QED BY <2>1, <2>2, <3>1
  <2>. QED BY <1>1, <1>3, <2>3, Received
<1>6. CASE m.type = "DecodingHeadersResponse"
  <2>1. u = HandleDecodedHeaders(s, t, m.trailer) /\ m.trailer \in BOOLEAN
    BY <1>1, <1>6 DEF Handle, ToStream
  <2>2. /\ Coherent(s, u) /\ u.phase = "running" /\ u.dispatched = t.dispatched
        /\ u.out # <<>> => Head(u.out).type = "Error"
    BY <1>1, <1>2, <2>1, CoherentReplies
  <2>. QED BY <1>1, <1>3, <1>6, <2>2, Received
<1>7. CASE m.type = "DecodingTrailersResponse"
  <2>1. u = HandleDecodedTrailers(t) BY <1>7 DEF Handle
  <2>2. /\ Coherent(s, u) /\ u.out = <<>> /\ u.phase \in {"running", "panicked"}
        /\ u.phase = "running" => u.dispatched = t.dispatched /\ u.hdr = t.hdr
    BY <1>1, <1>2, <2>1, CoherentReplies
  <2>. QED BY <1>1, <1>3, <2>2, Received, Over
<1>. QED BY <1>1, <1>4, <1>5, <1>6, <1>7 DEF ToStream

LEMMA SendKeeps ==
  ASSUME NEW s \in Streams, StreamInv(s), TypeOK, UNCHANGED <<blocked, owed>>, Send(s)
  PROVE  StreamInv(s)'
<1>. DEFINE HReq == "DecodingHeadersRequest"
            HRep == "DecodingHeadersResponse"
            DReq == "RequestContextForDispatch"
            DRep == "ResponseObject"
            m == Head(task[s].out)
<1>1. /\ task[s] \in Task /\ task[s].out # <<>> /\ toConn' = Append(toConn, m)
      /\ task' = [task EXCEPT ![s].out = Tail(task[s].out)] /\ inbox' = inbox
      /\ Running(s) /\ Coherent(s, task[s])
  BY DEF Send, TypeOK, StreamInv
<1>2. m \in ToConnection /\ m.sid = s /\ Tail(task[s].out) = <<>>
  <2>1. /\ task[s].out \in Seq(ToConnection) /\ Len(task[s].out) <= 1
        /\ Head(task[s].out).sid = s
    BY <1>1 DEF Task, Coherent
  <2>. QED BY <1>1, <2>1, Single
<1>3. task'[s] = [task[s] EXCEPT !.out = <<>>] BY <1>1, <1>2 DEF TypeOK
<1>4. /\ Coherent(s, task[s])' /\ Running(s)' /\ Live(s)
      /\ task'[s].hdr = task[s].hdr /\ task'[s].dispatched = task[s].dispatched
      /\ task'[s].out = <<>>
  <2>1. /\ task'[s].phase = task[s].phase /\ task'[s].state = task[s].state
        /\ task'[s].requestEnd = task[s].requestEnd /\ task'[s].hdr = task[s].hdr
        /\ task'[s].trl = task[s].trl /\ task'[s].announced = task[s].announced
        /\ task'[s].dispatched = task[s].dispatched
        /\ task'[s].pending = task[s].pending /\ task'[s].out = <<>>
    BY <1>1, <1>3 DEF Task
  <2>2. Coherent(s, task[s])'
    BY <1>1, <2>1 DEF Coherent, Running
  <2>. QED BY <1>1, <2>1, <2>2 DEF Running, Live
<1>5. \A type : Requests(type, s)' = Requests(type, s) \cup
                  (IF m.type = type THEN {Len(toConn) + 1} ELSE {})
  BY <1>1, <1>2, SentToConnection
<1>6. \A type : /\ ~Asking(type, s)' /\ (m.type = type <=> Asking(type, s))
                /\ Replies(type, s)' = Replies(type, s)
                /\ Held(type, s)' <=> Held(type, s)
  BY <1>1, <1>4 DEF Asking, Replies, Held
<1>7. \A request, reply :
        /\ UnderWay(request, reply, s)' => UnderWay(request, reply, s)
        /\ OneAtATime(request, reply, s) => OneAtATime(request, reply, s)'
  <2>. SUFFICES ASSUME NEW request, NEW reply
                PROVE  /\ UnderWay(request, reply, s)' => UnderWay(request, reply, s)
                       /\ OneAtATime(request, reply, s) => OneAtATime(request, reply, s)'
    OBVIOUS
  <2>1. CASE m.type = request
    <3>1. /\ Asking(request, s) /\ ~Asking(request, s)'
          /\ Requests(request, s)' = Requests(request, s) \cup {Len(toConn) + 1}
          /\ Replies(reply, s)' = Replies(reply, s) /\ (Held(reply, s)' <=> Held(reply, s))
      BY <1>5, <1>6, <2>1
    <3>. QED BY <3>1 DEF UnderWay, OneAtATime
  <2>2. CASE m.type # request
    <3>1. /\ ~Asking(request, s) /\ ~Asking(request, s)'
          /\ Requests(request, s)' = Requests(request, s)
          /\ Replies(reply, s)' = Replies(reply, s) /\ (Held(reply, s)' <=> Held(reply, s))
      BY <1>5, <1>6, <2>2
    <3>. QED BY <3>1 DEF UnderWay, OneAtATime
  <2>. QED BY <2>1, <2>2
<1>8. HeadersAwaited(s)' BY <1>4, <1>7 DEF StreamInv, HeadersAwaited
<1>9. ResponseAwaited(s)' /\ OneDispatch(s)'
  BY <1>4, <1>7 DEF StreamInv, ResponseAwaited, OneDispatch
<1>. QED BY <1>4, <1>7, <1>8, <1>9 DEF StreamInv
LEMMA TaskStepKeeps ==
  ASSUME TypeOK, TasksInStep, NEW d \in Streams, TaskStep(d)
  PROVE  TasksInStep'
<1>. SUFFICES ASSUME NEW s \in Streams PROVE StreamInv(s)' BY DEF TasksInStep
<1>1. StreamInv(s) /\ StreamInv(d) /\ StreamStep(d) /\ UNCHANGED <<blocked, owed>>
  BY DEF TasksInStep, TaskStep
<1>2. CASE s = d
  <2>1. CASE \/ CompositeHeaders(s) \/ CompositeTrailers(s)
             \/ DispatchIfNeeded(s) \/ RespondIfPossible(s)
    BY <1>1, <2>1, TopKeeps
  <2>2. CASE \/ ReceiveFrame(s) \/ ReceiveResponse(s) \/ ReceiveHeaders(s) \/ ReceiveTrailers(s)
    BY <1>1, <2>2, ReceiveKeeps DEF ReceiveFrame, ReceiveResponse, ReceiveHeaders, ReceiveTrailers
  <2>3. CASE Terminate(s) \/ SendFails(s)
    <3>1. NewTask("ended") \in Task /\ Coherent(s, NewTask("ended"))
          /\ NewTask("ended").phase = "ended"
      BY NewTaskType, CoherentNew DEF NewTask
    <3>2. Become(s, NewTask("ended"), <<>>) /\ toConn' = toConn
      BY <2>3 DEF Terminate, SendFails
    <3>. QED BY <1>1, <3>1, <3>2, Over
  <2>4. CASE Send(s)
    BY <1>1, <2>4, SendKeeps
  <2>. QED BY <1>1, <1>2, <2>1, <2>2, <2>3, <2>4 DEF StreamStep
<1>3. CASE s # d
  <2>1. ASSUME NEW u, NEW rest, Become(d, u, rest)
        PROVE  task'[s] = task[s] /\ inbox'[s] = inbox[s]
    BY <1>3, <2>1 DEF Become, TypeOK
  <2>2. CASE Send(d)
    <3>1. task'[s] = task[s] /\ inbox'[s] = inbox[s] BY <1>3, <2>2 DEF Send, TypeOK
    <3>2. /\ task[d] \in Task /\ task[d].out # <<>> /\ Coherent(d, task[d])
          /\ toConn' = Append(toConn, Head(task[d].out))
      BY <1>1, <2>2 DEF Send, TypeOK, StreamInv
    <3>3. Head(task[d].out) \in ToConnection /\ Head(task[d].out).sid = d
      BY <3>2, Single DEF Task, Coherent
    <3>4. ASSUME NEW type PROVE Requests(type, s)' = Requests(type, s)
      <4>. DEFINE m == Head(task[d].out)
      <4>1. m \in ToConnection /\ m.sid # s /\ toConn' = Append(toConn, m) BY <1>3, <3>2, <3>3
      <4>. HIDE DEF m
      <4>2. Requests(type, s)' = Requests(type, s)
              \cup (IF m.type = type /\ m.sid = s THEN {Len(toConn) + 1} ELSE {})
        BY <4>1, SentToConnection DEF TypeOK
      <4>. QED BY <4>1, <4>2
    <3>. QED BY <1>1, <3>1, <3>4, Untouched
  <2>3. CASE ~Send(d)
    <3>1. toConn' = toConn /\ \E u, rest : Become(d, u, rest)
      BY <1>1, <2>3 DEF StreamStep, CompositeHeaders, CompositeTrailers, DispatchIfNeeded,
           RespondIfPossible, TopOfLoop, ReceiveFrame, ReceiveResponse, ReceiveHeaders,
           ReceiveTrailers, Receive, Terminate, SendFails
    <3>2. task'[s] = task[s] /\ inbox'[s] = inbox[s] BY <2>1, <3>1
    <3>3. \A type : Requests(type, s)' = Requests(type, s) BY <3>1 DEF Requests
    <3>. QED BY <1>1, <3>2, <3>3, Untouched
  <2>. QED BY <2>2, <2>3
<1>. QED BY <1>2, <1>3

\* The connection starts a task that is not there yet, or leaves it as it is.
LEMMA StartKeeps ==
  ASSUME TypeOK, NEW s \in Streams, NEW d \in Streams, StreamInv(s),
         task' = [task EXCEPT ![d] = Started(d)], inbox' = inbox,
         owed' = owed,
         \/ UNCHANGED <<toConn, blocked>>
         \/ UNCHANGED toConn /\ blocked = <<>> /\ Head(blocked').msg.type = "FrameForRequest"
         \/ toConn' = <<>> /\ blocked' = <<>>
  PROVE  StreamInv(s)'
<1>. DEFINE HReq == "DecodingHeadersRequest"
            HRep == "DecodingHeadersResponse"
            DReq == "RequestContextForDispatch"
            DRep == "ResponseObject"
<1>1. task[s] \in Task /\ Coherent(s, task[s]) BY DEF TypeOK, StreamInv
<1>2. task'[s] = IF task[s].phase = "absent" /\ s = d THEN NewTask("running") ELSE task[s]
  BY DEF Started, TypeOK
<1>3. task[s].phase = "absent" => task[s].out = <<>> /\ inbox[s] = <<>>
  BY DEF StreamInv, Coherent, Running
<1>4. Coherent(s, task[s])' BY <1>1, <1>2, CoherentNew
<1>5. task'[s].out = task[s].out BY <1>2, <1>3 DEF NewTask
<1>6. /\ Live(s)' => Live(s)
      /\ ~Running(s)' => ~Running(s)
  BY <1>2 DEF Live, Running, NewTask
<1>7. /\ Asking(HReq, s)' <=> Asking(HReq, s)
      /\ Asking(DReq, s)' <=> Asking(DReq, s)
      /\ Replies(HRep, s)' = Replies(HRep, s) /\ Replies(DRep, s)' = Replies(DRep, s)
      /\ Requests(HReq, s)' \in {Requests(HReq, s), {}}
      /\ Requests(DReq, s)' \in {Requests(DReq, s), {}}
      /\ Held(HRep, s)' => Held(HRep, s)
      /\ Held(DRep, s)' => Held(DRep, s)
  BY <1>5 DEF Asking, Replies, Requests, Held
<1>8. OneAtATime(HReq, HRep, s)' /\ (UnderWay(HReq, HRep, s)' => UnderWay(HReq, HRep, s))
  BY <1>7 DEF StreamInv, OneAtATime, UnderWay
<1>9. OneAtATime(DReq, DRep, s)' /\ (UnderWay(DReq, DRep, s)' => UnderWay(DReq, DRep, s))
  BY <1>7 DEF StreamInv, OneDispatch, OneAtATime, UnderWay
<1>10. HeadersAwaited(s)' /\ ResponseAwaited(s)'
  <2>1. CASE task'[s] = task[s]
    BY <1>6, <1>8, <1>9, <2>1 DEF StreamInv, HeadersAwaited, ResponseAwaited
  <2>2. CASE task[s].phase = "absent" /\ task'[s] = NewTask("running")
    <3>1. Live(s) BY <2>2 DEF Live
    <3>2. ~UnderWay(HReq, HRep, s)
      BY <2>2, <3>1 DEF StreamInv, HeadersAwaited, Coherent
    <3>3. ~(s \in owed \/ UnderWay(DReq, DRep, s))
      BY <2>2, <3>1 DEF StreamInv, ResponseAwaited, Coherent
    <3>. QED BY <1>8, <1>9, <3>2, <3>3 DEF HeadersAwaited, ResponseAwaited
  <2>. QED BY <1>2, <2>1, <2>2
<1>. QED BY <1>4, <1>6, <1>8, <1>9, <1>10 DEF StreamInv, OneDispatch

-----------------------------------------------------------------------------
(* The connection's steps, which leave the tasks as they are *)

\* A task that is left as it is, with nothing new on its way to it.
LEMMA Kept ==
  ASSUME NEW s \in Streams, StreamInv(s), task'[s] = task[s],
         ~Running(s) => inbox'[s] = <<>>,
         OneAtATime("DecodingHeadersRequest", "DecodingHeadersResponse", s)',
         UnderWay("DecodingHeadersRequest", "DecodingHeadersResponse", s)'
           => UnderWay("DecodingHeadersRequest", "DecodingHeadersResponse", s),
         OneDispatch(s)',
         (s \in owed \/ UnderWay("RequestContextForDispatch", "ResponseObject", s))'
           => s \in owed \/ UnderWay("RequestContextForDispatch", "ResponseObject", s)
  PROVE  StreamInv(s)'
<1>1. Coherent(s, task[s])' BY DEF StreamInv
<1>2. (~Running(s) => inbox[s] = <<>>)' BY DEF Running
<1>3. Live(s)' <=> Live(s) BY DEF Live
<1>4. HeadersAwaited(s)' BY <1>3 DEF StreamInv, HeadersAwaited
<1>5. ResponseAwaited(s)' BY <1>3 DEF StreamInv, ResponseAwaited
<1>. QED BY <1>1, <1>2, <1>4, <1>5 DEF StreamInv

\* A request may leave the channel and a reply may be lost.
LEMMA Fewer ==
  ASSUME NEW request, NEW reply, NEW s, OneAtATime(request, reply, s),
         task'[s] = task[s],
         \A i, j \in Requests(request, s)' : i = j,
         Requests(request, s)' # {} => Requests(request, s) # {},
         Held(reply, s)' => Held(reply, s),
         Replies(reply, s)' = Replies(reply, s)
  PROVE  /\ OneAtATime(request, reply, s)'
         /\ UnderWay(request, reply, s)' => UnderWay(request, reply, s)
<1>1. Asking(request, s)' <=> Asking(request, s) BY DEF Asking
<1>. QED BY <1>1 DEF OneAtATime, UnderWay

\* What the connection takes from the channel was the only one of its kind.
LEMMA TakenOnce ==
  ASSUME TypeOK, NEW type, NEW s, NEW reply, toConn # <<>>, toConn' = Tail(toConn),
         OneAtATime(type, reply, s)
  PROVE  /\ \A i, j \in Requests(type, s)' : i = j
         /\ Requests(type, s)' # {} => Requests(type, s) # {}
         /\ Head(toConn).type = type /\ Head(toConn).sid = s =>
              Requests(type, s) # {} /\ Requests(type, s)' = {}
<1>1. /\ \A i \in Requests(type, s)' : i + 1 \in Requests(type, s)
      /\ Head(toConn).type = type /\ Head(toConn).sid = s => 1 \in Requests(type, s)
      /\ Requests(type, s)' \subseteq Nat /\ 0 \notin Requests(type, s)'
  BY TakenByConnection
<1>2. \A i, j \in Requests(type, s) : i = j BY DEF OneAtATime
<1>3. \A i, j \in Requests(type, s)' : i = j
  <2>. TAKE i, j \in Requests(type, s)'
  <2>1. i \in Nat /\ j \in Nat /\ i + 1 = j + 1 BY <1>1, <1>2
  <2>. QED BY <2>1
<1>4. ASSUME 1 \in Requests(type, s), NEW i \in Requests(type, s)' PROVE FALSE
  <2>1. i \in Nat /\ i # 0 /\ i + 1 = 1 BY <1>1, <1>2, <1>4
  <2>. QED BY <2>1
<1>. QED BY <1>1, <1>3, <1>4

\* The connection takes a message that asks for no reply the task waits for,
\* or for one that it keeps to itself.
LEMMA TakeKeeps ==
  ASSUME TypeOK, TasksInStep, NEW type, Take(type), NEW s \in Streams,
         ~Held("DecodingHeadersResponse", s)', ~Held("ResponseObject", s)',
         s \in owed' <=> s \in owed
  PROVE  StreamInv(s)'
<1>1. StreamInv(s) BY DEF TasksInStep
<1>2. toConn # <<>> /\ toConn' = Tail(toConn) /\ task' = task /\ inbox' = inbox BY DEF Take
<1>3. \A reply : Replies(reply, s)' = Replies(reply, s) BY <1>2 DEF Replies
<1>4. /\ OneAtATime("DecodingHeadersRequest", "DecodingHeadersResponse", s)'
      /\ UnderWay("DecodingHeadersRequest", "DecodingHeadersResponse", s)'
           => UnderWay("DecodingHeadersRequest", "DecodingHeadersResponse", s)
  <2>1. OneAtATime("DecodingHeadersRequest", "DecodingHeadersResponse", s) BY <1>1 DEF StreamInv
  <2>. QED BY <1>2, <1>3, <2>1, TakenOnce, Fewer
<1>5. /\ OneAtATime("RequestContextForDispatch", "ResponseObject", s)'
      /\ UnderWay("RequestContextForDispatch", "ResponseObject", s)'
           => UnderWay("RequestContextForDispatch", "ResponseObject", s)
  <2>1. OneAtATime("RequestContextForDispatch", "ResponseObject", s)
    BY <1>1 DEF StreamInv, OneDispatch
  <2>. QED BY <1>2, <1>3, <2>1, TakenOnce, Fewer
<1>6. OneDispatch(s)' BY <1>1, <1>5 DEF StreamInv, OneDispatch
<1>7. task'[s] = task[s] /\ (~Running(s) => inbox'[s] = <<>>) BY <1>1, <1>2 DEF StreamInv
<1>. QED BY <1>1, <1>4, <1>5, <1>6, <1>7, Kept

LEMMA DecodeHeadersKeeps ==
  ASSUME TypeOK, TasksInStep, DecodeHeaders
  PROVE  TasksInStep'
<1>. DEFINE HReq == "DecodingHeadersRequest"
            HRep == "DecodingHeadersResponse"
<1>. SUFFICES ASSUME NEW s \in Streams PROVE StreamInv(s)' BY DEF TasksInStep
<1>1. Take(HReq) /\ toConn # <<>> /\ toConn' = Tail(toConn) /\ Head(toConn).type = HReq
      /\ task' = task /\ inbox' = inbox /\ owed' = owed
  BY DEF DecodeHeaders, Take
<1>2. ~Held("ResponseObject", s)' BY DEF DecodeHeaders, Held, ToTask
<1>3. Held(HRep, s)' => s = Head(toConn).sid BY DEF DecodeHeaders, Held, ToTask
<1>4. CASE ~Held(HRep, s)' BY <1>1, <1>2, <1>4, TakeKeeps
<1>5. CASE Held(HRep, s)'
  <2>1. StreamInv(s) /\ OneAtATime(HReq, HRep, s) BY DEF TasksInStep, StreamInv
  <2>2. Requests(HReq, s) # {} /\ Requests(HReq, s)' = {}
    BY <1>1, <1>3, <1>5, <2>1, TakenOnce
  <2>3. Replies(HRep, s)' = {} /\ ~Asking(HReq, s)'
    <3>1. Replies(HRep, s) = {} /\ ~Asking(HReq, s) BY <2>1, <2>2 DEF OneAtATime
    <3>. QED BY <1>1, <3>1 DEF Replies, Asking
  <2>4. OneAtATime(HReq, HRep, s)' BY <2>2, <2>3 DEF OneAtATime
  <2>5. UnderWay(HReq, HRep, s) BY <2>2 DEF UnderWay
  <2>6. /\ OneAtATime("RequestContextForDispatch", "ResponseObject", s)'
        /\ UnderWay("RequestContextForDispatch", "ResponseObject", s)'
             => UnderWay("RequestContextForDispatch", "ResponseObject", s)
    <3>1. OneAtATime("RequestContextForDispatch", "ResponseObject", s)
      BY <2>1 DEF StreamInv, OneDispatch
    <3>2. Replies("ResponseObject", s)' = Replies("ResponseObject", s) BY <1>1 DEF Replies
    <3>. QED BY <1>1, <1>2, <3>1, <3>2, TakenOnce, Fewer
  <2>7. OneDispatch(s)' BY <1>1, <2>1, <2>6 DEF StreamInv, OneDispatch
  <2>8. task'[s] = task[s] /\ (~Running(s) => inbox'[s] = <<>>) BY <1>1, <2>1 DEF StreamInv
  <2>. QED BY <1>1, <2>1, <2>4, <2>5, <2>6, <2>7, <2>8, Kept
<1>. QED BY <1>4, <1>5

LEMMA OtherTakesKeep ==
  ASSUME TypeOK, TasksInStep, DecodeTrailers \/ TakeOther
  PROVE  TasksInStep'
<1>. SUFFICES ASSUME NEW s \in Streams PROVE StreamInv(s)' BY DEF TasksInStep
<1>1. PICK type : Take(type) BY DEF DecodeTrailers, TakeOther
<1>2. ~Held("DecodingHeadersResponse", s)' /\ ~Held("ResponseObject", s)' /\ owed' = owed
  BY DEF DecodeTrailers, TakeOther, Take, Held, ToTask
<1>. QED BY <1>1, <1>2, TakeKeeps

LEMMA AcceptDispatchKeeps ==
  ASSUME TypeOK, TasksInStep, AcceptDispatch
  PROVE  TasksInStep'
<1>. DEFINE DReq == "RequestContextForDispatch"
            DRep == "ResponseObject"
<1>. SUFFICES ASSUME NEW s \in Streams PROVE StreamInv(s)' BY DEF TasksInStep
<1>1. Take(DReq) /\ toConn # <<>> /\ toConn' = Tail(toConn) /\ Head(toConn).type = DReq
      /\ task' = task /\ inbox' = inbox /\ owed' = owed \cup {Head(toConn).sid}
  BY DEF AcceptDispatch, Take
<1>2. \A type : ~Held(type, s)' BY DEF AcceptDispatch, Take, Held
<1>3. CASE s # Head(toConn).sid BY <1>1, <1>2, <1>3, TakeKeeps
<1>4. CASE s = Head(toConn).sid
  <2>1. StreamInv(s) /\ OneAtATime(DReq, DRep, s) BY DEF TasksInStep, StreamInv, OneDispatch
  <2>2. Requests(DReq, s) # {} /\ Requests(DReq, s)' = {}
    BY <1>1, <1>4, <2>1, TakenOnce
  <2>3. Replies(DRep, s)' = {} /\ ~Asking(DReq, s)'
    <3>1. Replies(DRep, s) = {} /\ ~Asking(DReq, s) BY <2>1, <2>2 DEF OneAtATime
    <3>. QED BY <1>1, <3>1 DEF Replies, Asking
  <2>4. OneDispatch(s)' BY <1>2, <2>2, <2>3 DEF OneDispatch, OneAtATime, UnderWay
  <2>5. UnderWay(DReq, DRep, s) BY <2>2 DEF UnderWay
  <2>6. /\ OneAtATime("DecodingHeadersRequest", "DecodingHeadersResponse", s)'
        /\ UnderWay("DecodingHeadersRequest", "DecodingHeadersResponse", s)'
             => UnderWay("DecodingHeadersRequest", "DecodingHeadersResponse", s)
    <3>1. OneAtATime("DecodingHeadersRequest", "DecodingHeadersResponse", s)
      BY <2>1 DEF StreamInv
    <3>2. Replies("DecodingHeadersResponse", s)' = Replies("DecodingHeadersResponse", s)
      BY <1>1 DEF Replies
    <3>. QED BY <1>1, <1>2, <3>1, <3>2, TakenOnce, Fewer
  <2>7. task'[s] = task[s] /\ (~Running(s) => inbox'[s] = <<>>) BY <1>1, <2>1 DEF StreamInv
  <2>. QED BY <2>1, <2>4, <2>5, <2>6, <2>7, Kept
<1>. QED BY <1>3, <1>4

\* A held message reaches the inbox of its task, or is lost.
LEMMA Delivered ==
  ASSUME TypeOK, Deliver, NEW request, NEW reply, NEW s \in Streams,
         OneAtATime(request, reply, s)
  PROVE  /\ OneAtATime(request, reply, s)'
         /\ UnderWay(request, reply, s)' => UnderWay(request, reply, s)
<1>1. PICK d \in Streams, m \in ToStream : d = Head(blocked).to /\ m = Head(blocked).msg
  <2>1. Head(blocked) \in Envelope BY DEF TypeOK, Deliver
  <2>. QED BY <2>1 DEF Envelope
<1>2. /\ blocked # <<>> /\ blocked' = <<>> /\ task' = task /\ toConn' = toConn
      /\ \/ inbox' = [inbox EXCEPT ![d] = Append(@, m)]
         \/ inbox' = inbox
  BY <1>1 DEF Deliver
<1>3. /\ Requests(request, s)' = Requests(request, s)
      /\ Asking(request, s)' <=> Asking(request, s)
      /\ ~Held(reply, s)'
      /\ Held(reply, s) <=> s = d /\ m.type = reply
  BY <1>1, <1>2 DEF Requests, Asking, Held
<1>4. \/ Replies(reply, s)' = Replies(reply, s)
      \/ Held(reply, s) /\ Replies(reply, s)' = Replies(reply, s) \cup {Len(inbox[s]) + 1}
  <2>1. CASE inbox' = inbox BY <2>1 DEF Replies
  <2>2. CASE inbox' = [inbox EXCEPT ![d] = Append(@, m)]
    <3>1. CASE s # d
      <4>1. inbox'[s] = inbox[s] BY <2>2, <3>1 DEF TypeOK
      <4>. QED BY <4>1 DEF Replies
    <3>2. CASE s = d
      <4>1. inbox'[s] = Append(inbox[s], m) BY <2>2, <3>2 DEF TypeOK
      <4>2. Replies(reply, s)' = Replies(reply, s) \cup
              (IF m.type = reply THEN {Len(inbox[s]) + 1} ELSE {})
        BY <4>1, PutInInbox
      <4>. QED BY <1>3, <3>2, <4>2
    <3>. QED BY <3>1, <3>2
  <2>. QED BY <1>2, <2>1, <2>2
<1>. QED BY <1>3, <1>4 DEF OneAtATime, UnderWay

LEMMA DeliverKeeps ==
  ASSUME TypeOK, TasksInStep, Deliver
  PROVE  TasksInStep'
<1>. SUFFICES ASSUME NEW s \in Streams PROVE StreamInv(s)' BY DEF TasksInStep
<1>1. StreamInv(s) BY DEF TasksInStep
<1>2. /\ OneAtATime("DecodingHeadersRequest", "DecodingHeadersResponse", s)'
      /\ UnderWay("DecodingHeadersRequest", "DecodingHeadersResponse", s)'
           => UnderWay("DecodingHeadersRequest", "DecodingHeadersResponse", s)
  BY <1>1, Delivered DEF StreamInv
<1>3. /\ OneAtATime("RequestContextForDispatch", "ResponseObject", s)'
      /\ UnderWay("RequestContextForDispatch", "ResponseObject", s)'
           => UnderWay("RequestContextForDispatch", "ResponseObject", s)
  BY <1>1, Delivered DEF StreamInv, OneDispatch
<1>4. owed' = owed /\ task' = task BY DEF Deliver
<1>5. OneDispatch(s)' BY <1>1, <1>3, <1>4 DEF StreamInv, OneDispatch
<1>6. ~Running(s) => inbox'[s] = <<>>
  <2>1. ~Running(s) => inbox'[s] = inbox[s] BY DEF Deliver, TypeOK
  <2>. QED BY <1>1, <2>1 DEF StreamInv
<1>. QED BY <1>1, <1>2, <1>3, <1>4, <1>5, <1>6, Kept

LEMMA RespondKeeps ==
  ASSUME TypeOK, TasksInStep, NEW d \in Streams, NEW size \in Sizes, Respond(d, size)
  PROVE  TasksInStep'
<1>. DEFINE HReq == "DecodingHeadersRequest"
            HRep == "DecodingHeadersResponse"
            DReq == "RequestContextForDispatch"
            DRep == "ResponseObject"
<1>. SUFFICES ASSUME NEW s \in Streams PROVE StreamInv(s)' BY DEF TasksInStep
<1>1. PICK m \in ToStream : /\ m.type = DRep
                            /\ inbox' = [inbox EXCEPT ![d] = Append(@, m)]
  <2>1. [type |-> DRep, size |-> size] \in ToStream BY ToStreamTypes, SizesAssumption
  <2>. QED BY <2>1 DEF Respond
<1>2. /\ StreamInv(s) /\ task' = task /\ toConn' = toConn /\ blocked' = blocked
      /\ d \in owed /\ owed' = owed \ {d} /\ Running(d)
  BY DEF TasksInStep, Respond
<1>3. \A type : /\ Requests(type, s)' = Requests(type, s)
                /\ Held(type, s)' <=> Held(type, s)
                /\ Asking(type, s)' <=> Asking(type, s)
  BY <1>2 DEF Requests, Held, Asking
<1>4. CASE s # d
  <2>1. inbox'[s] = inbox[s] BY <1>1, <1>4 DEF TypeOK
  <2>. QED BY <1>2, <1>3, <1>4, <2>1, Untouched
<1>5. CASE s = d
  <2>1. inbox'[s] = Append(inbox[s], m) BY <1>1, <1>5 DEF TypeOK
  <2>2. Replies(HRep, s)' = Replies(HRep, s)
    <3>1. Replies(HRep, s)' = Replies(HRep, s) \cup
            (IF m.type = HRep THEN {Len(inbox[s]) + 1} ELSE {})
      BY <2>1, PutInInbox
    <3>. QED BY <1>1, <3>1
  <2>3. Replies(DRep, s)' = Replies(DRep, s) \cup {Len(inbox[s]) + 1}
    <3>1. Replies(DRep, s)' = Replies(DRep, s) \cup
            (IF m.type = DRep THEN {Len(inbox[s]) + 1} ELSE {})
      BY <2>1, PutInInbox
    <3>. QED BY <1>1, <3>1
  <2>4. OneDispatch(s) /\ s \in owed /\ s \notin owed' BY <1>2, <1>5 DEF StreamInv
  <2>5. OneDispatch(s)' BY <1>3, <2>3, <2>4 DEF OneDispatch, OneAtATime, UnderWay
  <2>6. /\ OneAtATime(HReq, HRep, s)'
        /\ UnderWay(HReq, HRep, s)' => UnderWay(HReq, HRep, s)
    <3>1. OneAtATime(HReq, HRep, s) BY <1>2 DEF StreamInv
    <3>. QED BY <1>3, <2>2, <3>1 DEF OneAtATime, UnderWay
  <2>. QED BY <1>2, <1>5, <2>4, <2>5, <2>6, Kept
<1>. QED BY <1>4, <1>5

\* The steps that move no message of a task that goes on.
LEMMA QuietKeeps ==
  ASSUME TypeOK, TasksInStep, NEW s \in Streams, task' = task, inbox' = inbox,
         owed' \subseteq owed,
         \/ toConn' = toConn /\ blocked' = blocked
         \/ toConn' = <<>> /\ blocked' = <<>>
  PROVE  StreamInv(s)'
<1>1. StreamInv(s) BY DEF TasksInStep
<1>2. \A type : /\ Requests(type, s)' \in {Requests(type, s), {}}
                /\ Held(type, s)' => Held(type, s)
                /\ Replies(type, s)' = Replies(type, s)
  BY DEF Requests, Held, Replies
<1>3. \A request, reply : OneAtATime(request, reply, s) =>
        /\ OneAtATime(request, reply, s)'
        /\ UnderWay(request, reply, s)' => UnderWay(request, reply, s)
  <2>. SUFFICES ASSUME NEW request, NEW reply, OneAtATime(request, reply, s)
                PROVE  /\ OneAtATime(request, reply, s)'
                       /\ UnderWay(request, reply, s)' => UnderWay(request, reply, s)
    OBVIOUS
  <2>1. \A i, j \in Requests(request, s)' : i = j BY <1>2 DEF OneAtATime
  <2>. QED BY <1>2, <2>1, Fewer
<1>4. /\ OneAtATime("DecodingHeadersRequest", "DecodingHeadersResponse", s)'
      /\ UnderWay("DecodingHeadersRequest", "DecodingHeadersResponse", s)'
           => UnderWay("DecodingHeadersRequest", "DecodingHeadersResponse", s)
  BY <1>1, <1>3 DEF StreamInv
<1>5. /\ OneAtATime("RequestContextForDispatch", "ResponseObject", s)'
      /\ UnderWay("RequestContextForDispatch", "ResponseObject", s)'
           => UnderWay("RequestContextForDispatch", "ResponseObject", s)
  BY <1>1, <1>3 DEF StreamInv, OneDispatch
<1>6. OneDispatch(s)' BY <1>1, <1>5 DEF StreamInv, OneDispatch
<1>7. ~Running(s) => inbox'[s] = <<>> BY <1>1 DEF StreamInv
<1>. QED BY <1>1, <1>4, <1>5, <1>6, <1>7, Kept

-----------------------------------------------------------------------------
(* The tasks stay in step with the connection *)

LEMMA TasksInStepInit == Init => TasksInStep
<1>. SUFFICES ASSUME Init, NEW s \in Streams PROVE StreamInv(s) BY DEF TasksInStep
<1>1. /\ task[s] = NewTask("absent") /\ inbox[s] = <<>> /\ toConn = <<>>
      /\ blocked = <<>> /\ owed = {}
  BY DEF Init, StreamInit
<1>2. Coherent(s, task[s]) BY <1>1, CoherentNew
<1>3. \A request, reply : ~UnderWay(request, reply, s) /\ OneAtATime(request, reply, s)
  BY <1>1 DEF UnderWay, OneAtATime, Asking, Requests, Held, Replies, NewTask
<1>. QED BY <1>1, <1>2, <1>3 DEF StreamInv, HeadersAwaited, ResponseAwaited, OneDispatch

LEMMA TasksInStepStep == TypeOK /\ TasksInStep /\ [Next]_contractVars => TasksInStep'
<1>. SUFFICES ASSUME TypeOK, TasksInStep, [Next]_contractVars PROVE TasksInStep'
  OBVIOUS
<1>1. CASE Forwarding
  <2>1. PICK d \in Streams, f \in Frames : Forward(d, f) BY <1>1 DEF Forwarding
  <2>2. Head(blocked').msg.type = "FrameForRequest" BY <2>1 DEF Forward, ToTask
  <2>. SUFFICES ASSUME NEW s \in Streams PROVE StreamInv(s)' BY DEF TasksInStep
  <2>. QED BY <2>1, <2>2, StartKeeps DEF Forward, TasksInStep
<1>2. ASSUME NEW d \in Streams, TaskStep(d) PROVE TasksInStep'
  BY <1>2, TaskStepKeeps
<1>3. ASSUME NEW d \in Streams, Start(d) PROVE TasksInStep'
  <2>. SUFFICES ASSUME NEW s \in Streams PROVE StreamInv(s)' BY DEF TasksInStep
  <2>. QED BY <1>3, StartKeeps DEF Start, TasksInStep
<1>4. ASSUME NEW d \in Streams, GiveUp(d) PROVE TasksInStep'
  BY <1>4, QuietKeeps DEF GiveUp, TasksInStep, streamVars
<1>5. ASSUME NEW d \in Streams, NEW size \in Sizes, Respond(d, size) PROVE TasksInStep'
  BY <1>5, RespondKeeps
<1>6. ASSUME NEW S, Cancel(S) PROVE TasksInStep'
  BY <1>6, QuietKeeps DEF Cancel, TasksInStep
<1>7. ASSUME NEW S, Disconnect(S) PROVE TasksInStep'
  <2>1. CASE UNCHANGED task
    BY <1>7, <2>1, QuietKeeps DEF Disconnect, TasksInStep
  <2>2. ASSUME NEW d \in Streams, task' = [task EXCEPT ![d] = Started(d)] PROVE TasksInStep'
    <3>. SUFFICES ASSUME NEW s \in Streams PROVE StreamInv(s)' BY DEF TasksInStep
    <3>. QED BY <1>7, <2>2, StartKeeps DEF Disconnect, TasksInStep
  <2>. QED BY <1>7, <2>1, <2>2 DEF Disconnect
<1>8. CASE UNCHANGED contractVars
  BY <1>8, QuietKeeps DEF TasksInStep, contractVars, streamVars
<1>9. CASE DecodeHeaders \/ DecodeTrailers \/ AcceptDispatch \/ TakeOther \/ Deliver
  BY <1>9, DecodeHeadersKeeps, OtherTakesKeep, AcceptDispatchKeeps, DeliverKeeps
<1>. QED BY <1>1, <1>2, <1>3, <1>4, <1>5, <1>6, <1>7, <1>8, <1>9 DEF Next, OtherStep

\* Whatever the client sends and however the steps of the tasks and of the
\* connection interleave, each task stays in step with the connection: the
\* invariant on which the theorems below rest.
THEOREM StaysInStep == Spec => []TasksInStep
<1>1. Init => TypeOK /\ TasksInStep BY TypeOKInit, TasksInStepInit
<1>2. TypeOK /\ TasksInStep /\ [Next]_contractVars => (TypeOK /\ TasksInStep)'
  BY TypeOKStep, TasksInStepStep
<1>. QED BY <1>1, <1>2, PTL DEF Spec

\* handle_frame_for_request and response_to_client_if_possible never close
\* the server's side first, and never reopen the client's: no stream becomes
\* half-closed (local), and a request with END_STREAM is over for the client.
THEOREM NeverHalfClosedLocal == Spec => []ServerClosesLast
<1>1. TasksInStep => ServerClosesLast
  BY DEF TasksInStep, StreamInv, Coherent, ServerClosesLast
<1>. QED BY <1>1, StaysInStep, PTL

\* maybe_composite_trailers can unwrap maybe_trailers.
THEOREM TrailersAnnounced == Spec => []TrailersWereAnnounced
<1>1. TasksInStep => TrailersWereAnnounced
  BY DEF TasksInStep, StreamInv, Coherent, TrailersWereAnnounced, NeedsTrailers
<1>. QED BY <1>1, StaysInStep, PTL

\* A task that has asked for its headers to be decoded is still waiting when
\* the answer comes, and asks once at a time.
THEOREM HeadersDecodedInStep == Spec => []HeaderDecoderInStep
<1>1. TasksInStep => HeaderDecoderInStep
  BY DEF TasksInStep, StreamInv, HeadersAwaited, HeaderDecoderInStep, InStep, Running, Live
<1>. QED BY <1>1, StaysInStep, PTL

\* maybe_dispatch_if_needed hands the request of a stream over once, and one
\* response at most comes back.
THEOREM RequestDispatchedOnce == Spec => []DispatchedOnce
<1>1. TasksInStep => DispatchedOnce
  BY DEF TasksInStep, StreamInv, DispatchedOnce
<1>. QED BY <1>1, StaysInStep, PTL

-----------------------------------------------------------------------------
(* A request that has been answered is not handed over again *)

\* Nothing of it is under way, in the parts that the steps touch.
LEMMA AnsweredParts ==
  ASSUME NEW s \in Streams, StreamInv(s), Answered(s)
  PROVE  /\ s \notin owed /\ task[s].phase # "absent"
         /\ Running(s) => task[s].dispatched
         /\ ~Asking("RequestContextForDispatch", s) /\ ~Held("ResponseObject", s)
         /\ Requests("RequestContextForDispatch", s) = {} /\ Replies("ResponseObject", s) = {}
BY DEF Answered, UnderWay, StreamInv, Coherent, Running

LEMMA StaysAnswered ==
  ASSUME NEW s \in Streams, StreamInv(s), Answered(s), task'[s] = task[s], s \notin owed',
         Requests("RequestContextForDispatch", s)' = {}, ~Held("ResponseObject", s)',
         Replies("ResponseObject", s)' = {}
  PROVE  Answered(s)'
BY AnsweredParts DEF Answered, UnderWay, Asking

\* The task itself has handled a message, or sent one.
LEMMA OwnStepAnswered ==
  ASSUME NEW s \in Streams, TypeOK, StreamInv(s), Answered(s), StreamStep(s),
         UNCHANGED <<blocked, owed>>
  PROVE  Answered(s)'
<1>. DEFINE DReq == "RequestContextForDispatch"
            DRep == "ResponseObject"
            t == task[s]
<1>1. /\ t \in Task /\ Coherent(s, t) /\ s \notin owed' /\ ~Held(DRep, s)'
      /\ Replies(DRep, s) = {} /\ Requests(DReq, s) = {}
      /\ Running(s) => t.dispatched
  BY AnsweredParts DEF TypeOK, StreamInv, Held
\* What it takes for the task after a step, u.
<1>2. ASSUME NEW u, NEW rest, Become(s, u, rest), toConn' = toConn,
             u.phase = "running" => u.dispatched,
             u.phase \in {"running", "ended", "panicked"},
             u.out # <<>> => Head(u.out).type # DReq,
             rest \in {inbox[s], <<>>} \/ (inbox[s] # <<>> /\ rest = Tail(inbox[s]))
      PROVE  Answered(s)'
  <2>1. task'[s] = u /\ inbox'[s] \in {rest, <<>>} BY <1>2 DEF Become, TypeOK
  <2>2. Requests(DReq, s)' = {} /\ ~Asking(DReq, s)'
    BY <1>1, <1>2, <2>1 DEF Requests, Asking
  <2>3. Replies(DRep, s)' = {}
    <3>1. CASE inbox'[s] = inbox[s] BY <1>1, <3>1 DEF Replies
    <3>2. CASE inbox'[s] = <<>> BY <3>2 DEF Replies
    <3>3. CASE inbox[s] # <<>> /\ inbox'[s] = Tail(inbox[s])
      <4>1. \A i \in Replies(DRep, s)' : i + 1 \in Replies(DRep, s) BY <3>3, TakenFromInbox
      <4>. QED BY <1>1, <4>1
    <3>. QED BY <1>2, <2>1, <3>1, <3>2, <3>3
  <2>. QED BY <1>1, <1>2, <2>1, <2>2, <2>3 DEF Answered, UnderWay
<1>3. CASE \/ CompositeHeaders(s) \/ CompositeTrailers(s)
           \/ DispatchIfNeeded(s) \/ RespondIfPossible(s)
  <2>1. AtTop(s) /\ t.out = <<>> /\ t.phase = "running" /\ t.dispatched /\ toConn' = toConn
    BY <1>1, <1>3 DEF CompositeHeaders, CompositeTrailers, DispatchIfNeeded,
       RespondIfPossible, TopOfLoop, AtTop, Running
  <2>2. CASE CompositeHeaders(s)
    <3>1. Become(s, AskForHeaders(s, t), inbox[s]) BY <2>2 DEF CompositeHeaders, TopOfLoop
    <3>. QED BY <1>1, <1>2, <2>1, <3>1, CoherentTop
  <2>3. CASE CompositeTrailers(s)
    <3>1. Become(s, AskForTrailers(s, t), inbox[s]) BY <2>3 DEF CompositeTrailers, TopOfLoop
    <3>. QED BY <1>1, <1>2, <2>1, <3>1, CoherentTop
  <2>4. ~DispatchIfNeeded(s) BY <2>1 DEF DispatchIfNeeded, TopOfLoop, NeedsDispatch
  <2>5. CASE RespondIfPossible(s)
    <3>1. NeedsFlush(t) /\ Become(s, Flush(s, t), inbox[s])
      BY <2>5 DEF RespondIfPossible, TopOfLoop
    <3>. QED BY <1>1, <1>2, <2>1, <3>1, CoherentTop
  <2>. QED BY <1>3, <2>2, <2>3, <2>4, <2>5
<1>4. CASE \/ ReceiveFrame(s) \/ ReceiveResponse(s) \/ ReceiveHeaders(s) \/ ReceiveTrailers(s)
  <2>. DEFINE m == Head(inbox[s])
              u == Handle(s, t, m)
  <2>1. /\ m \in ToStream /\ inbox[s] # <<>> /\ AtTop(s) /\ toConn' = toConn
        /\ Become(s, u, Tail(inbox[s]))
    BY <1>4 DEF ReceiveFrame, ReceiveResponse, ReceiveHeaders, ReceiveTrailers,
       TypeOK, Receive, Idle
  <2>2. t.phase = "running" /\ t.out = <<>> /\ t.dispatched BY <1>1, <2>1 DEF AtTop, Running
  <2>3. /\ u.phase = "running" => u.dispatched
        /\ u.phase \in {"running", "ended", "panicked"}
        /\ u.out # <<>> => Head(u.out).type # DReq
    <3>. HIDE DEF t, m
    <3>1. CASE m.type = "FrameForRequest"
      <4>1. u = HandleFrame(s, t, m.frame) /\ m.frame \in Frame
        BY <2>1, <3>1 DEF Handle, ToStream
      <4>2. LET v == HandleFrame(s, t, m.frame) IN
              /\ Coherent(s, v) /\ v.phase = "running" /\ v.dispatched = t.dispatched
              /\ t.hdr = "Waiting" => v.hdr = "Waiting"
              /\ Head(v.out).type \in {"Error", "ActiveStreamCount"}
        BY <1>1, <2>2, <4>1, CoherentFrame
      <4>. QED BY <2>2, <4>1, <4>2
    <3>2. CASE m.type = "ResponseObject"
      <4>1. u = HandleResponse(s, t, m.size) /\ m.size \in Nat BY <2>1, <3>2 DEF Handle, ToStream
      <4>2. \A size \in Nat : LET v == HandleResponse(s, t, size) IN
              /\ t.dispatched => Coherent(s, v)
              /\ v.phase = "running" /\ v.dispatched = t.dispatched /\ v.hdr = t.hdr
              /\ Head(v.out).type = "DoResponseToClient"
        BY <1>1, <2>2, CoherentReplies
      <4>. QED BY <2>2, <4>1, <4>2
    <3>3. CASE m.type = "DecodingHeadersResponse"
      <4>1. u = HandleDecodedHeaders(s, t, m.trailer) /\ m.trailer \in BOOLEAN
        BY <2>1, <3>3 DEF Handle, ToStream
      <4>2. \A trailer \in BOOLEAN : LET v == HandleDecodedHeaders(s, t, trailer) IN
              /\ Coherent(s, v) /\ v.phase = "running" /\ v.dispatched = t.dispatched
              /\ v.out # <<>> => Head(v.out).type = "Error"
        BY <1>1, <2>2, CoherentReplies
      <4>. QED BY <2>2, <4>1, <4>2
    <3>4. CASE m.type = "DecodingTrailersResponse"
      <4>1. u = HandleDecodedTrailers(t) BY <3>4 DEF Handle
      <4>2. LET v == HandleDecodedTrailers(t) IN
              /\ Coherent(s, v) /\ v.out = <<>> /\ v.phase \in {"running", "panicked"}
              /\ v.phase = "running" => v.dispatched = t.dispatched /\ v.hdr = t.hdr
        BY <1>1, <2>2, CoherentReplies
      <4>. QED BY <2>2, <4>1, <4>2
    <3>. QED BY <2>1, <3>1, <3>2, <3>3, <3>4 DEF ToStream
  <2>. HIDE DEF u, m
  <2>. QED BY <1>2, <2>1, <2>3
<1>5. CASE Terminate(s) \/ SendFails(s)
  <2>1. Become(s, NewTask("ended"), <<>>) /\ toConn' = toConn BY <1>5 DEF Terminate, SendFails
  <2>2. NewTask("ended").phase = "ended" /\ NewTask("ended").out = <<>> BY DEF NewTask
  <2>. QED BY <1>2, <2>1, <2>2
<1>6. CASE Send(s)
  <2>1. /\ t.out # <<>> /\ toConn' = Append(toConn, Head(t.out)) /\ inbox' = inbox
        /\ task' = [task EXCEPT ![s].out = Tail(t.out)]
    BY <1>6 DEF Send
  <2>2. /\ Head(t.out) \in ToConnection /\ Tail(t.out) = <<>>
    BY <1>1, <2>1, Single DEF Task, Coherent
  <2>3. Head(t.out).type # DReq BY <2>1, AnsweredParts DEF Asking
  <2>4. Requests(DReq, s)' = {} BY <1>1, <2>1, <2>2, <2>3, SentToConnection
  <2>5. /\ task'[s].out = <<>> /\ task'[s].phase = t.phase
        /\ task'[s].dispatched = t.dispatched
    BY <1>1, <2>1, <2>2 DEF TypeOK, Task
  <2>6. Replies(DRep, s)' = {} /\ ~Asking(DReq, s)' BY <1>1, <2>1, <2>5 DEF Replies, Asking
  <2>. QED BY <1>1, <2>4, <2>5, <2>6 DEF Answered, UnderWay
<1>. QED BY <1>3, <1>4, <1>5, <1>6 DEF StreamStep

\* The response that a task takes from its inbox is the only one.
LEMMA ResponseAnswers ==
  ASSUME NEW s \in Streams, TypeOK, StreamInv(s), ReceiveResponse(s),
         UNCHANGED <<blocked, owed>>
  PROVE  ~Answered(s) /\ Answered(s)'
<1>. DEFINE DReq == "RequestContextForDispatch"
            DRep == "ResponseObject"
            t == task[s]
            m == Head(inbox[s])
<1>1. /\ t \in Task /\ inbox[s] # <<>> /\ m \in ToStream /\ m.type = DRep /\ AtTop(s)
      /\ Become(s, Handle(s, t, m), Tail(inbox[s])) /\ toConn' = toConn
  BY DEF TypeOK, ReceiveResponse, Receive, Idle
<1>2. 1 \in Replies(DRep, s) BY <1>1 DEF Replies, TypeOK
<1>3. UnderWay(DReq, DRep, s) /\ OneAtATime(DReq, DRep, s) /\ s \notin owed
  BY <1>2 DEF StreamInv, OneDispatch, UnderWay
<1>4. Live(s) /\ t.phase = "running" /\ t.dispatched /\ t.out = <<>> /\ Coherent(s, t)
  BY <1>1, <1>3 DEF StreamInv, ResponseAwaited, AtTop, Running, Live
<1>5. /\ Handle(s, t, m).phase = "running" /\ Handle(s, t, m).dispatched
      /\ Head(Handle(s, t, m).out).type = "DoResponseToClient"
  <2>1. Handle(s, t, m) = HandleResponse(s, t, m.size) /\ m.size \in Nat
    BY <1>1 DEF Handle, ToStream
  <2>. HIDE DEF t, m
  <2>2. \A size \in Nat : LET u == HandleResponse(s, t, size) IN
          /\ t.dispatched => Coherent(s, u)
          /\ u.phase = "running" /\ u.dispatched = t.dispatched /\ u.hdr = t.hdr
          /\ Head(u.out).type = "DoResponseToClient"
    BY <1>1, <1>4, CoherentReplies
  <2>. DEFINE u == HandleResponse(s, t, m.size)
  <2>3. u.phase = "running" /\ u.dispatched = t.dispatched /\ Head(u.out).type = "DoResponseToClient"
    BY <2>1, <2>2
  <2>. HIDE DEF u
  <2>4. Handle(s, t, m) = u BY <2>1 DEF u
  <2>. QED BY <1>4, <2>3, <2>4
<1>6. task'[s] = Handle(s, t, m) /\ inbox'[s] = Tail(inbox[s])
  BY <1>1, <1>5 DEF Become, TypeOK
<1>7. Replies(DRep, s)' = {}
  <2>1. /\ \A i \in Replies(DRep, s)' : i + 1 \in Replies(DRep, s)
        /\ Replies(DRep, s)' \subseteq Nat /\ 0 \notin Replies(DRep, s)'
    BY <1>1, <1>6, TakenFromInbox
  <2>2. \A i \in Replies(DRep, s) : i = 1 BY <1>2, <1>3 DEF OneAtATime
  <2>3. ASSUME NEW i \in Replies(DRep, s)' PROVE FALSE
    <3>1. i \in Nat /\ i # 0 /\ i + 1 = 1 BY <2>1, <2>2
    <3>. QED BY <3>1
  <2>. QED BY <2>3
<1>8. Requests(DReq, s)' = {} /\ ~Held(DRep, s)' /\ ~Asking(DReq, s)'
  <2>1. Requests(DReq, s) = {} /\ ~Held(DRep, s) BY <1>2, <1>3 DEF OneAtATime
  <2>. QED BY <1>1, <1>5, <1>6, <2>1 DEF Requests, Held, Asking
<1>. QED BY <1>3, <1>5, <1>6, <1>7, <1>8 DEF Answered, UnderWay

LEMMA AnsweredStep ==
  ASSUME TypeOK, TasksInStep, [Next]_contractVars, NEW s \in Streams, Answered(s)
  PROVE  Answered(s)'
<1>. DEFINE DReq == "RequestContextForDispatch"
            DRep == "ResponseObject"
<1>1. /\ StreamInv(s) /\ s \notin owed /\ task[s].phase # "absent"
      /\ Running(s) => task[s].dispatched
      /\ ~Held(DRep, s) /\ Requests(DReq, s) = {} /\ Replies(DRep, s) = {}
  BY AnsweredParts DEF TasksInStep
\* The steps that leave the channels as they are, or empty.
<1>2. ASSUME inbox'[s] = inbox[s], s \notin owed', ~Held(DRep, s)',
             toConn' \in {toConn, <<>>} \/ (toConn # <<>> /\ toConn' = Tail(toConn)),
             task' = task \/ \E d \in Streams : task' = [task EXCEPT ![d] = Started(d)]
      PROVE  Answered(s)'
  <2>1. task'[s] = task[s] BY <1>1, <1>2 DEF Started, TypeOK
  <2>2. Replies(DRep, s)' = {} BY <1>1, <1>2 DEF Replies
  <2>3. Requests(DReq, s)' = {}
    <3>1. CASE toConn' \in {toConn, <<>>} BY <1>1, <3>1 DEF Requests
    <3>2. CASE toConn # <<>> /\ toConn' = Tail(toConn)
      <4>1. \A i \in Requests(DReq, s)' : i + 1 \in Requests(DReq, s)
        BY <3>2, TakenByConnection
      <4>. QED BY <1>1, <4>1
    <3>. QED BY <1>2, <3>1, <3>2
  <2>. QED BY <1>1, <1>2, <2>1, <2>2, <2>3, StaysAnswered
<1>3. ASSUME NEW d \in Streams, NEW f \in Frames, Forward(d, f) PROVE Answered(s)'
  <2>1. Head(blocked').msg.type = "FrameForRequest" BY <1>3 DEF Forward, ToTask
  <2>2. ~Held(DRep, s)' BY <2>1 DEF Held
  <2>. QED BY <1>1, <1>2, <1>3, <2>2 DEF Forward
<1>4. ASSUME NEW d \in Streams, TaskStep(d) PROVE Answered(s)'
  <2>1. CASE s = d BY <1>1, <1>4, <2>1, OwnStepAnswered DEF TaskStep
  <2>2. CASE s # d
    <3>1. task'[s] = task[s] /\ inbox'[s] = inbox[s]
      BY <1>4, <2>2 DEF TaskStep, StreamStep, CompositeHeaders, CompositeTrailers,
         DispatchIfNeeded, RespondIfPossible, TopOfLoop, ReceiveFrame, ReceiveResponse,
         ReceiveHeaders, ReceiveTrailers, Receive, Terminate, Send, SendFails, Become, TypeOK
    <3>2. Requests(DReq, s)' = {}
      <4>1. CASE Send(d)
        <5>1. /\ task[d] \in Task /\ task[d].out # <<>> /\ Coherent(d, task[d])
              /\ toConn' = Append(toConn, Head(task[d].out))
          BY <4>1 DEF Send, TypeOK, TasksInStep, StreamInv
        <5>2. Head(task[d].out) \in ToConnection /\ Head(task[d].out).sid = d
          BY <5>1, Single DEF Task, Coherent
        <5>. QED BY <1>1, <2>2, <5>1, <5>2, SentToConnection
      <4>2. CASE ~Send(d)
        <5>1. toConn' = toConn
          BY <1>4, <4>2 DEF TaskStep, StreamStep, CompositeHeaders, CompositeTrailers,
             DispatchIfNeeded, RespondIfPossible, TopOfLoop, ReceiveFrame, ReceiveResponse,
             ReceiveHeaders, ReceiveTrailers, Receive, Terminate, SendFails
        <5>. QED BY <1>1, <5>1 DEF Requests
      <4>. QED BY <4>1, <4>2
    <3>3. Replies(DRep, s)' = {} /\ ~Held(DRep, s)' /\ s \notin owed'
      BY <1>1, <1>4, <3>1 DEF TaskStep, Replies, Held
    <3>. QED BY <1>1, <3>1, <3>2, <3>3, StaysAnswered
  <2>. QED BY <2>1, <2>2
<1>5. ASSUME NEW d \in Streams, Start(d) PROVE Answered(s)' BY <1>1, <1>2, <1>5 DEF Start, Held
<1>6. ASSUME NEW d \in Streams, GiveUp(d) PROVE Answered(s)'
  BY <1>1, <1>2, <1>6 DEF GiveUp, streamVars, Held
<1>7. ASSUME NEW d \in Streams, NEW size \in Sizes, Respond(d, size) PROVE Answered(s)'
  <2>1. inbox'[s] = inbox[s] BY <1>1, <1>7 DEF Respond, TypeOK
  <2>. QED BY <1>1, <1>2, <1>7, <2>1 DEF Respond, Held
<1>8. ASSUME NEW S, Cancel(S) \/ Disconnect(S) PROVE Answered(s)'
  BY <1>1, <1>2, <1>8 DEF Cancel, Disconnect, Held
<1>9. CASE UNCHANGED contractVars BY <1>1, <1>2, <1>9 DEF contractVars, streamVars, Held
<1>10. CASE DecodeHeaders \/ DecodeTrailers \/ TakeOther
  BY <1>1, <1>2, <1>10 DEF DecodeHeaders, DecodeTrailers, TakeOther, Take, Held, ToTask
<1>11. CASE AcceptDispatch
  <2>1. toConn # <<>> /\ toConn' = Tail(toConn) /\ Head(toConn).type = DReq
    BY <1>11 DEF AcceptDispatch, Take
  <2>2. s # Head(toConn).sid BY <1>1, <2>1, TakenByConnection
  <2>. QED BY <1>1, <1>2, <1>11, <2>1, <2>2 DEF AcceptDispatch, Take, Held
<1>12. CASE Deliver
  <2>1. OneAtATime(DReq, DRep, s) BY <1>1 DEF StreamInv, OneDispatch
  <2>2. ~UnderWay(DReq, DRep, s)' BY <1>12, <2>1, Delivered DEF Answered
  <2>. QED BY <1>1, <1>12, <2>2 DEF Deliver, Answered
<1>. QED BY <1>3, <1>4, <1>5, <1>6, <1>7, <1>8, <1>9, <1>10, <1>11, <1>12
         DEF Next, OtherStep, Forwarding

\* No request is handed over, and no response handled, twice: dispatched stays
\* set, and neither a late answer nor a trailer makes the task forget it.
THEOREM NeverAnsweredAgain == Spec => AnsweredForGood
<1>1. TypeOK /\ TasksInStep /\ [Next]_contractVars
      => [\A s \in Streams : Answered(s) => Answered(s)']_contractVars
  BY AnsweredStep
<1>. QED BY <1>1, TypeCorrect, StaysInStep, PTL DEF Spec, AnsweredForGood
=============================================================================
