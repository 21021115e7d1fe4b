---------------------------- MODULE ConnectionProofs ----------------------------
(***************************************************************************)
(* Proofs about an HTTP/2 connection (Http2Connection.tla) with any number *)
(* of streams, frames and requests: it implements StreamContract, so that  *)
(* what StreamContractProofs and HeaderBlockProofs prove of stream tasks   *)
(* holds of those of the connection; what it knows of its streams is true, *)
(* and so is what it says of them in GOAWAY.                               *)
(***************************************************************************)
EXTENDS ConnectionProperties, TLAPS

-----------------------------------------------------------------------------
(* The contract, and the theorems about it *)

Tasks == INSTANCE HeaderBlockProofs WITH
  Frames <- ClientFrames, owed <- Owed, client <- "any"

\* What StreamContract assumes of its constants, Http2Connection does too.
LEMMA ContractAssumptions == ClientFrames \subseteq Tasks!Frame /\ Sizes \subseteq Nat
BY ClientAssumption DEF Tasks!Frame, Frame, Tasks!FrameKinds, FrameKinds

\* A stream task is the same in the contract and in the connection.
LEMMA SameTask == ASSUME NEW s PROVE Tasks!StreamStep(s) <=> StreamStep(s)
BY DEF HasEndStream, Tasks!HasEndStream, HasEndHeaders, Tasks!HasEndHeaders,
       CarriesHeaders, Tasks!CarriesHeaders, ResponseHeaders, Tasks!ResponseHeaders,
       ResponseData, Tasks!ResponseData, ErrorCodes, Tasks!ErrorCodes, Error, Tasks!Error,
       NoError, Tasks!NoError, ConnectionError, Tasks!ConnectionError, StreamError,
       Tasks!StreamError, Check, Tasks!Check, ActiveStates, Tasks!ActiveStates,
       ContinuationMisplaced, Tasks!ContinuationMisplaced, HeadersMisplaced,
       Tasks!HeadersMisplaced, RefusedAfterEnd, Tasks!RefusedAfterEnd, RefusedInIdle,
       Tasks!RefusedInIdle, ValidateFromClient, Tasks!ValidateFromClient, NextFromClient,
       Tasks!NextFromClient, NextFromMe, Tasks!NextFromMe, MaySend, Tasks!MaySend,
       CountCommand, Tasks!CountCommand, DecodeRequest, Tasks!DecodeRequest, ErrorMessage,
       Tasks!ErrorMessage, CountMessage, Tasks!CountMessage, ResponseMessage,
       Tasks!ResponseMessage, DispatchMessage, Tasks!DispatchMessage, NewTask,
       Tasks!NewTask, Running, Tasks!Running, Become, Tasks!Become, NeedsHeaders,
       Tasks!NeedsHeaders, NeedsTrailers, Tasks!NeedsTrailers, NeedsDispatch,
       Tasks!NeedsDispatch, FitsWindow, Tasks!FitsWindow, NeedsFlush, Tasks!NeedsFlush,
       AtTop, Tasks!AtTop, Idle, Tasks!Idle, AskForHeaders, Tasks!AskForHeaders,
       AskForTrailers, Tasks!AskForTrailers, HandOver, Tasks!HandOver, Flush, Tasks!Flush,
       TopOfLoop, Tasks!TopOfLoop, CompositeHeaders, Tasks!CompositeHeaders,
       CompositeTrailers, Tasks!CompositeTrailers, DispatchIfNeeded,
       Tasks!DispatchIfNeeded, RespondIfPossible, Tasks!RespondIfPossible, ToTrailers,
       Tasks!ToTrailers, Progress, Tasks!Progress, WindowOverflow, Tasks!WindowOverflow,
       Accepted, Tasks!Accepted, FrameVerdict, Tasks!FrameVerdict, HandleFrame,
       Tasks!HandleFrame, CanSendFrame, Tasks!CanSendFrame, HandleResponse,
       Tasks!HandleResponse, HandleDecodedHeaders, Tasks!HandleDecodedHeaders,
       HandleDecodedTrailers, Tasks!HandleDecodedTrailers, Handle, Tasks!Handle, Receive,
       Tasks!Receive, ReceiveFrame, Tasks!ReceiveFrame, ReceiveResponse,
       Tasks!ReceiveResponse, ReceiveHeaders, Tasks!ReceiveHeaders, ReceiveTrailers,
       Tasks!ReceiveTrailers, Terminate, Tasks!Terminate, Send, Tasks!Send, SendFails,
       Tasks!SendFails, StreamStep, Tasks!StreamStep, ??, Tasks!??

\* So are the values it keeps and exchanges.
LEMMA SameTypes ==
  /\ Tasks!Task = Task /\ Tasks!ToStream = ToStream /\ Tasks!ToConnection = ToConnection
BY DEF FrameKinds, Tasks!FrameKinds, Frame, Tasks!Frame, OutFrame, Tasks!OutFrame,
       ErrorCodes, Tasks!ErrorCodes, Error, Tasks!Error, StreamStates, Tasks!StreamStates,
       DecodingStates, Tasks!DecodingStates, CountCommands, Tasks!CountCommands, ToStream,
       Tasks!ToStream, ToConnection, Tasks!ToConnection, Task, Tasks!Task

\* And the contract is the one the connection is measured by.
LEMMA SameContract ==
  /\ Contract!Init <=> Tasks!Init
  /\ [Contract!Next]_Contract!contractVars <=> [Tasks!Next]_Tasks!contractVars
  /\ Contract!TypeOK <=> Tasks!TypeOK
BY DEF Contract!FrameKinds, Tasks!FrameKinds, Contract!Frame, Tasks!Frame,
       Contract!HasEndStream, Tasks!HasEndStream, Contract!HasEndHeaders,
       Tasks!HasEndHeaders, Contract!CarriesHeaders, Tasks!CarriesHeaders,
       Contract!OutFrame, Tasks!OutFrame, Contract!ResponseHeaders, Tasks!ResponseHeaders,
       Contract!ResponseData, Tasks!ResponseData, Contract!ErrorCodes, Tasks!ErrorCodes,
       Contract!Error, Tasks!Error, Contract!NoError, Tasks!NoError,
       Contract!ConnectionError, Tasks!ConnectionError, Contract!StreamError,
       Tasks!StreamError, Contract!Check, Tasks!Check, Contract!StreamStates,
       Tasks!StreamStates, Contract!ActiveStates, Tasks!ActiveStates,
       Contract!DecodingStates, Tasks!DecodingStates, Contract!ContinuationMisplaced,
       Tasks!ContinuationMisplaced, Contract!HeadersMisplaced, Tasks!HeadersMisplaced,
       Contract!RefusedAfterEnd, Tasks!RefusedAfterEnd, Contract!RefusedInIdle,
       Tasks!RefusedInIdle, Contract!ValidateFromClient, Tasks!ValidateFromClient,
       Contract!NextFromClient, Tasks!NextFromClient, Contract!NextFromMe,
       Tasks!NextFromMe, Contract!MaySend, Tasks!MaySend, Contract!CountCommands,
       Tasks!CountCommands, Contract!CountCommand, Tasks!CountCommand, Contract!streamVars,
       Tasks!streamVars, Contract!ToStream, Tasks!ToStream, Contract!ToConnection,
       Tasks!ToConnection, Contract!DecodeRequest, Tasks!DecodeRequest,
       Contract!ErrorMessage, Tasks!ErrorMessage, Contract!CountMessage,
       Tasks!CountMessage, Contract!ResponseMessage, Tasks!ResponseMessage,
       Contract!DispatchMessage, Tasks!DispatchMessage, Contract!Task, Tasks!Task,
       Contract!NewTask, Tasks!NewTask, Contract!StreamInit, Tasks!StreamInit,
       Contract!Running, Tasks!Running, Contract!Become, Tasks!Become,
       Contract!NeedsHeaders, Tasks!NeedsHeaders, Contract!NeedsTrailers,
       Tasks!NeedsTrailers, Contract!NeedsDispatch, Tasks!NeedsDispatch,
       Contract!FitsWindow, Tasks!FitsWindow, Contract!NeedsFlush, Tasks!NeedsFlush,
       Contract!AtTop, Tasks!AtTop, Contract!Idle, Tasks!Idle, Contract!AskForHeaders,
       Tasks!AskForHeaders, Contract!AskForTrailers, Tasks!AskForTrailers,
       Contract!HandOver, Tasks!HandOver, Contract!Flush, Tasks!Flush, Contract!TopOfLoop,
       Tasks!TopOfLoop, Contract!CompositeHeaders, Tasks!CompositeHeaders,
       Contract!CompositeTrailers, Tasks!CompositeTrailers, Contract!DispatchIfNeeded,
       Tasks!DispatchIfNeeded, Contract!RespondIfPossible, Tasks!RespondIfPossible,
       Contract!ToTrailers, Tasks!ToTrailers, Contract!Progress, Tasks!Progress,
       Contract!WindowOverflow, Tasks!WindowOverflow, Contract!Accepted, Tasks!Accepted,
       Contract!FrameVerdict, Tasks!FrameVerdict, Contract!HandleFrame, Tasks!HandleFrame,
       Contract!CanSendFrame, Tasks!CanSendFrame, Contract!HandleResponse,
       Tasks!HandleResponse, Contract!HandleDecodedHeaders, Tasks!HandleDecodedHeaders,
       Contract!HandleDecodedTrailers, Tasks!HandleDecodedTrailers, Contract!Handle,
       Tasks!Handle, Contract!Receive, Tasks!Receive, Contract!ReceiveFrame,
       Tasks!ReceiveFrame, Contract!ReceiveResponse, Tasks!ReceiveResponse,
       Contract!ReceiveHeaders, Tasks!ReceiveHeaders, Contract!ReceiveTrailers,
       Tasks!ReceiveTrailers, Contract!Terminate, Tasks!Terminate, Contract!Send,
       Tasks!Send, Contract!SendFails, Tasks!SendFails, Contract!StreamStep,
       Tasks!StreamStep, Contract!Stages, Tasks!Stages, Contract!BlockOpen,
       Tasks!BlockOpen, Contract!StageAfter, Tasks!StageAfter, Contract!Init, Tasks!Init,
       Contract!Envelope, Tasks!Envelope, Contract!ToTask, Tasks!ToTask, Contract!Started,
       Tasks!Started, Contract!Start, Tasks!Start, Contract!Forward, Tasks!Forward,
       Contract!Grammatical, Tasks!Grammatical, Contract!Take, Tasks!Take, Contract!DecodeHeaders, Tasks!DecodeHeaders,
       Contract!DecodeTrailers, Tasks!DecodeTrailers, Contract!AcceptDispatch,
       Tasks!AcceptDispatch, Contract!TakeOther, Tasks!TakeOther, Contract!Deliver,
       Tasks!Deliver, Contract!Respond, Tasks!Respond, Contract!GiveUp, Tasks!GiveUp,
       Contract!Cancel, Tasks!Cancel, Contract!Disconnect, Tasks!Disconnect,
       Contract!TaskStep, Tasks!TaskStep, Contract!Forwarding, Tasks!Forwarding,
       Contract!OtherStep, Tasks!OtherStep, Contract!Next, Tasks!Next,
       Contract!TypeOK, Tasks!TypeOK, Contract!??, Tasks!??, Contract!contractVars,
       Tasks!contractVars

\* The state the contract starts from, and what a theorem of it means here.
LEMMA SameViews ==
  /\ \A s : Tasks!Running(s) <=> Running(s)
  /\ \A phase : Tasks!NewTask(phase) = NewTask(phase)
  /\ \A st : Tasks!BlockOpen(st) <=> BlockOpen(st)
  /\ \A st, f : Tasks!StageAfter(st, f) = StageAfter(st, f)
BY DEF Tasks!Running, Running, Tasks!NewTask, NewTask, Tasks!BlockOpen, BlockOpen,
       Tasks!StageAfter, StageAfter

-----------------------------------------------------------------------------
(* The verdict on a frame *)

LEMMA SameErrors ==
  /\ Handlers!Error = Error /\ Handlers!NoError = NoError /\ Handlers!Panic \in Error
  /\ \A code \in ErrorCodes : Handlers!ConnectionError(code) \in Error
  /\ \A sid \in Nat, code \in ErrorCodes : Handlers!StreamError(sid, code) \in Error
  /\ NoError \in Error
BY DEF Handlers!Error, Error, Handlers!NoError, NoError, Handlers!Panic, ErrorCodes,
       Handlers!ErrorCodes, Handlers!ConnectionError, Handlers!StreamError

LEMMA VerdictType ==
  ASSUME NEW f \in Frame, NEW c
  PROVE  Verdict(f, c) \in Error
<1>1. ASSUME NEW ok, NEW e \in Error PROVE Handlers!Check(ok, e) \in Error
  BY SameErrors DEF Handlers!Check
<1>2. ASSUME NEW e1 \in Error, NEW e2 \in Error PROVE Handlers!??(e1, e2) \in Error
  BY DEF Handlers!??
<1>3. /\ Handlers!ProtocolError \in Error /\ Handlers!FrameSizeError \in Error
      /\ Handlers!Panic \in Error /\ NoError \in Error
      /\ Handlers!ConnectionError("FLOW_CONTROL_ERROR") \in Error
      /\ \A code \in ErrorCodes : Handlers!StreamError(f.sid, code) \in Error
      /\ {"FRAME_SIZE_ERROR", "REFUSED_STREAM", "PROTOCOL_ERROR"} \subseteq ErrorCodes
  BY SameErrors DEF Handlers!ProtocolError, Handlers!FrameSizeError, ErrorCodes, Frame
<1>4. Handlers!OnStream(f) \in Error /\ Handlers!OnConnection(f) \in Error
  BY <1>1, <1>3 DEF Handlers!OnStream, Handlers!OnConnection
<1>5. Handlers!CommonValidate(f) \in Error
  BY <1>1, <1>2, <1>3 DEF Handlers!CommonValidate
<1>6. Handlers!HeadersVerdict(f, c.active) \in Error
  BY <1>1, <1>2, <1>3, <1>4 DEF Handlers!HeadersVerdict
<1>7. Handlers!PriorityVerdict(f) \in Error /\ Handlers!DataVerdict(f) \in Error
  BY <1>1, <1>2, <1>3, <1>4 DEF Handlers!PriorityVerdict, Handlers!DataVerdict
<1>8. /\ Handlers!RstStreamVerdict(f) \in Error /\ Handlers!PingVerdict(f) \in Error
      /\ Handlers!GoawayVerdict(f) \in Error
  BY <1>1, <1>2, <1>3, <1>4
     DEF Handlers!RstStreamVerdict, Handlers!PingVerdict, Handlers!GoawayVerdict
<1>9. Handlers!SettingsVerdict(f) \in Error
  BY <1>1, <1>2, <1>3, <1>4 DEF Handlers!SettingsVerdict
<1>10. Handlers!WindowUpdateVerdict(f, c.window) \in Error
  BY <1>1, <1>2, <1>3 DEF Handlers!WindowUpdateVerdict
<1>11. f.kind \in FrameKinds BY DEF Frame
<1>12. ASSUME f.kind # "UNKNOWN"
       PROVE  (CASE f.kind = "HEADERS"       -> Handlers!HeadersVerdict(f, c.active)
                 [] f.kind = "PRIORITY"      -> Handlers!PriorityVerdict(f)
                 [] f.kind = "DATA"          -> Handlers!DataVerdict(f)
                 [] f.kind = "RST_STREAM"    -> Handlers!RstStreamVerdict(f)
                 [] f.kind = "PING"          -> Handlers!PingVerdict(f)
                 [] f.kind = "GOAWAY"        -> Handlers!GoawayVerdict(f)
                 [] f.kind = "SETTINGS"      -> Handlers!SettingsVerdict(f)
                 [] f.kind = "WINDOW_UPDATE" -> Handlers!WindowUpdateVerdict(f, c.window)
                 [] f.kind = "CONTINUATION"  -> Handlers!OnStream(f)) \in Error
  BY <1>4, <1>6, <1>7, <1>8, <1>9, <1>10, <1>11, <1>12 DEF FrameKinds
<1>. QED
  BY <1>2, <1>3, <1>5, <1>12, SameErrors DEF Verdict, Handlers!Verdict

\* A WINDOW_UPDATE of the connection that is let through does not overflow its
\* window.
LEMMA WindowUpdateFits ==
  ASSUME NEW f \in Frame, NEW c, f.kind = "WINDOW_UPDATE", f.sid = 0, Verdict(f, c) = NoError
  PROVE  c.window + f.val <= MaxWindow
<1>1. ASSUME NEW e1, NEW e2, Handlers!??(e1, e2) = NoError
      PROVE  e1 = NoError /\ e2 = NoError
  BY <1>1, SameErrors DEF Handlers!??
<1>2. Handlers!WindowUpdateVerdict(f, c.window) = NoError
  <2>1. Handlers!??(Handlers!CommonValidate(f), Handlers!WindowUpdateVerdict(f, c.window)) = NoError
    BY DEF Verdict, Handlers!Verdict
  <2>. QED BY <1>1, <2>1
<1>3. Handlers!Check(f.sid # 0 \/ c.window + f.val <= MaxWindow,
                     Handlers!ConnectionError("FLOW_CONTROL_ERROR")) = NoError
  <2>. DEFINE a == Handlers!Check(f.len >= 4, Handlers!Panic)
              b == Handlers!Check(f.val # 0, IF f.sid = 0 THEN Handlers!ProtocolError
                     ELSE Handlers!StreamError(f.sid, "PROTOCOL_ERROR"))
              w == Handlers!Check(f.sid # 0 \/ c.window + f.val <= MaxWindow,
                                  Handlers!ConnectionError("FLOW_CONTROL_ERROR"))
              l == Handlers!Check(f.len = 4, Handlers!FrameSizeError)
  <2>1. Handlers!??(Handlers!??(Handlers!??(a, b), w), l) = NoError
    BY <1>2 DEF Handlers!WindowUpdateVerdict
  <2>. HIDE DEF a, b, w, l
  <2>2. w = NoError BY <1>1, <2>1
  <2>. QED BY <2>2 DEF w
<1>4. Handlers!ConnectionError("FLOW_CONTROL_ERROR") # NoError
  BY DEF Handlers!ConnectionError, NoError
<1>. QED BY <1>3, <1>4 DEF Handlers!Check

-----------------------------------------------------------------------------
(* The steps of a connection are steps of the contract *)

\* What the context knows of the streams, their tasks and their types.
ConnectionInv == TypeOK /\ ContextFaithful /\ Tasks!TasksInStep

ContractStep == [Tasks!Next]_Tasks!contractVars

\* serve returns, after it has cancelled the tokens of S, if any, and perhaps
\* started a task.
LEMMA LeavesAsDisconnect ==
  ASSUME connUp, connUp' = FALSE, toConn' = <<>>, blocked' = <<>>,
         NEW S \in SUBSET Streams, cancelled' = [s \in Streams |-> cancelled[s] \/ s \in S],
         UNCHANGED task \/ \E s \in Streams : task' = [task EXCEPT ![s] = Tasks!Started(s)],
         UNCHANGED <<inbox, stage, dispatch>>
  PROVE  ContractStep
<1>1. UNCHANGED Owed BY DEF Owed
<1>2. Tasks!Disconnect(S) BY <1>1 DEF Tasks!Disconnect
<1>. QED BY <1>2 DEF ContractStep, Tasks!Next, Tasks!OtherStep

\* Returning early leaves the tokens alone.
LEMMA AbandonsAsDisconnect ==
  ASSUME TypeOK, connUp, Abandon,
         UNCHANGED task \/ \E s \in Streams : task' = [task EXCEPT ![s] = Tasks!Started(s)],
         UNCHANGED <<inbox, stage, dispatch>>
  PROVE  ContractStep
<1>1. cancelled' = [s \in Streams |-> cancelled[s] \/ s \in {}]
  BY DEF Abandon, TypeOK, Contract!TypeOK
<1>2. connUp' = FALSE /\ toConn' = <<>> /\ blocked' = <<>> BY DEF Abandon, Leave
<1>3. {} \in SUBSET Streams OBVIOUS
<1>. QED BY <1>1, <1>2, <1>3, LeavesAsDisconnect

\* What leaves the tasks, their channels and the dispatches alone.
LEMMA Stutters ==
  ASSUME UNCHANGED <<task, inbox, toConn, cancelled, connUp, blocked, stage, dispatch>>
  PROVE  ContractStep
<1>1. UNCHANGED Owed BY DEF Owed
<1>. QED BY <1>1 DEF ContractStep, Tasks!contractVars, Tasks!streamVars

\* The errors the connection handles cancel tokens, or end it.
LEMMA ErrorsImplement ==
  ASSUME TypeOK, HandleConnectionError \/ HandleStreamError \/ DropOtherError \/ IdleTimeout
  PROVE  ContractStep
<1>1. CASE HandleConnectionError \/ IdleTimeout
  <2>1. cancelled' = [s \in Streams |-> cancelled[s] \/ s \in Streams]
    BY <1>1 DEF HandleConnectionError, IdleTimeout, CancelAll
  <2>. QED BY <1>1, <2>1, LeavesAsDisconnect
           DEF HandleConnectionError, IdleTimeout, Leave, Ready, Selecting
<1>2. CASE HandleStreamError
  <2>. DEFINE sid == ctx.error.sid
              S == {s \in Streams : s = sid /\ ctx.token[s] = "task"}
  <2>1. cancelled' = [s \in Streams |-> cancelled[s] \/ s \in S]
    BY <1>2 DEF HandleStreamError, CancelToken, TypeOK, Contract!TypeOK
  <2>2. CASE Leave
    BY <1>2, <2>1, <2>2, LeavesAsDisconnect DEF HandleStreamError, Leave, Ready
  <2>3. CASE UNCHANGED <<connUp, toConn, fromReader, blocked>>
    <3>1. UNCHANGED Owed BY <1>2 DEF Owed, HandleStreamError
    <3>2. Tasks!Cancel(S)
      BY <1>2, <2>1, <2>3, <3>1 DEF Tasks!Cancel, HandleStreamError, Ready
    <3>. QED BY <3>2 DEF ContractStep, Tasks!Next, Tasks!OtherStep
  <2>. QED BY <1>2, <2>2, <2>3 DEF HandleStreamError
<1>3. CASE DropOtherError
  BY <1>3, Stutters DEF DropOtherError, streamVars
<1>. QED BY <1>1, <1>2, <1>3

\* A frame for a stream starts its task if it is the first, and is forwarded.
LEMMA StreamFrameImplements ==
  ASSUME TypeOK, ContextFaithful, TakeStreamFrame
  PROVE  ContractStep
<1>1. PICK f \in ClientFrames :
        /\ TakeFrame(f) /\ ~InflightViolated(f) /\ ~OnConnectionLevel(f)
        /\ task' = IF ShouldInit(f) THEN [task EXCEPT ![f.sid] = NewTask("running")] ELSE task
        /\ ValidateAndForward(f, WithStream(f))
        /\ UNCHANGED <<inbox, wire>>
  BY DEF TakeStreamFrame
<1>. DEFINE d == f.sid
<1>2. d \in Streams \cup {0} /\ ctx.known \subseteq Streams /\ 0 \notin Streams
  BY ClientAssumption, StreamsAssumption DEF TypeOK, OwnTypeOK, Context
<1>3. connUp /\ blocked = <<>> /\ UNCHANGED <<inbox, dispatch>>
  BY <1>1 DEF TakeFrame, Selecting, Ready
<1>4. UNCHANGED Owed BY <1>3 DEF Owed
<1>5. d \in WithStream(f).known <=> d \in Streams
  BY <1>2 DEF WithStream, ShouldInit, TypeOK, OwnTypeOK, Context
<1>6. task \in [Streams -> Task] BY SameTypes, SameContract DEF TypeOK, Tasks!TypeOK
<1>7. d \in Streams => task' = [task EXCEPT ![d] = Tasks!Started(d)]
  BY <1>1, <1>2, <1>6, SameViews DEF ShouldInit, Tasks!Started, ContextFaithful
<1>8. d \notin Streams => UNCHANGED task
  BY <1>1, <1>2 DEF ShouldInit
<1>9. CASE Abandon /\ UNCHANGED stage
  BY <1>3, <1>7, <1>8, <1>9, AbandonsAsDisconnect
<1>10. CASE UNCHANGED <<toConn, cancelled, connUp, root, fresh, blocked, stage>>
  <2>1. CASE d \in Streams
    <3>1. Tasks!Start(d) BY <2>1, <1>3, <1>4, <1>7, <1>10 DEF Tasks!Start
    <3>. QED BY <2>1, <3>1 DEF ContractStep, Tasks!Next, Tasks!OtherStep
  <2>2. CASE d \notin Streams
    BY <2>2, <1>3, <1>8, <1>10, Stutters
  <2>. QED BY <2>1, <2>2
<1>11. CASE /\ d \in Streams
            /\ blocked' = <<[to |-> d, msg |-> [type |-> "FrameForRequest", frame |-> f]]>>
            /\ stage' = [stage EXCEPT ![d] = StageAfter(@, f)]
            /\ UNCHANGED <<toConn, cancelled, connUp>>
  <2>1. BlockOpen(stage[d]) => f.kind = "CONTINUATION"
    BY <1>1, <1>2, <1>3, <1>11 DEF ContextFaithful, InflightViolated
  <2>2. stage' = [stage EXCEPT ![d] = Tasks!StageAfter(@, f)] BY <1>11, SameViews
  <2>3. Tasks!BlockOpen(stage[d]) => f.kind = "CONTINUATION" BY <2>1, SameViews
  <2>4. Tasks!Forward(d, f)
    BY <2>2, <2>3, <1>1, <1>3, <1>4, <1>7, <1>11
       DEF Tasks!Forward, Tasks!ToTask, OnConnectionLevel
  <2>. QED BY <2>4, <1>11 DEF ContractStep, Tasks!Next, Tasks!Forwarding
<1>. QED BY <1>1, <1>5, <1>9, <1>10, <1>11 DEF ValidateAndForward

\* The other frames start and forward nothing.
LEMMA OtherFramesImplement ==
  ASSUME TypeOK, FrameInsideBlock \/ TakeConnectionFrame \/ TakeRefusedFrame
  PROVE  ContractStep
<1>1. /\ connUp /\ UNCHANGED <<task, inbox, stage, dispatch>>
      /\ Abandon \/ UNCHANGED <<toConn, cancelled, connUp, blocked>>
  BY DEF FrameInsideBlock, TakeConnectionFrame, TakeRefusedFrame, HandleConnectionFrame,
         TakeFrame, Selecting, Ready, streamVars
<1>. QED BY <1>1, AbandonsAsDisconnect, Stutters

\* Each message of a task is taken as the contract says, and answered so.
LEMMA MessagesImplement ==
  ASSUME TypeOK,
         \/ StartDispatch \/ WriteResponse \/ DecodeHeaders \/ DecodeTrailers
         \/ TakeError \/ TakeCount
  PROVE  ContractStep
<1>. DEFINE s == Head(toConn).sid
<1>1. /\ connUp /\ blocked = <<>> /\ toConn # <<>> /\ UNCHANGED <<task, inbox, stage>>
      /\ Head(toConn).type \in {"RequestContextForDispatch", "DoResponseToClient",
           "DecodingHeadersRequest", "DecodingTrailersRequest", "Error", "ActiveStreamCount"}
  BY DEF StartDispatch, WriteResponse, DecodeHeaders, DecodeTrailers, TakeError, TakeCount,
         TakeMessage, Selecting, Ready
<1>2. s \in Streams
  <2>1. Head(toConn) \in ToConnection
    BY <1>1, SameContract, SameTypes DEF TypeOK, Tasks!TypeOK
  <2>. QED BY <2>1 DEF ToConnection
<1>3. ASSUME NEW type, TakeMessage(type), KeepRunning PROVE Tasks!Take(type)
  BY <1>1, <1>3 DEF Tasks!Take, TakeMessage, KeepRunning
<1>4. CASE StartDispatch
  <2>1. Tasks!Take("RequestContextForDispatch") BY <1>3, <1>4 DEF StartDispatch
  <2>2. /\ dispatch \in [Streams -> Request]
        /\ \E token : dispatch' = [dispatch EXCEPT ![s] =
                                     [at |-> "waiting", token |-> token, size |-> 0]]
    BY <1>4 DEF StartDispatch, TypeOK, OwnTypeOK, Request
  <2>3. Owed' = Owed \cup {s}
    BY <1>2, <2>2 DEF Owed, Request
  <2>4. Tasks!AcceptDispatch
    BY <1>4, <2>1, <2>3 DEF Tasks!AcceptDispatch, StartDispatch
  <2>. QED BY <2>4 DEF ContractStep, Tasks!Next, Tasks!OtherStep
<1>5. CASE WriteResponse
  <2>1. /\ UNCHANGED dispatch
        /\ (KeepRunning /\ UNCHANGED blocked) \/ Abandon
    BY <1>5 DEF WriteResponse
  <2>2. CASE KeepRunning /\ UNCHANGED blocked
    <3>1. UNCHANGED Owed BY <2>1 DEF Owed
    <3>2. Tasks!Take("DoResponseToClient") BY <1>3, <1>5, <2>2 DEF WriteResponse
    <3>. QED BY <2>2, <3>1, <3>2 DEF Tasks!TakeOther, ContractStep, Tasks!Next, Tasks!OtherStep
  <2>3. CASE Abandon
    BY <1>1, <2>1, <2>3, AbandonsAsDisconnect
  <2>. QED BY <2>1, <2>2, <2>3
<1>6. CASE DecodeHeaders
  <2>1. PICK outcome \in HeaderOutcomes :
          ReplyOrError(s, outcome, [type |-> "DecodingHeadersResponse",
                                    trailer |-> outcome = "trailer"])
    BY <1>6 DEF DecodeHeaders
  <2>2. UNCHANGED Owed BY <2>1 DEF ReplyOrError, Owed
  <2>3. Tasks!Take("DecodingHeadersRequest") BY <1>3, <1>6, <2>1 DEF DecodeHeaders, ReplyOrError
  <2>4. (outcome = "trailer") \in BOOLEAN OBVIOUS
  <2>5. Tasks!DecodeHeaders
    BY <2>1, <2>2, <2>3, <2>4 DEF Tasks!DecodeHeaders, Tasks!ToTask, ReplyOrError
  <2>. QED BY <2>5 DEF ContractStep, Tasks!Next, Tasks!OtherStep
<1>7. CASE DecodeTrailers
  <2>1. PICK outcome \in TrailerOutcomes :
          ReplyOrError(s, outcome, [type |-> "DecodingTrailersResponse"])
    BY <1>7 DEF DecodeTrailers
  <2>2. UNCHANGED Owed BY <2>1 DEF ReplyOrError, Owed
  <2>3. Tasks!Take("DecodingTrailersRequest")
    BY <1>3, <1>7, <2>1 DEF DecodeTrailers, ReplyOrError
  <2>4. Tasks!DecodeTrailers
    BY <2>1, <2>2, <2>3 DEF Tasks!DecodeTrailers, Tasks!ToTask, ReplyOrError
  <2>. QED BY <2>4 DEF ContractStep, Tasks!Next, Tasks!OtherStep
<1>8. CASE TakeError \/ TakeCount
  <2>1. UNCHANGED <<blocked, dispatch>> /\ KeepRunning BY <1>8 DEF TakeError, TakeCount
  <2>2. UNCHANGED Owed BY <2>1 DEF Owed
  <2>3. Tasks!Take("Error") \/ Tasks!Take("ActiveStreamCount")
    BY <1>3, <1>8, <2>1 DEF TakeError, TakeCount
  <2>. QED BY <2>1, <2>2, <2>3 DEF Tasks!TakeOther, ContractStep, Tasks!Next, Tasks!OtherStep
<1>. QED BY <1>4, <1>5, <1>6, <1>7, <1>8

\* What waits to be sent is delivered, lost with its task, or ends serve.
LEMMA DeliveriesImplement ==
  ASSUME TypeOK, Deliver \/ DeliverFails
  PROVE  ContractStep
<1>1. connUp /\ blocked # <<>> /\ UNCHANGED dispatch BY DEF Deliver, DeliverFails
<1>2. UNCHANGED Owed BY <1>1 DEF Owed
<1>3. CASE Deliver
  <2>1. Tasks!Deliver BY <1>2, <1>3, SameViews DEF Deliver, Tasks!Deliver
  <2>. QED BY <2>1 DEF ContractStep, Tasks!Next, Tasks!OtherStep
<1>4. CASE DeliverFails /\ Abandon
  BY <1>1, <1>4, AbandonsAsDisconnect DEF DeliverFails
<1>5. CASE DeliverFails /\ ~Abandon
  <2>1. Tasks!Deliver BY <1>2, <1>5, SameViews DEF DeliverFails, Tasks!Deliver
  <2>. QED BY <2>1 DEF ContractStep, Tasks!Next, Tasks!OtherStep
<1>. QED BY <1>3, <1>4, <1>5

\* A dispatch task answers its stream, or gives up.
LEMMA DispatchImplements ==
  ASSUME TypeOK, ContextFaithful, NEW s \in Streams, DispatchStep(s)
  PROVE  ContractStep
<1>1. dispatch \in [Streams -> Request]
  BY DEF TypeOK, OwnTypeOK
<1>2. UNCHANGED <<blocked, stage, task, toConn, cancelled, connUp>>
  BY DEF DispatchStep, Acquire, DispatchCancelled, Dispatched, DispatchReplies,
         DispatchVars, connVars
<1>3. CASE Acquire(s) \/ Dispatched(s)
  <2>1. UNCHANGED Owed BY <1>1, <1>3 DEF Acquire, Dispatched, Owed, Request
  <2>2. UNCHANGED inbox BY <1>3 DEF Acquire, Dispatched
  <2>. QED BY <1>2, <2>1, <2>2 DEF ContractStep, Tasks!contractVars, Tasks!streamVars
<1>4. ASSUME s \in Owed /\ Owed' = Owed \ {s}, UNCHANGED inbox
      PROVE  ContractStep
  <2>1. Tasks!GiveUp(s) BY <1>2, <1>4 DEF Tasks!GiveUp, Tasks!streamVars
  <2>. QED BY <2>1 DEF ContractStep, Tasks!Next, Tasks!OtherStep
<1>5. CASE DispatchCancelled(s)
  <2>1. s \in Owed /\ Owed' = Owed \ {s} BY <1>1, <1>5 DEF DispatchCancelled, Owed, Request
  <2>2. UNCHANGED inbox BY <1>5 DEF DispatchCancelled
  <2>. QED BY <1>4, <2>1, <2>2
<1>6. CASE DispatchReplies(s)
  <2>1. s \in Owed /\ Owed' = Owed \ {s} BY <1>1, <1>6 DEF DispatchReplies, Owed, Request
  <2>2. CASE Running(s)
    <3>1. dispatch[s].size \in Sizes BY <1>6 DEF DispatchReplies, ContextFaithful
    <3>2. Tasks!Respond(s, dispatch[s].size)
      BY <1>2, <1>6, <2>1, <2>2, SameViews DEF Tasks!Respond, DispatchReplies
    <3>. QED BY <3>1, <3>2 DEF ContractStep, Tasks!Next, Tasks!OtherStep
  <2>3. CASE ~Running(s)
    <3>1. inbox' = [inbox EXCEPT ![s] = inbox[s]] BY <1>6, <2>3 DEF DispatchReplies
    <3>2. inbox \in [Streams -> Seq(ToStream)]
      BY SameContract, SameTypes DEF TypeOK, Tasks!TypeOK
    <3>3. UNCHANGED inbox BY <3>1, <3>2
    <3>. QED BY <1>4, <2>1, <3>3
  <2>. QED BY <2>2, <2>3
<1>. QED BY <1>3, <1>5, <1>6 DEF DispatchStep

\* Every step of the connection is one of the contract, or changes nothing it
\* speaks of.
LEMMA Implements ==
  ASSUME TypeOK, ContextFaithful, [Next]_vars
  PROVE  ContractStep
<1>1. CASE Reading \/ PeerCloses \/ ReaderStops \/ UNCHANGED vars
  BY <1>1, Stutters
     DEF Reading, ReadFrame, PeerCloses, ReaderStops, vars, streamVars, connVars
<1>2. CASE ConnStep \/ IdleTimeout
  BY <1>2, ErrorsImplement, OtherFramesImplement, StreamFrameImplements, MessagesImplement,
     DeliveriesImplement DEF ConnStep
<1>3. ASSUME NEW s \in Streams, StreamTask(s) PROVE ContractStep
  <2>1. UNCHANGED Owed BY <1>3 DEF StreamTask, Owed
  <2>2. Tasks!TaskStep(s) BY <1>3, <2>1, SameTask DEF StreamTask, Tasks!TaskStep, connVars
  <2>. QED BY <2>2 DEF ContractStep, Tasks!Next, Tasks!OtherStep
<1>. QED BY <1>1, <1>2, <1>3, DispatchImplements DEF Next, OtherThanReading

-----------------------------------------------------------------------------
(* What the context knows stays true *)

\* A stream task that makes a step was running, does not become one that has
\* not been started, and sends what it had ready to be sent.
LEMMA TaskGoesOn ==
  ASSUME TypeOK, NEW s \in Streams, StreamStep(s)
  PROVE  /\ Running(s) /\ task'[s].phase # "absent"
         /\ \A x \in Streams \ {s} : task'[x] = task[x]
         /\ \/ UNCHANGED toConn
            \/ task[s].out # <<>> /\ toConn' = Append(toConn, Head(task[s].out))
         /\ UNCHANGED connUp
<1>1. task \in [Streams -> Task] BY SameTypes, SameContract DEF TypeOK, Tasks!TypeOK
<1>2. task[s] \in Task BY <1>1
<1>3. ASSUME NEW t, NEW rest, Become(s, t, rest), t.phase # "absent"
      PROVE  task'[s].phase # "absent" /\ \A x \in Streams \ {s} : task'[x] = task[x]
  BY <1>1, <1>3 DEF Become
<1>4. \A phase : NewTask(phase).phase = phase BY DEF NewTask
<1>5. ASSUME NEW needed, NEW t, TopOfLoop(s, needed, t)
      PROVE  Running(s) /\ Become(s, t, inbox[s]) /\ UNCHANGED <<toConn, connUp>>
  BY <1>5 DEF TopOfLoop, AtTop
<1>6. CASE CompositeHeaders(s)
  <2>1. AskForHeaders(s, task[s]).phase = task[s].phase BY <1>2 DEF AskForHeaders, Task
  <2>. QED BY <1>3, <1>5, <1>6, <2>1 DEF CompositeHeaders, Running
<1>7. CASE CompositeTrailers(s)
  <2>1. AskForTrailers(s, task[s]).phase \in {task[s].phase, "panicked"}
    BY <1>2, <1>4 DEF AskForTrailers, Task
  <2>. QED BY <1>3, <1>5, <1>7, <2>1 DEF CompositeTrailers, Running
<1>8. CASE DispatchIfNeeded(s)
  <2>1. HandOver(s, task[s]).phase = task[s].phase BY <1>2 DEF HandOver, Task
  <2>. QED BY <1>3, <1>5, <1>8, <2>1 DEF DispatchIfNeeded, Running
<1>9. CASE RespondIfPossible(s)
  <2>1. Flush(s, task[s]).phase \in {task[s].phase, "ended"} BY <1>2, <1>4 DEF Flush, Task
  <2>. QED BY <1>3, <1>5, <1>9, <2>1 DEF RespondIfPossible, Running
<1>10. ASSUME NEW type \in {"FrameForRequest", "ResponseObject", "DecodingHeadersResponse",
                            "DecodingTrailersResponse"}, Receive(s, type)
       PROVE  /\ Running(s) /\ UNCHANGED <<toConn, connUp>>
              /\ task'[s].phase # "absent" /\ \A x \in Streams \ {s} : task'[x] = task[x]
  <2>. DEFINE m == Head(inbox[s])
  <2>1. /\ Running(s) /\ m.type = type /\ UNCHANGED <<toConn, connUp>>
        /\ Become(s, Handle(s, task[s], m), Tail(inbox[s]))
    BY <1>10 DEF Receive, Idle, AtTop
  <2>2. HandleFrame(s, task[s], m.frame).phase = task[s].phase
    BY <1>2 DEF HandleFrame, Accepted, Task
  <2>3. HandleResponse(s, task[s], m.size).phase = task[s].phase
    BY <1>2 DEF HandleResponse, Task
  <2>4. HandleDecodedHeaders(s, task[s], m.trailer).phase = task[s].phase
    BY <1>2 DEF HandleDecodedHeaders, Task
  <2>5. HandleDecodedTrailers(task[s]).phase \in {task[s].phase, "panicked"}
    BY <1>2, <1>4 DEF HandleDecodedTrailers, Task
  <2>6. Handle(s, task[s], m).phase \in {task[s].phase, "panicked"}
    BY <2>1, <2>2, <2>3, <2>4, <2>5 DEF Handle
  <2>. QED BY <1>3, <2>1, <2>6 DEF Running
<1>11. CASE ReceiveFrame(s) \/ ReceiveResponse(s) \/ ReceiveHeaders(s) \/ ReceiveTrailers(s)
  BY <1>10, <1>11 DEF ReceiveFrame, ReceiveResponse, ReceiveHeaders, ReceiveTrailers
<1>12. CASE Terminate(s) \/ SendFails(s)
  <2>1. /\ Running(s) /\ Become(s, NewTask("ended"), <<>>) /\ UNCHANGED <<toConn, connUp>>
    BY <1>12 DEF Terminate, SendFails, Idle, AtTop
  <2>. QED BY <1>3, <1>4, <2>1
<1>13. CASE Send(s)
  BY <1>1, <1>2, <1>13 DEF Send, Running, Task
<1>. QED BY <1>6, <1>7, <1>8, <1>9, <1>11, <1>12, <1>13 DEF StreamStep

\* A message on its way is of the stream that has sent it.
LEMMA SentByItself ==
  ASSUME TypeOK, Tasks!TasksInStep, NEW s \in Streams, task[s].out # <<>>
  PROVE  Head(task[s].out).sid = s
BY DEF Tasks!TasksInStep, Tasks!StreamInv, Tasks!Coherent

\* A context with the same streams, and what is left of the messages after some
\* were taken or dropped.
SameStreams(c) ==
  c.known = ctx.known /\ c.seenMax = ctx.seenMax /\ c.inflight = ctx.inflight
Remaining(messages) ==
  messages \in {<<>>, toConn} \/ (toConn # <<>> /\ messages = Tail(toConn))

LEMMA SameStreamsIn ==
  ASSUME TypeOK
  PROVE  /\ SameStreams(ctx)
         /\ \A e : SameStreams([ctx EXCEPT !.error = e])
         /\ \A e, s, t, n : SameStreams([ctx EXCEPT !.error = e, !.token[s] = t, !.active = n])
         /\ \A e, n : SameStreams([ctx EXCEPT !.maxActive = n, !.error = e])
         /\ \A n : SameStreams([ctx EXCEPT !.window = n]) /\ SameStreams([ctx EXCEPT !.active = n])
         /\ \A f : OnConnectionLevel(f) => /\ SameStreams(Processed(f, ctx))
                                           /\ \A e : SameStreams([Processed(f, ctx) EXCEPT !.error = e])
         /\ Remaining(<<>>) /\ Remaining(toConn)
         /\ toConn # <<>> => Remaining(Tail(toConn))
<1>1. ctx \in Context
  BY DEF TypeOK, OwnTypeOK
<1>2. ASSUME NEW f, OnConnectionLevel(f)
      PROVE  Processed(f, ctx) \in {ctx, [ctx EXCEPT !.goaway = LastStreamId(f.val)]}
  BY <1>2 DEF OnConnectionLevel, Processed
<1>3. ASSUME NEW f, OnConnectionLevel(f)
      PROVE  /\ SameStreams(Processed(f, ctx))
             /\ \A e : SameStreams([Processed(f, ctx) EXCEPT !.error = e])
  BY <1>1, <1>2, <1>3 DEF SameStreams, Context
<1>4. /\ SameStreams(ctx)
      /\ \A e : SameStreams([ctx EXCEPT !.error = e])
      /\ \A e, s, t, n : SameStreams([ctx EXCEPT !.error = e, !.token[s] = t, !.active = n])
      /\ \A e, n : SameStreams([ctx EXCEPT !.maxActive = n, !.error = e])
      /\ \A n : SameStreams([ctx EXCEPT !.window = n]) /\ SameStreams([ctx EXCEPT !.active = n])
  BY <1>1 DEF SameStreams, Context
<1>5. Remaining(<<>>) /\ Remaining(toConn) /\ (toConn # <<>> => Remaining(Tail(toConn)))
  BY DEF Remaining
<1>. QED BY <1>3, <1>4, <1>5

\* Steps that start no stream, dispatch nothing and open no header block.
LEMMA QuietKeepsFaith ==
  ASSUME TypeOK, ContextFaithful,
         SameStreams(ctx'), Remaining(toConn'), UNCHANGED <<task, stage, dispatch>>,
         UNCHANGED connUp \/ connUp' = FALSE
  PROVE  ContextFaithful'
<1>1. \A i \in 1..Len(toConn') : toConn'[i].sid \in ctx.known
  <2>1. toConn \in Seq(ToConnection) BY SameContract, SameTypes DEF TypeOK, Tasks!TypeOK
  <2>2. \A i \in 1..Len(toConn) : toConn[i].sid \in ctx.known BY DEF ContextFaithful
  <2>3. CASE toConn # <<>> /\ toConn' = Tail(toConn)
    <3>1. Len(toConn') = Len(toConn) - 1 /\ \A i \in 1..Len(toConn') : toConn'[i] = toConn[i + 1]
      BY <2>1, <2>3
    <3>2. \A i \in 1..Len(toConn') : i + 1 \in 1..Len(toConn) BY <2>1, <3>1
    <3>. QED BY <2>2, <3>1, <3>2
  <2>4. CASE toConn' = <<>> BY <2>4
  <2>. QED BY <2>2, <2>3, <2>4 DEF Remaining
<1>. QED BY <1>1 DEF ContextFaithful, SameStreams

LEMMA QuietSteps ==
  ASSUME TypeOK, ContextFaithful,
         \/ Reading \/ PeerCloses \/ ReaderStops \/ IdleTimeout
         \/ HandleConnectionError \/ HandleStreamError \/ DropOtherError
         \/ FrameInsideBlock \/ TakeConnectionFrame \/ TakeRefusedFrame
         \/ WriteResponse \/ DecodeHeaders \/ DecodeTrailers \/ TakeError \/ TakeCount
         \/ Deliver \/ DeliverFails \/ UNCHANGED vars
  PROVE  ContextFaithful'
<1>. DEFINE Quiet == /\ SameStreams(ctx') /\ Remaining(toConn')
                     /\ UNCHANGED <<task, stage, dispatch>>
                     /\ UNCHANGED connUp \/ connUp' = FALSE
<1>1. CASE Reading \/ PeerCloses \/ ReaderStops \/ UNCHANGED vars
  BY <1>1, SameStreamsIn, QuietKeepsFaith
     DEF Reading, ReadFrame, PeerCloses, ReaderStops, vars, streamVars, connVars
<1>2. CASE IdleTimeout \/ HandleConnectionError \/ DropOtherError
  <2>1. Quiet
    BY <1>2, SameStreamsIn DEF IdleTimeout, HandleConnectionError, DropOtherError, Leave, streamVars
  <2>. QED BY <2>1, QuietKeepsFaith
<1>3. CASE HandleStreamError
  <2>1. SameStreams(ctx') BY <1>3, SameStreamsIn DEF HandleStreamError, CancelToken
  <2>2. Quiet BY <1>3, <2>1, SameStreamsIn DEF HandleStreamError, Leave
  <2>. QED BY <2>2, QuietKeepsFaith
<1>4. CASE FrameInsideBlock \/ TakeRefusedFrame
  <2>1. SameStreams(ctx')
    <3>1. \/ UNCHANGED ctx
          \/ \E e : ctx' = [ctx EXCEPT !.error = e]
          \/ \E e, n : ctx' = [ctx EXCEPT !.maxActive = n, !.error = e]
      BY <1>4 DEF FrameInsideBlock, TakeRefusedFrame
    <3>2. /\ SameStreams(ctx) /\ \A e : SameStreams([ctx EXCEPT !.error = e])
          /\ \A e, n : SameStreams([ctx EXCEPT !.maxActive = n, !.error = e])
      BY SameStreamsIn
    <3>3. CASE UNCHANGED ctx \/ \E e : ctx' = [ctx EXCEPT !.error = e] BY <3>2, <3>3
    <3>4. CASE \E e, n : ctx' = [ctx EXCEPT !.maxActive = n, !.error = e]
      <4>1. PICK e, n : ctx' = [ctx EXCEPT !.maxActive = n, !.error = e] BY <3>4
      <4>2. SameStreams([ctx EXCEPT !.maxActive = n, !.error = e]) BY <3>2
      <4>. QED BY <4>1, <4>2
    <3>. QED BY <3>1, <3>3, <3>4
  <2>2. Quiet
    BY <1>4, <2>1, SameStreamsIn
       DEF FrameInsideBlock, TakeRefusedFrame, TakeFrame, Abandon, Leave, streamVars
  <2>. QED BY <2>2, QuietKeepsFaith
<1>5. CASE TakeConnectionFrame
  <2>1. PICK f \in ClientFrames : /\ TakeFrame(f) /\ OnConnectionLevel(f)
                                  /\ HandleConnectionFrame(f)
                                  /\ UNCHANGED <<task, inbox, stage>>
    BY <1>5 DEF TakeConnectionFrame
  <2>2. SameStreams(ctx')
    <3>1. \/ UNCHANGED ctx
          \/ \E e : ctx' = [ctx EXCEPT !.error = e]
          \/ \E e : ctx' = [Processed(f, ctx) EXCEPT !.error = e]
      BY <2>1 DEF HandleConnectionFrame
    <3>2. /\ SameStreams(ctx) /\ \A e : SameStreams([ctx EXCEPT !.error = e])
          /\ \A e : SameStreams([Processed(f, ctx) EXCEPT !.error = e])
      BY <2>1, SameStreamsIn, Zenon
    <3>. QED BY <3>1, <3>2, Zenon
  <2>3. Quiet
    BY <2>1, <2>2, SameStreamsIn DEF HandleConnectionFrame, TakeFrame, Abandon, Leave
  <2>. QED BY <2>3, QuietKeepsFaith
<1>6. CASE WriteResponse
  <2>1. Quiet
    BY <1>6, SameStreamsIn DEF WriteResponse, TakeMessage, KeepRunning, Abandon, Leave
  <2>. QED BY <2>1, QuietKeepsFaith
<1>7. CASE DecodeHeaders \/ DecodeTrailers \/ TakeError \/ TakeCount
  <2>1. Quiet
    BY <1>7, SameStreamsIn DEF DecodeHeaders, DecodeTrailers, TakeError, TakeCount, ReplyOrError,
         TakeMessage, KeepRunning
  <2>. QED BY <2>1, QuietKeepsFaith
<1>8. CASE Deliver \/ DeliverFails
  <2>1. Quiet BY <1>8, SameStreamsIn DEF Deliver, DeliverFails, Abandon, Leave
  <2>. QED BY <2>1, QuietKeepsFaith
<1>. QED BY <1>1, <1>2, <1>3, <1>4, <1>5, <1>6, <1>7, <1>8

\* A dispatch is started for a stream that has asked for it.
LEMMA DispatchKeepsFaith ==
  ASSUME TypeOK, ContextFaithful, StartDispatch \/ \E s \in Streams : DispatchStep(s)
  PROVE  ContextFaithful'
<1>1. dispatch \in [Streams -> Request] BY DEF TypeOK, OwnTypeOK
<1>2. CASE StartDispatch
  <2>. DEFINE s == Head(toConn).sid
  <2>1. toConn \in Seq(ToConnection) /\ toConn # <<>>
    BY <1>2, SameContract, SameTypes DEF StartDispatch, TakeMessage, TypeOK, Tasks!TypeOK
  <2>2. s \in ctx.known
    <3>1. Head(toConn) = toConn[1] /\ 1 \in 1..Len(toConn) BY <2>1
    <3>. QED BY <3>1 DEF ContextFaithful
  <2>3. /\ UNCHANGED <<task, stage, connUp>> /\ toConn' = Tail(toConn)
        /\ \E token : /\ ctx' = [ctx EXCEPT !.token[s] = token]
                      /\ dispatch' = [dispatch EXCEPT ![s] =
                                        [at |-> "waiting", token |-> token, size |-> 0]]
    BY <1>2 DEF StartDispatch, TakeMessage, KeepRunning
  <2>4. SameStreams(ctx') BY <2>3 DEF SameStreams, TypeOK, OwnTypeOK, Context
  <2>5. \A i \in 1..Len(toConn') : toConn'[i].sid \in ctx.known
    <3>1. Len(toConn') = Len(toConn) - 1 /\ \A i \in 1..Len(toConn') : toConn'[i] = toConn[i + 1]
      BY <2>1, <2>3
    <3>2. \A i \in 1..Len(toConn') : i + 1 \in 1..Len(toConn) BY <2>1, <3>1
    <3>. QED BY <3>1, <3>2 DEF ContextFaithful
  <2>6. \A x \in Streams : /\ dispatch'[x].at # "none" => x \in ctx.known
                           /\ dispatch'[x].at = "replying" => dispatch'[x].size \in Sizes
    BY <1>1, <2>2, <2>3 DEF ContextFaithful, Request
  <2>. QED BY <2>3, <2>4, <2>5, <2>6 DEF ContextFaithful, SameStreams
<1>3. ASSUME NEW s \in Streams, DispatchStep(s) PROVE ContextFaithful'
  <2>1. UNCHANGED <<ctx, task, stage, connUp, toConn>>
    BY <1>3 DEF DispatchStep, Acquire, DispatchCancelled, Dispatched, DispatchReplies,
         DispatchVars, connVars
  <2>2. /\ \A x \in Streams \ {s} : dispatch'[x] = dispatch[x]
        /\ dispatch[s].at # "none"
        /\ dispatch'[s].at = "replying" => dispatch'[s].size \in Sizes
    BY <1>1, <1>3
       DEF DispatchStep, Acquire, DispatchCancelled, Dispatched, DispatchReplies, Request
  <2>. QED BY <2>1, <2>2 DEF ContextFaithful
<1>. QED BY <1>2, <1>3

\* A task acts only when it is known, and says so.
LEMMA TaskKeepsFaith ==
  ASSUME TypeOK, ContextFaithful, Tasks!TasksInStep, NEW s \in Streams, StreamTask(s)
  PROVE  ContextFaithful'
<1>1. StreamStep(s) /\ UNCHANGED <<ctx, stage, dispatch>> BY DEF StreamTask, connVars
<1>2. /\ Running(s) /\ task'[s].phase # "absent"
      /\ \A x \in Streams \ {s} : task'[x] = task[x]
      /\ UNCHANGED toConn \/ (task[s].out # <<>> /\ toConn' = Append(toConn, Head(task[s].out)))
      /\ UNCHANGED connUp
  BY <1>1, TaskGoesOn
<1>3. s \in ctx.known BY <1>2 DEF Running, ContextFaithful
<1>4. \A x \in Streams : x \in ctx.known <=> task'[x].phase # "absent"
  BY <1>2, <1>3 DEF ContextFaithful
<1>5. \A i \in 1..Len(toConn') : toConn'[i].sid \in ctx.known
  <2>1. toConn \in Seq(ToConnection) BY SameContract, SameTypes DEF TypeOK, Tasks!TypeOK
  <2>2. CASE UNCHANGED toConn BY <2>2 DEF ContextFaithful
  <2>3. CASE task[s].out # <<>> /\ toConn' = Append(toConn, Head(task[s].out))
    <3>1. Head(task[s].out).sid = s BY <2>3, SentByItself
    <3>2. ASSUME NEW i \in 1..Len(toConn') PROVE toConn'[i].sid \in ctx.known
      <4>1. CASE i = Len(toConn) + 1 BY <1>3, <2>1, <2>3, <3>1, <4>1
      <4>2. CASE i \in 1..Len(toConn) BY <2>1, <2>3, <4>2 DEF ContextFaithful
      <4>. QED BY <2>1, <2>3, <3>2, <4>1, <4>2
    <3>. QED BY <3>2
  <2>. QED BY <1>2, <2>2, <2>3
<1>. QED BY <1>1, <1>2, <1>4, <1>5 DEF ContextFaithful

\* The count of active streams wraps.
LEMMA CountWraps ==
  ASSUME NEW n \in Int
  PROVE  Incremented(n) \in 0..(CountModulus - 1) /\ Decremented(n) \in 0..(CountModulus - 1)
<1>1. CountModulus \in Nat /\ CountModulus > 0 BY LimitsAssumption
<1>. QED BY <1>1 DEF Incremented, Decremented

\* add_stream and the updates of the largest identifiers.
LEMMA WithStreamIn ==
  ASSUME TypeOK, ContextFaithful, NEW f \in ClientFrames
  PROVE  /\ WithStream(f) \in Context
         /\ WithStream(f).inflight = ctx.inflight
         /\ WithStream(f).known = ctx.known \cup ({f.sid} \ {0})
         /\ ctx.seenMax <= WithStream(f).seenMax
         /\ f.sid # 0 => f.sid <= WithStream(f).seenMax
<1>. DEFINE d == f.sid
            c == WithStream(f)
<1>1. /\ d \in Streams \cup {0} /\ 0 \notin Streams /\ Streams \subseteq Nat
      /\ ctx \in Context
  BY ClientAssumption, StreamsAssumption DEF TypeOK, OwnTypeOK
<1>2. d \in Nat /\ ctx.seenMax \in Nat /\ ctx.active \in Int
  <2>1. ctx.seenMax \in Streams \cup {0} /\ ctx.active \in 0..(CountModulus - 1)
    BY <1>1 DEF Context
  <2>2. \A n \in Streams \cup {0} : n \in Nat BY <1>1
  <2>3. d \in Nat /\ ctx.seenMax \in Nat BY <1>1, <2>1, <2>2
  <2>4. ctx.active \in Int BY <2>1, LimitsAssumption
  <2>. QED BY <2>3, <2>4
<1>3. CASE ShouldInit(f)
  <2>1. c = [ctx EXCEPT !.known = @ \cup {d}, !.token[d] = "task",
                        !.active = Incremented(@), !.maxActive = MaxActiveAfter(f),
                        !.seenMax = Larger(@, d)]
    BY <1>3 DEF WithStream
  <2>2. Larger(ctx.seenMax, d) \in Streams \cup {0} /\ MaxActiveAfter(f) \in Streams \cup {0}
    BY <1>1 DEF Larger, MaxActiveAfter, Context
  <2>3. ctx.seenMax <= Larger(ctx.seenMax, d) /\ d <= Larger(ctx.seenMax, d)
    BY <1>2 DEF Larger
  <2>4. d # 0 /\ d \in Streams BY <1>1, <1>3 DEF ShouldInit
  <2>5. Incremented(ctx.active) \in 0..(CountModulus - 1) BY <1>2, CountWraps
  <2>6. [ctx.token EXCEPT ![d] = "task"] \in [Streams -> Tokens]
    BY <1>1 DEF Tokens, Context
  <2>. HIDE DEF c, d
  <2>7. c \in Context BY <1>1, <2>1, <2>2, <2>4, <2>5, <2>6 DEF Context
  <2>8. c.inflight = ctx.inflight /\ c.known = ctx.known \cup {d}
    BY <1>1, <2>1 DEF Context
  <2>9. c.seenMax = Larger(ctx.seenMax, d) BY <1>1, <2>1 DEF Context
  <2>. QED BY <2>3, <2>4, <2>7, <2>8, <2>9 DEF c, d
<1>4. CASE ~ShouldInit(f)
  <2>1. c = ctx /\ (d # 0 => d \in ctx.known) BY <1>4 DEF WithStream, ShouldInit
  <2>2. d # 0 => d \in Streams /\ d <= ctx.seenMax BY <1>1, <2>1 DEF ContextFaithful
  <2>. QED BY <1>1, <1>2, <2>1, <2>2
<1>. QED BY <1>3, <1>4

\* A frame opens and closes header blocks one at a time.
LEMMA StreamFrameKeepsFaith ==
  ASSUME TypeOK, ContextFaithful, TakeStreamFrame
  PROVE  ContextFaithful'
<1>1. PICK f \in ClientFrames :
        /\ TakeFrame(f) /\ ~InflightViolated(f) /\ ~OnConnectionLevel(f)
        /\ task' = IF ShouldInit(f) THEN [task EXCEPT ![f.sid] = NewTask("running")] ELSE task
        /\ ValidateAndForward(f, WithStream(f))
        /\ UNCHANGED <<inbox, wire>>
  BY DEF TakeStreamFrame
<1>. DEFINE d == f.sid
            c == WithStream(f)
<1>2. /\ d \in Streams \cup {0} /\ 0 \notin Streams /\ connUp
      /\ \A n \in Streams \cup {0} : n \in Nat
  BY <1>1, ClientAssumption, StreamsAssumption DEF TakeFrame, Selecting, Ready
<1>3. ctx.seenMax \in Nat /\ c.seenMax \in Nat
  <2>1. ctx.seenMax \in Streams \cup {0} /\ c.seenMax \in Streams \cup {0}
    BY WithStreamIn DEF TypeOK, OwnTypeOK, Context
  <2>. QED BY <1>2, <2>1
<1>4. /\ c \in Context /\ c.inflight = ctx.inflight
      /\ c.known = ctx.known \cup ({d} \ {0})
      /\ ctx.seenMax <= c.seenMax /\ (d # 0 => d <= c.seenMax)
  BY WithStreamIn
<1>. HIDE DEF c
<1>5. \A x \in Streams : x \in c.known <=> task'[x].phase # "absent"
  <2>1. task \in [Streams -> Task] BY SameTypes, SameContract DEF TypeOK, Tasks!TypeOK
  <2>2. NewTask("running").phase # "absent" BY DEF NewTask
  <2>. QED BY <1>1, <1>2, <1>4, <2>1, <2>2 DEF ContextFaithful, ShouldInit
<1>6. \A x \in Streams : x \in c.known => x <= c.seenMax
  <2>1. ASSUME NEW x \in Streams, x \in ctx.known PROVE x <= c.seenMax
    <3>1. x \in Nat /\ x <= ctx.seenMax BY <1>2, <2>1 DEF ContextFaithful
    <3>. QED BY <1>3, <1>4, <3>1
  <2>. QED BY <1>4, <2>1
<1>7. UNCHANGED dispatch /\ toConn' \in {<<>>, toConn}
  BY <1>1 DEF TakeFrame, ValidateAndForward, Abandon, Leave
<1>8. \A i \in 1..Len(toConn') : toConn'[i].sid \in c.known
  BY <1>4, <1>7 DEF ContextFaithful
<1>9. \A x \in Streams : /\ dispatch'[x].at # "none" => x \in c.known
                         /\ dispatch'[x].at = "replying" => dispatch'[x].size \in Sizes
  BY <1>4, <1>7 DEF ContextFaithful
<1>10. ASSUME ctx'.known = c.known, ctx'.seenMax = c.seenMax,
             \A x \in Streams : connUp' /\ BlockOpen(stage'[x]) => ctx'.inflight = x
      PROVE  ContextFaithful'
  BY <1>5, <1>6, <1>8, <1>9, <1>10 DEF ContextFaithful
<1>11. \A x \in Streams : BlockOpen(stage[x]) => c.inflight = x
  BY <1>2, <1>4 DEF ContextFaithful
<1>12. CASE UNCHANGED stage /\ (ctx' = c \/ \E e : ctx' = [c EXCEPT !.error = e])
  BY <1>4, <1>10, <1>11, <1>12 DEF Context
<1>13. CASE /\ ctx' = Processed(f, c)
            /\ stage' = IF d \in c.known THEN [stage EXCEPT ![d] = StageAfter(@, f)] ELSE stage
  <2>1. ctx'.known = c.known /\ ctx'.seenMax = c.seenMax
    BY <1>4, <1>13 DEF Processed, Context
  <2>2. stage \in [Streams -> Stages] BY DEF TypeOK, Contract!TypeOK, Contract!Stages, Stages
  <2>3. /\ d = 0 => UNCHANGED stage
        /\ d # 0 => stage' = [stage EXCEPT ![d] = StageAfter(stage[d], f)]
    BY <1>2, <1>4, <1>13 DEF Context
  <2>4. c.inflight = 0 \/ (d = c.inflight /\ f.kind = "CONTINUATION")
    BY <1>1, <1>4 DEF InflightViolated
  <2>5. CASE f.kind = "HEADERS"
    <3>1. c.inflight = 0 BY <2>4, <2>5
    <3>2. ctx'.inflight = IF f.eh THEN 0 ELSE d
      BY <1>4, <1>13, <2>5, <3>1 DEF Processed, Context
    <3>3. BlockOpen(StageAfter(stage[d], f)) => ~f.eh BY <2>5 DEF StageAfter, BlockOpen
    <3>4. \A x \in Streams : BlockOpen(stage'[x]) => ctx'.inflight = x
      BY <1>2, <1>11, <2>2, <2>3, <3>1, <3>2, <3>3
    <3>. QED BY <1>10, <2>1, <3>4
  <2>6. CASE f.kind = "CONTINUATION"
    <3>1. ctx'.inflight = IF c.inflight = d /\ f.eh THEN 0 ELSE c.inflight
      BY <1>4, <1>13, <2>6 DEF Processed, Context
    <3>2. BlockOpen(StageAfter(stage[d], f)) => BlockOpen(stage[d]) /\ ~f.eh
      BY <2>6 DEF StageAfter, BlockOpen
    <3>3. \A x \in Streams : BlockOpen(stage'[x]) => ctx'.inflight = x
      BY <1>2, <1>11, <2>2, <2>3, <2>4, <3>1, <3>2
    <3>. QED BY <1>10, <2>1, <3>3
  <2>7. CASE f.kind \notin {"HEADERS", "CONTINUATION"}
    <3>1. ctx'.inflight = c.inflight BY <1>4, <1>13, <2>7 DEF Processed, Context
    <3>2. BlockOpen(StageAfter(stage[d], f)) => BlockOpen(stage[d])
      BY <2>7 DEF StageAfter, BlockOpen
    <3>3. \A x \in Streams : BlockOpen(stage'[x]) => ctx'.inflight = x
      BY <1>2, <1>11, <2>2, <2>3, <3>1, <3>2
    <3>. QED BY <1>10, <2>1, <3>3
  <2>. QED BY <2>5, <2>6, <2>7
<1>. QED BY <1>1, <1>12, <1>13 DEF ValidateAndForward, c

-----------------------------------------------------------------------------
(* The types of the connection's own state *)

LEMMA ErrorTypes ==
  /\ NoError \in Error /\ OtherError \in Error /\ Handlers!ProtocolError \in Error
  /\ \A code \in ErrorCodes, sid \in Nat : StreamError(sid, code) \in Error
  /\ \A code \in ErrorCodes : ConnectionError(code) \in Error
BY SameErrors DEF NoError, OtherError, StreamError, ConnectionError, Error, ErrorCodes,
                  Handlers!ProtocolError

\* A message of a task carries what its type says.
LEMMA MessageTypes ==
  ASSUME TypeOK, toConn # <<>>
  PROVE  LET m == Head(toConn) IN
         /\ m.sid \in Streams
         /\ m.type = "DoResponseToClient" => m.frames \in Seq(OutFrame)
         /\ m.type = "Error" => m.error \in Error
         /\ m.type = "ActiveStreamCount" => m.cmd \in CountCommands
<1>1. Head(toConn) \in ToConnection BY SameContract, SameTypes DEF TypeOK, Tasks!TypeOK
<1>. QED BY <1>1 DEF ToConnection

\* Updates of a context.
LEMMA ContextTypes ==
  ASSUME NEW c \in Context
  PROVE  /\ \A e \in Error : [c EXCEPT !.error = e] \in Context
         /\ \A w \in 0..MaxWindow : [c EXCEPT !.window = w] \in Context
         /\ \A n \in 0..(CountModulus - 1) : [c EXCEPT !.active = n] \in Context
         /\ \A s \in Nat, t \in Tokens : [c EXCEPT !.token[s] = t] \in Context
         /\ \A e \in Error, n \in Streams \cup {0} :
              [c EXCEPT !.maxActive = n, !.error = e] \in Context
         /\ \A e \in Error, s \in Nat, n \in 0..(CountModulus - 1) :
              [c EXCEPT !.error = e, !.token[s] = "none", !.active = n] \in Context
<1>1. \A s \in Nat, t \in Tokens : [c.token EXCEPT ![s] = t] \in [Streams -> Tokens]
  BY DEF Context
<1>2. "none" \in Tokens BY DEF Tokens
<1>. QED BY <1>1, <1>2 DEF Context

\* An identifier in a GOAWAY is a number, and itself if the mask lets it through.
LEMMA LastStreamIdType ==
  ASSUME NEW id \in Nat
  PROVE  /\ LastStreamId(id) \in Nat
         /\ id < GoawayIds => LastStreamId(id) = id
BY LimitsAssumption DEF LastStreamId

LEMMA ProcessedType ==
  ASSUME NEW c \in Context, NEW f \in ClientFrames, Verdict(f, c) = NoError
  PROVE  Processed(f, c) \in Context
<1>1. f \in Frame /\ f.sid \in Streams \cup {0} /\ f.val \in Nat
  BY ClientAssumption DEF Frame
<1>2. CASE f.kind = "GOAWAY"
  BY <1>1, <1>2, LastStreamIdType DEF Processed, Context
<1>3. CASE f.kind = "WINDOW_UPDATE" /\ f.sid = 0
  <2>1. c.window + f.val <= MaxWindow BY <1>1, <1>3, WindowUpdateFits
  <2>2. c.window + f.val \in 0..MaxWindow BY <1>1, <2>1, WindowAssumption DEF Context
  <2>. QED BY <1>3, <2>2 DEF Processed, Context
<1>4. CASE f.kind = "HEADERS" \/ f.kind = "CONTINUATION"
  BY <1>1, <1>4 DEF Processed, Context
<1>5. CASE /\ f.kind \notin {"GOAWAY", "HEADERS", "CONTINUATION"}
           /\ ~(f.kind = "WINDOW_UPDATE" /\ f.sid = 0)
  BY <1>5 DEF Processed
<1>. QED BY <1>2, <1>3, <1>4, <1>5

LEMMA DecodeErrorType ==
  ASSUME NEW s \in Streams, NEW outcome
  PROVE  DecodeError(s, outcome) \in Error
<1>1. s \in Nat BY StreamsAssumption
<1>2. "PROTOCOL_ERROR" \in ErrorCodes /\ "COMPRESSION_ERROR" \in ErrorCodes BY DEF ErrorCodes
<1>. QED BY <1>1, <1>2, ErrorTypes DEF DecodeError

\* The window covers what is written of a response.
LEMMA WindowCovers ==
  ASSUME NEW window \in 0..MaxWindow, NEW frames \in Seq(OutFrame), NEW n \in 0..Len(frames),
         CoversFirst(n, frames, window)
  PROVE  window - DataLength(SubSeq(frames, 1, n)) \in 0..MaxWindow
<1>. DEFINE now == SubSeq(frames, 1, n)
<1>1. now \in Seq(OutFrame) /\ Len(now) = n /\ \A i \in 1..n : now[i] = frames[i]
  OBVIOUS
<1>2. CASE \E i \in 1..Len(now) : now[i].kind = "DATA"
  <2>. DEFINE k == CHOOSE i \in 1..Len(now) : now[i].kind = "DATA"
  <2>1. k \in 1..n /\ now[k].kind = "DATA" BY <1>1, <1>2
  <2>. HIDE DEF k
  <2>2. frames[k].len <= window BY <1>1, <2>1 DEF CoversFirst, Affordable
  <2>3. frames[k].len \in Nat
    <3>1. k \in 1..Len(frames) BY <2>1
    <3>2. frames[k] \in OutFrame BY <3>1
    <3>. QED BY <3>2 DEF OutFrame
  <2>4. DataLength(now) = frames[k].len BY <1>1, <1>2, <2>1 DEF DataLength, k
  <2>. HIDE DEF now
  <2>5. window \in Nat /\ window <= MaxWindow BY WindowAssumption
  <2>6. window - frames[k].len \in 0..MaxWindow BY <2>2, <2>3, <2>5, WindowAssumption
  <2>. QED BY <2>4, <2>6 DEF now
<1>3. CASE ~\E i \in 1..Len(now) : now[i].kind = "DATA"
  <2>1. DataLength(now) = 0 BY <1>3 DEF DataLength
  <2>. QED BY <2>1
<1>. QED BY <1>2, <1>3

LEMMA WrittenTypes ==
  ASSUME TypeOK
  PROVE  /\ GoawayFor(ctx.seenMax, ctx.error.code) \in WireFrame
         /\ ResetFor(ctx.error.code) \in WireFrame
         /\ \A f \in ClientFrames : f.kind \in {"SETTINGS", "PING"} => AckOf(f) \in WireFrame
         /\ \A f \in OutFrame : ResponseFrame(f) \in WireFrame
<1>1. ctx.seenMax \in Nat /\ ctx.error.code \in ErrorCodes
  <2>1. ctx.seenMax \in Streams \cup {0} /\ ctx.error \in Error
    BY DEF TypeOK, OwnTypeOK, Context
  <2>2. \A n \in Streams \cup {0} : n \in Nat BY StreamsAssumption
  <2>3. ctx.error.code \in ErrorCodes BY <2>1 DEF Error
  <2>. QED BY <2>1, <2>2, <2>3
<1>2. "NO_ERROR" \in ErrorCodes BY DEF ErrorCodes
<1>3. \A f \in ClientFrames : f.kind \in FrameKinds /\ f.len \in Nat
  BY ClientAssumption DEF Frame
<1>4. \A f \in OutFrame : f.kind \in {"HEADERS", "DATA"} /\ f.len \in Nat /\ f.es \in BOOLEAN
  BY DEF OutFrame
<1>5. LastStreamId(ctx.seenMax) \in Nat BY <1>1, LastStreamIdType
<1>. QED BY <1>1, <1>2, <1>3, <1>4, <1>5
         DEF GoawayFor, ResetFor, AckOf, ResponseFrame, Written, WireFrame, FrameKinds

\* The reader, and the tokens.
LEMMA ReaderStep ==
  ASSUME TypeOK, [Next]_vars
  PROVE  /\ reader' \in {"reading", "ended"} /\ peer' \in {"open", "closed"}
         /\ fromReader' \in Seq(ClientFrames) /\ framesRead' \in 0..MaxFrames
         /\ root' \in BOOLEAN /\ fresh' \in [Streams -> BOOLEAN]
<1>. DEFINE Reads(r, p, q, n) == /\ r \in {"reading", "ended"} /\ p \in {"open", "closed"}
                                 /\ q \in Seq(ClientFrames) /\ n \in 0..MaxFrames
            Cancels(r, f) == r \in BOOLEAN /\ f \in [Streams -> BOOLEAN]
<1>1. Reads(reader, peer, fromReader, framesRead) /\ Cancels(root, fresh)
  BY DEF TypeOK, OwnTypeOK
<1>2. <<>> \in Seq(ClientFrames) /\ (fromReader # <<>> => Tail(fromReader) \in Seq(ClientFrames))
  BY <1>1
<1>3. CASE Reading
  <2>1. PICK f \in ClientFrames : ReadFrame(f) BY <1>3 DEF Reading
  <2>2. framesRead' \in 0..MaxFrames BY <1>1, <2>1, LimitsAssumption DEF ReadFrame
  <2>3. fromReader' \in Seq(ClientFrames) BY <1>1, <2>1 DEF ReadFrame
  <2>. QED BY <1>1, <2>1, <2>2, <2>3 DEF ReadFrame, connVars
<1>4. CASE PeerCloses \/ ReaderStops \/ UNCHANGED vars
  BY <1>1, <1>4 DEF PeerCloses, ReaderStops, vars, connVars, readerVars
<1>5. CASE HandleConnectionError \/ IdleTimeout
  BY <1>1, <1>2, <1>5 DEF HandleConnectionError, IdleTimeout, CancelAll, Leave
<1>6. CASE HandleStreamError
  <2>1. Cancels(root', fresh') BY <1>1, <1>6 DEF HandleStreamError, CancelToken
  <2>. QED BY <1>1, <1>2, <1>6, <2>1 DEF HandleStreamError, Leave
<1>7. CASE DropOtherError \/ \E s \in Streams : StreamTask(s) \/ DispatchStep(s)
  BY <1>1, <1>7 DEF DropOtherError, readerVars, StreamTask, connVars, DispatchStep, Acquire,
     DispatchCancelled, Dispatched, DispatchReplies, DispatchVars
<1>8. CASE FrameInsideBlock \/ TakeConnectionFrame \/ TakeStreamFrame \/ TakeRefusedFrame
  <2>1. PICK f \in ClientFrames :
          /\ TakeFrame(f)
          /\ UNCHANGED <<root, fresh>>
          /\ fromReader' \in {<<>>, Tail(fromReader)}
    BY <1>8 DEF FrameInsideBlock, TakeConnectionFrame, TakeStreamFrame, TakeRefusedFrame,
       HandleConnectionFrame, ValidateAndForward, Abandon, Leave
  <2>. QED BY <1>1, <1>2, <2>1 DEF TakeFrame
<1>9. CASE \/ StartDispatch \/ WriteResponse \/ DecodeHeaders \/ DecodeTrailers
           \/ TakeError \/ TakeCount
  <2>1. UNCHANGED <<reader, framesRead, peer>>
    BY <1>9 DEF StartDispatch, WriteResponse, DecodeHeaders, DecodeTrailers, TakeError,
       TakeCount, TakeMessage
  <2>2. UNCHANGED <<root, fresh>> /\ fromReader' \in {<<>>, fromReader}
    BY <1>9 DEF StartDispatch, WriteResponse, DecodeHeaders, DecodeTrailers, TakeError,
       TakeCount, KeepRunning, ReplyOrError, Abandon, Leave
  <2>. QED BY <1>1, <1>2, <2>1, <2>2
<1>10. CASE Deliver \/ DeliverFails
  <2>1. /\ UNCHANGED <<reader, framesRead, peer, root, fresh>>
        /\ fromReader' \in {<<>>, fromReader}
    BY <1>10 DEF Deliver, DeliverFails, readerVars, Abandon, Leave
  <2>. QED BY <1>1, <1>2, <2>1
<1>. QED BY <1>3, <1>4, <1>5, <1>6, <1>7, <1>8, <1>9, <1>10 DEF Next, OtherThanReading, ConnStep

\* What is written, what is put aside and what is dispatched.
LEMMA OutputStep ==
  ASSUME TypeOK, [Next]_vars
  PROVE  /\ wire' \in [Streams \cup {0} -> Seq(WireFrame)]
         /\ parked' \in Seq(Parked)
         /\ dispatch' \in [Streams -> Request]
<1>1. /\ wire \in [Streams \cup {0} -> Seq(WireFrame)] /\ parked \in Seq(Parked)
      /\ dispatch \in [Streams -> Request]
  BY DEF TypeOK, OwnTypeOK
<1>2. ASSUME NEW sid, NEW frames \in Seq(WireFrame), Write(sid, frames)
      PROVE  wire' \in [Streams \cup {0} -> Seq(WireFrame)]
  <2>1. ASSUME sid \in Streams \cup {0} PROVE wire[sid] \o frames \in Seq(WireFrame)
    BY <1>1, <2>1
  <2>. QED BY <1>1, <1>2, <2>1 DEF Write
<1>3. <<>> \in Seq(WireFrame) /\ \A frame \in WireFrame : <<frame>> \in Seq(WireFrame)
  OBVIOUS
<1>4. CASE \/ Reading \/ PeerCloses \/ ReaderStops \/ IdleTimeout \/ DropOtherError
           \/ FrameInsideBlock \/ TakeStreamFrame \/ TakeRefusedFrame
           \/ DecodeHeaders \/ DecodeTrailers \/ TakeError \/ TakeCount
           \/ Deliver \/ DeliverFails \/ (\E s \in Streams : StreamTask(s)) \/ UNCHANGED vars
  <2>1. UNCHANGED <<wire, parked, dispatch>>
    BY <1>4 DEF Reading, ReadFrame, PeerCloses, ReaderStops, IdleTimeout, DropOtherError,
       FrameInsideBlock, TakeStreamFrame, TakeRefusedFrame, TakeFrame, DecodeHeaders,
       DecodeTrailers, ReplyOrError, TakeError, TakeCount, Deliver, DeliverFails, StreamTask,
       vars, connVars
  <2>. QED BY <1>1, <2>1
<1>5. CASE HandleConnectionError \/ HandleStreamError \/ TakeConnectionFrame
  <2>1. UNCHANGED <<parked, dispatch>>
    BY <1>5 DEF HandleConnectionError, HandleStreamError, TakeConnectionFrame, TakeFrame
  <2>2. UNCHANGED wire \/ \E sid \in Nat, frames \in Seq(WireFrame) : Write(sid, frames)
    <3>1. ASSUME NEW frame \in WireFrame, NEW sent
          PROVE  (IF sent THEN <<frame>> ELSE <<>>) \in Seq(WireFrame)
      BY <1>3
    <3>2. CASE HandleConnectionError
      <4>1. PICK written \in WriteOutcomes :
              Write(0, IF written THEN <<GoawayFor(ctx.seenMax, ctx.error.code)>> ELSE <<>>)
        BY <3>2 DEF HandleConnectionError
      <4>. QED BY <4>1, <3>1, WrittenTypes
    <3>3. CASE HandleStreamError
      <4>1. UNCHANGED wire \/ Write(ctx.error.sid, <<ResetFor(ctx.error.code)>>)
        BY <3>3 DEF HandleStreamError
      <4>2. ctx.error.sid \in Nat BY DEF TypeOK, OwnTypeOK, Context, Error
      <4>. QED BY <4>1, <4>2, <1>3, WrittenTypes
    <3>4. CASE TakeConnectionFrame
      <4>1. PICK f \in ClientFrames : HandleConnectionFrame(f)
        BY <3>4 DEF TakeConnectionFrame
      <4>2. CASE \E written \in WriteOutcomes :
                   Write(0, IF Handlers!NeedsAck(f) /\ written THEN <<AckOf(f)>> ELSE <<>>)
        <5>1. PICK written \in WriteOutcomes :
                Write(0, IF Handlers!NeedsAck(f) /\ written THEN <<AckOf(f)>> ELSE <<>>)
          BY <4>2
        <5>2. Handlers!NeedsAck(f) => AckOf(f) \in WireFrame
          BY WrittenTypes DEF Handlers!NeedsAck
        <5>3. (IF Handlers!NeedsAck(f) /\ written THEN <<AckOf(f)>> ELSE <<>>) \in Seq(WireFrame)
          BY <1>3, <5>2
        <5>. QED BY <5>1, <5>3
      <4>. QED BY <4>1, <4>2 DEF HandleConnectionFrame
    <3>. QED BY <1>5, <3>2, <3>3, <3>4
  <2>. QED BY <1>1, <1>2, <2>1, <2>2
<1>6. CASE StartDispatch
  <2>1. Head(toConn).sid \in Streams
    BY <1>6, MessageTypes DEF StartDispatch, TakeMessage
  <2>2. ctx.token[Head(toConn).sid] \in Tokens BY <2>1 DEF TypeOK, OwnTypeOK, Context
  <2>3. \A token \in Tokens : [at |-> "waiting", token |-> token, size |-> 0] \in Request
    BY DEF Request
  <2>4. dispatch' \in [Streams -> Request]
    BY <1>1, <1>6, <2>1, <2>2, <2>3 DEF StartDispatch, Tokens
  <2>. QED BY <1>1, <1>6, <2>4 DEF StartDispatch
<1>7. CASE WriteResponse
  <2>. DEFINE s == Head(toConn).sid
              frames == Head(toConn).frames
  <2>1. s \in Streams /\ frames \in Seq(OutFrame)
    BY <1>7, MessageTypes DEF WriteResponse, TakeMessage
  <2>2. CASE UNCHANGED <<parked, wire>>
    BY <1>1, <1>7, <2>2 DEF WriteResponse
  <2>3. CASE \E n \in 0..Len(frames) :
               /\ Write(s, [i \in 1..n |-> ResponseFrame(SubSeq(frames, 1, n)[i])])
               /\ parked' = parked \o [i \in 1..Len(SubSeq(frames, n + 1, Len(frames))) |->
                              [sid |-> s, frame |-> SubSeq(frames, n + 1, Len(frames))[i]]]
    <3>1. PICK n \in 0..Len(frames) :
               /\ Write(s, [i \in 1..n |-> ResponseFrame(SubSeq(frames, 1, n)[i])])
               /\ parked' = parked \o [i \in 1..Len(SubSeq(frames, n + 1, Len(frames))) |->
                              [sid |-> s, frame |-> SubSeq(frames, n + 1, Len(frames))[i]]]
      BY <2>3
    <3>. DEFINE now == SubSeq(frames, 1, n)
                later == SubSeq(frames, n + 1, Len(frames))
    <3>2. now \in Seq(OutFrame) /\ Len(now) = n /\ later \in Seq(OutFrame) BY <2>1
    <3>. HIDE DEF now, later
    <3>3. \A i \in 1..n : ResponseFrame(now[i]) \in WireFrame BY <3>2, WrittenTypes
    <3>4. [i \in 1..n |-> ResponseFrame(now[i])] \in Seq(WireFrame) BY <3>2, <3>3
    <3>5. \A i \in 1..Len(later) : [sid |-> s, frame |-> later[i]] \in Parked
      BY <2>1, <3>2 DEF Parked
    <3>6. [i \in 1..Len(later) |-> [sid |-> s, frame |-> later[i]]] \in Seq(Parked)
      BY <3>2, <3>5
    <3>7. parked' \in Seq(Parked)
      <4>1. \A x, y \in Seq(Parked) : x \o y \in Seq(Parked) OBVIOUS
      <4>2. parked' = parked \o [i \in 1..Len(later) |-> [sid |-> s, frame |-> later[i]]]
        BY <3>1 DEF later
      <4>. QED BY <1>1, <3>6, <4>1, <4>2
    <3>8. wire' \in [Streams \cup {0} -> Seq(WireFrame)] BY <1>2, <3>1, <3>4 DEF now
    <3>. QED BY <1>1, <1>7, <3>7, <3>8 DEF WriteResponse
  <2>. QED BY <1>7, <2>2, <2>3 DEF WriteResponse
<1>8. ASSUME NEW s \in Streams, DispatchStep(s)
      PROVE  UNCHANGED <<wire, parked>> /\ dispatch' \in [Streams -> Request]
  <2>1. UNCHANGED <<wire, parked>>
    BY <1>8 DEF DispatchStep, Acquire, DispatchCancelled, Dispatched, DispatchReplies,
       DispatchVars, connVars
  <2>2. Sizes \subseteq Nat BY ClientAssumption
  <2>3. CASE Acquire(s) \/ DispatchCancelled(s)
    BY <1>1, <2>1, <2>3 DEF Acquire, DispatchCancelled, Request
  <2>4. CASE Dispatched(s)
    BY <1>1, <2>1, <2>2, <2>4, ZenonT(40) DEF Dispatched, Request
  <2>5. CASE DispatchReplies(s)
    BY <1>1, <2>1, <2>5 DEF DispatchReplies, Request
  <2>. QED BY <1>8, <2>1, <2>3, <2>4, <2>5 DEF DispatchStep
<1>. QED BY <1>1, <1>4, <1>5, <1>6, <1>7, <1>8 DEF Next, OtherThanReading, ConnStep

\* The context: counts wrap, and windows stay within their width.
LEMMA ContextStep ==
  ASSUME TypeOK, ContextFaithful, [Next]_vars
  PROVE  ctx' \in Context
<1>1. ctx \in Context /\ ctx.error \in Error /\ ctx.active \in Int
  <2>1. ctx \in Context /\ ctx.active \in 0..(CountModulus - 1) /\ ctx.error \in Error
    BY DEF TypeOK, OwnTypeOK, Context
  <2>. QED BY <2>1, LimitsAssumption
<1>2. CASE \/ Reading \/ PeerCloses \/ ReaderStops \/ IdleTimeout \/ Deliver
           \/ (\E s \in Streams : StreamTask(s) \/ DispatchStep(s)) \/ UNCHANGED vars
  <2>1. UNCHANGED ctx
    BY <1>2 DEF Reading, ReadFrame, PeerCloses, ReaderStops, IdleTimeout, Deliver, StreamTask,
       DispatchStep, Acquire, DispatchCancelled, Dispatched, DispatchReplies, DispatchVars,
       vars, connVars
  <2>. QED BY <1>1, <2>1
<1>3. CASE HandleConnectionError \/ DropOtherError \/ FrameInsideBlock \/ DeliverFails
  <2>1. UNCHANGED ctx \/ \E e \in Error : ctx' = [ctx EXCEPT !.error = e]
    BY <1>3, ErrorTypes DEF HandleConnectionError, DropOtherError, FrameInsideBlock, DeliverFails
  <2>. QED BY <1>1, <2>1, ContextTypes
<1>4. CASE HandleStreamError
  <2>1. Decremented(ctx.active) \in 0..(CountModulus - 1) BY <1>1, CountWraps
  <2>2. CASE ctx' = [ctx EXCEPT !.error = NoError] BY <1>1, <2>2, ContextTypes, ErrorTypes
  <2>3. CASE ctx' = [ctx EXCEPT !.error = NoError, !.token[ctx.error.sid] = "none",
                                !.active = Decremented(ctx.active)]
    <3>1. \A e \in Error, s \in Nat, n \in 0..(CountModulus - 1) :
            [ctx EXCEPT !.error = e, !.token[s] = "none", !.active = n] \in Context
      BY <1>1, ContextTypes
    <3>2. ctx.error.sid \in Nat BY <1>1 DEF Error
    <3>. QED BY <2>1, <2>3, <3>1, <3>2, ErrorTypes
  <2>. QED BY <1>4, <2>2, <2>3 DEF HandleStreamError, CancelToken
<1>5. ASSUME NEW f \in ClientFrames, NEW c \in Context,
             \/ ctx' = c
             \/ Verdict(f, c) # NoError /\ ctx' = [c EXCEPT !.error = Verdict(f, c)]
             \/ Verdict(f, c) = NoError /\ ctx' = Processed(f, c)
             \/ /\ Verdict(f, c) = NoError
                /\ \E e \in Error : ctx' = [Processed(f, c) EXCEPT !.error = e]
      PROVE  ctx' \in Context
  <2>1. Verdict(f, c) \in Error BY ClientAssumption, VerdictType
  <2>2. Verdict(f, c) = NoError => Processed(f, c) \in Context BY ProcessedType
  <2>. HIDE DEF Processed
  <2>. QED BY <1>5, <2>1, <2>2, ContextTypes
<1>6. CASE TakeConnectionFrame
  <2>1. PICK f \in ClientFrames : HandleConnectionFrame(f) BY <1>6 DEF TakeConnectionFrame
  <2>2. \A ok : Check(ok, OtherError) \in Error BY ErrorTypes DEF Check
  <2>3. \/ ctx' = ctx
        \/ Verdict(f, ctx) # NoError /\ ctx' = [ctx EXCEPT !.error = Verdict(f, ctx)]
        \/ /\ Verdict(f, ctx) = NoError
           /\ \E e \in Error : ctx' = [Processed(f, ctx) EXCEPT !.error = e]
    BY <2>1, <2>2 DEF HandleConnectionFrame
  <2>. QED BY <1>1, <1>5, <2>3
<1>7. CASE TakeStreamFrame
  <2>1. PICK f \in ClientFrames : ValidateAndForward(f, WithStream(f))
    BY <1>7 DEF TakeStreamFrame
  <2>2. WithStream(f) \in Context BY WithStreamIn
  <2>. QED BY <1>5, <2>1, <2>2 DEF ValidateAndForward
<1>8. CASE TakeRefusedFrame
  <2>1. PICK f \in ClientFrames :
          ctx' = IF ShouldIgnore(f) THEN ctx
                 ELSE [ctx EXCEPT !.maxActive = MaxActiveAfter(f), !.error = Handlers!ProtocolError]
    BY <1>8 DEF TakeRefusedFrame
  <2>2. MaxActiveAfter(f) \in Streams \cup {0}
    BY <1>1, ClientAssumption DEF MaxActiveAfter, Larger, Context
  <2>. QED BY <1>1, <2>1, <2>2, ContextTypes, ErrorTypes
<1>9. CASE StartDispatch
  <2>. DEFINE s == Head(toConn).sid
  <2>1. s \in Streams BY <1>9, MessageTypes DEF StartDispatch, TakeMessage
  <2>2. \E token \in Tokens : ctx' = [ctx EXCEPT !.token[s] = token]
    <3>1. ctx.token[s] \in Tokens BY <1>1, <2>1 DEF Context
    <3>. QED BY <1>9, <3>1 DEF StartDispatch, Tokens
  <2>3. PICK token \in Tokens : ctx' = [ctx EXCEPT !.token[s] = token] BY <2>2
  <2>4. s \in Nat BY <2>1, StreamsAssumption
  <2>5. [ctx EXCEPT !.token[s] = token] \in Context BY <1>1, <2>4, ContextTypes
  <2>. QED BY <2>3, <2>5
<1>10. CASE WriteResponse
  <2>1. Head(toConn).frames \in Seq(OutFrame) /\ ctx.window \in 0..MaxWindow
    BY <1>1, <1>10, MessageTypes DEF WriteResponse, TakeMessage, Context
  <2>2. UNCHANGED ctx \/ \E w \in 0..MaxWindow : ctx' = [ctx EXCEPT !.window = w]
    BY <1>10, <2>1, WindowCovers DEF WriteResponse
  <2>. QED BY <1>1, <2>2, ContextTypes
<1>11. CASE DecodeHeaders \/ DecodeTrailers
  <2>1. Head(toConn).sid \in Streams
    BY <1>11, MessageTypes DEF DecodeHeaders, DecodeTrailers, TakeMessage
  <2>2. \E outcome : ctx' = [ctx EXCEPT !.error = DecodeError(Head(toConn).sid, outcome)]
    BY <1>11 DEF DecodeHeaders, DecodeTrailers, ReplyOrError
  <2>. QED BY <1>1, <2>1, <2>2, DecodeErrorType, ContextTypes
<1>12. CASE TakeError
  <2>1. Head(toConn).error \in Error BY <1>12, MessageTypes DEF TakeError, TakeMessage
  <2>. QED BY <1>1, <1>12, <2>1, ContextTypes DEF TakeError
<1>13. CASE TakeCount
  <2>1. Head(toConn).cmd \in CountCommands BY <1>13, MessageTypes DEF TakeCount, TakeMessage
  <2>2. Counted(ctx.active, Head(toConn).cmd) \in 0..(CountModulus - 1)
    BY <1>1, <2>1, CountWraps DEF Counted, CountCommands, Context
  <2>. QED BY <1>1, <1>13, <2>2, ContextTypes DEF TakeCount
<1>. QED BY <1>2, <1>3, <1>4, <1>6, <1>7, <1>8, <1>9, <1>10, <1>11, <1>12, <1>13
         DEF Next, OtherThanReading, ConnStep

-----------------------------------------------------------------------------
(* The invariant *)

LEMMA ConnectionInvInit == ConnInit => ConnectionInv
<1>. SUFFICES ASSUME ConnInit PROVE ConnectionInv OBVIOUS
<1>1. Tasks!Init
  <2>1. Owed = {} BY DEF ConnInit, Owed
  <2>. QED BY <2>1 DEF ConnInit, Tasks!Init, StreamInit, Tasks!StreamInit, NewTask, Tasks!NewTask
<1>2. Contract!TypeOK
  <2>1. Tasks!TypeOK
    BY <1>1, Tasks!TypeOKInit, ContractAssumptions, StreamsAssumption, WindowAssumption,
       CapacityAssumption
  <2>. QED BY <2>1, SameContract
<1>3. Tasks!TasksInStep
  BY <1>1, Tasks!TasksInStepInit, ContractAssumptions, StreamsAssumption, WindowAssumption,
     CapacityAssumption
<1>4. OwnTypeOK
  <2>1. ctx \in Context
    BY ErrorTypes, LimitsAssumption, WindowAssumption DEF ConnInit, Context, Tokens
  <2>2. dispatch \in [Streams -> Request] BY DEF ConnInit, Request, Tokens
  <2>3. wire \in [Streams \cup {0} -> Seq(WireFrame)] BY DEF ConnInit
  <2>4. 0 \in 0..MaxFrames BY LimitsAssumption
  <2>5. <<>> \in Seq(ClientFrames) /\ <<>> \in Seq(Parked) OBVIOUS
  <2>. QED BY <2>1, <2>2, <2>3, <2>4, <2>5 DEF ConnInit, OwnTypeOK
<1>5. ContextFaithful
  BY DEF ConnInit, StreamInit, NewTask, ContextFaithful, BlockOpen
<1>. QED BY <1>2, <1>3, <1>4, <1>5 DEF ConnectionInv, TypeOK

LEMMA SameTypeOKNext == Contract!TypeOK' <=> Tasks!TypeOK'
<1>1. Contract!TypeOK <=> Tasks!TypeOK BY SameContract
<1>. QED BY <1>1, PTL

LEMMA ConnectionInvStep == ConnectionInv /\ [Next]_vars => ConnectionInv'
<1>. SUFFICES ASSUME TypeOK, ContextFaithful, Tasks!TasksInStep, [Next]_vars
              PROVE  ConnectionInv'
  BY DEF ConnectionInv
<1>1. ContractStep BY Implements
<1>2. Tasks!TypeOK BY SameContract DEF TypeOK
<1>3. Tasks!TypeOK' /\ Tasks!TasksInStep'
  BY <1>1, <1>2, Tasks!TypeOKStep, Tasks!TasksInStepStep, ContractAssumptions,
     StreamsAssumption, WindowAssumption, CapacityAssumption DEF ContractStep
<1>4. Contract!TypeOK' BY <1>3, SameTypeOKNext
<1>5. OwnTypeOK' BY ReaderStep, OutputStep, ContextStep DEF OwnTypeOK
<1>6. ContextFaithful'
  BY QuietSteps, DispatchKeepsFaith, StreamFrameKeepsFaith, TaskKeepsFaith
     DEF Next, OtherThanReading, ConnStep
<1>. QED BY <1>3, <1>4, <1>5, <1>6 DEF ConnectionInv, TypeOK

LEMMA StaysFaithful == Spec => []ConnectionInv
BY ConnectionInvInit, ConnectionInvStep, PTL DEF Spec

\* The connection, its reader and its dispatch tasks keep within their types:
\* the count of active streams wraps, but no window overflows.
THEOREM TypeCorrect == Spec => []TypeOK
<1>1. ConnectionInv => TypeOK BY DEF ConnectionInv
<1>. QED BY <1>1, StaysFaithful, PTL

\* streams_channels, seen_max_stream_id and inflight_headers_frame_stream_id
\* say what is true of the stream tasks.
THEOREM KnowsItsStreams == Spec => []ContextFaithful
<1>1. ConnectionInv => ContextFaithful BY DEF ConnectionInv
<1>. QED BY <1>1, StaysFaithful, PTL

\* The connection is an environment the stream tasks can rely on: it implements
\* StreamContract, whatever the client sends.
THEOREM ImplementsContract == Spec => KeepsContract
<1>1. ConnInit => Contract!Init
  <2>1. ConnInit => Owed = {} BY DEF ConnInit, Owed
  <2>. QED BY <2>1 DEF ConnInit, Contract!Init, StreamInit, Contract!StreamInit, NewTask,
                       Contract!NewTask
<1>2. ConnectionInv /\ [Next]_vars => [Contract!Next]_Contract!contractVars
  BY Implements, SameContract DEF ConnectionInv, ContractStep
<1>. QED BY <1>1, <1>2, StaysFaithful, PTL DEF Spec, KeepsContract, Contract!Spec

\* So what is proved of stream tasks under any connection that keeps the contract
\* holds of the tasks of this one: END_STREAM of the client stands, maybe_trailers
\* is there to be unwrapped, the decoder is in step with its task, and a request
\* is dispatched, and answered, once; and the decoder is given whole header blocks.
THEOREM TasksKeepPromises ==
  Spec => [](/\ Tasks!ServerClosesLast /\ Tasks!TrailersWereAnnounced
             /\ Tasks!HeaderDecoderInStep /\ Tasks!DispatchedOnce
             /\ Tasks!WholeHeaderBlocks)
<1>1. Contract!Init <=> Tasks!Init BY SameContract
<1>2. [Contract!Next]_Contract!contractVars <=> [Tasks!Next]_Tasks!contractVars BY SameContract
<1>3. Contract!Spec => Tasks!Spec BY <1>1, <1>2, PTL DEF Contract!Spec, Tasks!Spec
<1>4. Tasks!Spec => []Tasks!ServerClosesLast
  BY Tasks!NeverHalfClosedLocal, ContractAssumptions, StreamsAssumption, WindowAssumption,
     CapacityAssumption
<1>5. Tasks!Spec => []Tasks!TrailersWereAnnounced
  BY Tasks!TrailersAnnounced, ContractAssumptions, StreamsAssumption, WindowAssumption,
     CapacityAssumption
<1>6. Tasks!Spec => []Tasks!HeaderDecoderInStep
  BY Tasks!HeadersDecodedInStep, ContractAssumptions, StreamsAssumption, WindowAssumption,
     CapacityAssumption
<1>7. Tasks!Spec => []Tasks!DispatchedOnce
  BY Tasks!RequestDispatchedOnce, ContractAssumptions, StreamsAssumption, WindowAssumption,
     CapacityAssumption
<1>8. Tasks!Spec => []Tasks!WholeHeaderBlocks
  BY Tasks!HeaderBlocksWhole, ContractAssumptions, StreamsAssumption, WindowAssumption,
     CapacityAssumption
<1>. QED BY <1>3, <1>4, <1>5, <1>6, <1>7, <1>8, ImplementsContract, PTL DEF KeepsContract

-----------------------------------------------------------------------------
(* GOAWAY *)

\* The invariant behind both properties of GOAWAY: it is the connection's last
\* act, and names the largest stream seen, as far as its mask goes.
GoawayIsLast ==
  \A i \in 1..Len(wire[0]) : wire[0][i].kind = "GOAWAY" =>
    ~connUp /\ wire[0][i].last = LastStreamId(ctx.seenMax)

\* Only a connection task that is up writes, and changes its context.
LEMMA DownIsSilent ==
  ASSUME TypeOK, [Next]_vars, ~connUp
  PROVE  ~connUp' /\ UNCHANGED <<wire, ctx>>
<1>1. CASE Reading \/ PeerCloses \/ ReaderStops \/ UNCHANGED vars
  BY <1>1 DEF Reading, ReadFrame, PeerCloses, ReaderStops, vars, streamVars, connVars
<1>2. CASE ConnStep \/ IdleTimeout
  BY <1>2 DEF ConnStep, IdleTimeout, HandleConnectionError, HandleStreamError, DropOtherError,
     FrameInsideBlock, TakeConnectionFrame, TakeStreamFrame, TakeRefusedFrame, TakeFrame,
     StartDispatch, WriteResponse, DecodeHeaders, DecodeTrailers, TakeError, TakeCount,
     TakeMessage, Deliver, DeliverFails, Selecting, Ready
<1>3. ASSUME NEW s \in Streams, StreamTask(s) PROVE UNCHANGED <<wire, ctx, connUp>>
  <2>1. UNCHANGED connUp BY <1>3, TaskGoesOn DEF StreamTask
  <2>. QED BY <1>3, <2>1 DEF StreamTask, connVars
<1>4. ASSUME NEW s \in Streams, DispatchStep(s) PROVE UNCHANGED <<wire, ctx, connUp>>
  BY <1>4 DEF DispatchStep, Acquire, DispatchCancelled, Dispatched, DispatchReplies,
     DispatchVars, connVars
<1>. QED BY <1>1, <1>2, <1>3, <1>4 DEF Next, OtherThanReading

NoGoawayIn(frames) == \A i \in 1..Len(frames) : frames[i].kind # "GOAWAY"

LEMMA WritesNoGoaway ==
  ASSUME TypeOK, NoGoawayIn(wire[0]),
         NEW sid, NEW frames \in Seq(WireFrame), sid = 0 => NoGoawayIn(frames), Write(sid, frames)
  PROVE  NoGoawayIn(wire'[0])
<1>1. wire \in [Streams \cup {0} -> Seq(WireFrame)] BY DEF TypeOK, OwnTypeOK
<1>2. CASE sid = 0
  <2>1. wire'[0] = wire[0] \o frames BY <1>1, <1>2 DEF Write
  <2>2. wire[0] \in Seq(WireFrame) BY <1>1
  <2>3. ASSUME NEW i \in 1..Len(wire[0] \o frames) PROVE (wire[0] \o frames)[i].kind # "GOAWAY"
    <3>1. CASE i <= Len(wire[0]) BY <2>2, <3>1 DEF NoGoawayIn
    <3>2. CASE i > Len(wire[0])
      <4>1. i - Len(wire[0]) \in 1..Len(frames) /\ (wire[0] \o frames)[i] = frames[i - Len(wire[0])]
        BY <2>2, <3>2
      <4>. QED BY <1>2, <4>1 DEF NoGoawayIn
    <3>. QED BY <2>2, <3>1, <3>2
  <2>. QED BY <2>1, <2>3 DEF NoGoawayIn
<1>3. CASE sid # 0
  <2>1. wire'[0] = wire[0] BY <1>1, <1>3 DEF Write
  <2>. QED BY <2>1
<1>. QED BY <1>2, <1>3

\* GOAWAY is written by handle_connection_error only.
LEMMA OnlyErrorsSayGoaway ==
  ASSUME TypeOK, [Next]_vars, NoGoawayIn(wire[0]), ~HandleConnectionError
  PROVE  NoGoawayIn(wire'[0])
<1>1. CASE \/ Reading \/ PeerCloses \/ ReaderStops \/ IdleTimeout \/ DropOtherError
           \/ FrameInsideBlock \/ TakeStreamFrame \/ TakeRefusedFrame \/ StartDispatch
           \/ DecodeHeaders \/ DecodeTrailers \/ TakeError \/ TakeCount
           \/ Deliver \/ DeliverFails \/ (\E s \in Streams : StreamTask(s) \/ DispatchStep(s))
           \/ UNCHANGED vars
  <2>1. UNCHANGED wire
    BY <1>1 DEF Reading, ReadFrame, PeerCloses, ReaderStops, IdleTimeout, DropOtherError,
       FrameInsideBlock, TakeStreamFrame, TakeRefusedFrame, StartDispatch, DecodeHeaders,
       DecodeTrailers, ReplyOrError, TakeError, TakeCount, Deliver, DeliverFails, StreamTask,
       DispatchStep, Acquire, DispatchCancelled, Dispatched, DispatchReplies, DispatchVars,
       vars, connVars
  <2>. QED BY <2>1
<1>2. ASSUME NEW frame \in WireFrame
      PROVE  /\ <<>> \in Seq(WireFrame) /\ NoGoawayIn(<<>>)
             /\ <<frame>> \in Seq(WireFrame)
             /\ frame.kind # "GOAWAY" => NoGoawayIn(<<frame>>)
  BY DEF NoGoawayIn
<1>3. CASE HandleStreamError
  <2>1. ResetFor(ctx.error.code).kind = "RST_STREAM" BY DEF ResetFor, Written
  <2>2. UNCHANGED wire \/ Write(ctx.error.sid, <<ResetFor(ctx.error.code)>>)
    BY <1>3 DEF HandleStreamError
  <2>3. CASE Write(ctx.error.sid, <<ResetFor(ctx.error.code)>>)
    BY <1>2, <2>1, <2>3, WrittenTypes, WritesNoGoaway
  <2>. QED BY <2>2, <2>3
<1>4. CASE TakeConnectionFrame
  <2>1. PICK f \in ClientFrames : HandleConnectionFrame(f) BY <1>4 DEF TakeConnectionFrame
  <2>2. CASE \E written \in WriteOutcomes :
               Write(0, IF Handlers!NeedsAck(f) /\ written THEN <<AckOf(f)>> ELSE <<>>)
    <3>1. PICK written \in WriteOutcomes :
            Write(0, IF Handlers!NeedsAck(f) /\ written THEN <<AckOf(f)>> ELSE <<>>)
      BY <2>2
    <3>2. CASE Handlers!NeedsAck(f) /\ written
      <4>1. AckOf(f) \in WireFrame /\ AckOf(f).kind # "GOAWAY"
        BY <3>2, WrittenTypes DEF Handlers!NeedsAck, AckOf, Written
      <4>2. Write(0, <<AckOf(f)>>) BY <3>1, <3>2
      <4>. QED BY <1>2, <4>1, <4>2, WritesNoGoaway
    <3>3. CASE ~(Handlers!NeedsAck(f) /\ written)
      <4>1. Write(0, <<>>) BY <3>1, <3>3
      <4>2. <<>> \in Seq(WireFrame) /\ NoGoawayIn(<<>>) BY DEF NoGoawayIn
      <4>. QED BY <4>1, <4>2, WritesNoGoaway
    <3>. QED BY <3>2, <3>3
  <2>. QED BY <2>1, <2>2 DEF HandleConnectionFrame
<1>5. CASE WriteResponse
  <2>1. Head(toConn).sid \in Streams /\ 0 \notin Streams
    BY <1>5, MessageTypes, StreamsAssumption DEF WriteResponse, TakeMessage
  <2>2. UNCHANGED wire \/ \E frames : Write(Head(toConn).sid, frames) BY <1>5 DEF WriteResponse
  <2>3. wire'[0] = wire[0] BY <2>1, <2>2 DEF Write, TypeOK, OwnTypeOK
  <2>. QED BY <2>3
<1>. QED BY <1>1, <1>3, <1>4, <1>5 DEF Next, OtherThanReading, ConnStep

LEMMA GoawayIsLastStep ==
  ASSUME TypeOK, GoawayIsLast, [Next]_vars
  PROVE  GoawayIsLast'
<1>1. CASE ~connUp BY <1>1, DownIsSilent DEF GoawayIsLast
<1>2. CASE connUp /\ ~HandleConnectionError
  <2>1. NoGoawayIn(wire[0]) BY <1>2 DEF GoawayIsLast, NoGoawayIn
  <2>2. NoGoawayIn(wire'[0]) BY <1>2, <2>1, OnlyErrorsSayGoaway
  <2>. QED BY <2>2 DEF GoawayIsLast, NoGoawayIn
<1>3. CASE connUp /\ HandleConnectionError
  <2>. DEFINE goaway == GoawayFor(ctx.seenMax, ctx.error.code)
  <2>1. wire \in [Streams \cup {0} -> Seq(WireFrame)] BY DEF TypeOK, OwnTypeOK
  <2>2. /\ ~connUp' /\ ctx' = [ctx EXCEPT !.error = NoError]
        /\ \E written \in WriteOutcomes : Write(0, IF written THEN <<goaway>> ELSE <<>>)
    BY <1>3 DEF HandleConnectionError, Leave
  <2>3. wire'[0] = wire[0] \o <<>> \/ wire'[0] = wire[0] \o <<goaway>>
    BY <2>1, <2>2 DEF Write
  <2>4. wire[0] \in Seq(WireFrame) BY <2>1
  <2>5. ASSUME NEW i \in 1..Len(wire'[0]), wire'[0][i].kind = "GOAWAY"
        PROVE  wire'[0][i].last = LastStreamId(ctx.seenMax)
    <3>1. goaway \in WireFrame BY WrittenTypes
    <3>2. i \in 1..Len(wire[0]) => wire'[0][i] = wire[0][i] BY <2>3, <2>4, <3>1
    <3>3. i \notin 1..Len(wire[0]) => wire'[0][i] = goaway BY <2>3, <2>4, <2>5, <3>1
    <3>4. i \notin 1..Len(wire[0]) BY <1>3, <2>5, <3>2 DEF GoawayIsLast
    <3>5. goaway.last = LastStreamId(ctx.seenMax) BY DEF GoawayFor, Written
    <3>. QED BY <3>3, <3>4, <3>5
  <2>6. ctx'.seenMax = ctx.seenMax BY <2>2 DEF TypeOK, OwnTypeOK, Context
  <2>. QED BY <2>2, <2>5, <2>6 DEF GoawayIsLast
<1>. QED BY <1>1, <1>2, <1>3

LEMMA StaysLast == Spec => []GoawayIsLast
<1>1. ConnInit => GoawayIsLast BY DEF ConnInit, GoawayIsLast
<1>2. ConnectionInv /\ GoawayIsLast /\ [Next]_vars => GoawayIsLast'
  BY GoawayIsLastStep DEF ConnectionInv
<1>. QED BY <1>1, <1>2, StaysFaithful, PTL DEF Spec

\* The Last-Stream-ID of GOAWAY covers every request that has reached a
\* handler, those dispatched before and after it alike, of a client whose
\* identifiers fit its mask.
THEOREM GoawayCovers == Spec => []ShortIdsCovered
<1>1. ConnectionInv /\ GoawayIsLast => ShortIdsCovered
  <2>. SUFFICES ASSUME ConnectionInv, GoawayIsLast, ctx.seenMax < GoawayIds,
                       NEW i \in 1..Len(wire[0]), wire[0][i].kind = "GOAWAY",
                       NEW s \in Streams, dispatch[s].at # "none"
                PROVE  s <= wire[0][i].last
    BY DEF ShortIdsCovered, GoawayCoversDispatched
  <2>1. s <= ctx.seenMax BY DEF ConnectionInv, ContextFaithful
  <2>2. ctx.seenMax \in Nat
    <3>1. ctx.seenMax \in Streams \cup {0}
      BY DEF ConnectionInv, TypeOK, OwnTypeOK, Context
    <3>2. \A n \in Streams \cup {0} : n \in Nat BY StreamsAssumption
    <3>. QED BY <3>1, <3>2
  <2>3. wire[0][i].last = ctx.seenMax BY <2>2, LastStreamIdType DEF GoawayIsLast
  <2>. QED BY <2>1, <2>3
<1>. QED BY <1>1, StaysFaithful, StaysLast, PTL

\* Nothing is written once GOAWAY is.
THEOREM NothingAfterGoaway == Spec => SilentAfterGoaway
<1>1. /\ ConnectionInv /\ GoawayIsLast /\ [Next]_vars
      => ["GOAWAY" \in Kinds(wire[0]) => UNCHANGED wire]_vars
  BY DownIsSilent DEF ConnectionInv, GoawayIsLast, Kinds
<1>. QED BY <1>1, StaysFaithful, StaysLast, PTL DEF Spec, SilentAfterGoaway
====
