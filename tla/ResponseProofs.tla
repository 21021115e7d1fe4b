----------------------------- MODULE ResponseProofs -----------------------------
(***************************************************************************)
(* Proof that what a connection writes on a stream is one response, HEADERS *)
(* before DATA and each once (ResponseInOrder of ConnectionProperties),    *)
(* whatever the client sends and however the tasks interleave.  The        *)
(* invariant, ResponsesInStep, follows the parts of a response from the    *)
(* task that holds them back to the socket.                                *)
(***************************************************************************)
EXTENDS ConnectionProofs

ResponseKinds == {"HEADERS", "DATA"}

-----------------------------------------------------------------------------
(* The frames written *)

Ordered(frames) ==
  /\ \A i, j \in 1..Len(frames) :
       i < j /\ IsResponse(frames[i]) /\ IsResponse(frames[j]) =>
         frames[i].kind = "HEADERS" /\ frames[j].kind = "DATA"
  /\ \A j \in 1..Len(frames) : frames[j].kind = "DATA" =>
       \E i \in 1..(j - 1) : frames[i].kind = "HEADERS"

LEMMA OnlyOne ==
  ASSUME NEW S, NEW seq \in Seq(S), Len(seq) <= 1, seq # <<>>
  PROVE  Head(seq) \in S /\ Tail(seq) = <<>>
BY Tasks!Single, ContractAssumptions, StreamsAssumption, WindowAssumption, CapacityAssumption

LEMMA OrderIsOrdered == ResponseInOrder <=> \A s \in Streams : Ordered(wire[s])
BY DEF ResponseInOrder, Ordered

LEMMA KindsAppended ==
  ASSUME NEW S, NEW frames \in Seq(S), NEW f \in S
  PROVE  Kinds(Append(frames, f)) = Kinds(frames) \cup {f.kind}
<1>1. /\ Len(Append(frames, f)) = Len(frames) + 1 /\ Len(frames) \in Nat
      /\ Append(frames, f)[Len(frames) + 1] = f
      /\ \A i \in 1..Len(frames) : Append(frames, f)[i] = frames[i]
  OBVIOUS
<1>2. 1..(Len(frames) + 1) = (1..Len(frames)) \cup {Len(frames) + 1} BY <1>1
<1>. QED BY <1>1, <1>2 DEF Kinds

\* One more frame: HEADERS if no response was begun, DATA if only HEADERS were
\* written, or no part of a response.
LEMMA OrderedAppend ==
  ASSUME NEW S, NEW frames \in Seq(S), NEW f \in S, Ordered(frames),
         \/ ~IsResponse(f)
         \/ f.kind = "HEADERS" /\ "HEADERS" \notin Kinds(frames)
         \/ f.kind = "DATA" /\ "HEADERS" \in Kinds(frames) /\ "DATA" \notin Kinds(frames)
  PROVE  Ordered(Append(frames, f))
<1>. DEFINE more == Append(frames, f)
            n == Len(frames)
<1>1. /\ Len(more) = n + 1 /\ n \in Nat /\ more[n + 1] = f
      /\ \A i \in 1..n : more[i] = frames[i]
  OBVIOUS
<1>. HIDE DEF more
<1>2. \A i \in 1..n : frames[i].kind \in Kinds(frames) BY DEF Kinds
<1>3. "HEADERS" \notin Kinds(frames) => \A i \in 1..n : ~IsResponse(frames[i])
  <2>. SUFFICES ASSUME "HEADERS" \notin Kinds(frames), NEW i \in 1..n PROVE ~IsResponse(frames[i])
    OBVIOUS
  <2>1. frames[i].kind # "HEADERS" BY <1>2
  <2>2. frames[i].kind # "DATA"
    <3>. SUFFICES ASSUME frames[i].kind = "DATA" PROVE FALSE OBVIOUS
    <3>1. PICK k \in 1..(i - 1) : frames[k].kind = "HEADERS" BY DEF Ordered
    <3>2. k \in 1..n BY <1>1
    <3>. QED BY <1>2, <3>1, <3>2
  <2>. QED BY <2>1, <2>2 DEF IsResponse
<1>4. ASSUME NEW i \in 1..(n + 1), NEW j \in 1..(n + 1), i < j, IsResponse(more[i]),
             IsResponse(more[j])
      PROVE  more[i].kind = "HEADERS" /\ more[j].kind = "DATA"
  <2>1. i \in 1..n /\ more[i] = frames[i] BY <1>1, <1>4
  <2>2. CASE j \in 1..n BY <1>1, <1>4, <2>1, <2>2 DEF Ordered
  <2>3. CASE j = n + 1
    <3>1. IsResponse(f) /\ IsResponse(frames[i]) BY <1>1, <1>4, <2>1, <2>3
    <3>2. f.kind = "DATA" /\ "DATA" \notin Kinds(frames) BY <1>3, <2>1, <3>1
    <3>. QED BY <1>1, <1>2, <2>1, <2>3, <3>1, <3>2 DEF IsResponse
  <2>. QED BY <1>1, <2>2, <2>3
<1>5. ASSUME NEW j \in 1..(n + 1), more[j].kind = "DATA"
      PROVE  \E i \in 1..(j - 1) : more[i].kind = "HEADERS"
  <2>1. CASE j \in 1..n
    <3>1. PICK i \in 1..(j - 1) : frames[i].kind = "HEADERS" BY <1>1, <1>5, <2>1 DEF Ordered
    <3>2. more[i] = frames[i] BY <1>1, <2>1
    <3>. QED BY <3>1, <3>2
  <2>2. CASE j = n + 1
    <3>1. "HEADERS" \in Kinds(frames) BY <1>1, <1>5, <2>2 DEF IsResponse
    <3>2. PICK i \in 1..n : frames[i].kind = "HEADERS" BY <3>1 DEF Kinds
    <3>3. more[i] = frames[i] /\ i \in 1..(j - 1) BY <1>1, <2>2
    <3>. QED BY <3>2, <3>3
  <2>. QED BY <1>1, <2>1, <2>2
<1>. QED BY <1>1, <1>4, <1>5 DEF Ordered

-----------------------------------------------------------------------------
(* Where the parts of a response are *)

LEMMA ChannelTypes ==
  ASSUME TypeOK
  PROVE  /\ toConn \in Seq(ToConnection) /\ task \in [Streams -> Task]
         /\ inbox \in [Streams -> Seq(ToStream)]
         /\ wire \in [Streams \cup {0} -> Seq(WireFrame)]
BY SameTypes, SameContract DEF TypeOK, Tasks!TypeOK, OwnTypeOK

LEMMA CarriedMore ==
  ASSUME TypeOK, NEW m \in ToConnection, toConn' = Append(toConn, m), NEW k, NEW s
  PROVE  /\ Carrying(k, s)' = Carrying(k, s) \cup
              (IF Bears(m, k, s) THEN {Len(toConn) + 1} ELSE {})
         /\ Carrying(k, s) \subseteq 1..Len(toConn) /\ Len(toConn) \in Nat
<1>1. toConn \in Seq(ToConnection) BY ChannelTypes
<1>2. /\ Len(toConn') = Len(toConn) + 1 /\ Len(toConn) \in Nat
      /\ toConn'[Len(toConn) + 1] = m
      /\ \A i \in 1..Len(toConn) : toConn'[i] = toConn[i]
  BY <1>1
<1>. QED BY <1>2 DEF Carrying, Bears, Response

LEMMA CarriedLess ==
  ASSUME TypeOK, toConn # <<>>, toConn' = Tail(toConn), NEW k, NEW s
  PROVE  /\ \A i \in Nat : i \in Carrying(k, s)' <=> i # 0 /\ i + 1 \in Carrying(k, s)
         /\ 1 \in Carrying(k, s) <=> Bears(Head(toConn), k, s)
         /\ Carrying(k, s) \subseteq Nat \ {0} /\ Carrying(k, s)' \subseteq Nat \ {0}
<1>1. toConn \in Seq(ToConnection) BY ChannelTypes
<1>2. /\ Len(toConn') = Len(toConn) - 1 /\ Len(toConn) \in Nat /\ Len(toConn) >= 1
      /\ \A i \in 1..Len(toConn') : toConn'[i] = toConn[i + 1]
      /\ Head(toConn) = toConn[1]
  BY <1>1
<1>. QED BY <1>2 DEF Carrying, Bears, Response

\* The messages in the channel keep their form.
FormsInChannel == \A i \in 1..Len(toConn) : Response(toConn[i]) => ResponseForm(toConn[i].frames)
FormToSend(s) == task[s].out # <<>> /\ Response(Head(task[s].out))
                   => ResponseForm(Head(task[s].out).frames)
HeldBack(s) == task[s].pending # <<>> =>
  Len(task[s].pending) = 1 /\ Head(task[s].pending).kind = "DATA" /\ ~Somewhere("DATA", s)

LEMMA InvParts ==
  ASSUME NEW s
  PROVE  ResponseInv(s) <=>
           /\ FormsInChannel /\ FormToSend(s)
           /\ InOnePlace("HEADERS", s) /\ InOnePlace("DATA", s) /\ HeldBack(s)
           /\ connUp => HeadersFirst(s)
           /\ Begun(s) => Contract!Answered(s)
BY DEF ResponseInv, FormsInChannel, FormToSend, HeldBack

\* A step in which nothing of the response moves, but for the channel, which may
\* be a message shorter (by = 1), or empty once the connection is gone.
LEMMA NothingMoves ==
  ASSUME NEW s \in Streams, ResponseInv(s), NEW by \in {0, 1},
         FormsInChannel', FormToSend(s)',
         \A k \in ResponseKinds :
           /\ Wrote(k, s)' <=> Wrote(k, s)
           /\ ToBeSent(k, s)' => ToBeSent(k, s)
           /\ connUp' /\ ToBeSent(k, s) => ToBeSent(k, s)'
           /\ Carrying(k, s) \subseteq Nat
           /\ \A i \in Carrying(k, s)' : i \in Nat /\ i + by \in Carrying(k, s)
           /\ connUp' => \A i \in Carrying(k, s) : i >= by /\ i - by \in Carrying(k, s)',
         task'[s].pending \in {task[s].pending, <<>>},
         connUp' => connUp,
         Contract!Answered(s) => Contract!Answered(s)'
  PROVE  ResponseInv(s)'
<1>1. FormsInChannel /\ FormToSend(s) /\ InOnePlace("HEADERS", s) /\ InOnePlace("DATA", s)
      /\ HeldBack(s) /\ (connUp => HeadersFirst(s)) /\ (Begun(s) => Contract!Answered(s))
  BY InvParts
<1>2. ASSUME NEW k \in ResponseKinds, InOnePlace(k, s) PROVE InOnePlace(k, s)'
  <2>1. ASSUME NEW i \in Carrying(k, s)', NEW j \in Carrying(k, s)' PROVE i = j
    <3>1. i \in Nat /\ j \in Nat /\ i + by = j + by BY <1>2 DEF InOnePlace
    <3>. QED BY <3>1
  <2>2. Carrying(k, s) = {} => Carrying(k, s)' = {} OBVIOUS
  <2>. QED BY <1>2, <2>1, <2>2 DEF InOnePlace
<1>3. \A k \in ResponseKinds : Somewhere(k, s)' => Somewhere(k, s) BY DEF Somewhere
<1>4. connUp' => \A k \in ResponseKinds : Somewhere(k, s) => Somewhere(k, s)' BY DEF Somewhere
<1>5. "HEADERS" \in ResponseKinds /\ "DATA" \in ResponseKinds BY DEF ResponseKinds
<1>6. HeldBack(s)'
  BY <1>1, <1>3, <1>5 DEF HeldBack
<1>7. connUp' => HeadersFirst(s)'
  <2>. SUFFICES ASSUME connUp' PROVE HeadersFirst(s)' OBVIOUS
  <2>1. task'[s].pending # <<>> \/ ToBeSent("DATA", s)' => Somewhere("HEADERS", s)'
    BY <1>1, <1>4, <1>5 DEF HeadersFirst
  <2>2. ASSUME NEW i \in Carrying("DATA", s)', ~Wrote("HEADERS", s)'
        PROVE  \E j \in Carrying("HEADERS", s)' : j <= i
    <3>1. i \in Nat /\ i + by \in Carrying("DATA", s) BY <1>5
    <3>2. PICK j \in Carrying("HEADERS", s) : j <= i + by
      BY <1>1, <1>5, <2>2, <3>1 DEF HeadersFirst
    <3>3. j \in Nat /\ j - by \in Carrying("HEADERS", s)' BY <1>5
    <3>. QED BY <3>1, <3>2, <3>3
  <2>. QED BY <2>1, <2>2 DEF HeadersFirst
<1>8. Begun(s)' => Contract!Answered(s)'
  BY <1>1, <1>3, <1>5 DEF Begun
<1>9. ResponseInv(s)' <=>
        (/\ FormsInChannel /\ FormToSend(s)
         /\ InOnePlace("HEADERS", s) /\ InOnePlace("DATA", s) /\ HeldBack(s)
         /\ connUp => HeadersFirst(s)
         /\ Begun(s) => Contract!Answered(s))'
  BY DEF ResponseInv, FormsInChannel, FormToSend, HeldBack
<1>. QED BY <1>1, <1>2, <1>5, <1>6, <1>7, <1>8, <1>9

LEMMA SameAnswered == \A s \in Streams : Contract!Answered(s) <=> Tasks!Answered(s)
BY DEF Contract!Answered, Tasks!Answered, Contract!UnderWay, Tasks!UnderWay, Contract!Asking,
       Tasks!Asking, Contract!Requests, Tasks!Requests, Contract!Held, Tasks!Held,
       Contract!Replies, Tasks!Replies

LEMMA SameAnsweredNext == (\A s \in Streams : Contract!Answered(s) <=> Tasks!Answered(s))'
BY SameAnswered, PTL

LEMMA AnsweredKept ==
  ASSUME ConnectionInv, [Next]_vars, NEW s \in Streams
  PROVE  Contract!Answered(s) => Contract!Answered(s)'
<1>. SUFFICES ASSUME Contract!Answered(s) PROVE Contract!Answered(s)' OBVIOUS
<1>1. ContractStep /\ Tasks!TypeOK /\ Tasks!TasksInStep
  BY Implements, SameContract DEF ConnectionInv, TypeOK
<1>2. Tasks!Answered(s) BY SameAnswered
<1>3. Tasks!Answered(s)'
  BY <1>1, <1>2, Tasks!AnsweredStep, ContractAssumptions, StreamsAssumption, WindowAssumption,
     CapacityAssumption DEF ContractStep
<1>. QED BY <1>3, SameAnsweredNext

-----------------------------------------------------------------------------
(* The steps of the task itself *)

\* A task at the top of its loop that does not come to send a part of a response.
LEMMA QuietTask ==
  ASSUME TypeOK, NEW s \in Streams, ResponseInv(s), AtTop(s), UNCHANGED <<toConn, connUp>>,
         wire'[s] = wire[s], Contract!Answered(s) => Contract!Answered(s)',
         task'[s].out # <<>> => ~Response(Head(task'[s].out)),
         task'[s].pending \in {task[s].pending, <<>>}
  PROVE  ResponseInv(s)'
<1>1. FormsInChannel' /\ FormToSend(s)'
  BY DEF ResponseInv, FormsInChannel, FormToSend, Response
<1>2. ASSUME NEW k \in ResponseKinds
      PROVE  /\ Wrote(k, s)' <=> Wrote(k, s)
             /\ ~ToBeSent(k, s)' /\ ~ToBeSent(k, s)
             /\ Carrying(k, s)' = Carrying(k, s) /\ Carrying(k, s) \subseteq Nat
  BY DEF Wrote, Kinds, ToBeSent, Bears, Response, Carrying, AtTop
<1>3. ASSUME NEW k \in ResponseKinds, NEW i \in Carrying(k, s)
      PROVE  i \in Nat /\ i + 0 = i /\ i - 0 = i /\ i >= 0
  BY <1>2
<1>. DEFINE by == 0
<1>4. by \in {0, 1} OBVIOUS
<1>5. \A k \in ResponseKinds : \A i \in Carrying(k, s) :
        i \in Nat /\ i + by \in Carrying(k, s) /\ i >= by /\ i - by \in Carrying(k, s)
  BY <1>3
<1>. HIDE DEF by
<1>6. \A k \in ResponseKinds :
        /\ Wrote(k, s)' <=> Wrote(k, s)
        /\ ToBeSent(k, s)' => ToBeSent(k, s)
        /\ connUp' /\ ToBeSent(k, s) => ToBeSent(k, s)'
        /\ Carrying(k, s) \subseteq Nat
        /\ \A i \in Carrying(k, s)' : i \in Nat /\ i + by \in Carrying(k, s)
        /\ connUp' => \A i \in Carrying(k, s) : i >= by /\ i - by \in Carrying(k, s)'
  BY <1>2, <1>5
<1>. QED BY <1>1, <1>4, <1>6, NothingMoves

\* The DATA that was held back is to be sent.
LEMMA FlushMoves ==
  ASSUME TypeOK, NEW s \in Streams, ResponseInv(s), AtTop(s), UNCHANGED <<toConn, connUp>>,
         wire'[s] = wire[s], Contract!Answered(s) => Contract!Answered(s)',
         task[s].pending # <<>>, task'[s].pending = Tail(task[s].pending),
         task'[s].out = <<ResponseMessage(s, <<Head(task[s].pending)>>)>>
  PROVE  ResponseInv(s)'
<1>. DEFINE m == ResponseMessage(s, <<Head(task[s].pending)>>)
<1>1. /\ FormsInChannel /\ InOnePlace("HEADERS", s) /\ HeldBack(s)
      /\ (connUp => HeadersFirst(s)) /\ Contract!Answered(s)
  BY InvParts DEF Begun
<1>2. task[s] \in Task BY ChannelTypes
<1>3. /\ Head(task[s].pending).kind = "DATA" /\ ~Somewhere("DATA", s)
      /\ task'[s].pending = <<>>
  <2>1. Len(task[s].pending) <= 1
    <3>1. Len(task[s].pending) = 1 BY <1>1 DEF HeldBack
    <3>. QED BY <3>1
  <2>2. task[s].pending \in Seq(OutFrame) BY <1>2 DEF Task
  <2>3. Tail(task[s].pending) = <<>> BY <2>1, <2>2, OnlyOne
  <2>. QED BY <1>1, <2>3 DEF HeldBack
<1>4. /\ Response(m) /\ ResponseForm(m.frames) /\ Bears(m, "DATA", s) /\ ~Bears(m, "HEADERS", s)
  BY <1>3 DEF ResponseMessage, Response, ResponseForm, IsResponse, Bears
<1>5. \A k \in ResponseKinds :
        /\ Wrote(k, s)' <=> Wrote(k, s)
        /\ Carrying(k, s)' = Carrying(k, s) /\ ~ToBeSent(k, s)
        /\ ToBeSent(k, s)' <=> k = "DATA"
  <2>. HIDE DEF m
  <2>1. task'[s].out # <<>> /\ Head(task'[s].out) = m BY DEF m
  <2>. QED BY <1>4, <2>1 DEF Wrote, Kinds, ToBeSent, Carrying, AtTop, ResponseKinds, Bears, Response
<1>. HIDE DEF m
<1>6. FormsInChannel' /\ FormToSend(s)'
  BY <1>1, <1>4 DEF FormsInChannel, FormToSend, Response, m
<1>7. InOnePlace("HEADERS", s)' /\ InOnePlace("DATA", s)'
  BY <1>1, <1>3, <1>5 DEF InOnePlace, ResponseKinds, Somewhere
<1>8. connUp' => HeadersFirst(s)'
  BY <1>1, <1>3, <1>5 DEF HeadersFirst, Somewhere, ResponseKinds
<1>9. HeldBack(s)' BY <1>3 DEF HeldBack
<1>10. Contract!Answered(s)' BY <1>1
<1>. QED BY <1>6, <1>7, <1>8, <1>9, <1>10
         DEF ResponseInv, FormsInChannel, FormToSend, HeldBack

\* handle_response_object: HEADERS and DATA are to be sent, or HEADERS only and
\* the DATA is held back.
LEMMA ResponseMoves ==
  ASSUME NEW s \in Streams, ResponseInv(s), ~Begun(s), UNCHANGED <<toConn, connUp>>,
         wire'[s] = wire[s], Contract!Answered(s)',
         NEW h, NEW d, h.kind = "HEADERS", d.kind = "DATA",
         \/ task'[s].out = <<ResponseMessage(s, <<h, d>>)>> /\ task'[s].pending = <<>>
         \/ task'[s].out = <<ResponseMessage(s, <<h>>)>> /\ task'[s].pending = <<d>>
  PROVE  ResponseInv(s)'
<1>. DEFINE both == ResponseMessage(s, <<h, d>>)
            one  == ResponseMessage(s, <<h>>)
<1>1. FormsInChannel BY InvParts
<1>2. /\ Response(both) /\ ResponseForm(both.frames)
      /\ Bears(both, "HEADERS", s) /\ Bears(both, "DATA", s)
  <2>1. both.frames = <<h, d>> /\ Len(<<h, d>>) = 2 /\ 1 \in 1..2 /\ 2 \in 1..2
        /\ both.type = "DoResponseToClient" /\ both.sid = s
    BY DEF ResponseMessage
  <2>. HIDE DEF both
  <2>2. both.frames[1] = h /\ both.frames[2] = d /\ Len(both.frames) = 2 BY <2>1
  <2>. QED BY <2>1, <2>2 DEF Response, ResponseForm, IsResponse, Bears
<1>3. /\ Response(one) /\ ResponseForm(one.frames)
      /\ Bears(one, "HEADERS", s) /\ ~Bears(one, "DATA", s)
  BY DEF ResponseMessage, Response, ResponseForm, IsResponse, Bears
<1>. HIDE DEF both, one
<1>4. \/ task'[s].out # <<>> /\ Head(task'[s].out) = both /\ task'[s].pending = <<>>
      \/ task'[s].out # <<>> /\ Head(task'[s].out) = one /\ task'[s].pending = <<d>>
  BY DEF both, one
<1>5. \A k \in ResponseKinds : ~Wrote(k, s)' /\ Carrying(k, s)' = {}
  BY DEF Begun, Somewhere, Wrote, Kinds, Carrying, ResponseKinds
<1>6. ToBeSent("HEADERS", s)' BY <1>2, <1>3, <1>4 DEF ToBeSent, Bears, Response
<1>7. task'[s].pending # <<>> => ~ToBeSent("DATA", s)'
  BY <1>3, <1>4 DEF ToBeSent, Bears, Response
<1>8. FormsInChannel' /\ FormToSend(s)'
  BY <1>1, <1>2, <1>3, <1>4 DEF FormsInChannel, FormToSend, Response
<1>9. InOnePlace("HEADERS", s)' /\ InOnePlace("DATA", s)'
  BY <1>5 DEF InOnePlace, ResponseKinds
<1>10. HeadersFirst(s)' BY <1>5, <1>6 DEF HeadersFirst, Somewhere, ResponseKinds
<1>11. HeldBack(s)'
  <2>1. task'[s].pending # <<>> => Len(task'[s].pending) = 1 /\ Head(task'[s].pending) = d
    BY <1>4
  <2>. QED BY <1>5, <1>7, <2>1 DEF HeldBack, Somewhere, ResponseKinds
<1>. QED BY <1>8, <1>9, <1>10, <1>11 DEF ResponseInv, FormsInChannel, FormToSend, HeldBack

\* The message that was to be sent is in the channel.
LEMMA SendMoves ==
  ASSUME TypeOK, NEW s \in Streams, ResponseInv(s), connUp, connUp',
         NEW m \in ToConnection, task[s].out # <<>>, m = Head(task[s].out),
         toConn' = Append(toConn, m), task'[s].out = <<>>, task'[s].pending = task[s].pending,
         wire'[s] = wire[s], Contract!Answered(s) => Contract!Answered(s)'
  PROVE  ResponseInv(s)'
<1>1. /\ FormsInChannel /\ FormToSend(s) /\ InOnePlace("HEADERS", s) /\ InOnePlace("DATA", s)
      /\ HeldBack(s) /\ HeadersFirst(s) /\ (Begun(s) => Contract!Answered(s))
  BY InvParts
<1>2. Len(toConn) \in Nat BY ChannelTypes
<1>3. ASSUME NEW k \in ResponseKinds
      PROVE  /\ Wrote(k, s)' <=> Wrote(k, s)
             /\ ~ToBeSent(k, s)'
             /\ Carrying(k, s) \subseteq 1..Len(toConn)
             /\ ToBeSent(k, s) => Carrying(k, s)' = Carrying(k, s) \cup {Len(toConn) + 1}
             /\ ~ToBeSent(k, s) => Carrying(k, s)' = Carrying(k, s)
  <2>1. ToBeSent(k, s) <=> Bears(m, k, s) BY DEF ToBeSent
  <2>2. /\ Carrying(k, s)' = Carrying(k, s) \cup
             (IF Bears(m, k, s) THEN {Len(toConn) + 1} ELSE {})
        /\ Carrying(k, s) \subseteq 1..Len(toConn)
    BY CarriedMore
  <2>. QED BY <2>1, <2>2 DEF Wrote, Kinds, ToBeSent
<1>4. "HEADERS" \in ResponseKinds /\ "DATA" \in ResponseKinds BY DEF ResponseKinds
<1>5. ASSUME NEW k \in ResponseKinds, InOnePlace(k, s)
      PROVE  InOnePlace(k, s)' /\ (Somewhere(k, s)' <=> Somewhere(k, s))
  <2>1. CASE ToBeSent(k, s) BY <1>3, <1>5, <2>1 DEF InOnePlace, Somewhere
  <2>2. CASE ~ToBeSent(k, s) BY <1>3, <1>5, <2>2 DEF InOnePlace, Somewhere
  <2>. QED BY <2>1, <2>2
<1>6. FormsInChannel'
  <2>1. /\ Len(toConn') = Len(toConn) + 1 /\ toConn'[Len(toConn) + 1] = m
        /\ \A i \in 1..Len(toConn) : toConn'[i] = toConn[i]
    BY ChannelTypes
  <2>2. Response(m) => ResponseForm(m.frames) BY <1>1 DEF FormToSend
  <2>. QED BY <1>1, <1>2, <2>1, <2>2 DEF FormsInChannel, Response
<1>7. FormToSend(s)' BY DEF FormToSend
<1>8. HeadersFirst(s)'
  <2>1. task'[s].pending # <<>> => Somewhere("HEADERS", s)'
    BY <1>1, <1>4, <1>5 DEF HeadersFirst
  <2>2. ASSUME NEW i \in Carrying("DATA", s)', ~Wrote("HEADERS", s)'
        PROVE  \E j \in Carrying("HEADERS", s)' : j <= i
    <3>1. CASE i \in Carrying("DATA", s)
      BY <1>1, <1>3, <1>4, <2>2, <3>1 DEF HeadersFirst
    <3>2. CASE ToBeSent("DATA", s) /\ i = Len(toConn) + 1
      <4>1. Somewhere("HEADERS", s)' BY <1>1, <1>4, <1>5, <3>2 DEF HeadersFirst
      <4>2. PICK j \in Carrying("HEADERS", s)' : TRUE
        BY <1>3, <1>4, <2>2, <4>1 DEF Somewhere
      <4>3. j \in 1..(Len(toConn) + 1) BY <1>2, <1>3, <1>4, <4>2
      <4>. QED BY <1>2, <3>2, <4>2, <4>3
    <3>. QED BY <1>3, <1>4, <2>2, <3>1, <3>2
  <2>. QED BY <1>3, <1>4, <2>1, <2>2 DEF HeadersFirst
<1>9. HeldBack(s)' BY <1>1, <1>4, <1>5 DEF HeldBack
<1>10. Begun(s)' => Contract!Answered(s)' BY <1>1, <1>4, <1>5 DEF Begun
<1>. QED BY <1>1, <1>4, <1>5, <1>6, <1>7, <1>8, <1>9, <1>10
         DEF ResponseInv, FormsInChannel, FormToSend, HeldBack

\* The connection takes the head of the channel, the start of whose frames it
\* writes; a frame of HEADERS always, as no window limits it.
LEMMA WriteMoves ==
  ASSUME TypeOK, NEW s \in Streams, ResponseInv(s), connUp, connUp',
         toConn # <<>>, toConn' = Tail(toConn), Response(Head(toConn)), Head(toConn).sid = s,
         task'[s].out = task[s].out, task'[s].pending = task[s].pending,
         \A k \in ResponseKinds :
           /\ Wrote(k, s) => Wrote(k, s)'
           /\ Wrote(k, s)' => Wrote(k, s) \/ Bears(Head(toConn), k, s),
         Bears(Head(toConn), "HEADERS", s) => Wrote("HEADERS", s)',
         Contract!Answered(s) => Contract!Answered(s)'
  PROVE  ResponseInv(s)'
<1>1. /\ FormsInChannel /\ FormToSend(s) /\ InOnePlace("HEADERS", s) /\ InOnePlace("DATA", s)
      /\ HeldBack(s) /\ HeadersFirst(s) /\ (Begun(s) => Contract!Answered(s))
  BY InvParts
<1>2. "HEADERS" \in ResponseKinds /\ "DATA" \in ResponseKinds BY DEF ResponseKinds
<1>3. ASSUME NEW k \in ResponseKinds
      PROVE  /\ \A i \in Nat : i \in Carrying(k, s)' <=> i # 0 /\ i + 1 \in Carrying(k, s)
             /\ 1 \in Carrying(k, s) <=> Bears(Head(toConn), k, s)
             /\ Carrying(k, s) \subseteq Nat \ {0} /\ Carrying(k, s)' \subseteq Nat \ {0}
             /\ ToBeSent(k, s)' <=> ToBeSent(k, s)
  <2>1. ToBeSent(k, s)' <=> ToBeSent(k, s) BY DEF ToBeSent, Bears, Response
  <2>. QED BY <2>1, CarriedLess
<1>4. ASSUME NEW k \in ResponseKinds, InOnePlace(k, s)
      PROVE  InOnePlace(k, s)' /\ (Somewhere(k, s)' => Somewhere(k, s))
  <2>1. CASE Bears(Head(toConn), k, s)
    <3>1. 1 \in Carrying(k, s) BY <1>3, <2>1
    <3>2. Carrying(k, s)' = {}
      <4>. SUFFICES ASSUME NEW i \in Carrying(k, s)' PROVE FALSE OBVIOUS
      <4>1. i \in Nat \ {0} /\ i + 1 \in Carrying(k, s) BY <1>3
      <4>2. i + 1 = 1 BY <1>4, <3>1, <4>1 DEF InOnePlace
      <4>. QED BY <4>1, <4>2
    <3>3. ~ToBeSent(k, s)' BY <1>3, <1>4, <3>1 DEF InOnePlace
    <3>. QED BY <3>1, <3>2, <3>3 DEF InOnePlace, Somewhere
  <2>2. CASE ~Bears(Head(toConn), k, s)
    <3>1. Wrote(k, s)' <=> Wrote(k, s) BY <2>2
    <3>2. ASSUME NEW i \in Carrying(k, s)', NEW j \in Carrying(k, s)' PROVE i = j
      <4>1. i \in Nat /\ j \in Nat /\ i + 1 \in Carrying(k, s) /\ j + 1 \in Carrying(k, s)
        BY <1>3
      <4>2. i + 1 = j + 1 BY <1>4, <4>1 DEF InOnePlace
      <4>. QED BY <4>1, <4>2
    <3>3. Carrying(k, s) = {} => Carrying(k, s)' = {} BY <1>3
    <3>. QED BY <1>3, <1>4, <3>1, <3>2, <3>3 DEF InOnePlace, Somewhere
  <2>. QED BY <2>1, <2>2
<1>5. ASSUME NEW j \in Carrying("HEADERS", s), ~Wrote("HEADERS", s)'
      PROVE  j \in Nat /\ j - 1 \in Carrying("HEADERS", s)'
  <2>1. j \in Nat \ {0} /\ j # 1 BY <1>2, <1>3, <1>5
  <2>2. j - 1 \in Nat /\ j - 1 # 0 /\ (j - 1) + 1 = j BY <2>1
  <2>. QED BY <1>2, <1>3, <2>2
<1>6. Somewhere("HEADERS", s) => Somewhere("HEADERS", s)'
  BY <1>2, <1>3, <1>5 DEF Somewhere
<1>7. FormsInChannel'
  <2>1. /\ Len(toConn') = Len(toConn) - 1 /\ Len(toConn) \in Nat /\ Len(toConn) >= 1
        /\ \A i \in 1..Len(toConn') : toConn'[i] = toConn[i + 1]
    BY ChannelTypes
  <2>. QED BY <1>1, <2>1 DEF FormsInChannel, Response
<1>8. FormToSend(s)' BY <1>1 DEF FormToSend, Response
<1>9. HeadersFirst(s)'
  <2>1. task'[s].pending # <<>> \/ ToBeSent("DATA", s)' => Somewhere("HEADERS", s)'
    BY <1>1, <1>2, <1>3, <1>6 DEF HeadersFirst
  <2>2. ASSUME NEW i \in Carrying("DATA", s)', ~Wrote("HEADERS", s)'
        PROVE  \E j \in Carrying("HEADERS", s)' : j <= i
    <3>1. i \in Nat /\ i + 1 \in Carrying("DATA", s) /\ ~Wrote("HEADERS", s) BY <1>2, <1>3, <2>2
    <3>2. PICK j \in Carrying("HEADERS", s) : j <= i + 1 BY <1>1, <3>1 DEF HeadersFirst
    <3>3. j \in Nat /\ j - 1 \in Carrying("HEADERS", s)' BY <1>5, <2>2
    <3>. QED BY <3>1, <3>2, <3>3
  <2>. QED BY <2>1, <2>2 DEF HeadersFirst
<1>10. HeldBack(s)' BY <1>1, <1>2, <1>4 DEF HeldBack
<1>11. Begun(s)' => Contract!Answered(s)' BY <1>1, <1>2, <1>4 DEF Begun
<1>. QED BY <1>1, <1>2, <1>4, <1>7, <1>8, <1>9, <1>10, <1>11
         DEF ResponseInv, FormsInChannel, FormToSend, HeldBack

-----------------------------------------------------------------------------
(* The steps of the others *)

\* The response stays where it is, but for messages that leave the channel: one
\* that bears nothing of it, or all, with the connection.
LEMMA Elsewhere ==
  ASSUME TypeOK, NEW s \in Streams, ResponseInv(s),
         task'[s].out = task[s].out, task'[s].pending = task[s].pending,
         \A k \in ResponseKinds : Wrote(k, s)' <=> Wrote(k, s),
         Contract!Answered(s) => Contract!Answered(s)',
         \/ UNCHANGED <<toConn, connUp>>
         \/ toConn' = <<>> /\ connUp' = FALSE /\ connUp
         \/ /\ toConn # <<>> /\ toConn' = Tail(toConn) /\ UNCHANGED connUp
            /\ \A k \in ResponseKinds : ~Bears(Head(toConn), k, s)
  PROVE  ResponseInv(s)'
<1>1. FormsInChannel /\ FormToSend(s) BY InvParts
<1>2. FormToSend(s)' BY <1>1 DEF FormToSend, Response
<1>3. ASSUME NEW k \in ResponseKinds
      PROVE  ToBeSent(k, s)' <=> ToBeSent(k, s)
  BY DEF ToBeSent, Bears, Response
<1>4. ASSUME NEW k \in ResponseKinds, NEW i \in Carrying(k, s)
      PROVE  i \in Nat /\ i + 0 = i /\ i - 0 = i /\ i >= 0
  BY DEF Carrying
<1>. DEFINE none == 0
            one  == 1
<1>5. none \in {0, 1} /\ one \in {0, 1} OBVIOUS
<1>6. \A k \in ResponseKinds : \A i \in Carrying(k, s) :
        i \in Nat /\ i + none \in Carrying(k, s) /\ i >= none /\ i - none \in Carrying(k, s)
  BY <1>4
<1>. HIDE DEF none
<1>7. CASE UNCHANGED <<toConn, connUp>>
  <2>1. FormsInChannel' BY <1>1, <1>7 DEF FormsInChannel, Response
  <2>2. \A k \in ResponseKinds : Carrying(k, s)' = Carrying(k, s)
    BY <1>7 DEF Carrying, Bears, Response
  <2>. QED BY <1>2, <1>3, <1>5, <1>6, <1>7, <2>1, <2>2, NothingMoves
<1>8. CASE toConn' = <<>> /\ connUp' = FALSE /\ connUp
  <2>1. FormsInChannel' BY <1>8 DEF FormsInChannel
  <2>2. \A k \in ResponseKinds : Carrying(k, s)' = {} BY <1>8 DEF Carrying
  <2>. QED BY <1>2, <1>3, <1>5, <1>6, <1>8, <2>1, <2>2, NothingMoves
<1>9. CASE /\ toConn # <<>> /\ toConn' = Tail(toConn) /\ UNCHANGED connUp
           /\ \A k \in ResponseKinds : ~Bears(Head(toConn), k, s)
  <2>1. FormsInChannel'
    <3>1. /\ Len(toConn') = Len(toConn) - 1 /\ Len(toConn) \in Nat /\ Len(toConn) >= 1
          /\ \A i \in 1..Len(toConn') : toConn'[i] = toConn[i + 1]
      BY <1>9, ChannelTypes
    <3>. QED BY <1>1, <3>1, SMTT(30) DEF FormsInChannel, Response
  <2>2. ASSUME NEW k \in ResponseKinds
        PROVE  /\ Carrying(k, s) \subseteq Nat
               /\ \A i \in Carrying(k, s)' : i \in Nat /\ i + one \in Carrying(k, s)
               /\ \A i \in Carrying(k, s) : i >= one /\ i - one \in Carrying(k, s)'
    <3>1. /\ \A i \in Nat : i \in Carrying(k, s)' <=> i # 0 /\ i + 1 \in Carrying(k, s)
          /\ 1 \notin Carrying(k, s)
          /\ Carrying(k, s) \subseteq Nat \ {0} /\ Carrying(k, s)' \subseteq Nat \ {0}
      BY <1>9, CarriedLess
    <3>2. ASSUME NEW i \in Carrying(k, s) PROVE i >= 1 /\ i - 1 \in Carrying(k, s)'
      <4>1. i \in Nat /\ i # 0 /\ i # 1 BY <3>1
      <4>2. i - 1 \in Nat /\ i - 1 # 0 /\ (i - 1) + 1 = i BY <4>1
      <4>. QED BY <3>1, <4>1, <4>2
    <3>. QED BY <3>1, <3>2
  <2>. HIDE DEF one
  <2>. QED BY <1>2, <1>3, <1>5, <1>9, <2>1, <2>2, NothingMoves
<1>. QED BY <1>7, <1>8, <1>9

\* A task sends a message about its own stream.
LEMMA OthersSend ==
  ASSUME TypeOK, NEW s \in Streams, ResponseInv(s), NEW d \in Streams, d # s, ResponseInv(d),
         NEW m \in ToConnection, task[d].out # <<>>, m = Head(task[d].out), m.sid = d,
         toConn' = Append(toConn, m), UNCHANGED connUp, task'[s] = task[s],
         wire'[s] = wire[s], Contract!Answered(s) => Contract!Answered(s)'
  PROVE  ResponseInv(s)'
<1>1. FormsInChannel /\ FormToSend(s) /\ FormToSend(d) BY InvParts
<1>2. FormToSend(s)' BY <1>1 DEF FormToSend, Response
<1>3. FormsInChannel'
  <2>1. /\ Len(toConn') = Len(toConn) + 1 /\ toConn'[Len(toConn) + 1] = m /\ Len(toConn) \in Nat
        /\ \A i \in 1..Len(toConn) : toConn'[i] = toConn[i]
    BY ChannelTypes
  <2>2. Response(m) => ResponseForm(m.frames) BY <1>1 DEF FormToSend
  <2>. QED BY <1>1, <2>1, <2>2 DEF FormsInChannel, Response
<1>. DEFINE none == 0
<1>4. none \in {0, 1} OBVIOUS
<1>5. ASSUME NEW k \in ResponseKinds
      PROVE  /\ Wrote(k, s)' <=> Wrote(k, s)
             /\ ToBeSent(k, s)' <=> ToBeSent(k, s)
             /\ Carrying(k, s)' = Carrying(k, s)
             /\ \A i \in Carrying(k, s) :
                  i \in Nat /\ i + none \in Carrying(k, s) /\ i >= none /\ i - none \in Carrying(k, s)
  <2>1. ~Bears(m, k, s) BY DEF Bears
  <2>2. Carrying(k, s)' = Carrying(k, s) /\ Carrying(k, s) \subseteq 1..Len(toConn)
        /\ Len(toConn) \in Nat
    <3>1. /\ Carrying(k, s)' = Carrying(k, s) \cup
               (IF Bears(m, k, s) THEN {Len(toConn) + 1} ELSE {})
          /\ Carrying(k, s) \subseteq 1..Len(toConn) /\ Len(toConn) \in Nat
      BY CarriedMore
    <3>. QED BY <2>1, <3>1
  <2>3. ASSUME NEW i \in Carrying(k, s) PROVE i \in Nat /\ i + 0 = i /\ i - 0 = i /\ i >= 0
    BY <2>2
  <2>. QED BY <2>2, <2>3 DEF Wrote, Kinds, ToBeSent, Bears, Response
<1>. HIDE DEF none
<1>. QED BY <1>2, <1>3, <1>4, <1>5, NothingMoves

-----------------------------------------------------------------------------
(* Every step *)

\* The task of the stream makes a step.
LEMMA OwnMoves ==
  ASSUME ConnectionInv, [Next]_vars, NEW s \in Streams, ResponseInv(s), StreamTask(s)
  PROVE  ResponseInv(s)'
<1>. DEFINE t == task[s]
<1>1. /\ t \in Task /\ task \in [Streams -> Task] /\ StreamStep(s)
      /\ UNCHANGED <<wire, blocked, dispatch>> /\ wire'[s] = wire[s]
      /\ inbox \in [Streams -> Seq(ToStream)]
  BY ChannelTypes DEF ConnectionInv, StreamTask, connVars
<1>2. /\ TypeOK /\ Tasks!TypeOK /\ Tasks!StreamInv(s) /\ Tasks!Coherent(s, t)
      /\ (Contract!Answered(s) => Contract!Answered(s)')
  BY AnsweredKept, SameContract DEF ConnectionInv, TypeOK, Tasks!TasksInStep, Tasks!StreamInv
<1>3. ASSUME NEW u, NEW rest, Become(s, u, rest) PROVE task'[s] = u BY <1>1, <1>3 DEF Become
<1>4. \A phase : NewTask(phase).out = <<>> /\ NewTask(phase).pending = <<>> BY DEF NewTask
\* A step that sends nothing of the response.
<1>5. ASSUME NEW u, NEW rest, AtTop(s), Become(s, u, rest), UNCHANGED <<toConn, connUp>>,
             u.out # <<>> => Head(u.out).type # "DoResponseToClient",
             u.pending \in {t.pending, <<>>}
      PROVE  ResponseInv(s)'
  <2>1. task'[s] = u BY <1>3, <1>5
  <2>. HIDE DEF t
  <2>2. task'[s].out # <<>> => ~Response(Head(task'[s].out)) BY <1>5, <2>1 DEF Response
  <2>3. task'[s].pending \in {task[s].pending, <<>>} BY <1>5, <2>1 DEF t
  <2>. QED BY <1>1, <1>2, <1>5, <2>2, <2>3, QuietTask
<1>6. CASE CompositeHeaders(s) \/ CompositeTrailers(s) \/ DispatchIfNeeded(s)
  <2>1. AtTop(s) /\ UNCHANGED <<toConn, connUp>>
        /\ \E u \in {AskForHeaders(s, t), AskForTrailers(s, t), HandOver(s, t)} :
             Become(s, u, inbox[s])
    BY <1>6 DEF CompositeHeaders, CompositeTrailers, DispatchIfNeeded, TopOfLoop
  <2>2. PICK u \in {AskForHeaders(s, t), AskForTrailers(s, t), HandOver(s, t)} :
          Become(s, u, inbox[s])
    BY <2>1
  <2>3. u.out # <<>> => Head(u.out).type # "DoResponseToClient"
    <3>. HIDE DEF t
    <3>1. AskForHeaders(s, t).out = <<DecodeRequest("DecodingHeadersRequest", s, t.headers)>>
      BY <1>1 DEF AskForHeaders, Task
    <3>2. AskForTrailers(s, t).out
            \in {<<>>, <<DecodeRequest("DecodingTrailersRequest", s, t.trailers)>>}
      BY <1>1, <1>4 DEF AskForTrailers, Task
    <3>3. HandOver(s, t).out = <<DispatchMessage(s)>> BY <1>1 DEF HandOver, Task
    <3>4. ASSUME NEW type \in {"DecodingHeadersRequest", "DecodingTrailersRequest"}, NEW block
          PROVE  DecodeRequest(type, s, block).type # "DoResponseToClient"
      BY DEF DecodeRequest
    <3>5. DispatchMessage(s).type # "DoResponseToClient" BY DEF DispatchMessage
    <3>. QED BY <2>2, <3>1, <3>2, <3>3, <3>4, <3>5
  <2>4. u.pending \in {t.pending, <<>>}
    <3>. HIDE DEF t
    <3>. QED BY <1>1, <1>4, <2>2 DEF AskForHeaders, AskForTrailers, HandOver, Task
  <2>. HIDE DEF t
  <2>. QED BY <1>5, <2>1, <2>2, <2>3, <2>4
<1>7. CASE RespondIfPossible(s)
  <2>1. AtTop(s) /\ UNCHANGED <<toConn, connUp>> /\ t.pending # <<>>
        /\ Become(s, Flush(s, t), inbox[s])
    BY <1>7 DEF RespondIfPossible, TopOfLoop, NeedsFlush
  <2>2. CASE MaySend(t.state, Head(t.pending))
    <3>. DEFINE m == ResponseMessage(s, <<Head(t.pending)>>)
    <3>1. Flush(s, t).pending = Tail(t.pending) /\ Flush(s, t).out = <<m>>
      <4>. HIDE DEF t, m
      <4>. QED BY <1>1, <2>2 DEF Flush, Task, m
    <3>2. task'[s] = Flush(s, t) BY <1>3, <2>1
    <3>3. task'[s].pending = Tail(t.pending) /\ task'[s].out = <<m>> BY <3>1, <3>2
    <3>. HIDE DEF m
    <3>4. task'[s].pending = Tail(task[s].pending) /\ task[s].pending # <<>> BY <2>1, <3>3
    <3>5. task'[s].out = <<ResponseMessage(s, <<Head(task[s].pending)>>)>> BY <3>3 DEF m
    <3>. QED BY <1>1, <1>2, <2>1, <3>4, <3>5, FlushMoves
  <2>3. CASE ~MaySend(t.state, Head(t.pending))
    <3>1. Flush(s, t) = NewTask("ended") BY <2>3 DEF Flush
    <3>. DEFINE u == NewTask("ended")
    <3>2. Become(s, u, inbox[s]) /\ u.out = <<>> /\ u.pending = <<>> BY <1>4, <2>1, <3>1
    <3>. HIDE DEF u, t
    <3>. QED BY <1>5, <2>1, <3>2
  <2>. QED BY <2>2, <2>3
<1>8. CASE ReceiveResponse(s)
  <2>. DEFINE m == Head(inbox[s])
  <2>1. Tasks!ReceiveResponse(s)
    BY <1>8 DEF ReceiveResponse, Tasks!ReceiveResponse, Receive, Tasks!Receive, Idle, Tasks!Idle,
       AtTop, Tasks!AtTop, Running, Tasks!Running, NeedsHeaders, Tasks!NeedsHeaders,
       NeedsTrailers, Tasks!NeedsTrailers, NeedsDispatch, Tasks!NeedsDispatch, NeedsFlush,
       Tasks!NeedsFlush, FitsWindow, Tasks!FitsWindow, Become, Tasks!Become, Handle,
       Tasks!Handle, HandleResponse, Tasks!HandleResponse, CanSendFrame, Tasks!CanSendFrame,
       ResponseMessage, Tasks!ResponseMessage, ResponseHeaders, Tasks!ResponseHeaders,
       ResponseData, Tasks!ResponseData
  <2>2. UNCHANGED Owed BY <1>1 DEF Owed
  <2>3. ~Tasks!Answered(s) /\ Tasks!Answered(s)'
    BY <1>1, <1>2, <2>1, <2>2, Tasks!ResponseAnswers, ContractAssumptions, StreamsAssumption,
       WindowAssumption, CapacityAssumption
  <2>4. ~Contract!Answered(s) /\ Contract!Answered(s)' BY <2>3, SameAnswered, SameAnsweredNext
  <2>5. ~Begun(s) BY <2>4, InvParts
  <2>6. m \in ToStream /\ m.type = "ResponseObject" /\ UNCHANGED <<toConn, connUp>>
        /\ Become(s, Handle(s, t, m), Tail(inbox[s]))
    BY <1>1, <1>8 DEF ReceiveResponse, Receive
  <2>. DEFINE d == ResponseData(m.size)
  <2>7. ResponseHeaders.kind = "HEADERS" /\ d.kind = "DATA" BY DEF ResponseHeaders, ResponseData
  <2>8. task'[s] = HandleResponse(s, t, m.size) BY <1>3, <2>6 DEF Handle
  <2>9. t.pending = <<>> BY <2>5 DEF Begun
  <2>10. \/ /\ HandleResponse(s, t, m.size).out = <<ResponseMessage(s, <<ResponseHeaders, d>>)>>
            /\ HandleResponse(s, t, m.size).pending = <<>>
         \/ /\ HandleResponse(s, t, m.size).out = <<ResponseMessage(s, <<ResponseHeaders>>)>>
            /\ HandleResponse(s, t, m.size).pending = <<d>>
    <3>. DEFINE h == ResponseHeaders
                both == ResponseMessage(s, <<h, d>>)
                one == ResponseMessage(s, <<h>>)
    <3>1. Append(<<>>, d) = <<d>> OBVIOUS
    <3>. HIDE DEF t, d
    <3>2. CanSendFrame(t, m.size) => /\ HandleResponse(s, t, m.size).out = <<both>>
                                     /\ HandleResponse(s, t, m.size).pending = t.pending
      <4>1. CanSendFrame(t, m.size) =>
              HandleResponse(s, t, m.size) = [t EXCEPT !.window = @ - m.size, !.out = <<both>>]
        BY DEF HandleResponse, d
      <4>. HIDE DEF both
      <4>. QED BY <1>1, <4>1 DEF Task
    <3>3. ~CanSendFrame(t, m.size) => /\ HandleResponse(s, t, m.size).out = <<one>>
                                      /\ HandleResponse(s, t, m.size).pending = Append(t.pending, d)
      <4>1. ~CanSendFrame(t, m.size) =>
              HandleResponse(s, t, m.size) = [t EXCEPT !.pending = Append(@, d), !.out = <<one>>]
        BY DEF HandleResponse, d
      <4>. HIDE DEF one
      <4>. QED BY <1>1, <4>1 DEF Task
    <3>4. ~CanSendFrame(t, m.size) => HandleResponse(s, t, m.size).pending = <<d>>
      BY <2>9, <3>1, <3>3
    <3>5. CanSendFrame(t, m.size) => HandleResponse(s, t, m.size).pending = <<>>
      BY <2>9, <3>2
    <3>. QED BY <3>2, <3>3, <3>4, <3>5
  <2>. HIDE DEF d, m
  <2>11. \/ task'[s].out = <<ResponseMessage(s, <<ResponseHeaders, d>>)>> /\ task'[s].pending = <<>>
         \/ task'[s].out = <<ResponseMessage(s, <<ResponseHeaders>>)>> /\ task'[s].pending = <<d>>
    BY <2>8, <2>10
  <2>. QED BY <1>1, <2>4, <2>5, <2>6, <2>7, <2>11, ResponseMoves
<1>9. CASE ReceiveFrame(s) \/ ReceiveHeaders(s) \/ ReceiveTrailers(s)
  <2>. DEFINE m == Head(inbox[s])
  <2>1. /\ AtTop(s) /\ UNCHANGED <<toConn, connUp>>
        /\ \E u \in {HandleFrame(s, t, m.frame), HandleDecodedHeaders(s, t, m.trailer),
                     HandleDecodedTrailers(t)} : Become(s, u, Tail(inbox[s]))
    BY <1>9 DEF ReceiveFrame, ReceiveHeaders, ReceiveTrailers, Receive, Idle, Handle
  <2>2. PICK u \in {HandleFrame(s, t, m.frame), HandleDecodedHeaders(s, t, m.trailer),
                    HandleDecodedTrailers(t)} : Become(s, u, Tail(inbox[s]))
    BY <2>1
  <2>3. t.out = <<>> BY <2>1 DEF AtTop
  <2>. HIDE DEF t, m
  <2>4. ASSUME u = HandleFrame(s, t, m.frame)
        PROVE  /\ u.out # <<>> => Head(u.out).type # "DoResponseToClient"
               /\ u.pending = t.pending
    <3>1. u.out = <<FrameVerdict(s, t, m.frame)>> /\ u.pending = t.pending
      BY <1>1, <2>4 DEF HandleFrame, Accepted, Task
    <3>2. FrameVerdict(s, t, m.frame).type # "DoResponseToClient"
      BY DEF FrameVerdict, ErrorMessage, CountMessage
    <3>. QED BY <3>1, <3>2
  <2>5. ASSUME u = HandleDecodedHeaders(s, t, m.trailer)
        PROVE  /\ u.out # <<>> => Head(u.out).type # "DoResponseToClient"
               /\ u.pending = t.pending
    BY <1>1, <2>3, <2>5 DEF HandleDecodedHeaders, ErrorMessage, Task
  <2>6. ASSUME u = HandleDecodedTrailers(t)
        PROVE  u.out = <<>> /\ u.pending \in {t.pending, <<>>}
    BY <1>1, <1>4, <2>3, <2>6 DEF HandleDecodedTrailers, Task
  <2>. QED BY <1>5, <2>1, <2>2, <2>4, <2>5, <2>6
<1>10. CASE Terminate(s)
  <2>. DEFINE u == NewTask("ended")
              rest == <<>>
  <2>1. AtTop(s) /\ UNCHANGED <<toConn, connUp>> /\ Become(s, u, rest)
        /\ u.out = <<>> /\ u.pending = <<>>
    BY <1>4, <1>10 DEF Terminate, Idle
  <2>. HIDE DEF u, rest, t
  <2>. QED BY <1>5, <2>1
<1>11. CASE Send(s)
  <2>1. /\ t.out # <<>> /\ connUp /\ UNCHANGED connUp
        /\ toConn' = Append(toConn, Head(t.out)) /\ task' = [task EXCEPT ![s].out = Tail(@)]
    BY <1>11 DEF Send
  <2>2. Head(t.out) \in ToConnection /\ Tail(t.out) = <<>>
    <3>1. Len(t.out) <= 1 BY <1>2 DEF Tasks!Coherent
    <3>2. t.out \in Seq(ToConnection) BY <1>1 DEF Task
    <3>. HIDE DEF t
    <3>. QED BY <2>1, <3>1, <3>2, OnlyOne
  <2>3. task'[s].out = <<>> /\ task'[s].pending = t.pending
    BY <1>1, <2>1, <2>2 DEF Task
  <2>. QED BY <1>1, <1>2, <2>1, <2>2, <2>3, SendMoves
<1>12. CASE SendFails(s)
  <2>1. ~connUp /\ UNCHANGED <<toConn, connUp>> /\ task'[s].out = <<>> /\ task'[s].pending = <<>>
    BY <1>3, <1>4, <1>12 DEF SendFails
  <2>2. FormsInChannel' /\ FormToSend(s)'
    BY <2>1, InvParts DEF FormsInChannel, FormToSend, Response
  <2>. DEFINE none == 0
  <2>3. none \in {0, 1} OBVIOUS
  <2>4. ASSUME NEW k \in ResponseKinds
        PROVE  /\ Wrote(k, s)' <=> Wrote(k, s)
               /\ ~ToBeSent(k, s)'
               /\ Carrying(k, s)' = Carrying(k, s) /\ Carrying(k, s) \subseteq Nat
               /\ \A i \in Carrying(k, s) : i \in Nat /\ i + none \in Carrying(k, s)
    <3>1. /\ Carrying(k, s)' = Carrying(k, s) /\ Carrying(k, s) \subseteq Nat
      BY <2>1 DEF Carrying, Bears, Response
    <3>2. ASSUME NEW i \in Carrying(k, s) PROVE i \in Nat /\ i + 0 = i BY <3>1
    <3>. QED BY <1>1, <2>1, <3>1, <3>2 DEF Wrote, Kinds, ToBeSent
  <2>. HIDE DEF none
  <2>. QED BY <1>2, <2>1, <2>2, <2>3, <2>4, NothingMoves
<1>. QED BY <1>1, <1>6, <1>7, <1>8, <1>9, <1>10, <1>11, <1>12 DEF StreamStep

\* The task of another stream makes a step.
LEMMA OthersMove ==
  ASSUME ConnectionInv, [Next]_vars, NEW s \in Streams, ResponseInv(s),
         NEW d \in Streams, d # s, ResponseInv(d), StreamTask(d)
  PROVE  ResponseInv(s)'
<1>1. /\ StreamStep(d) /\ UNCHANGED wire /\ wire'[s] = wire[s] /\ TypeOK /\ Tasks!TasksInStep
      /\ Contract!Answered(s) => Contract!Answered(s)'
  BY AnsweredKept DEF ConnectionInv, StreamTask, connVars
<1>2. /\ task'[s] = task[s] /\ UNCHANGED connUp
      /\ UNCHANGED toConn \/ (task[d].out # <<>> /\ toConn' = Append(toConn, Head(task[d].out)))
  BY <1>1, TaskGoesOn
<1>3. \A k \in ResponseKinds : Wrote(k, s)' <=> Wrote(k, s) BY <1>1 DEF Wrote, Kinds
<1>4. CASE UNCHANGED toConn BY <1>1, <1>2, <1>3, <1>4, Elsewhere
<1>5. CASE task[d].out # <<>> /\ toConn' = Append(toConn, Head(task[d].out))
  <2>1. Head(task[d].out).sid = d BY <1>1, <1>5, SentByItself
  <2>2. Head(task[d].out) \in ToConnection
    <3>1. task[d] \in Task BY <1>1, ChannelTypes
    <3>2. Tasks!Coherent(d, task[d]) BY <1>1 DEF Tasks!TasksInStep, Tasks!StreamInv
    <3>3. task[d].out \in Seq(ToConnection) /\ Len(task[d].out) <= 1
      BY <3>1, <3>2 DEF Task, Tasks!Coherent
    <3>. QED BY <1>5, <3>3, OnlyOne
  <2>. QED BY <1>1, <1>2, <1>5, <2>1, <2>2, OthersSend
<1>. QED BY <1>2, <1>4, <1>5

\* What the connection writes, resets and acknowledgements, is no response.
LEMMA NoResponseWritten ==
  ASSUME TypeOK, NEW s \in Streams, NEW sid, NEW f \in WireFrame, ~IsResponse(f) \/ sid # s,
         wire' = wire \/ Write(sid, <<f>>) \/ Write(sid, <<>>), Ordered(wire[s])
  PROVE  /\ \A k \in ResponseKinds : Wrote(k, s)' <=> Wrote(k, s)
         /\ Ordered(wire[s])'
<1>1. wire[s] \in Seq(WireFrame) /\ s \in DOMAIN wire BY ChannelTypes
<1>2. CASE wire'[s] = wire[s] BY <1>2 DEF Wrote, Kinds, Ordered
<1>3. CASE wire'[s] = wire[s] \o <<f>> /\ ~IsResponse(f)
  <2>1. wire'[s] = Append(wire[s], f) BY <1>1, <1>3
  <2>2. Kinds(wire'[s]) = Kinds(wire[s]) \cup {f.kind} BY <1>1, <2>1, KindsAppended
  <2>3. Ordered(Append(wire[s], f)) BY <1>1, <1>3, OrderedAppend
  <2>4. Ordered(wire'[s]) BY <2>1, <2>3
  <2>5. Ordered(wire[s])' BY <2>4 DEF Ordered
  <2>6. \A k \in ResponseKinds : k # f.kind BY <1>3 DEF IsResponse, ResponseKinds
  <2>. QED BY <2>2, <2>5, <2>6 DEF Wrote, Kinds
<1>4. CASE wire'[s] = wire[s] \o <<>>
  <2>1. wire'[s] = wire[s] BY <1>1, <1>4
  <2>. QED BY <1>2, <2>1
<1>. QED BY <1>1, <1>2, <1>3, <1>4 DEF Write

\* What the connection does but for writing responses, and the steps of its
\* reader and of the dispatches.
LEMMA OtherStepsMove ==
  ASSUME ConnectionInv, [Next]_vars, NEW s \in Streams, ResponseInv(s), Ordered(wire[s]),
         ~WriteResponse, \A d \in Streams : ~StreamTask(d)
  PROVE  ResponseInv(s)' /\ Ordered(wire[s])'
<1>1. /\ TypeOK /\ (Contract!Answered(s) => Contract!Answered(s)') /\ s # 0
      /\ Tasks!Coherent(s, task[s])
  BY AnsweredKept, StreamsAssumption
     DEF ConnectionInv, Tasks!TasksInStep, Tasks!StreamInv
\* The steps that write nothing on the stream.
<1>2. ASSUME task'[s].out = task[s].out, task'[s].pending = task[s].pending,
             \/ UNCHANGED <<toConn, connUp>>
             \/ toConn' = <<>> /\ connUp' = FALSE /\ connUp
             \/ /\ toConn # <<>> /\ toConn' = Tail(toConn) /\ UNCHANGED connUp
                /\ ~Response(Head(toConn)),
             NEW sid, NEW f \in WireFrame, ~IsResponse(f) \/ sid # s,
             wire' = wire \/ Write(sid, <<f>>) \/ Write(sid, <<>>)
      PROVE  ResponseInv(s)' /\ Ordered(wire[s])'
  <2>1. /\ \A k \in ResponseKinds : Wrote(k, s)' <=> Wrote(k, s)
        /\ Ordered(wire[s])'
    BY <1>1, <1>2, NoResponseWritten
  <2>2. ~Response(Head(toConn)) => \A k \in ResponseKinds : ~Bears(Head(toConn), k, s)
    BY DEF Bears
  <2>. QED BY <1>1, <1>2, <2>1, <2>2, Elsewhere
<1>. DEFINE reset == ResetFor(ctx.error.code)
            goaway == GoawayFor(ctx.seenMax, ctx.error.code)
<1>3. /\ reset \in WireFrame /\ ~IsResponse(reset) /\ goaway \in WireFrame
      /\ \A f \in ClientFrames : Handlers!NeedsAck(f) => AckOf(f) \in WireFrame
  BY <1>1, WrittenTypes DEF ResetFor, IsResponse, Written, Handlers!NeedsAck
<1>. HIDE DEF reset, goaway
<1>4. CASE \/ Reading \/ PeerCloses \/ ReaderStops \/ UNCHANGED vars
           \/ (\E d \in Streams : DispatchStep(d))
           \/ DropOtherError \/ TakeRefusedFrame \/ Deliver
  <2>1. UNCHANGED <<task, toConn, connUp, wire>>
    BY <1>4 DEF Reading, ReadFrame, PeerCloses, ReaderStops, vars, streamVars, connVars,
       DispatchStep, Acquire, DispatchCancelled, Dispatched, DispatchReplies, DispatchVars,
       DropOtherError, TakeRefusedFrame, Deliver
  <2>. QED BY <1>2, <1>3, <2>1
<1>5. CASE IdleTimeout \/ FrameInsideBlock
  <2>1. UNCHANGED <<task, wire>> /\ toConn' = <<>> /\ connUp' = FALSE /\ connUp
    BY <1>5 DEF IdleTimeout, FrameInsideBlock, TakeFrame, Selecting, Ready, Abandon, Leave
  <2>. QED BY <1>2, <1>3, <2>1
<1>6. CASE HandleConnectionError
  <2>1. UNCHANGED task /\ toConn' = <<>> /\ connUp' = FALSE /\ connUp
    BY <1>6 DEF HandleConnectionError, Ready, Leave
  <2>. DEFINE sid == 0
  <2>2. Write(sid, <<goaway>>) \/ Write(sid, <<>>)
    BY <1>6 DEF HandleConnectionError, goaway
  <2>3. sid # s BY <1>1
  <2>4. wire' = wire \/ Write(sid, <<goaway>>) \/ Write(sid, <<>>) BY <2>2
  <2>5. goaway \in WireFrame /\ task'[s].out = task[s].out /\ task'[s].pending = task[s].pending
    BY <1>3, <2>1
  <2>. HIDE DEF sid
  <2>. QED BY <1>2, <2>1, <2>3, <2>4, <2>5
<1>7. CASE HandleStreamError
  <2>. DEFINE sid == ctx.error.sid
  <2>1. UNCHANGED task /\ (UNCHANGED <<toConn, connUp>> \/ (toConn' = <<>> /\ connUp' = FALSE /\ connUp))
        /\ (Write(sid, <<reset>>) \/ UNCHANGED wire)
    BY <1>7 DEF HandleStreamError, Ready, Leave, reset
  <2>. HIDE DEF sid
  <2>. QED BY <1>2, <1>3, <2>1
<1>8. CASE TakeConnectionFrame
  <2>1. PICK f \in ClientFrames :
          TakeFrame(f) /\ HandleConnectionFrame(f) /\ UNCHANGED <<task, inbox, stage>>
    BY <1>8 DEF TakeConnectionFrame
  <2>2. UNCHANGED <<toConn, connUp>> \/ (toConn' = <<>> /\ connUp' = FALSE /\ connUp)
    BY <2>1 DEF HandleConnectionFrame, Abandon, Leave, TakeFrame, Selecting, Ready
  <2>. DEFINE sid == 0
  <2>3. \/ UNCHANGED wire \/ Write(sid, <<>>)
        \/ Handlers!NeedsAck(f) /\ Write(sid, <<AckOf(f)>>)
    BY <2>1 DEF HandleConnectionFrame
  <2>4. sid # s BY <1>1
  <2>. HIDE DEF sid
  <2>. QED BY <1>2, <1>3, <2>1, <2>2, <2>3, <2>4
<1>9. CASE TakeStreamFrame
  <2>1. PICK f \in ClientFrames :
          /\ TakeFrame(f)
          /\ task' = IF ShouldInit(f) THEN [task EXCEPT ![f.sid] = NewTask("running")] ELSE task
          /\ ValidateAndForward(f, WithStream(f)) /\ UNCHANGED wire
    BY <1>9 DEF TakeStreamFrame
  <2>2. UNCHANGED <<toConn, connUp>> \/ (toConn' = <<>> /\ connUp' = FALSE /\ connUp)
    BY <2>1 DEF ValidateAndForward, Abandon, Leave, TakeFrame, Selecting, Ready
  <2>3. task'[s].out = task[s].out /\ task'[s].pending = task[s].pending
    <3>1. task \in [Streams -> Task] BY <1>1, ChannelTypes
    <3>2. CASE task'[s] = task[s] BY <3>2
    <3>3. CASE ShouldInit(f) /\ f.sid = s
      <4>1. task[s].phase = "absent"
        BY <3>3 DEF ShouldInit, ConnectionInv, ContextFaithful
      <4>2. task[s].out = <<>> /\ task[s].pending = <<>> BY <1>1, <4>1 DEF Tasks!Coherent
      <4>3. task'[s] = NewTask("running") BY <2>1, <3>1, <3>3
      <4>. QED BY <4>2, <4>3 DEF NewTask
    <3>. QED BY <2>1, <3>1, <3>2, <3>3
  <2>. QED BY <1>2, <1>3, <2>1, <2>2, <2>3
<1>10. CASE StartDispatch \/ DecodeHeaders \/ DecodeTrailers \/ TakeError \/ TakeCount
  <2>1. UNCHANGED <<task, wire>> /\ toConn # <<>> /\ toConn' = Tail(toConn) /\ UNCHANGED connUp
        /\ Head(toConn).type # "DoResponseToClient"
    BY <1>10 DEF StartDispatch, DecodeHeaders, DecodeTrailers, ReplyOrError, TakeError, TakeCount,
       TakeMessage, KeepRunning
  <2>. QED BY <1>2, <1>3, <2>1 DEF Response
<1>11. CASE DeliverFails
  <2>1. UNCHANGED <<task, wire>>
        /\ (UNCHANGED <<toConn, connUp>> \/ (toConn' = <<>> /\ connUp' = FALSE /\ connUp))
    BY <1>11 DEF DeliverFails, Abandon, Leave
  <2>. QED BY <1>2, <1>3, <2>1
<1>. QED BY <1>4, <1>5, <1>6, <1>7, <1>8, <1>9, <1>10, <1>11
         DEF Next, OtherThanReading, ConnStep

\* What is written of the frames of a response.
LEMMA FramesWritten ==
  ASSUME NEW S, NEW line \in Seq(S), NEW frames, ResponseForm(frames),
         NEW n \in 0..Len(frames), NEW more \in Seq(S), Len(more) = n,
         \A i \in 1..n : more[i].kind = frames[i].kind, Ordered(line),
         \A k \in ResponseKinds : (\E i \in 1..Len(frames) : frames[i].kind = k)
                                    => k \notin Kinds(line),
         frames[1].kind = "DATA" => "HEADERS" \in Kinds(line)
  PROVE  /\ Ordered(line \o more)
         /\ Kinds(line \o more) = Kinds(line) \cup {frames[i].kind : i \in 1..n}
<1>1. Len(frames) \in {1, 2} /\ IsResponse(frames[1])
      /\ (Len(frames) = 2 => frames[1].kind = "HEADERS" /\ frames[2].kind = "DATA")
  BY DEF ResponseForm
<1>2. "HEADERS" \in ResponseKinds /\ "DATA" \in ResponseKinds BY DEF ResponseKinds
<1>3. CASE n = 0
  <2>1. more = <<>> BY <1>3
  <2>2. line \o more = line BY <2>1
  <2>3. {frames[i].kind : i \in 1..n} = {} BY <1>3
  <2>. QED BY <2>2, <2>3
<1>4. ASSUME n \in {1, 2}
      PROVE  /\ more[1] \in S /\ Append(line, more[1]) \in Seq(S)
             /\ Ordered(Append(line, more[1]))
             /\ Kinds(Append(line, more[1])) = Kinds(line) \cup {frames[1].kind}
             /\ more[1].kind = frames[1].kind
  <2>1. more[1] \in S /\ more[1].kind = frames[1].kind BY <1>4
  <2>2. frames[1].kind \notin Kinds(line)
    <3>1. 1 \in 1..Len(frames) BY <1>1
    <3>2. frames[1].kind \in ResponseKinds BY <1>1 DEF IsResponse, ResponseKinds
    <3>. QED BY <3>1, <3>2
  <2>3. \/ more[1].kind = "HEADERS" /\ "HEADERS" \notin Kinds(line)
        \/ more[1].kind = "DATA" /\ "HEADERS" \in Kinds(line) /\ "DATA" \notin Kinds(line)
    BY <1>1, <2>1, <2>2 DEF IsResponse
  <2>4. Ordered(Append(line, more[1])) BY <2>1, <2>3, OrderedAppend
  <2>5. Kinds(Append(line, more[1])) = Kinds(line) \cup {more[1].kind} BY <2>1, KindsAppended
  <2>. QED BY <2>1, <2>4, <2>5
<1>5. CASE n = 1
  <2>1. line \o more = Append(line, more[1])
    <3>. DEFINE x == more[1]
    <3>1. more = <<x>> BY <1>5
    <3>2. x \in S BY <1>4, <1>5
    <3>. HIDE DEF x
    <3>3. line \o <<x>> = Append(line, x) BY <3>2
    <3>. QED BY <3>1, <3>3 DEF x
  <2>2. {frames[i].kind : i \in 1..n} = {frames[1].kind} BY <1>5
  <2>. QED BY <1>4, <1>5, <2>1, <2>2
<1>6. CASE n = 2
  <2>. DEFINE one == Append(line, more[1])
  <2>1. Len(frames) = 2 /\ frames[1].kind = "HEADERS" /\ frames[2].kind = "DATA"
    BY <1>1, <1>6
  <2>2. more[2] \in S /\ more[2].kind = "DATA"
    <3>1. 2 \in 1..n /\ Len(more) = 2 BY <1>6
    <3>2. more[2].kind = frames[2].kind BY <3>1
    <3>3. \A i \in 1..Len(more) : more[i] \in S OBVIOUS
    <3>4. 2 \in 1..Len(more) BY <3>1
    <3>5. more[2] \in S BY <3>3, <3>4
    <3>. QED BY <2>1, <3>2, <3>5
  <2>3. "DATA" \notin Kinds(line)
    <3>1. 2 \in 1..Len(frames) BY <2>1
    <3>. QED BY <1>2, <2>1, <3>1
  <2>4. one \in Seq(S) /\ Ordered(one) /\ Kinds(one) = Kinds(line) \cup {"HEADERS"}
    BY <1>4, <1>6, <2>1
  <2>5. line \o more = Append(one, more[2])
    <3>1. more = <<more[1], more[2]>> BY <1>6
    <3>2. line \o <<more[1], more[2]>> = Append(Append(line, more[1]), more[2])
      BY <1>4, <1>6, <2>2, SMTT(30)
    <3>. QED BY <3>1, <3>2
  <2>. HIDE DEF one
  <2>6. Ordered(Append(one, more[2])) BY <2>2, <2>3, <2>4, OrderedAppend
  <2>7. Kinds(Append(one, more[2])) = Kinds(one) \cup {"DATA"} BY <2>2, <2>4, KindsAppended
  <2>8. {frames[i].kind : i \in 1..n} = {"HEADERS", "DATA"}
    <3>1. 1..n = {1, 2} BY <1>6
    <3>. QED BY <2>1, <3>1
  <2>. QED BY <2>4, <2>5, <2>6, <2>7, <2>8
<1>7. n \in {0, 1, 2} BY <1>1
<1>. QED BY <1>3, <1>5, <1>6, <1>7

\* The connection writes a response, as far as its window goes.
LEMMA WritingMoves ==
  ASSUME ConnectionInv, [Next]_vars, NEW s \in Streams, ResponseInv(s), Ordered(wire[s]),
         WriteResponse
  PROVE  ResponseInv(s)' /\ Ordered(wire[s])'
<1>. DEFINE m == Head(toConn)
            d == m.sid
            frames == m.frames
<1>1. /\ TypeOK /\ (Contract!Answered(s) => Contract!Answered(s)')
      /\ connUp /\ toConn # <<>> /\ Response(m) /\ UNCHANGED task
  BY AnsweredKept
     DEF ConnectionInv, WriteResponse, TakeMessage, Selecting, Ready, Response
<1>2. /\ d \in Streams /\ frames \in Seq(OutFrame) /\ wire[s] \in Seq(WireFrame)
      /\ wire \in [Streams \cup {0} -> Seq(WireFrame)]
  BY <1>1, MessageTypes, ChannelTypes DEF Response
<1>3. ResponseForm(frames)
  <2>1. toConn \in Seq(ToConnection) BY <1>1, ChannelTypes
  <2>2. m = toConn[1] /\ 1 \in 1..Len(toConn) BY <1>1, <2>1
  <2>. QED BY <1>1, <2>2, InvParts DEF FormsInChannel
<1>4. CASE UNCHANGED wire /\ toConn' = <<>> /\ connUp' = FALSE
  <2>1. \A k \in ResponseKinds : Wrote(k, s)' <=> Wrote(k, s) BY <1>4 DEF Wrote, Kinds
  <2>2. Ordered(wire[s])' BY <1>4 DEF Ordered
  <2>. QED BY <1>1, <1>4, <2>1, <2>2, Elsewhere
<1>5. ASSUME NEW n \in 0..Len(frames), CoversFirst(n, frames, ctx.window),
             wire' = [wire EXCEPT ![d] = @ \o [i \in 1..n |-> ResponseFrame(SubSeq(frames, 1, n)[i])]],
             toConn' = Tail(toConn), UNCHANGED connUp
      PROVE  ResponseInv(s)' /\ Ordered(wire[s])'
  <2>1. CASE s # d
    <3>1. wire'[s] = wire[s] BY <1>5, <2>1
    <3>2. \A k \in ResponseKinds : Wrote(k, s)' <=> Wrote(k, s) BY <3>1 DEF Wrote, Kinds
    <3>3. Ordered(wire[s])' BY <3>1 DEF Ordered
    <3>4. \A k \in ResponseKinds : ~Bears(m, k, s) BY <2>1 DEF Bears
    <3>. HIDE DEF m
    <3>5. toConn # <<>> /\ toConn' = Tail(toConn) /\ UNCHANGED connUp
          /\ \A k \in ResponseKinds : ~Bears(Head(toConn), k, s)
      BY <1>1, <1>5, <3>4 DEF m
    <3>. QED BY <1>1, <3>2, <3>3, <3>5, Elsewhere
  <2>2. CASE s = d
    <3>. DEFINE more == [i \in 1..n |-> ResponseFrame(SubSeq(frames, 1, n)[i])]
                line == wire[s]
    <3>1. \A i \in 1..n : /\ SubSeq(frames, 1, n)[i] = frames[i] /\ frames[i] \in OutFrame
                          /\ ResponseFrame(frames[i]) \in WireFrame
      <4>1. \A i \in 1..n : SubSeq(frames, 1, n)[i] = frames[i] /\ frames[i] \in OutFrame
        <5>. HIDE DEF frames
        <5>. QED BY <1>2
      <4>. QED BY <1>1, <4>1, WrittenTypes
    <3>2. /\ more \in Seq(WireFrame) /\ Len(more) = n
          /\ \A i \in 1..n : more[i].kind = frames[i].kind
      <4>1. \A i \in 1..n : more[i] \in WireFrame /\ more[i].kind = frames[i].kind
        BY <3>1 DEF ResponseFrame, Written
      <4>2. n \in Nat /\ DOMAIN more = 1..n /\ more = [i \in 1..n |-> more[i]]
        <5>. HIDE DEF frames
        <5>. QED BY <1>2
      <4>3. more \in Seq(WireFrame) /\ Len(more) = n
        <5>. HIDE DEF frames
        <5>. QED BY <4>1, <4>2
      <4>. QED BY <4>1, <4>3
    <3>3. wire'[s] = line \o more BY <1>2, <1>5, <2>2
    <3>. HIDE DEF more
    <3>4. \A k \in ResponseKinds : Bears(m, k, s) <=> \E i \in 1..Len(frames) : frames[i].kind = k
      BY <1>1, <2>2 DEF Bears
    <3>5. \A k \in ResponseKinds : Bears(m, k, s) => 1 \in Carrying(k, s)
      BY <1>1, CarriedLess, <1>5
    <3>6. InOnePlace("HEADERS", s) /\ InOnePlace("DATA", s) /\ HeadersFirst(s)
      BY <1>1, InvParts
    <3>7. \A k \in ResponseKinds : (\E i \in 1..Len(frames) : frames[i].kind = k)
            => k \notin Kinds(line)
      BY <3>4, <3>5, <3>6 DEF InOnePlace, Wrote, ResponseKinds
    <3>8. frames[1].kind = "DATA" => "HEADERS" \in Kinds(line)
      <4>. SUFFICES ASSUME frames[1].kind = "DATA" PROVE "HEADERS" \in Kinds(line) OBVIOUS
      <4>1. Len(frames) = 1 BY <1>3 DEF ResponseForm
      <4>2. ~Bears(m, "HEADERS", s) /\ Bears(m, "DATA", s)
        BY <3>4, <4>1 DEF ResponseKinds
      <4>3. 1 \in Carrying("DATA", s) BY <3>5, <4>2 DEF ResponseKinds
      <4>4. 1 \notin Carrying("HEADERS", s) BY <4>2 DEF Carrying
      <4>5. \A j \in Carrying("HEADERS", s) : ~(j <= 1)
        BY <4>4 DEF Carrying
      <4>. QED BY <3>6, <4>3, <4>5 DEF HeadersFirst, Wrote
    <3>9. /\ Ordered(line \o more)
          /\ Kinds(line \o more) = Kinds(line) \cup {frames[i].kind : i \in 1..n}
      <4>. HIDE DEF frames, line
      <4>1. line \in Seq(WireFrame) /\ Ordered(line) BY <1>2 DEF line
      <4>. QED BY <1>3, <1>5, <3>2, <3>7, <3>8, <4>1, FramesWritten
    <3>10. Ordered(wire[s])'
      <4>1. Ordered(wire'[s]) BY <3>3, <3>9
      <4>. QED BY <4>1 DEF Ordered
    <3>11. \A k : Wrote(k, s)' <=> Wrote(k, s) \/ \E i \in 1..n : frames[i].kind = k
      BY <3>3, <3>9, ZenonT(40) DEF Wrote, Kinds
    <3>12. \A i \in 1..n : i \in 1..Len(frames)
      <4>. HIDE DEF frames
      <4>. QED BY <1>2, <1>5
    <3>13. ASSUME Bears(m, "HEADERS", s) PROVE Wrote("HEADERS", s)'
      <4>1. frames[1].kind = "HEADERS" /\ Len(frames) \in 1..2
        BY <1>3, <3>4, <3>13 DEF ResponseForm, IsResponse, ResponseKinds
      <4>2. n # 0
        <5>1. ~Affordable(frames[1], ctx.window) => FALSE BY <4>1 DEF Affordable
        <5>. HIDE DEF frames
        <5>. QED BY <1>5, <4>1, <5>1 DEF CoversFirst
      <4>3. 1 \in 1..n BY <1>5, <4>1, <4>2
      <4>. QED BY <3>11, <4>1, <4>3
    <3>14. \A k \in ResponseKinds : /\ Wrote(k, s) => Wrote(k, s)'
                                    /\ Wrote(k, s)' => Wrote(k, s) \/ Bears(m, k, s)
      BY <3>4, <3>11, <3>12
    <3>. HIDE DEF m, line
    <3>15. /\ toConn # <<>> /\ toConn' = Tail(toConn) /\ Response(Head(toConn))
           /\ Head(toConn).sid = s /\ connUp'
           /\ \A k \in ResponseKinds : /\ Wrote(k, s) => Wrote(k, s)'
                                       /\ Wrote(k, s)' => Wrote(k, s) \/ Bears(Head(toConn), k, s)
           /\ Bears(Head(toConn), "HEADERS", s) => Wrote("HEADERS", s)'
      BY <1>1, <1>5, <2>2, <3>13, <3>14 DEF m
    <3>16. task'[s].out = task[s].out /\ task'[s].pending = task[s].pending BY <1>1
    <3>17. ResponseInv(s)' BY <1>1, <3>15, <3>16, WriteMoves
    <3>. QED BY <3>10, <3>17
  <2>. QED BY <2>1, <2>2
<1>. QED BY <1>4, <1>5 DEF WriteResponse, KeepRunning, Abandon, Leave, Write

-----------------------------------------------------------------------------
(* The theorem *)

LEMMA ResponsesInit == ConnInit => ResponsesInStep /\ ResponseInOrder
<1>. SUFFICES ASSUME ConnInit, NEW s \in Streams
              PROVE  ResponseInv(s) /\ Ordered(wire[s])
  BY OrderIsOrdered DEF ResponsesInStep
<1>1. toConn = <<>> /\ task[s].out = <<>> /\ task[s].pending = <<>> /\ wire[s] = <<>>
  BY DEF ConnInit, StreamInit, NewTask
<1>2. \A k : ~Somewhere(k, s) /\ Carrying(k, s) = {} /\ ~ToBeSent(k, s) /\ ~Wrote(k, s)
  BY <1>1 DEF Somewhere, Wrote, Kinds, Carrying, ToBeSent
<1>3. InOnePlace("HEADERS", s) /\ InOnePlace("DATA", s) /\ HeadersFirst(s) /\ ~Begun(s)
  BY <1>1, <1>2 DEF InOnePlace, HeadersFirst, Begun
<1>. QED BY <1>1, <1>3 DEF ResponseInv, Ordered

LEMMA ResponsesStep ==
  ASSUME ConnectionInv, ResponsesInStep, ResponseInOrder, [Next]_vars
  PROVE  ResponsesInStep' /\ ResponseInOrder'
<1>1. ASSUME NEW s \in Streams PROVE ResponseInv(s)' /\ Ordered(wire[s])'
  <2>1. ResponseInv(s) /\ Ordered(wire[s]) BY OrderIsOrdered DEF ResponsesInStep
  <2>2. ASSUME NEW d \in Streams, StreamTask(d) PROVE ResponseInv(s)' /\ Ordered(wire[s])'
    <3>1. ResponseInv(d) BY DEF ResponsesInStep
    <3>2. ResponseInv(s)' BY <2>1, <2>2, <3>1, OwnMoves, OthersMove
    <3>3. UNCHANGED wire BY <2>2 DEF StreamTask, connVars
    <3>. QED BY <2>1, <3>2, <3>3 DEF Ordered
  <2>. QED BY <2>1, <2>2, WritingMoves, OtherStepsMove
<1>2. (\A s \in Streams : Ordered(wire[s])') => ResponseInOrder'
  BY DEF ResponseInOrder, Ordered
<1>. QED BY <1>1, <1>2 DEF ResponsesInStep

LEMMA ResponsesStayInStep == Spec => [](ResponsesInStep /\ ResponseInOrder)
<1>1. ConnectionInv /\ (ResponsesInStep /\ ResponseInOrder) /\ [Next]_vars
      => (ResponsesInStep /\ ResponseInOrder)'
  BY ResponsesStep
<1>. QED BY <1>1, ResponsesInit, StaysFaithful, PTL DEF Spec

\* What is written on a stream is one response, HEADERS before DATA and each
\* once, whatever the windows held back and whatever resets come in between.
THEOREM ResponsesOrdered == Spec => []ResponseInOrder
BY ResponsesStayInStep, PTL
==============================================================================
