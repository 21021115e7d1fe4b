--------------------------- MODULE HeaderBlockProofs ---------------------------
(***************************************************************************)
(* That a stream task never has part of a header block decoded, nor two    *)
(* blocks as one: BlocksInStep is inductive beside TypeOK and TasksInStep, *)
(* and WholeHeaderBlocks follows step by step.                             *)
(*                                                                         *)
(* For clients that keep to the grammar of a request, the same of trailers *)
(* and that no task panics: TrailersInStep is inductive beside those three *)
(* of Spec, and NoPanic and TrailersInOrder follow.                        *)
(***************************************************************************)
EXTENDS StreamContractProofs

USE StreamsAssumption, WindowAssumption, CapacityAssumption, FramesAssumption,
    SizesAssumption

-----------------------------------------------------------------------------
(* Lines of messages *)

LEMMA NotBoth ==
  ASSUME NEW m
  PROVE  Opens(m) => ~Closes(m)
BY DEF Opens, Closes

\* A longer line is uninterrupted if the shorter is, and the message behind it
\* does not interrupt a block that is open at its end.
LEMMA LineAppended ==
  ASSUME NEW S, NEW line \in Seq(S), NEW m \in S, NEW open \in BOOLEAN
  PROVE  LET longer == Append(line, m)
             before == OpenBefore(open, line, Len(line) + 1) IN
         /\ Uninterrupted(open, longer) <=>
              /\ Uninterrupted(open, line)
              /\ IsFrame(m) /\ before => m.frame.kind = "CONTINUATION"
         /\ OpenBefore(open, longer, Len(longer) + 1) <=> Opens(m) \/ (before /\ ~Closes(m))
<1>. DEFINE longer == Append(line, m)
            n == Len(line)
<1>1. /\ longer \in Seq(S) /\ Len(longer) = n + 1 /\ n \in Nat /\ longer[n + 1] = m
      /\ \A i \in 1..n : longer[i] = line[i]
  OBVIOUS
<1>. HIDE DEF longer, n
<1>2. ASSUME NEW j \in 1..(n + 1)
      PROVE  OpenBefore(open, longer, j) <=> OpenBefore(open, line, j)
  <2>1. \A k \in 1..(j - 1) : k \in 1..n BY <1>1
  <2>2. \A i \in 1..(j - 1) : \A k \in (i + 1)..(j - 1) : k \in 1..n BY <1>1
  <2>. QED BY <1>1, <2>1, <2>2 DEF OpenBefore
<1>3. Uninterrupted(open, longer) <=>
        /\ Uninterrupted(open, line)
        /\ IsFrame(m) /\ OpenBefore(open, line, n + 1) => m.frame.kind = "CONTINUATION"
  <2>1. 1..Len(longer) = (1..n) \cup {n + 1} BY <1>1
  <2>2. \A j \in 1..n : j \in 1..(n + 1) BY <1>1
  <2>3. n + 1 \in 1..(n + 1) BY <1>1
  <2>. QED BY <1>1, <1>2, <2>1, <2>2, <2>3 DEF Uninterrupted, n
<1>4. OpenBefore(open, longer, n + 2) <=>
        Opens(m) \/ (OpenBefore(open, longer, n + 1) /\ ~Closes(m))
  <2>1. 1..(n + 2 - 1) = (1..(n + 1 - 1)) \cup {n + 1} BY <1>1
  <2>2. \A i \in 1..(n + 1 - 1) : (i + 1)..(n + 2 - 1) = ((i + 1)..(n + 1 - 1)) \cup {n + 1}
    BY <1>1
  <2>3. (n + 1 + 1)..(n + 2 - 1) = {} BY <1>1
  <2>. QED BY <1>1, <2>1, <2>2, <2>3, NotBoth DEF OpenBefore
<1>5. n + 1 \in 1..(n + 1) BY <1>1
<1>. QED BY <1>1, <1>2, <1>3, <1>4, <1>5 DEF longer, n

\* The rest of a line, when what is open before it is what its first message
\* has left open, or less.
LEMMA LineTail ==
  ASSUME NEW S, NEW line \in Seq(S), line # <<>>, NEW open \in BOOLEAN, NEW then \in BOOLEAN,
         then => Opens(Head(line)) \/ (open /\ ~Closes(Head(line)))
  PROVE  LET rest == Tail(line) IN
         /\ Uninterrupted(open, line) => Uninterrupted(then, rest)
         /\ OpenBefore(then, rest, Len(rest) + 1) => OpenBefore(open, line, Len(line) + 1)
<1>. DEFINE rest == Tail(line)
            n == Len(rest)
<1>1. /\ rest \in Seq(S) /\ Len(line) = n + 1 /\ n \in Nat /\ line[1] = Head(line)
      /\ \A i \in 1..n : rest[i] = line[i + 1]
  OBVIOUS
<1>. HIDE DEF rest, n
<1>2. ASSUME NEW j \in 1..(n + 1), OpenBefore(then, rest, j)
      PROVE  OpenBefore(open, line, j + 1)
  <2>1. ASSUME NEW k \in 1..j, k # 1
        PROVE  k - 1 \in 1..(j - 1) /\ k - 1 \in 1..n /\ line[k] = rest[k - 1]
    BY <1>1, <2>1
  <2>2. CASE then /\ \A k \in 1..(j - 1) : ~Closes(rest[k])
    <3>1. \A k \in 1..j : k # 1 => ~Closes(line[k]) BY <2>1, <2>2
    <3>2. CASE Opens(Head(line))
      <4>1. 1 \in 1..(j + 1 - 1) /\ Opens(line[1]) BY <1>1, <3>2
      <4>2. \A k \in (1 + 1)..(j + 1 - 1) : k \in 1..j /\ k # 1 BY <1>1
      <4>. QED BY <3>1, <4>1, <4>2 DEF OpenBefore
    <3>3. CASE open /\ ~Closes(Head(line))
      <4>1. \A k \in 1..(j + 1 - 1) : k \in 1..j /\ (k = 1 \/ k # 1) BY <1>1
      <4>. QED BY <1>1, <3>1, <3>3, <4>1 DEF OpenBefore
    <3>. QED BY <2>2, <3>2, <3>3
  <2>3. CASE \E i \in 1..(j - 1) : Opens(rest[i]) /\ \A k \in (i + 1)..(j - 1) : ~Closes(rest[k])
    <3>1. PICK i \in 1..(j - 1) : Opens(rest[i]) /\ \A k \in (i + 1)..(j - 1) : ~Closes(rest[k])
      BY <2>3
    <3>2. i + 1 \in 1..(j + 1 - 1) /\ line[i + 1] = rest[i] BY <1>1
    <3>3. \A k \in (i + 1 + 1)..(j + 1 - 1) : k - 1 \in (i + 1)..(j - 1) /\ line[k] = rest[k - 1]
      BY <1>1
    <3>4. \A k \in (i + 1 + 1)..(j + 1 - 1) : ~Closes(line[k]) BY <3>1, <3>3
    <3>. QED BY <3>1, <3>2, <3>4 DEF OpenBefore
  <2>. QED BY <1>2, <2>2, <2>3 DEF OpenBefore
<1>3. ASSUME Uninterrupted(open, line) PROVE Uninterrupted(then, rest)
  <2>. SUFFICES ASSUME NEW j \in 1..n, IsFrame(rest[j]), OpenBefore(then, rest, j)
                PROVE  rest[j].frame.kind = "CONTINUATION"
    BY DEF Uninterrupted, n
  <2>1. j \in 1..(n + 1) /\ j + 1 \in 1..Len(line) /\ line[j + 1] = rest[j] BY <1>1
  <2>2. OpenBefore(open, line, j + 1) BY <1>2, <2>1
  <2>. QED BY <1>3, <2>1, <2>2 DEF Uninterrupted
<1>4. n + 1 \in 1..(n + 1) /\ Len(line) + 1 = n + 1 + 1 BY <1>1
<1>. QED BY <1>2, <1>3, <1>4 DEF rest, n

\* Less open before a line.
LEMMA LessOpen ==
  ASSUME NEW line, NEW open \in BOOLEAN, NEW then \in BOOLEAN, then => open
  PROVE  /\ Uninterrupted(open, line) => Uninterrupted(then, line)
         /\ \A j : OpenBefore(then, line, j) => OpenBefore(open, line, j)
BY DEF Uninterrupted, OpenBefore

LEMMA EmptyLine ==
  ASSUME NEW open
  PROVE  /\ Uninterrupted(open, <<>>)
         /\ OpenBefore(open, <<>>, 1) <=> open
BY DEF Uninterrupted, OpenBefore

LEMMA LineType ==
  ASSUME TypeOK, NEW s \in Streams
  PROVE  /\ Line(s) \in Seq(ToStream) /\ inbox[s] \in Seq(ToStream)
         /\ blocked # <<>> => Head(blocked) \in Envelope /\ Head(blocked).msg \in ToStream
         /\ Collecting(s) \in BOOLEAN
<1>1. inbox[s] \in Seq(ToStream) BY DEF TypeOK
<1>2. blocked # <<>> => Head(blocked) \in Envelope /\ Head(blocked).msg \in ToStream
  <2>1. blocked # <<>> => Head(blocked) \in Envelope BY Single DEF TypeOK
  <2>. QED BY <2>1 DEF Envelope
<1>. QED BY <1>1, <1>2, Appended DEF Line, Collecting

-----------------------------------------------------------------------------
(* What a task has collected *)

LEMMA CollectedNew ==
  ASSUME NEW phase
  PROVE  Collected(NewTask(phase)) /\ NewTask(phase).hdr # "KeepGoing"
BY DEF Collected, NewTask

\* Collected reads the fields of header blocks, the state and the phase only.
LEMMA CollectedSame ==
  ASSUME NEW t, NEW u, Collected(t), t.phase = "running", u.phase = "running",
         u.hdr = t.hdr, u.headers = t.headers, u.trl = t.trl, u.state = t.state,
         u.composited = t.composited
  PROVE  Collected(u)
BY DEF Collected

LEMMA BlockGrows ==
  ASSUME NEW block \in Seq(Frame), NEW f \in Frame, BeginsBlock(block), f.kind = "CONTINUATION"
  PROVE  /\ HasEndHeaders(f) => WholeBlock(Append(block, f))
         /\ ~HasEndHeaders(f) => BeginsBlock(Append(block, f))
<1>. DEFINE n == Len(block)
            longer == Append(block, f)
<1>1. /\ n \in Nat /\ n # 0 /\ Len(longer) = n + 1 /\ longer[n + 1] = f
      /\ \A i \in 1..n : longer[i] = block[i]
  BY EmptySeq DEF BeginsBlock
<1>2. longer # <<>> BY <1>1
<1>. HIDE DEF n, longer
<1>3. /\ longer[n + 1].kind = IF n + 1 = 1 THEN "HEADERS" ELSE "CONTINUATION"
      /\ HasEndHeaders(longer[n + 1]) <=> HasEndHeaders(f)
  BY <1>1
<1>4. \A i \in 1..n : /\ longer[i].kind = IF i = 1 THEN "HEADERS" ELSE "CONTINUATION"
                      /\ ~HasEndHeaders(longer[i])
  BY <1>1 DEF BeginsBlock, n
<1>5. \A i \in 1..Len(longer) : i \in 1..n \/ i = n + 1 BY <1>1
<1>6. \A i \in 1..n : i # Len(longer) BY <1>1
<1>. QED BY <1>1, <1>2, <1>3, <1>4, <1>5, <1>6 DEF BeginsBlock, WholeBlock, longer

LEMMA BlockStarts ==
  ASSUME NEW f \in Frame, f.kind = "HEADERS"
  PROVE  /\ HasEndHeaders(f) => WholeBlock(<<f>>)
         /\ ~HasEndHeaders(f) => BeginsBlock(<<f>>)
BY DEF BeginsBlock, WholeBlock

\* A frame that is all that may come keeps the block whole, and opens or closes
\* it for the task as it does on the line.
LEMMA CollectedFrame ==
  ASSUME NEW s \in Streams, NEW t \in Task, NEW f \in Frame,
         Collected(t), t.phase = "running", t.hdr # "Ready",
         t.hdr = "KeepGoing" => f.kind = "CONTINUATION"
  PROVE  LET u == HandleFrame(s, t, f)
             m == [type |-> "FrameForRequest", frame |-> f] IN
         /\ Collected(u)
         /\ u.hdr = "KeepGoing" => Opens(m) \/ (t.hdr = "KeepGoing" /\ ~Closes(m))
<1>. DEFINE u == HandleFrame(s, t, f)
            a == Accepted(t, f)
            m == [type |-> "FrameForRequest", frame |-> f]
            valid == ValidateFromClient(t.state, t.hdr, t.trl, f) = NoError
            forHeaders == CarriesHeaders(f) /\ ~ToTrailers(t)
<1>1. /\ a.state = NextFromClient(t.state, f)
      /\ a.hdr = IF forHeaders THEN Progress(f) ELSE t.hdr
      /\ a.headers = IF forHeaders THEN Append(t.headers, f) ELSE t.headers
      /\ ~ToTrailers(t) => a.trl = t.trl
      /\ a.composited = t.composited /\ a.phase = t.phase
  BY DEF Accepted, Task
<1>2. /\ u.state = IF valid THEN a.state ELSE t.state
      /\ u.hdr = IF valid THEN a.hdr ELSE t.hdr
      /\ u.headers = IF valid THEN a.headers ELSE t.headers
      /\ u.trl = IF valid THEN a.trl ELSE t.trl
      /\ u.composited = t.composited /\ u.phase = "running"
  BY <1>1, AcceptedType DEF HandleFrame, Task
<1>3. /\ ConnectionError("PROTOCOL_ERROR") # NoError
      /\ StreamError(f.sid, "STREAM_CLOSED") # NoError
  BY DEF ConnectionError, StreamError, NoError
<1>4. valid <=> /\ ~(f.kind = "CONTINUATION" /\ ContinuationMisplaced(t.hdr, t.trl))
                /\ ~(f.kind = "HEADERS" /\ HeadersMisplaced(t.hdr, t.trl))
                /\ ~(t.state = "Idle" /\ f.kind \in RefusedInIdle)
                /\ ~(t.state \in {"HalfClosedRemote", "Closed"} /\ f.kind \in RefusedAfterEnd)
  BY <1>3 DEF ValidateFromClient, Check, ??
<1>5. /\ Opens(m) <=> f.kind = "HEADERS" /\ ~HasEndHeaders(f)
      /\ Closes(m) <=> f.kind = "CONTINUATION" /\ HasEndHeaders(f)
  BY DEF Opens, Closes, IsFrame, HasEndHeaders
<1>6. Progress(f) = IF HasEndHeaders(f) THEN "Ready" ELSE "KeepGoing" BY DEF Progress
<1>7. t.headers \in Seq(Frame) BY DEF Task
<1>8. t.state # "Idle" => NextFromClient(t.state, f) # "Idle"
  BY DEF NextFromClient
<1>. HIDE DEF u, a, m, valid
<1>9. CASE valid /\ forHeaders /\ t.hdr = "Initial"
  <2>1. f.kind = "HEADERS" BY <1>4, <1>9 DEF CarriesHeaders, ContinuationMisplaced
  <2>2. t.headers = <<>> /\ u.headers = <<f>> /\ u.hdr = Progress(f)
    <3>1. t.headers = <<>> BY <1>9 DEF Collected
    <3>2. Append(<<>>, f) = <<f>> OBVIOUS
    <3>. QED BY <1>1, <1>2, <1>9, <3>1, <3>2
  <2>3. NextFromClient(t.state, f) # "Idle" BY <1>8, <2>1 DEF NextFromClient
  <2>4. u.state # "Idle" /\ u.trl = "Initial" /\ ~u.composited
    BY <1>1, <1>2, <1>9, <2>3 DEF Collected, ToTrailers
  <2>. QED BY <1>2, <1>5, <1>6, <2>1, <2>2, <2>4, BlockStarts DEF Collected, u, m
<1>10. CASE valid /\ forHeaders /\ t.hdr = "KeepGoing"
  <2>1. f.kind = "CONTINUATION" /\ BeginsBlock(t.headers) /\ t.state # "Idle" BY <1>10 DEF Collected
  <2>2. u.headers = Append(t.headers, f) /\ u.hdr = Progress(f) BY <1>1, <1>2, <1>10
  <2>3. u.state # "Idle" /\ u.trl = "Initial" /\ ~u.composited
    BY <1>1, <1>2, <1>8, <1>10, <2>1 DEF Collected, ToTrailers
  <2>. QED BY <1>2, <1>5, <1>6, <1>7, <1>10, <2>1, <2>2, <2>3, BlockGrows DEF Collected, u, m
<1>11. CASE valid /\ ~forHeaders /\ ~ToTrailers(t)
  <2>1. ~CarriesHeaders(f) /\ t.hdr # "KeepGoing" BY <1>11 DEF CarriesHeaders
  <2>2. u.hdr = t.hdr /\ u.headers = t.headers /\ u.trl = t.trl BY <1>1, <1>2, <1>11
  <2>. QED BY <1>2, <2>1, <2>2 DEF Collected, u, m
<1>12. CASE valid /\ ToTrailers(t)
  <2>1. u.hdr = t.hdr /\ t.hdr \in {"Waiting", "Completed"} BY <1>1, <1>2, <1>12 DEF ToTrailers
  <2>. QED BY <1>2, <2>1 DEF Collected, u, m
<1>13. CASE ~valid
  <2>1. t.hdr # "KeepGoing"
    <3>. SUFFICES ASSUME t.hdr = "KeepGoing" PROVE FALSE OBVIOUS
    <3>1. f.kind = "CONTINUATION" /\ t.trl = "Initial" /\ t.state # "Idle" BY DEF Collected
    <3>. QED BY <1>4, <1>13, <3>1 DEF ContinuationMisplaced, RefusedAfterEnd
  <2>2. Collected(u) BY <1>2, <1>13, CollectedSame
  <2>. QED BY <1>2, <1>13, <2>1, <2>2 DEF u, m
<1>14. t.hdr \in {"Initial", "KeepGoing"} \/ ToTrailers(t) BY DEF Task, DecodingStates, ToTrailers
<1>. QED BY <1>9, <1>10, <1>11, <1>12, <1>13, <1>14

LEMMA CollectedReplies ==
  ASSUME NEW s \in Streams, NEW t \in Task, Collected(t), t.phase = "running"
  PROVE  /\ \A size \in Nat : LET u == HandleResponse(s, t, size) IN
              Collected(u) /\ u.hdr = t.hdr
         /\ \A trailer \in BOOLEAN : LET u == HandleDecodedHeaders(s, t, trailer) IN
              Collected(u) /\ u.hdr # "KeepGoing"
         /\ LET u == HandleDecodedTrailers(t) IN
              Collected(u) /\ (u.hdr = "KeepGoing" => t.hdr = "KeepGoing")
<1>1. ASSUME NEW size \in Nat
      PROVE  LET u == HandleResponse(s, t, size) IN Collected(u) /\ u.hdr = t.hdr
  BY DEF HandleResponse, Collected, Task
<1>2. ASSUME NEW trailer \in BOOLEAN
      PROVE  LET u == HandleDecodedHeaders(s, t, trailer) IN Collected(u) /\ u.hdr # "KeepGoing"
  <2>. DEFINE u == HandleDecodedHeaders(s, t, trailer)
  <2>1. u.hdr = "Completed" /\ u.phase = "running" BY DEF HandleDecodedHeaders, Task
  <2>. HIDE DEF u
  <2>. QED BY <2>1 DEF Collected, u
<1>3. LET u == HandleDecodedTrailers(t) IN
        Collected(u) /\ (u.hdr = "KeepGoing" => t.hdr = "KeepGoing")
  <2>1. CASE t.composited
    <3>. DEFINE u == [t EXCEPT !.trl = "Completed"]
    <3>1. u.hdr = t.hdr /\ u.phase = "running" BY DEF Task
    <3>2. t.hdr \notin {"Initial", "KeepGoing", "Ready"} BY <2>1 DEF Collected
    <3>. HIDE DEF u
    <3>3. Collected(u) BY <3>1, <3>2 DEF Collected
    <3>. QED BY <2>1, <3>1, <3>3 DEF HandleDecodedTrailers, u
  <2>2. CASE ~t.composited
    BY <2>2, CollectedNew DEF HandleDecodedTrailers
  <2>. QED BY <2>1, <2>2
<1>. QED BY <1>1, <1>2, <1>3

LEMMA CollectedTop ==
  ASSUME NEW s \in Streams, NEW t \in Task, Collected(t), t.phase = "running"
  PROVE  /\ LET u == AskForHeaders(s, t) IN Collected(u) /\ u.hdr # "KeepGoing"
         /\ NeedsTrailers(t) => LET u == AskForTrailers(s, t) IN
              Collected(u) /\ u.hdr # "KeepGoing"
         /\ NeedsDispatch(t) => LET u == HandOver(s, t) IN
              Collected(u) /\ u.hdr # "KeepGoing"
         /\ LET u == Flush(s, t) IN
              Collected(u) /\ (u.hdr = "KeepGoing" => t.hdr = "KeepGoing")
<1>1. LET u == AskForHeaders(s, t) IN Collected(u) /\ u.hdr # "KeepGoing"
  BY DEF AskForHeaders, Collected, Task
<1>2. ASSUME NeedsTrailers(t)
      PROVE  LET u == AskForTrailers(s, t) IN Collected(u) /\ u.hdr # "KeepGoing"
  BY <1>2, CollectedNew DEF AskForTrailers, NeedsTrailers, Collected, Task
<1>3. ASSUME NeedsDispatch(t)
      PROVE  LET u == HandOver(s, t) IN Collected(u) /\ u.hdr # "KeepGoing"
  BY <1>3 DEF HandOver, NeedsDispatch, Collected, Task
<1>4. LET u == Flush(s, t) IN Collected(u) /\ (u.hdr = "KeepGoing" => t.hdr = "KeepGoing")
  <2>. DEFINE frame == Head(t.pending)
  <2>1. CASE MaySend(t.state, frame)
    <3>. DEFINE u == Flush(s, t)
    <3>1. /\ u.state = NextFromMe(t.state, frame) /\ u.hdr = t.hdr /\ u.headers = t.headers
          /\ u.trl = t.trl /\ u.composited = t.composited /\ u.phase = t.phase
      BY <2>1 DEF Flush, Task
    <3>2. t.state # "Idle" => NextFromMe(t.state, frame) # "Idle" BY DEF NextFromMe
    <3>. HIDE DEF u, frame
    <3>. QED BY <3>1, <3>2 DEF Collected, u
  <2>2. CASE ~MaySend(t.state, frame)
    BY <2>2, CollectedNew DEF Flush
  <2>. QED BY <2>1, <2>2
<1>. QED BY <1>1, <1>2, <1>3, <1>4

-----------------------------------------------------------------------------
(* Each step keeps every stream's part of the invariant *)

\* A stream whose line and stage stay as they are, and whose task collects no
\* more than before.
LEMMA SameLine ==
  ASSUME NEW s \in Streams, TypeOK, BlockInv(s),
         Collected(task'[s]), Collecting(s)' => Collecting(s),
         Line(s)' = Line(s), stage'[s] = stage[s], connUp' => connUp
  PROVE  BlockInv(s)'
<1>1. Collecting(s) \in BOOLEAN /\ Collecting(s)' \in BOOLEAN BY DEF Collecting
<1>. DEFINE open == Collecting(s)
            then == Collecting(s)'
            line == Line(s)
<1>2. then => open OBVIOUS
<1>. HIDE DEF open, then, line
<1>3. /\ Uninterrupted(open, line) => Uninterrupted(then, line)
      /\ \A j : OpenBefore(then, line, j) => OpenBefore(open, line, j)
  BY <1>1, <1>2, LessOpen DEF open, then
<1>4. /\ Uninterrupted(open, line)
      /\ connUp /\ OpenBefore(open, line, Len(line) + 1) => BlockOpen(stage[s])
  BY DEF BlockInv, open, line
<1>5. /\ Uninterrupted(then, line)
      /\ connUp' /\ OpenBefore(then, line, Len(line) + 1) => BlockOpen(stage'[s])
  BY <1>3, <1>4
<1>. QED BY <1>5 DEF BlockInv, then, line

\* One more message for a stream, at the end of its line.
LEMMA OneMore ==
  ASSUME NEW s \in Streams, TypeOK, BlockInv(s), NEW m \in ToStream, connUp,
         Collected(task'[s]), Collecting(s)' <=> Collecting(s),
         Line(s)' = Append(Line(s), m),
         IsFrame(m) /\ BlockOpen(stage[s]) => m.frame.kind = "CONTINUATION",
         Opens(m) => BlockOpen(stage'[s]),
         BlockOpen(stage[s]) /\ ~Closes(m) => BlockOpen(stage'[s])
  PROVE  BlockInv(s)'
<1>. DEFINE open == Collecting(s)
            line == Line(s)
            before == OpenBefore(open, line, Len(line) + 1)
<1>1. Collecting(s)' = open /\ line \in Seq(ToStream) /\ open \in BOOLEAN
  BY LineType DEF Collecting
<1>2. /\ Uninterrupted(open, line)
      /\ before => BlockOpen(stage[s])
  BY DEF BlockInv
<1>. HIDE DEF open, line
<1>3. /\ Uninterrupted(open, Append(line, m)) <=>
              /\ Uninterrupted(open, line)
              /\ IsFrame(m) /\ before => m.frame.kind = "CONTINUATION"
      /\ OpenBefore(open, Append(line, m), Len(Append(line, m)) + 1)
           <=> Opens(m) \/ (before /\ ~Closes(m))
  BY <1>1, LineAppended
<1>4. /\ Uninterrupted(open, Append(line, m))
      /\ OpenBefore(open, Append(line, m), Len(Append(line, m)) + 1) => BlockOpen(stage'[s])
  BY <1>2, <1>3
<1>5. Line(s)' = Append(line, m) BY DEF line
<1>. QED BY <1>1, <1>4, <1>5 DEF BlockInv

\* A task that comes to its end: what it had not read goes with it, and what the
\* connection holds for it is all that is left of its line.
LEMMA OverBlocks ==
  ASSUME NEW s \in Streams, NEW phase \in {"ended", "panicked"}, NEW rest, TypeOK, BlockInv(s),
         Become(s, NewTask(phase), rest), UNCHANGED <<connUp, blocked, stage>>
  PROVE  BlockInv(s)'
<1>1. task'[s] = NewTask(phase) /\ inbox'[s] = <<>> BY DEF Become, NewTask, TypeOK
<1>2. Collected(task'[s]) /\ Collecting(s)' = FALSE BY <1>1, CollectedNew DEF Collecting
<1>3. CASE ~(blocked # <<>> /\ Head(blocked).to = s)
  <2>1. Line(s)' = <<>> BY <1>1, <1>3 DEF Line
  <2>. QED BY <1>2, <2>1, EmptyLine DEF BlockInv
<1>4. CASE blocked # <<>> /\ Head(blocked).to = s
  <2>. DEFINE m == Head(blocked).msg
              open == Collecting(s)
  <2>1. m \in ToStream /\ inbox[s] \in Seq(ToStream) /\ open \in BOOLEAN BY <1>4, LineType
  <2>2. Line(s)' = Append(<<>>, m) /\ Line(s) = Append(inbox[s], m) BY <1>1, <1>4 DEF Line
  <2>. HIDE DEF m, open
  <2>3. OpenBefore(open, Append(inbox[s], m), Len(Append(inbox[s], m)) + 1)
          <=> Opens(m) \/ (OpenBefore(open, inbox[s], Len(inbox[s]) + 1) /\ ~Closes(m))
    BY <2>1, LineAppended
  <2>. DEFINE no == FALSE
              none == <<>>
  <2>4. no \in BOOLEAN /\ none \in Seq(ToStream) /\ Len(none) + 1 = 1 OBVIOUS
  <2>5. /\ Uninterrupted(no, Append(none, m)) <=>
              /\ Uninterrupted(no, none)
              /\ IsFrame(m) /\ OpenBefore(no, none, 1) => m.frame.kind = "CONTINUATION"
        /\ OpenBefore(no, Append(none, m), Len(Append(none, m)) + 1)
              <=> Opens(m) \/ (OpenBefore(no, none, 1) /\ ~Closes(m))
    <3>. HIDE DEF no, none
    <3>. QED BY <2>1, <2>4, LineAppended
  <2>6. ~OpenBefore(FALSE, <<>>, 1) /\ Uninterrupted(FALSE, <<>>) BY EmptyLine
  <2>7. connUp /\ Opens(m) => BlockOpen(stage[s])
    BY <2>2, <2>3 DEF BlockInv, open
  <2>. QED BY <1>2, <2>2, <2>5, <2>6, <2>7 DEF BlockInv
<1>. QED BY <1>3, <1>4

\* The task reads the first message of its line.
LEMMA ReceiveBlocks ==
  ASSUME NEW s \in Streams, TypeOK, BlockInv(s), NEW type, Receive(s, type),
         UNCHANGED <<blocked, stage>>
  PROVE  BlockInv(s)'
<1>. DEFINE t == task[s]
            m == Head(inbox[s])
            u == Handle(s, t, m)
            open == Collecting(s)
            line == Line(s)
<1>1. /\ t \in Task /\ inbox[s] \in Seq(ToStream) /\ m \in ToStream /\ inbox[s] # <<>>
      /\ AtTop(s) /\ t.phase = "running" /\ t.hdr # "Ready" /\ connUp' = connUp
      /\ Become(s, u, Tail(inbox[s]))
  <2>1. /\ t \in Task /\ inbox[s] \in Seq(ToStream) /\ inbox[s] # <<>> /\ connUp' = connUp
        /\ Idle(s) /\ Become(s, u, Tail(inbox[s]))
    BY DEF TypeOK, Receive
  <2>2. m \in ToStream BY <2>1
  <2>3. AtTop(s) /\ t.phase = "running" /\ t.hdr # "Ready"
    BY <2>1 DEF Idle, AtTop, Running, NeedsHeaders
  <2>. QED BY <2>1, <2>2, <2>3
<1>2. Collected(t) /\ Uninterrupted(open, line) BY DEF BlockInv
<1>3. /\ line \in Seq(ToStream) /\ line # <<>> /\ Head(line) = m /\ open = (t.hdr = "KeepGoing")
      /\ Tail(line) = IF blocked # <<>> /\ Head(blocked).to = s
                      THEN Append(Tail(inbox[s]), Head(blocked).msg) ELSE Tail(inbox[s])
  <2>1. line \in Seq(ToStream) BY LineType
  <2>2. ASSUME NEW x
        PROVE  /\ Append(inbox[s], x) # <<>> /\ Head(Append(inbox[s], x)) = Head(inbox[s])
               /\ Tail(Append(inbox[s], x)) = Append(Tail(inbox[s]), x)
    <3>1. Len(inbox[s]) \in Nat /\ Len(inbox[s]) # 0 BY <1>1, EmptySeq
    <3>. QED BY <1>1, <3>1
  <2>. QED BY <1>1, <2>1, <2>2 DEF Line, Collecting
<1>4. /\ Collected(u)
      /\ u.hdr = "KeepGoing" => Opens(m) \/ (open /\ ~Closes(m))
  <2>1. CASE m.type = "FrameForRequest"
    <3>1. /\ u = HandleFrame(s, t, m.frame) /\ m.frame \in Frame
          /\ m = [type |-> "FrameForRequest", frame |-> m.frame]
      BY <1>1, <2>1 DEF Handle, ToStream
    <3>2. open => m.frame.kind = "CONTINUATION"
      <4>1. 1 \in 1..Len(line) /\ line[1] = m
        <5>1. Len(line) \in Nat /\ Len(line) # 0 BY <1>3, EmptySeq
        <5>. QED BY <1>3, <5>1
      <4>2. open => OpenBefore(open, line, 1) BY DEF OpenBefore
      <4>. HIDE DEF line, open, m
      <4>. QED BY <1>2, <2>1, <4>1, <4>2 DEF Uninterrupted, IsFrame
    <3>. HIDE DEF t, m, u, open, line
    <3>. QED BY <1>1, <1>2, <1>3, <3>1, <3>2, CollectedFrame
  <2>2. CASE m.type = "ResponseObject"
    <3>1. u = HandleResponse(s, t, m.size) /\ m.size \in Nat BY <1>1, <2>2 DEF Handle, ToStream
    <3>2. ~Closes(m) BY <2>2 DEF Closes, IsFrame
    <3>3. \A size \in Nat : LET v == HandleResponse(s, t, size) IN Collected(v) /\ v.hdr = t.hdr
      BY <1>1, <1>2, CollectedReplies
    <3>. HIDE DEF t, m, u, open, line
    <3>. QED BY <1>3, <3>1, <3>2, <3>3
  <2>3. CASE m.type = "DecodingHeadersResponse"
    <3>1. u = HandleDecodedHeaders(s, t, m.trailer) /\ m.trailer \in BOOLEAN
      BY <1>1, <2>3 DEF Handle, ToStream
    <3>. HIDE DEF t, m, u
    <3>. QED BY <1>1, <1>2, <3>1, CollectedReplies
  <2>4. CASE m.type = "DecodingTrailersResponse"
    <3>1. u = HandleDecodedTrailers(t) BY <2>4 DEF Handle
    <3>2. ~Closes(m) BY <2>4 DEF Closes, IsFrame
    <3>3. Collected(u) /\ (u.hdr = "KeepGoing" => t.hdr = "KeepGoing")
      BY <1>1, <1>2, <3>1, CollectedReplies
    <3>. HIDE DEF t, m, u, open, line
    <3>. QED BY <1>3, <3>2, <3>3
  <2>. QED BY <1>1, <2>1, <2>2, <2>3, <2>4 DEF ToStream
<1>5. CASE u.phase = "running"
  <2>1. task'[s] = u /\ inbox'[s] = Tail(inbox[s]) /\ blocked' = blocked /\ stage' = stage
    BY <1>1, <1>5 DEF Become, TypeOK
  <2>2. Line(s)' = Tail(line) BY <1>3, <2>1 DEF Line
  <2>. DEFINE then == u.hdr = "KeepGoing"
  <2>3. then \in BOOLEAN /\ open \in BOOLEAN /\ Collecting(s)' = then BY <2>1 DEF Collecting
  <2>4. then => Opens(m) \/ (open /\ ~Closes(m)) BY <1>4
  <2>5. connUp /\ OpenBefore(open, line, Len(line) + 1) => BlockOpen(stage[s]) BY DEF BlockInv
  <2>. HIDE DEF line, open, then, m, u, t
  <2>6. /\ Uninterrupted(open, line) => Uninterrupted(then, Tail(line))
        /\ OpenBefore(then, Tail(line), Len(Tail(line)) + 1) => OpenBefore(open, line, Len(line) + 1)
    <3>1. /\ line \in Seq(ToStream) /\ line # <<>>
          /\ then => Opens(Head(line)) \/ (open /\ ~Closes(Head(line)))
      BY <1>3, <2>4
    <3>. QED BY <2>3, <3>1, LineTail
  <2>. QED BY <1>1, <1>2, <1>4, <2>1, <2>2, <2>3, <2>5, <2>6 DEF BlockInv
<1>6. CASE u.phase # "running"
  <2>1. u = NewTask("panicked")
    <3>1. u \in Task BY <1>1, HandleType
    <3>2. CASE m.type = "DecodingTrailersResponse"
      BY <1>1, <1>6, <3>2 DEF Handle, HandleDecodedTrailers, Task
    <3>3. CASE m.type # "DecodingTrailersResponse"
      <4>1. u.phase = t.phase
        <5>1. CASE m.type = "FrameForRequest"
          <6>1. Accepted(t, m.frame).phase = t.phase BY <1>1 DEF Accepted, Task
          <6>2. m.frame \in Frame BY <1>1, <5>1 DEF ToStream
          <6>. QED BY <1>1, <5>1, <6>1, <6>2, AcceptedType DEF Handle, HandleFrame, Task
        <5>2. CASE m.type = "ResponseObject"
          BY <1>1, <5>2 DEF Handle, HandleResponse, Task
        <5>3. CASE m.type = "DecodingHeadersResponse"
          BY <1>1, <5>3 DEF Handle, HandleDecodedHeaders, Task
        <5>. QED BY <1>1, <3>3, <5>1, <5>2, <5>3 DEF ToStream
      <4>. QED BY <1>1, <1>6, <4>1
    <3>. QED BY <3>2, <3>3
  <2>. HIDE DEF u
  <2>. QED BY <1>1, <2>1, OverBlocks
<1>. QED BY <1>5, <1>6

\* A step at the top of the loop, to u, which collects no more than before.
LEMMA TopBlocks ==
  ASSUME NEW s \in Streams, TypeOK, BlockInv(s), UNCHANGED <<blocked, stage>>,
         \/ CompositeHeaders(s) \/ CompositeTrailers(s)
         \/ DispatchIfNeeded(s) \/ RespondIfPossible(s)
  PROVE  BlockInv(s)'
<1>. DEFINE t == task[s]
<1>1. /\ t \in Task /\ AtTop(s) /\ t.phase = "running" /\ Collected(t) /\ connUp' = connUp
  BY DEF TypeOK, CompositeHeaders, CompositeTrailers, DispatchIfNeeded, RespondIfPossible,
         TopOfLoop, AtTop, Running, BlockInv
<1>2. ASSUME NEW u, Become(s, u, inbox[s]), Collected(u),
             u.hdr = "KeepGoing" => t.hdr = "KeepGoing",
             u.phase # "running" => \E phase \in {"ended", "panicked"} : u = NewTask(phase)
      PROVE  BlockInv(s)'
  <2>1. CASE u.phase = "running"
    <3>1. task'[s] = u /\ inbox'[s] = inbox[s] BY <1>2, <2>1 DEF Become, TypeOK
    <3>2. Line(s)' = Line(s) BY <3>1 DEF Line
    <3>3. Collecting(s)' => Collecting(s) BY <1>2, <3>1 DEF Collecting
    <3>. QED BY <1>1, <1>2, <3>1, <3>2, <3>3, SameLine
  <2>2. CASE u.phase # "running"
    <3>1. PICK phase \in {"ended", "panicked"} : u = NewTask(phase) BY <1>2, <2>2
    <3>. QED BY <1>1, <1>2, <3>1, OverBlocks
  <2>. QED BY <2>1, <2>2
<1>3. CASE CompositeHeaders(s)
  <2>. DEFINE u == AskForHeaders(s, t)
  <2>1. Become(s, u, inbox[s]) BY <1>3 DEF CompositeHeaders, TopOfLoop
  <2>2. u.phase = "running" BY <1>1 DEF AskForHeaders, Task
  <2>3. Collected(u) /\ u.hdr # "KeepGoing" BY <1>1, CollectedTop
  <2>. HIDE DEF u
  <2>. QED BY <1>2, <2>1, <2>2, <2>3
<1>4. CASE CompositeTrailers(s)
  <2>. DEFINE u == AskForTrailers(s, t)
  <2>1. NeedsTrailers(t) /\ Become(s, u, inbox[s]) BY <1>4 DEF CompositeTrailers, TopOfLoop
  <2>2. u.phase = "running" \/ u = NewTask("panicked") BY <1>1 DEF AskForTrailers, Task
  <2>3. Collected(u) /\ u.hdr # "KeepGoing" BY <1>1, <2>1, CollectedTop
  <2>. HIDE DEF u
  <2>. QED BY <1>2, <2>1, <2>2, <2>3
<1>5. CASE DispatchIfNeeded(s)
  <2>. DEFINE u == HandOver(s, t)
  <2>1. NeedsDispatch(t) /\ Become(s, u, inbox[s]) BY <1>5 DEF DispatchIfNeeded, TopOfLoop
  <2>2. u.phase = "running" BY <1>1 DEF HandOver, Task
  <2>3. Collected(u) /\ u.hdr # "KeepGoing" BY <1>1, <2>1, CollectedTop
  <2>. HIDE DEF u
  <2>. QED BY <1>2, <2>1, <2>2, <2>3
<1>6. CASE RespondIfPossible(s)
  <2>. DEFINE u == Flush(s, t)
  <2>1. Become(s, u, inbox[s]) BY <1>6 DEF RespondIfPossible, TopOfLoop
  <2>2. u.phase = "running" \/ u = NewTask("ended") BY <1>1 DEF Flush, Task
  <2>3. Collected(u) /\ (u.hdr = "KeepGoing" => t.hdr = "KeepGoing") BY <1>1, CollectedTop
  <2>. HIDE DEF u
  <2>. QED BY <1>2, <2>1, <2>2, <2>3
<1>. QED BY <1>3, <1>4, <1>5, <1>6

LEMMA TaskStepBlocks ==
  ASSUME TypeOK, BlocksInStep, NEW d \in Streams, TaskStep(d)
  PROVE  BlocksInStep'
<1>. SUFFICES ASSUME NEW s \in Streams PROVE BlockInv(s)' BY DEF BlocksInStep
<1>1. BlockInv(s) /\ StreamStep(d) /\ UNCHANGED <<blocked, stage>>
  BY DEF BlocksInStep, TaskStep
<1>2. connUp' = connUp
  BY <1>1 DEF StreamStep, CompositeHeaders, CompositeTrailers, DispatchIfNeeded,
       RespondIfPossible, TopOfLoop, ReceiveFrame, ReceiveResponse, ReceiveHeaders,
       ReceiveTrailers, Receive, Terminate, Send, SendFails
<1>3. CASE Send(d)
  <2>1. task' = [task EXCEPT ![d].out = Tail(task[d].out)] /\ inbox' = inbox
    BY <1>3 DEF Send
  <2>2. task[s] \in Task /\ Collected(task[s]) /\ (s = d => task[s].phase = "running")
    BY <1>1, <1>3 DEF TypeOK, BlockInv, Send, Running
  <2>3. task'[s] = IF s = d THEN [task[s] EXCEPT !.out = Tail(task[d].out)] ELSE task[s]
    BY <2>1 DEF TypeOK
  <2>4. Collected(task'[s]) /\ task'[s].hdr = task[s].hdr
    <3>1. CASE s = d
      <4>. DEFINE u == task'[s]
      <4>1. /\ u.hdr = task[s].hdr /\ u.headers = task[s].headers /\ u.trl = task[s].trl
            /\ u.state = task[s].state /\ u.composited = task[s].composited
            /\ u.phase = task[s].phase
        BY <2>2, <2>3, <3>1 DEF Task
      <4>. HIDE DEF u
      <4>. QED BY <2>2, <3>1, <4>1, CollectedSame DEF u
    <3>2. CASE s # d BY <2>2, <2>3, <3>2
    <3>. QED BY <3>1, <3>2
  <2>5. Line(s)' = Line(s) BY <1>1, <2>1 DEF Line
  <2>6. Collecting(s)' => Collecting(s) BY <2>4 DEF Collecting
  <2>. QED BY <1>1, <1>2, <2>4, <2>5, <2>6, SameLine
<1>4. CASE ~Send(d) /\ s # d
  <2>1. \E u, rest : Become(d, u, rest)
    BY <1>1, <1>4 DEF StreamStep, CompositeHeaders, CompositeTrailers, DispatchIfNeeded,
         RespondIfPossible, TopOfLoop, ReceiveFrame, ReceiveResponse, ReceiveHeaders,
         ReceiveTrailers, Receive, Terminate, SendFails
  <2>2. task'[s] = task[s] /\ inbox'[s] = inbox[s] BY <1>4, <2>1 DEF Become, TypeOK
  <2>3. Line(s)' = Line(s) /\ (Collecting(s)' => Collecting(s)) /\ Collected(task'[s])
    BY <1>1, <2>2 DEF Line, Collecting, BlockInv
  <2>. QED BY <1>1, <1>2, <2>3, SameLine
<1>5. CASE ~Send(d) /\ s = d
  <2>1. CASE \/ CompositeHeaders(s) \/ CompositeTrailers(s)
             \/ DispatchIfNeeded(s) \/ RespondIfPossible(s)
    BY <1>1, <2>1, TopBlocks
  <2>2. CASE \/ ReceiveFrame(s) \/ ReceiveResponse(s) \/ ReceiveHeaders(s) \/ ReceiveTrailers(s)
    BY <1>1, <2>2, ReceiveBlocks DEF ReceiveFrame, ReceiveResponse, ReceiveHeaders, ReceiveTrailers
  <2>3. CASE Terminate(s) \/ SendFails(s)
    <3>1. Become(s, NewTask("ended"), <<>>) BY <2>3 DEF Terminate, SendFails
    <3>. QED BY <1>1, <1>2, <3>1, OverBlocks
  <2>. QED BY <1>1, <1>5, <2>1, <2>2, <2>3 DEF StreamStep
<1>. QED BY <1>3, <1>4, <1>5

-----------------------------------------------------------------------------
(* The connection's steps *)

LEMMA StartedBlocks ==
  ASSUME TypeOK, NEW s \in Streams, NEW d \in Streams, BlockInv(s),
         task' = [task EXCEPT ![d] = Started(d)]
  PROVE  Collected(task'[s]) /\ (Collecting(s)' <=> Collecting(s))
<1>1. task'[s] = IF s = d /\ task[s].phase = "absent" THEN NewTask("running") ELSE task[s]
  BY DEF Started, TypeOK
<1>2. task[s].phase = "absent" => ~Collecting(s) BY DEF BlockInv, Collected, Collecting
<1>. QED BY <1>1, <1>2, CollectedNew DEF BlockInv, Collecting

LEMMA ForwardBlocks ==
  ASSUME TypeOK, BlocksInStep, NEW d \in Streams, NEW f \in Frames, Forward(d, f)
  PROVE  BlocksInStep'
<1>. SUFFICES ASSUME NEW s \in Streams PROVE BlockInv(s)' BY DEF BlocksInStep
<1>. DEFINE m == [type |-> "FrameForRequest", frame |-> f]
<1>1. /\ BlockInv(s) /\ connUp /\ connUp' = connUp /\ blocked = <<>> /\ inbox' = inbox
      /\ task' = [task EXCEPT ![d] = Started(d)]
      /\ blocked' = <<[to |-> d, msg |-> m]>>
      /\ BlockOpen(stage[d]) => f.kind = "CONTINUATION"
      /\ stage' = [stage EXCEPT ![d] = StageAfter(stage[d], f)]
  BY DEF BlocksInStep, Forward, ToTask
<1>2. Collected(task'[s]) /\ (Collecting(s)' <=> Collecting(s)) BY <1>1, StartedBlocks
<1>3. m \in ToStream /\ Line(s) = inbox[s]
  BY <1>1, FramesAssumption, ToStreamTypes DEF Line
<1>4. CASE s # d
  <2>1. stage'[s] = stage[s] BY <1>1, <1>4 DEF TypeOK
  <2>2. Line(s)' = Line(s) BY <1>1, <1>3, <1>4 DEF Line
  <2>. QED BY <1>1, <1>2, <2>1, <2>2, SameLine
<1>5. CASE s = d
  <2>1. stage'[s] = StageAfter(stage[s], f) BY <1>1, <1>5 DEF TypeOK
  <2>2. Line(s)' = Append(Line(s), m) BY <1>1, <1>3, <1>5 DEF Line
  <2>3. Opens(m) => BlockOpen(stage'[s])
    BY <2>1 DEF Opens, StageAfter, BlockOpen
  <2>4. BlockOpen(stage[s]) /\ ~Closes(m) => BlockOpen(stage'[s])
    BY <1>1, <1>5, <2>1 DEF Closes, IsFrame, StageAfter, BlockOpen
  <2>5. IsFrame(m) /\ BlockOpen(stage[s]) => m.frame.kind = "CONTINUATION"
    BY <1>1, <1>5
  <2>. HIDE DEF m
  <2>. QED BY <1>1, <1>2, <1>3, <2>2, <2>3, <2>4, <2>5, OneMore
<1>. QED BY <1>4, <1>5

\* A message that is no frame joins the line of a stream, or none does.
LEMMA ReplyBlocks ==
  ASSUME TypeOK, BlocksInStep, NEW type, Take(type),
         \/ blocked' = <<>>
         \/ \E d \in Streams, m \in ToStream : ~IsFrame(m) /\ blocked' = ToTask(d, m)
  PROVE  BlocksInStep'
<1>. SUFFICES ASSUME NEW s \in Streams PROVE BlockInv(s)' BY DEF BlocksInStep
<1>1. /\ BlockInv(s) /\ blocked = <<>> /\ connUp /\ connUp' = connUp
      /\ task' = task /\ inbox' = inbox /\ stage' = stage
  BY DEF BlocksInStep, Take
<1>2. /\ Collected(task'[s]) /\ (Collecting(s)' <=> Collecting(s))
      /\ Line(s) = inbox[s] /\ stage'[s] = stage[s]
  BY <1>1 DEF BlockInv, Collecting, Line
<1>3. CASE ~(blocked' # <<>> /\ Head(blocked').to = s)
  <2>1. Line(s)' = Line(s) BY <1>1, <1>2, <1>3 DEF Line
  <2>. QED BY <1>1, <1>2, <2>1, SameLine
<1>4. CASE blocked' # <<>> /\ Head(blocked').to = s
  <2>1. PICK d \in Streams, m \in ToStream : ~IsFrame(m) /\ blocked' = ToTask(d, m) BY <1>4
  <2>2. Line(s)' = Append(Line(s), m) BY <1>1, <1>2, <1>4, <2>1 DEF Line, ToTask
  <2>3. ~Opens(m) BY <2>1 DEF Opens
  <2>. QED BY <1>1, <1>2, <2>1, <2>2, <2>3, OneMore
<1>. QED BY <1>3, <1>4

LEMMA TakeBlocks ==
  ASSUME TypeOK, BlocksInStep, DecodeHeaders \/ DecodeTrailers \/ AcceptDispatch \/ TakeOther
  PROVE  BlocksInStep'
<1>1. CASE DecodeHeaders
  <2>1. Take("DecodingHeadersRequest") /\ toConn # <<>> BY <1>1 DEF DecodeHeaders, Take
  <2>2. Head(toConn).sid \in Streams BY <2>1 DEF TypeOK, ToConnection
  <2>3. CASE blocked' = <<>> BY <2>1, <2>3, ReplyBlocks
  <2>4. CASE blocked' # <<>>
    <3>1. PICK trailer \in BOOLEAN :
            blocked' = ToTask(Head(toConn).sid,
                              [type |-> "DecodingHeadersResponse", trailer |-> trailer])
      BY <1>1, <2>4 DEF DecodeHeaders
    <3>. DEFINE m == [type |-> "DecodingHeadersResponse", trailer |-> trailer]
    <3>2. m \in ToStream /\ ~IsFrame(m) BY ToStreamTypes DEF IsFrame
    <3>. QED BY <2>1, <2>2, <3>1, <3>2, ReplyBlocks
  <2>. QED BY <2>3, <2>4
<1>2. CASE DecodeTrailers
  <2>1. Take("DecodingTrailersRequest") /\ toConn # <<>> BY <1>2 DEF DecodeTrailers, Take
  <2>2. Head(toConn).sid \in Streams BY <2>1 DEF TypeOK, ToConnection
  <2>. DEFINE m == [type |-> "DecodingTrailersResponse"]
  <2>3. m \in ToStream /\ ~IsFrame(m) BY ToStreamTypes DEF IsFrame
  <2>4. blocked' = <<>> \/ blocked' = ToTask(Head(toConn).sid, m) BY <1>2 DEF DecodeTrailers
  <2>. QED BY <2>1, <2>2, <2>3, <2>4, ReplyBlocks
<1>3. CASE AcceptDispatch
  BY <1>3, ReplyBlocks DEF AcceptDispatch, Take
<1>4. CASE TakeOther
  BY <1>4, ReplyBlocks DEF TakeOther, Take
<1>. QED BY <1>1, <1>2, <1>3, <1>4

\* A line is delivered as it stands; to a task that is over, not at all.
LEMMA DeliverBlocks ==
  ASSUME TypeOK, TasksInStep, BlocksInStep, Deliver
  PROVE  BlocksInStep'
<1>. SUFFICES ASSUME NEW s \in Streams PROVE BlockInv(s)' BY DEF BlocksInStep
<1>. DEFINE d == Head(blocked).to
            m == Head(blocked).msg
<1>1. /\ BlockInv(s) /\ blocked # <<>> /\ blocked' = <<>> /\ connUp' = connUp
      /\ task' = task /\ stage' = stage
      /\ IF Running(d) THEN inbox' = [inbox EXCEPT ![d] = Append(inbox[d], m)]
                       ELSE inbox' = inbox
  BY DEF BlocksInStep, Deliver
<1>2. Collected(task'[s]) /\ (Collecting(s)' <=> Collecting(s)) /\ stage'[s] = stage[s]
  BY <1>1 DEF BlockInv, Collecting
<1>3. CASE s # d \/ Running(s)
  <2>1. Line(s)' = Line(s)
    <3>1. CASE s # d
      <4>1. inbox'[s] = inbox[s] BY <1>1, <3>1 DEF TypeOK
      <4>. QED BY <1>1, <3>1, <4>1 DEF Line
    <3>2. CASE s = d /\ Running(s)
      <4>1. inbox'[s] = Append(inbox[s], m) BY <1>1, <3>2 DEF TypeOK
      <4>. QED BY <1>1, <3>2, <4>1 DEF Line
    <3>. QED BY <1>3, <3>1, <3>2
  <2>. QED BY <1>1, <1>2, <2>1, SameLine
<1>4. CASE s = d /\ ~Running(s)
  <2>1. inbox'[s] = <<>> BY <1>1, <1>4 DEF TasksInStep, StreamInv
  <2>2. Line(s)' = <<>> BY <1>1, <2>1 DEF Line
  <2>3. Collecting(s)' = FALSE
    BY <1>1, <1>4 DEF Running, BlockInv, Collected, Collecting
  <2>. QED BY <1>2, <2>2, <2>3, EmptyLine DEF BlockInv
<1>. QED BY <1>3, <1>4

\* A response joins the inbox, before what the connection holds for the stream.
LEMMA RespondBlocks ==
  ASSUME TypeOK, BlocksInStep, NEW d \in Streams, NEW size \in Sizes, Respond(d, size)
  PROVE  BlocksInStep'
<1>. SUFFICES ASSUME NEW s \in Streams PROVE BlockInv(s)' BY DEF BlocksInStep
<1>. DEFINE r == [type |-> "ResponseObject", size |-> size]
            open == Collecting(s)
<1>1. /\ BlockInv(s) /\ task' = task /\ stage' = stage /\ blocked' = blocked /\ connUp' = connUp
      /\ inbox' = [inbox EXCEPT ![d] = Append(inbox[d], r)]
  BY DEF BlocksInStep, Respond
<1>2. /\ Collected(task'[s]) /\ Collecting(s)' = open /\ stage'[s] = stage[s]
      /\ open \in BOOLEAN /\ inbox[s] \in Seq(ToStream)
  BY <1>1, LineType DEF BlockInv, Collecting
<1>3. r \in ToStream /\ ~IsFrame(r) /\ ~Opens(r) /\ ~Closes(r)
  BY ToStreamTypes, SizesAssumption DEF IsFrame, Opens, Closes
<1>4. CASE s # d
  <2>1. inbox'[s] = inbox[s] BY <1>1, <1>4 DEF TypeOK
  <2>2. Line(s)' = Line(s) BY <1>1, <2>1 DEF Line
  <2>. QED BY <1>1, <1>2, <2>2, SameLine
<1>5. CASE s = d
  <2>. DEFINE line == inbox[s]
              more == Append(line, r)
  <2>1. inbox'[s] = more /\ more \in Seq(ToStream) BY <1>1, <1>2, <1>3, <1>5 DEF TypeOK
  <2>. HIDE DEF r, open, line, more
  <2>2. /\ Uninterrupted(open, more) <=> Uninterrupted(open, line)
        /\ OpenBefore(open, more, Len(more) + 1) <=> OpenBefore(open, line, Len(line) + 1)
    BY <1>2, <1>3, LineAppended DEF more, line
  <2>3. CASE ~(blocked # <<>> /\ Head(blocked).to = s)
    <3>1. Line(s) = line /\ Line(s)' = more BY <1>1, <2>1, <2>3 DEF Line, line
    <3>. QED BY <1>1, <1>2, <2>2, <3>1 DEF BlockInv, open
  <2>4. CASE blocked # <<>> /\ Head(blocked).to = s
    <3>. DEFINE m == Head(blocked).msg
    <3>1. Line(s) = Append(line, m) /\ Line(s)' = Append(more, m) BY <1>1, <2>1, <2>4 DEF Line, line
    <3>2. m \in ToStream BY <2>4, LineType
    <3>. HIDE DEF m
    <3>3. /\ Uninterrupted(open, Append(line, m)) <=>
              /\ Uninterrupted(open, line)
              /\ IsFrame(m) /\ OpenBefore(open, line, Len(line) + 1) => m.frame.kind = "CONTINUATION"
          /\ OpenBefore(open, Append(line, m), Len(Append(line, m)) + 1)
              <=> Opens(m) \/ (OpenBefore(open, line, Len(line) + 1) /\ ~Closes(m))
      BY <1>2, <3>2, LineAppended DEF line
    <3>4. /\ Uninterrupted(open, Append(more, m)) <=>
              /\ Uninterrupted(open, more)
              /\ IsFrame(m) /\ OpenBefore(open, more, Len(more) + 1) => m.frame.kind = "CONTINUATION"
          /\ OpenBefore(open, Append(more, m), Len(Append(more, m)) + 1)
              <=> Opens(m) \/ (OpenBefore(open, more, Len(more) + 1) /\ ~Closes(m))
      BY <1>2, <2>1, <3>2, LineAppended
    <3>. QED BY <1>1, <1>2, <2>2, <3>1, <3>3, <3>4 DEF BlockInv, open
  <2>. QED BY <2>3, <2>4
<1>. QED BY <1>4, <1>5

\* The connection starts a task, cancels some, or ends: what it holds is lost
\* only with the connection, and no frame follows then.
LEMMA QuietBlocks ==
  ASSUME TypeOK, BlocksInStep, inbox' = inbox, stage' = stage,
         \/ task' = task
         \/ \E d \in Streams : task' = [task EXCEPT ![d] = Started(d)],
         \/ blocked' = blocked /\ connUp' = connUp
         \/ blocked' = <<>> /\ connUp' = FALSE
  PROVE  BlocksInStep'
<1>. SUFFICES ASSUME NEW s \in Streams PROVE BlockInv(s)' BY DEF BlocksInStep
<1>1. BlockInv(s) BY DEF BlocksInStep
<1>2. Collected(task'[s]) /\ (Collecting(s)' <=> Collecting(s))
  <2>1. CASE task' = task BY <1>1, <2>1 DEF BlockInv, Collecting
  <2>2. ASSUME NEW d \in Streams, task' = [task EXCEPT ![d] = Started(d)]
        PROVE  Collected(task'[s]) /\ (Collecting(s)' <=> Collecting(s))
    BY <1>1, <2>2, StartedBlocks
  <2>. QED BY <2>1, <2>2
<1>3. CASE blocked' = blocked /\ connUp' = connUp
  <2>1. Line(s)' = Line(s) BY <1>3 DEF Line
  <2>. QED BY <1>1, <1>2, <1>3, <2>1, SameLine
<1>4. CASE blocked' = <<>> /\ connUp' = FALSE
  <2>. DEFINE open == Collecting(s)
  <2>1. Line(s)' = inbox[s] /\ Collecting(s)' = open /\ open \in BOOLEAN
    BY <1>2, <1>4 DEF Line, Collecting
  <2>2. inbox[s] \in Seq(ToStream) /\ (blocked # <<>> => Head(blocked).msg \in ToStream) BY LineType
  <2>3. Uninterrupted(open, Line(s)) BY <1>1 DEF BlockInv
  <2>. HIDE DEF open
  <2>4. ASSUME NEW m \in ToStream, Uninterrupted(open, Append(inbox[s], m))
        PROVE  Uninterrupted(open, inbox[s])
    BY <2>1, <2>2, <2>4, LineAppended
  <2>5. Uninterrupted(open, inbox[s]) BY <2>2, <2>3, <2>4 DEF Line
  <2>. QED BY <1>2, <1>4, <2>1, <2>5 DEF BlockInv
<1>. QED BY <1>3, <1>4

-----------------------------------------------------------------------------
(* Blocks stay in step, and those sent for decoding are whole *)

LEMMA BlocksInStepInit == Init => BlocksInStep
<1>. SUFFICES ASSUME Init, NEW s \in Streams PROVE BlockInv(s) BY DEF BlocksInStep
<1>1. task[s] = NewTask("absent") /\ inbox[s] = <<>> /\ blocked = <<>> BY DEF Init, StreamInit
<1>2. Collected(task[s]) /\ Collecting(s) = FALSE BY <1>1, CollectedNew DEF Collecting
<1>3. Line(s) = <<>> BY <1>1 DEF Line
<1>. QED BY <1>2, <1>3, EmptyLine DEF BlockInv

LEMMA BlocksInStepStep ==
  TypeOK /\ TasksInStep /\ BlocksInStep /\ [Next]_contractVars => BlocksInStep'
<1>. SUFFICES ASSUME TypeOK, TasksInStep, BlocksInStep, [Next]_contractVars PROVE BlocksInStep'
  OBVIOUS
<1>1. CASE Forwarding BY <1>1, ForwardBlocks DEF Forwarding
<1>2. ASSUME NEW d \in Streams, TaskStep(d) PROVE BlocksInStep' BY <1>2, TaskStepBlocks
<1>3. ASSUME NEW d \in Streams, Start(d) PROVE BlocksInStep' BY <1>3, QuietBlocks DEF Start
<1>4. ASSUME NEW d \in Streams, GiveUp(d) PROVE BlocksInStep'
  BY <1>4, QuietBlocks DEF GiveUp, streamVars
<1>5. ASSUME NEW d \in Streams, NEW size \in Sizes, Respond(d, size) PROVE BlocksInStep'
  BY <1>5, RespondBlocks
<1>6. ASSUME NEW S, Cancel(S) PROVE BlocksInStep' BY <1>6, QuietBlocks DEF Cancel
<1>7. ASSUME NEW S, Disconnect(S) PROVE BlocksInStep' BY <1>7, QuietBlocks DEF Disconnect
<1>8. CASE UNCHANGED contractVars BY <1>8, QuietBlocks DEF contractVars, streamVars
<1>9. CASE DecodeHeaders \/ DecodeTrailers \/ AcceptDispatch \/ TakeOther BY <1>9, TakeBlocks
<1>10. CASE Deliver BY <1>10, DeliverBlocks
<1>. QED BY <1>1, <1>2, <1>3, <1>4, <1>5, <1>6, <1>7, <1>8, <1>9, <1>10 DEF Next, OtherStep

\* A message that asks for nothing but a whole block to be decoded, if it is of
\* that type.
Sound(type, m)    == m.type = type => WholeBlock(m.block)
SoundAll(type, q) == \A i \in 1..Len(q) : Sound(type, q[i])

LEMMA SoundParts ==
  ASSUME NEW type
  PROVE  BlocksAreWhole(type)
           <=> SoundAll(type, toConn) /\ \A s \in Streams : SoundAll(type, task[s].out)
BY DEF BlocksAreWhole, SoundAll, Sound

LEMMA SoundQueues ==
  ASSUME NEW type, NEW S, NEW q \in Seq(S)
  PROVE  /\ \A m \in S : SoundAll(type, q) /\ Sound(type, m) => SoundAll(type, Append(q, m))
         /\ q # <<>> /\ SoundAll(type, q) => Sound(type, Head(q)) /\ SoundAll(type, Tail(q))
<1>1. \A m \in S : SoundAll(type, q) /\ Sound(type, m) => SoundAll(type, Append(q, m))
  BY DEF SoundAll
<1>2. ASSUME q # <<>>, SoundAll(type, q)
      PROVE  Sound(type, Head(q)) /\ SoundAll(type, Tail(q))
  <2>1. /\ Len(q) \in Nat /\ Len(Tail(q)) = Len(q) - 1 /\ Head(q) = q[1] /\ 1 \in 1..Len(q)
        /\ \A i \in 1..Len(Tail(q)) : Tail(q)[i] = q[i + 1] /\ i + 1 \in 1..Len(q)
    BY <1>2
  <2>. QED BY <1>2, <2>1 DEF SoundAll
<1>. QED BY <1>1, <1>2

\* Blocks stay whole over a step of a task that has, after it, nothing else to send.
LEMMA TaskStepWhole ==
  ASSUME TypeOK, NEW type, BlocksAreWhole(type), NEW d \in Streams, TaskStep(d),
         ~Send(d) => SoundAll(type, task'[d].out)
  PROVE  BlocksAreWhole(type)'
<1>. SUFFICES SoundAll(type, toConn') /\ \A s \in Streams : SoundAll(type, task'[s].out)
  BY DEF BlocksAreWhole, SoundAll, Sound
<1>1. SoundAll(type, toConn) /\ \A s \in Streams : SoundAll(type, task[s].out) BY SoundParts
<1>2. StreamStep(d) /\ task \in [Streams -> Task] /\ toConn \in Seq(ToConnection)
  BY DEF TaskStep, TypeOK
<1>3. CASE Send(d)
  <2>1. /\ task[d].out # <<>> /\ toConn' = Append(toConn, Head(task[d].out))
        /\ task' = [task EXCEPT ![d].out = Tail(task[d].out)]
    BY <1>3 DEF Send
  <2>2. task[d].out \in Seq(ToConnection) /\ Head(task[d].out) \in ToConnection
    BY <1>2, <2>1 DEF Task
  <2>3. Sound(type, Head(task[d].out)) /\ SoundAll(type, Tail(task[d].out))
    BY <1>1, <2>1, <2>2, SoundQueues
  <2>4. SoundAll(type, toConn') BY <1>1, <1>2, <2>1, <2>2, <2>3, SoundQueues
  <2>5. \A s \in Streams : task'[s].out = IF s = d THEN Tail(task[d].out) ELSE task[s].out
    BY <1>2, <2>1 DEF Task
  <2>. QED BY <1>1, <2>3, <2>4, <2>5
<1>4. CASE ~Send(d)
  <2>1. toConn' = toConn /\ \E u, rest : Become(d, u, rest)
    BY <1>2, <1>4 DEF StreamStep, CompositeHeaders, CompositeTrailers, DispatchIfNeeded,
         RespondIfPossible, TopOfLoop, ReceiveFrame, ReceiveResponse, ReceiveHeaders,
         ReceiveTrailers, Receive, Terminate, SendFails
  <2>2. \A s \in Streams : s # d => task'[s] = task[s] BY <1>2, <2>1 DEF Become
  <2>. QED BY <1>1, <1>4, <2>1, <2>2
<1>. QED BY <1>3, <1>4

\* The connection takes from the channel and starts tasks, and adds nothing.
LEMMA OtherWhole ==
  ASSUME TypeOK, NEW type, BlocksAreWhole(type),
         toConn' = <<>> \/ toConn' = toConn \/ (toConn # <<>> /\ toConn' = Tail(toConn)),
         task' = task \/ \E d \in Streams : task' = [task EXCEPT ![d] = Started(d)]
  PROVE  BlocksAreWhole(type)'
<1>. SUFFICES SoundAll(type, toConn') /\ \A s \in Streams : SoundAll(type, task'[s].out)
  BY DEF BlocksAreWhole, SoundAll, Sound
<1>1. SoundAll(type, toConn) /\ \A s \in Streams : SoundAll(type, task[s].out) BY SoundParts
<1>2. toConn \in Seq(ToConnection) /\ task \in [Streams -> Task] BY DEF TypeOK
<1>3. SoundAll(type, toConn')
  <2>1. CASE toConn' = <<>> BY <2>1 DEF SoundAll
  <2>2. CASE toConn' = toConn BY <1>1, <2>2
  <2>3. CASE toConn # <<>> /\ toConn' = Tail(toConn) BY <1>1, <1>2, <2>3, SoundQueues
  <2>. QED BY <2>1, <2>2, <2>3
<1>4. SoundAll(type, NewTask("running").out) BY DEF NewTask, SoundAll
<1>5. ASSUME NEW s \in Streams PROVE task'[s] = task[s] \/ task'[s] = NewTask("running")
  BY <1>2 DEF Started
<1>. QED BY <1>1, <1>3, <1>4, <1>5

LEMMA BlocksStayWhole ==
  ASSUME TypeOK, NEW type, BlocksAreWhole(type), [Next]_contractVars,
         \A d \in Streams : TaskStep(d) /\ ~Send(d) => SoundAll(type, task'[d].out)
  PROVE  BlocksAreWhole(type)'
<1>1. ASSUME NEW d \in Streams, TaskStep(d) PROVE BlocksAreWhole(type)'
  BY <1>1, TaskStepWhole
<1>2. ASSUME NEW d \in Streams, NEW f \in Frames, Forward(d, f) PROVE BlocksAreWhole(type)'
  BY <1>2, OtherWhole DEF Forward
<1>3. ASSUME NEW d \in Streams, Start(d) PROVE BlocksAreWhole(type)'
  BY <1>3, OtherWhole DEF Start
<1>4. ASSUME NEW d \in Streams, GiveUp(d) PROVE BlocksAreWhole(type)'
  BY <1>4, OtherWhole DEF GiveUp, streamVars
<1>5. ASSUME NEW d \in Streams, NEW size \in Sizes, Respond(d, size)
      PROVE  BlocksAreWhole(type)'
  BY <1>5, OtherWhole DEF Respond
<1>6. ASSUME NEW S, Cancel(S) PROVE BlocksAreWhole(type)' BY <1>6, OtherWhole DEF Cancel
<1>7. ASSUME NEW S, Disconnect(S) PROVE BlocksAreWhole(type)'
  BY <1>7, OtherWhole DEF Disconnect
<1>8. CASE UNCHANGED contractVars BY <1>8, OtherWhole DEF contractVars, streamVars
<1>9. CASE DecodeHeaders \/ DecodeTrailers \/ AcceptDispatch \/ TakeOther
  <2>1. PICK kind : Take(kind)
    BY <1>9 DEF DecodeHeaders, DecodeTrailers, AcceptDispatch, TakeOther
  <2>. QED BY <2>1, OtherWhole DEF Take
<1>10. CASE Deliver BY <1>10, OtherWhole DEF Deliver
<1>. QED BY <1>1, <1>2, <1>3, <1>4, <1>5, <1>6, <1>7, <1>8, <1>9, <1>10
  DEF Next, OtherStep, Forwarding

LEMMA BlocksAreWholeInit ==
  ASSUME NEW type, Init
  PROVE  BlocksAreWhole(type)
<1>1. toConn = <<>> /\ \A s \in Streams : task[s].out = <<>>
  BY DEF Init, StreamInit, NewTask
<1>. QED BY <1>1, SoundParts DEF SoundAll

\* What a task has to send after a step in which it asked for something: a block
\* to decode is what it had collected, all of it.
LEMMA SoundTransforms ==
  ASSUME TypeOK, TasksInStep, NEW d \in Streams, BlockInv(d), AtTop(d)
  PROVE  LET t == task[d] IN
         /\ NeedsHeaders(t) => SoundAll("DecodingHeadersRequest", AskForHeaders(d, t).out)
         /\ SoundAll("DecodingHeadersRequest", AskForTrailers(d, t).out)
         /\ NeedsDispatch(t) => SoundAll("DecodingHeadersRequest", HandOver(d, t).out)
         /\ NeedsFlush(t) => SoundAll("DecodingHeadersRequest", Flush(d, t).out)
         /\ inbox[d] # <<>> => SoundAll("DecodingHeadersRequest", Handle(d, t, Head(inbox[d])).out)
<1>. DEFINE t == task[d]
            m == Head(inbox[d])
<1>1. t \in Task /\ Coherent(d, t) /\ t.out = <<>> /\ t.phase = "running" /\ Collected(t)
  BY DEF AtTop, Running, TypeOK, TasksInStep, StreamInv, BlockInv
<1>2. ASSUME NEW u, u.out = <<>> \/ (Len(u.out) = 1 /\ Sound("DecodingHeadersRequest", Head(u.out)))
      PROVE  SoundAll("DecodingHeadersRequest", u.out)
  BY <1>2 DEF SoundAll
<1>3. ASSUME NeedsHeaders(t) PROVE SoundAll("DecodingHeadersRequest", AskForHeaders(d, t).out)
  <2>1. WholeBlock(t.headers) BY <1>1, <1>3 DEF NeedsHeaders, Collected
  <2>2. AskForHeaders(d, t).out = <<DecodeRequest("DecodingHeadersRequest", d, t.headers)>>
    BY <1>1 DEF AskForHeaders, Task
  <2>3. Sound("DecodingHeadersRequest", DecodeRequest("DecodingHeadersRequest", d, t.headers))
    BY <2>1 DEF Sound, DecodeRequest
  <2>. QED BY <2>2, <2>3 DEF SoundAll
<1>4. SoundAll("DecodingHeadersRequest", AskForTrailers(d, t).out)
  <2>1. Len(AskForTrailers(d, t).out) <= 1 /\ AskForTrailers(d, t).out \in Seq(ToConnection)
    BY <1>1, CoherentTop, TopOfLoopTypes DEF Coherent, Task
  <2>. QED BY <1>1, <2>1, CoherentTop DEF SoundAll, Sound
<1>5. ASSUME NeedsDispatch(t) PROVE SoundAll("DecodingHeadersRequest", HandOver(d, t).out)
  <2>1. HandOver(d, t).out = <<DispatchMessage(d)>> BY <1>1 DEF HandOver, Task
  <2>. QED BY <2>1 DEF SoundAll, Sound, DispatchMessage
<1>6. ASSUME NeedsFlush(t) PROVE SoundAll("DecodingHeadersRequest", Flush(d, t).out)
  <2>1. \/ Flush(d, t).out = <<>>
        \/ Flush(d, t).out = <<ResponseMessage(d, <<Head(t.pending)>>)>>
    BY <1>1 DEF Flush, NewTask, Task
  <2>. QED BY <2>1 DEF SoundAll, Sound, ResponseMessage
<1>7. ASSUME inbox[d] # <<>> PROVE SoundAll("DecodingHeadersRequest", Handle(d, t, m).out)
  <2>1. m \in ToStream BY <1>7 DEF TypeOK
  <2>2. CASE m.type = "FrameForRequest"
    <3>1. m.frame \in Frame /\ Handle(d, t, m) = HandleFrame(d, t, m.frame)
      BY <2>1, <2>2 DEF ToStream, Handle
    <3>. DEFINE f == m.frame
                u == HandleFrame(d, t, f)
    <3>2. u = Handle(d, t, m) BY <3>1
    <3>3. /\ Coherent(d, u) /\ u.phase = "running" /\ u.dispatched = t.dispatched
          /\ t.hdr = "Waiting" => u.hdr = "Waiting"
          /\ Head(u.out).type \in {"Error", "ActiveStreamCount"}
      <4>1. f \in Frame BY <3>1
      <4>. HIDE DEF t, f
      <4>. QED BY <1>1, <4>1, CoherentFrame
    <3>4. u.out \in Seq(ToConnection)
      <4>1. f \in Frame BY <3>1
      <4>. HIDE DEF t, f
      <4>. QED BY <1>1, <4>1, HandleFrameType DEF Task
    <3>. HIDE DEF u, t, m
    <3>5. Len(u.out) <= 1 BY <3>3 DEF Coherent
    <3>6. SoundAll("DecodingHeadersRequest", u.out) BY <3>3, <3>4, <3>5 DEF SoundAll, Sound
    <3>. QED BY <3>2, <3>6
  <2>3. CASE m.type = "ResponseObject"
    <3>1. Handle(d, t, m) = HandleResponse(d, t, m.size) BY <2>3 DEF Handle
    <3>. DEFINE both == ResponseMessage(d, <<ResponseHeaders, ResponseData(m.size)>>)
                head == ResponseMessage(d, <<ResponseHeaders>>)
    <3>2. both.type = "DoResponseToClient" /\ head.type = "DoResponseToClient"
      BY DEF ResponseMessage
    <3>. HIDE DEF both, head
    <3>3. Handle(d, t, m).out = <<both>> \/ Handle(d, t, m).out = <<head>>
      BY <1>1, <3>1 DEF HandleResponse, both, head, Task
    <3>. QED BY <3>2, <3>3 DEF SoundAll, Sound
  <2>4. CASE m.type = "DecodingHeadersResponse"
    <3>1. Handle(d, t, m) = HandleDecodedHeaders(d, t, m.trailer) BY <2>4 DEF Handle
    <3>. DEFINE e == ErrorMessage(d, ConnectionError("PROTOCOL_ERROR"))
    <3>2. e.type = "Error" BY DEF ErrorMessage
    <3>. HIDE DEF e
    <3>3. Handle(d, t, m).out = <<>> \/ Handle(d, t, m).out = <<e>>
      BY <1>1, <3>1 DEF HandleDecodedHeaders, e, Task
    <3>. QED BY <3>2, <3>3 DEF SoundAll, Sound
  <2>5. CASE m.type = "DecodingTrailersResponse"
    <3>1. Handle(d, t, m) = HandleDecodedTrailers(t) BY <2>5 DEF Handle
    <3>. QED BY <1>1, <3>1 DEF HandleDecodedTrailers, NewTask, SoundAll, Sound, Task
  <2>. QED BY <2>1, <2>2, <2>3, <2>4, <2>5 DEF ToStream
<1>. QED BY <1>3, <1>4, <1>5, <1>6, <1>7

LEMMA HeadersStaySound ==
  ASSUME TypeOK, TasksInStep, BlocksInStep, NEW d \in Streams, TaskStep(d), ~Send(d)
  PROVE  SoundAll("DecodingHeadersRequest", task'[d].out)
<1>1. StreamStep(d) /\ task \in [Streams -> Task] /\ BlockInv(d)
  BY DEF TaskStep, TypeOK, BlocksInStep
<1>2. ASSUME NEW u, NEW rest, Become(d, u, rest) PROVE task'[d] = u
  BY <1>1, <1>2 DEF Become
<1>3. CASE \/ CompositeHeaders(d) \/ CompositeTrailers(d)
           \/ DispatchIfNeeded(d) \/ RespondIfPossible(d)
  BY <1>1, <1>2, <1>3, SoundTransforms
  DEF CompositeHeaders, CompositeTrailers, DispatchIfNeeded, RespondIfPossible, TopOfLoop
<1>4. CASE \/ ReceiveFrame(d) \/ ReceiveResponse(d) \/ ReceiveHeaders(d) \/ ReceiveTrailers(d)
  BY <1>1, <1>2, <1>4, SoundTransforms
  DEF ReceiveFrame, ReceiveResponse, ReceiveHeaders, ReceiveTrailers, Receive, Idle
<1>5. CASE Terminate(d) \/ SendFails(d)
  <2>1. SoundAll("DecodingHeadersRequest", NewTask("ended").out) BY DEF NewTask, SoundAll
  <2>. QED BY <1>2, <1>5, <2>1 DEF Terminate, SendFails
<1>. QED BY <1>1, <1>3, <1>4, <1>5 DEF StreamStep

\* Whatever the client sends, a task that collects a header block is sent
\* nothing but the rest of it, and what it has collected begins a whole block.
THEOREM BlocksStayInStep == Spec => []BlocksInStep
<1>1. Init => BlocksInStep BY BlocksInStepInit
<1>2. TypeOK /\ TasksInStep /\ BlocksInStep /\ [Next]_contractVars => BlocksInStep'
  BY BlocksInStepStep
<1>. QED BY <1>1, <1>2, TypeCorrect, StaysInStep, PTL DEF Spec

\* The decoder is only ever given whole header blocks: HEADERS first, then
\* CONTINUATION frames only, END_HEADERS on the last frame and on no other.
THEOREM HeaderBlocksWhole == Spec => []WholeHeaderBlocks
<1>1. Init => WholeHeaderBlocks BY BlocksAreWholeInit DEF WholeHeaderBlocks
<1>2. TypeOK /\ TasksInStep /\ BlocksInStep /\ WholeHeaderBlocks /\ [Next]_contractVars
        => WholeHeaderBlocks'
  BY HeadersStaySound, BlocksStayWhole DEF WholeHeaderBlocks
<1>. QED BY <1>1, <1>2, TypeCorrect, StaysInStep, BlocksStayInStep, PTL DEF Spec

-----------------------------------------------------------------------------
(* Trailers, from a client that keeps to the grammar: paths along a line *)

LEMMA AlongEmpty ==
  ASSUME NEW from \in Stages
  PROVE  Along(from, <<>>, from)
<1>. DEFINE at == [i \in 1..1 |-> from]
<1>1. at \in [1..(Len(<<>>) + 1) -> Stages] /\ at[1] = from /\ at[Len(<<>>) + 1] = from
  OBVIOUS
<1>. HIDE DEF at
<1>. QED BY <1>1 DEF Along

\* A path along a line and one message more.
LEMMA AlongAppended ==
  ASSUME NEW S, NEW line \in Seq(S), NEW m \in S, NEW from, NEW to \in Stages
  PROVE  Along(from, Append(line, m), to)
           <=> \E via \in Stages : Along(from, line, via) /\ Heard(via, m, to)
<1>. DEFINE longer == Append(line, m)
            n == Len(line)
<1>1. /\ n \in Nat /\ Len(longer) = n + 1 /\ longer[n + 1] = m
      /\ \A i \in 1..n : longer[i] = line[i]
  OBVIOUS
<1>. HIDE DEF longer, n
<1>2. ASSUME Along(from, longer, to)
      PROVE  \E via \in Stages : Along(from, line, via) /\ Heard(via, m, to)
  <2>1. PICK at \in [1..(n + 1 + 1) -> Stages] :
          /\ at[1] = from /\ at[n + 1 + 1] = to
          /\ \A i \in 1..(n + 1) : Heard(at[i], longer[i], at[i + 1])
    BY <1>1, <1>2 DEF Along
  <2>. DEFINE less == [i \in 1..(n + 1) |-> at[i]]
  <2>2. /\ less \in [1..(n + 1) -> Stages] /\ less[1] = from /\ less[n + 1] = at[n + 1]
        /\ at[n + 1] \in Stages
        /\ \A i \in 1..n : less[i] = at[i] /\ less[i + 1] = at[i + 1]
    BY <1>1, <2>1
  <2>3. \A i \in 1..n : i \in 1..(n + 1) BY <1>1
  <2>4. n + 1 \in 1..(n + 1) BY <1>1
  <2>. HIDE DEF less
  <2>5. Along(from, line, at[n + 1]) BY <1>1, <2>1, <2>2, <2>3 DEF Along, n
  <2>6. Heard(at[n + 1], m, to) BY <1>1, <2>1, <2>4
  <2>. QED BY <2>2, <2>5, <2>6
<1>3. ASSUME NEW via \in Stages, Along(from, line, via), Heard(via, m, to)
      PROVE  Along(from, longer, to)
  <2>1. PICK at \in [1..(n + 1) -> Stages] :
          /\ at[1] = from /\ at[n + 1] = via
          /\ \A i \in 1..n : Heard(at[i], line[i], at[i + 1])
    BY <1>3 DEF Along, n
  <2>. DEFINE more == [i \in 1..(n + 1 + 1) |-> IF i = n + 1 + 1 THEN to ELSE at[i]]
  <2>2. /\ more \in [1..(n + 1 + 1) -> Stages] /\ more[1] = from /\ more[n + 1 + 1] = to
        /\ more[n + 1] = via
        /\ \A i \in 1..n : more[i] = at[i] /\ more[i + 1] = at[i + 1]
    BY <1>1, <2>1
  <2>. HIDE DEF more
  <2>3. \A i \in 1..(n + 1) : i \in 1..n \/ i = n + 1 BY <1>1
  <2>4. \A i \in 1..(n + 1) : Heard(more[i], longer[i], more[i + 1])
    BY <1>1, <1>3, <2>1, <2>2, <2>3
  <2>. QED BY <1>1, <2>2, <2>4 DEF Along
<1>. QED BY <1>2, <1>3 DEF longer

\* The rest of a path, when the first message has been read.
LEMMA AlongTail ==
  ASSUME NEW S, NEW line \in Seq(S), line # <<>>, NEW from, NEW to, Along(from, line, to)
  PROVE  \E via \in Stages : Heard(from, Head(line), via) /\ Along(via, Tail(line), to)
<1>. DEFINE rest == Tail(line)
            n == Len(rest)
<1>1. /\ n \in Nat /\ Len(line) = n + 1 /\ line[1] = Head(line)
      /\ \A i \in 1..n : rest[i] = line[i + 1]
  OBVIOUS
<1>. HIDE DEF rest, n
<1>2. PICK at \in [1..(n + 1 + 1) -> Stages] :
        /\ at[1] = from /\ at[n + 1 + 1] = to
        /\ \A i \in 1..(n + 1) : Heard(at[i], line[i], at[i + 1])
  BY <1>1 DEF Along
<1>. DEFINE less == [i \in 1..(n + 1) |-> at[i + 1]]
<1>3. /\ less \in [1..(n + 1) -> Stages] /\ less[1] = at[2] /\ less[n + 1] = to
      /\ at[2] \in Stages
      /\ \A i \in 1..n : less[i] = at[i + 1] /\ less[i + 1] = at[i + 1 + 1]
  BY <1>1, <1>2
<1>4. \A i \in 1..n : i + 1 \in 1..(n + 1) BY <1>1
<1>5. 1 \in 1..(n + 1) /\ 1 + 1 = 2 BY <1>1
<1>. HIDE DEF less
<1>6. \A i \in 1..n : Heard(less[i], rest[i], less[i + 1])
  BY <1>1, <1>2, <1>3, <1>4
<1>7. Along(at[2], rest, to) BY <1>3, <1>6 DEF Along, n
<1>8. Heard(from, Head(line), at[2]) BY <1>1, <1>2, <1>5
<1>. QED BY <1>3, <1>7, <1>8 DEF rest

-----------------------------------------------------------------------------
(* What a task has heard *)

LEMMA HeardType ==
  ASSUME NEW t
  PROVE  HeardSoFar(t) \in Stages
BY DEF HeardSoFar, Stages

LEMMA OrderlyNew ==
  /\ \A phase : Orderly(NewTask(phase)) /\ HeardSoFar(NewTask(phase)) = "idle"
  /\ \A phase : ~Deaf(NewTask(phase))
BY DEF Orderly, HeardSoFar, Deaf, NewTask

\* What Deaf, HeardSoFar and Orderly look at.
LEMMA OrderlySame ==
  ASSUME NEW t, NEW u, u.hdr = t.hdr, u.trl = t.trl, u.state = t.state, u.requestEnd = t.requestEnd
  PROVE  /\ Deaf(u) <=> Deaf(t)
         /\ HeardSoFar(u) = HeardSoFar(t)
         /\ Orderly(t) /\ u.trailers = t.trailers /\ u.composited = t.composited => Orderly(u)
BY DEF Orderly, HeardSoFar, Deaf

\* What a frame changes of a task.
LEMMA FrameEffect ==
  ASSUME NEW s \in Streams, NEW t \in Task, NEW f \in Frame,
         t.state \in {"Idle", "Open", "HalfClosedRemote", "Closed"}
  PROVE  LET u == HandleFrame(s, t, f)
             valid == /\ f.kind = "CONTINUATION" => ~ContinuationMisplaced(t.hdr, t.trl)
                      /\ f.kind = "HEADERS" => ~HeadersMisplaced(t.hdr, t.trl)
                      /\ t.state = "Idle" => f.kind \notin RefusedInIdle
                      /\ t.state \in {"HalfClosedRemote", "Closed"} => f.kind \notin RefusedAfterEnd
             forTrailers == valid /\ CarriesHeaders(f) /\ ToTrailers(t)
             forHeaders == valid /\ CarriesHeaders(f) /\ ~ToTrailers(t) IN
         /\ u.state = IF valid THEN NextFromClient(t.state, f) ELSE t.state
         /\ u.requestEnd = (t.requestEnd \/ (valid /\ HasEndStream(f)))
         /\ u.hdr = IF forHeaders THEN Progress(f) ELSE t.hdr
         /\ u.trl = IF forTrailers THEN Progress(f) ELSE t.trl
         /\ u.trailers = IF forTrailers THEN Append(t.trailers, f) ELSE t.trailers
         /\ u.composited = t.composited
<1>. DEFINE u == HandleFrame(s, t, f)
            a == Accepted(t, f)
            ok == ValidateFromClient(t.state, t.hdr, t.trl, f) = NoError
            valid == /\ f.kind = "CONTINUATION" => ~ContinuationMisplaced(t.hdr, t.trl)
                     /\ f.kind = "HEADERS" => ~HeadersMisplaced(t.hdr, t.trl)
                     /\ t.state = "Idle" => f.kind \notin RefusedInIdle
                     /\ t.state \in {"HalfClosedRemote", "Closed"} => f.kind \notin RefusedAfterEnd
            forTrailers == CarriesHeaders(f) /\ ToTrailers(t)
            forHeaders == CarriesHeaders(f) /\ ~ToTrailers(t)
<1>1. /\ ConnectionError("PROTOCOL_ERROR") # NoError
      /\ StreamError(f.sid, "STREAM_CLOSED") # NoError
  BY DEF ConnectionError, StreamError, NoError
<1>2. ok <=> valid
  BY <1>1 DEF ValidateFromClient, Check, ??
<1>3. /\ a.state = NextFromClient(t.state, f) /\ a.requestEnd = (t.requestEnd \/ HasEndStream(f))
      /\ a.hdr = IF forHeaders THEN Progress(f) ELSE t.hdr
      /\ a.trl = IF forTrailers THEN Progress(f) ELSE t.trl
      /\ a.trailers = IF forTrailers THEN Append(t.trailers, f) ELSE t.trailers
      /\ a.composited = t.composited
  BY DEF Accepted, Task
<1>4. a \in Task /\ t.requestEnd \in BOOLEAN BY AcceptedType DEF Task
<1>5. u = [(IF ok THEN a ELSE t) EXCEPT !.out = <<FrameVerdict(s, t, f)>>] BY DEF HandleFrame
<1>. HIDE DEF a, u, ok, valid
<1>6. CASE ok
  <2>1. /\ u.state = a.state /\ u.requestEnd = a.requestEnd /\ u.hdr = a.hdr /\ u.trl = a.trl
        /\ u.trailers = a.trailers /\ u.composited = a.composited
    BY <1>4, <1>5, <1>6 DEF Task
  <2>. QED BY <1>2, <1>3, <1>6, <2>1 DEF valid, u
<1>7. CASE ~ok
  <2>1. /\ u.state = t.state /\ u.requestEnd = t.requestEnd /\ u.hdr = t.hdr /\ u.trl = t.trl
        /\ u.trailers = t.trailers /\ u.composited = t.composited
    BY <1>5, <1>7 DEF Task
  <2>. QED BY <1>2, <1>4, <1>7, <2>1 DEF valid, u
<1>. QED BY <1>6, <1>7

\* A task that has closed its ears keeps them closed, and any other hears a frame
\* that may come as its client has meant it, unless it closes its ears for it.
LEMMA HearsFrame ==
  ASSUME NEW s \in Streams, NEW t \in Task, NEW f \in Frame,
         Coherent(s, t), Collected(t), Orderly(t), t.hdr # "Ready",
         Deaf(t) \/ Grammatical(HeardSoFar(t), f)
  PROVE  LET u == HandleFrame(s, t, f) IN
         /\ Orderly(u)
         /\ t.trl = "Waiting" => u.trl = "Waiting"
         /\ Deaf(u) \/ (~Deaf(t) /\ HeardSoFar(u) = StageAfter(HeardSoFar(t), f))
<1>. DEFINE u == HandleFrame(s, t, f)
            valid == /\ f.kind = "CONTINUATION" => ~ContinuationMisplaced(t.hdr, t.trl)
                     /\ f.kind = "HEADERS" => ~HeadersMisplaced(t.hdr, t.trl)
                     /\ t.state = "Idle" => f.kind \notin RefusedInIdle
                     /\ t.state \in {"HalfClosedRemote", "Closed"} => f.kind \notin RefusedAfterEnd
            forTrailers == valid /\ CarriesHeaders(f) /\ ToTrailers(t)
            forHeaders == valid /\ CarriesHeaders(f) /\ ~ToTrailers(t)
<1>1. /\ t.state \in {"Idle", "Open", "HalfClosedRemote", "Closed"}
      /\ t.requestEnd => t.state \in {"HalfClosedRemote", "Closed"}
      /\ t.requestEnd \in BOOLEAN /\ t.trailers \in Seq(Frame)
      /\ t.hdr \in {"Initial", "KeepGoing", "Waiting", "Completed"}
      /\ t.trl \in {"Initial", "KeepGoing", "Ready", "Waiting", "Completed"}
      /\ t.hdr \in {"Initial", "KeepGoing"} => t.trl = "Initial"
      /\ f.es \in BOOLEAN /\ f.eh \in BOOLEAN
  BY DEF Coherent, Collected, Task, DecodingStates, Frame
<1>2. /\ u.state = IF valid THEN NextFromClient(t.state, f) ELSE t.state
      /\ u.requestEnd = (t.requestEnd \/ (valid /\ HasEndStream(f)))
      /\ u.hdr = IF forHeaders THEN Progress(f) ELSE t.hdr
      /\ u.trl = IF forTrailers THEN Progress(f) ELSE t.trl
      /\ u.trailers = IF forTrailers THEN Append(t.trailers, f) ELSE t.trailers
      /\ u.composited = t.composited
  BY <1>1, FrameEffect
<1>. HIDE DEF u, valid
<1>3. CASE Deaf(t)
  <2>1. ~forTrailers /\ ~forHeaders
    BY <1>1, <1>3 DEF Deaf, valid, CarriesHeaders, ToTrailers, ContinuationMisplaced,
       HeadersMisplaced, RefusedAfterEnd
  <2>2. t.state = "Closed" => u.state = "Closed" BY <1>2 DEF NextFromClient, ActiveStates
  <2>3. t.hdr # "Initial" /\ u.state # "Idle"
    BY <1>1, <1>2, <1>3 DEF Orderly, Deaf, NextFromClient, ActiveStates
  <2>4. u.state = "HalfClosedRemote" => u.requestEnd
    BY <1>1, <1>2 DEF Orderly, NextFromClient, ActiveStates, HasEndStream
  <2>5. u.hdr = t.hdr /\ u.trl = t.trl /\ u.trailers = t.trailers /\ u.composited = t.composited
    BY <1>2, <2>1
  <2>6. Deaf(u) BY <1>3, <2>2, <2>5 DEF Deaf
  <2>7. t.requestEnd => u.requestEnd BY <1>2
  <2>8. Orderly(u) BY <2>3, <2>4, <2>5, <2>7 DEF Orderly
  <2>. QED BY <2>5, <2>6, <2>8 DEF u
<1>4. CASE ~Deaf(t) /\ f.kind = "HEADERS"
  <2>1. CASE t.hdr = "Initial"
    <3>1. t.state = "Idle" /\ ~t.requestEnd /\ t.trl = "Initial" BY <1>1, <2>1 DEF Orderly
    <3>2. valid /\ forHeaders /\ ~forTrailers
      BY <1>4, <2>1, <3>1 DEF valid, HeadersMisplaced, RefusedInIdle, CarriesHeaders, ToTrailers
    <3>3. /\ u.state = IF f.es THEN "HalfClosedRemote" ELSE "Open"
          /\ u.requestEnd = f.es /\ u.hdr = Progress(f) /\ u.trl = "Initial"
          /\ u.trailers = t.trailers /\ Progress(f) = IF f.eh THEN "Ready" ELSE "KeepGoing"
      BY <1>1, <1>2, <1>4, <3>1, <3>2 DEF NextFromClient, HasEndStream, Progress, HasEndHeaders
    <3>4. Orderly(u) BY <1>1, <3>1, <3>3 DEF Orderly
    <3>5. HeardSoFar(t) = "idle" BY <2>1 DEF HeardSoFar
    <3>6. HeardSoFar(u) = StageAfter(HeardSoFar(t), f)
      BY <1>1, <1>4, <3>3 DEF HeardSoFar, StageAfter
    <3>. QED BY <1>4, <3>1, <3>4, <3>6 DEF u
  <2>2. CASE t.hdr # "Initial"
    <3>1. /\ HeardSoFar(t) = "body" /\ f.es /\ ~t.requestEnd /\ t.hdr \in {"Waiting", "Completed"}
          /\ t.trl \in {"Initial", "Completed"}
      BY <1>1, <1>4, <2>2 DEF Grammatical, HeardSoFar, Orderly
    <3>2. t.trl = "Initial" /\ t.state = "Open"
      BY <1>1, <1>4, <2>2, <3>1 DEF Deaf, Orderly
    <3>3. valid /\ forTrailers /\ ~forHeaders
      BY <1>4, <3>1, <3>2 DEF valid, HeadersMisplaced, CarriesHeaders, ToTrailers
    <3>4. /\ u.state = "HalfClosedRemote" /\ u.requestEnd /\ u.hdr = t.hdr /\ u.trl = Progress(f)
          /\ Progress(f) = IF f.eh THEN "Ready" ELSE "KeepGoing"
      BY <1>1, <1>2, <1>4, <3>1, <3>2, <3>3
      DEF NextFromClient, HasEndStream, Progress, HasEndHeaders
    <3>5. u.trailers = <<f>>
      <4>1. t.trailers = <<>> BY <3>2 DEF Orderly
      <4>2. Append(<<>>, f) = <<f>> OBVIOUS
      <4>. QED BY <1>2, <3>3, <4>1, <4>2
    <3>6. /\ f.eh => WholeBlock(u.trailers)
          /\ ~f.eh => BeginsBlock(u.trailers)
      BY <1>4, <3>5, BlockStarts DEF HasEndHeaders
    <3>7. Orderly(u) BY <1>1, <1>2, <3>1, <3>2, <3>4, <3>6 DEF Orderly
    <3>8. HeardSoFar(u) = StageAfter(HeardSoFar(t), f)
      BY <1>1, <1>4, <3>1, <3>4 DEF HeardSoFar, StageAfter
    <3>. QED BY <1>4, <3>2, <3>7, <3>8 DEF u
  <2>. QED BY <2>1, <2>2
<1>5. CASE ~Deaf(t) /\ f.kind = "CONTINUATION"
  <2>1. BlockOpen(HeardSoFar(t)) BY <1>5 DEF Grammatical
  <2>2. t.hdr = "KeepGoing" \/ t.trl = "KeepGoing" BY <2>1 DEF HeardSoFar, BlockOpen
  <2>3. t.state # "Idle" BY <1>1, <2>2 DEF Orderly
  <2>4. valid
    BY <1>1, <1>5, <2>2, <2>3 DEF valid, ContinuationMisplaced, RefusedInIdle, RefusedAfterEnd
  <2>5. /\ u.state = t.state /\ u.requestEnd = t.requestEnd
        /\ Progress(f) = IF f.eh THEN "Ready" ELSE "KeepGoing"
    BY <1>1, <1>2, <1>5, <2>3, <2>4
    DEF NextFromClient, ActiveStates, HasEndStream, Progress, HasEndHeaders
  <2>6. CASE t.hdr = "KeepGoing"
    <3>1. t.trl = "Initial" /\ ~forTrailers /\ forHeaders
      BY <1>1, <1>5, <2>4, <2>6 DEF CarriesHeaders, ToTrailers
    <3>2. u.hdr = Progress(f) /\ u.trl = "Initial" /\ u.trailers = t.trailers BY <1>2, <3>1
    <3>3. Orderly(u) BY <2>3, <2>5, <3>1, <3>2 DEF Orderly
    <3>4. HeardSoFar(u) = StageAfter(HeardSoFar(t), f)
      BY <1>1, <1>5, <2>5, <2>6, <3>2 DEF HeardSoFar, StageAfter
    <3>. QED BY <1>5, <3>1, <3>3, <3>4 DEF u
  <2>7. CASE t.hdr # "KeepGoing"
    <3>1. t.trl = "KeepGoing" /\ t.hdr \in {"Waiting", "Completed"} /\ forTrailers /\ ~forHeaders
      BY <1>1, <1>5, <2>2, <2>4, <2>7 DEF CarriesHeaders, ToTrailers
    <3>2. /\ u.hdr = t.hdr /\ u.trl = Progress(f) /\ u.trailers = Append(t.trailers, f)
          /\ t.requestEnd /\ BeginsBlock(t.trailers)
      BY <1>2, <3>1 DEF Orderly
    <3>3. /\ f.eh => WholeBlock(u.trailers)
          /\ ~f.eh => BeginsBlock(u.trailers)
      BY <1>1, <1>5, <3>2, BlockGrows DEF HasEndHeaders
    <3>4. Orderly(u) BY <1>1, <1>2, <2>3, <2>5, <3>1, <3>2, <3>3 DEF Orderly
    <3>5. HeardSoFar(u) = StageAfter(HeardSoFar(t), f)
      BY <1>1, <1>5, <2>5, <3>1, <3>2 DEF HeardSoFar, StageAfter
    <3>. QED BY <1>5, <3>1, <3>4, <3>5 DEF u
  <2>. QED BY <2>6, <2>7
<1>6. CASE ~Deaf(t) /\ f.kind \notin {"HEADERS", "CONTINUATION"}
  <2>1. u.hdr = t.hdr /\ u.trl = t.trl /\ u.trailers = t.trailers /\ u.composited = t.composited
    BY <1>2, <1>6 DEF CarriesHeaders
  <2>2. u.state = "Idle" <=> t.state = "Idle"
    BY <1>1, <1>2, <1>6 DEF NextFromClient, ActiveStates
  <2>3. /\ u.state = "HalfClosedRemote" => u.requestEnd
        /\ t.requestEnd => u.requestEnd
    BY <1>1, <1>2 DEF Orderly, NextFromClient, ActiveStates, HasEndStream
  <2>4. Orderly(u) BY <2>1, <2>2, <2>3 DEF Orderly
  <2>5. CASE f.kind # "DATA"
    <3>1. u.requestEnd = t.requestEnd /\ StageAfter(HeardSoFar(t), f) = HeardSoFar(t)
      BY <1>1, <1>2, <1>6, <2>5 DEF HasEndStream, StageAfter
    <3>2. HeardSoFar(u) = HeardSoFar(t) BY <2>1, <3>1 DEF HeardSoFar
    <3>. QED BY <1>6, <2>1, <2>4, <3>1, <3>2 DEF u
  <2>6. CASE f.kind = "DATA"
    <3>1. /\ HeardSoFar(t) = "body" /\ ~t.requestEnd /\ t.hdr \in {"Waiting", "Completed"}
          /\ t.trl \in {"Initial", "Completed"} /\ t.state # "Idle"
      BY <1>1, <1>6, <2>6 DEF Grammatical, HeardSoFar, Orderly
    <3>2. t.state = "Open" /\ t.trl = "Initial"
      BY <1>1, <1>6, <3>1 DEF Deaf, Orderly
    <3>3. valid BY <2>6, <3>2 DEF valid
    <3>4. u.requestEnd = f.es BY <1>1, <1>2, <2>6, <3>1, <3>3 DEF HasEndStream
    <3>5. HeardSoFar(u) = StageAfter(HeardSoFar(t), f)
      BY <1>1, <2>1, <2>6, <3>1, <3>2, <3>4 DEF HeardSoFar, StageAfter
    <3>. QED BY <1>6, <2>1, <2>4, <3>5 DEF u
  <2>. QED BY <2>5, <2>6
<1>. QED BY <1>3, <1>4, <1>5, <1>6

\* What u hears when it takes the place of t.
Hears(t, u) ==
  /\ Orderly(u)
  /\ Deaf(t) => Deaf(u)
  /\ Deaf(u) \/ HeardSoFar(u) = HeardSoFar(t)

LEMMA HearsReplies ==
  ASSUME NEW s \in Streams, NEW t \in Task, Coherent(s, t), Collected(t), Orderly(t),
         t.phase = "running"
  PROVE  /\ \A size \in Nat : LET u == HandleResponse(s, t, size) IN
              Hears(t, u) /\ u.trl = t.trl
         /\ t.hdr = "Waiting" => \A trailer \in BOOLEAN :
              LET u == HandleDecodedHeaders(s, t, trailer) IN Hears(t, u) /\ t.trl # "Waiting"
         /\ t.trl = "Waiting" => LET u == HandleDecodedTrailers(t) IN
              Hears(t, u) /\ u.phase = "running"
<1>1. ASSUME NEW size \in Nat
      PROVE  LET u == HandleResponse(s, t, size) IN Hears(t, u) /\ u.trl = t.trl
  <2>. DEFINE u == HandleResponse(s, t, size)
  <2>1. /\ u.hdr = t.hdr /\ u.trl = t.trl /\ u.state = t.state /\ u.requestEnd = t.requestEnd
        /\ u.trailers = t.trailers /\ u.composited = t.composited
    BY DEF HandleResponse, Task
  <2>. HIDE DEF u
  <2>2. Hears(t, u) BY <2>1, OrderlySame DEF Hears
  <2>. QED BY <2>1, <2>2 DEF u
<1>2. ASSUME t.hdr = "Waiting", NEW trailer \in BOOLEAN
      PROVE  LET u == HandleDecodedHeaders(s, t, trailer) IN Hears(t, u) /\ t.trl # "Waiting"
  <2>. DEFINE u == HandleDecodedHeaders(s, t, trailer)
  <2>1. /\ u.hdr = "Completed" /\ u.trl = (IF trailer THEN t.trl ELSE "Completed")
        /\ u.state = t.state /\ u.requestEnd = t.requestEnd /\ u.trailers = t.trailers
        /\ trailer => u.composited
    BY DEF HandleDecodedHeaders, Task
  <2>. HIDE DEF u
  <2>2. t.trl # "Waiting" /\ t.trl # "Completed" BY <1>2 DEF Orderly
  <2>3. Orderly(u) BY <1>2, <2>1, <2>2 DEF Orderly
  <2>4. CASE trailer BY <1>2, <2>1, <2>2, <2>3, <2>4 DEF Hears, Deaf, HeardSoFar, u
  <2>5. CASE ~trailer BY <2>1, <2>2, <2>3, <2>5 DEF Hears, Deaf, u
  <2>. QED BY <2>4, <2>5
<1>3. ASSUME t.trl = "Waiting"
      PROVE  LET u == HandleDecodedTrailers(t) IN Hears(t, u) /\ u.phase = "running"
  <2>. DEFINE u == HandleDecodedTrailers(t)
  <2>1. t.composited /\ t.hdr = "Completed" BY <1>3 DEF Orderly
  <2>2. /\ u.hdr = "Completed" /\ u.trl = "Completed" /\ u.state = t.state
        /\ u.requestEnd = t.requestEnd /\ u.trailers = t.trailers /\ u.phase = "running"
    BY <2>1 DEF HandleDecodedTrailers, Task
  <2>. HIDE DEF u
  <2>3. Orderly(u) BY <2>1, <2>2 DEF Orderly
  <2>. QED BY <2>2, <2>3 DEF Hears, Deaf, u
<1>. QED BY <1>1, <1>2, <1>3

LEMMA HearsTop ==
  ASSUME NEW s \in Streams, NEW t \in Task, Coherent(s, t), Collected(t), Orderly(t),
         t.phase = "running"
  PROVE  /\ NeedsHeaders(t) => LET u == AskForHeaders(s, t) IN
              Hears(t, u) /\ t.trl # "Waiting"
         /\ NeedsTrailers(t) => LET u == AskForTrailers(s, t) IN
              Hears(t, u) /\ t.announced /\ t.trl # "Waiting" /\ u.trl = "Waiting"
         /\ NeedsDispatch(t) => LET u == HandOver(s, t) IN
              Hears(t, u) /\ u.trl = t.trl
         /\ NeedsFlush(t) => LET u == Flush(s, t) IN
              Hears(t, u) /\ u.trl = t.trl /\ u.phase = "running"
<1>1. ASSUME NeedsHeaders(t)
      PROVE  LET u == AskForHeaders(s, t) IN Hears(t, u) /\ t.trl # "Waiting"
  <2>. DEFINE u == AskForHeaders(s, t)
  <2>1. t.hdr = "Ready" BY <1>1 DEF NeedsHeaders
  <2>2. /\ u.hdr = "Waiting" /\ u.trl = t.trl /\ u.state = t.state
        /\ u.requestEnd = t.requestEnd /\ u.trailers = t.trailers
    BY DEF AskForHeaders, Task
  <2>. HIDE DEF u
  <2>3. Orderly(u) /\ t.trl # "Waiting" BY <2>1, <2>2 DEF Orderly
  <2>. QED BY <2>1, <2>2, <2>3 DEF Hears, Deaf, HeardSoFar, u
<1>2. ASSUME NeedsTrailers(t)
      PROVE  LET u == AskForTrailers(s, t) IN
               Hears(t, u) /\ t.announced /\ t.trl # "Waiting" /\ u.trl = "Waiting"
  <2>. DEFINE u == AskForTrailers(s, t)
  <2>1. t.requestEnd /\ t.trl = "Ready" /\ t.hdr = "Completed" BY <1>2 DEF NeedsTrailers
  <2>2. t.announced BY <2>1 DEF Coherent
  <2>3. /\ u.hdr = t.hdr /\ u.trl = "Waiting" /\ u.state = t.state
        /\ u.requestEnd = t.requestEnd /\ u.composited = t.composited
    BY <2>2 DEF AskForTrailers, Task
  <2>. HIDE DEF u
  <2>4. Orderly(u) BY <2>1, <2>3 DEF Orderly
  <2>. QED BY <2>1, <2>2, <2>3, <2>4 DEF Hears, Deaf, HeardSoFar, u
<1>3. ASSUME NeedsDispatch(t)
      PROVE  LET u == HandOver(s, t) IN Hears(t, u) /\ u.trl = t.trl
  <2>. DEFINE u == HandOver(s, t)
  <2>1. t.hdr = "Completed" /\ t.trl = "Completed" BY <1>3 DEF NeedsDispatch
  <2>2. /\ u.hdr = t.hdr /\ u.trl = t.trl /\ u.state = t.state
        /\ u.requestEnd = t.requestEnd /\ u.trailers = t.trailers
    BY DEF HandOver, Task
  <2>. HIDE DEF u
  <2>3. Orderly(u) BY <2>1, <2>2 DEF Orderly
  <2>. QED BY <2>1, <2>2, <2>3 DEF Hears, Deaf, u
<1>4. ASSUME NeedsFlush(t)
      PROVE  LET u == Flush(s, t) IN Hears(t, u) /\ u.trl = t.trl /\ u.phase = "running"
  <2>. DEFINE u == Flush(s, t)
              frame == Head(t.pending)
  <2>1. t.requestEnd /\ t.state \in {"HalfClosedRemote", "Closed"}
    BY <1>4 DEF NeedsFlush, Coherent
  <2>2. /\ NextFromMe(t.state, frame) \in {"HalfClosedRemote", "Closed"}
        /\ t.state = "Closed" => NextFromMe(t.state, frame) = "Closed"
    BY <2>1 DEF NextFromMe, ActiveStates
  <2>3. MaySend(t.state, frame) BY <2>1 DEF MaySend
  <2>4. /\ u.state = NextFromMe(t.state, frame) /\ u.hdr = t.hdr /\ u.trl = t.trl
        /\ u.requestEnd = t.requestEnd /\ u.trailers = t.trailers
        /\ u.composited = t.composited /\ u.phase = "running"
    BY <2>3 DEF Flush, Task
  <2>. HIDE DEF u, frame
  <2>5. Orderly(u) BY <2>1, <2>2, <2>4 DEF Orderly
  <2>6. Deaf(t) => Deaf(u) BY <2>2, <2>4 DEF Deaf
  <2>7. HeardSoFar(u) = HeardSoFar(t) BY <2>4 DEF HeardSoFar
  <2>. QED BY <2>4, <2>5, <2>6, <2>7 DEF Hears, u
<1>. QED BY <1>1, <1>2, <1>3, <1>4

-----------------------------------------------------------------------------
(* What is under way about trailers, for each step *)

\* A stream for which no more is under way than before, and whose task is as it
\* was or has only been started.
LEMMA StillAwaited ==
  ASSUME NEW s \in Streams, TrailersAwaited(s),
         OneAtATime("DecodingTrailersRequest", "DecodingTrailersResponse", s)',
         UnderWay("DecodingTrailersRequest", "DecodingTrailersResponse", s)'
           => UnderWay("DecodingTrailersRequest", "DecodingTrailersResponse", s),
         Live(s)' => Live(s),
         Live(s)' /\ task[s].trl = "Waiting" => task'[s].trl = "Waiting"
  PROVE  TrailersAwaited(s)'
<1>1. (Live(s) /\ UnderWay("DecodingTrailersRequest", "DecodingTrailersResponse", s))'
        => task'[s].trl = "Waiting"
  BY DEF TrailersAwaited
<1>. QED BY <1>1 DEF TrailersAwaited

\* A task that comes to its end.
LEMMA OverAwaited ==
  ASSUME NEW s \in Streams, NEW phase \in {"ended", "panicked"}, NEW rest, TypeOK,
         TrailersAwaited(s), Become(s, NewTask(phase), rest), UNCHANGED <<toConn, blocked>>
  PROVE  TrailersAwaited(s)'
<1>. DEFINE Req == "DecodingTrailersRequest"
            Rep == "DecodingTrailersResponse"
<1>1. task'[s] = NewTask(phase) /\ inbox'[s] = <<>> BY DEF Become, NewTask, TypeOK
<1>2. /\ Requests(Req, s)' = Requests(Req, s) /\ Held(Rep, s)' = Held(Rep, s)
      /\ Replies(Rep, s)' = {} /\ ~Asking(Req, s)' /\ ~Live(s)'
  BY <1>1 DEF Requests, Held, Replies, Asking, Live, NewTask
<1>. QED BY <1>2 DEF TrailersAwaited, OneAtATime

\* A task that has a new message to send.
LEMMA NewMessageAwaited ==
  ASSUME NEW s \in Streams, NEW u, TypeOK, TrailersAwaited(s), AtTop(s),
         Become(s, u, inbox[s]), UNCHANGED <<toConn, blocked>>, u.phase = "running",
         u.out # <<>> /\ Head(u.out).type = "DecodingTrailersRequest"
           => task[s].trl # "Waiting" /\ u.trl = "Waiting",
         task[s].trl = "Waiting" => u.trl = "Waiting"
  PROVE  TrailersAwaited(s)'
<1>. DEFINE Req == "DecodingTrailersRequest"
            Rep == "DecodingTrailersResponse"
<1>1. task'[s] = u /\ inbox'[s] = inbox[s] BY DEF Become, TypeOK
<1>2. /\ Requests(Req, s)' = Requests(Req, s) /\ (Held(Rep, s)' <=> Held(Rep, s))
      /\ Replies(Rep, s)' = Replies(Rep, s) /\ ~Asking(Req, s)
      /\ Asking(Req, s)' <=> u.out # <<>> /\ Head(u.out).type = Req
      /\ Live(s) /\ Live(s)'
  BY <1>1 DEF Requests, Held, Replies, Asking, AtTop, Live, Running
<1>3. CASE Asking(Req, s)'
  <2>1. ~UnderWay(Req, Rep, s) BY <1>2, <1>3 DEF TrailersAwaited
  <2>2. OneAtATime(Req, Rep, s)' BY <1>2, <2>1 DEF OneAtATime, UnderWay
  <2>3. task'[s].trl = "Waiting" BY <1>1, <1>2, <1>3
  <2>. QED BY <2>2, <2>3 DEF TrailersAwaited
<1>4. CASE ~Asking(Req, s)'
  <2>1. UnderWay(Req, Rep, s)' => UnderWay(Req, Rep, s) BY <1>2, <1>4 DEF UnderWay
  <2>2. OneAtATime(Req, Rep, s)' BY <1>2, <1>4 DEF TrailersAwaited, OneAtATime
  <2>. QED BY <1>1, <1>2, <2>1, <2>2, StillAwaited
<1>. QED BY <1>3, <1>4

\* A task that has read a message.
LEMMA ReceivedAwaited ==
  ASSUME NEW s \in Streams, NEW u, TypeOK, TrailersAwaited(s), AtTop(s), inbox[s] # <<>>,
         Become(s, u, Tail(inbox[s])), UNCHANGED <<toConn, blocked>>, u.phase = "running",
         u.out # <<>> => Head(u.out).type # "DecodingTrailersRequest",
         Head(inbox[s]).type # "DecodingTrailersResponse" /\ task[s].trl = "Waiting"
           => u.trl = "Waiting"
  PROVE  TrailersAwaited(s)'
<1>. DEFINE Req == "DecodingTrailersRequest"
            Rep == "DecodingTrailersResponse"
<1>1. task'[s] = u /\ inbox'[s] = Tail(inbox[s]) BY DEF Become, TypeOK
<1>2. /\ Requests(Req, s)' = Requests(Req, s) /\ (Held(Rep, s)' <=> Held(Rep, s))
      /\ ~Asking(Req, s)' /\ Live(s) /\ OneAtATime(Req, Rep, s)
  BY <1>1 DEF Requests, Held, Asking, AtTop, Live, Running, TrailersAwaited
<1>3. /\ \A i \in Replies(Rep, s)' : i + 1 \in Replies(Rep, s)
      /\ Head(inbox[s]).type = Rep => 1 \in Replies(Rep, s)
      /\ Replies(Rep, s)' \subseteq Nat /\ 0 \notin Replies(Rep, s)'
  BY <1>1, TakenFromInbox
<1>4. \A i, j \in Replies(Rep, s)' : i = j
  <2>. TAKE i, j \in Replies(Rep, s)'
  <2>1. i \in Nat /\ j \in Nat /\ i + 1 = j + 1 BY <1>2, <1>3 DEF OneAtATime
  <2>. QED BY <2>1
<1>5. Head(inbox[s]).type = Rep => Replies(Rep, s)' = {}
  <2>. SUFFICES ASSUME 1 \in Replies(Rep, s), NEW i \in Replies(Rep, s)' PROVE FALSE
    BY <1>3
  <2>1. i \in Nat /\ i # 0 /\ i + 1 = 1 BY <1>2, <1>3 DEF OneAtATime
  <2>. QED BY <2>1
<1>6. Replies(Rep, s)' # {} => Replies(Rep, s) # {} BY <1>3
<1>7. OneAtATime(Req, Rep, s)' BY <1>2, <1>4, <1>6 DEF OneAtATime
<1>8. UnderWay(Req, Rep, s)' => UnderWay(Req, Rep, s) BY <1>2, <1>6 DEF UnderWay
<1>9. CASE Head(inbox[s]).type = Rep
  <2>1. ~UnderWay(Req, Rep, s)'
    <3>1. Replies(Rep, s) # {} BY <1>3, <1>9
    <3>2. Requests(Req, s) = {} /\ ~Held(Rep, s) BY <1>2, <3>1 DEF OneAtATime
    <3>. QED BY <1>2, <1>5, <1>9, <3>2 DEF UnderWay
  <2>. QED BY <1>7, <2>1 DEF TrailersAwaited
<1>10. CASE Head(inbox[s]).type # Rep
  BY <1>1, <1>2, <1>7, <1>8, <1>10, StillAwaited
<1>. QED BY <1>9, <1>10

\* A task whose message has gone to the channel.
LEMMA SendAwaited ==
  ASSUME NEW s \in Streams, TypeOK, StreamInv(s), TrailersAwaited(s), Send(s),
         UNCHANGED blocked
  PROVE  TrailersAwaited(s)'
<1>. DEFINE Req == "DecodingTrailersRequest"
            Rep == "DecodingTrailersResponse"
            m == Head(task[s].out)
<1>1. /\ task[s] \in Task /\ Coherent(s, task[s]) /\ task[s].out # <<>>
      /\ toConn' = Append(toConn, m) /\ inbox' = inbox
      /\ task' = [task EXCEPT ![s].out = Tail(task[s].out)]
  BY DEF TypeOK, StreamInv, Send
<1>2. m \in ToConnection /\ m.sid = s /\ Tail(task[s].out) = <<>>
  BY <1>1, Single DEF Task, Coherent
<1>3. task'[s] = [task[s] EXCEPT !.out = <<>>] BY <1>1, <1>2 DEF TypeOK
<1>4. task'[s].trl = task[s].trl /\ task'[s].phase = task[s].phase /\ task'[s].out = <<>>
  BY <1>1, <1>3 DEF Task
<1>5. /\ Replies(Rep, s)' = Replies(Rep, s) /\ (Held(Rep, s)' <=> Held(Rep, s))
      /\ Asking(Req, s) <=> m.type = Req
      /\ ~Asking(Req, s)' /\ (Live(s)' <=> Live(s))
  BY <1>1, <1>4 DEF Replies, Held, Asking, Live
<1>6. Requests(Req, s)' = Requests(Req, s) \cup (IF m.type = Req THEN {Len(toConn) + 1} ELSE {})
  <2>. HIDE DEF m
  <2>. QED BY <1>1, <1>2, SentToConnection
<1>7. OneAtATime(Req, Rep, s)' /\ (UnderWay(Req, Rep, s)' => UnderWay(Req, Rep, s))
  BY <1>5, <1>6 DEF TrailersAwaited, OneAtATime, UnderWay
<1>. QED BY <1>4, <1>5, <1>7, StillAwaited

-----------------------------------------------------------------------------
(* A task's own steps *)

\* A stream whose line stays as it is, and whose task hears what it did.
LEMMA FollowsSame ==
  ASSUME NEW s \in Streams, Follows(s), Live(s)' => Live(s) /\ Hears(task[s], task'[s]),
         Line(s)' = Line(s), stage'[s] = stage[s], connUp' => connUp
  PROVE  Follows(s)'
<1>. SUFFICES ASSUME Live(s)' PROVE Orderly(task'[s]) /\ (Deaf(task'[s]) \/ LeadsOn(HeardSoFar(task[s]), s)')
  BY DEF Follows
<1>1. Orderly(task'[s]) /\ (Deaf(task[s]) => Deaf(task'[s]))
      /\ (Deaf(task'[s]) \/ HeardSoFar(task'[s]) = HeardSoFar(task[s]))
  BY DEF Hears
<1>2. Deaf(task[s]) \/ LeadsOn(HeardSoFar(task[s]), s) BY DEF Follows
<1>. DEFINE from == HeardSoFar(task'[s])
<1>3. CASE ~Deaf(task'[s])
  <2>1. from = HeardSoFar(task[s]) /\ LeadsOn(HeardSoFar(task[s]), s) BY <1>1, <1>2, <1>3
  <2>2. PICK to \in Stages : Along(from, Line(s), to) /\ (connUp => to = stage[s])
    BY <2>1 DEF LeadsOn
  <2>3. Along(from, Line(s)', to) /\ (connUp' => to = stage'[s]) BY <2>2
  <2>. QED BY <1>1, <2>3 DEF LeadsOn
<1>. QED BY <1>1, <1>3

\* A task that has read the first message of its line.
LEMMA FollowsReading ==
  ASSUME NEW s \in Streams, TypeOK, Follows(s), Live(s), Line(s) # <<>>,
         Line(s)' = Tail(Line(s)), stage' = stage, connUp' = connUp, Orderly(task'[s]),
         Deaf(task[s]) => Deaf(task'[s]),
         \A via : Heard(HeardSoFar(task[s]), Head(Line(s)), via)
           => Deaf(task'[s]) \/ HeardSoFar(task'[s]) = via
  PROVE  Follows(s)'
<1>. DEFINE from == HeardSoFar(task[s])
            then == HeardSoFar(task'[s])
            line == Line(s)
<1>1. Deaf(task[s]) \/ LeadsOn(from, s) BY DEF Follows
<1>2. line \in Seq(ToStream) BY LineType
<1>3. CASE Deaf(task'[s]) BY <1>3 DEF Follows
<1>4. CASE ~Deaf(task'[s])
  <2>1. PICK to \in Stages : Along(from, line, to) /\ (connUp => to = stage[s])
    BY <1>1, <1>4 DEF LeadsOn
  <2>2. PICK via : Heard(from, Head(line), via) /\ Along(via, Tail(line), to)
    <3>. HIDE DEF line, from
    <3>1. line # <<>> BY DEF line
    <3>. QED BY <1>2, <2>1, <3>1, AlongTail
  <2>3. then = via BY <1>4, <2>2
  <2>4. Along(then, Line(s)', to) /\ (connUp' => to = stage'[s]) BY <2>1, <2>2, <2>3
  <2>. QED BY <2>4 DEF Follows, LeadsOn
<1>. QED BY <1>3, <1>4

\* A message more on the line of a stream.
LEMMA FollowsAppended ==
  ASSUME NEW s \in Streams, TypeOK, Follows(s), NEW m \in ToStream,
         Live(s)' => Live(s) /\ Hears(task[s], task'[s]),
         Line(s)' = Append(Line(s), m), stage'[s] \in Stages, connUp, 
         Heard(stage[s], m, stage'[s])
  PROVE  Follows(s)'
<1>. SUFFICES ASSUME Live(s)' PROVE Orderly(task'[s]) /\ (Deaf(task'[s]) \/ LeadsOn(HeardSoFar(task[s]), s)')
  BY DEF Follows
<1>1. Orderly(task'[s]) /\ (Deaf(task[s]) => Deaf(task'[s]))
      /\ (Deaf(task'[s]) \/ HeardSoFar(task'[s]) = HeardSoFar(task[s]))
  BY DEF Hears
<1>2. Deaf(task[s]) \/ LeadsOn(HeardSoFar(task[s]), s) BY DEF Follows
<1>. DEFINE from == HeardSoFar(task'[s])
            line == Line(s)
<1>3. CASE ~Deaf(task'[s])
  <2>1. from = HeardSoFar(task[s]) /\ LeadsOn(HeardSoFar(task[s]), s) BY <1>1, <1>2, <1>3
  <2>2. Along(from, line, stage[s]) /\ stage[s] \in Stages BY <2>1 DEF LeadsOn, TypeOK
  <2>3. Along(from, Append(line, m), stage'[s])
    <3>1. line \in Seq(ToStream) BY LineType
    <3>. DEFINE to == stage'[s]
    <3>2. to \in Stages /\ Heard(stage[s], m, to) OBVIOUS
    <3>. HIDE DEF line, from, to
    <3>3. Along(from, Append(line, m), to) BY <2>2, <3>1, <3>2, AlongAppended
    <3>. QED BY <3>3 DEF to
  <2>4. Along(from, Line(s)', stage'[s]) BY <2>3
  <2>. QED BY <1>1, <2>4 DEF LeadsOn
<1>. QED BY <1>1, <1>3

LEMMA FirstStays ==
  ASSUME NEW S, NEW line \in Seq(S), line # <<>>, NEW x
  PROVE  /\ Append(line, x) # <<>> /\ Head(Append(line, x)) = Head(line)
         /\ Tail(Append(line, x)) = Append(Tail(line), x)
<1>1. Len(line) \in Nat /\ Len(line) # 0 BY EmptySeq
<1>. QED BY <1>1

LEMMA LineRead ==
  ASSUME TypeOK, NEW s \in Streams, inbox[s] # <<>>, inbox'[s] = Tail(inbox[s]), blocked' = blocked
  PROVE  Line(s) # <<>> /\ Head(Line(s)) = Head(inbox[s]) /\ Line(s)' = Tail(Line(s))
<1>1. inbox[s] \in Seq(ToStream) BY DEF TypeOK
<1>2. ASSUME NEW x
      PROVE  /\ Append(inbox[s], x) # <<>> /\ Head(Append(inbox[s], x)) = Head(inbox[s])
             /\ Tail(Append(inbox[s], x)) = Append(Tail(inbox[s]), x)
  BY <1>1, FirstStays
<1>. QED BY <1>2 DEF Line

\* What a task knows before a step of its own.
LEMMA OwnState ==
  ASSUME TypeOK, TasksInStep, BlocksInStep, TrailersInStep, client = "orderly",
         NEW s \in Streams, Running(s)
  PROVE  /\ task[s] \in Task /\ Coherent(s, task[s]) /\ Collected(task[s]) /\ Orderly(task[s])
         /\ task[s].phase = "running" /\ Live(s) /\ TrailersAwaited(s) /\ Follows(s)
<1>1. /\ task[s] \in Task /\ Coherent(s, task[s]) /\ Collected(task[s])
      /\ TrailersAwaited(s) /\ Follows(s)
  BY DEF TypeOK, TasksInStep, StreamInv, BlocksInStep, BlockInv, TrailersInStep, TrailerInv
<1>2. Live(s) /\ task[s].phase = "running" BY DEF Running, Live
<1>. QED BY <1>1, <1>2 DEF Follows

LEMMA OverTrailers ==
  ASSUME NEW s \in Streams, NEW rest, TypeOK, TrailerInv(s),
         Become(s, NewTask("ended"), rest), UNCHANGED <<toConn, blocked>>
  PROVE  TrailerInv(s)'
<1>1. task'[s].phase = "ended" BY DEF Become, NewTask, TypeOK
<1>2. TrailersAwaited(s)' BY OverAwaited DEF TrailerInv
<1>3. Follows(s)' BY <1>1 DEF Follows, Live
<1>. QED BY <1>1, <1>2, <1>3 DEF TrailerInv

LEMMA TopTrailers ==
  ASSUME TypeOK, TasksInStep, BlocksInStep, TrailersInStep, client = "orderly",
         NEW s \in Streams,
         UNCHANGED <<blocked, stage>>,
         \/ CompositeHeaders(s) \/ CompositeTrailers(s)
         \/ DispatchIfNeeded(s) \/ RespondIfPossible(s)
  PROVE  TrailerInv(s)'
<1>. DEFINE t == task[s]
            Req == "DecodingTrailersRequest"
<1>1. AtTop(s) /\ t.out = <<>> /\ connUp' = connUp /\ toConn' = toConn
  BY DEF CompositeHeaders, CompositeTrailers, DispatchIfNeeded, RespondIfPossible, TopOfLoop,
         AtTop
<1>2. /\ t \in Task /\ Coherent(s, t) /\ Collected(t) /\ Orderly(t)
      /\ t.phase = "running" /\ Live(s) /\ TrailersAwaited(s) /\ Follows(s)
  BY <1>1, OwnState DEF AtTop
<1>3. ASSUME NEW u, Become(s, u, inbox[s]), Hears(t, u), u.phase = "running",
             u.out # <<>> /\ Head(u.out).type = Req => t.trl # "Waiting" /\ u.trl = "Waiting",
             t.trl = "Waiting" => u.trl = "Waiting"
      PROVE  TrailerInv(s)'
  <2>1. task'[s] = u /\ inbox'[s] = inbox[s] BY <1>3 DEF Become, TypeOK
  <2>2. TrailersAwaited(s)' BY <1>1, <1>2, <1>3, NewMessageAwaited
  <2>3. Line(s)' = Line(s) BY <2>1 DEF Line
  <2>4. Follows(s)' BY <1>1, <1>2, <1>3, <2>1, <2>3, FollowsSame
  <2>. QED BY <1>3, <2>1, <2>2, <2>4 DEF TrailerInv
<1>4. CASE CompositeHeaders(s)
  <2>. DEFINE u == AskForHeaders(s, t)
  <2>1. NeedsHeaders(t) /\ Become(s, u, inbox[s]) BY <1>4 DEF CompositeHeaders, TopOfLoop
  <2>2. u.phase = "running" /\ Head(u.out).type = "DecodingHeadersRequest"
    BY <1>1, <1>2, CoherentTop
  <2>3. Hears(t, u) /\ t.trl # "Waiting" BY <1>2, <2>1, HearsTop
  <2>. HIDE DEF u, t
  <2>. QED BY <1>3, <2>1, <2>2, <2>3
<1>5. CASE CompositeTrailers(s)
  <2>. DEFINE u == AskForTrailers(s, t)
  <2>1. NeedsTrailers(t) /\ Become(s, u, inbox[s]) BY <1>5 DEF CompositeTrailers, TopOfLoop
  <2>2. Hears(t, u) /\ t.announced /\ t.trl # "Waiting" /\ u.trl = "Waiting"
    BY <1>2, <2>1, HearsTop
  <2>3. u.phase = "running" BY <1>2, <2>2 DEF AskForTrailers, Task
  <2>. HIDE DEF u, t
  <2>. QED BY <1>3, <2>1, <2>2, <2>3
<1>6. CASE DispatchIfNeeded(s)
  <2>. DEFINE u == HandOver(s, t)
  <2>1. NeedsDispatch(t) /\ Become(s, u, inbox[s]) BY <1>6 DEF DispatchIfNeeded, TopOfLoop
  <2>2. u.phase = "running" /\ Head(u.out).type = "RequestContextForDispatch"
    BY <1>1, <1>2, <2>1, CoherentTop
  <2>3. Hears(t, u) /\ u.trl = t.trl BY <1>2, <2>1, HearsTop
  <2>. HIDE DEF u, t
  <2>. QED BY <1>3, <2>1, <2>2, <2>3
<1>7. CASE RespondIfPossible(s)
  <2>. DEFINE u == Flush(s, t)
  <2>1. NeedsFlush(t) /\ Become(s, u, inbox[s]) BY <1>7 DEF RespondIfPossible, TopOfLoop
  <2>2. u.out # <<>> => Head(u.out).type = "DoResponseToClient"
    BY <1>1, <1>2, <2>1, CoherentTop
  <2>3. Hears(t, u) /\ u.trl = t.trl /\ u.phase = "running" BY <1>2, <2>1, HearsTop
  <2>. HIDE DEF u, t
  <2>. QED BY <1>3, <2>1, <2>2, <2>3
<1>. QED BY <1>4, <1>5, <1>6, <1>7

\* What a task sends after it has read a message asks for nothing.
LEMMA HandledAsks ==
  ASSUME NEW s \in Streams, NEW t \in Task, NEW m \in ToStream, Coherent(s, t), t.out = <<>>,
         t.phase = "running"
  PROVE  LET u == Handle(s, t, m) IN
         u.out # <<>> => Head(u.out).type \in {"Error", "ActiveStreamCount", "DoResponseToClient"}
<1>1. CASE m.type = "FrameForRequest"
  <2>. DEFINE f == m.frame
  <2>1. Handle(s, t, m) = HandleFrame(s, t, f) /\ f \in Frame BY <1>1 DEF Handle, ToStream
  <2>. HIDE DEF f
  <2>. QED BY <2>1, CoherentFrame
<1>2. CASE m.type = "ResponseObject"
  <2>. DEFINE size == m.size
  <2>1. Handle(s, t, m) = HandleResponse(s, t, size) /\ size \in Nat BY <1>2 DEF Handle, ToStream
  <2>. HIDE DEF size
  <2>. QED BY <2>1, CoherentReplies
<1>3. CASE m.type = "DecodingHeadersResponse"
  <2>. DEFINE trailer == m.trailer
  <2>1. Handle(s, t, m) = HandleDecodedHeaders(s, t, trailer) /\ trailer \in BOOLEAN
    BY <1>3 DEF Handle, ToStream
  <2>. HIDE DEF trailer
  <2>. QED BY <2>1, CoherentReplies
<1>4. CASE m.type = "DecodingTrailersResponse"
  <2>1. Handle(s, t, m) = HandleDecodedTrailers(t) BY <1>4 DEF Handle
  <2>. QED BY <2>1, CoherentReplies
<1>. QED BY <1>1, <1>2, <1>3, <1>4 DEF ToStream

LEMMA ReceiveTrailersKeep ==
  ASSUME TypeOK, TasksInStep, BlocksInStep, TrailersInStep, client = "orderly",
         NEW s \in Streams,
         UNCHANGED <<blocked, stage>>, NEW type, Receive(s, type)
  PROVE  TrailerInv(s)'
<1>. DEFINE t == task[s]
            m == Head(inbox[s])
            u == Handle(s, t, m)
<1>1. /\ AtTop(s) /\ t.out = <<>> /\ t.hdr # "Ready" /\ inbox[s] # <<>>
      /\ connUp' = connUp /\ toConn' = toConn /\ Become(s, u, Tail(inbox[s]))
  <2>1. Idle(s) /\ inbox[s] # <<>> /\ UNCHANGED <<toConn, connUp>> /\ Become(s, u, Tail(inbox[s]))
    BY DEF Receive
  <2>. QED BY <2>1 DEF Idle, AtTop, NeedsHeaders
<1>2. /\ t \in Task /\ Coherent(s, t) /\ Collected(t) /\ Orderly(t)
      /\ t.phase = "running" /\ Live(s) /\ TrailersAwaited(s) /\ Follows(s)
  BY <1>1, OwnState DEF AtTop
<1>3. m \in ToStream /\ StreamInv(s) BY <1>1 DEF TypeOK, TasksInStep
<1>4. /\ m.type = "DecodingHeadersResponse" => t.hdr = "Waiting"
      /\ m.type = "DecodingTrailersResponse" => t.trl = "Waiting"
  <2>1. 1 \in 1..Len(inbox[s]) /\ inbox[s][1] = m
    <3>1. inbox[s] \in Seq(ToStream) BY DEF TypeOK
    <3>2. Len(inbox[s]) \in Nat /\ Len(inbox[s]) # 0 BY <1>1, <3>1, EmptySeq
    <3>. QED BY <3>1, <3>2
  <2>2. Replies(m.type, s) # {} BY <2>1 DEF Replies
  <2>. QED BY <1>2, <1>3, <2>2 DEF StreamInv, HeadersAwaited, TrailersAwaited, UnderWay
<1>5. /\ u.phase = "running"
      /\ m.type # "DecodingTrailersResponse" /\ t.trl = "Waiting" => u.trl = "Waiting"
      /\ Orderly(u) /\ (Deaf(t) => Deaf(u))
      /\ \A via : Heard(HeardSoFar(t), m, via) => Deaf(u) \/ HeardSoFar(u) = via
  <2>1. CASE m.type = "FrameForRequest"
    <3>. DEFINE f == m.frame
                v == HandleFrame(s, t, f)
    <3>1. u = v /\ f \in Frame /\ IsFrame(m) BY <1>3, <2>1 DEF Handle, ToStream, IsFrame
    <3>2. v.phase = "running"
      <4>. HIDE DEF t, f
      <4>. QED BY <1>1, <1>2, <3>1, CoherentFrame
    <3>3. ASSUME Deaf(t) \/ Grammatical(HeardSoFar(t), f)
          PROVE  /\ Orderly(v)
                 /\ t.trl = "Waiting" => v.trl = "Waiting"
                 /\ Deaf(v) \/ (~Deaf(t) /\ HeardSoFar(v) = StageAfter(HeardSoFar(t), f))
      <4>. HIDE DEF t, f
      <4>. QED BY <1>1, <1>2, <3>1, <3>3, HearsFrame
    <3>4. Deaf(t) \/ Grammatical(HeardSoFar(t), f)
      <4>1. CASE Deaf(t) BY <4>1
      <4>2. CASE ~Deaf(t)
        <5>1. PICK to \in Stages : Along(HeardSoFar(t), Line(s), to)
          BY <1>2, <4>2 DEF Follows, LeadsOn
        <5>2. Line(s) \in Seq(ToStream) /\ Line(s) # <<>> /\ Head(Line(s)) = m
          <6>1. ASSUME NEW x PROVE Append(inbox[s], x) # <<>> /\ Head(Append(inbox[s], x)) = m
            <7>1. inbox[s] \in Seq(ToStream) BY DEF TypeOK
            <7>. QED BY <1>1, <7>1, FirstStays
          <6>. QED BY <1>1, <6>1, LineType DEF Line
        <5>. DEFINE line == Line(s)
                    from == HeardSoFar(t)
        <5>3. \E via : Heard(from, Head(line), via)
          <6>1. line \in Seq(ToStream) /\ line # <<>> /\ Along(from, line, to) BY <5>1, <5>2
          <6>. HIDE DEF line, from
          <6>. QED BY <6>1, AlongTail
        <5>. QED BY <3>1, <5>2, <5>3 DEF Heard
      <4>. QED BY <4>1, <4>2
    <3>5. /\ Orderly(v)
          /\ t.trl = "Waiting" => v.trl = "Waiting"
          /\ Deaf(v) \/ (~Deaf(t) /\ HeardSoFar(v) = StageAfter(HeardSoFar(t), f))
      BY <3>3, <3>4
    <3>6. \A via : Heard(HeardSoFar(t), m, via) => via = StageAfter(HeardSoFar(t), f)
      BY <3>1 DEF Heard
    <3>. HIDE DEF t, v, u
    <3>. QED BY <3>1, <3>2, <3>5, <3>6
  <2>2. CASE m.type = "ResponseObject"
    <3>. DEFINE size == m.size
                v == HandleResponse(s, t, size)
    <3>1. u = v /\ size \in Nat /\ ~IsFrame(m) BY <1>3, <2>2 DEF Handle, ToStream, IsFrame
    <3>2. v.phase = "running"
      <4>. HIDE DEF t, size
      <4>. QED BY <1>1, <1>2, <3>1, CoherentReplies
    <3>3. Hears(t, v) /\ v.trl = t.trl
      <4>. HIDE DEF t, size
      <4>. QED BY <1>2, <3>1, HearsReplies
    <3>. HIDE DEF t, v, u
    <3>. QED BY <3>1, <3>2, <3>3 DEF Hears, Heard
  <2>3. CASE m.type = "DecodingHeadersResponse"
    <3>. DEFINE trailer == m.trailer
                v == HandleDecodedHeaders(s, t, trailer)
    <3>1. u = v /\ trailer \in BOOLEAN /\ ~IsFrame(m) BY <1>3, <2>3 DEF Handle, ToStream, IsFrame
    <3>2. v.phase = "running"
      <4>. HIDE DEF t, trailer
      <4>. QED BY <1>1, <1>2, <3>1, CoherentReplies
    <3>3. Hears(t, v) /\ t.trl # "Waiting"
      <4>1. t.hdr = "Waiting" BY <1>4, <2>3
      <4>. HIDE DEF t, trailer
      <4>. QED BY <1>2, <3>1, <4>1, HearsReplies
    <3>. HIDE DEF t, v, u
    <3>. QED BY <3>1, <3>2, <3>3 DEF Hears, Heard
  <2>4. CASE m.type = "DecodingTrailersResponse"
    <3>. DEFINE v == HandleDecodedTrailers(t)
    <3>1. u = v /\ ~IsFrame(m) BY <2>4 DEF Handle, IsFrame
    <3>2. Hears(t, v) /\ v.phase = "running"
      <4>1. t.trl = "Waiting" BY <1>4, <2>4
      <4>. HIDE DEF t
      <4>. QED BY <1>2, <4>1, HearsReplies
    <3>. HIDE DEF t, v, u
    <3>. QED BY <2>4, <3>1, <3>2 DEF Hears, Heard
  <2>. QED BY <1>3, <2>1, <2>2, <2>3, <2>4 DEF ToStream
<1>6. u.out # <<>> => Head(u.out).type # "DecodingTrailersRequest"
  BY <1>1, <1>2, <1>3, HandledAsks
<1>7. task'[s] = u /\ inbox'[s] = Tail(inbox[s]) /\ task'[s].phase = "running"
  BY <1>1, <1>5 DEF Become, TypeOK
<1>8. Line(s) # <<>> /\ Head(Line(s)) = m /\ Line(s)' = Tail(Line(s)) BY <1>1, <1>7, LineRead
<1>. HIDE DEF u, t, m
<1>9. TrailersAwaited(s)' BY <1>1, <1>2, <1>5, <1>6, <1>7, ReceivedAwaited DEF t, m
<1>10. Follows(s)' BY <1>1, <1>2, <1>5, <1>7, <1>8, FollowsReading DEF t
<1>. QED BY <1>7, <1>9, <1>10 DEF TrailerInv

\* A stream that a step does not touch.
LEMMA UntouchedTrailers ==
  ASSUME NEW s \in Streams, TrailerInv(s), task'[s] = task[s], inbox'[s] = inbox[s],
         Requests("DecodingTrailersRequest", s)' = Requests("DecodingTrailersRequest", s),
         UNCHANGED <<blocked, stage, connUp>>
  PROVE  TrailerInv(s)'
<1>1. Line(s)' = Line(s) BY DEF Line
<1>2. Live(s) => Hears(task[s], task'[s]) BY DEF TrailerInv, Follows, Hears
<1>3. Live(s)' <=> Live(s) BY DEF Live
<1>4. Follows(s)' BY <1>1, <1>2, <1>3, FollowsSame DEF TrailerInv
<1>5. TrailersAwaited(s)'
  BY <1>3 DEF TrailerInv, TrailersAwaited, OneAtATime, UnderWay, Asking, Held, Replies
<1>. QED BY <1>1, <1>4, <1>5 DEF TrailerInv

LEMMA TaskStepTrailers ==
  ASSUME TypeOK, TasksInStep, BlocksInStep, TrailersInStep, client = "orderly",
         NEW d \in Streams, TaskStep(d)
  PROVE  TrailersInStep'
<1>. SUFFICES ASSUME NEW s \in Streams PROVE TrailerInv(s)' BY DEF TrailersInStep
<1>1. TrailerInv(s) /\ TrailerInv(d) /\ StreamInv(d) /\ StreamStep(d) /\ UNCHANGED <<blocked, stage>>
  BY DEF TrailersInStep, TasksInStep, TaskStep
<1>2. connUp' = connUp
  BY <1>1 DEF StreamStep, CompositeHeaders, CompositeTrailers, DispatchIfNeeded,
       RespondIfPossible, TopOfLoop, ReceiveFrame, ReceiveResponse, ReceiveHeaders,
       ReceiveTrailers, Receive, Terminate, Send, SendFails
<1>3. CASE s = d
  <2>1. CASE \/ CompositeHeaders(s) \/ CompositeTrailers(s)
             \/ DispatchIfNeeded(s) \/ RespondIfPossible(s)
    BY <1>1, <2>1, TopTrailers
  <2>2. CASE \/ ReceiveFrame(s) \/ ReceiveResponse(s) \/ ReceiveHeaders(s) \/ ReceiveTrailers(s)
    BY <1>1, <2>2, ReceiveTrailersKeep
    DEF ReceiveFrame, ReceiveResponse, ReceiveHeaders, ReceiveTrailers
  <2>3. CASE Terminate(s) \/ SendFails(s)
    <3>1. Become(s, NewTask("ended"), <<>>) /\ toConn' = toConn
      BY <2>3 DEF Terminate, SendFails
    <3>. QED BY <1>1, <3>1, OverTrailers
  <2>4. CASE Send(s)
    <3>1. TrailersAwaited(s)' BY <1>1, <1>3, <2>4, SendAwaited DEF TrailerInv
    <3>2. /\ task[s] \in Task /\ inbox' = inbox
          /\ task' = [task EXCEPT ![s].out = Tail(task[s].out)]
      BY <2>4 DEF Send, TypeOK
    <3>. DEFINE t == task[s]
                u == task'[s]
    <3>3. /\ u.hdr = t.hdr /\ u.trl = t.trl /\ u.state = t.state /\ u.requestEnd = t.requestEnd
          /\ u.trailers = t.trailers /\ u.composited = t.composited /\ u.phase = t.phase
      BY <3>2 DEF TypeOK, Task
    <3>4. Live(s) => Orderly(t) BY <1>1 DEF TrailerInv, Follows
    <3>5. Live(s) => Hears(t, u)
      <4>. HIDE DEF t, u
      <4>. QED BY <3>3, <3>4, OrderlySame DEF Hears
    <3>6. Line(s)' = Line(s) BY <1>1, <3>2 DEF Line
    <3>7. Live(s)' <=> Live(s) BY <3>3 DEF Live
    <3>8. Follows(s)' BY <1>1, <1>2, <3>5, <3>6, <3>7, FollowsSame DEF TrailerInv
    <3>. QED BY <1>1, <3>1, <3>3, <3>6, <3>8 DEF TrailerInv
  <2>. QED BY <1>1, <1>3, <2>1, <2>2, <2>3, <2>4 DEF StreamStep
<1>4. CASE s # d
  <2>1. CASE Send(d)
    <3>. DEFINE m == Head(task[d].out)
                Req == "DecodingTrailersRequest"
    <3>1. task'[s] = task[s] /\ inbox'[s] = inbox[s] BY <1>4, <2>1 DEF Send, TypeOK
    <3>2. /\ task[d] \in Task /\ task[d].out # <<>> /\ Coherent(d, task[d])
          /\ toConn' = Append(toConn, m)
      BY <1>1, <2>1 DEF Send, TypeOK, StreamInv
    <3>3. m \in ToConnection /\ m.sid # s BY <1>4, <3>2, Single DEF Task, Coherent
    <3>4. Requests(Req, s)' = Requests(Req, s)
      <4>. HIDE DEF m
      <4>1. Requests(Req, s)' = Requests(Req, s)
              \cup (IF m.type = Req /\ m.sid = s THEN {Len(toConn) + 1} ELSE {})
        BY <3>2, <3>3, SentToConnection DEF TypeOK
      <4>. QED BY <3>3, <4>1
    <3>. QED BY <1>1, <1>2, <3>1, <3>4, UntouchedTrailers
  <2>2. CASE ~Send(d)
    <3>1. toConn' = toConn /\ \E u, rest : Become(d, u, rest)
      BY <1>1, <2>2 DEF StreamStep, CompositeHeaders, CompositeTrailers, DispatchIfNeeded,
           RespondIfPossible, TopOfLoop, ReceiveFrame, ReceiveResponse, ReceiveHeaders,
           ReceiveTrailers, Receive, Terminate, SendFails
    <3>2. task'[s] = task[s] /\ inbox'[s] = inbox[s] BY <1>4, <3>1 DEF Become, TypeOK
    <3>3. \A type : Requests(type, s)' = Requests(type, s) BY <3>1 DEF Requests
    <3>. QED BY <1>1, <1>2, <3>2, <3>3, UntouchedTrailers
  <2>. QED BY <2>1, <2>2
<1>. QED BY <1>3, <1>4

-----------------------------------------------------------------------------
(* The connection's steps *)

\* A task that is started, or left as it is.
LEMMA StartedHears ==
  ASSUME TypeOK, NEW s \in Streams, StreamInv(s), TrailerInv(s),
         task' = task \/ \E d \in Streams : task' = [task EXCEPT ![d] = Started(d)]
  PROVE  /\ Live(s)' => Live(s) /\ Hears(task[s], task'[s])
         /\ task'[s].phase # "panicked"
         /\ task'[s].phase = "absent" => task[s].phase = "absent"
         /\ Live(s)' /\ task[s].trl = "Waiting" => task'[s].trl = "Waiting"
         /\ task'[s].out = task[s].out
<1>1. /\ Coherent(s, task[s]) /\ task[s].phase # "panicked" /\ (Live(s) => Orderly(task[s]))
  BY DEF StreamInv, TrailerInv, Follows
<1>2. CASE task'[s] = task[s] BY <1>1, <1>2 DEF Hears, Live
<1>3. CASE task[s].phase = "absent" /\ task'[s] = NewTask("running")
  <2>1. Live(s) /\ task[s].hdr = "Initial" /\ task[s].out = <<>> /\ Orderly(task[s])
    BY <1>1, <1>3 DEF Live, Coherent
  <2>2. task[s].trl # "Waiting" /\ ~Deaf(task[s]) /\ HeardSoFar(task[s]) = "idle"
    BY <2>1 DEF Orderly, Deaf, HeardSoFar
  <2>3. Hears(task[s], NewTask("running")) BY <2>2, OrderlyNew DEF Hears
  <2>4. NewTask("running").phase = "running" /\ NewTask("running").out = <<>> BY DEF NewTask
  <2>. QED BY <1>3, <2>1, <2>2, <2>3, <2>4
<1>4. task'[s] = task[s] \/ (task[s].phase = "absent" /\ task'[s] = NewTask("running"))
  BY DEF Started, TypeOK
<1>. QED BY <1>2, <1>3, <1>4

\* A stream for which nothing comes under way about trailers.
LEMMA KeptTrailers ==
  ASSUME TypeOK, NEW s \in Streams, StreamInv(s), TrailerInv(s),
         task' = task \/ \E d \in Streams : task' = [task EXCEPT ![d] = Started(d)],
         OneAtATime("DecodingTrailersRequest", "DecodingTrailersResponse", s)',
         UnderWay("DecodingTrailersRequest", "DecodingTrailersResponse", s)'
           => UnderWay("DecodingTrailersRequest", "DecodingTrailersResponse", s),
         task[s].phase = "absent" /\ task'[s].phase = "absent" => Line(s)' = <<>>,
         Follows(s)'
  PROVE  TrailerInv(s)'
<1>1. /\ Live(s)' => Live(s)
      /\ task'[s].phase # "panicked"
      /\ task'[s].phase = "absent" => task[s].phase = "absent"
      /\ Live(s)' /\ task[s].trl = "Waiting" => task'[s].trl = "Waiting"
  BY StartedHears
<1>2. TrailersAwaited(s)' BY <1>1, StillAwaited DEF TrailerInv
<1>. QED BY <1>1, <1>2 DEF TrailerInv

\* Nothing is under way about trailers that was not, if no more of it is in any
\* one place.
LEMMA NoMoreUnderWay ==
  ASSUME NEW request, NEW reply, NEW s, OneAtATime(request, reply, s),
         task'[s].out = task[s].out,
         Requests(request, s)' \in {{}, Requests(request, s)},
         Held(reply, s)' => Held(reply, s), Replies(reply, s)' = Replies(reply, s)
  PROVE  /\ OneAtATime(request, reply, s)'
         /\ UnderWay(request, reply, s)' => UnderWay(request, reply, s)
<1>1. Asking(request, s)' <=> Asking(request, s) BY DEF Asking
<1>. QED BY <1>1 DEF OneAtATime, UnderWay

LEMMA ForwardTrailers ==
  ASSUME TypeOK, TasksInStep, TrailersInStep, client = "orderly",
         NEW d \in Streams, NEW f \in Frames,
         Forward(d, f)
  PROVE  TrailersInStep'
<1>. SUFFICES ASSUME NEW s \in Streams PROVE TrailerInv(s)' BY DEF TrailersInStep
<1>. DEFINE m == [type |-> "FrameForRequest", frame |-> f]
            Req == "DecodingTrailersRequest"
            Rep == "DecodingTrailersResponse"
<1>1. /\ StreamInv(s) /\ TrailerInv(s) /\ connUp /\ connUp' = connUp /\ blocked = <<>>
      /\ inbox' = inbox /\ toConn' = toConn /\ task' = [task EXCEPT ![d] = Started(d)]
      /\ blocked' = <<[to |-> d, msg |-> m]>> /\ Grammatical(stage[d], f)
      /\ stage' = [stage EXCEPT ![d] = StageAfter(stage[d], f)]
  BY DEF TrailersInStep, TasksInStep, Forward, ToTask
<1>2. task' = task \/ \E e \in Streams : task' = [task EXCEPT ![e] = Started(e)] BY <1>1
<1>3. /\ Live(s)' => Live(s) /\ Hears(task[s], task'[s])
      /\ task'[s].out = task[s].out
  BY <1>1, <1>2, StartedHears
<1>4. /\ Requests(Req, s)' = Requests(Req, s) /\ Replies(Rep, s)' = Replies(Rep, s)
      /\ ~Held(Rep, s)'
  BY <1>1 DEF Requests, Replies, Held
<1>5. OneAtATime(Req, Rep, s)' /\ (UnderWay(Req, Rep, s)' => UnderWay(Req, Rep, s))
  <2>1. OneAtATime(Req, Rep, s) BY <1>1 DEF TrailerInv, TrailersAwaited
  <2>. QED BY <1>3, <1>4, <2>1, NoMoreUnderWay
<1>6. Line(s) = inbox[s] BY <1>1 DEF Line
<1>7. CASE s # d
  <2>1. Line(s)' = Line(s) /\ stage'[s] = stage[s] BY <1>1, <1>6, <1>7 DEF Line, TypeOK
  <2>2. Follows(s)' BY <1>1, <1>3, <2>1, FollowsSame DEF TrailerInv
  <2>. QED BY <1>1, <1>2, <1>5, <2>1, <2>2, KeptTrailers DEF TrailerInv
<1>8. CASE s = d
  <2>1. /\ Line(s)' = Append(Line(s), m) /\ stage'[s] = StageAfter(stage[s], f)
        /\ stage'[s] \in Stages
    BY <1>1, <1>6, <1>8, StageType DEF Line, TypeOK
  <2>2. m \in ToStream BY FramesAssumption, ToStreamTypes
  <2>3. Heard(stage[s], m, stage'[s]) BY <1>1, <1>8, <2>1 DEF Heard, IsFrame
  <2>4. Follows(s)'
    <3>. HIDE DEF m
    <3>. QED BY <1>1, <1>3, <2>1, <2>2, <2>3, FollowsAppended DEF TrailerInv
  <2>5. task'[s].phase # "absent" BY <1>1, <1>8 DEF Started, NewTask, TypeOK
  <2>. QED BY <1>1, <1>2, <1>5, <2>4, <2>5, KeptTrailers
<1>. QED BY <1>7, <1>8

\* Nothing is asked for a task that is not there yet.
LEMMA AbsentAsksNothing ==
  ASSUME NEW s \in Streams, StreamInv(s), TrailerInv(s), task[s].phase = "absent"
  PROVE  /\ ~UnderWay("DecodingHeadersRequest", "DecodingHeadersResponse", s)
         /\ ~UnderWay("DecodingTrailersRequest", "DecodingTrailersResponse", s)
<1>1. Live(s) /\ task[s].hdr = "Initial" BY DEF Live, StreamInv, Coherent
<1>2. Orderly(task[s]) BY <1>1 DEF TrailerInv, Follows
<1>. QED BY <1>1, <1>2 DEF StreamInv, HeadersAwaited, TrailerInv, TrailersAwaited, Orderly

\* The connection takes a request for decoding and holds the reply m, or takes
\* any message and holds none.
LEMMA TakeTrailers ==
  ASSUME TypeOK, TasksInStep, TrailersInStep, client = "orderly", NEW type, Take(type),
         NEW m \in ToStream, ~IsFrame(m),
         \/ blocked' = <<>>
         \/ /\ blocked' = ToTask(Head(toConn).sid, m)
            /\ \/ type = "DecodingTrailersRequest"
               \/ type = "DecodingHeadersRequest" /\ m.type # "DecodingTrailersResponse"
  PROVE  TrailersInStep'
<1>. DEFINE Req == "DecodingTrailersRequest"
            Rep == "DecodingTrailersResponse"
            HReq == "DecodingHeadersRequest"
            HRep == "DecodingHeadersResponse"
<1>. SUFFICES ASSUME NEW s \in Streams PROVE TrailerInv(s)' BY DEF TrailersInStep
<1>1. /\ StreamInv(s) /\ TrailerInv(s) /\ connUp /\ connUp' = connUp /\ blocked = <<>>
      /\ toConn # <<>> /\ toConn' = Tail(toConn) /\ Head(toConn).type = type
      /\ task' = task /\ inbox' = inbox /\ stage' = stage
  BY DEF TrailersInStep, TasksInStep, Take
<1>2. OneAtATime(Req, Rep, s) /\ OneAtATime(HReq, HRep, s)
  BY <1>1 DEF TrailerInv, TrailersAwaited, StreamInv
<1>3. /\ \A i, j \in Requests(Req, s)' : i = j
      /\ Requests(Req, s)' # {} => Requests(Req, s) # {}
      /\ type = Req /\ Head(toConn).sid = s => Requests(Req, s) # {} /\ Requests(Req, s)' = {}
  BY <1>1, <1>2, TakenOnce
<1>4. Replies(Rep, s)' = Replies(Rep, s) BY <1>1 DEF Replies
<1>5. /\ Live(s)' => Live(s) /\ Hears(task[s], task'[s])
      /\ task'[s] = task[s] /\ Line(s) = inbox[s]
  BY <1>1, StartedHears DEF Line
<1>6. CASE blocked' = ToTask(s, m) /\ Head(toConn).sid = s /\ type \in {Req, HReq}
  <2>1. /\ Held(Rep, s)' <=> m.type = Rep
        /\ Line(s)' = Append(Line(s), m)
    BY <1>1, <1>5, <1>6 DEF Held, ToTask, Line
  <2>2. Follows(s)'
    <3>1. stage'[s] \in Stages /\ Heard(stage[s], m, stage'[s]) BY <1>1 DEF TypeOK, Heard
    <3>. QED BY <1>1, <1>5, <2>1, <3>1, FollowsAppended DEF TrailerInv
  <2>3. task[s].phase # "absent"
    <3>1. CASE type = Req
      <4>1. UnderWay(Req, Rep, s) BY <1>3, <1>6, <3>1 DEF UnderWay
      <4>. QED BY <1>1, <4>1, AbsentAsksNothing
    <3>2. CASE type = HReq
      <4>1. Requests(HReq, s) # {} BY <1>1, <1>2, <1>6, <3>2, TakenOnce
      <4>2. UnderWay(HReq, HRep, s) BY <4>1 DEF UnderWay
      <4>. QED BY <1>1, <4>2, AbsentAsksNothing
    <3>. QED BY <1>6, <3>1, <3>2
  <2>4. OneAtATime(Req, Rep, s)' /\ (UnderWay(Req, Rep, s)' => UnderWay(Req, Rep, s))
    <3>1. CASE type = Req
      <4>1. Requests(Req, s) # {} /\ Requests(Req, s)' = {} BY <1>3, <1>6, <3>1
      <4>2. Replies(Rep, s)' = {} /\ ~Asking(Req, s)'
        <5>1. Replies(Rep, s) = {} /\ ~Asking(Req, s) BY <1>2, <4>1 DEF OneAtATime
        <5>. QED BY <1>1, <5>1 DEF Replies, Asking
      <4>. QED BY <4>1, <4>2 DEF OneAtATime, UnderWay
    <3>2. CASE type # Req
      <4>1. ~Held(Rep, s)' BY <1>6, <2>1, <3>2 DEF ToTask
      <4>. QED BY <1>2, <1>3, <1>4, <1>5, <4>1, Fewer
    <3>. QED BY <3>1, <3>2
  <2>. QED BY <1>1, <2>2, <2>3, <2>4, KeptTrailers
<1>7. CASE blocked' = <<>> \/ (blocked' = ToTask(Head(toConn).sid, m) /\ Head(toConn).sid # s)
  <2>1. ~Held(Rep, s)' /\ Line(s)' = Line(s) BY <1>1, <1>5, <1>7 DEF Held, ToTask, Line
  <2>2. OneAtATime(Req, Rep, s)' /\ (UnderWay(Req, Rep, s)' => UnderWay(Req, Rep, s))
    BY <1>2, <1>3, <1>4, <1>5, <2>1, Fewer
  <2>3. Follows(s)' BY <1>1, <1>5, <2>1, FollowsSame DEF TrailerInv
  <2>. QED BY <1>1, <2>1, <2>2, <2>3, KeptTrailers DEF TrailerInv
<1>. QED BY <1>6, <1>7

\* What the connection held reaches the inbox, or its task is over.
LEMMA DeliverTrailers ==
  ASSUME TypeOK, TasksInStep, TrailersInStep, client = "orderly", Deliver
  PROVE  TrailersInStep'
<1>. DEFINE Req == "DecodingTrailersRequest"
            Rep == "DecodingTrailersResponse"
            d == Head(blocked).to
<1>. SUFFICES ASSUME NEW s \in Streams PROVE TrailerInv(s)' BY DEF TrailersInStep
<1>1. /\ StreamInv(s) /\ TrailerInv(s) /\ blocked # <<>> /\ blocked' = <<>>
      /\ UNCHANGED <<task, toConn, connUp, stage>>
      /\ IF Running(d) THEN inbox' = [inbox EXCEPT ![d] = Append(@, Head(blocked).msg)]
                       ELSE inbox' = inbox
  BY DEF TrailersInStep, TasksInStep, Deliver
<1>2. OneAtATime(Req, Rep, s)' /\ (UnderWay(Req, Rep, s)' => UnderWay(Req, Rep, s))
  <2>1. OneAtATime(Req, Rep, s) BY <1>1 DEF TrailerInv, TrailersAwaited
  <2>. QED BY <2>1, Delivered
<1>3. Live(s)' => Live(s) /\ Hears(task[s], task'[s]) BY <1>1, StartedHears
<1>4. CASE s # d \/ Running(s)
  <2>1. Line(s)' = Line(s) BY <1>1, <1>4 DEF Line, TypeOK
  <2>2. Follows(s)' BY <1>1, <1>3, <2>1, FollowsSame DEF TrailerInv
  <2>. QED BY <1>1, <1>2, <2>1, <2>2, KeptTrailers DEF TrailerInv
<1>5. CASE s = d /\ ~Running(s)
  <2>1. Line(s) # <<>>
    <3>1. Line(s) = Append(inbox[s], Head(blocked).msg) BY <1>1, <1>5 DEF Line
    <3>2. inbox[s] \in Seq(ToStream) BY DEF TypeOK
    <3>3. ASSUME NEW x PROVE Append(inbox[s], x) # <<>>
      <4>1. Len(inbox[s]) \in Nat /\ Len(Append(inbox[s], x)) = Len(inbox[s]) + 1 BY <3>2
      <4>2. Len(Append(inbox[s], x)) # 0 /\ Len(<<>>) = 0 BY <4>1
      <4>3. ASSUME Append(inbox[s], x) = <<>> PROVE FALSE BY <4>2, <4>3, Zenon
      <4>. QED BY <4>3
    <3>. QED BY <3>1, <3>3
  <2>2. task[s].phase # "absent" BY <1>1, <2>1 DEF TrailerInv
  <2>3. ~Live(s)' BY <1>1, <1>5, <2>2 DEF Live, Running
  <2>4. Follows(s)' BY <2>3 DEF Follows
  <2>. QED BY <1>1, <1>2, <2>2, <2>4, KeptTrailers
<1>. QED BY <1>4, <1>5

\* A response comes before the message that the connection holds, if any.
LEMMA RespondTrailers ==
  ASSUME TypeOK, TasksInStep, TrailersInStep, client = "orderly",
         NEW d \in Streams, NEW size \in Sizes,
         Respond(d, size)
  PROVE  TrailersInStep'
<1>. DEFINE Req == "DecodingTrailersRequest"
            Rep == "DecodingTrailersResponse"
<1>. SUFFICES ASSUME NEW s \in Streams PROVE TrailerInv(s)' BY DEF TrailersInStep
<1>1. PICK m \in ToStream : /\ m.type = "ResponseObject"
                            /\ inbox' = [inbox EXCEPT ![d] = Append(@, m)]
  <2>1. [type |-> "ResponseObject", size |-> size] \in ToStream BY ToStreamTypes, SizesAssumption
  <2>. QED BY <2>1 DEF Respond
<1>2. /\ StreamInv(s) /\ TrailerInv(s) /\ Running(d)
      /\ UNCHANGED <<task, toConn, connUp, blocked, stage>>
  BY DEF TrailersInStep, TasksInStep, Respond
<1>3. CASE s # d
  <2>1. inbox'[s] = inbox[s] BY <1>1, <1>3 DEF TypeOK
  <2>2. Requests(Req, s)' = Requests(Req, s) BY <1>2 DEF Requests
  <2>. QED BY <1>2, <2>1, <2>2, UntouchedTrailers
<1>4. CASE s = d
  <2>1. inbox'[s] = Append(inbox[s], m) /\ inbox[s] \in Seq(ToStream) BY <1>1, <1>4 DEF TypeOK
  <2>2. Replies(Rep, s)' = Replies(Rep, s)
    <3>1. Replies(Rep, s)' = Replies(Rep, s) \cup
            (IF m.type = Rep THEN {Len(inbox[s]) + 1} ELSE {})
      BY <2>1, PutInInbox
    <3>. QED BY <1>1, <3>1
  <2>3. OneAtATime(Req, Rep, s)' /\ (UnderWay(Req, Rep, s)' => UnderWay(Req, Rep, s))
    <3>1. OneAtATime(Req, Rep, s) BY <1>2 DEF TrailerInv, TrailersAwaited
    <3>2. /\ Requests(Req, s)' = Requests(Req, s) /\ (Held(Rep, s)' => Held(Rep, s))
          /\ task'[s].out = task[s].out
      BY <1>2 DEF Requests, Held
    <3>. QED BY <2>2, <3>1, <3>2, NoMoreUnderWay
  <2>4. task'[s].phase # "absent" BY <1>2, <1>4 DEF Running
  <2>5. ASSUME NEW from \in Stages, LeadsOn(from, s)
        PROVE  \E to \in Stages : Along(from, Line(s)', to) /\ (connUp => to = stage[s])
    <3>1. PICK to \in Stages : Along(from, Line(s), to) /\ (connUp => to = stage[s])
      BY <2>5 DEF LeadsOn
    <3>. DEFINE line == inbox[s]
                more == Append(line, m)
    <3>2. line \in Seq(ToStream) /\ more \in Seq(ToStream) BY <2>1, Appended
    <3>3. ASSUME NEW via \in Stages, Along(from, line, via) PROVE Along(from, more, via)
      <4>1. Heard(via, m, via) BY <1>1 DEF Heard, IsFrame
      <4>. HIDE DEF line
      <4>. QED BY <3>2, <3>3, <4>1, AlongAppended
    <3>4. CASE ~(blocked # <<>> /\ Head(blocked).to = s)
      <4>1. Line(s) = line /\ Line(s)' = more BY <1>2, <2>1, <3>4 DEF Line
      <4>. QED BY <3>1, <3>3, <4>1
    <3>5. CASE blocked # <<>> /\ Head(blocked).to = s
      <4>. DEFINE held == Head(blocked).msg
      <4>1. /\ Line(s) = Append(line, held) /\ Line(s)' = Append(more, held)
            /\ held \in ToStream
        BY <1>2, <2>1, <3>5, LineType DEF Line
      <4>2. Along(from, Append(line, held), to) BY <3>1, <4>1
      <4>. HIDE DEF line, held, more
      <4>3. PICK via \in Stages : Along(from, line, via) /\ Heard(via, held, to)
        BY <3>2, <4>1, <4>2, AlongAppended
      <4>4. Along(from, more, via) BY <3>3, <4>3
      <4>5. Along(from, Append(more, held), to) BY <3>2, <4>1, <4>3, <4>4, AlongAppended
      <4>. QED BY <3>1, <4>1, <4>5
    <3>. QED BY <3>4, <3>5
  <2>6. Follows(s)'
    <3>. DEFINE from == HeardSoFar(task[s])
    <3>1. Live(s) /\ task' = task /\ connUp' = connUp /\ stage' = stage BY <1>2, <1>4 DEF Live, Running
    <3>2. Orderly(task[s]) /\ (Deaf(task[s]) \/ LeadsOn(from, s))
      BY <1>2, <3>1 DEF TrailerInv, Follows
    <3>3. from \in Stages BY HeardType
    <3>4. LeadsOn(from, s)
            => \E to \in Stages : Along(from, Line(s)', to) /\ (connUp => to = stage[s])
      BY <2>5, <3>3
    <3>. QED BY <3>1, <3>2, <3>4 DEF Follows, LeadsOn
  <2>. QED BY <1>2, <2>3, <2>4, <2>6, KeptTrailers
<1>. QED BY <1>3, <1>4

LEMMA Shortened ==
  ASSUME TypeOK, NEW s \in Streams, NEW from \in Stages, LeadsOn(from, s)
  PROVE  \E to \in Stages : Along(from, inbox[s], to)
<1>. DEFINE line == inbox[s]
<1>1. line \in Seq(ToStream) BY DEF TypeOK
<1>2. PICK to \in Stages : Along(from, Line(s), to) BY DEF LeadsOn
<1>3. CASE Line(s) = line BY <1>2, <1>3
<1>4. CASE Line(s) # line
  <2>. DEFINE m == Head(blocked).msg
  <2>1. Line(s) = Append(line, m) /\ m \in ToStream BY <1>4, LineType DEF Line
  <2>. HIDE DEF line, m
  <2>2. Along(from, Append(line, m), to) BY <1>2, <2>1
  <2>3. \E via \in Stages : Along(from, line, via) BY <1>1, <2>1, <2>2, AlongAppended
  <2>. QED BY <2>3 DEF line
<1>. QED BY <1>3, <1>4

\* The connection starts a task, cancels some, or ends: what it holds is lost
\* only with the connection, and no frame follows then.
LEMMA QuietTrailers ==
  ASSUME TypeOK, TasksInStep, TrailersInStep, client = "orderly",
         inbox' = inbox, stage' = stage,
         task' = task \/ \E d \in Streams : task' = [task EXCEPT ![d] = Started(d)],
         \/ UNCHANGED <<toConn, blocked, connUp>>
         \/ toConn' = <<>> /\ blocked' = <<>> /\ connUp' = FALSE
  PROVE  TrailersInStep'
<1>. DEFINE Req == "DecodingTrailersRequest"
            Rep == "DecodingTrailersResponse"
<1>. SUFFICES ASSUME NEW s \in Streams PROVE TrailerInv(s)' BY DEF TrailersInStep
<1>1. StreamInv(s) /\ TrailerInv(s) BY DEF TrailersInStep, TasksInStep
<1>2. /\ Live(s)' => Live(s) /\ Hears(task[s], task'[s])
      /\ task'[s].out = task[s].out
  BY <1>1, StartedHears
<1>3. OneAtATime(Req, Rep, s)' /\ (UnderWay(Req, Rep, s)' => UnderWay(Req, Rep, s))
  <2>1. OneAtATime(Req, Rep, s) BY <1>1 DEF TrailerInv, TrailersAwaited
  <2>2. /\ Requests(Req, s)' \in {{}, Requests(Req, s)} /\ (Held(Rep, s)' => Held(Rep, s))
        /\ Replies(Rep, s)' = Replies(Rep, s)
    BY DEF Requests, Held, Replies
  <2>. QED BY <1>2, <2>1, <2>2, NoMoreUnderWay
<1>4. CASE UNCHANGED <<blocked, connUp>>
  <2>1. Line(s)' = Line(s) BY <1>4 DEF Line
  <2>2. Follows(s)' BY <1>1, <1>2, <1>4, <2>1, FollowsSame DEF TrailerInv
  <2>. QED BY <1>1, <1>3, <2>1, <2>2, KeptTrailers DEF TrailerInv
<1>5. CASE blocked' = <<>> /\ connUp' = FALSE
  <2>1. Line(s)' = inbox[s] BY <1>5 DEF Line
  <2>2. task[s].phase = "absent" => Line(s)' = <<>>
    <3>1. ~Running(s) => inbox[s] = <<>> BY <1>1 DEF StreamInv
    <3>. QED BY <2>1, <3>1 DEF Running
  <2>3. Follows(s)'
    <3>. SUFFICES ASSUME Live(s)' PROVE Follows(s)' BY DEF Follows
    <3>. DEFINE from == HeardSoFar(task[s])
    <3>1. Live(s) /\ Hears(task[s], task'[s]) BY <1>2
    <3>2. Deaf(task[s]) \/ LeadsOn(from, s) BY <1>1, <3>1 DEF TrailerInv, Follows
    <3>3. LeadsOn(from, s) => \E to \in Stages : Along(from, Line(s)', to)
      BY <2>1, HeardType, Shortened
    <3>4. Orderly(task'[s]) /\ (Deaf(task[s]) => Deaf(task'[s]))
          /\ (Deaf(task'[s]) \/ HeardSoFar(task'[s]) = from)
      BY <3>1 DEF Hears
    <3>. HIDE DEF from
    <3>. QED BY <1>5, <3>2, <3>3, <3>4 DEF Follows, LeadsOn
  <2>. QED BY <1>1, <1>3, <2>2, <2>3, KeptTrailers
<1>. QED BY <1>4, <1>5

-----------------------------------------------------------------------------
(* Trailers stay in step, and no task panics *)

LEMMA TrailersInStepInit == Init => TrailersInStep
<1>. SUFFICES ASSUME Init, NEW s \in Streams PROVE TrailerInv(s) BY DEF TrailersInStep
<1>1. /\ task[s] = NewTask("absent") /\ inbox[s] = <<>> /\ toConn = <<>> /\ blocked = <<>>
      /\ stage[s] = "idle"
  BY DEF Init, StreamInit
<1>2. NewTask("absent").phase = "absent" /\ NewTask("absent").out = <<>> BY DEF NewTask
<1>3. Line(s) = <<>> BY <1>1 DEF Line
<1>4. TrailersAwaited(s)
  BY <1>1, <1>2 DEF TrailersAwaited, UnderWay, OneAtATime, Asking, Requests, Held, Replies
<1>5. Follows(s)
  <2>1. "idle" \in Stages BY DEF Stages
  <2>2. LeadsOn("idle", s) BY <1>1, <1>3, <2>1, AlongEmpty DEF LeadsOn
  <2>. QED BY <1>1, <2>2, OrderlyNew DEF Follows
<1>. QED BY <1>1, <1>2, <1>3, <1>4, <1>5 DEF TrailerInv

LEMMA ClientStays == [Next]_contractVars => client' = client
BY DEF Next, Forwarding, OtherStep, contractVars, Forward, TaskStep, Start, GiveUp, Respond,
       Cancel, Disconnect, DecodeHeaders, DecodeTrailers, AcceptDispatch, TakeOther, Take,
       Deliver

LEMMA TrailersInStepStep ==
  TypeOK /\ TasksInStep /\ BlocksInStep /\ TrailersInStep /\ [Next]_contractVars
    => TrailersInStep'
<1>. SUFFICES ASSUME TypeOK, TasksInStep, BlocksInStep, TrailersInStep, [Next]_contractVars,
                     client = "orderly"
              PROVE  TrailersInStep'
  BY ClientStays DEF TrailersInStep
<1>1. ASSUME NEW d \in Streams, NEW f \in Frames, Forward(d, f) PROVE TrailersInStep'
  BY <1>1, ForwardTrailers
<1>2. ASSUME NEW d \in Streams, TaskStep(d) PROVE TrailersInStep' BY <1>2, TaskStepTrailers
<1>3. ASSUME NEW d \in Streams, Start(d) PROVE TrailersInStep' BY <1>3, QuietTrailers DEF Start
<1>4. ASSUME NEW d \in Streams, GiveUp(d) PROVE TrailersInStep'
  BY <1>4, QuietTrailers DEF GiveUp, streamVars
<1>5. ASSUME NEW d \in Streams, NEW size \in Sizes, Respond(d, size) PROVE TrailersInStep'
  BY <1>5, RespondTrailers
<1>6. ASSUME NEW S, Cancel(S) PROVE TrailersInStep' BY <1>6, QuietTrailers DEF Cancel
<1>7. ASSUME NEW S, Disconnect(S) PROVE TrailersInStep' BY <1>7, QuietTrailers DEF Disconnect
<1>8. CASE UNCHANGED contractVars BY <1>8, QuietTrailers DEF contractVars, streamVars
<1>. DEFINE decoded(trailer) == [type |-> "DecodingHeadersResponse", trailer |-> trailer]
            done == [type |-> "DecodingTrailersResponse"]
<1>9. /\ done \in ToStream /\ ~IsFrame(done)
      /\ \A trailer \in BOOLEAN : /\ decoded(trailer) \in ToStream /\ ~IsFrame(decoded(trailer))
                                  /\ decoded(trailer).type # "DecodingTrailersResponse"
  BY ToStreamTypes DEF IsFrame
<1>10. CASE DecodeHeaders
  <2>1. /\ Take("DecodingHeadersRequest")
        /\ \/ blocked' = <<>>
           \/ \E trailer \in BOOLEAN : blocked' = ToTask(Head(toConn).sid, decoded(trailer))
    BY <1>10 DEF DecodeHeaders
  <2>2. CASE blocked' = <<>>
    <3>. HIDE DEF done
    <3>. QED BY <1>9, <2>1, <2>2, TakeTrailers
  <2>3. ASSUME NEW trailer \in BOOLEAN, blocked' = ToTask(Head(toConn).sid, decoded(trailer))
        PROVE  TrailersInStep'
    <3>. DEFINE m == decoded(trailer)
    <3>1. m \in ToStream /\ ~IsFrame(m) /\ m.type # "DecodingTrailersResponse"
          /\ blocked' = ToTask(Head(toConn).sid, m)
      BY <1>9, <2>3
    <3>. HIDE DEF m
    <3>. QED BY <2>1, <3>1, TakeTrailers
  <2>. QED BY <2>1, <2>2, <2>3
<1>11. CASE DecodeTrailers
  <2>1. Take("DecodingTrailersRequest") /\ blocked' \in {<<>>, ToTask(Head(toConn).sid, done)}
    BY <1>11 DEF DecodeTrailers
  <2>. HIDE DEF done
  <2>. QED BY <1>9, <2>1, TakeTrailers
<1>12. CASE AcceptDispatch \/ TakeOther
  <2>1. PICK type : Take(type) /\ blocked' = blocked BY <1>12 DEF AcceptDispatch, TakeOther
  <2>2. blocked' = <<>> BY <2>1 DEF Take
  <2>. HIDE DEF done
  <2>. QED BY <1>9, <2>1, <2>2, TakeTrailers
<1>13. CASE Deliver BY <1>13, DeliverTrailers
<1>. QED BY <1>1, <1>2, <1>3, <1>4, <1>5, <1>6, <1>7, <1>8, <1>10, <1>11, <1>12, <1>13
  DEF Next, Forwarding, OtherStep

LEMMA TrailersStaySound ==
  ASSUME TypeOK, TasksInStep, BlocksInStep, TrailersInStep, client = "orderly",
         NEW d \in Streams, TaskStep(d),
         ~Send(d)
  PROVE  SoundAll("DecodingTrailersRequest", task'[d].out)
<1>. DEFINE t == task[d]
            Req == "DecodingTrailersRequest"
<1>1. StreamStep(d) /\ TypeOK' BY TaskStepType DEF TaskStep, TypeOK
<1>2. ASSUME NEW u, NEW rest, Become(d, u, rest) PROVE task'[d] = u
  BY <1>2 DEF Become, TypeOK
<1>3. Running(d)
  BY <1>1 DEF StreamStep, CompositeHeaders, CompositeTrailers, DispatchIfNeeded,
       RespondIfPossible, TopOfLoop, ReceiveFrame, ReceiveResponse, ReceiveHeaders,
       ReceiveTrailers, Receive, Terminate, Send, SendFails, Idle, AtTop
<1>4. /\ t \in Task /\ Coherent(d, t) /\ Collected(t) /\ Orderly(t) /\ t.phase = "running"
  BY <1>3, OwnState
<1>5. ASSUME NEW u, task'[d] = u, Coherent(d, u), u.out # <<>> => Head(u.out).type # Req
      PROVE  SoundAll(Req, u.out)
  <2>1. u.out \in Seq(ToConnection) /\ Len(u.out) <= 1 BY <1>1, <1>5 DEF TypeOK, Task, Coherent
  <2>. QED BY <1>5, <2>1 DEF SoundAll, Sound
<1>6. CASE CompositeTrailers(d)
  <2>1. AtTop(d) /\ NeedsTrailers(t) /\ task'[d] = AskForTrailers(d, t)
    BY <1>2, <1>6 DEF CompositeTrailers, TopOfLoop
  <2>2. t.announced /\ WholeBlock(t.trailers)
    BY <1>4, <2>1, HearsTop DEF NeedsTrailers, Orderly
  <2>. DEFINE m == DecodeRequest(Req, d, t.trailers)
  <2>3. Sound(Req, m) BY <2>2 DEF Sound, DecodeRequest
  <2>4. task'[d].out = <<m>> BY <1>4, <2>1, <2>2 DEF AskForTrailers, Task
  <2>. HIDE DEF m
  <2>. QED BY <2>3, <2>4 DEF SoundAll
<1>7. CASE CompositeHeaders(d) \/ DispatchIfNeeded(d) \/ RespondIfPossible(d)
  <2>1. AtTop(d) /\ t.out = <<>>
    BY <1>7 DEF CompositeHeaders, DispatchIfNeeded, RespondIfPossible, TopOfLoop, AtTop
  <2>2. CASE CompositeHeaders(d)
    <3>. DEFINE u == AskForHeaders(d, t)
    <3>1. task'[d] = u BY <1>2, <2>2 DEF CompositeHeaders, TopOfLoop
    <3>2. Coherent(d, u) /\ Head(u.out).type = "DecodingHeadersRequest"
      BY <1>4, <2>1, CoherentTop
    <3>. HIDE DEF u
    <3>. QED BY <1>5, <3>1, <3>2
  <2>3. CASE DispatchIfNeeded(d)
    <3>. DEFINE u == HandOver(d, t)
    <3>1. NeedsDispatch(t) /\ task'[d] = u BY <1>2, <2>3 DEF DispatchIfNeeded, TopOfLoop
    <3>2. Coherent(d, u) /\ Head(u.out).type = "RequestContextForDispatch"
      BY <1>4, <2>1, <3>1, CoherentTop
    <3>. HIDE DEF u
    <3>. QED BY <1>5, <3>1, <3>2
  <2>4. CASE RespondIfPossible(d)
    <3>. DEFINE u == Flush(d, t)
    <3>1. NeedsFlush(t) /\ task'[d] = u BY <1>2, <2>4 DEF RespondIfPossible, TopOfLoop
    <3>2. Coherent(d, u) /\ (u.out # <<>> => Head(u.out).type = "DoResponseToClient")
      BY <1>4, <2>1, <3>1, CoherentTop
    <3>. HIDE DEF u
    <3>. QED BY <1>5, <3>1, <3>2
  <2>. QED BY <1>7, <2>2, <2>3, <2>4
<1>8. ASSUME NEW type, Receive(d, type) PROVE SoundAll(Req, task'[d].out)
  <2>. DEFINE m == Head(inbox[d])
              u == Handle(d, t, m)
  <2>1. t.out = <<>> /\ m \in ToStream /\ task'[d] = u
    <3>1. Idle(d) /\ inbox[d] # <<>> /\ Become(d, u, Tail(inbox[d])) BY <1>8 DEF Receive
    <3>2. inbox[d] \in Seq(ToStream) BY DEF TypeOK
    <3>. QED BY <1>2, <3>1, <3>2 DEF Idle, AtTop
  <2>2. u.out # <<>> => Head(u.out).type # Req BY <1>4, <2>1, HandledAsks
  <2>3. Coherent(d, u)
    <3>1. StreamInv(d)' BY TaskStepKeeps DEF TasksInStep
    <3>. QED BY <2>1, <3>1 DEF StreamInv
  <2>. HIDE DEF u
  <2>. QED BY <1>5, <2>1, <2>2, <2>3
<1>9. CASE \/ ReceiveFrame(d) \/ ReceiveResponse(d) \/ ReceiveHeaders(d) \/ ReceiveTrailers(d)
  BY <1>8, <1>9 DEF ReceiveFrame, ReceiveResponse, ReceiveHeaders, ReceiveTrailers
<1>10. CASE Terminate(d) \/ SendFails(d)
  <2>1. SoundAll(Req, NewTask("ended").out) BY DEF NewTask, SoundAll
  <2>. QED BY <1>2, <1>10, <2>1 DEF Terminate, SendFails
<1>. QED BY <1>1, <1>6, <1>7, <1>9, <1>10 DEF StreamStep

\* If the client keeps to the grammar of a request, every task knows where in its
\* request the client is once it has read what is under way, or hears no more of it.
THEOREM TrailersStayInStep == Spec => []TrailersInStep
<1>1. Init => TrailersInStep BY TrailersInStepInit
<1>2. TypeOK /\ TasksInStep /\ BlocksInStep /\ TrailersInStep /\ [Next]_contractVars
        => TrailersInStep'
  BY TrailersInStepStep
<1>. QED BY <1>1, <1>2, TypeCorrect, StaysInStep, BlocksStayInStep, PTL DEF Spec

\* composited_header, unwrapped when decoded trailers come back, is there: with a
\* client that keeps to the grammar no stream task panics.
THEOREM NeverPanics == Spec => []NoPanic
<1>1. TrailersInStep => NoPanic BY DEF TrailersInStep, TrailerInv, NoPanic
<1>. QED BY <1>1, TrailersStayInStep, PTL

\* With such a client, trailers reach the decoder as one whole block, one request
\* or reply about them is under way at a time, and the reply finds its task waiting.
THEOREM TrailersDecodedInOrder == Spec => []TrailersInOrder
<1>. DEFINE Whole == client = "orderly" => WholeTrailerBlocks
<1>1. Init => Whole BY BlocksAreWholeInit DEF WholeTrailerBlocks
<1>2. TypeOK /\ TasksInStep /\ BlocksInStep /\ TrailersInStep /\ Whole /\ [Next]_contractVars
        => Whole'
  <2>. SUFFICES ASSUME TypeOK, TasksInStep, BlocksInStep, TrailersInStep, Whole,
                       [Next]_contractVars, client = "orderly"
                PROVE  WholeTrailerBlocks'
    BY ClientStays
  <2>. QED BY TrailersStaySound, BlocksStayWhole DEF WholeTrailerBlocks
<1>3. TrailersInStep /\ client = "orderly" => TrailerDecoderInStep
  <2>. SUFFICES ASSUME TrailersInStep, client = "orderly", NEW s \in Streams
                PROVE  InStep("DecodingTrailersRequest", "DecodingTrailersResponse", s)
    BY DEF TrailerDecoderInStep
  <2>1. TrailersAwaited(s) BY DEF TrailersInStep, TrailerInv
  <2>2. Running(s) => Live(s) BY DEF Running, Live
  <2>. QED BY <2>1, <2>2 DEF InStep, TrailersAwaited
<1>4. TrailersInStep /\ Whole => TrailersInOrder BY <1>3 DEF TrailersInOrder
<1>. HIDE DEF Whole
<1>. QED BY <1>1, <1>2, <1>4, TrailersStayInStep, TypeCorrect, StaysInStep, BlocksStayInStep,
            PTL DEF Spec
=============================================================================
