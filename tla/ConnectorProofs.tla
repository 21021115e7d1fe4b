---------------------------- MODULE ConnectorProofs ----------------------------
(***************************************************************************)
(* Proofs about the task of a connection (NetworkConnector.tla), for every *)
(* set of requests, of any number.                                         *)
(***************************************************************************)
EXTENDS ConnectorProperties, TLAPS, FiniteSetTheorems, SequenceTheorems

-----------------------------------------------------------------------------
(* The reader *)

\* What has arrived is there to be read, and the next line follows it.
LEMMA ReadableLine ==
  ASSUME TypeOK, NEW p \in [req : Nat \ {0}, line : Nat \ {0}], Standing(p), Arrived(p)
  PROVE  /\ p.req \in 1..Len(sent)
         /\ p.line \in 1..Len(sent[p.req].lines)
         /\ sent[p.req] \in Requests
         /\ PartAt(p) \in Part
         /\ Piece(p) \in Pieces
         /\ After(p) \in [req : Nat \ {0}, line : Nat \ {0}]
         /\ Standing(After(p))
<1>1. p.req \in 1..Len(sent)
  BY DEF TypeOK, Standing, Arrived
<1>2. sent[p.req] \in Requests
  BY <1>1 DEF TypeOK
<1>3. sent[p.req].lines \in Seq(Part)
  BY <1>2, RequestsAssumption
<1>4. p.line \in 1..Len(sent[p.req].lines)
  BY <1>1, <1>3 DEF Standing
<1>5. PartAt(p) \in Part
  BY <1>3, <1>4 DEF PartAt
<1>6. Piece(p) \in Pieces
  BY <1>5 DEF Piece, Pieces
<1>7. After(p) \in [req : Nat \ {0}, line : Nat \ {0}]
  BY <1>1, <1>3 DEF After
<1>8. Standing(After(p))
  <2>1. CASE p.line < Len(sent[p.req].lines)
    BY <2>1, <1>1, <1>3 DEF After, Standing
  <2>2. CASE ~(p.line < Len(sent[p.req].lines)) /\ p.req < Len(sent)
    <3>1. After(p) = [req |-> p.req + 1, line |-> 1]
      BY <2>2 DEF After
    <3>2. sent[p.req + 1] \in Requests
      BY <2>2, <1>1 DEF TypeOK
    <3>3. sent[p.req + 1].lines \in Seq(Part) /\ sent[p.req + 1].lines # <<>>
      BY <3>2, RequestsAssumption
    <3>4. Len(sent[p.req + 1].lines) >= 1
      BY <3>3
    <3> QED
      BY <3>1, <3>4, <2>2, <1>1 DEF Standing
  <2>3. CASE ~(p.line < Len(sent[p.req].lines)) /\ ~(p.req < Len(sent))
    BY <2>3, <1>1 DEF After, Standing, TypeOK
  <2> QED
    BY <2>1, <2>2, <2>3
<1> QED
  BY <1>1, <1>2, <1>4, <1>5, <1>6, <1>7, <1>8

\* A line is one piece, or octets and the line they are read with.
LEMMA ReadableJoin ==
  ASSUME TypeOK, HasLine(pos)
  PROVE  /\ Line(pos) \in Seq(Pieces) /\ Len(Line(pos)) \in {1, 2}
         /\ PartAt(pos) \in Part
         /\ Beyond(pos) \in [req : Nat \ {0}, line : Nat \ {0}]
         /\ Standing(Beyond(pos))
<1>1. pos \in [req : Nat \ {0}, line : Nat \ {0}] /\ Standing(pos) /\ Arrived(pos)
  BY DEF TypeOK, HasLine
<1>2. /\ Piece(pos) \in Pieces /\ PartAt(pos) \in Part
      /\ After(pos) \in [req : Nat \ {0}, line : Nat \ {0}] /\ Standing(After(pos))
  BY <1>1, ReadableLine
<1>3. CASE Joined(pos)
  <2>1. Arrived(After(pos))
    BY <1>3 DEF HasLine
  <2>2. /\ Piece(After(pos)) \in Pieces
        /\ After(After(pos)) \in [req : Nat \ {0}, line : Nat \ {0}]
        /\ Standing(After(After(pos)))
    BY <1>2, <2>1, ReadableLine
  <2> QED
    BY <1>2, <1>3, <2>2 DEF Line, Beyond
<1>4. CASE ~Joined(pos)
  BY <1>2, <1>4 DEF Line, Beyond
<1> QED
  BY <1>3, <1>4

-----------------------------------------------------------------------------
(* Types *)

\* The first word of the preface and the first empty line of acc are there to
\* be chosen, when there is any.
FirstWordFound(read) ==
  \/ \A i \in DOMAIN read : read[i].part = "blank"
  \/ \E i \in DOMAIN read :
       read[i].part # "blank" /\ \A j \in 1..(i - 1) : read[j].part = "blank"

FirstBlankFound(lines) ==
  \/ \A i \in DOMAIN lines : lines[i] # "blank"
  \/ \E i \in DOMAIN lines : lines[i] = "blank" /\ \A j \in 1..(i - 1) : lines[j] # "blank"

\* Which request a task serves, and which it has served.
Tracked ==
  /\ \A i \in DOMAIN preface : preface[i].of <= Len(sent)
  /\ \A i \in DOMAIN dispatched : dispatched[i].of <= Len(sent)
  /\ at \in {"headers", "body"} /\ HasThreeWords(preface) => HasMethod(preface)
  /\ at = "body" => Terminated(acc)
  /\ at = "dispatching" =>
       dispatched # <<>> /\ sent[dispatched[Len(dispatched)].of].method # "unknown"

Parsed == FirstWordFound(preface) /\ FirstBlankFound(acc) /\ Tracked

LEMMA FirstWordIsOne ==
  ASSUME NEW read \in Seq(Pieces), FirstWordFound(read), HasThreeWords(read)
  PROVE  \E i \in DOMAIN read : FirstWord(read) = read[i] /\ FirstWord(read) \in Pieces
<1>1. PICK k \in DOMAIN read : read[k].part = "start"
  BY DEF HasThreeWords
<1>2. \E i \in DOMAIN read :
        read[i].part # "blank" /\ \A j \in 1..(i - 1) : read[j].part = "blank"
  BY <1>1 DEF FirstWordFound
<1>3. \E i \in DOMAIN read : FirstWord(read) = read[i]
  BY <1>2 DEF FirstWord
<1> QED
  BY <1>3

LEMMA HeaderTyped ==
  ASSUME NEW lines \in Seq(Part),
         \E i \in DOMAIN lines : lines[i] = "blank" /\ \A j \in 1..(i - 1) : lines[j] # "blank"
  PROVE  Header(lines) \in Seq(Part)
<1> DEFINE IsFirst(i) == lines[i] = "blank" /\ \A j \in 1..(i - 1) : lines[j] # "blank"
           first == CHOOSE i \in DOMAIN lines : IsFirst(i)
<1>1. first \in DOMAIN lines
  OBVIOUS
<1>2. SubSeq(lines, 1, first - 1) \in Seq(Part)
  BY <1>1
<1> QED
  BY <1>2 DEF Header

LEMMA TypeInit == Init => TypeOK /\ Parsed
<1> SUFFICES ASSUME Init PROVE TypeOK /\ Parsed
  OBVIOUS
<1> USE DEF Init, SocketInit, PrefaceInit, Http1Init, HandshakeInit, RouterInit
<1>1. routes \in [Methods -> [Paths -> Handlers \cup {Nobody}]]
  OBVIOUS
<1>2. pos \in [req : Nat \ {0}, line : Nat \ {0}] /\ Standing(pos)
  BY DEF Standing
<1>3. broken \in BOOLEAN /\ protocol \in Versions \cup {"none"}
  OBVIOUS
<1>4. sent \in Seq(Requests) /\ preface \in Seq(Pieces) /\ acc \in Seq(Part)
  OBVIOUS
<1>5. dispatched \in Seq([of : Nat \ {0}, header : Seq(Part), body : Seq(Pieces)])
      /\ responses \in Seq([by : Handlers \cup {Nobody}, ok : BOOLEAN, close : BOOLEAN])
  OBVIOUS
<1>6. TypeOK
  BY <1>1, <1>2, <1>3, <1>4, <1>5 DEF TypeOK
<1>7. Parsed
  BY DEF Parsed, FirstWordFound, FirstBlankFound, Tracked
<1> QED
  BY <1>6, <1>7

LEMMA Indices ==
  ASSUME TypeOK
  PROVE  /\ Len(sent) \in Nat
         /\ \A i \in DOMAIN preface : preface[i].of \in Nat \ {0}
         /\ DOMAIN dispatched = 1..Len(dispatched) /\ Len(dispatched) \in Nat
         /\ dispatched # <<>> => Len(dispatched) >= 1
         /\ \A i \in DOMAIN dispatched : dispatched[i].of \in Nat \ {0}
<1>1. sent \in Seq(Requests) /\ preface \in Seq(Pieces)
  BY DEF TypeOK
<1>2. dispatched \in Seq(Calls)
  BY DEF TypeOK
<1>3. \A i \in DOMAIN dispatched : dispatched[i] \in Calls
  BY <1>2
<1>4. \A i \in DOMAIN dispatched : dispatched[i].of \in Nat \ {0}
  BY <1>3 DEF Calls
<1>5. \A i \in DOMAIN preface : preface[i] \in Pieces
  BY <1>1
<1>6. \A i \in DOMAIN preface : preface[i].of \in Nat \ {0}
  BY <1>5 DEF Pieces
<1> QED
  BY <1>1, <1>2, <1>4, <1>6

\* Every part of the state is left alone by the actions of the others.
LEMMA TypeRouter ==
  ASSUME TypeOK, Parsed, RouterStep, UNCHANGED <<socketVars, prefaceVars, http1Vars>>
  PROVE  TypeOK' /\ Parsed'
<1>1. (routes \in [Methods -> [Paths -> Handlers \cup {Nobody}]])'
  <2>1. ASSUME NEW c \in Registrations, Register(c)
        PROVE  (routes \in [Methods -> [Paths -> Handlers \cup {Nobody}]])'
    <3>1. c.method \in Methods /\ c.path \in Paths /\ c.handler \in Handlers
      BY RoutesAssumption
    <3>2. routes \in [Methods -> [Paths -> Handlers \cup {Nobody}]]
      BY DEF TypeOK
    <3>3. CASE routes' = [routes EXCEPT ![c.method][c.path] = c.handler]
      BY <3>1, <3>2, <3>3
    <3>4. CASE routes' = routes
      BY <3>2, <3>4
    <3> QED
      BY <2>1, <3>3, <3>4 DEF Register
  <2> QED
    BY <2>1 DEF RouterStep, Serve, TypeOK
<1>2. (server \in {"building", "serving", "failed"})'
  BY DEF RouterStep, Register, Serve, TypeOK
<1>3. TypeOK'
  BY <1>1, <1>2 DEF TypeOK, Standing, socketVars, prefaceVars, http1Vars
<1>4. Parsed'
  BY DEF Parsed, FirstWordFound, FirstBlankFound, Tracked, socketVars, prefaceVars, http1Vars,
         HasThreeWords, HasMethod, FirstWord, Terminated
<1> QED
  BY <1>3, <1>4

\* The client appends to sent and never takes back.
LEMMA ClientAppends ==
  ASSUME TypeOK, ClientStep
  PROVE  /\ sent' \in Seq(Requests) /\ Len(sent) <= Len(sent')
         /\ \A i \in 1..Len(sent) : sent'[i] = sent[i]
         /\ pos' = pos /\ broken' = broken
         /\ \/ sent' = sent /\ arrived' = arrived
            \/ \E r \in Requests : sent' = Append(sent, r) /\ arrived' \in 1..Len(r.lines)
         /\ peer' \in {"open", "done", "gone"}
<1>1. sent \in Seq(Requests)
  BY DEF TypeOK
<1>2. ASSUME NEW r \in Requests, Send(r)
      PROVE  /\ sent' = Append(sent, r) /\ arrived' \in 1..Len(r.lines)
             /\ peer' \in {"open", "done", "gone"} /\ pos' = pos /\ broken' = broken
  BY <1>2 DEF Send
<1>3. CASE \E r \in Requests : Send(r)
  <2>1. PICK r \in Requests : Send(r)
    BY <1>3
  <2>2. /\ Append(sent, r) \in Seq(Requests) /\ Len(Append(sent, r)) = Len(sent) + 1
        /\ \A i \in 1..Len(sent) : Append(sent, r)[i] = sent[i]
    BY <1>1
  <2> QED
    BY <1>1, <1>2, <2>1, <2>2
<1>4. CASE Finish \/ Vanish
  BY <1>1, <1>4 DEF Finish, Vanish
<1> QED
  BY <1>3, <1>4 DEF ClientStep

LEMMA TypeClient ==
  ASSUME TypeOK, Parsed, ClientStep, UNCHANGED <<prefaceVars, http1Vars, routerVars>>
  PROVE  TypeOK' /\ Parsed'
<1> USE ClientAppends
<1>1. (sent # <<>> => arrived \in 1..Len(sent[Len(sent)].lines))' /\ arrived' \in Nat
  <2>1. CASE sent' = sent /\ arrived' = arrived
    BY <2>1 DEF TypeOK
  <2>2. ASSUME NEW r \in Requests, sent' = Append(sent, r), arrived' \in 1..Len(r.lines)
        PROVE  sent'[Len(sent')] = r /\ arrived' \in Nat
    BY <2>2, RequestsAssumption DEF TypeOK
  <2> QED
    BY <2>1, <2>2
<1>2. Standing(pos)'
  <2>1. CASE pos.req <= Len(sent)
    <3>1. pos.req \in 1..Len(sent) /\ pos.req <= Len(sent')
      BY <2>1 DEF TypeOK
    <3> QED
      BY <2>1, <3>1 DEF TypeOK, Standing
  <2>2. CASE ~(pos.req <= Len(sent)) /\ sent' = sent
    BY <2>2 DEF TypeOK, Standing
  <2>3. ASSUME ~(pos.req <= Len(sent)), NEW r \in Requests, sent' = Append(sent, r)
        PROVE  Standing(pos)'
    <3>1. pos = [req |-> Len(sent) + 1, line |-> 1]
      BY <2>3 DEF TypeOK, Standing
    <3>2. r.lines \in Seq(Part) /\ r.lines # <<>>
      BY RequestsAssumption
    <3>3. sent'[Len(sent) + 1] = r /\ Len(sent') = Len(sent) + 1
      BY <2>3 DEF TypeOK
    <3>4. pos' = pos /\ Len(r.lines) >= 1
      BY <3>2
    <3>5. pos'.req = Len(sent') /\ pos'.line = 1
      BY <3>1, <3>3, <3>4 DEF TypeOK
    <3> QED
      BY <3>5, <3>3, <3>4 DEF Standing, TypeOK
  <2> QED
    BY <2>1, <2>2, <2>3
<1>3. TypeOK'
  BY <1>1, <1>2 DEF TypeOK, prefaceVars, http1Vars, routerVars
<1>4. FirstWordFound(preface)' /\ FirstBlankFound(acc)'
  BY DEF Parsed, FirstWordFound, FirstBlankFound, prefaceVars, http1Vars
<1>5. ASSUME at \in {"headers", "body"}, HasThreeWords(preface)
      PROVE  HasMethod(preface)'
  <2>1. PICK i \in DOMAIN preface : FirstWord(preface) = preface[i] /\ FirstWord(preface) \in Pieces
    BY <1>5, FirstWordIsOne DEF Parsed, TypeOK
  <2>2. FirstWord(preface).of \in 1..Len(sent)
    BY <2>1 DEF Parsed, Tracked, Pieces, TypeOK
  <2>3. HasMethod(preface)
    BY <1>5 DEF Parsed, Tracked
  <2> QED
    BY <2>2, <2>3 DEF HasMethod, FirstWord, prefaceVars
<1>6. ASSUME at = "dispatching"
      PROVE  sent'[dispatched[Len(dispatched)].of].method # "unknown"
  <2>1. dispatched # <<>> /\ sent[dispatched[Len(dispatched)].of].method # "unknown"
    BY <1>6 DEF Parsed, Tracked
  <2>2. Len(dispatched) \in DOMAIN dispatched
    BY <2>1, Indices
  <2>3. dispatched[Len(dispatched)].of \in 1..Len(sent)
    BY <2>2, Indices DEF Parsed, Tracked
  <2> QED
    BY <2>1, <2>3
<1>7. /\ \A i \in DOMAIN preface : preface[i].of <= Len(sent')
      /\ \A i \in DOMAIN dispatched : dispatched[i].of <= Len(sent')
  <2>1. Len(sent) \in Nat /\ Len(sent') \in Nat
    BY DEF TypeOK
  <2>2. /\ \A i \in DOMAIN preface : preface[i].of \in Nat
        /\ \A i \in DOMAIN dispatched : dispatched[i].of \in Nat
    BY Indices
  <2> QED
    BY <2>1, <2>2 DEF Parsed, Tracked
<1>8. Tracked'
  BY <1>5, <1>6, <1>7
     DEF Parsed, Tracked, prefaceVars, http1Vars, HasThreeWords, Terminated
<1> QED
  BY <1>3, <1>4, <1>8 DEF Parsed

\* The preface grows by the line that is read, and a task that goes on to the
\* header has a method to serve or nothing that it takes for a request line.
LEMMA PrefaceGrows ==
  ASSUME TypeOK, HasLine(pos), NEW read \in Seq(Pieces), FirstWordFound(read),
         \A i \in DOMAIN read : read[i].of <= Len(sent)
  PROVE  /\ read \o Line(pos) \in Seq(Pieces)
         /\ FirstWordFound(read \o Line(pos))
         /\ \A i \in DOMAIN (read \o Line(pos)) : (read \o Line(pos))[i].of <= Len(sent)
<1> DEFINE new == read \o Line(pos)
<1>1. Line(pos) \in Seq(Pieces) /\ Len(Line(pos)) \in {1, 2}
  BY ReadableJoin
<1>2. /\ new \in Seq(Pieces) /\ Len(new) = Len(read) + Len(Line(pos))
      /\ \A i \in 1..Len(read) : new[i] = read[i]
      /\ \A i \in 1..Len(Line(pos)) : new[Len(read) + i] = Line(pos)[i]
  BY <1>1
<1>3. \A i \in DOMAIN Line(pos) : Line(pos)[i].of <= Len(sent)
  <2>1. pos.req <= Len(sent)
    BY ReadableLine DEF HasLine, TypeOK
  <2>2. Joined(pos) => After(pos).req <= Len(sent)
    BY ReadableLine DEF HasLine, TypeOK
  <2> QED
    BY <2>1, <2>2 DEF Line, Piece
<1>4. \A i \in DOMAIN new : new[i].of <= Len(sent)
  <2> TAKE i \in DOMAIN new
  <2>1. CASE i <= Len(read)
    BY <2>1, <1>2
  <2>2. CASE ~(i <= Len(read))
    <3>1. i - Len(read) \in 1..Len(Line(pos)) /\ i = Len(read) + (i - Len(read))
      BY <2>2, <1>1, <1>2
    <3> QED
      BY <3>1, <1>1, <1>2, <1>3
  <2> QED
    BY <2>1, <2>2
<1>5. FirstWordFound(new)
  <2>1. CASE \E i \in DOMAIN read :
               read[i].part # "blank" /\ \A j \in 1..(i - 1) : read[j].part = "blank"
    <3>1. PICK i \in DOMAIN read :
            read[i].part # "blank" /\ \A j \in 1..(i - 1) : read[j].part = "blank"
      BY <2>1
    <3>2. i \in DOMAIN new /\ new[i] = read[i] /\ \A j \in 1..(i - 1) : new[j] = read[j]
      BY <1>1, <1>2
    <3> QED
      BY <3>1, <3>2 DEF FirstWordFound
  <2>2. CASE \A i \in DOMAIN read : read[i].part = "blank"
    <3>1. Line(pos)[1] = Piece(pos) /\ new[Len(read) + 1] = Piece(pos)
      BY <1>1, <1>2 DEF Line
    <3>2. CASE PartAt(pos) # "blank"
      <4>1. /\ Len(read) + 1 \in DOMAIN new /\ new[Len(read) + 1].part # "blank"
            /\ \A j \in 1..((Len(read) + 1) - 1) : new[j].part = "blank"
        BY <3>1, <3>2, <2>2, <1>1, <1>2 DEF Piece
      <4> QED
        BY <4>1 DEF FirstWordFound
    <3>3. CASE PartAt(pos) = "blank"
      <4>1. Len(new) = Len(read) + 1
        BY <3>3, <1>2 DEF Line, Joined
      <4>2. \A i \in DOMAIN new : new[i].part = "blank"
        BY <4>1, <3>1, <3>3, <2>2, <1>2 DEF Piece
      <4> QED
        BY <4>2 DEF FirstWordFound
    <3> QED
      BY <3>2, <3>3
  <2> QED
    BY <2>1, <2>2 DEF FirstWordFound
<1> QED
  BY <1>2, <1>4, <1>5

\* What a step of the reader owes to the rest of the type invariant.
LEMMA TypeReader ==
  ASSUME TypeOK, pos' \in [req : Nat \ {0}, line : Nat \ {0}], Standing(pos'),
         UNCHANGED <<sent, arrived, peer, routes, server>>, broken' \in BOOLEAN,
         at' \in {"detecting", "line", "headers", "body", "dispatching",
                 "magic", "settings", "serving", "closed"},
         protocol' \in Versions \cup {"none"},
         preface' \in Seq(Pieces), acc' \in Seq(Part),
         dispatched' \in Seq(Calls), responses' \in Seq(Answers)
  PROVE  TypeOK'
BY DEF TypeOK, Standing

LEMMA TypePreface ==
  ASSUME TypeOK, Parsed, Detect \/ ReadPreface, UNCHANGED <<http1Vars, routerVars>>
  PROVE  TypeOK' /\ Parsed'
<1> DEFINE read == IF at = "detecting" THEN preface ELSE <<>>
<1>1. /\ read \in Seq(Pieces) /\ FirstWordFound(read)
      /\ \A i \in DOMAIN read : read[i].of <= Len(sent)
  BY DEF TypeOK, Parsed, Tracked, FirstWordFound
<1>2. HasLine(pos) /\ pos' = Beyond(pos) /\ UNCHANGED <<sent, arrived, peer, broken>>
  BY DEF Detect, ReadPreface, Consume
<1>3. /\ Beyond(pos) \in [req : Nat \ {0}, line : Nat \ {0}] /\ Standing(Beyond(pos))
      /\ Line(pos) \in Seq(Pieces)
  BY <1>2, ReadableJoin
<1>4. preface' = read \o Line(pos)
  BY <1>3 DEF Detect, ReadPreface
<1>5. /\ preface' \in Seq(Pieces) /\ FirstWordFound(preface')
      /\ \A i \in DOMAIN preface' : preface'[i].of <= Len(sent)
  <2> HIDE DEF read
  <2> QED
    BY <1>1, <1>2, <1>4, PrefaceGrows
<1>6. /\ protocol' \in Versions \cup {"none"}
      /\ at' \in {"detecting", "magic", "headers", "closed"}
      /\ at' = "headers" => (HasThreeWords(preface)' => HasMethod(preface)')
  <2>1. CASE Detect
    <3>1. VerifyProtocol(preface') \in Versions \cup {"none"}
      BY DEF VerifyProtocol, Spells, Versions
    <3>2. /\ protocol' = VerifyProtocol(preface')
          /\ at' = CASE protocol' = "none" -> "detecting"
                     [] protocol' = "2"    -> "magic"
                     [] OTHER              -> AfterPreface(preface')
      BY <2>1 DEF Detect
    <3>3. AfterPreface(preface') \in {"headers", "closed"}
      BY DEF AfterPreface
    <3>4. at' \in {"detecting", "magic", "headers", "closed"}
      BY <3>2, <3>3
    <3>5. at' = "headers" => AfterPreface(preface') = "headers"
      BY <3>2
    <3>6. at' = "headers" => (HasThreeWords(preface') => HasMethod(preface'))
      BY <3>5 DEF AfterPreface
    <3> QED
      BY <3>1, <3>2, <3>4, <3>6, <1>2 DEF HasMethod, FirstWord, HasThreeWords
  <2>2. CASE ReadPreface
    BY <2>2, <1>2 DEF ReadPreface, AfterPreface, HasMethod, FirstWord, HasThreeWords, TypeOK
  <2> QED
    BY <2>1, <2>2
<1>7. TypeOK'
  BY <1>2, <1>3, <1>5, <1>6, TypeReader DEF TypeOK, http1Vars, routerVars
<1>8. Parsed'
  BY <1>2, <1>5, <1>6 DEF Parsed, Tracked, http1Vars
<1> QED
  BY <1>7, <1>8

LEMMA TypeClose ==
  ASSUME TypeOK, Parsed, EndOfInput \/ ReadFails, UNCHANGED <<http1Vars, routerVars>>
  PROVE  TypeOK' /\ Parsed'
<1>1. Close
  BY DEF EndOfInput, ReadFails
<1>2. TypeOK'
  BY <1>1, TypeReader DEF Close, TypeOK, socketVars, http1Vars, routerVars
<1>3. Parsed'
  BY <1>1 DEF Close, Parsed, Tracked, socketVars, http1Vars
<1> QED
  BY <1>2, <1>3

LEMMA TypeHandshake ==
  ASSUME TypeOK, Parsed, HandshakeStep, UNCHANGED <<http1Vars, routerVars>>
  PROVE  TypeOK' /\ Parsed'
<1>1. /\ Arrived(pos) /\ pos' = After(pos) /\ UNCHANGED <<sent, arrived, peer, protocol, preface>>
      /\ at' \in {"settings", "serving", "closed"}
  BY DEF HandshakeStep, ReadMagic, ReadFirstFrame, WriteThen
<1>2. broken' \in BOOLEAN
  BY DEF HandshakeStep, ReadMagic, ReadFirstFrame, WriteThen, WriteOutcomes, TypeOK
<1>3. After(pos) \in [req : Nat \ {0}, line : Nat \ {0}] /\ Standing(After(pos))
  BY <1>1, ReadableLine DEF TypeOK
<1>4. TypeOK'
  BY <1>1, <1>2, <1>3, TypeReader DEF TypeOK, http1Vars, routerVars
<1>5. Parsed'
  BY <1>1 DEF Parsed, Tracked, http1Vars
<1> QED
  BY <1>4, <1>5

LEMMA AccGrows ==
  ASSUME NEW lines \in Seq(Part), FirstBlankFound(lines), NEW part \in Part
  PROVE  Append(lines, part) \in Seq(Part) /\ FirstBlankFound(Append(lines, part))
<1> DEFINE new == Append(lines, part)
<1>1. /\ new \in Seq(Part) /\ Len(new) = Len(lines) + 1 /\ new[Len(lines) + 1] = part
      /\ \A i \in 1..Len(lines) : new[i] = lines[i]
  OBVIOUS
<1>2. CASE \E i \in DOMAIN lines : lines[i] = "blank" /\ \A j \in 1..(i - 1) : lines[j] # "blank"
  <2>1. PICK i \in DOMAIN lines : lines[i] = "blank" /\ \A j \in 1..(i - 1) : lines[j] # "blank"
    BY <1>2
  <2>2. i \in DOMAIN new /\ new[i] = lines[i] /\ \A j \in 1..(i - 1) : new[j] = lines[j]
    BY <1>1
  <2> QED
    BY <2>1, <2>2, <1>1 DEF FirstBlankFound
<1>3. CASE \A i \in DOMAIN lines : lines[i] # "blank"
  <2> HIDE DEF new
  <2>1. \A j \in 1..((Len(lines) + 1) - 1) : new[j] # "blank"
    BY <1>1, <1>3
  <2>2. Len(lines) + 1 \in DOMAIN new /\ \A i \in DOMAIN new : i = Len(lines) + 1 \/ i \in 1..Len(lines)
    BY <1>1
  <2> QED
    BY <1>1, <1>3, <2>1, <2>2 DEF FirstBlankFound, new
<1> QED
  BY <1>2, <1>3 DEF FirstBlankFound

\* What is built is a request that was sent, by a method the router knows.
LEMMA BuildTyped ==
  ASSUME TypeOK, Parsed, at \in {"headers", "body"},
         NEW header \in Seq(Part), NEW body \in Seq(Pieces), Build(header, body)
  PROVE  \/ at' = "closed" /\ dispatched' = dispatched
         \/ /\ at' = "dispatching" /\ HasThreeWords(preface)
            /\ StartOf(preface) = FirstWord(preface).of
            /\ FirstWord(preface).part = "start"
            /\ StartOf(preface) \in 1..Len(sent)
            /\ sent[StartOf(preface)].method # "unknown"
            /\ [of |-> StartOf(preface), header |-> header, body |-> body] \in Calls
            /\ dispatched' = Append(dispatched,
                               [of |-> StartOf(preface), header |-> header, body |-> body])
<1>1. CASE StartOf(preface) = 0
  BY <1>1 DEF Build
<1>2. CASE StartOf(preface) # 0
  <2>1. HasThreeWords(preface) /\ StartOf(preface) = FirstWord(preface).of
    BY <1>2 DEF StartOf
  <2>2. PICK i \in DOMAIN preface : FirstWord(preface) = preface[i] /\ FirstWord(preface) \in Pieces
    BY <2>1, FirstWordIsOne DEF Parsed, TypeOK
  <2>3. StartOf(preface) \in 1..Len(sent)
    BY <2>1, <2>2, Indices DEF Parsed, Tracked, Pieces
  <2>4. FirstWord(preface).part = "start" /\ sent[StartOf(preface)].method # "unknown"
    BY <2>1 DEF Parsed, Tracked, HasMethod
  <2>5. [of |-> StartOf(preface), header |-> header, body |-> body] \in Calls
    BY <2>3 DEF Calls
  <2> QED
    BY <1>2, <2>1, <2>3, <2>4, <2>5 DEF Build
<1> QED
  BY <1>1, <1>2

\* The three ways a header goes on: more lines, a body, or the end of handle_.
LEMMA HeaderStep ==
  ASSUME TypeOK, Parsed, ReadHeader
  PROVE  /\ acc' \in Seq(Part) /\ FirstBlankFound(acc')
         /\ \/ at' \in {"headers", "closed"} /\ dispatched' = dispatched
            \/ at' = "body" /\ dispatched' = dispatched /\ Terminated(acc')
            \/ at' = "dispatching" /\ Terminated(acc') /\ Build(Header(acc'), <<>>)
         /\ Terminated(acc') => Header(acc') \in Seq(Part)
<1>1. HasLine(pos) /\ at = "headers"
  BY DEF ReadHeader, Consume
<1>2. acc' = Append(acc, IF Joined(pos) THEN "text" ELSE PartAt(pos))
  BY DEF ReadHeader
<1>3. (IF Joined(pos) THEN "text" ELSE PartAt(pos)) \in Part
  BY <1>1, ReadableJoin DEF Part
<1>4. acc \in Seq(Part) /\ FirstBlankFound(acc)
  BY DEF TypeOK, Parsed
<1>5. acc' \in Seq(Part) /\ FirstBlankFound(acc')
  BY <1>2, <1>3, <1>4, AccGrows
<1>6. ASSUME Terminated(acc') PROVE Header(acc') \in Seq(Part)
  <2>1. Len(acc') \in DOMAIN acc' /\ acc'[Len(acc')] = "blank"
    BY <1>5, <1>6 DEF Terminated
  <2> QED
    BY <1>5, <2>1, HeaderTyped DEF FirstBlankFound
<1>7. \/ at' \in {"headers", "closed"} /\ dispatched' = dispatched
      \/ at' = "body" /\ dispatched' = dispatched /\ Terminated(acc')
      \/ at' = "dispatching" /\ Terminated(acc') /\ Build(Header(acc'), <<>>)
  BY <1>1 DEF ReadHeader, Build
<1> QED
  BY <1>5, <1>6, <1>7

\* What was dispatched last belongs to a request that was sent.
LEMMA DispatchedGrows ==
  ASSUME TypeOK, Parsed, NEW call \in Calls, call.of \in 1..Len(sent),
         sent[call.of].method # "unknown", dispatched' = Append(dispatched, call)
  PROVE  /\ dispatched' \in Seq(Calls) /\ dispatched' # <<>>
         /\ Len(dispatched') = Len(dispatched) + 1
         /\ dispatched'[Len(dispatched')] = call
         /\ \A i \in 1..Len(dispatched) : dispatched'[i] = dispatched[i]
         /\ \A i \in DOMAIN dispatched' : dispatched'[i].of <= Len(sent)
<1>1. dispatched \in Seq(Calls)
  BY DEF TypeOK
<1>2. /\ dispatched' \in Seq(Calls) /\ Len(dispatched') = Len(dispatched) + 1
      /\ dispatched'[Len(dispatched) + 1] = call
      /\ \A i \in 1..Len(dispatched) : dispatched'[i] = dispatched[i]
  BY <1>1
<1>3. \A i \in DOMAIN dispatched : dispatched[i].of <= Len(sent)
  BY DEF Parsed, Tracked
<1>4. \A i \in DOMAIN dispatched' : i \in DOMAIN dispatched \/ i = Len(dispatched) + 1
  BY <1>1, <1>2
<1>5. \A i \in DOMAIN dispatched' : dispatched'[i].of <= Len(sent)
  BY <1>1, <1>2, <1>3, <1>4
<1> QED
  BY <1>1, <1>2, <1>5

LEMMA TypeHeader ==
  ASSUME TypeOK, Parsed, ReadHeader, UNCHANGED routerVars
  PROVE  TypeOK' /\ Parsed'
<1>1. /\ HasLine(pos) /\ pos' = Beyond(pos) /\ at = "headers"
      /\ UNCHANGED <<sent, arrived, peer, broken, protocol, preface, responses>>
  BY DEF ReadHeader, Consume
<1>2. Beyond(pos) \in [req : Nat \ {0}, line : Nat \ {0}] /\ Standing(Beyond(pos))
  BY <1>1, ReadableJoin
<1>3. acc' \in Seq(Part) /\ FirstBlankFound(acc')
  BY HeaderStep
<1>4. CASE dispatched' = dispatched /\ at' \in {"headers", "closed", "body"}
           /\ (at' = "body" => Terminated(acc'))
  <2>1. TypeOK'
    BY <1>1, <1>2, <1>3, <1>4, TypeReader DEF TypeOK, routerVars
  <2>2. Parsed'
    BY <1>1, <1>3, <1>4 DEF Parsed, Tracked, HasMethod, HasThreeWords, FirstWord, Terminated
  <2> QED
    BY <2>1, <2>2
<1>5. CASE at' = "dispatching" /\ Terminated(acc') /\ Build(Header(acc'), <<>>)
  <2> DEFINE call == [of |-> StartOf(preface), header |-> Header(acc'), body |-> <<>>]
  <2>1. Header(acc') \in Seq(Part) /\ <<>> \in Seq(Pieces)
    BY <1>5, HeaderStep
  <2>2. /\ call \in Calls /\ call.of \in 1..Len(sent) /\ sent[call.of].method # "unknown"
        /\ dispatched' = Append(dispatched, call)
    BY <1>1, <1>5, <2>1, BuildTyped
  <2> HIDE DEF call
  <2>3. /\ dispatched' \in Seq(Calls) /\ dispatched' # <<>>
        /\ dispatched'[Len(dispatched')] = call
        /\ \A i \in DOMAIN dispatched' : dispatched'[i].of <= Len(sent)
    BY <2>2, DispatchedGrows
  <2>4. TypeOK'
    BY <1>1, <1>2, <1>3, <1>5, <2>3, TypeReader DEF TypeOK, routerVars
  <2>5. Parsed'
    BY <1>1, <1>3, <1>5, <2>2, <2>3 DEF Parsed, Tracked
  <2> QED
    BY <2>4, <2>5
<1> QED
  BY <1>4, <1>5, HeaderStep

LEMMA BodyHeader ==
  ASSUME TypeOK, Parsed, at = "body"
  PROVE  Header(acc) \in Seq(Part)
<1>1. acc \in Seq(Part) /\ Terminated(acc) /\ FirstBlankFound(acc)
  BY DEF TypeOK, Parsed, Tracked
<1>2. Len(acc) \in DOMAIN acc /\ acc[Len(acc)] = "blank"
  BY <1>1 DEF Terminated
<1> QED
  BY <1>1, <1>2, HeaderTyped DEF FirstBlankFound

LEMMA TypeBody ==
  ASSUME TypeOK, Parsed, ReadBody, UNCHANGED routerVars
  PROVE  TypeOK' /\ Parsed'
<1>1. /\ Arrived(pos) /\ pos' = After(pos) /\ at = "body" /\ Build(Header(acc), <<Piece(pos)>>)
      /\ UNCHANGED <<sent, arrived, peer, broken, protocol, preface, acc, responses>>
  BY DEF ReadBody
<1>2. /\ After(pos) \in [req : Nat \ {0}, line : Nat \ {0}] /\ Standing(After(pos))
      /\ Piece(pos) \in Pieces
  BY <1>1, ReadableLine DEF TypeOK
<1>3. Header(acc) \in Seq(Part)
  BY <1>1, BodyHeader
<1>4. <<Piece(pos)>> \in Seq(Pieces)
  BY <1>2
<1>5. CASE at' = "closed" /\ dispatched' = dispatched
  <2>1. TypeOK'
    BY <1>1, <1>2, <1>5, TypeReader DEF TypeOK, routerVars
  <2>2. Parsed'
    BY <1>1, <1>5 DEF Parsed, Tracked
  <2> QED
    BY <2>1, <2>2
<1>6. CASE at' = "dispatching"
  <2> DEFINE call == [of |-> StartOf(preface), header |-> Header(acc), body |-> <<Piece(pos)>>]
  <2>1. /\ call \in Calls /\ call.of \in 1..Len(sent) /\ sent[call.of].method # "unknown"
        /\ dispatched' = Append(dispatched, call)
    BY <1>1, <1>3, <1>4, <1>6, BuildTyped
  <2> HIDE DEF call
  <2>2. /\ dispatched' \in Seq(Calls) /\ dispatched' # <<>>
        /\ dispatched'[Len(dispatched')] = call
        /\ \A i \in DOMAIN dispatched' : dispatched'[i].of <= Len(sent)
    BY <2>1, DispatchedGrows
  <2>3. TypeOK'
    BY <1>1, <1>2, <1>6, <2>2, TypeReader DEF TypeOK, routerVars
  <2>4. Parsed'
    BY <1>1, <1>6, <2>1, <2>2 DEF Parsed, Tracked
  <2> QED
    BY <2>3, <2>4
<1> QED
  BY <1>1, <1>3, <1>4, <1>5, <1>6, BuildTyped

\* Who answers is a handler of the application, or nobody.
LEMMA HandlerFound ==
  ASSUME TypeOK, Parsed, at = "dispatching"
  PROVE  /\ dispatched # <<>>
         /\ dispatched[Len(dispatched)] \in Calls
         /\ dispatched[Len(dispatched)].of \in 1..Len(sent)
         /\ LET r == sent[dispatched[Len(dispatched)].of]
            IN  r \in Requests /\ Find(r.method, r.path) \in Handlers \cup {Nobody}
<1> DEFINE call == dispatched[Len(dispatched)]
<1>1. dispatched # <<>> /\ sent[call.of].method # "unknown"
  BY DEF Parsed, Tracked
<1>2. Len(dispatched) \in DOMAIN dispatched
  BY <1>1, Indices
<1>3. call \in Calls
  BY <1>2 DEF TypeOK
<1>4. call.of \in 1..Len(sent)
  BY <1>2, Indices DEF Parsed, Tracked
<1>5. sent[call.of] \in Requests
  BY <1>4 DEF TypeOK
<1>6. sent[call.of].method \in Methods /\ sent[call.of].path \in Paths
  BY <1>1, <1>5, RoutableAssumption
<1>7. Find(sent[call.of].method, sent[call.of].path) \in Handlers \cup {Nobody}
  BY <1>6 DEF Find, TypeOK
<1> QED
  BY <1>1, <1>3, <1>4, <1>5, <1>7

LEMMA TypeDispatch ==
  ASSUME TypeOK, Parsed, Dispatch, UNCHANGED routerVars
  PROVE  TypeOK' /\ Parsed'
<1> DEFINE request == dispatched[Len(dispatched)]
           handler == Find(sent[request.of].method, sent[request.of].path)
           close   == ShouldClose(request.header)
<1>1. at = "dispatching" /\ UNCHANGED <<sent, arrived, peer, pos, protocol, dispatched>>
  BY DEF Dispatch
<1>2. handler \in Handlers \cup {Nobody}
  BY <1>1, HandlerFound
<1>3. close \in BOOLEAN
  BY DEF ShouldClose
<1>4. \/ Leave /\ UNCHANGED <<broken, responses>>
      \/ \E ok \in BOOLEAN :
           Respond([by |-> handler, ok |-> ok, close |-> close]) /\ (Leave \/ NextRequest)
  BY DEF Dispatch
<1>5. /\ at' \in {"closed", "line"} /\ acc' \in {acc, <<>>} /\ preface' \in {preface, <<>>}
  BY <1>4 DEF Leave, NextRequest
<1>6. responses' \in Seq(Answers) /\ broken' \in BOOLEAN
  <2>1. responses \in Seq(Answers) /\ broken \in BOOLEAN
    BY DEF TypeOK
  <2>2. ASSUME NEW ok \in BOOLEAN, Respond([by |-> handler, ok |-> ok, close |-> close])
        PROVE  responses' \in Seq(Answers) /\ broken' \in BOOLEAN
    <3>1. [by |-> handler, ok |-> ok, close |-> close] \in Answers
      BY <1>2, <1>3 DEF Answers
    <3> HIDE DEF handler, close
    <3>2. Append(responses, [by |-> handler, ok |-> ok, close |-> close]) \in Seq(Answers)
      BY <2>1, <3>1
    <3>3. broken' \in BOOLEAN
      BY <2>2 DEF Respond, WriteOutcomes
    <3> QED
      BY <2>1, <2>2, <3>2, <3>3 DEF Respond
  <2> QED
    BY <1>4, <2>1, <2>2
<1>7. preface' \in Seq(Pieces) /\ acc' \in Seq(Part) /\ FirstBlankFound(acc')
      /\ FirstWordFound(preface') /\ \A i \in DOMAIN preface' : preface'[i].of <= Len(sent)
  <2>1. preface' \in Seq(Pieces) /\ acc' \in Seq(Part)
    <3>1. /\ preface \in Seq(Pieces) /\ acc \in Seq(Part)
          /\ <<>> \in Seq(Pieces) /\ <<>> \in Seq(Part)
      BY DEF TypeOK
    <3> QED
      BY <1>5, <3>1
  <2>2. FirstBlankFound(acc') /\ FirstWordFound(preface')
    BY <1>5 DEF Parsed, FirstBlankFound, FirstWordFound
  <2>3. \A i \in DOMAIN preface' : preface'[i].of <= Len(sent)
    BY <1>5 DEF Parsed, Tracked
  <2> QED
    BY <2>1, <2>2, <2>3
<1>8. TypeOK'
  BY <1>1, <1>5, <1>6, <1>7, TypeReader DEF TypeOK, routerVars
<1>9. Parsed'
  BY <1>1, <1>5, <1>7 DEF Parsed, Tracked
<1> QED
  BY <1>8, <1>9

LEMMA TypeNext ==
  TypeOK /\ Parsed /\ [Next]_vars => TypeOK' /\ Parsed'
<1> SUFFICES ASSUME TypeOK, Parsed, [Next]_vars PROVE TypeOK' /\ Parsed'
  OBVIOUS
<1>1. CASE Application
  BY <1>1, TypeRouter DEF Application
<1>2. CASE Accept
  <2>1. at = "idle" /\ at' = "detecting"
        /\ UNCHANGED <<protocol, preface, socketVars, http1Vars, routerVars>>
    BY <1>2 DEF Accept
  <2>2. TypeOK'
    BY <2>1, TypeReader DEF TypeOK, socketVars, http1Vars, routerVars
  <2>3. Parsed'
    BY <2>1 DEF Parsed, Tracked, socketVars, http1Vars
  <2> QED
    BY <2>2, <2>3
<1>3. CASE Client
  BY <1>3, TypeClient DEF Client
<1>4. CASE Task
  <2>1. CASE (Detect \/ ReadPreface) /\ UNCHANGED <<http1Vars, routerVars>>
    BY <2>1, TypePreface
  <2>2. CASE (EndOfInput \/ ReadFails) /\ UNCHANGED <<http1Vars, routerVars>>
    BY <2>2, TypeClose
  <2>3. CASE ReadHeader /\ UNCHANGED routerVars
    BY <2>3, TypeHeader
  <2>4. CASE ReadBody /\ UNCHANGED routerVars
    BY <2>4, TypeBody
  <2>5. CASE Dispatch /\ UNCHANGED routerVars
    BY <2>5, TypeDispatch
  <2>6. CASE HandshakeStep /\ UNCHANGED <<http1Vars, routerVars>>
    BY <2>6, TypeHandshake
  <2> QED
    BY <1>4, <2>1, <2>2, <2>3, <2>4, <2>5, <2>6 DEF Task, Http1Step
<1>5. CASE UNCHANGED vars
  <2>1. UNCHANGED <<socketVars, prefaceVars, http1Vars, routerVars>>
    BY <1>5 DEF vars
  <2>2. TypeOK'
    BY <2>1 DEF TypeOK, Standing, socketVars, prefaceVars, http1Vars, routerVars
  <2>3. Parsed'
    BY <2>1 DEF Parsed, Tracked, socketVars, prefaceVars, http1Vars, HasMethod, FirstWord,
                HasThreeWords, Terminated
  <2> QED
    BY <2>2, <2>3
<1> QED
  BY <1>1, <1>2, <1>3, <1>4, <1>5 DEF Next

\* The task never stands where nothing can have been written, never hands a
\* request without a method and a path to the dispatcher, and never answers by
\* anything but the application's handlers.
THEOREM TypeCorrect == Spec => []TypeOK
<1>1. Spec => [](TypeOK /\ Parsed)
  BY TypeInit, TypeNext, PTL DEF Spec
<1> QED
  BY <1>1, PTL

-----------------------------------------------------------------------------
(* No request is served twice *)

\* Has the reader left the request line of request r behind?
PassedAt(r, p) ==
  r < p.req \/ (r = p.req /\ \E l \in 1..(p.line - 1) : sent[r].lines[l] = "start")

\* Whatever is being parsed is later than what was dispatched, and the reader
\* is later than both.
InOrder ==
  /\ NeverServedTwice
  /\ \A i \in DOMAIN dispatched : PassedAt(dispatched[i].of, pos)
  /\ \A i \in DOMAIN preface : preface[i].part = "start" => PassedAt(preface[i].of, pos)
  /\ at \in {"idle", "detecting"} => dispatched = <<>>
  /\ at \in {"headers", "body"} =>
       \A i \in DOMAIN preface, j \in DOMAIN dispatched :
         preface[i].part = "start" => dispatched[j].of < preface[i].of

LEMMA PassedGoesOn ==
  ASSUME TypeOK, NEW p \in [req : Nat \ {0}, line : Nat \ {0}], Standing(p), Arrived(p)
  PROVE  /\ \A r \in Nat : PassedAt(r, p) => PassedAt(r, After(p))
         /\ PartAt(p) = "start" => PassedAt(p.req, After(p))
         /\ \A r \in Nat : PassedAt(r, p) /\ PartAt(p) = "start" => r < p.req
<1>1. /\ p.req \in 1..Len(sent) /\ p.line \in 1..Len(sent[p.req].lines)
      /\ sent[p.req] \in Requests
      /\ After(p) \in [req : Nat \ {0}, line : Nat \ {0}]
  BY ReadableLine
<1>2. \/ After(p).req = p.req /\ After(p).line = p.line + 1
      \/ After(p).req = p.req + 1
  BY <1>1 DEF After
<1>3. \A r \in Nat : PassedAt(r, p) => PassedAt(r, After(p))
  BY <1>1, <1>2 DEF PassedAt
<1>4. ASSUME PartAt(p) = "start" PROVE PassedAt(p.req, After(p))
  BY <1>1, <1>2, <1>4 DEF PassedAt, PartAt
<1>5. ASSUME NEW r \in Nat, PassedAt(r, p), PartAt(p) = "start" PROVE r < p.req
  <2>1. SUFFICES ASSUME r = p.req, NEW l \in 1..(p.line - 1), sent[r].lines[l] = "start"
                 PROVE  FALSE
    BY <1>5 DEF PassedAt
  <2>2. l \in DOMAIN sent[r].lines /\ p.line \in DOMAIN sent[r].lines /\ l # p.line
    BY <1>1, <2>1, RequestsAssumption
  <2> QED
    BY <1>1, <1>5, <2>1, <2>2, RequestsAssumption DEF PartAt
<1> QED
  BY <1>3, <1>4, <1>5

LEMMA PassedBeyond ==
  ASSUME TypeOK, HasLine(pos)
  PROVE  /\ \A r \in Nat : PassedAt(r, pos) => PassedAt(r, Beyond(pos))
         /\ \A i \in DOMAIN Line(pos) :
              LET piece == Line(pos)[i]
              IN  piece.part = "start" =>
                    /\ PassedAt(piece.of, Beyond(pos))
                    /\ \A r \in Nat : PassedAt(r, pos) => r < piece.of
<1>1. /\ pos \in [req : Nat \ {0}, line : Nat \ {0}] /\ Standing(pos) /\ Arrived(pos)
      /\ After(pos) \in [req : Nat \ {0}, line : Nat \ {0}] /\ Standing(After(pos))
      /\ pos.req \in Nat /\ After(pos).req \in Nat
  BY ReadableLine DEF TypeOK, HasLine
<1>2. /\ \A r \in Nat : PassedAt(r, pos) => PassedAt(r, After(pos))
      /\ PartAt(pos) = "start" => PassedAt(pos.req, After(pos))
      /\ \A r \in Nat : PassedAt(r, pos) /\ PartAt(pos) = "start" => r < pos.req
  BY <1>1, PassedGoesOn
<1>3. CASE ~Joined(pos)
  <2>1. Line(pos) = <<[of |-> pos.req, part |-> PartAt(pos)]>> /\ Beyond(pos) = After(pos)
    BY <1>3 DEF Line, Beyond, Piece
  <2> QED
    BY <1>1, <1>2, <2>1
<1>4. CASE Joined(pos)
  <2>1. Arrived(After(pos)) /\ PartAt(pos) # "start"
    BY <1>4 DEF HasLine, Joined
  <2>2. /\ \A r \in Nat : PassedAt(r, After(pos)) => PassedAt(r, After(After(pos)))
        /\ PartAt(After(pos)) = "start" => PassedAt(After(pos).req, After(After(pos)))
        /\ \A r \in Nat : PassedAt(r, After(pos)) /\ PartAt(After(pos)) = "start"
                           => r < After(pos).req
    BY <1>1, <2>1, PassedGoesOn
  <2>3. /\ Line(pos) = <<[of |-> pos.req, part |-> PartAt(pos)],
                        [of |-> After(pos).req, part |-> PartAt(After(pos))]>>
        /\ Beyond(pos) = After(After(pos))
    BY <1>4 DEF Line, Beyond, Piece
  <2> QED
    BY <1>1, <1>2, <2>1, <2>2, <2>3
<1> QED
  BY <1>3, <1>4

\* Steps that dispatch nothing and parse no new preface.
LEMMA InOrderKept ==
  ASSUME TypeOK, Parsed, InOrder, dispatched' = dispatched, preface' \in {preface, <<>>},
         \A r \in 1..Len(sent) : PassedAt(r, pos) => PassedAt(r, pos)',
         at' \in {"headers", "body"} => at \in {"headers", "body"} /\ preface' = preface,
         at' \in {"idle", "detecting"} => at \in {"idle", "detecting"}
  PROVE  InOrder'
<1>1. \A i \in DOMAIN dispatched : dispatched[i].of \in 1..Len(sent)
  BY Indices DEF Parsed, Tracked
<1>2. \A i \in DOMAIN preface : preface[i].of \in 1..Len(sent)
  BY Indices DEF Parsed, Tracked
<1>3. NeverServedTwice'
  BY DEF InOrder, NeverServedTwice
<1>4. \A i \in DOMAIN dispatched' : PassedAt(dispatched[i].of, pos)'
  BY <1>1 DEF InOrder
<1>5. \A i \in DOMAIN preface' : preface'[i].part = "start" => PassedAt(preface[i].of, pos)'
  BY <1>2 DEF InOrder
<1>6. (at \in {"idle", "detecting"} => dispatched = <<>>)'
  BY DEF InOrder
<1>7. at' \in {"headers", "body"} =>
        \A i \in DOMAIN preface', j \in DOMAIN dispatched' :
          preface'[i].part = "start" => dispatched'[j].of < preface'[i].of
  BY DEF InOrder
<1> QED
  BY <1>3, <1>4, <1>5, <1>6, <1>7 DEF InOrder

LEMMA InOrderPreface ==
  ASSUME TypeOK, Parsed, InOrder, Detect \/ ReadPreface, dispatched' = dispatched
  PROVE  InOrder'
<1> DEFINE read == IF at = "detecting" THEN preface ELSE <<>>
<1>1. HasLine(pos) /\ pos' = Beyond(pos) /\ sent' = sent
  BY DEF Detect, ReadPreface, Consume
<1>2. /\ read \in Seq(Pieces) /\ Line(pos) \in Seq(Pieces) /\ preface' = read \o Line(pos)
  <2>1. read \in Seq(Pieces)
    BY DEF TypeOK
  <2>2. Line(pos) \in Seq(Pieces)
    BY <1>1, ReadableJoin
  <2>3. CASE Detect
    BY <2>1, <2>2, <2>3 DEF Detect
  <2>4. CASE ReadPreface
    BY <2>2, <2>4 DEF ReadPreface
  <2> QED
    BY <2>1, <2>2, <2>3, <2>4
<1>3. \A i \in DOMAIN preface' :
        \/ i \in DOMAIN read /\ preface'[i] = read[i]
        \/ \E k \in DOMAIN Line(pos) : preface'[i] = Line(pos)[k]
  <2> HIDE DEF read
  <2> TAKE i \in DOMAIN preface'
  <2>1. CASE i \in DOMAIN read
    BY <2>1, <1>2
  <2>2. CASE i \notin DOMAIN read
    <3>1. i - Len(read) \in DOMAIN Line(pos) /\ preface'[i] = Line(pos)[i - Len(read)]
      BY <2>2, <1>2
    <3> QED
      BY <3>1
  <2> QED
    BY <2>1, <2>2
<1>4. /\ \A i \in DOMAIN dispatched : dispatched[i].of \in Nat
      /\ \A i \in DOMAIN read : read[i].of \in Nat
  BY Indices
<1>5. NeverServedTwice'
  BY DEF InOrder, NeverServedTwice
<1>6. \A i \in DOMAIN dispatched' : PassedAt(dispatched'[i].of, pos')
  BY <1>1, <1>4, PassedBeyond DEF InOrder
<1>7. \A i \in DOMAIN preface' : preface'[i].part = "start" => PassedAt(preface'[i].of, pos')
  <2>1. \A i \in DOMAIN read : read[i].part = "start" => PassedAt(read[i].of, pos')
    BY <1>1, <1>4, PassedBeyond DEF InOrder
  <2> QED
    BY <1>1, <1>3, <2>1, PassedBeyond
<1>8. at' \in {"idle", "detecting"} => dispatched' = <<>>
  BY DEF Detect, ReadPreface, AfterPreface, InOrder
<1>9. \A i \in DOMAIN preface', j \in DOMAIN dispatched' :
        preface'[i].part = "start" => dispatched'[j].of < preface'[i].of
  <2>1. CASE Detect
    BY <2>1 DEF Detect, InOrder
  <2>2. CASE ReadPreface
    <3>1. preface' = Line(pos)
      BY <2>2 DEF ReadPreface
    <3>2. \A j \in DOMAIN dispatched : PassedAt(dispatched[j].of, pos)
      BY DEF InOrder
    <3> QED
      BY <3>1, <3>2, <1>1, <1>4, PassedBeyond
  <2> QED
    BY <2>1, <2>2
<1> QED
  BY <1>1, <1>5, <1>6, <1>7, <1>8, <1>9 DEF InOrder, PassedAt

\* A request is dispatched: it is later than those before it.
LEMMA InOrderBuild ==
  ASSUME TypeOK, Parsed, InOrder, at \in {"headers", "body"},
         NEW header \in Seq(Part), NEW body \in Seq(Pieces), Build(header, body),
         preface' = preface, sent' = sent,
         \A r \in Nat : PassedAt(r, pos) => PassedAt(r, pos')
  PROVE  InOrder'
<1>1. CASE at' = "closed" /\ dispatched' = dispatched
  <2>1. \A r \in 1..Len(sent) : PassedAt(r, pos) => PassedAt(r, pos)'
    BY Indices DEF PassedAt
  <2> QED
    BY <1>1, <2>1, InOrderKept
<1>2. CASE at' = "dispatching"
  <2> DEFINE call == [of |-> StartOf(preface), header |-> header, body |-> body]
  <2>1. /\ dispatched' = Append(dispatched, call) /\ HasThreeWords(preface)
        /\ StartOf(preface) = FirstWord(preface).of /\ FirstWord(preface).part = "start"
        /\ call \in Calls /\ call.of \in 1..Len(sent) /\ sent[call.of].method # "unknown"
    BY <1>2, BuildTyped
  <2>2. PICK i \in DOMAIN preface : preface[i].part = "start" /\ call.of = preface[i].of
    <3>1. preface \in Seq(Pieces) /\ FirstWordFound(preface)
      BY DEF TypeOK, Parsed
    <3> QED
      BY <2>1, <3>1, FirstWordIsOne
  <2>3. /\ Len(dispatched') = Len(dispatched) + 1
        /\ dispatched'[Len(dispatched) + 1].of = call.of
        /\ \A j \in 1..Len(dispatched) : dispatched'[j] = dispatched[j]
        /\ DOMAIN dispatched' = 1..(Len(dispatched) + 1)
        /\ Len(dispatched) \in Nat /\ DOMAIN dispatched = 1..Len(dispatched)
    BY <2>1, DispatchedGrows, Indices
  <2>4. /\ \A j \in DOMAIN dispatched : dispatched[j].of \in Nat /\ dispatched[j].of < call.of
        /\ call.of \in Nat
    BY <2>1, <2>2, Indices DEF InOrder
  <2> HIDE DEF call
  <2>5. NeverServedTwice'
    <3> SUFFICES ASSUME NEW j \in DOMAIN dispatched', NEW k \in DOMAIN dispatched', j < k
                 PROVE  dispatched'[j].of < dispatched'[k].of
      BY DEF NeverServedTwice
    <3>1. j \in 1..Len(dispatched)
      BY <2>3
    <3>2. CASE k = Len(dispatched) + 1
      BY <2>3, <2>4, <3>1, <3>2
    <3>3. CASE k \in 1..Len(dispatched)
      BY <2>3, <3>1, <3>3 DEF InOrder, NeverServedTwice
    <3> QED
      BY <2>3, <3>2, <3>3
  <2>6. \A j \in DOMAIN dispatched' : PassedAt(dispatched'[j].of, pos')
    <3>1. PassedAt(call.of, pos') /\ \A j \in DOMAIN dispatched : PassedAt(dispatched[j].of, pos')
      BY <2>2, <2>4 DEF InOrder
    <3> QED
      BY <2>3, <3>1
  <2>7. \A j \in DOMAIN preface : preface[j].part = "start" => PassedAt(preface[j].of, pos')
    BY Indices DEF InOrder
  <2> QED
    BY <1>2, <2>5, <2>6, <2>7 DEF InOrder, PassedAt
<1> QED
  BY <1>1, <1>2, BuildTyped

LEMMA InOrderClient ==
  ASSUME TypeOK, Parsed, InOrder, ClientStep, UNCHANGED <<prefaceVars, http1Vars>>
  PROVE  InOrder'
<1>1. \A r \in 1..Len(sent) : PassedAt(r, pos) => PassedAt(r, pos)'
  BY ClientAppends DEF PassedAt
<1> QED
  BY <1>1, InOrderKept DEF prefaceVars, http1Vars

LEMMA InOrderNext ==
  TypeOK /\ Parsed /\ InOrder /\ [Next]_vars => InOrder'
<1> SUFFICES ASSUME TypeOK, Parsed, InOrder, [Next]_vars PROVE InOrder'
  OBVIOUS
<1>1. ASSUME sent' = sent, pos' = pos
      PROVE  \A r \in 1..Len(sent) : PassedAt(r, pos) => PassedAt(r, pos)'
  BY <1>1 DEF PassedAt
<1>2. CASE Application \/ UNCHANGED vars
  <2>1. UNCHANGED <<sent, pos, at, preface, dispatched>>
    BY <1>2 DEF Application, vars, socketVars, prefaceVars, http1Vars
  <2> QED
    BY <1>1, <2>1, InOrderKept
<1>3. CASE Accept
  <2>1. at = "idle" /\ at' = "detecting" /\ UNCHANGED <<sent, pos, preface, dispatched>>
    BY <1>3 DEF Accept, socketVars, http1Vars
  <2> QED
    BY <1>1, <2>1, InOrderKept
<1>4. CASE Client
  BY <1>4, InOrderClient DEF Client
<1>5. CASE Task
  <2>1. CASE (Detect \/ ReadPreface) /\ UNCHANGED http1Vars
    BY <2>1, InOrderPreface DEF http1Vars
  <2>2. CASE (EndOfInput \/ ReadFails) /\ UNCHANGED http1Vars
    <3>1. at' = "closed" /\ UNCHANGED <<sent, pos, preface, dispatched>>
      BY <2>2 DEF EndOfInput, ReadFails, Close, socketVars, http1Vars
    <3> QED
      BY <1>1, <3>1, InOrderKept
  <2>3. CASE ReadHeader
    <3>1. /\ at = "headers" /\ HasLine(pos) /\ pos' = Beyond(pos)
          /\ sent' = sent /\ preface' = preface
      BY <2>3 DEF ReadHeader, Consume
    <3>2. \A r \in Nat : PassedAt(r, pos) => PassedAt(r, pos')
      BY <3>1, PassedBeyond
    <3>3. CASE at' \in {"headers", "closed", "body"} /\ dispatched' = dispatched
      <4>1. \A r \in 1..Len(sent) : PassedAt(r, pos) => PassedAt(r, pos)'
        BY <3>1, <3>2, Indices DEF PassedAt
      <4> QED
        BY <3>1, <3>3, <4>1, InOrderKept
    <3>4. CASE Terminated(acc') /\ Build(Header(acc'), <<>>)
      <4>1. Header(acc') \in Seq(Part) /\ <<>> \in Seq(Pieces)
        BY <2>3, <3>4, HeaderStep
      <4> QED
        BY <3>1, <3>2, <3>4, <4>1, InOrderBuild
    <3> QED
      BY <2>3, <3>3, <3>4, HeaderStep
  <2>4. CASE ReadBody
    <3>1. /\ at = "body" /\ Arrived(pos) /\ pos' = After(pos) /\ Build(Header(acc), <<Piece(pos)>>)
          /\ sent' = sent /\ preface' = preface
      BY <2>4 DEF ReadBody
    <3>2. pos \in [req : Nat \ {0}, line : Nat \ {0}] /\ Standing(pos)
      BY DEF TypeOK
    <3>3. \A r \in Nat : PassedAt(r, pos) => PassedAt(r, pos')
      BY <3>1, <3>2, PassedGoesOn
    <3>4. Header(acc) \in Seq(Part) /\ <<Piece(pos)>> \in Seq(Pieces)
      BY <3>1, <3>2, ReadableLine, BodyHeader
    <3> QED
      BY <3>1, <3>3, <3>4, InOrderBuild
  <2>5. CASE Dispatch
    <3>1. /\ at' \in {"closed", "line"} /\ preface' \in {preface, <<>>}
          /\ UNCHANGED <<sent, pos, dispatched>>
      BY <2>5 DEF Dispatch, Leave, NextRequest
    <3> QED
      BY <1>1, <3>1, InOrderKept
  <2>6. CASE HandshakeStep /\ UNCHANGED http1Vars
    <3>1. /\ at' \in {"settings", "serving", "closed"} /\ UNCHANGED <<sent, preface, dispatched>>
          /\ Arrived(pos) /\ pos' = After(pos)
      BY <2>6 DEF HandshakeStep, ReadMagic, ReadFirstFrame, WriteThen, http1Vars
    <3>2. pos \in [req : Nat \ {0}, line : Nat \ {0}] /\ Standing(pos)
      BY DEF TypeOK
    <3>3. \A r \in Nat : PassedAt(r, pos) => PassedAt(r, pos)'
      BY <3>1, <3>2, PassedGoesOn DEF PassedAt
    <3> QED
      BY <3>1, <3>3, Indices, InOrderKept
  <2> QED
    BY <1>5, <2>1, <2>2, <2>3, <2>4, <2>5, <2>6 DEF Task, Http1Step
<1> QED
  BY <1>2, <1>3, <1>4, <1>5 DEF Next

\* NeverServedTwice for every client, framed or not.
THEOREM NothingServedTwice == Spec => []NeverServedTwice
<1>1. Init => InOrder
  BY DEF Init, PrefaceInit, Http1Init, InOrder, NeverServedTwice
<1>2. Spec => [](TypeOK /\ Parsed /\ InOrder)
  BY <1>1, TypeInit, TypeNext, InOrderNext, PTL DEF Spec
<1>3. InOrder => NeverServedTwice
  BY DEF InOrder
<1> QED
  BY <1>2, <1>3, PTL
-----------------------------------------------------------------------------
(* Sets of numbers *)

\* If a set had no last element, its numbers and those before them could all be
\* moved up by one without reaching the lowest.
LEMMA LastExists ==
  ASSUME NEW m \in Nat, NEW n \in Nat, NEW T \in SUBSET (m..n), T # {}
  PROVE  \E x \in T : \A y \in T : y <= x
<1> SUFFICES ASSUME \A x \in T : \E y \in T : y > x PROVE FALSE
  OBVIOUS
<1> DEFINE U == {x \in m..n : \E y \in T : x <= y}
           f == [x \in U |-> x + 1]
<1>1. IsFiniteSet(U) /\ IsFiniteSet(U \ {m}) /\ m \in U /\ Cardinality(U) \in Nat
  <2>1. IsFiniteSet(m..n) /\ U \in SUBSET (m..n)
    BY FS_Interval
  <2>2. IsFiniteSet(U)
    BY <2>1, FS_Subset
  <2>3. m \in U
    <3>1. PICK y \in T : TRUE
      OBVIOUS
    <3> QED
      BY <3>1
  <2> HIDE DEF U
  <2> QED
    BY <2>2, <2>3, FS_RemoveElement, FS_CardinalityType
<1>2. f \in [U -> U \ {m}]
  <2> SUFFICES ASSUME NEW x \in U PROVE x + 1 \in U \ {m}
    OBVIOUS
  <2>1. PICK y \in T : x <= y
    OBVIOUS
  <2>2. PICK z \in T : z > y
    OBVIOUS
  <2>3. x \in m..n /\ y \in m..n /\ z \in m..n /\ x + 1 <= z
    BY <2>1, <2>2
  <2> QED
    BY <2>2, <2>3
<1>3. \A x, y \in U : x # y => f[x] # f[y]
  OBVIOUS
<1> HIDE DEF U, f
<1>4. Cardinality(U \ {m}) < Cardinality(U)
  BY <1>1, FS_RemoveElement
<1>5. \E x, y \in U : x # y /\ f[x] = f[y]
  BY <1>1, <1>2, <1>4, FS_PigeonHole, Zenon
<1> QED
  BY <1>3, <1>5

-----------------------------------------------------------------------------
(* The options after a list of parameters *)

\* Updated takes the parameters one after another; what it ends with is given by
\* the last of each identifier.
LEMMA UpdatedIs ==
  ASSUME NEW before, NEW parameters, Len(parameters) \in Nat,
         DOMAIN parameters = 1..Len(parameters), NEW id \in Identifiers
  PROVE  /\ Named(parameters, id) = {} => Updated(before, parameters)[id] = before[id]
         /\ \A i \in Named(parameters, id) :
              (\A j \in Named(parameters, id) : j <= i) =>
                Updated(before, parameters)[id] = Chosen(parameters[i])
<1> DEFINE N == Len(parameters)
           Earlier(n, k) == {i \in Named(parameters, k) : i <= n}
           Latest(S) == CHOOSE i \in S : \A j \in S : j <= i
           Step(g) == [n \in 0..N |->
                         IF n = 0 THEN before
                         ELSE [k \in Identifiers |-> IF k = parameters[n].id THEN Chosen(parameters[n])
                                                     ELSE g[n - 1][k]]]
           Value(n, k) == IF Earlier(n, k) = {} THEN before[k] ELSE Chosen(parameters[Latest(Earlier(n, k))])
           solved == [n \in 0..N |-> IF n = 0 THEN before ELSE [k \in Identifiers |-> Value(n, k)]]
           upTo == CHOOSE g : g = Step(g)
<1>1. ASSUME NEW n \in 1..N, NEW k \in Identifiers, k = parameters[n].id
      PROVE  Earlier(n, k) # {} /\ Latest(Earlier(n, k)) = n
  <2>1. n \in Earlier(n, k) /\ \A j \in Earlier(n, k) : j <= n
    BY <1>1 DEF Named
  <2>2. \A i \in Earlier(n, k) : i \in Nat /\ n \in Nat
    BY DEF Named
  <2> HIDE DEF Earlier
  <2>3. Latest(Earlier(n, k)) \in Earlier(n, k) /\ \A j \in Earlier(n, k) : j <= Latest(Earlier(n, k))
    BY <2>1
  <2> QED
    BY <2>1, <2>2, <2>3
<1>2. ASSUME NEW n \in 1..N, NEW k \in Identifiers, k # parameters[n].id
      PROVE  Earlier(n, k) = Earlier(n - 1, k)
  BY <1>2 DEF Named
<1>3. \A k : Earlier(0, k) = {}
  BY DEF Named
<1>4. ASSUME NEW n \in 1..N, NEW k \in Identifiers
      PROVE  Value(n, k) = IF k = parameters[n].id THEN Chosen(parameters[n])
                           ELSE Value(n - 1, k)
  <2> HIDE DEF Earlier, Latest
  <2>1. CASE k = parameters[n].id
    BY <2>1, <1>1
  <2>2. CASE k # parameters[n].id
    BY <2>2, <1>2
  <2> QED
    BY <2>1, <2>2
<1>5. \A k : Value(0, k) = before[k]
  BY <1>3
<1>6. solved = Step(solved)
  <2> HIDE DEF Value
  <2>1. ASSUME NEW n \in 1..N, NEW k \in Identifiers PROVE solved[n - 1][k] = Value(n - 1, k)
    <3>1. CASE n = 1
      BY <1>5, <3>1
    <3>2. CASE n # 1
      BY <3>2
    <3> QED
      BY <3>1, <3>2
  <2>2. ASSUME NEW n \in 1..N
        PROVE  [k \in Identifiers |-> Value(n, k)]
                 = [k \in Identifiers |-> IF k = parameters[n].id THEN Chosen(parameters[n])
                                          ELSE solved[n - 1][k]]
    <3> HIDE DEF solved
    <3> QED
      BY <1>4, <2>1
  <2>3. Step(solved) = [n \in 0..N |-> IF n = 0 THEN before ELSE [k \in Identifiers |-> Value(n, k)]]
    <3> HIDE DEF solved
    <3> QED
      BY <2>2
  <2> HIDE DEF Step
  <2> QED
    BY <2>3
<1> HIDE DEF solved, Step
<1>7. upTo = Step(upTo)
  BY <1>6
<1>8. Updated(before, parameters) = upTo[N]
  BY DEF Updated, Step
<1> HIDE DEF upTo
<1>9. /\ upTo[0] = before
      /\ \A n \in 1..N : upTo[n][id] = IF id = parameters[n].id THEN Chosen(parameters[n])
                                       ELSE upTo[n - 1][id]
  BY <1>7 DEF Step
<1>10. ASSUME NEW m \in 0..N, NEW value, upTo[m][id] = value,
             \A n \in (m + 1)..N : parameters[n].id # id
      PROVE  upTo[N][id] = value
  <2> DEFINE same == {n \in m..N : upTo[n][id] = value}
  <2>1. m \in same /\ same \in SUBSET (m..N)
    BY <1>10
  <2>2. PICK x \in same : \A y \in same : y <= x
    <3>1. m \in Nat /\ N \in Nat
      OBVIOUS
    <3> HIDE DEF same, N
    <3> QED
      BY <2>1, <3>1, LastExists
  <2>3. ASSUME x < N PROVE x + 1 \in same
    <3>1. x \in m..N /\ upTo[x][id] = value
      OBVIOUS
    <3>2. x + 1 \in 1..N /\ x + 1 \in (m + 1)..N /\ (x + 1) - 1 = x
      BY <2>3, <3>1
    <3>3. upTo[x + 1][id] = upTo[x][id]
      BY <1>9, <1>10, <3>2
    <3> QED
      BY <3>1, <3>2, <3>3
  <2> QED
    BY <2>2, <2>3
<1>11. ASSUME Named(parameters, id) = {}
      PROVE  upTo[N][id] = before[id]
  <2>1. \A n \in 1..N : parameters[n].id # id
    BY <1>11 DEF Named
  <2> QED
    BY <2>1, <1>9, <1>10
<1>12. ASSUME NEW i \in Named(parameters, id), \A j \in Named(parameters, id) : j <= i
       PROVE  upTo[N][id] = Chosen(parameters[i])
  <2>1. i \in 1..N /\ parameters[i].id = id /\ \A n \in (i + 1)..N : parameters[n].id # id
    BY <1>12 DEF Named
  <2>2. upTo[i][id] = Chosen(parameters[i])
    BY <2>1, <1>9
  <2> QED
    BY <2>1, <2>2, <1>10
<1> QED
  BY <1>8, <1>11, <1>12
-----------------------------------------------------------------------------
(* The handshake *)

\* What the parameters of the first frame make of the default options.
Heard(frame) ==
  IF frame.kind = "SETTINGS" THEN Updated(Defaults, frame.parameters) ELSE Defaults

\* How far the handshake has come; writes have failed only if the client is gone.
Handshaking ==
  /\ broken => peer = "gone"
  /\ at \in {"idle", "detecting"} => protocol = "none"
  /\ protocol # "2" =>
       at \notin {"magic", "settings", "serving"} /\ written = <<>> /\ options = Defaults
  /\ protocol = "2" =>
       /\ at \in {"magic", "settings", "serving", "closed"} /\ sent # <<>>
       /\ at = "magic" => written = <<>> /\ options = Defaults
       /\ at = "settings" => written = <<ServerSettings>> /\ options = Defaults
       /\ at = "serving" =>
            /\ written = <<ServerSettings, AckOf(sent[1].frame)>>
            /\ Acceptable(sent[1].frame) /\ options = Heard(sent[1].frame)
       /\ at = "closed" /\ peer = "open" => ~Acceptable(sent[1].frame)

LEMMA HandshakingInit == Init => Handshaking
BY DEF Init, Handshaking, SocketInit, PrefaceInit, HandshakeInit, Versions

\* A client that has begun does not change its first frame.
LEMMA HandshakingClient ==
  ASSUME TypeOK, Handshaking, ClientStep, UNCHANGED <<prefaceVars, handshakeVars>>
  PROVE  Handshaking'
<1>1. /\ peer # "gone" /\ peer' \in {"open", "done", "gone"} /\ (peer' = "open" => peer = "open")
      /\ broken' = broken /\ UNCHANGED <<at, protocol, options, written>>
  BY DEF ClientStep, Send, Finish, Vanish, prefaceVars, handshakeVars, TypeOK
<1>2. sent # <<>> => sent' # <<>> /\ sent'[1] = sent[1]
  <2>1. ASSUME NEW r \in Requests, Send(r), sent # <<>> PROVE sent' # <<>> /\ sent'[1] = sent[1]
    BY <2>1 DEF Send, TypeOK
  <2> QED
    BY <2>1 DEF ClientStep, Finish, Vanish
<1> QED
  BY <1>1, <1>2 DEF Handshaking

LEMMA HandshakingPreface ==
  ASSUME TypeOK, Handshaking, Detect \/ ReadPreface, UNCHANGED handshakeVars
  PROVE  Handshaking'
<1>1. HasLine(pos) /\ UNCHANGED <<sent, peer, broken, options, written>>
  BY DEF Detect, ReadPreface, Consume, handshakeVars
<1>2. sent # <<>>
  BY <1>1 DEF HasLine, Arrived, TypeOK
<1>3. protocol # "2"
  BY DEF Handshaking, Detect, ReadPreface
<1>4. protocol' # "2" => at' \in {"detecting", "headers", "closed"}
  BY <1>3 DEF Detect, ReadPreface, AfterPreface
<1>5. at' \in {"idle", "detecting"} => protocol' = "none"
  BY <1>3 DEF Detect, ReadPreface, AfterPreface
<1>6. protocol' = "2" => at' = "magic"
  BY <1>3 DEF Detect, ReadPreface
<1> QED
  BY <1>1, <1>2, <1>3, <1>4, <1>5, <1>6 DEF Handshaking

LEMMA HandshakingClose ==
  ASSUME Handshaking, EndOfInput \/ ReadFails, UNCHANGED handshakeVars
  PROVE  Handshaking'
<1>1. peer # "open" /\ at' = "closed" /\ UNCHANGED <<sent, peer, broken, protocol, options, written>>
  BY DEF EndOfInput, ReadFails, ReadMayFail, Close, socketVars, handshakeVars
<1> QED
  BY <1>1 DEF Handshaking

\* An HTTP/1 task has no part in the handshake.
LEMMA HandshakingHttp1 ==
  ASSUME Handshaking, Http1Step, UNCHANGED handshakeVars
  PROVE  Handshaking'
<1>1. /\ at \in {"headers", "body", "dispatching"}
      /\ at' \in {"headers", "body", "dispatching", "line", "closed"}
      /\ UNCHANGED <<peer, protocol, options, written>>
  BY DEF Http1Step, ReadHeader, ReadBody, Dispatch, Consume, Build, Leave, NextRequest, handshakeVars
<1>2. broken' => peer = "gone"
  BY DEF Http1Step, ReadHeader, ReadBody, Dispatch, Consume, Respond, WriteOutcomes, Handshaking
<1> QED
  BY <1>1, <1>2 DEF Handshaking

\* A write fails only if the client is gone.
LEMMA HandshakingWrites ==
  ASSUME Handshaking, NEW next, NEW frame, WriteThen(next, frame)
  PROVE  /\ broken' => peer = "gone"
         /\ \/ at' = next /\ written' = Append(written, frame)
            \/ at' = "closed" /\ peer = "gone"
BY DEF WriteThen, WriteOutcomes, Handshaking

LEMMA AppendToOne ==
  ASSUME NEW a, NEW b, NEW list, list = <<a>>
  PROVE  Append(list, b) = <<a, b>>
<1>1. list \in Seq({a, b}) /\ Len(list) = 1 /\ list[1] = a
  OBVIOUS
<1>2. /\ Append(list, b) \in Seq({a, b}) /\ Len(Append(list, b)) = 2
      /\ Append(list, b)[1] = a /\ Append(list, b)[2] = b
  BY <1>1
<1>3. <<a, b>> \in Seq({a, b}) /\ Len(<<a, b>>) = 2
  OBVIOUS
<1>4. \A i \in 1..2 : Append(list, b)[i] = <<a, b>>[i]
  BY <1>2
<1> QED
  BY <1>2, <1>3, <1>4, SeqEqual

LEMMA HandshakingStep ==
  ASSUME Handshaking, HandshakeStep
  PROVE  Handshaking'
<1>1. UNCHANGED <<sent, peer, protocol>> /\ protocol = "2" /\ sent # <<>>
  BY DEF HandshakeStep, ReadMagic, ReadFirstFrame, Handshaking
<1>2. CASE ReadMagic
  <2>1. written = <<>> /\ options = Defaults /\ UNCHANGED options
    BY <1>2 DEF ReadMagic, Handshaking
  <2>2. /\ broken' => peer = "gone"
        /\ \/ at' = "settings" /\ written' = Append(written, ServerSettings)
           \/ at' = "closed" /\ peer = "gone"
    BY <1>2, HandshakingWrites DEF ReadMagic
  <2> QED
    BY <1>1, <2>1, <2>2 DEF Handshaking
<1>3. CASE ReadFirstFrame
  <2> DEFINE frame == sent[1].frame
  <2>1. written = <<ServerSettings>> /\ options = Defaults
    BY <1>3, <1>1 DEF ReadFirstFrame, Handshaking
  <2>2. CASE Acceptable(frame)
    <3>1. /\ broken' => peer = "gone"
          /\ \/ at' = "serving" /\ written' = Append(written, AckOf(frame))
             \/ at' = "closed" /\ peer = "gone"
      BY <1>3, <2>2, HandshakingWrites DEF ReadFirstFrame
    <3>2. options' = Heard(frame)
      BY <1>3, <2>1, <2>2 DEF ReadFirstFrame, Heard
    <3>3. Append(written, AckOf(frame)) = <<ServerSettings, AckOf(frame)>>
      BY <2>1, AppendToOne
    <3> QED
      BY <1>1, <2>2, <3>1, <3>2, <3>3 DEF Handshaking
  <2>3. CASE ~Acceptable(frame)
    <3>1. at' = "closed" /\ UNCHANGED broken
      BY <1>3, <2>3 DEF ReadFirstFrame
    <3> QED
      BY <1>1, <2>3, <3>1 DEF Handshaking
  <2> QED
    BY <2>2, <2>3
<1> QED
  BY <1>2, <1>3 DEF HandshakeStep

LEMMA HandshakingNext ==
  TypeOK /\ Handshaking /\ [Next]_vars => Handshaking'
<1> SUFFICES ASSUME TypeOK, Handshaking, [Next]_vars PROVE Handshaking'
  OBVIOUS
<1>1. CASE Application \/ UNCHANGED vars
  BY <1>1 DEF Application, vars, socketVars, prefaceVars, handshakeVars, Handshaking
<1>2. CASE Accept
  BY <1>2 DEF Accept, socketVars, handshakeVars, Handshaking
<1>3. CASE Client
  BY <1>3, HandshakingClient DEF Client
<1>4. CASE Task
  BY <1>4, HandshakingPreface, HandshakingClose, HandshakingHttp1, HandshakingStep DEF Task
<1> QED
  BY <1>1, <1>2, <1>3, <1>4 DEF Next

-----------------------------------------------------------------------------
(* What was agreed *)

LEMMA SixDivides == \A n \in Nat : (6 * n) % 6 = 0
OBVIOUS

\* The parameters the code passes are those the RFC does not forbid.
LEMMA ValidIsSound ==
  ASSUME NEW r \in Requests
  PROVE  LET parameters == r.frame.parameters
         IN  Valid(parameters) <=> \A i \in DOMAIN parameters : ~Forbidden(parameters[i])
<1> DEFINE parameters == r.frame.parameters
<1> SUFFICES ASSUME NEW i \in DOMAIN parameters
             PROVE  InRange(parameters[i]) <=> ~Forbidden(parameters[i])
  BY DEF Valid
<1>1. parameters[i].value \in Nat
  <2> DEFINE Parameter == [id : Identifiers \cup {"unknown"}, value : Nat]
  <2>1. parameters \in Seq(Parameter)
    BY ParametersAssumption
  <2>2. parameters[i] \in Parameter
    <3> HIDE DEF Parameter
    <3> QED
      BY <2>1
  <2> QED
    BY <2>2
<1>2. LargestWindow \in Nat /\ SmallestFrame \in Nat /\ LargestFrame \in Nat
  BY SettingsAssumption
<1> QED
  BY <1>1, <1>2 DEF InRange, Forbidden

\* The options after a list of parameters are those its last words give.
LEMMA HeardIsAgreed ==
  ASSUME NEW r \in Requests, r.frame.kind = "SETTINGS", NEW id \in Identifiers
  PROVE  Heard(r.frame)[id] = Agreed(r.frame.parameters, id)
<1> DEFINE parameters == r.frame.parameters
           named == Named(parameters, id)
<1>1. /\ Len(parameters) \in Nat /\ DOMAIN parameters = 1..Len(parameters)
      /\ named \in SUBSET (0..Len(parameters))
  BY ParametersAssumption DEF Named
<1>2. CASE named = {}
  BY <1>1, <1>2, UpdatedIs DEF Heard, Agreed
<1>3. CASE named # {}
  <2> DEFINE last == CHOOSE i \in named : \A j \in named : j <= i
  <2>1. last \in named /\ \A j \in named : j <= last
    <3> HIDE DEF named
    <3> QED
      BY <1>1, <1>3, LastExists
  <2>2. Heard(r.frame)[id] = Chosen(parameters[last])
    <3> HIDE DEF last
    <3> QED
      BY <1>1, <2>1, UpdatedIs DEF Heard
  <2>3. parameters[last].id = id
    <3> HIDE DEF last
    <3> QED
      BY <2>1 DEF Named
  <2> QED
    BY <1>3, <2>2, <2>3 DEF Agreed, Chosen
<1> QED
  BY <1>2, <1>3

\* HandshakeAsAgreed for every first frame, whatever its parameters, and every
\* default: an HTTP/2 client is served with the options its last words give, or
\* turned away only for a frame the code may refuse.
THEOREM HandshakeAgreed == Spec => []HandshakeAsAgreed
<1>1. Spec => [](TypeOK /\ Handshaking)
  BY TypeCorrect, HandshakingInit, HandshakingNext, PTL DEF Spec
<1>2. TypeOK /\ Handshaking => HandshakeAsAgreed
  <2> SUFFICES ASSUME TypeOK, Handshaking, protocol = "2" PROVE HandshakeAsAgreed
    BY DEF HandshakeAsAgreed
  <2> DEFINE frame == sent[1].frame
  <2>1. sent[1] \in Requests
    BY DEF Handshaking, TypeOK
  <2>2. Valid(frame.parameters) <=> \A i \in DOMAIN frame.parameters : ~Forbidden(frame.parameters[i])
    BY <2>1, ValidIsSound
  <2>3. frame.kind = "SETTINGS" =>
          \A id \in Identifiers : Heard(frame)[id] = Agreed(frame.parameters, id)
    BY <2>1, HeardIsAgreed
  <2>4. frame.len = 6 * Len(frame.parameters) => frame.len % 6 = 0
    <3>1. Len(frame.parameters) \in Nat
      BY <2>1, ParametersAssumption
    <3> QED
      BY <3>1, SixDivides, Zenon
  <2> HIDE DEF frame
  <2>5. ASSUME at = "serving"
        PROVE  /\ Len(written) = 2 /\ ~written[1].ack /\ written[2].ack
               /\ frame.kind = "SETTINGS" =>
                    /\ \A i \in DOMAIN frame.parameters : ~Forbidden(frame.parameters[i])
                    /\ \A id \in Identifiers : options[id] = Agreed(frame.parameters, id)
    <3>1. /\ written = <<ServerSettings, AckOf(frame)>>
          /\ Acceptable(frame) /\ options = Heard(frame)
      BY <2>5 DEF Handshaking, frame
    <3>2. Len(written) = 2 /\ ~written[1].ack /\ written[2].ack
      BY <3>1 DEF ServerSettings, AckOf
    <3>3. frame.kind = "SETTINGS" => Valid(frame.parameters)
      BY <3>1 DEF Acceptable
    <3> QED
      BY <2>2, <2>3, <3>1, <3>2, <3>3
  <2>6. ASSUME at = "closed", peer = "open", frame.kind = "SETTINGS", ~frame.ack, frame.sid = 0,
               \A i \in DOMAIN frame.parameters : ~Forbidden(frame.parameters[i]),
               frame.len = 6 * Len(frame.parameters), frame.len <= SmallestFrame
        PROVE  FALSE
    <3>1. ~Acceptable(frame)
      BY <2>6 DEF Handshaking, frame
    <3>2. frame.len <= Defaults["MAX_FRAME_SIZE"]
      BY <2>6, SettingsAssumption
    <3> QED
      BY <2>2, <2>4, <2>6, <3>1, <3>2 DEF Acceptable
  <2> QED
    BY <2>5, <2>6 DEF HandshakeAsAgreed, frame
<1> QED
  BY <1>1, <1>2, PTL
=============================================================================
