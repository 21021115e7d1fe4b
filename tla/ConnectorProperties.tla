-------------------------- MODULE ConnectorProperties --------------------------
(***************************************************************************)
(* What the task of a connection guarantees to an HTTP/1 client that       *)
(* frames its requests, to any other, and to an HTTP/2 client during the   *)
(* handshake.                                                              *)
(***************************************************************************)
EXTENDS NetworkConnector

\* A request every reader delimits alike: a request line this server can serve,
\* at least one header field, none of them a transfer coding or a broken
\* length, and a body if and only if its length is announced.
HeaderEnd(r) == CHOOSE b \in DOMAIN r.lines :
                  r.lines[b] = "blank" /\ \A i \in 1..(b - 1) : r.lines[i] # "blank"
HeaderOf(r)  == SubSeq(r.lines, 2, HeaderEnd(r) - 1)
BodyOf(r)    == SubSeq(r.lines, HeaderEnd(r) + 1, Len(r.lines))

Framed(r) ==
  /\ r.method # "unknown" /\ r.version \in {"1.0", "1.1"}
  /\ r.lines[1] = "start"
  /\ \E b \in DOMAIN r.lines :
       /\ b >= 3 /\ r.lines[b] = "blank"
       /\ \A i \in 2..(b - 1) : r.lines[i] \in Fields \ {"encoding", "badlength"}
  /\ BodyOf(r) = IF \E i \in DOMAIN HeaderOf(r) : HeaderOf(r)[i] = "length"
                 THEN <<"octets">> ELSE <<>>

\* The requests that have arrived whole, up to the first that is not framed.
Whole(i)   == i < Len(sent) \/ arrived = Len(sent[i].lines)
Leads(k)   == \A i \in 1..k : Framed(sent[i]) /\ Whole(i)
LastFramed == CHOOSE k \in 0..Len(sent) : Leads(k) /\ (k < Len(sent) => ~Leads(k + 1))

Lesser(m, n) == IF m <= n THEN m ELSE n

-----------------------------------------------------------------------------
(* HTTP/1 *)

Query(r) == [version |-> r.version, handler |-> Find(r.method, r.path),
             wish |-> LastOf({"close", "keep-alive"}, HeaderOf(r))]

AnyQuery == [version : {"1.0", "1.1"}, handler : Handlers \cup {Nobody},
             wish : {"none", "close", "keep-alive"}]

Asked    == [k \in 1..LastFramed |-> Query(sent[k])]
Answered == SubSeq(responses, 1, Lesser(Len(responses), LastFramed))
Open     == at # "closed"

Contract == INSTANCE PersistentConnection WITH
  Queries <- AnyQuery, asked <- Asked, answers <- Answered, open <- Open

\* The answers a client gets to the requests it frames are those of a
\* persistent connection, whatever it sends after them and whenever it goes:
\* answer k is by the handler of request k, announces the end of the connection
\* exactly when its Connection field or the first request's version demands it,
\* and none follows that one or a failed write (loop_http1, loop_http11).
ServesAsPromised == Contract!Spec

\* What a handler is given of a framed request is what its client sent, neither
\* more nor less, though requests follow each other without a pause: the header
\* ends where it does, and the body neither loses an octet to the next request
\* nor takes one of it (handle_, parse_header, parse_body).
HandledAsSent ==
  \A k \in DOMAIN dispatched :
    k <= LastFramed =>
      dispatched[k] = [of |-> k, header |-> HeaderOf(sent[k]),
                       body |-> [i \in DOMAIN BodyOf(sent[k]) |-> [of |-> k, part |-> "octets"]]]

\* No request is handed to a handler twice, and none before an earlier one,
\* even if the client's framing is broken and header lines, bodies or whole
\* requests are taken for something else (the preface is taken out of its
\* Option by the first turn of the loop and read anew by each later one).
NeverServedTwice ==
  \A i, j \in DOMAIN dispatched : i < j => dispatched[i].of < dispatched[j].of

\* A client that has sent k framed requests and stays is answered k times,
\* unless an answer told it that there would be no more, or a handler panicked
\* and took the connection with it: the loop neither waits for a line that a
\* framed request does not have nor stops at a request it can serve.
SaidItsLast == \E i \in DOMAIN responses : responses[i].close
HandlerDied == at = "closed" /\ Len(dispatched) > Len(responses)

RequestsServed ==
  \A k \in 1..MaxRequests :
    LastFramed >= k ~> \/ Len(responses) >= k \/ SaidItsLast \/ HandlerDied
                       \/ peer = "gone"

\* A connection whose protocol is told does not outlive its client: once there
\* is nothing more to come every reader comes to the end of the stream and
\* gives up, in the middle of a header, of a body or of the handshake too.
ConnectionEnds ==
  peer # "open" /\ protocol # "none" ~> at \in {"closed", "serving"}

-----------------------------------------------------------------------------
(* HTTP/2 *)

\* The value a client's parameters give to an option: that of the last which
\* names it.
Named(parameters, id) == {i \in DOMAIN parameters : parameters[i].id = id}

Agreed(parameters, id) ==
  IF Named(parameters, id) = {} THEN Defaults[id]
  ELSE LET i == CHOOSE i \in Named(parameters, id) :
                  \A j \in Named(parameters, id) : j <= i
       IN  IF id = "ENABLE_PUSH" THEN parameters[i].value = 1 ELSE parameters[i].value

\* RFC 7540, 6.5.2, quoted in frame_settings.rs.
Forbidden(parameter) ==
  \/ parameter.id = "ENABLE_PUSH" /\ parameter.value > 1
  \/ parameter.id = "INITIAL_WINDOW_SIZE" /\ parameter.value > LargestWindow
  \/ parameter.id = "MAX_FRAME_SIZE"
     /\ (parameter.value < SmallestFrame \/ parameter.value > LargestFrame)

\* An HTTP/2 connection is served only after both sides' SETTINGS, and with the
\* options the client's last word on each identifier gives: no value the RFC
\* forbids is ever among them, wherever in the frame it stands and even if a
\* later one overrides it, and no other client is turned away while it waits.
HandshakeAsAgreed ==
  protocol = "2" =>
    LET frame    == sent[1].frame
        settings == frame.kind = "SETTINGS"
        sound    == \A i \in DOMAIN frame.parameters : ~Forbidden(frame.parameters[i])
    IN  /\ at = "serving" =>
             /\ Len(written) = 2 /\ ~written[1].ack /\ written[2].ack
             /\ settings => sound /\ \A id \in Identifiers : options[id] = Agreed(frame.parameters, id)
        /\ at = "closed" /\ peer = "open" =>
             ~(settings /\ ~frame.ack /\ frame.sid = 0 /\ sound
               /\ frame.len = 6 * Len(frame.parameters) /\ frame.len <= SmallestFrame)

-----------------------------------------------------------------------------
(* The rest *)

\* Types; and the reader never stands where no client could have written.
Pieces  == [of : Nat \ {0}, part : Part]
Calls   == [of : Nat \ {0}, header : Seq(Part), body : Seq(Pieces)]
Answers == [by : Handlers \cup {Nobody}, ok : BOOLEAN, close : BOOLEAN]

Standing(p) ==
  IF p.req <= Len(sent) THEN p.line <= Len(sent[p.req].lines)
  ELSE p = [req |-> Len(sent) + 1, line |-> 1]

TypeOK ==
  /\ sent \in Seq(Requests) /\ peer \in {"open", "done", "gone"} /\ broken \in BOOLEAN
  /\ arrived \in Nat /\ pos \in [req : Nat \ {0}, line : Nat \ {0}]
  /\ sent # <<>> => arrived \in 1..Len(sent[Len(sent)].lines)
  /\ Standing(pos)
  /\ at \in {"idle", "detecting", "line", "headers", "body", "dispatching",
             "magic", "settings", "serving", "closed"}
  /\ protocol \in Versions \cup {"none"}
  /\ preface \in Seq(Pieces) /\ acc \in Seq(Part)
  /\ dispatched \in Seq(Calls) /\ responses \in Seq(Answers)
  /\ routes \in [Methods -> [Paths -> Handlers \cup {Nobody}]]
  /\ server \in {"building", "serving", "failed"}

-----------------------------------------------------------------------------
(* What a comment of the source states and the code does not do: the         *)
(* property of a run that finds it violated.                                 *)

\* connection.rs:86 says of read_until that nothing read is "the end of the
\* connection, not a slow one": a connection whose protocol is not told by then
\* should end its detection.
EofEndsDetection ==
  at = "detecting" /\ peer = "done" /\ ~HasLine(pos) ~> at # "detecting"
=============================================================================
