------------------------------- MODULE Preface -------------------------------
(***************************************************************************)
(* create_connection_context (connection.rs): lines are read until they    *)
(* tell the protocol, which then holds for the whole connection; and       *)
(* parse_preface (connection_reader.rs), which looks for the request line  *)
(* in what was read.                                                       *)
(***************************************************************************)
EXTENDS Socket

VARIABLES at,       \* where the connection's task is
          protocol, \* a version, or "none" as long as it is not told
          preface   \* what was read of a request before its header

prefaceVars == <<at, protocol, preface>>

PrefaceInit == at = "idle" /\ protocol = "none" /\ preface = <<>>

Spells(piece, version) == piece.part = "start" /\ sent[piece.of].version = version

\* The whole buffer is looked at, its first line for HTTP/2, its last for HTTP/1.
VerifyProtocol(read) ==
  IF Spells(read[1], "2") THEN "2"
  ELSE IF \E v \in {"1.0", "1.1"} : Spells(read[Len(read)], v)
       THEN sent[read[Len(read)].of].version
       ELSE "none"

\* Three words make a request line, and only a "start" has as many.
HasThreeWords(read) == \E i \in DOMAIN read : read[i].part = "start"

\* split_whitespace skips empty lines.
FirstWord(read) ==
  read[CHOOSE i \in DOMAIN read :
         read[i].part # "blank" /\ \A j \in 1..(i - 1) : read[j].part = "blank"]

\* Method::from_str
HasMethod(read) ==
  FirstWord(read).part = "start" /\ sent[FirstWord(read).of].method # "unknown"

\* The request whose method and path are taken, 0 when there is none.
StartOf(read) == IF HasThreeWords(read) THEN FirstWord(read).of ELSE 0

\* What does not parse is passed over; a method that does not is an error.
AfterPreface(read) == IF HasThreeWords(read) => HasMethod(read) THEN "headers" ELSE "closed"

-----------------------------------------------------------------------------
Consume == HasLine(pos) /\ pos' = Beyond(pos) /\ UNCHANGED <<sent, arrived, peer, broken>>

Detect ==
  /\ at = "detecting" /\ Consume
  /\ preface' = preface \o Line(pos)
  /\ protocol' = VerifyProtocol(preface')
  /\ at' = CASE protocol' = "none" -> "detecting"
             [] protocol' = "2"    -> "magic"
             [] OTHER              -> AfterPreface(preface')

\* The preface of every later request is one line, whose version is not read.
ReadPreface ==
  /\ at = "line" /\ Consume
  /\ preface' = Line(pos)
  /\ at' = AfterPreface(preface')
  /\ UNCHANGED protocol

\* At the end of the stream a read returns nothing: create_connection_context
\* calls it again, every other reader gives up.
Close == at' = "closed" /\ UNCHANGED <<protocol, preface, socketVars>>

\* Mutant of EndOfInput: read_exact waits for more.
EndOfLines == peer # "open" /\ at \in {"line", "headers"} /\ ~HasLine(pos) /\ Close

EndOfInput ==
  /\ peer # "open"
  /\ \/ at \in {"line", "headers"} /\ ~HasLine(pos)
     \/ at \in {"body", "magic", "settings"} /\ ~Arrived(pos)
  /\ Close

ReadFails ==
  at \in {"detecting", "line", "headers", "body", "magic", "settings"} /\ ReadMayFail /\ Close
=============================================================================
