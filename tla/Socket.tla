-------------------------------- MODULE Socket --------------------------------
(***************************************************************************)
(* The socket of one connection: what the client writes into it, and where *)
(* the server's BufReader stands.  A client writes whole requests, one     *)
(* after another without waiting; the last may be cut short by the end of  *)
(* the client.                                                             *)
(*                                                                         *)
(* A request is the sequence of its lines, reduced to what the server      *)
(* tells apart: the request line, the header fields, the empty line, lines *)
(* of any other text, and octets that no line feed ends.  An HTTP/2 client *)
(* is one "request": the line "PRI * HTTP/2.0", the eight octets after it, *)
(* and its first frame.                                                    *)
(***************************************************************************)
EXTENDS Naturals, Sequences

CONSTANTS Requests,   \* what a client may write
          MaxRequests \* how many of them it writes

\* Header fields: close and keep-alive are values of connection, length is a
\* content-length that agrees with the body, badlength one that is no number (or
\* a header that is no UTF-8, which ends the same way), encoding a
\* transfer-encoding, host any field that changes nothing.
Fields == {"host", "close", "keep-alive", "length", "badlength", "encoding"}
Part == Fields \cup {"start", "blank", "text", "octets", "magic", "frame"}
Versions == {"1.0", "1.1", "2", "other"}

ASSUME RequestsAssumption ==
  /\ MaxRequests \in Nat
  /\ \A r \in Requests :
       /\ r.version \in Versions /\ r.lines \in Seq(Part) /\ r.lines # <<>>
       /\ \A i, j \in DOMAIN r.lines : r.lines[i] = "start" /\ r.lines[j] = "start" => i = j

VARIABLES sent,    \* the requests the client has begun to write
          arrived, \* how many lines of the last of them have arrived
          peer,    \* the client: "open", "done" when it only reads, or "gone"
          pos,     \* the next line to be read: of which request, and which
          broken   \* has a write failed?

socketVars == <<sent, arrived, peer, pos, broken>>

SocketInit ==
  /\ sent = <<>> /\ arrived = 0 /\ peer = "open"
  /\ pos = [req |-> 1, line |-> 1]
  /\ broken = FALSE

-----------------------------------------------------------------------------
(* The client *)

\* HTTP/2 is spoken from the first octet and not mixed with HTTP/1.
MayFollow(r) == r.version # "2" /\ sent[1].version # "2"

Send(r) ==
  /\ peer = "open" /\ Len(sent) < MaxRequests
  /\ sent # <<>> => MayFollow(r)
  /\ sent' = Append(sent, r)
  /\ \E n \in 1..Len(r.lines) :
       /\ arrived' = n
       /\ peer' \in IF n = Len(r.lines) THEN {"open"} ELSE {"done", "gone"}
  /\ UNCHANGED <<pos, broken>>

Finish ==
  /\ peer = "open" /\ peer' = "done"
  /\ UNCHANGED <<sent, arrived, pos, broken>>

Vanish ==
  /\ peer # "gone" /\ peer' = "gone"
  /\ UNCHANGED <<sent, arrived, pos, broken>>

ClientStep == (\E r \in Requests : Send(r)) \/ Finish \/ Vanish

-----------------------------------------------------------------------------
(* What the server finds in its reader *)

PartAt(p)  == sent[p.req].lines[p.line]
Piece(p)   == [of |-> p.req, part |-> PartAt(p)]
After(p)   == IF p.line < Len(sent[p.req].lines) THEN [p EXCEPT !.line = @ + 1]
              ELSE [req |-> p.req + 1, line |-> 1]
Arrived(p) == p.req < Len(sent) \/ (p.req = Len(sent) /\ p.line <= arrived)

\* read_until: octets without a line feed are read together with the line
\* that follows them.
Joined(p)  == PartAt(p) = "octets"
HasLine(p) == Arrived(p) /\ (Joined(p) => Arrived(After(p)))
Line(p)    == IF Joined(p) THEN <<Piece(p), Piece(After(p))>> ELSE <<Piece(p)>>
Beyond(p)  == IF Joined(p) THEN After(After(p)) ELSE After(p)

\* Once the client is gone the system may report it on any read or write; what
\* has failed once fails again.
ReadMayFail   == peer = "gone"
WriteOutcomes == IF broken THEN {FALSE} ELSE IF peer = "gone" THEN BOOLEAN ELSE {TRUE}
=============================================================================
