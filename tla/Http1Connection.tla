--------------------------- MODULE Http1Connection ---------------------------
(***************************************************************************)
(* loop_http1 and loop_http11 (network_connector.rs) with handle_          *)
(* (connection_reader.rs): one request after another is read, dispatched   *)
(* and answered by the task of the connection.                             *)
(***************************************************************************)
EXTENDS Preface, Router

ASSUME RoutableAssumption ==
  \A r \in Requests : r.method \in Methods \cup {"unknown"} /\ r.path \in Paths

VARIABLES acc,        \* the lines read since the preface
          dispatched, \* what was handed to the dispatcher
          responses   \* what was written to the client

http1Vars == <<acc, dispatched, responses>>

Http1Init == acc = <<>> /\ dispatched = <<>> /\ responses = <<>>

-----------------------------------------------------------------------------
(* The header *)

\* Mutant of Terminated: the request line is counted as one of acc's.
TerminatedLate(lines) == Len(lines) >= 3 /\ lines[Len(lines)] = "blank"

\* acc.ends_with("\r\n\r\n"): an empty line after another line.
Terminated(lines) == Len(lines) >= 2 /\ lines[Len(lines)] = "blank"

\* parse_header stops at the first empty line.
Header(lines) ==
  LET first == CHOOSE i \in DOMAIN lines :
                 lines[i] = "blank" /\ \A j \in 1..(i - 1) : lines[j] # "blank"
  IN  SubSeq(lines, 1, first - 1)

\* A field that is repeated has its last value; what is no field is passed over.
LastOf(values, header) ==
  IF \E i \in DOMAIN header : header[i] \in values
  THEN header[CHOOSE i \in DOMAIN header :
                header[i] \in values /\ \A j \in DOMAIN header : j > i => header[j] \notin values]
  ELSE "none"

ContentLength(header) == LastOf({"length", "badlength"}, header)

\* Mutant of ShouldClose: HTTP/1.0 keeps alive too.
ShouldCloseWhenAsked(header) == LastOf({"close", "keep-alive"}, header) = "close"

\* Http1RequestContext::should_close and Http11RequestContext::should_close
ShouldClose(header) ==
  LET wish == LastOf({"close", "keep-alive"}, header)
  IN  IF protocol = "1.0" THEN wish # "keep-alive" ELSE wish = "close"

-----------------------------------------------------------------------------
(* handle_ *)

\* Mutant of Build: the method and the path are not missed.
BuildAnyway(header, body) ==
  /\ at' = "dispatching"
  /\ dispatched' = Append(dispatched,
                     [of |-> StartOf(preface), header |-> header, body |-> body])

\* The request is built, which fails without a method and a path.
Build(header, body) ==
  IF StartOf(preface) = 0
  THEN at' = "closed" /\ UNCHANGED dispatched
  ELSE /\ at' = "dispatching"
       /\ dispatched' = Append(dispatched,
                          [of |-> StartOf(preface), header |-> header, body |-> body])

ReadHeader ==
  /\ at = "headers" /\ Consume
  /\ acc' = Append(acc, IF Joined(pos) THEN "text" ELSE PartAt(pos))
  /\ IF ~Terminated(acc') THEN UNCHANGED <<at, dispatched>>
     ELSE LET header == Header(acc') IN
          CASE ContentLength(header) = "badlength" -> at' = "closed" /\ UNCHANGED dispatched
            [] ContentLength(header) = "length"    -> at' = "body" /\ UNCHANGED dispatched
            [] OTHER                               -> Build(header, <<>>)
  /\ UNCHANGED <<protocol, preface, responses>>

ReadBody ==
  /\ at = "body" /\ Arrived(pos)
  /\ Build(Header(acc), <<Piece(pos)>>)
  /\ pos' = After(pos)
  /\ UNCHANGED <<sent, arrived, peer, broken, protocol, preface, acc, responses>>

-----------------------------------------------------------------------------
(* dispatch and response *)

Outcomes(handler) == IF handler = Nobody THEN {"ok"} ELSE {"ok", "error", "panic"}

\* Mutant of NextRequest: the preface is cloned and not taken.
SamePreface == at' = "headers" /\ acc' = <<>> /\ UNCHANGED preface

\* handle_ starts anew, without the preface, which the first turn has taken.
NextRequest == at' = "line" /\ acc' = <<>> /\ preface' = <<>>

\* A response is written whole or not at all; a failed write is only logged.
Respond(response) ==
  \E written \in WriteOutcomes :
    /\ broken' = ~written
    /\ responses' = IF written THEN Append(responses, response) ELSE responses

Leave == at' = "closed" /\ UNCHANGED <<acc, preface>>

\* A handler that panics takes the task of the connection with it.
Dispatch ==
  /\ at = "dispatching"
  /\ LET request == dispatched[Len(dispatched)]
         handler == Find(sent[request.of].method, sent[request.of].path)
         close   == ShouldClose(request.header)
     IN  \E outcome \in Outcomes(handler) :
           IF outcome = "panic" THEN Leave /\ UNCHANGED <<broken, responses>>
           ELSE /\ Respond([by |-> handler, ok |-> outcome = "ok", close |-> close])
                /\ IF close THEN Leave ELSE NextRequest
  /\ UNCHANGED <<sent, arrived, peer, pos, protocol, dispatched>>

Http1Step == ReadHeader \/ ReadBody \/ Dispatch
=============================================================================
