------------------------------- MODULE MCSockets -------------------------------
(***************************************************************************)
(* Clients for ConnectorProperties: HTTP/1 clients that frame their        *)
(* requests, HTTP/1 clients that do not, and HTTP/2 clients up to their    *)
(* first frame.                                                            *)
(***************************************************************************)
EXTENDS ConnectorProperties

NoFrame == [kind |-> "none", sid |-> 0, ack |-> FALSE, len |-> 0, parameters |-> <<>>]

Request(method, version, lines) ==
  [method |-> method, path |-> "/hello", version |-> version, lines |-> lines, frame |-> NoFrame]

Framing == {
  Request("GET",  "1.0", <<"start", "host", "blank">>),
  Request("GET",  "1.0", <<"start", "close", "keep-alive", "blank">>),
  Request("GET",  "1.1", <<"start", "host", "blank">>),
  Request("GET",  "1.1", <<"start", "keep-alive", "close", "blank">>),
  Request("POST", "1.1", <<"start", "length", "blank", "octets">>)}

Careless == {
  Request("GET",  "1.1", <<"start", "blank">>),
  Request("GET",  "1.1", <<"blank", "start", "host", "blank">>),
  Request("POST", "1.1", <<"start", "encoding", "blank", "text", "text", "blank">>),
  Request("POST", "1.1", <<"start", "encoding", "blank", "text", "blank">>),
  Request("POST", "1.1", <<"start", "badlength", "blank">>),
  Request("GET",  "other", <<"start", "length", "blank", "octets">>),
  Request("unknown", "1.1", <<"start", "host", "blank">>)}

Settings(ack, sid, len, parameters) ==
  [kind |-> "SETTINGS", sid |-> sid, ack |-> ack, len |-> len, parameters |-> parameters]

P(id, value) == [id |-> id, value |-> value]

FirstFrames == {
  Settings(FALSE, 0, 0, <<>>),
  Settings(FALSE, 0, 18, <<P("ENABLE_PUSH", 1), P("INITIAL_WINDOW_SIZE", 8), P("ENABLE_PUSH", 0)>>),
  Settings(FALSE, 0, 12, <<P("MAX_FRAME_SIZE", 20), P("MAX_FRAME_SIZE", 30)>>),
  Settings(FALSE, 0, 12, <<P("MAX_FRAME_SIZE", 31), P("MAX_FRAME_SIZE", 20)>>),
  Settings(FALSE, 0, 12, <<P("unknown", 99), P("INITIAL_WINDOW_SIZE", 9)>>),
  Settings(FALSE, 0, 6, <<P("ENABLE_PUSH", 2)>>),
  Settings(TRUE, 0, 0, <<>>),
  Settings(FALSE, 1, 0, <<>>),
  Settings(FALSE, 0, 7, <<P("HEADER_TABLE_SIZE", 0)>>),
  [NoFrame EXCEPT !.kind = "PING", !.len = 8],
  [NoFrame EXCEPT !.kind = "HEADERS", !.sid = 1]}

Hellos ==
  {[method |-> "unknown", path |-> "*", version |-> "2",
    lines |-> <<"start", "magic", "frame">>, frame |-> f] : f \in FirstFrames}

AnyRequest == Framing \cup Careless \cup Hellos

DefaultOptions ==
  [id \in Identifiers |-> CASE id = "ENABLE_PUSH"    -> FALSE
                            [] id = "MAX_FRAME_SIZE" -> 20
                            [] OTHER                 -> 1]

Route(method, path, handler) == [method |-> method, path |-> path, handler |-> handler]

Registered == {Route("GET", "/hello", "hello"), Route("GET", "/hello", "ballo"),
               Route("GET", "hello", "hello")}

\* Any two requests, or three of a few.
Few == {
  Request("GET",  "1.0", <<"start", "close", "keep-alive", "blank">>),
  Request("POST", "1.1", <<"start", "length", "blank", "octets">>),
  Request("GET",  "1.1", <<"start", "blank">>)}

OfFew == Len(sent') > 2 => \A i \in DOMAIN sent' : sent'[i] \in Few

ClientSpec == Init /\ [][Next /\ OfFew]_vars /\ WF_vars(Task)
=============================================================================
