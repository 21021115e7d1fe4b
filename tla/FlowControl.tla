------------------------------ MODULE FlowControl ------------------------------
(***************************************************************************)
(* Flow control from the client's end: how much DATA the client of         *)
(* Http2Connection has allowed, against what the connection writes.  The   *)
(* server keeps two windows in two tasks, one per stream in Http2Stream    *)
(* and the connection's in ctx; the client keeps its own account.          *)
(*                                                                         *)
(* The client announces the initial window of its streams in SETTINGS, the *)
(* first of which precedes ConnInit.  The server stores it and never reads *)
(* it: its streams start with InitWindow, whatever was announced.          *)
(***************************************************************************)
EXTENDS ConnectionProperties, Functions

CONSTANT ClientWindows \* initial windows a client may announce

\* Identifiers have 31 bits.
ASSUME FiniteAssumption == IsFiniteSet(Streams)

ASSUME ClientWindowsAssumption == ClientWindows \subseteq Nat

VARIABLES granted,    \* the sum of the WINDOW_UPDATEs, 0 for the connection
          leastWindow \* the smallest initial window announced so far

flowVars == <<vars, granted, leastWindow>>

\* WINDOW_UPDATE allows more, at the latest once the server has read it.
Grant(f) == IF f.kind = "WINDOW_UPDATE" THEN f.val ELSE 0
Granting(f) == granted' = [granted EXCEPT ![f.sid] = @ + Grant(f)]

\* Any SETTINGS may announce another initial window.
Announcing(f) ==
  leastWindow' \in {leastWindow} \cup
    {w \in ClientWindows : f.kind = "SETTINGS" /\ ~f.ack /\ w < leastWindow}

FlowInit ==
  ConnInit /\ granted = [s \in Streams \cup {0} |-> 0] /\ leastWindow \in ClientWindows
FlowNext ==
  \/ \E f \in ClientFrames : ReadFrame(f) /\ Granting(f) /\ Announcing(f)
  \/ OtherThanReading /\ UNCHANGED <<granted, leastWindow>>
FlowSpec == FlowInit /\ [][FlowNext]_flowVars

DataSize(frame) == IF frame.kind = "DATA" THEN frame.len ELSE 0
DataIn(frames)  == SumFunction([i \in 1..Len(frames) |-> DataSize(frames[i])])
DataOf(lines)   == SumFunction([s \in Streams |-> DataIn(lines[s])])

\* The connection's own window is the same for every client.
Allowed(s) == granted[s] + (IF s = 0 THEN InitWindow ELSE leastWindow)

StreamsWithin    == \A s \in Streams : DataIn(wire[s]) <= Allowed(s)
ConnectionWithin == DataOf(wire) <= Allowed(0)

\* Flow control holds end to end: "on each individual stream and on the entire
\* connection" (frame_window_update.rs) the DATA written never exceeds what the
\* client has allowed.  It fails for a client that announces less than InitWindow
\* (run SmallWindow): window_size() in frame_settings.rs never gives its value.
AllowanceRespected == StreamsWithin /\ ConnectionWithin

\* On the connection it holds for every client, on streams for those that never
\* announce less than the server assumes, although the two windows are kept by
\* two tasks and debited at different times.
CreditRespected == ConnectionWithin /\ (leastWindow >= InitWindow => StreamsWithin)

-----------------------------------------------------------------------------
(* The inductive invariant: what the windows hold, and will hold when every  *)
(* WINDOW_UPDATE under way has arrived, is within the credit, that of a      *)
(* client which announces InitWindow; and a DATA frame on its way to the     *)
(* socket keeps to its stream's.                                             *)
credit == [s \in Streams \cup {0} |-> InitWindow + granted[s]]

GrantTo(f, s) == IF f.sid = s THEN Grant(f) ELSE 0
GrantOf(m)    == IF m.type = "FrameForRequest" THEN Grant(m.frame) ELSE 0

GrantsTo(frames, s) == SumFunction([i \in 1..Len(frames) |-> GrantTo(frames[i], s)])
GrantsOf(messages)  == SumFunction([i \in 1..Len(messages) |-> GrantOf(messages[i])])
GrantBlocked(s) ==
  IF blocked # <<>> /\ Head(blocked).to = s THEN GrantOf(Head(blocked).msg) ELSE 0

Coming(s) == GrantsOf(inbox[s]) + GrantBlocked(s) + GrantsTo(fromReader, s)

WindowKept(s) ==
  /\ task[s].phase = "absent" => task[s].window = InitWindow
  /\ task[s].phase \in {"absent", "running"} => task[s].window + Coming(s) <= credit[s]

Covered(m, s) ==
  Response(m) /\ m.sid = s =>
    \A i \in 1..Len(m.frames) : m.frames[i].kind = "DATA" => m.frames[i].len <= credit[s]

DataKept(s) ==
  /\ \A i \in 1..Len(toConn) : Covered(toConn[i], s)
  /\ task[s].out # <<>> => Covered(Head(task[s].out), s)
  /\ DataIn(wire[s]) <= credit[s]
  /\ ~Wrote("DATA", s) => DataIn(wire[s]) = 0

ConnectionKept == DataOf(wire) + ctx.window + GrantsTo(fromReader, 0) <= credit[0]

CreditKept ==
  /\ granted \in [Streams \cup {0} -> Nat]
  /\ \A s \in Streams : WindowKept(s) /\ DataKept(s)
  /\ ConnectionKept
=============================================================================
