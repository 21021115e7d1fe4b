--------------------------- MODULE NetworkConnector ---------------------------
(***************************************************************************)
(* The task of one connection from the accepted socket on: the protocol is *)
(* detected, and HTTP/1 is served to its end or HTTP/2 up to the end of    *)
(* the handshake (network_connector.rs, server.rs).                        *)
(***************************************************************************)
EXTENDS Http1Connection, Http2Handshake

vars == <<socketVars, prefaceVars, http1Vars, handshakeVars, routerVars>>

Init ==
  /\ SocketInit /\ PrefaceInit /\ Http1Init /\ HandshakeInit /\ RouterInit

\* Server::serve
Accept ==
  /\ server = "serving" /\ at = "idle" /\ at' = "detecting"
  /\ UNCHANGED <<protocol, preface, socketVars, http1Vars, handshakeVars, routerVars>>

\* NetworkConnector::handle
Task ==
  \/ (Detect \/ ReadPreface \/ EndOfInput \/ ReadFails)
     /\ UNCHANGED <<http1Vars, handshakeVars, routerVars>>
  \/ Http1Step /\ UNCHANGED <<handshakeVars, routerVars>>
  \/ HandshakeStep /\ UNCHANGED <<http1Vars, routerVars>>

Client ==
  at # "idle" /\ ClientStep
  /\ UNCHANGED <<prefaceVars, http1Vars, handshakeVars, routerVars>>

Application ==
  RouterStep /\ UNCHANGED <<socketVars, prefaceVars, http1Vars, handshakeVars>>

Next == Application \/ Accept \/ Client \/ Task

Spec == Init /\ [][Next]_vars

\* Tokio polls a task whose socket is ready or whose handler has returned; the
\* client owes nothing.
FairSpec == Spec /\ WF_vars(Task)
=============================================================================
