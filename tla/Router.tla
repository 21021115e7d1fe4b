-------------------------------- MODULE Router --------------------------------
(***************************************************************************)
(* dispatcher.rs and server.rs: routes are registered while the server is  *)
(* built, and only read once it serves.  The router has a map for each     *)
(* method, from paths to handlers.                                         *)
(***************************************************************************)
CONSTANTS Paths,        \* paths of routes and of requests
          RootedPaths,  \* those that start with "/"
          Handlers,     \* the handlers of the application
          Registrations \* calls of ServerBuilder::add the application may make

Methods == {"GET", "POST", "PUT", "DELETE", "HEAD"}

Nobody == "nobody"

ASSUME RoutesAssumption ==
  /\ RootedPaths \subseteq Paths /\ Nobody \notin Handlers
  /\ Registrations \subseteq [method : Methods, path : Paths, handler : Handlers]

VARIABLES routes, \* which handler is registered for a method and a path
          server  \* "building", "serving", or "failed" when main has returned

routerVars == <<routes, server>>

RouterInit == routes = [m \in Methods |-> [p \in Paths |-> Nobody]] /\ server = "building"

\* Router::find; a method that does not parse has no request to look up.
Find(method, path) == routes[method][path]

Accepts(c) == c.path \in RootedPaths /\ Find(c.method, c.path) = Nobody

\* ServerBuilder::add; main propagates the error of one that is refused.
Register(c) ==
  /\ server = "building"
  /\ IF Accepts(c)
     THEN routes' = [routes EXCEPT ![c.method][c.path] = c.handler] /\ UNCHANGED server
     ELSE server' = "failed" /\ UNCHANGED routes

Serve == server = "building" /\ server' = "serving" /\ UNCHANGED routes

RouterStep == (\E c \in Registrations : Register(c)) \/ Serve
=============================================================================
