------------------------- MODULE PersistentConnection -------------------------
(***************************************************************************)
(* What an HTTP/1 client may rely on, whatever happens to its socket: the  *)
(* answers are to its requests, in their order and one each; each says     *)
(* whether it is the last, as the client wished; and after the last there  *)
(* is none.  A connection may end at any time.                             *)
(***************************************************************************)
EXTENDS Naturals, Sequences

CONSTANTS Queries \* requests: their version, wish, and the handler they are for

VARIABLES asked,   \* the requests, in their order
          answers, \* the answers, in their order
          open

Init == asked = <<>> /\ answers = <<>> /\ open = TRUE

\* HTTP/1.0 closes unless it is asked not to, HTTP/1.1 keeps alive unless it
\* is asked to close.  The first request's version holds for the connection.
IsLast(q) == IF asked[1].version = "1.0" THEN q.wish # "keep-alive" ELSE q.wish = "close"

Ask(q) == asked' = Append(asked, q) /\ UNCHANGED <<answers, open>>

Answer ==
  /\ open /\ Len(answers) < Len(asked)
  /\ LET q == asked[Len(answers) + 1] IN
       /\ \E ok \in BOOLEAN :
            answers' = Append(answers, [by |-> q.handler, ok |-> ok, close |-> IsLast(q)])
       /\ open' = ~IsLast(q)
  /\ UNCHANGED asked

End == open /\ open' = FALSE /\ UNCHANGED <<asked, answers>>

Next == (\E q \in Queries : Ask(q)) \/ Answer \/ End

Spec == Init /\ [][Next]_<<asked, answers, open>>
=============================================================================
