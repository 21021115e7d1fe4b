--------------------------- MODULE MCStreamContract ---------------------------
(* StreamContract for TLC: a client that keeps to the grammar of a request  *)
(* has at most MostInOrder frames forwarded, any other MaxFrames.           *)
EXTENDS StreamContract, TLC

CONSTANTS MaxFrames, MostInOrder
VARIABLE forwarded \* how many frames have been

F(kind, sid, es, eh, len, val) ==
  [kind |-> kind, sid |-> sid, es |-> es, eh |-> eh, ack |-> FALSE,
   len |-> len, pad |-> -1, val |-> val]

\* Header blocks in one frame or several, with and without END_STREAM.
MCBlocks == {F("HEADERS", 1, es, eh, 10, 0) : es \in BOOLEAN, eh \in BOOLEAN}
       \cup {F("CONTINUATION", 1, FALSE, eh, 5, 0) : eh \in BOOLEAN}
MCFrames == MCBlocks
       \cup {F("DATA", 1, es, FALSE, 1, 0) : es \in BOOLEAN}
       \cup {F("WINDOW_UPDATE", 1, FALSE, FALSE, 4, 2), F("RST_STREAM", 1, FALSE, FALSE, 4, 0)}

Most   == IF client = "orderly" THEN MostInOrder ELSE MaxFrames
MCInit == Init /\ forwarded = 0
MCNext == \/ /\ forwarded < Most /\ forwarded' = forwarded + 1
             /\ \E s \in Streams, f \in Frames : Forward(s, f)
          \/ OtherStep /\ UNCHANGED forwarded
MCSpec == MCInit /\ [][MCNext]_<<contractVars, forwarded>>
=============================================================================
