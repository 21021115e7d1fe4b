----------------------------- MODULE MCDecodeOrder -----------------------------
(* Http2Connection for TLC, with the order in which header blocks end as the *)
(* client sends them, and the order in which the connection decodes them.    *)
EXTENDS MCConnection

VARIABLES ended,  \* the streams of the blocks that were forwarded whole
          decoded \* the streams of the blocks that were decoded

OrderInit == ConnInit /\ ended = <<>> /\ decoded = <<>>
OrderNext ==
  \/ /\ DecodeHeaders \/ DecodeTrailers
     /\ decoded' = Append(decoded, Head(toConn).sid)
     /\ UNCHANGED ended
  \/ /\ TakeStreamFrame
     /\ ended' = IF blocked' # <<>> /\ HasEndHeaders(Head(fromReader))
                 THEN Append(ended, Head(fromReader).sid) ELSE ended
     /\ UNCHANGED decoded
  \/ /\ Next /\ ~DecodeHeaders /\ ~DecodeTrailers /\ ~TakeStreamFrame
     /\ UNCHANGED <<ended, decoded>>
OrderSpec == OrderInit /\ [][OrderNext]_<<vars, ended, decoded>>

\* http2_header_decoder.rs: "Header compression is stateful.  One compression
\* context and one decompression context are used for the entire connection":
\* the blocks of a connection are decoded in the order in which they came.
DecodedInOrder ==
  \A i, j \in 1..Len(decoded) : i < j =>
    \E k, l \in 1..Len(ended) : k < l /\ ended[k] = decoded[i] /\ ended[l] = decoded[j]
=============================================================================
