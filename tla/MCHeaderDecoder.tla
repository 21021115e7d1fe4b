---------------------------- MODULE MCHeaderDecoder ----------------------------
(* HeaderDecoder for TLC: the alphabets of fields. *)
EXTENDS HeaderDecoder

Good(names) == {[name |-> n, value |-> "good"] : n \in names}
Bad(names)  == {[name |-> n, value |-> "bad"] : n \in names}

AllFields == Good(PseudoNames \cup RegularNames) \cup Bad({":method", ":scheme", ":path", "te"})
=============================================================================
