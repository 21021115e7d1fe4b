------------------------------- MODULE Settings -------------------------------
(***************************************************************************)
(* The parameters of a SETTINGS frame (frame_settings.rs) and the options  *)
(* a connection keeps for its client (http2_conn_options.rs).              *)
(***************************************************************************)
EXTENDS Naturals, Sequences

CONSTANTS LargestWindow, \* 2^31 - 1
          SmallestFrame, \* 16384
          LargestFrame,  \* 2^24 - 1
          Defaults       \* Http2ConnectionOptions::default, whose enable_push is FALSE

\* The default max_frame_size is the least the RFC allows.
ASSUME SettingsAssumption ==
  /\ {LargestWindow, SmallestFrame, LargestFrame} \subseteq Nat
  /\ Defaults["MAX_FRAME_SIZE"] = SmallestFrame

Identifiers == {"HEADER_TABLE_SIZE", "ENABLE_PUSH", "MAX_CONCURRENT_STREAMS",
                "INITIAL_WINDOW_SIZE", "MAX_FRAME_SIZE", "MAX_HEADER_LIST_SIZE"}

\* An identifier that is not among them is passed over.
InRange(parameter) ==
  LET v == parameter.value IN
  CASE parameter.id = "ENABLE_PUSH"         -> v <= 1
    [] parameter.id = "INITIAL_WINDOW_SIZE" -> v <= LargestWindow
    [] parameter.id = "MAX_FRAME_SIZE"      -> v \in SmallestFrame..LargestFrame
    [] OTHER                                -> TRUE

\* Mutant of Valid: only the first parameter is looked at.
ValidFirst(parameters) == parameters = <<>> \/ InRange(parameters[1])

Valid(parameters) == \A i \in DOMAIN parameters : InRange(parameters[i])

Chosen(parameter) ==
  IF parameter.id = "ENABLE_PUSH" THEN parameter.value = 1 ELSE parameter.value

\* options: the parameters one after another; update: those that are there
\* replace what the connection had.
Updated(options, parameters) ==
  LET upTo[n \in 0..Len(parameters)] ==
        IF n = 0 THEN options
        ELSE [id \in Identifiers |-> IF id = parameters[n].id THEN Chosen(parameters[n])
                                     ELSE upTo[n - 1][id]]
  IN  upTo[Len(parameters)]
=============================================================================
