---------------------------- MODULE HeaderDecoder ----------------------------
(***************************************************************************)
(* The checks http2_header_decoder.rs makes on a decoded header block: a   *)
(* pass over the fields, which stops at the first that is malformed, and   *)
(* what is asked of the block as a whole.  HPACK itself is a library, and  *)
(* its failure an outcome of Http2Connection.                              *)
(*                                                                         *)
(* A value is "good" or "bad", by the test the code puts it to: a method   *)
(* of the known five, a path that is not empty, a scheme that starts with  *)
(* http, te: trailers.  Other values are never looked at, and names and    *)
(* values are UTF-8 (a failure there is an outcome of Http2Connection too).*)
(***************************************************************************)
EXTENDS Integers, Sequences

CONSTANTS Fields,   \* the fields that may occur in a block
          MaxFields \* the longest block

RequestPseudo == {":method", ":scheme", ":authority", ":path"}
PseudoNames   == RequestPseudo \cup {":status"}
\* "Upper" has an uppercase letter; "announced" was named by a trailer field.
RegularNames  == {"te", "connection", "content-length", "trailer", "trailers",
                  "announced", "Upper"}
Field == [name : PseudoNames \cup RegularNames, value : {"good", "bad"}]

ASSUME FieldsAssumption == Fields \subseteq Field /\ MaxFields \in Nat

VARIABLES block,  \* "headers" or "trailers": which of the two functions runs
          fields, \* the fields read so far
          state,  \* Http2HeaderStateMachine
          seen,   \* the pseudo fields read, with their values
          kept,   \* does a field announce trailers, or was a trailer kept?
          outcome \* "reading", or what the function returns

vars == <<block, fields, state, seen, kept, outcome>>

Init == /\ block \in {"headers", "trailers"}
        /\ fields = <<>> /\ state = "Initial" /\ seen = {} /\ kept = FALSE
        /\ outcome = "reading"

IsPseudo(f) == f.name \in PseudoNames

\* Mutant of OutOfPlace: a pseudo field may follow a regular one.
OutOfPlaceOnce(f) == ~IsPseudo(f) /\ state = "Initial"

\* maybe_next_state, for a pseudo field and for another.
OutOfPlace(f) == IF IsPseudo(f) THEN state = "General" ELSE state = "Initial"

\* Mutant of Repeated: only the same field, with the same value, is a repetition.
RepeatedWhole(f) == f \in seen

\* A pseudo field whose name has been read before.
Repeated(f) == IsPseudo(f) /\ \E g \in seen : g.name = f.name

\* A field decode_headers returns at.
RefusedInHeaders(f) ==
  \/ f.name \in {"content-length", "Upper", "connection"}
  \/ OutOfPlace(f)
  \/ IsPseudo(f) /\ f.name \notin RequestPseudo
  \/ Repeated(f)
  \/ f = [name |-> "te", value |-> "bad"]

\* A field decode_trailers returns at.
RefusedInTrailers(f) == IsPseudo(f) \/ f.name \in {"Upper", "connection", "trailers"}

Read(f) == outcome = "reading" /\ Len(fields) < MaxFields /\ fields' = Append(fields, f)

ReadHeader(f) ==
  /\ block = "headers" /\ Read(f)
  /\ IF RefusedInHeaders(f)
     THEN outcome' = "malformed" /\ UNCHANGED <<state, seen, kept>>
     ELSE /\ state' = IF IsPseudo(f) THEN "Pseudo" ELSE "General"
          /\ seen'  = IF IsPseudo(f) THEN seen \cup {f} ELSE seen
          /\ kept'  = (kept \/ f.name = "trailer")
          /\ UNCHANGED outcome
  /\ UNCHANGED block

ReadTrailer(f) ==
  /\ block = "trailers" /\ Read(f)
  /\ IF RefusedInTrailers(f)
     THEN outcome' = "malformed" /\ UNCHANGED kept
     ELSE kept' = (kept \/ f.name = "announced") /\ UNCHANGED outcome
  /\ UNCHANGED <<block, state, seen>>

Has(name, value) == [name |-> name, value |-> value] \in seen

\* What is asked of a request as a whole.
Incomplete ==
  \/ Has(":path", "bad") /\ Has(":scheme", "good")
  \/ Has(":method", "bad")
  \/ {f.name : f \in seen} # RequestPseudo

Finish ==
  /\ outcome = "reading"
  /\ outcome' = CASE block = "trailers" -> (IF kept THEN "fields" ELSE "empty")
                  [] block = "headers" /\ Incomplete -> "malformed"
                  [] OTHER -> (IF kept THEN "trailer" ELSE "plain")
  /\ UNCHANGED <<block, fields, state, seen, kept>>

Next == (\E f \in Fields : ReadHeader(f) \/ ReadTrailer(f)) \/ Finish
Spec == Init /\ [][Next]_vars

-----------------------------------------------------------------------------
(* A well-formed block, as RFC 7540 8.1.2 defines it and the comments of     *)
(* decode_headers quote it, said of the list of fields alone.                *)

Count(name) == {i \in 1..Len(fields) : fields[i].name = name}
Single(name) == \A i, j \in Count(name) : i = j
Holds(name, value) == \E i \in Count(name) : fields[i].value = value

WellFormedFields ==
  \A i \in 1..Len(fields) :
    /\ fields[i].name \notin {"Upper", "connection"}
    /\ fields[i] # [name |-> "te", value |-> "bad"]

WellFormedStart ==
  /\ WellFormedFields
  /\ \A i, j \in 1..Len(fields) : i < j /\ IsPseudo(fields[j]) => IsPseudo(fields[i])
  /\ \A i \in 1..Len(fields) : IsPseudo(fields[i]) => fields[i].name \in RequestPseudo
  /\ \A name \in RequestPseudo : Single(name)

WellFormedRequest ==
  /\ WellFormedStart
  /\ Count(":method") # {} /\ Count(":scheme") # {} /\ Count(":path") # {}
  /\ ~Holds(":method", "bad")
  /\ ~(Holds(":path", "bad") /\ Holds(":scheme", "good"))

WellFormedTrailers ==
  /\ \A i \in 1..Len(fields) : ~IsPseudo(fields[i])
  /\ \A i \in 1..Len(fields) : fields[i].name \notin {"Upper", "connection"}

\* A request or trailers that decode_headers and decode_trailers let through
\* are well formed: one pass with three variables sees every order, every
\* repetition and every omission of fields.
OnlyWellFormed ==
  /\ outcome \in {"plain", "trailer"} => WellFormedRequest
  /\ outcome \in {"fields", "empty"}  => WellFormedTrailers

-----------------------------------------------------------------------------
(* The inductive invariant of the pass: what its variables know of the       *)
(* fields behind it, as long as none was refused.                            *)

PlaceInBlock == IF fields = <<>> THEN "Initial"
                ELSE IF IsPseudo(fields[Len(fields)]) THEN "Pseudo" ELSE "General"

PseudoRead == {fields[i] : i \in {j \in 1..Len(fields) : IsPseudo(fields[j])}}

\* The three variables of the pass tell the truth about every field read: the
\* place it is at, the pseudo fields there were, and whether trailers will come;
\* so no field that makes the block malformed gets past it.
PassRemembers ==
  /\ fields \in Seq(Fields)
  /\ block = "headers" /\ outcome # "malformed" =>
       /\ WellFormedStart
       /\ state = PlaceInBlock /\ seen = PseudoRead
       /\ kept = (Count("trailer") # {})
  /\ block = "trailers" /\ outcome # "malformed" =>
       /\ WellFormedTrailers
       /\ kept = (Count("announced") # {})
  /\ outcome \in {"plain", "trailer"} => block = "headers" /\ ~Incomplete
  /\ outcome \in {"fields", "empty"}  => block = "trailers"
=============================================================================
