-------------------------- MODULE HeaderDecoderProofs --------------------------
(***************************************************************************)
(* Proofs about the pass over a decoded header block (HeaderDecoder.tla),  *)
(* for every alphabet of fields and blocks of any length.                  *)
(***************************************************************************)
EXTENDS HeaderDecoder, TLAPS

-----------------------------------------------------------------------------
(* What one more field changes *)

LEMMA FieldAdded ==
  ASSUME NEW f \in Fields, fields \in Seq(Fields), fields' = Append(fields, f)
  PROVE  /\ fields' \in Seq(Fields) /\ fields' # <<>>
         /\ Len(fields) \in Nat /\ Len(fields') = Len(fields) + 1
         /\ 1..Len(fields') = 1..Len(fields) \cup {Len(fields) + 1}
         /\ Len(fields) + 1 \notin 1..Len(fields)
         /\ fields'[Len(fields) + 1] = f
         /\ \A i \in 1..Len(fields) : fields'[i] = fields[i]
OBVIOUS

LEMMA CountAdded ==
  ASSUME NEW f \in Fields, fields \in Seq(Fields), fields' = Append(fields, f), NEW name
  PROVE  Count(name)' = Count(name) \cup (IF f.name = name THEN {Len(fields) + 1} ELSE {})
BY FieldAdded DEF Count

LEMMA PseudoAdded ==
  ASSUME NEW f \in Fields, fields \in Seq(Fields), fields' = Append(fields, f)
  PROVE  PseudoRead' = PseudoRead \cup (IF IsPseudo(f) THEN {f} ELSE {})
<1>1. /\ 1..Len(fields') = 1..Len(fields) \cup {Len(fields) + 1}
      /\ fields'[Len(fields) + 1] = f
      /\ \A i \in 1..Len(fields) : fields'[i] = fields[i]
  BY FieldAdded
<1>2. \A g : g \in PseudoRead' <=> \E i \in 1..Len(fields') : IsPseudo(fields'[i]) /\ g = fields'[i]
  BY DEF PseudoRead, IsPseudo
<1>3. \A g : g \in PseudoRead <=> \E i \in 1..Len(fields) : IsPseudo(fields[i]) /\ g = fields[i]
  BY DEF PseudoRead
<1>4. \A g : g \in PseudoRead' <=> g \in PseudoRead \/ (IsPseudo(f) /\ g = f)
  BY <1>1, <1>2, <1>3
<1> QED
  BY <1>4

LEMMA PlaceAdded ==
  ASSUME NEW f \in Fields, fields \in Seq(Fields), fields' = Append(fields, f)
  PROVE  PlaceInBlock' = IF IsPseudo(f) THEN "Pseudo" ELSE "General"
BY FieldAdded DEF PlaceInBlock, IsPseudo

\* The name of a pseudo field that has been read is among the names of seen.
LEMMA SeenNames ==
  ASSUME NEW name \in PseudoNames
  PROVE  Count(name) # {} <=> \E g \in PseudoRead : g.name = name
BY DEF Count, PseudoRead, IsPseudo

-----------------------------------------------------------------------------
(* The steps of the pass *)

\* A field the pass accepts leaves a well-formed start of a request.
LEMMA StartGrows ==
  ASSUME NEW f \in Fields, PassRemembers, block = "headers", outcome = "reading",
         fields' = Append(fields, f), ~RefusedInHeaders(f)
  PROVE  WellFormedStart'
<1> USE DEF PassRemembers
<1>1. /\ fields \in Seq(Fields) /\ WellFormedStart
      /\ state = PlaceInBlock /\ seen = PseudoRead
  OBVIOUS
<1>2. /\ 1..Len(fields') = 1..Len(fields) \cup {Len(fields) + 1}
      /\ Len(fields) \in Nat /\ fields'[Len(fields) + 1] = f
      /\ \A i \in 1..Len(fields) : fields'[i] = fields[i]
  BY <1>1, FieldAdded
<1>3. WellFormedFields'
  BY <1>1, <1>2 DEF WellFormedStart, WellFormedFields, RefusedInHeaders
<1>4. \A i, j \in 1..Len(fields') : i < j /\ IsPseudo(fields'[j]) => IsPseudo(fields'[i])
  <2> SUFFICES ASSUME NEW i \in 1..Len(fields'), NEW j \in 1..Len(fields'), i < j,
                      IsPseudo(fields'[j])
               PROVE  IsPseudo(fields'[i])
    OBVIOUS
  <2>1. i \in 1..Len(fields)
    BY <1>2
  <2>2. CASE j \in 1..Len(fields)
    BY <1>1, <1>2, <2>1, <2>2 DEF WellFormedStart
  <2>3. CASE j = Len(fields) + 1
    <3>1. IsPseudo(f) /\ state # "General"
      BY <1>2, <2>3 DEF RefusedInHeaders, OutOfPlace
    <3>2. fields # <<>>
      BY <1>1, <2>1
    <3>3. IsPseudo(fields[Len(fields)])
      BY <1>1, <3>1, <3>2 DEF PlaceInBlock
    <3>4. Len(fields) \in 1..Len(fields) /\ (i < Len(fields) \/ i = Len(fields))
      BY <1>2, <2>1
    <3> QED
      BY <1>1, <1>2, <2>1, <3>3, <3>4 DEF WellFormedStart
  <2> QED
    BY <1>2, <2>2, <2>3
<1>5. \A i \in 1..Len(fields') : IsPseudo(fields'[i]) => fields'[i].name \in RequestPseudo
  BY <1>1, <1>2 DEF WellFormedStart, RefusedInHeaders
<1>6. \A name \in RequestPseudo : Single(name)'
  <2> TAKE name \in RequestPseudo
  <2>1. Single(name) /\ name \in PseudoNames
    BY <1>1 DEF WellFormedStart, PseudoNames
  <2>2. CASE f.name = name
    <3>1. IsPseudo(f) /\ Count(name) = {}
      BY <1>1, <2>1, <2>2, SeenNames DEF IsPseudo, RefusedInHeaders, Repeated
    <3> QED
      BY <1>1, <3>1, CountAdded DEF Single
  <2>3. CASE f.name # name
    BY <1>1, <2>1, <2>3, CountAdded DEF Single
  <2> QED
    BY <2>2, <2>3
<1> QED
  BY <1>3, <1>4, <1>5, <1>6 DEF WellFormedStart, IsPseudo

LEMMA ReadHeaderKeeps ==
  ASSUME PassRemembers, NEW f \in Fields, ReadHeader(f)
  PROVE  PassRemembers'
<1>1. /\ block = "headers" /\ block' = "headers" /\ outcome = "reading"
      /\ fields \in Seq(Fields) /\ fields' = Append(fields, f)
  BY DEF ReadHeader, Read, PassRemembers
<1>2. fields' \in Seq(Fields)
  BY <1>1, FieldAdded
<1>3. CASE RefusedInHeaders(f)
  BY <1>1, <1>2, <1>3 DEF ReadHeader, PassRemembers
<1>4. CASE ~RefusedInHeaders(f)
  <2>1. WellFormedStart'
    BY <1>1, <1>4, StartGrows
  <2>2. state' = PlaceInBlock'
    BY <1>1, <1>4, PlaceAdded DEF ReadHeader
  <2>3. seen' = PseudoRead'
    BY <1>1, <1>4, PseudoAdded DEF ReadHeader, PassRemembers
  <2>4. kept' = (Count("trailer")' # {})
    BY <1>1, <1>4, CountAdded DEF ReadHeader, PassRemembers
  <2>5. outcome' = "reading"
    BY <1>1, <1>4 DEF ReadHeader
  <2> QED
    BY <1>1, <1>2, <2>1, <2>2, <2>3, <2>4, <2>5 DEF PassRemembers
<1> QED
  BY <1>3, <1>4

LEMMA ReadTrailerKeeps ==
  ASSUME PassRemembers, NEW f \in Fields, ReadTrailer(f)
  PROVE  PassRemembers'
<1>1. /\ block = "trailers" /\ block' = "trailers" /\ outcome = "reading"
      /\ fields \in Seq(Fields) /\ fields' = Append(fields, f)
  BY DEF ReadTrailer, Read, PassRemembers
<1>2. fields' \in Seq(Fields)
  BY <1>1, FieldAdded
<1>3. CASE RefusedInTrailers(f)
  BY <1>1, <1>2, <1>3 DEF ReadTrailer, PassRemembers
<1>4. CASE ~RefusedInTrailers(f)
  <2>1. WellFormedTrailers'
    BY <1>1, <1>4, FieldAdded DEF PassRemembers, WellFormedTrailers, RefusedInTrailers, IsPseudo
  <2>2. kept' = (Count("announced")' # {})
    BY <1>1, <1>4, CountAdded DEF ReadTrailer, PassRemembers
  <2>3. outcome' = "reading"
    BY <1>1, <1>4 DEF ReadTrailer
  <2> QED
    BY <1>1, <1>2, <2>1, <2>2, <2>3 DEF PassRemembers
<1> QED
  BY <1>3, <1>4

\* A property of the fields alone does not change while they stay.
LEMMA FieldsKept ==
  ASSUME fields' = fields
  PROVE  /\ WellFormedStart' <=> WellFormedStart
         /\ WellFormedTrailers' <=> WellFormedTrailers
         /\ PlaceInBlock' = PlaceInBlock /\ PseudoRead' = PseudoRead
         /\ Count("trailer")' = Count("trailer") /\ Count("announced")' = Count("announced")
BY DEF WellFormedStart, WellFormedFields, WellFormedTrailers, Single, Count, IsPseudo,
       PlaceInBlock, PseudoRead

LEMMA FinishKeeps ==
  ASSUME PassRemembers, block \in {"headers", "trailers"}, Finish
  PROVE  PassRemembers'
<1>1. UNCHANGED <<block, fields, state, seen, kept>> /\ outcome = "reading"
  BY DEF Finish
<1>2. Incomplete' <=> Incomplete
  BY <1>1 DEF Incomplete, Has
<1> QED
  BY <1>1, <1>2, FieldsKept DEF Finish, PassRemembers

LEMMA PassStep ==
  ASSUME PassRemembers, block \in {"headers", "trailers"}, [Next]_vars
  PROVE  PassRemembers' /\ block' \in {"headers", "trailers"}
<1>1. ASSUME NEW f \in Fields, ReadHeader(f) \/ ReadTrailer(f)
      PROVE  PassRemembers' /\ block' = block
  BY <1>1, ReadHeaderKeeps, ReadTrailerKeeps DEF ReadHeader, ReadTrailer
<1>2. CASE Finish
  BY <1>2, FinishKeeps DEF Finish
<1>3. CASE UNCHANGED vars
  <2>1. Incomplete' <=> Incomplete
    BY <1>3 DEF vars, Incomplete, Has
  <2> QED
    BY <1>3, <2>1, FieldsKept DEF vars, PassRemembers
<1> QED
  BY <1>1, <1>2, <1>3 DEF Next

\* What the pass remembers is what it has read.
THEOREM PassIsFaithful == Spec => []PassRemembers
<1>1. Init => PassRemembers /\ block \in {"headers", "trailers"}
  <2> SUFFICES ASSUME Init PROVE PassRemembers /\ block \in {"headers", "trailers"}
    OBVIOUS
  <2>1. fields = <<>> /\ fields \in Seq(Fields) /\ 1..Len(fields) = {}
    BY DEF Init
  <2>2. (\A name : Count(name) = {}) /\ PseudoRead = {} /\ PlaceInBlock = "Initial"
    BY <2>1 DEF Count, PseudoRead, PlaceInBlock
  <2>3. WellFormedStart /\ WellFormedTrailers
    BY <2>1, <2>2 DEF WellFormedStart, WellFormedFields, WellFormedTrailers, Single
  <2> QED
    BY <2>1, <2>2, <2>3 DEF Init, PassRemembers
<1>2. /\ PassRemembers /\ block \in {"headers", "trailers"} /\ [Next]_vars
      => (PassRemembers /\ block \in {"headers", "trailers"})'
  BY PassStep
<1> QED
  BY <1>1, <1>2, PTL DEF Spec

-----------------------------------------------------------------------------
(* What the pass lets through *)

\* Asked of the pseudo fields that are remembered, completeness is a property of
\* the block.
LEMMA CompleteRequest ==
  ASSUME PassRemembers, block = "headers", outcome # "malformed", ~Incomplete
  PROVE  WellFormedRequest
<1>1. /\ WellFormedStart /\ seen = PseudoRead /\ fields \in Seq(Fields)
  BY DEF PassRemembers
<1>2. \A name \in RequestPseudo : Count(name) # {}
  <2> TAKE name \in RequestPseudo
  <2>1. name \in {g.name : g \in seen} /\ name \in PseudoNames
    BY DEF Incomplete, PseudoNames
  <2> QED
    BY <1>1, <2>1, SeenNames
<1>3. \A name \in RequestPseudo : \A value \in {"good", "bad"} :
        Holds(name, value) => Has(name, value)
  <2> SUFFICES ASSUME NEW name \in RequestPseudo, NEW value \in {"good", "bad"},
                      Holds(name, value)
               PROVE  Has(name, value)
    OBVIOUS
  <2>1. PICK i \in 1..Len(fields) : fields[i].name = name /\ fields[i].value = value
    BY DEF Holds, Count
  <2>2. fields[i] \in Field
    BY <1>1, FieldsAssumption
  <2>3. fields[i] = [name |-> name, value |-> value]
    BY <2>1, <2>2 DEF Field
  <2>4. IsPseudo(fields[i])
    BY <2>1 DEF IsPseudo, PseudoNames
  <2> QED
    BY <1>1, <2>3, <2>4 DEF Has, PseudoRead
<1>4. /\ {":method", ":scheme", ":path"} \subseteq RequestPseudo
      /\ ~Has(":method", "bad") /\ ~(Has(":path", "bad") /\ Has(":scheme", "good"))
  BY DEF RequestPseudo, Incomplete
<1> QED
  BY <1>1, <1>2, <1>3, <1>4 DEF WellFormedRequest

\* No malformed request and no malformed trailers get through.
THEOREM AcceptsOnlyWellFormed == Spec => []OnlyWellFormed
<1>1. PassRemembers => OnlyWellFormed
  BY CompleteRequest DEF PassRemembers, OnlyWellFormed
<1> QED
  BY <1>1, PassIsFaithful, PTL
=============================================================================
