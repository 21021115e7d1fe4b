----------------------------- MODULE FramingProofs -----------------------------
(***************************************************************************)
(* The proofs of HandledAsSent and ServesAsPromised.  As long as a client  *)
(* frames its requests, the reader of NetworkConnector stands where one of *)
(* them begins whenever it begins to read one, and what it hands over is   *)
(* that request; so the task of a connection implements                    *)
(* PersistentConnection for the requests its client frames.                *)
(***************************************************************************)
EXTENDS ConnectorProofs

-----------------------------------------------------------------------------
(* Framed requests *)

\* The first empty line is the one Framed speaks of; the body begins after it.
LEMMA FramedShape ==
  ASSUME NEW r \in Requests, Framed(r)
  PROVE  LET b == HeaderEnd(r) IN
         /\ r.lines \in Seq(Part) /\ b \in 3..Len(r.lines)
         /\ r.lines[1] = "start" /\ r.lines[b] = "blank"
         /\ \A i \in 2..(b - 1) : r.lines[i] \in Fields \ {"encoding", "badlength"}
         /\ HeaderOf(r) \in Seq(Part) /\ Len(HeaderOf(r)) = b - 2
         /\ \A i \in 1..(b - 2) : HeaderOf(r)[i] = r.lines[i + 1]
<1>1. r.lines \in Seq(Part) /\ r.lines[1] = "start"
  BY RequestsAssumption DEF Framed
<1>2. PICK b \in DOMAIN r.lines :
        /\ b >= 3 /\ r.lines[b] = "blank"
        /\ \A i \in 2..(b - 1) : r.lines[i] \in Fields \ {"encoding", "badlength"}
  BY DEF Framed
<1>3. b \in 3..Len(r.lines) /\ \A i \in 1..(b - 1) : r.lines[i] # "blank"
  BY <1>1, <1>2 DEF Fields
<1>4. HeaderEnd(r) = b
  <2> DEFINE IsEnd(e) == r.lines[e] = "blank" /\ \A i \in 1..(e - 1) : r.lines[i] # "blank"
  <2>1. b \in DOMAIN r.lines /\ IsEnd(b)
    BY <1>2, <1>3
  <2>2. ASSUME NEW e \in DOMAIN r.lines, IsEnd(e) PROVE e = b
    BY <1>1, <1>2, <1>3, <2>2
  <2>3. (CHOOSE e \in DOMAIN r.lines : IsEnd(e)) = b
    <3> HIDE DEF IsEnd
    <3> QED
      BY <2>1, <2>2
  <2> QED
    BY <2>3 DEF HeaderEnd
<1>5. \A i \in 2..(b - 1) : r.lines[i] \in Part
  BY <1>1, <1>3
<1>6. /\ SubSeq(r.lines, 2, b - 1) \in Seq(Part) /\ Len(SubSeq(r.lines, 2, b - 1)) = b - 2
      /\ \A i \in 1..(b - 2) : SubSeq(r.lines, 2, b - 1)[i] = r.lines[i + 1]
  BY <1>3, <1>5, SubSeqProperties
<1> QED
  BY <1>1, <1>2, <1>3, <1>4, <1>6 DEF HeaderOf

\* A body is announced by a length in the header, and is one piece of octets.
LEMMA FramedBody ==
  ASSUME NEW r \in Requests, Framed(r)
  PROVE  LET b == HeaderEnd(r) IN
         IF \E i \in 1..(b - 2) : HeaderOf(r)[i] = "length"
         THEN /\ Len(r.lines) = b + 1 /\ r.lines[b + 1] = "octets"
              /\ BodyOf(r) = <<"octets">>
         ELSE Len(r.lines) = b /\ BodyOf(r) = <<>>
<1> DEFINE b == HeaderEnd(r)
<1>1. /\ r.lines \in Seq(Part) /\ b \in 3..Len(r.lines) /\ Len(r.lines) \in Nat
      /\ HeaderOf(r) \in Seq(Part) /\ Len(HeaderOf(r)) = b - 2
  BY FramedShape
<1>2. DOMAIN HeaderOf(r) = 1..(b - 2)
  BY <1>1
<1>3. BodyOf(r) = IF \E i \in DOMAIN HeaderOf(r) : HeaderOf(r)[i] = "length"
                  THEN <<"octets">> ELSE <<>>
  BY DEF Framed
<1> HIDE DEF b
<1>4. \A i \in (b + 1)..Len(r.lines) : r.lines[i] \in Part
  BY <1>1
<1> DEFINE rest == SubSeq(r.lines, b + 1, Len(r.lines))
<1>5. /\ Len(rest) = IF b + 1 <= Len(r.lines) THEN Len(r.lines) - b ELSE 0
      /\ \A i \in 1..(Len(r.lines) - b) : rest[i] = r.lines[b + i]
  BY <1>1, <1>4, SubSeqProperties
<1>6. BodyOf(r) = rest
  BY DEF BodyOf, b
<1> HIDE DEF rest
<1>7. CASE \E i \in 1..(b - 2) : HeaderOf(r)[i] = "length"
  <2>1. BodyOf(r) = <<"octets">>
    BY <1>2, <1>3, <1>7
  <2>2. Len(r.lines) = b + 1
    BY <1>1, <1>5, <1>6, <2>1
  <2>3. r.lines[b + 1] = "octets"
    BY <1>1, <1>5, <1>6, <2>1, <2>2
  <2> QED
    BY <1>7, <2>1, <2>2, <2>3 DEF b
<1>8. CASE ~\E i \in 1..(b - 2) : HeaderOf(r)[i] = "length"
  <2>1. BodyOf(r) = <<>>
    BY <1>2, <1>3, <1>8
  <2>2. Len(r.lines) = b
    BY <1>1, <1>5, <1>6, <2>1
  <2> QED
    BY <1>8, <2>1, <2>2 DEF b
<1> QED
  BY <1>7, <1>8

\* parse_header finds in the lines after the request line the header.
LEMMA HeaderRead ==
  ASSUME NEW r \in Requests, Framed(r), NEW lines \in Seq(Part), Len(lines) = HeaderEnd(r) - 1,
         \A i \in 1..Len(lines) : lines[i] = r.lines[i + 1]
  PROVE  Terminated(lines) /\ Header(lines) = HeaderOf(r)
<1> DEFINE b == HeaderEnd(r)
<1>1. /\ r.lines \in Seq(Part) /\ b \in 3..Len(r.lines) /\ r.lines[b] = "blank"
      /\ \A i \in 2..(b - 1) : r.lines[i] # "blank"
      /\ HeaderOf(r) \in Seq(Part) /\ Len(HeaderOf(r)) = b - 2
      /\ \A i \in 1..(b - 2) : HeaderOf(r)[i] = r.lines[i + 1]
  BY FramedShape DEF Fields
<1> HIDE DEF b
<1>2. Len(lines) = b - 1
  BY DEF b
<1>3. lines[b - 1] = "blank" /\ \A i \in 1..(b - 2) : lines[i] # "blank"
  <2>1. \A i \in 1..(b - 1) : lines[i] = r.lines[i + 1]
    BY <1>2
  <2>2. b - 1 \in 1..(b - 1) /\ (b - 1) + 1 = b
    BY <1>1
  <2>3. lines[b - 1] = "blank"
    BY <1>1, <2>1, <2>2
  <2>4. \A i \in 1..(b - 2) : i \in 1..(b - 1) /\ i + 1 \in 2..(b - 1)
    BY <1>1
  <2> QED
    BY <1>1, <2>1, <2>3, <2>4
<1>4. (CHOOSE i \in DOMAIN lines : lines[i] = "blank" /\ \A j \in 1..(i - 1) : lines[j] # "blank")
      = b - 1
  <2> DEFINE IsFirst(i) == lines[i] = "blank" /\ \A j \in 1..(i - 1) : lines[j] # "blank"
  <2>1. b - 1 \in DOMAIN lines /\ IsFirst(b - 1)
    BY <1>1, <1>2, <1>3
  <2>2. ASSUME NEW e \in DOMAIN lines, IsFirst(e) PROVE e = b - 1
    BY <1>1, <1>2, <1>3, <2>2
  <2> HIDE DEF IsFirst
  <2>3. (CHOOSE i \in DOMAIN lines : IsFirst(i)) = b - 1
    BY <2>1, <2>2
  <2> QED
    BY <2>3 DEF IsFirst
<1>5. Header(lines) = SubSeq(lines, 1, b - 2)
  <2>1. (b - 1) - 1 = b - 2
    BY <1>1
  <2> QED
    BY <1>4, <2>1 DEF Header
<1>6. /\ SubSeq(lines, 1, b - 2) \in Seq(Part) /\ Len(SubSeq(lines, 1, b - 2)) = b - 2
      /\ \A i \in 1..(b - 2) : SubSeq(lines, 1, b - 2)[i] = lines[i]
  <2>1. \A i \in 1..(b - 2) : lines[i] \in Part
    BY <1>1, <1>2
  <2> QED
    BY <1>1, <2>1, SubSeqProperties
<1>7. \A i \in 1..(b - 2) : SubSeq(lines, 1, b - 2)[i] = HeaderOf(r)[i]
  <2> TAKE i \in 1..(b - 2)
  <2>1. i \in 1..Len(lines)
    BY <1>1, <1>2
  <2> QED
    BY <1>1, <1>6, <2>1
<1>8. SubSeq(lines, 1, b - 2) = HeaderOf(r)
  BY <1>1, <1>6, <1>7, SeqEqual
<1> QED
  BY <1>1, <1>2, <1>3, <1>5, <1>8 DEF Terminated

\* get of a field: the value it has last.
LEMMA LastOfIs ==
  ASSUME NEW values, NEW header \in Seq(Part)
  PROVE  IF \E i \in DOMAIN header : header[i] \in values
         THEN \E i \in DOMAIN header : header[i] \in values /\ LastOf(values, header) = header[i]
         ELSE LastOf(values, header) = "none"
<1> DEFINE named == {i \in DOMAIN header : header[i] \in values}
           IsLast(i) == /\ header[i] \in values
                        /\ \A j \in DOMAIN header : j > i => header[j] \notin values
<1>1. DOMAIN header = 1..Len(header) /\ Len(header) \in Nat
  OBVIOUS
<1>2. CASE \E i \in DOMAIN header : header[i] \in values
  <2>1. named \in SUBSET (1..Len(header)) /\ named # {}
    BY <1>1, <1>2
  <2>2. \E x \in named : \A y \in named : y <= x
    <3> HIDE DEF named
    <3> QED
      BY <1>1, <2>1, LastExists
  <2>3. \E i \in DOMAIN header : IsLast(i)
    <3>1. PICK x \in named : \A y \in named : y <= x
      BY <2>2
    <3>2. \A j \in DOMAIN header : j > x => j \notin named
      BY <1>1, <3>1
    <3> QED
      BY <3>1, <3>2
  <2>4. /\ IsLast(CHOOSE i \in DOMAIN header : IsLast(i))
        /\ (CHOOSE i \in DOMAIN header : IsLast(i)) \in DOMAIN header
    BY <2>3
  <2>5. LastOf(values, header) = header[CHOOSE i \in DOMAIN header : IsLast(i)]
    BY <1>2 DEF LastOf
  <2> QED
    BY <1>2, <2>4, <2>5
<1> QED
  BY <1>2 DEF LastOf

\* get("content-length") of a framed header.
LEMMA LengthTold ==
  ASSUME NEW r \in Requests, Framed(r)
  PROVE  ContentLength(HeaderOf(r)) =
           IF \E i \in 1..(HeaderEnd(r) - 2) : HeaderOf(r)[i] = "length" THEN "length" ELSE "none"
<1> DEFINE header == HeaderOf(r)
<1>1. /\ header \in Seq(Part) /\ HeaderEnd(r) \in 3..Len(r.lines) /\ Len(r.lines) \in Nat
      /\ Len(header) = HeaderEnd(r) - 2
      /\ \A i \in 1..(HeaderEnd(r) - 2) : header[i] = r.lines[i + 1]
      /\ \A i \in 2..(HeaderEnd(r) - 1) : r.lines[i] # "badlength"
  BY FramedShape
<1> HIDE DEF header
<1>2. DOMAIN header = 1..(HeaderEnd(r) - 2)
  BY <1>1
<1>3. \A i \in DOMAIN header : header[i] # "badlength"
  <2> TAKE i \in DOMAIN header
  <2>1. i + 1 \in 2..(HeaderEnd(r) - 1)
    BY <1>1, <1>2
  <2> QED
    BY <1>1, <1>2, <2>1
<1>4. IF \E i \in DOMAIN header : header[i] \in {"length", "badlength"}
      THEN \E i \in DOMAIN header :
             header[i] \in {"length", "badlength"} /\ ContentLength(header) = header[i]
      ELSE ContentLength(header) = "none"
  BY <1>1, LastOfIs DEF ContentLength
<1> QED
  BY <1>2, <1>3, <1>4 DEF header

-----------------------------------------------------------------------------
(* The reader in step with the client *)

\* What a handler is to be given of request k, which is r.
CallFor(k, r) == [of |-> k, header |-> HeaderOf(r),
                  body |-> [i \in DOMAIN BodyOf(r) |-> [of |-> k, part |-> "octets"]]]

\* The first k requests of the client are framed, as far as it has begun them.
FramedUpTo(k) == \A i \in 1..k : i <= Len(sent) => Framed(sent[i])

Begins(k) == pos = [req |-> k, line |-> 1] /\ acc = <<>>

\* The request line of request k and the lines after it that acc holds were read.
Within(k) ==
  /\ k <= Len(sent) /\ preface = <<[of |-> k, part |-> "start"]>>
  /\ pos = [req |-> k, line |-> 2 + Len(acc)]
  /\ \A i \in 1..Len(acc) : acc[i] = sent[k].lines[i + 1]

\* Where the reader stands after n calls.
InStep(n) ==
  /\ at \in {"idle", "detecting", "line"} => Begins(n + 1)
  /\ at \in {"idle", "detecting"} => preface = <<>>
  /\ at = "headers" => Within(n + 1) /\ Len(acc) < HeaderEnd(sent[n + 1]) - 1
  /\ at = "body" => /\ Within(n + 1) /\ Len(acc) = HeaderEnd(sent[n + 1]) - 1
                    /\ BodyOf(sent[n + 1]) = <<"octets">>

Aligned ==
  /\ \A k \in DOMAIN dispatched :
       FramedUpTo(k) => k <= Len(sent) /\ dispatched[k] = CallFor(k, sent[k])
  /\ FramedUpTo(Len(dispatched) + 1) => InStep(Len(dispatched))
  /\ at = "dispatching" /\ FramedUpTo(Len(dispatched)) =>
       pos = [req |-> Len(dispatched) + 1, line |-> 1]

\* n is as far as the client has framed its requests.
IsLastFramed(n) ==
  n \in 0..Len(sent) /\ Leads(n) /\ (n < Len(sent) => ~Leads(n + 1))

LEMMA LastFramedIs ==
  Len(sent) \in Nat =>
    IsLastFramed(LastFramed) /\ \A n : IsLastFramed(n) => n = LastFramed
<1> SUFFICES ASSUME Len(sent) \in Nat
             PROVE  IsLastFramed(LastFramed) /\ \A n : IsLastFramed(n) => n = LastFramed
  OBVIOUS
<1> DEFINE led == {n \in 0..Len(sent) : Leads(n)}
<1>1. 0 \in led
  BY DEF Leads
<1>2. \E n \in led : \A m \in led : m <= n
  <2> HIDE DEF led
  <2>1. led \in SUBSET (0..Len(sent))
    BY DEF led
  <2> QED
    BY <1>1, <2>1, LastExists
<1>3. \E n \in 0..Len(sent) : Leads(n) /\ (n < Len(sent) => ~Leads(n + 1))
  <2>1. PICK n \in led : \A m \in led : m <= n
    BY <1>2
  <2>2. n < Len(sent) => n + 1 \notin led /\ n + 1 \in 0..Len(sent)
    BY <2>1
  <2>3. n < Len(sent) => ~Leads(n + 1)
    BY <2>2
  <2> QED
    BY <2>1, <2>3
<1>4. IsLastFramed(LastFramed)
  <2>1. LastFramed = CHOOSE n \in 0..Len(sent) : Leads(n) /\ (n < Len(sent) => ~Leads(n + 1))
    BY DEF LastFramed
  <2> QED
    BY <1>3, <2>1 DEF IsLastFramed
<1>5. ASSUME NEW m \in 0..Len(sent), NEW n \in 0..Len(sent), m < n, Leads(n)
      PROVE  Leads(m + 1)
  BY <1>5 DEF Leads
<1>6. ASSUME NEW m, NEW n, IsLastFramed(m), IsLastFramed(n) PROVE ~(m < n)
  BY <1>5, <1>6 DEF IsLastFramed
<1>7. ASSUME NEW n, IsLastFramed(n) PROVE n = LastFramed
  <2>1. n \in Nat /\ LastFramed \in Nat
    BY <1>4, <1>7 DEF IsLastFramed
  <2>2. ~(n < LastFramed) /\ ~(LastFramed < n)
    BY <1>4, <1>6, <1>7
  <2> QED
    BY <2>1, <2>2
<1> QED
  BY <1>4, <1>7

LEMMA AlignedHolds == TypeOK /\ Aligned => HandledAsSent
<1> SUFFICES ASSUME TypeOK, Aligned, NEW k \in DOMAIN dispatched, k <= LastFramed
             PROVE  dispatched[k] = CallFor(k, sent[k])
  BY DEF HandledAsSent, CallFor
<1>1. Len(sent) \in Nat /\ k \in Nat \ {0}
  BY Indices
<1>2. LastFramed \in 0..Len(sent) /\ Leads(LastFramed)
  BY <1>1, LastFramedIs DEF IsLastFramed
<1>3. FramedUpTo(k)
  <2>1. \A i \in 1..LastFramed : Framed(sent[i])
    BY <1>2 DEF Leads
  <2>2. \A i \in 1..k : i \in 1..LastFramed
    BY <1>1, <1>2
  <2> QED
    BY <2>1, <2>2 DEF FramedUpTo
<1> QED
  BY <1>3 DEF Aligned

\* What is read of the client's requests does not change with those to come.
LEMMA AlignedKept ==
  ASSUME TypeOK, Aligned, dispatched' = dispatched, Len(sent) <= Len(sent'), Len(sent') \in Nat,
         \A i \in 1..Len(sent) : sent'[i] = sent[i],
         \/ at' \in {"closed", "magic", "settings", "serving"}
         \/ at' = at /\ UNCHANGED <<pos, acc, preface>>
         \/ at = "idle" /\ at' = "detecting" /\ UNCHANGED <<pos, acc, preface>>
         \/ at = "dispatching" /\ at' = "line" /\ pos' = pos /\ acc' = <<>>
  PROVE  Aligned'
<1> DEFINE n == Len(dispatched)
<1>1. /\ n \in Nat /\ DOMAIN dispatched = 1..n /\ Len(sent) \in Nat
  BY Indices
<1>2. \A k \in Nat : FramedUpTo(k)' => FramedUpTo(k)
  BY <1>1 DEF FramedUpTo
<1>3. (\A k \in DOMAIN dispatched :
        FramedUpTo(k) => k <= Len(sent) /\ dispatched[k] = CallFor(k, sent[k]))'
  BY <1>1, <1>2 DEF Aligned
<1>4. FramedUpTo(n + 1) => FramedUpTo(n)
  BY <1>1 DEF FramedUpTo
<1>5. ASSUME FramedUpTo(n + 1)' PROVE InStep(n)'
  <2>1. FramedUpTo(n + 1) /\ FramedUpTo(n)
    BY <1>1, <1>2, <1>4, <1>5
  <2>2. InStep(n)
    BY <2>1 DEF Aligned
  <2>3. CASE at' = at /\ UNCHANGED <<pos, acc, preface>>
    <3>1. Begins(n + 1) => Begins(n + 1)'
      BY <2>3 DEF Begins
    <3>2. Within(n + 1) => n + 1 \in 1..Len(sent) /\ sent'[n + 1] = sent[n + 1]
      BY <1>1 DEF Within
    <3>3. Within(n + 1) => Within(n + 1)'
      BY <2>3, <3>2, <1>1 DEF Within
    <3> QED
      BY <2>2, <2>3, <3>1, <3>2, <3>3 DEF InStep
  <2>4. CASE at = "dispatching" /\ at' = "line" /\ pos' = pos /\ acc' = <<>>
    BY <2>1, <2>4 DEF Aligned, InStep, Begins
  <2>5. CASE at = "idle" /\ at' = "detecting" /\ UNCHANGED <<pos, acc, preface>>
    BY <2>2, <2>5 DEF InStep, Begins
  <2> QED
    BY <2>3, <2>4, <2>5 DEF InStep
<1>6. ASSUME at' = "dispatching", FramedUpTo(n)' PROVE pos' = [req |-> n + 1, line |-> 1]
  BY <1>1, <1>2, <1>6 DEF Aligned
<1> QED
  BY <1>3, <1>5, <1>6 DEF Aligned

\* Steps that read: nothing is handed over, or one more request.
LEMMA AlignedOn ==
  ASSUME TypeOK, Aligned, sent' = sent, dispatched' = dispatched, at' # "dispatching",
         FramedUpTo(Len(dispatched) + 1) => InStep(Len(dispatched))'
  PROVE  Aligned'
<1>1. \A k : FramedUpTo(k)' <=> FramedUpTo(k)
  BY DEF FramedUpTo
<1> QED
  BY <1>1 DEF Aligned

LEMMA AlignedCall ==
  ASSUME TypeOK, Aligned, sent' = sent,
         NEW call, dispatched' = Append(dispatched, call),
         FramedUpTo(Len(dispatched) + 1) =>
           /\ at' = "dispatching" /\ Len(dispatched) + 1 <= Len(sent)
           /\ call = CallFor(Len(dispatched) + 1, sent[Len(dispatched) + 1])
           /\ pos' = [req |-> Len(dispatched) + 2, line |-> 1]
  PROVE  Aligned'
<1> DEFINE n == Len(dispatched)
<1>1. \A k : FramedUpTo(k)' <=> FramedUpTo(k)
  BY DEF FramedUpTo
<1>2. n \in Nat /\ DOMAIN dispatched = 1..n /\ dispatched \in Seq(Calls)
  BY Indices DEF TypeOK
<1>3. /\ Len(dispatched') = n + 1 /\ DOMAIN dispatched' = 1..(n + 1)
      /\ \A k \in 1..n : dispatched'[k] = dispatched[k]
      /\ dispatched'[n + 1] = call
  BY <1>2, AppendProperties
<1>4. FramedUpTo(n + 2) => FramedUpTo(n + 1)
  BY <1>2 DEF FramedUpTo
<1>5. ASSUME NEW k \in 1..(n + 1), FramedUpTo(k)
      PROVE  k <= Len(sent) /\ dispatched'[k] = CallFor(k, sent[k])
  <2>1. CASE k \in 1..n
    BY <1>2, <1>3, <1>5, <2>1 DEF Aligned
  <2>2. CASE k = n + 1
    BY <1>3, <1>5, <2>2
  <2> QED
    BY <1>2, <2>1, <2>2
<1>6. FramedUpTo(n + 2) => InStep(Len(dispatched))'
  BY <1>4 DEF InStep
<1>7. /\ (n + 1) + 1 = n + 2
      /\ FramedUpTo(n + 1) => pos' = [req |-> n + 2, line |-> 1]
  BY <1>2
<1> QED
  BY <1>1, <1>3, <1>5, <1>6, <1>7 DEF Aligned

LEMMA NextLine ==
  ASSUME TypeOK, HasLine(pos), NEW k \in Nat \ {0}, NEW l \in Nat \ {0},
         pos = [req |-> k, line |-> l], k <= Len(sent) => sent[k].lines[l] # "octets"
  PROVE  /\ k \in 1..Len(sent) /\ l \in 1..Len(sent[k].lines) /\ ~Joined(pos)
         /\ PartAt(pos) = sent[k].lines[l]
         /\ Line(pos) = <<[of |-> k, part |-> sent[k].lines[l]]>>
         /\ Beyond(pos) = IF l < Len(sent[k].lines) THEN [req |-> k, line |-> l + 1]
                          ELSE [req |-> k + 1, line |-> 1]
<1>1. k \in 1..Len(sent) /\ l \in 1..Len(sent[k].lines)
  BY ReadableLine DEF HasLine, TypeOK
<1>2. PartAt(pos) = sent[k].lines[l] /\ ~Joined(pos)
  BY <1>1 DEF PartAt, Joined
<1> QED
  BY <1>1, <1>2 DEF Line, Piece, Beyond, After

\* The request line of a framed request tells the protocol and a method.
LEMMA FramedPreface ==
  ASSUME TypeOK, Aligned, Detect \/ ReadPreface, UNCHANGED http1Vars,
         FramedUpTo(Len(dispatched) + 1)
  PROVE  LET k == Len(dispatched) + 1 IN
         /\ k \in 1..Len(sent) /\ Len(sent[k].lines) \in Nat
         /\ HeaderEnd(sent[k]) \in 3..Len(sent[k].lines)
         /\ at' = "headers" /\ acc = <<>> /\ preface' = <<[of |-> k, part |-> "start"]>>
         /\ pos' = [req |-> k, line |-> 2]
         /\ Detect => protocol' = sent[k].version
<1> DEFINE k == Len(dispatched) + 1
           r == sent[k]
<1>1. /\ HasLine(pos) /\ pos' = Beyond(pos) /\ sent' = sent /\ at \in {"detecting", "line"}
      /\ dispatched' = dispatched /\ acc' = acc /\ at' # "dispatching"
  BY DEF Detect, ReadPreface, Consume, AfterPreface, http1Vars
<1>3. InStep(Len(dispatched)) /\ k \in Nat \ {0}
  BY Indices DEF Aligned
<1>4. pos = [req |-> k, line |-> 1] /\ acc = <<>> /\ (at = "detecting" => preface = <<>>)
  BY <1>1, <1>3 DEF InStep, Begins
<1>5. k \in 1..Len(sent)
  BY <1>1, <1>4, ReadableLine DEF HasLine, TypeOK
<1>6. r \in Requests /\ Framed(r)
  BY <1>5 DEF FramedUpTo, TypeOK
<1>7. /\ r.lines[1] = "start" /\ HeaderEnd(r) \in 3..Len(r.lines) /\ Len(r.lines) \in Nat
      /\ r.method # "unknown" /\ r.version \in {"1.0", "1.1"}
  <2> HIDE DEF r
  <2>1. r.lines[1] = "start" /\ HeaderEnd(r) \in 3..Len(r.lines) /\ r.lines \in Seq(Part)
    BY <1>6, FramedShape
  <2>2. Len(r.lines) \in Nat
    BY <2>1
  <2> QED
    BY <1>6, <2>1, <2>2 DEF Framed
<1> DEFINE read == <<[of |-> k, part |-> "start"]>>
<1>8. Line(pos) = read /\ pos' = [req |-> k, line |-> 2]
  <2>1. 1 < Len(sent[k].lines) /\ sent[k].lines[1] # "octets" /\ 1 + 1 = 2
    BY <1>7
  <2>2. /\ Line(pos) = <<[of |-> k, part |-> sent[k].lines[1]]>>
        /\ Beyond(pos) = IF 1 < Len(sent[k].lines) THEN [req |-> k, line |-> 1 + 1]
                         ELSE [req |-> k + 1, line |-> 1]
    <3> HIDE DEF k
    <3>1. k \in Nat \ {0} /\ 1 \in Nat \ {0} /\ HasLine(pos) /\ pos = [req |-> k, line |-> 1]
      BY <1>1, <1>3, <1>4
    <3> QED
      BY <2>1, <3>1, NextLine
  <2> QED
    BY <1>1, <1>7, <2>1, <2>2
<1>9. preface' = read
  BY <1>1, <1>4, <1>8 DEF Detect, ReadPreface
<1>10. AfterPreface(read) = "headers"
  <2>1. FirstWord(read) = read[1]
    BY DEF FirstWord
  <2> QED
    BY <1>7, <2>1 DEF AfterPreface, HasMethod
<1>11. VerifyProtocol(read) = r.version
  BY <1>7 DEF VerifyProtocol, Spells
<1>12. at' = "headers" /\ (Detect => protocol' = r.version)
  <2>1. AfterPreface(preface') = "headers" /\ VerifyProtocol(preface') = r.version
    BY <1>9, <1>10, <1>11
  <2> QED
    BY <1>7, <2>1 DEF Detect, ReadPreface
<1> QED
  BY <1>4, <1>5, <1>7, <1>8, <1>9, <1>12

LEMMA AlignedPreface ==
  ASSUME TypeOK, Parsed, Aligned, Detect \/ ReadPreface, UNCHANGED http1Vars
  PROVE  Aligned'
<1> DEFINE k == Len(dispatched) + 1
<1>1. sent' = sent /\ dispatched' = dispatched /\ acc' = acc /\ at' # "dispatching"
  BY DEF Detect, ReadPreface, Consume, AfterPreface, http1Vars
<1>2. SUFFICES ASSUME FramedUpTo(k) PROVE InStep(Len(dispatched))'
  BY <1>1, AlignedOn
<1>3. /\ k \in 1..Len(sent) /\ Len(sent[k].lines) \in Nat
      /\ HeaderEnd(sent[k]) \in 3..Len(sent[k].lines)
      /\ at' = "headers" /\ acc = <<>> /\ preface' = <<[of |-> k, part |-> "start"]>>
      /\ pos' = [req |-> k, line |-> 2]
  BY <1>2, FramedPreface
<1>4. Within(k)'
  BY <1>1, <1>3 DEF Within
<1> QED
  BY <1>1, <1>3, <1>4 DEF InStep

\* A framed request is handed over with its own header.
LEMMA FramedCall ==
  ASSUME TypeOK, NEW k \in 1..Len(sent), preface = <<[of |-> k, part |-> "start"]>>,
         NEW header, NEW body, Build(header, body)
  PROVE  /\ at' = "dispatching"
         /\ dispatched' = Append(dispatched, [of |-> k, header |-> header, body |-> body])
<1>1. HasThreeWords(preface)
  BY DEF HasThreeWords
<1>2. FirstWord(preface) = preface[1]
  BY DEF FirstWord
<1>3. StartOf(preface) = k /\ k # 0
  BY <1>1, <1>2, Indices DEF StartOf
<1> QED
  BY <1>3 DEF Build

\* acc takes the next line of the header.
LEMMA LineTaken ==
  ASSUME TypeOK, ReadHeader, NEW k \in Nat \ {0}, FramedUpTo(k), Within(k),
         Len(acc) < HeaderEnd(sent[k]) - 1
  PROVE  /\ k \in 1..Len(sent) /\ sent[k] \in Requests /\ Framed(sent[k])
         /\ acc' \in Seq(Part) /\ Len(acc') = Len(acc) + 1 /\ Len(acc) \in Nat
         /\ \A i \in 1..Len(acc') : acc'[i] = sent[k].lines[i + 1]
         /\ pos' = IF 2 + Len(acc) < Len(sent[k].lines)
                   THEN [req |-> k, line |-> 2 + Len(acc')]
                   ELSE [req |-> k + 1, line |-> 1]
<1> DEFINE r == sent[k]
           l == 2 + Len(acc)
<1>1. k \in 1..Len(sent) /\ r \in Requests /\ Framed(r)
  BY DEF Within, FramedUpTo, TypeOK
<1>2. acc \in Seq(Part) /\ Len(acc) \in Nat /\ l \in Nat \ {0}
  BY DEF TypeOK
<1>3. r.lines[l] \in Part \ {"octets"}
  <2>1. l \in 2..HeaderEnd(r) /\ HeaderEnd(r) \in Nat
    <3>1. HeaderEnd(r) \in Nat
      BY <1>1, FramedShape
    <3> QED
      BY <1>2, <3>1
  <2>2. CASE l = HeaderEnd(r)
    BY <1>1, <2>2, FramedShape DEF Part
  <2>3. CASE l \in 2..(HeaderEnd(r) - 1)
    BY <1>1, <2>3, FramedShape DEF Fields, Part
  <2> HIDE DEF l
  <2> QED
    BY <2>1, <2>2, <2>3, SMTT(30)
<1>4. HasLine(pos) /\ pos' = Beyond(pos) /\ pos = [req |-> k, line |-> l]
  BY DEF ReadHeader, Consume, Within
<1>5. /\ PartAt(pos) = r.lines[l] /\ ~Joined(pos)
      /\ Beyond(pos) = IF l < Len(r.lines) THEN [req |-> k, line |-> l + 1]
                       ELSE [req |-> k + 1, line |-> 1]
  <2>1. k <= Len(sent) => sent[k].lines[l] # "octets"
    BY <1>3
  <2> HIDE DEF l
  <2> QED
    BY <1>2, <1>4, <2>1, NextLine
<1>6. acc' = Append(acc, r.lines[l])
  BY <1>5 DEF ReadHeader
<1>7. /\ acc' \in Seq(Part) /\ Len(acc') = Len(acc) + 1
      /\ \A i \in 1..Len(acc) : acc'[i] = acc[i]
      /\ acc'[Len(acc) + 1] = r.lines[l]
  BY <1>2, <1>3, <1>6, AppendProperties
<1>8. \A i \in 1..Len(acc') : acc'[i] = r.lines[i + 1]
  <2> TAKE i \in 1..Len(acc')
  <2>1. CASE i \in 1..Len(acc)
    BY <1>7, <2>1 DEF Within
  <2>2. CASE i = Len(acc) + 1
    BY <1>2, <1>7, <2>2
  <2> QED
    BY <1>2, <1>7, <2>1, <2>2
<1>9. l + 1 = 2 + Len(acc')
  BY <1>2, <1>7
<1> QED
  BY <1>1, <1>2, <1>4, <1>5, <1>7, <1>8, <1>9

\* What the last line of a framed header leads to.
LEMMA HeaderEnds ==
  ASSUME TypeOK, ReadHeader, NEW k \in Nat \ {0}, FramedUpTo(k), Within(k),
         Len(acc) = HeaderEnd(sent[k]) - 2
  PROVE  \/ /\ at' = "body" /\ dispatched' = dispatched /\ BodyOf(sent[k]) = <<"octets">>
            /\ 2 + Len(acc) < Len(sent[k].lines)
         \/ /\ at' = "dispatching"
            /\ dispatched' = Append(dispatched, CallFor(k, sent[k]))
            /\ ~(2 + Len(acc) < Len(sent[k].lines))
<1> DEFINE r == sent[k]
<1>1. /\ k \in 1..Len(sent) /\ r \in Requests /\ Framed(r) /\ HeaderEnd(r) \in Nat
      /\ preface = <<[of |-> k, part |-> "start"]>>
  <2>1. k \in 1..Len(sent) /\ r \in Requests /\ Framed(r)
    BY DEF Within, FramedUpTo, TypeOK
  <2> QED
    BY <2>1, FramedShape DEF Within
<1>2. /\ acc' \in Seq(Part) /\ Len(acc') = HeaderEnd(r) - 1
      /\ \A i \in 1..Len(acc') : acc'[i] = r.lines[i + 1]
  <2>1. Len(acc) < HeaderEnd(sent[k]) - 1
    BY <1>1
  <2> QED
    BY <1>1, <2>1, LineTaken
<1>3. Terminated(acc') /\ Header(acc') = HeaderOf(r)
  BY <1>1, <1>2, HeaderRead
<1>4. CASE \E i \in 1..(HeaderEnd(r) - 2) : HeaderOf(r)[i] = "length"
  <2>1. BodyOf(r) = <<"octets">> /\ Len(r.lines) = HeaderEnd(r) + 1
    BY <1>1, <1>4, FramedBody
  <2>2. ContentLength(HeaderOf(r)) = "length"
    BY <1>1, <1>4, LengthTold
  <2>3. at' = "body" /\ dispatched' = dispatched
    BY <1>3, <2>2 DEF ReadHeader
  <2> QED
    BY <1>1, <2>1, <2>3
<1>5. CASE ~\E i \in 1..(HeaderEnd(r) - 2) : HeaderOf(r)[i] = "length"
  <2>1. BodyOf(r) = <<>> /\ Len(r.lines) = HeaderEnd(r)
    BY <1>1, <1>5, FramedBody
  <2>2. ContentLength(HeaderOf(r)) = "none"
    BY <1>1, <1>5, LengthTold
  <2>3. Build(HeaderOf(r), <<>>)
    BY <1>3, <2>2 DEF ReadHeader
  <2>4. CallFor(k, r) = [of |-> k, header |-> HeaderOf(r), body |-> <<>>]
    BY <2>1 DEF CallFor
  <2>5. at' = "dispatching" /\ dispatched' = Append(dispatched, CallFor(k, r))
    BY <1>1, <2>3, <2>4, FramedCall
  <2> QED
    BY <1>1, <2>1, <2>5
<1> QED
  BY <1>4, <1>5

LEMMA AlignedHeader ==
  ASSUME TypeOK, Parsed, Aligned, ReadHeader
  PROVE  Aligned'
<1> DEFINE k == Len(dispatched) + 1
           b == HeaderEnd(sent[k])
<1>1. /\ at = "headers" /\ sent' = sent /\ preface' = preface
      /\ k \in Nat \ {0}
  BY Indices DEF ReadHeader, Consume
<1>2. CASE ~FramedUpTo(k)
  <2>1. CASE dispatched' = dispatched /\ at' # "dispatching"
    BY <1>1, <1>2, <2>1, AlignedOn
  <2>2. CASE Build(Header(acc'), <<>>)
    <3> DEFINE call == [of |-> StartOf(preface), header |-> Header(acc'), body |-> <<>>]
    <3>1. \/ dispatched' = Append(dispatched, call)
          \/ dispatched' = dispatched /\ at' # "dispatching"
      BY <2>2 DEF Build
    <3> HIDE DEF call
    <3> QED
      BY <1>1, <1>2, <2>1, <3>1, AlignedCall
  <2> QED
    BY <2>1, <2>2, HeaderStep
<1>3. CASE FramedUpTo(k)
  <2>1. Within(k) /\ Len(acc) < b - 1
    BY <1>1, <1>3 DEF Aligned, InStep
  <2>2. /\ k \in 1..Len(sent) /\ sent[k] \in Requests /\ Framed(sent[k])
        /\ acc' \in Seq(Part) /\ Len(acc') = Len(acc) + 1 /\ Len(acc) \in Nat
        /\ \A i \in 1..Len(acc') : acc'[i] = sent[k].lines[i + 1]
        /\ pos' = IF 2 + Len(acc) < Len(sent[k].lines)
                  THEN [req |-> k, line |-> 2 + Len(acc')]
                  ELSE [req |-> k + 1, line |-> 1]
    BY <1>1, <1>3, <2>1, LineTaken
  <2>3. /\ b \in 3..Len(sent[k].lines) /\ Len(sent[k].lines) \in Nat
        /\ \A i \in 2..(b - 1) : sent[k].lines[i] # "blank"
    <3>1. /\ sent[k].lines \in Seq(Part) /\ b \in 3..Len(sent[k].lines)
          /\ \A i \in 2..(b - 1) : sent[k].lines[i] \in Fields \ {"encoding", "badlength"}
      BY <2>2, FramedShape
    <3>2. Len(sent[k].lines) \in Nat
      BY <3>1
    <3>3. \A i \in 2..(b - 1) : sent[k].lines[i] # "blank"
      <4> HIDE DEF b
      <4> QED
        BY <3>1 DEF Fields
    <3> QED
      BY <3>1, <3>2, <3>3
  <2>4. ASSUME pos' = [req |-> k, line |-> 2 + Len(acc')], dispatched' = dispatched
        PROVE  Within(k)'
    BY <1>1, <2>1, <2>2, <2>4 DEF Within
  <2>5. CASE Len(acc) < b - 2
    <3>1. acc'[Len(acc')] # "blank"
      <4> HIDE DEF b, k
      <4>1. Len(acc') \in 1..Len(acc') /\ Len(acc') + 1 \in 2..(b - 1)
        BY <2>2, <2>3, <2>5
      <4> QED
        BY <2>2, <2>3, <4>1
    <3>2. ~Terminated(acc')
      BY <3>1 DEF Terminated
    <3>3. at' = "headers" /\ dispatched' = dispatched
      BY <1>1, <3>2 DEF ReadHeader
    <3>4. Within(k)'
      BY <2>2, <2>3, <2>4, <2>5, <3>3
    <3>5. Len(acc') < HeaderEnd(sent'[k]) - 1
      BY <1>1, <2>2, <2>3, <2>5
    <3>6. InStep(Len(dispatched))'
      BY <3>3, <3>4, <3>5 DEF InStep
    <3> QED
      BY <1>1, <3>3, <3>6, AlignedOn
  <2>6. CASE Len(acc) = b - 2
    <3>1. CASE /\ at' = "body" /\ dispatched' = dispatched /\ BodyOf(sent[k]) = <<"octets">>
               /\ 2 + Len(acc) < Len(sent[k].lines)
      <4>1. Within(k)'
        BY <2>2, <2>4, <3>1
      <4>2. Len(acc') = HeaderEnd(sent'[k]) - 1
        BY <1>1, <2>2, <2>3, <2>6
      <4>3. InStep(Len(dispatched))'
        BY <1>1, <3>1, <4>1, <4>2 DEF InStep
      <4> QED
        BY <1>1, <3>1, <4>3, AlignedOn
    <3>2. CASE /\ at' = "dispatching"
               /\ dispatched' = Append(dispatched, CallFor(k, sent[k]))
               /\ ~(2 + Len(acc) < Len(sent[k].lines))
      <4>1. pos' = [req |-> Len(dispatched) + 2, line |-> 1]
        BY <1>1, <2>2, <3>2
      <4>2. Len(dispatched) + 1 <= Len(sent)
        BY <2>2
      <4> QED
        BY <1>1, <3>2, <4>1, <4>2, AlignedCall
    <3> QED
      BY <1>1, <1>3, <2>1, <2>6, <3>1, <3>2, HeaderEnds
  <2> QED
    BY <2>1, <2>2, <2>3, <2>5, <2>6
<1> QED
  BY <1>2, <1>3

LEMMA AlignedBody ==
  ASSUME TypeOK, Parsed, Aligned, ReadBody
  PROVE  Aligned'
<1> DEFINE k == Len(dispatched) + 1
           r == sent[k]
           b == HeaderEnd(r)
           call == [of |-> StartOf(preface), header |-> Header(acc), body |-> <<Piece(pos)>>]
<1>1. /\ at = "body" /\ sent' = sent /\ Build(Header(acc), <<Piece(pos)>>)
      /\ Arrived(pos) /\ pos' = After(pos) /\ k \in Nat \ {0}
  BY Indices DEF ReadBody
<1>2. CASE ~FramedUpTo(k)
  <2>1. \/ dispatched' = Append(dispatched, call)
        \/ dispatched' = dispatched /\ at' # "dispatching"
    BY <1>1 DEF Build
  <2> HIDE DEF call
  <2> QED
    BY <1>1, <1>2, <2>1, AlignedOn, AlignedCall
<1>3. CASE FramedUpTo(k)
  <2>1. Within(k) /\ Len(acc) = b - 1 /\ BodyOf(r) = <<"octets">>
    BY <1>1, <1>3 DEF Aligned, InStep
  <2>2. /\ k \in 1..Len(sent) /\ r \in Requests /\ Framed(r) /\ acc \in Seq(Part)
    <3> HIDE DEF k
    <3>1. k <= Len(sent) /\ Len(sent) \in Nat
      BY <2>1, Indices DEF Within
    <3> QED
      BY <1>1, <1>3, <3>1 DEF FramedUpTo, TypeOK
  <2>3. b \in Nat /\ Len(r.lines) = b + 1 /\ r.lines[b + 1] = "octets"
    <3>1. b \in Nat
      BY <2>2, FramedShape
    <3>2. BodyOf(r) # <<>>
      BY <2>1
    <3> QED
      BY <2>2, <3>1, <3>2, FramedBody
  <2>4. pos = [req |-> k, line |-> b + 1]
    <3>1. 2 + Len(acc) = b + 1
      BY <2>1, <2>3
    <3> QED
      BY <2>1, <3>1 DEF Within
  <2>5. Piece(pos) = [of |-> k, part |-> "octets"]
    BY <2>3, <2>4 DEF Piece, PartAt
  <2>6. pos' = [req |-> k + 1, line |-> 1]
    BY <1>1, <2>3, <2>4 DEF After
  <2>7. Header(acc) = HeaderOf(r)
    <3>1. \A i \in 1..Len(acc) : acc[i] = r.lines[i + 1]
      BY <2>1 DEF Within
    <3> QED
      BY <2>1, <2>2, <3>1, HeaderRead
  <2>8. CallFor(k, r) = [of |-> k, header |-> Header(acc), body |-> <<Piece(pos)>>]
    <3>1. [i \in DOMAIN <<"octets">> |-> [of |-> k, part |-> "octets"]]
          = <<[of |-> k, part |-> "octets"]>>
      OBVIOUS
    <3> QED
      BY <2>1, <2>5, <2>7, <3>1 DEF CallFor
  <2>9. at' = "dispatching" /\ dispatched' = Append(dispatched, CallFor(k, r))
    BY <1>1, <2>1, <2>2, <2>8, FramedCall DEF Within
  <2>10. k + 1 = Len(dispatched) + 2
    BY <1>1
  <2> QED
    BY <1>1, <2>2, <2>6, <2>9, <2>10, AlignedCall
<1> QED
  BY <1>2, <1>3

LEMMA AlignedNext ==
  TypeOK /\ Parsed /\ Aligned /\ [Next]_vars => Aligned'
<1> SUFFICES ASSUME TypeOK, Parsed, Aligned, [Next]_vars PROVE Aligned'
  OBVIOUS
<1> USE Indices
<1>1. CASE Application \/ UNCHANGED vars
  <2>1. UNCHANGED <<sent, pos, at, preface, acc, dispatched>>
    BY <1>1 DEF Application, vars, socketVars, prefaceVars, http1Vars
  <2> QED
    BY <2>1, AlignedKept
<1>2. CASE Accept
  <2>1. at = "idle" /\ at' = "detecting" /\ UNCHANGED <<sent, pos, preface, acc, dispatched>>
    BY <1>2 DEF Accept, socketVars, http1Vars
  <2> QED
    BY <2>1, AlignedKept
<1>3. CASE Client
  <2>1. /\ Len(sent) <= Len(sent') /\ sent' \in Seq(Requests) /\ pos' = pos
        /\ \A i \in 1..Len(sent) : sent'[i] = sent[i]
        /\ UNCHANGED <<at, preface, acc, dispatched>>
    BY <1>3, ClientAppends DEF Client, prefaceVars, http1Vars
  <2>2. Len(sent') \in Nat
    BY <2>1
  <2> QED
    BY <2>1, <2>2, AlignedKept
<1>4. CASE Task
  <2>1. CASE (Detect \/ ReadPreface) /\ UNCHANGED http1Vars
    BY <2>1, AlignedPreface
  <2>2. CASE (EndOfInput \/ ReadFails) /\ UNCHANGED http1Vars
    <3>1. at' = "closed" /\ UNCHANGED <<sent, dispatched>>
      BY <2>2 DEF EndOfInput, ReadFails, Close, socketVars, http1Vars
    <3> QED
      BY <3>1, AlignedKept
  <2>3. CASE ReadHeader
    BY <2>3, AlignedHeader
  <2>4. CASE ReadBody
    BY <2>4, AlignedBody
  <2>5. CASE Dispatch
    <3>1. /\ at = "dispatching" /\ UNCHANGED <<sent, pos, dispatched>>
          /\ at' = "closed" \/ (at' = "line" /\ acc' = <<>>)
      BY <2>5 DEF Dispatch, Leave, NextRequest
    <3> QED
      BY <3>1, AlignedKept
  <2>6. CASE HandshakeStep /\ UNCHANGED http1Vars
    <3>1. /\ at' \in {"settings", "serving", "closed"} /\ UNCHANGED <<sent, dispatched>>
      BY <2>6 DEF HandshakeStep, ReadMagic, ReadFirstFrame, WriteThen, http1Vars
    <3> QED
      BY <3>1, AlignedKept
  <2> QED
    BY <1>4, <2>1, <2>2, <2>3, <2>4, <2>5, <2>6 DEF Task, Http1Step
<1> QED
  BY <1>1, <1>2, <1>3, <1>4 DEF Next

\* HandledAsSent for every client: as long as its requests are framed, handlers
\* are given these requests, whole and in their order, whatever it sends then.
THEOREM FramedHandledAsSent == Spec => []HandledAsSent
<1>1. Init => Aligned
  BY DEF Init, SocketInit, PrefaceInit, Http1Init, Aligned, InStep, Begins
<1>2. Spec => [](TypeOK /\ Parsed /\ Aligned)
  BY <1>1, TypeInit, TypeNext, AlignedNext, PTL DEF Spec
<1> QED
  BY <1>2, AlignedHolds, PTL

-----------------------------------------------------------------------------
(* The requests of the refinement mapping *)

LEMMA LastFramedNext ==
  ASSUME Len(sent') \in Nat
  PROVE  IsLastFramed(LastFramed)' /\ \A n : IsLastFramed(n)' => n = LastFramed'
<1>1. (Len(sent) \in Nat =>
        IsLastFramed(LastFramed) /\ \A n : IsLastFramed(n) => n = LastFramed)'
  BY LastFramedIs, PTL
<1> QED
  BY <1>1

\* Requests are asked for as long as they are framed.
LEMMA LeadersFramed ==
  ASSUME TypeOK
  PROVE  /\ Len(sent) \in Nat /\ LastFramed \in 0..Len(sent)
         /\ \A k \in 1..LastFramed : Framed(sent[k]) /\ FramedUpTo(k) /\ sent[k] \in Requests
<1>1. Len(sent) \in Nat /\ sent \in Seq(Requests)
  BY Indices DEF TypeOK
<1>2. LastFramed \in 0..Len(sent) /\ Leads(LastFramed)
  BY <1>1, LastFramedIs DEF IsLastFramed
<1>3. \A k \in 1..LastFramed : Framed(sent[k])
  BY <1>2 DEF Leads
<1>4. \A k \in 1..LastFramed : FramedUpTo(k)
  BY <1>2, <1>3 DEF FramedUpTo
<1> QED
  BY <1>1, <1>2, <1>3, <1>4

LEMMA QueryTyped ==
  ASSUME TypeOK, NEW r \in Requests, Framed(r)
  PROVE  Query(r) \in AnyQuery
<1>1. HeaderOf(r) \in Seq(Part)
  BY FramedShape
<1>2. LastOf({"close", "keep-alive"}, HeaderOf(r)) \in {"none", "close", "keep-alive"}
  BY <1>1, LastOfIs
<1>3. r.version \in {"1.0", "1.1"} /\ r.method \in Methods /\ r.path \in Paths
  BY RoutableAssumption DEF Framed
<1>4. Find(r.method, r.path) \in Handlers \cup {Nobody}
  BY <1>3 DEF Find, TypeOK
<1> QED
  BY <1>2, <1>3, <1>4 DEF Query, AnyQuery

LEMMA AskedKept ==
  ASSUME UNCHANGED <<sent, arrived, routes>>
  PROVE  LastFramed' = LastFramed /\ Asked' = Asked
<1>1. LastFramed' = LastFramed
  BY DEF LastFramed, Leads, Whole
<1> QED
  BY <1>1 DEF Asked, Query, Find

-----------------------------------------------------------------------------
(* The responses *)

\* Routes are settled before the first request; an open client has written whole
\* requests; the protocol is the first request's; and there is an answer to each
\* call but the one being dispatched, unless a write has failed.
Answering ==
  /\ IF at = "idle" THEN sent = <<>> ELSE server = "serving"
  /\ peer = "open" /\ sent # <<>> => arrived = Len(sent[Len(sent)].lines)
  /\ at \in {"line", "headers", "body", "dispatching"} =>
       sent # <<>> /\ (FramedUpTo(1) => protocol = sent[1].version)
  /\ Len(responses) <= Len(dispatched)
  /\ at = "dispatching" => Len(responses) < Len(dispatched)
  /\ at # "closed" /\ ~broken =>
       Len(dispatched) = Len(responses) + (IF at = "dispatching" THEN 1 ELSE 0)

\* The client writes: it asks at most for one thing more, and no answer moves.
LEMMA ClientAsks ==
  ASSUME TypeOK, Aligned, Answering, ClientStep, UNCHANGED <<routes, responses>>
  PROVE  /\ Answered' = Answered
         /\ \/ Asked' = Asked
            \/ \E q \in AnyQuery : Asked' = Append(Asked, q)
<1> PICK n : n = Len(sent)
  OBVIOUS
<1> PICK m : m = LastFramed
  OBVIOUS
<1>1. /\ sent \in Seq(Requests) /\ n \in Nat /\ m \in 0..n /\ Leads(m) /\ (m < n => ~Leads(m + 1))
      /\ Len(responses) \in Nat /\ responses \in Seq(Answers) /\ Len(dispatched) \in Nat
  BY Indices, LastFramedIs DEF TypeOK, IsLastFramed
<1>2. CASE UNCHANGED <<sent, arrived>>
  BY <1>2, AskedKept DEF Answered
<1>3. ASSUME NEW r \in Requests, Send(r)
      PROVE  /\ Answered' = Answered
             /\ Asked' = Asked \/ \E q \in AnyQuery : Asked' = Append(Asked, q)
  <2>1. /\ sent' = Append(sent, r) /\ arrived' \in 1..Len(r.lines)
        /\ peer = "open" /\ Len(sent') = n + 1 /\ Len(sent') \in Nat
        /\ \A i \in 1..n : sent'[i] = sent[i]
        /\ sent'[n + 1] = r
    BY <1>1, <1>3 DEF Send
  <2>2. \A i \in 1..n : Whole(i) /\ Whole(i)'
    BY <1>1, <2>1 DEF Answering, Whole
  <2>3. \A k \in 0..n : Leads(k)' <=> Leads(k)
    BY <1>1, <2>1, <2>2 DEF Leads
  <2>4. CASE m < n \/ ~Leads(n + 1)'
    <3>1. IsLastFramed(m)'
      <4>1. m \in 0..Len(sent') /\ Leads(m)'
        BY <1>1, <2>1, <2>3
      <4>2. m < Len(sent') => ~Leads(m + 1)'
        <5>1. CASE m < n
          BY <1>1, <2>3, <5>1
        <5>2. CASE m = n
          BY <2>4, <5>2
        <5> QED
          BY <1>1, <5>1, <5>2
      <4> QED
        BY <4>1, <4>2 DEF IsLastFramed
    <3>2. LastFramed' = m
      BY <2>1, <3>1, LastFramedNext
    <3>3. Asked' = Asked
      BY <1>1, <2>1, <3>2 DEF Asked, Query, Find
    <3> QED
      BY <3>2, <3>3 DEF Answered
  <2>5. CASE m = n /\ Leads(n + 1)'
    <3>1. IsLastFramed(n + 1)'
      BY <1>1, <2>1, <2>5 DEF IsLastFramed
    <3>2. LastFramed' = n + 1
      BY <2>1, <3>1, LastFramedNext
    <3>3. Len(responses) <= n
      <4>1. \A i \in 1..n : Framed(sent[i])
        BY <1>1, <2>5 DEF Leads
      <4>2. FramedUpTo(Len(dispatched))
        BY <1>1, <4>1 DEF FramedUpTo
      <4>3. Len(dispatched) <= n
        BY <1>1, <4>2, Indices DEF Aligned
      <4> QED
        BY <1>1, <4>3 DEF Answering
    <3>4. Answered' = Answered
      BY <1>1, <2>5, <3>2, <3>3 DEF Answered, Lesser
    <3>5. Framed(r)
      BY <1>1, <2>1, <2>5 DEF Leads
    <3>6. Query(r) \in AnyQuery
      BY <3>5, QueryTyped
    <3>7. Asked' = [k \in 1..(n + 1) |-> IF k \in 1..n THEN Query(sent[k]) ELSE Query(r)]
      BY <1>1, <2>1, <3>2 DEF Asked, Query, Find
    <3>8. Asked = [k \in 1..n |-> Query(sent[k])]
      BY <2>5 DEF Asked
    <3>9. Asked' = Append(Asked, Query(r))
      BY <1>1, <3>7, <3>8
    <3> QED
      BY <3>4, <3>6, <3>9
  <2> QED
    BY <1>1, <2>4, <2>5
<1> QED
  BY <1>2, <1>3 DEF ClientStep, Finish, Vanish

LEMMA AnsweringTask ==
  ASSUME TypeOK, Answering, UNCHANGED <<sent, arrived, peer, server>>, at # "idle", at' # "idle",
         at' \in {"line", "headers", "body", "dispatching"} =>
           sent # <<>> /\ (FramedUpTo(1) => protocol' = sent[1].version),
         Len(responses') <= Len(dispatched'),
         at' = "dispatching" => Len(responses') < Len(dispatched'),
         at' # "closed" /\ ~broken' =>
           Len(dispatched') = Len(responses') + (IF at' = "dispatching" THEN 1 ELSE 0)
  PROVE  Answering'
<1>1. FramedUpTo(1)' <=> FramedUpTo(1)
  BY DEF FramedUpTo
<1> QED
  BY <1>1 DEF Answering

\* Steps that read and neither call nor answer.
LEMMA AnsweringQuiet ==
  ASSUME TypeOK, Answering, UNCHANGED <<sent, arrived, peer, server, responses, dispatched>>,
         at \notin {"idle", "closed", "dispatching"}, at' \notin {"idle", "dispatching"},
         ~broken' => ~broken,
         at' \in {"line", "headers", "body"} =>
           sent # <<>> /\ (FramedUpTo(1) => protocol' = sent[1].version)
  PROVE  Answering'
BY AnsweringTask DEF Answering

LEMMA AnsweringCall ==
  ASSUME TypeOK, Parsed, Answering, UNCHANGED <<sent, arrived, peer, server, protocol, broken, responses>>,
         at \in {"headers", "body"},
         NEW header \in Seq(Part), NEW body \in Seq(Pieces), Build(header, body)
  PROVE  Answering'
<1>1. CASE at' = "closed" /\ dispatched' = dispatched
  BY <1>1, AnsweringQuiet DEF Answering
<1>2. CASE at' = "dispatching"
  <2>1. /\ Len(dispatched') = Len(dispatched) + 1
        /\ Len(dispatched) \in Nat /\ Len(responses) \in Nat
    <3> DEFINE call == [of |-> StartOf(preface), header |-> header, body |-> body]
    <3>1. /\ dispatched' = Append(dispatched, call)
          /\ call \in Calls /\ call.of \in 1..Len(sent) /\ sent[call.of].method # "unknown"
      BY <1>2, BuildTyped
    <3> HIDE DEF call
    <3> QED
      BY <3>1, DispatchedGrows, Indices DEF TypeOK
  <2>2. Len(responses) <= Len(dispatched) /\ (~broken => Len(dispatched) = Len(responses))
    BY DEF Answering
  <2>3. Len(responses') < Len(dispatched') /\ (~broken' => Len(dispatched') = Len(responses') + 1)
    BY <2>1, <2>2
  <2>4. Len(responses') <= Len(dispatched')
    BY <2>1, <2>2
  <2> QED
    BY <1>2, <2>3, <2>4, AnsweringTask DEF Answering
<1> QED
  BY <1>1, <1>2, BuildTyped

LEMMA AnsweringClient ==
  ASSUME TypeOK, Answering, at # "idle", ClientStep, UNCHANGED <<prefaceVars, http1Vars, server>>
  PROVE  Answering'
<1>1. /\ sent' \in Seq(Requests) /\ Len(sent) <= Len(sent') /\ Len(sent) \in Nat
      /\ Len(sent') \in Nat /\ broken' = broken
      /\ \A i \in 1..Len(sent) : sent'[i] = sent[i]
  BY ClientAppends, Indices
<1>2. sent # <<>> => sent' # <<>> /\ sent'[1] = sent[1]
  <2>1. sent # <<>> => Len(sent) >= 1
    BY DEF TypeOK
  <2> QED
    BY <1>1, <2>1
<1>3. FramedUpTo(1)' => FramedUpTo(1)
  BY <1>1 DEF FramedUpTo
<1>4. peer' = "open" /\ sent' # <<>> => arrived' = Len(sent'[Len(sent')].lines)
  <2>1. ASSUME NEW r \in Requests, Send(r), peer' = "open"
        PROVE  arrived' = Len(sent'[Len(sent')].lines)
    <3>1. arrived' = Len(r.lines) /\ sent' = Append(sent, r) /\ sent \in Seq(Requests)
      BY <2>1 DEF Send, TypeOK
    <3> QED
      BY <3>1
  <2> QED
    BY <2>1 DEF ClientStep, Finish, Vanish
<1> QED
  BY <1>1, <1>2, <1>3, <1>4 DEF Answering, prefaceVars, http1Vars

LEMMA AnsweringDispatch ==
  ASSUME TypeOK, Parsed, Answering, Dispatch, UNCHANGED server
  PROVE  Answering'
<1>1. /\ at = "dispatching" /\ at' \in {"closed", "line"}
      /\ UNCHANGED <<sent, arrived, peer, protocol, dispatched>>
      /\ \/ responses' = responses /\ (~broken' /\ at' # "closed" => FALSE)
         \/ /\ Len(responses') = Len(responses) + 1 /\ ~broken
  <2>1. at = "dispatching" /\ UNCHANGED <<sent, arrived, peer, protocol, dispatched>>
    BY DEF Dispatch
  <2>2. responses \in Seq(Answers) /\ broken \in BOOLEAN
    BY DEF TypeOK
  <2>3. ASSUME NEW response, Respond(response)
        PROVE  \/ responses' = responses /\ broken'
               \/ Len(responses') = Len(responses) + 1 /\ ~broken
    <3>1. PICK succeeded \in WriteOutcomes :
            /\ broken' = ~succeeded
            /\ responses' = IF succeeded THEN Append(responses, response) ELSE responses
      BY <2>3 DEF Respond
    <3>2. CASE succeeded
      <4>1. ~broken
        BY <3>2 DEF WriteOutcomes
      <4>2. responses' = Append(responses, response)
        BY <3>1, <3>2
      <4> QED
        BY <2>2, <4>1, <4>2
    <3>3. CASE ~succeeded
      BY <3>1, <3>3
    <3> QED
      BY <3>2, <3>3
  <2> QED
    BY <2>1, <2>3 DEF Dispatch, Leave, NextRequest
<1>2. /\ Len(responses) \in Nat /\ Len(dispatched) \in Nat /\ Len(responses) < Len(dispatched)
      /\ ~broken => Len(dispatched) = Len(responses) + 1
  BY <1>1, Indices DEF Answering, TypeOK
<1> QED
  BY <1>1, <1>2, AnsweringTask DEF Answering

LEMMA AnsweringNext ==
  TypeOK /\ Parsed /\ InOrder /\ Aligned /\ Answering /\ [Next]_vars => Answering'
<1> SUFFICES ASSUME TypeOK, Parsed, InOrder, Aligned, Answering, [Next]_vars PROVE Answering'
  OBVIOUS
<1>1. CASE Application \/ Accept \/ UNCHANGED vars
  <2>1. UNCHANGED <<socketVars, protocol, dispatched, responses>>
    BY <1>1 DEF Application, Accept, vars, prefaceVars, http1Vars
  <2>2. \/ at' = at /\ (server' = server \/ server = "building")
        \/ at = "idle" /\ at' = "detecting" /\ server' = "serving"
    BY <1>1 DEF Application, Accept, vars, prefaceVars, routerVars, RouterStep, Register, Serve
  <2>3. FramedUpTo(1)' <=> FramedUpTo(1)
    BY <2>1 DEF FramedUpTo, socketVars
  <2> QED
    BY <2>1, <2>2, <2>3 DEF Answering, socketVars
<1>2. CASE Client
  BY <1>2, AnsweringClient DEF Client, routerVars
<1>3. CASE Task
  <2>1. ASSUME (Detect \/ ReadPreface) /\ UNCHANGED <<http1Vars, routerVars>> PROVE Answering'
    <3>1. /\ UNCHANGED <<sent, arrived, peer, broken, server, responses, dispatched>>
          /\ at \in {"detecting", "line"} /\ HasLine(pos)
          /\ at' \notin {"idle", "dispatching"}
      BY <2>1 DEF Detect, ReadPreface, Consume, AfterPreface, http1Vars, routerVars
    <3>2. sent # <<>>
      BY <3>1, ReadableLine DEF TypeOK, HasLine
    <3>3. FramedUpTo(1) => protocol' = sent[1].version
      <4>1. CASE Detect
        <5>1. dispatched = <<>>
          BY <4>1 DEF Detect, InOrder
        <5>2. Len(dispatched) + 1 = 1
          BY <5>1
        <5> QED
          BY <2>1, <4>1, <5>2, FramedPreface
      <4>2. CASE ReadPreface
        BY <4>2 DEF ReadPreface, Answering
      <4> QED
        BY <2>1, <4>1, <4>2
    <3> QED
      BY <3>1, <3>2, <3>3, AnsweringQuiet
  <2>2. ASSUME (EndOfInput \/ ReadFails) /\ UNCHANGED <<http1Vars, routerVars>> PROVE Answering'
    <3>1. /\ UNCHANGED <<sent, arrived, peer, broken, server, responses, dispatched>>
          /\ at \in {"detecting", "line", "headers", "body", "magic", "settings"} /\ at' = "closed"
      BY <2>2 DEF EndOfInput, ReadFails, Close, socketVars, http1Vars, routerVars
    <3> QED
      BY <3>1, AnsweringQuiet
  <2>3. ASSUME ReadHeader /\ UNCHANGED routerVars PROVE Answering'
    <3>1. /\ UNCHANGED <<sent, arrived, peer, broken, protocol, server, responses>>
          /\ at = "headers"
      BY <2>3 DEF ReadHeader, Consume, routerVars
    <3>2. CASE at' \in {"headers", "closed", "body"} /\ dispatched' = dispatched
      BY <3>1, <3>2, AnsweringQuiet DEF Answering
    <3>3. CASE Terminated(acc') /\ Build(Header(acc'), <<>>)
      <4>1. Header(acc') \in Seq(Part) /\ <<>> \in Seq(Pieces)
        BY <2>3, <3>3, HeaderStep
      <4> QED
        BY <3>1, <3>3, <4>1, AnsweringCall
    <3> QED
      BY <2>3, <3>2, <3>3, HeaderStep
  <2>4. ASSUME ReadBody /\ UNCHANGED routerVars PROVE Answering'
    <3>1. /\ UNCHANGED <<sent, arrived, peer, broken, protocol, server, responses>>
          /\ at = "body" /\ Arrived(pos) /\ Build(Header(acc), <<Piece(pos)>>)
      BY <2>4 DEF ReadBody, routerVars
    <3>2. Header(acc) \in Seq(Part) /\ <<Piece(pos)>> \in Seq(Pieces)
      BY <3>1, ReadableLine, BodyHeader DEF TypeOK
    <3> QED
      BY <3>1, <3>2, AnsweringCall
  <2>5. ASSUME Dispatch /\ UNCHANGED routerVars PROVE Answering'
    BY <2>5, AnsweringDispatch DEF routerVars
  <2>6. ASSUME HandshakeStep /\ UNCHANGED <<http1Vars, routerVars>> PROVE Answering'
    <3>1. /\ UNCHANGED <<sent, arrived, peer, server, responses, dispatched>>
          /\ at \in {"magic", "settings"} /\ at' \in {"settings", "serving", "closed"}
      BY <2>6 DEF HandshakeStep, ReadMagic, ReadFirstFrame, WriteThen, http1Vars, routerVars
    <3>2. ~broken' => ~broken
      BY <2>6 DEF HandshakeStep, ReadMagic, ReadFirstFrame, WriteThen, WriteOutcomes, TypeOK
    <3> QED
      BY <3>1, <3>2, AnsweringQuiet
  <2> QED
    BY <1>3, <2>1, <2>2, <2>3, <2>4, <2>5, <2>6 DEF Task, Http1Step
<1> QED
  BY <1>1, <1>2, <1>3 DEF Next

-----------------------------------------------------------------------------
(* The refinement *)

\* The answer to a framed request is the one its client was promised.
LEMMA AnswersQuery ==
  ASSUME TypeOK, Parsed, Aligned, Answering, at = "dispatching", ~broken,
         NEW k, k = Len(responses) + 1, k <= LastFramed
  PROVE  LET request == dispatched[Len(dispatched)]
             r       == sent[request.of]
         IN  /\ Len(dispatched) = k /\ Len(Answered) = k - 1 /\ Len(Asked) = LastFramed
             /\ Answered = responses
             /\ k \in 1..LastFramed
             /\ Asked[k].handler = Find(r.method, r.path)
             /\ Contract!IsLast(Asked[k]) = ShouldClose(request.header)
<1> DEFINE request == dispatched[Len(dispatched)]
<1>1. /\ Len(sent) \in Nat /\ LastFramed \in 0..Len(sent) /\ LastFramed \in Nat
      /\ responses \in Seq(Answers) /\ Len(responses) \in Nat
      /\ Len(dispatched) \in Nat /\ DOMAIN dispatched = 1..Len(dispatched)
  BY LeadersFramed, Indices DEF TypeOK
<1>2. k \in 1..LastFramed /\ k = Len(dispatched) /\ 1 \in 1..LastFramed
  BY <1>1 DEF Answering
<1>3. Framed(sent[k]) /\ FramedUpTo(k) /\ FramedUpTo(1)
  BY <1>2, LeadersFramed
<1>4. request = CallFor(k, sent[k])
  BY <1>1, <1>2, <1>3 DEF Aligned
<1>5. request.of = k /\ request.header = HeaderOf(sent[k])
  BY <1>4 DEF CallFor
<1>6. /\ Asked[k] = Query(sent[k]) /\ Asked[1] = Query(sent[1])
      /\ Len(Asked) = LastFramed
  BY <1>1, <1>2 DEF Asked
<1>7. Lesser(Len(responses), LastFramed) = Len(responses)
  BY <1>1, <1>2 DEF Lesser
<1>8. Answered = responses
  BY <1>1, <1>7 DEF Answered
<1>9. protocol = sent[1].version
  BY <1>3 DEF Answering
<1>10. Contract!IsLast(Asked[k]) = ShouldClose(request.header)
  BY <1>5, <1>6, <1>9 DEF Contract!IsLast, ShouldClose, Query
<1>11. Asked[k].handler = Find(sent[request.of].method, sent[request.of].path)
  BY <1>5, <1>6 DEF Query
<1>12. Len(Answered) = k - 1
  BY <1>1, <1>8
<1> QED
  BY <1>2, <1>6, <1>8, <1>10, <1>11, <1>12

\* A response beyond the framed requests is none of theirs.
LEMMA AnswersOther ==
  ASSUME TypeOK, NEW response, responses' = Append(responses, response),
         LastFramed' = LastFramed, Len(responses) >= LastFramed
  PROVE  Answered' = Answered
<1>1. /\ LastFramed \in Nat /\ responses \in Seq(Answers) /\ Len(responses) \in Nat
  BY LeadersFramed DEF TypeOK
<1> QED
  BY <1>1 DEF Answered, Lesser

LEMMA DispatchImplements ==
  ASSUME TypeOK, Parsed, Aligned, Answering, Dispatch, UNCHANGED routes
  PROVE  Contract!Answer \/ Contract!End \/ UNCHANGED <<Asked, Answered, Open>>
<1> DEFINE request == dispatched[Len(dispatched)]
           handler == Find(sent[request.of].method, sent[request.of].path)
           close   == ShouldClose(request.header)
<1>1. /\ at = "dispatching" /\ at' \in {"closed", "line"} /\ Open
      /\ UNCHANGED <<sent, arrived>> /\ (Open' <=> at' = "line")
  BY DEF Dispatch, Leave, NextRequest, Open
<1>2. LastFramed' = LastFramed /\ Asked' = Asked
  BY <1>1, AskedKept
<1>3. CASE responses' = responses
  <2>1. Answered' = Answered
    BY <1>2, <1>3 DEF Answered
  <2>2. Open' \in BOOLEAN /\ Open \in BOOLEAN
    BY DEF Open
  <2>3. CASE at' = "line"
    <3>1. Open' = Open
      BY <1>1, <2>2, <2>3 DEF Open
    <3> QED
      BY <1>2, <2>1, <3>1
  <2>4. CASE at' = "closed"
    <3>1. Open' = FALSE
      BY <2>4 DEF Open
    <3> QED
      BY <1>1, <1>2, <2>1, <3>1 DEF Contract!End
  <2> QED
    BY <1>1, <2>3, <2>4
<1>4. ASSUME NEW ok \in BOOLEAN, ~broken,
             responses' = Append(responses, [by |-> handler, ok |-> ok, close |-> close]),
             IF close THEN at' = "closed" ELSE at' = "line"
      PROVE  Contract!Answer \/ Contract!End \/ UNCHANGED <<Asked, Answered, Open>>
  <2> PICK k : k = Len(responses) + 1
    OBVIOUS
  <2>1. LastFramed \in Nat /\ Len(responses) \in Nat /\ responses \in Seq(Answers)
    BY LeadersFramed DEF TypeOK
  <2>2. CASE k <= LastFramed
    <3>1. /\ Len(Answered) = k - 1 /\ Len(Asked) = LastFramed /\ Answered = responses
          /\ k \in 1..LastFramed
          /\ Asked[k].handler = handler /\ Contract!IsLast(Asked[k]) = close
      BY <1>1, <1>4, <2>2, AnswersQuery
    <3>2. Answered' = Append(Answered, [by |-> handler, ok |-> ok, close |-> close])
      <4> DEFINE response == [by |-> handler, ok |-> ok, close |-> close]
      <4>1. responses' = Append(responses, response)
        BY <1>4
      <4> HIDE DEF response
      <4>2. responses' \in Seq(Answers \cup {response}) /\ Len(responses') = k
        BY <2>1, <4>1
      <4>3. Lesser(Len(responses'), LastFramed') = k
        BY <1>2, <2>1, <2>2, <4>2 DEF Lesser
      <4>4. SubSeq(responses', 1, Len(responses')) = responses'
        BY <4>2
      <4>5. Answered' = responses'
        BY <4>2, <4>3, <4>4 DEF Answered, Lesser
      <4> QED
        BY <3>1, <4>1, <4>5 DEF response
    <3>3. Open' = ~close
      BY <1>1, <1>4 DEF Open
    <3>4. Len(Answered) < Len(Asked) /\ Len(Answered) + 1 = k
      BY <2>1, <3>1
    <3> HIDE DEF handler, close
    <3> QED
      BY <1>1, <1>2, <3>1, <3>2, <3>3, <3>4 DEF Contract!Answer
  <2>3. CASE ~(k <= LastFramed)
    <3>1. Len(responses) >= LastFramed
      BY <2>1, <2>3
    <3>2. Answered' = Answered
      BY <1>2, <1>4, <3>1, AnswersOther
    <3>3. CASE close
      <4>1. Open' = FALSE
        BY <1>4, <3>3 DEF Open
      <4> QED
        BY <1>1, <1>2, <3>2, <4>1 DEF Contract!End
    <3>4. CASE ~close
      <4>1. Open' = Open
        BY <1>1, <1>4, <3>4 DEF Open
      <4> QED
        BY <1>2, <3>2, <4>1
    <3> QED
      BY <3>3, <3>4
  <2> QED
    BY <2>2, <2>3
<1>5. \/ responses' = responses
      \/ \E ok \in BOOLEAN :
           /\ ~broken
           /\ responses' = Append(responses, [by |-> handler, ok |-> ok, close |-> close])
           /\ IF close THEN at' = "closed" ELSE at' = "line"
  <2>1. ASSUME NEW response, Respond(response)
        PROVE  responses' = responses \/ (~broken /\ responses' = Append(responses, response))
    <3>1. PICK succeeded \in WriteOutcomes :
            responses' = IF succeeded THEN Append(responses, response) ELSE responses
      BY <2>1 DEF Respond
    <3>2. CASE succeeded
      <4>1. ~broken
        BY <3>2 DEF WriteOutcomes
      <4> QED
        BY <3>1, <3>2, <4>1
    <3> QED
      BY <3>1, <3>2
  <2>2. PICK outcome \in Outcomes(handler) :
          IF outcome = "panic" THEN Leave /\ UNCHANGED <<broken, responses>>
          ELSE /\ Respond([by |-> handler, ok |-> outcome = "ok", close |-> close])
               /\ IF close THEN Leave ELSE NextRequest
    BY DEF Dispatch
  <2>3. CASE outcome = "panic"
    BY <2>2, <2>3
  <2>4. CASE outcome # "panic"
    <3> DEFINE ok == outcome = "ok"
    <3>1. /\ ok \in BOOLEAN
          /\ Respond([by |-> handler, ok |-> ok, close |-> close])
          /\ IF close THEN at' = "closed" ELSE at' = "line"
      BY <2>2, <2>4 DEF Leave, NextRequest
    <3> HIDE DEF ok
    <3> QED
      BY <2>1, <3>1
  <2> QED
    BY <2>3, <2>4
<1> HIDE DEF handler, close
<1> QED
  BY <1>3, <1>4, <1>5

LEMMA StepImplements ==
  TypeOK /\ Parsed /\ Aligned /\ Answering /\ [Next]_vars =>
    [Contract!Next]_<<Asked, Answered, Open>>
<1> SUFFICES ASSUME TypeOK, Parsed, Aligned, Answering, [Next]_vars
             PROVE  Contract!Next \/ UNCHANGED <<Asked, Answered, Open>>
  OBVIOUS
<1>1. ASSUME UNCHANGED <<sent, arrived, routes, responses>>, at # "closed"
      PROVE  Contract!End \/ UNCHANGED <<Asked, Answered, Open>>
  <2>1. UNCHANGED <<Asked, Answered>>
    BY <1>1, AskedKept DEF Answered
  <2>2. CASE at' = "closed"
    BY <1>1, <2>1, <2>2 DEF Contract!End, Open
  <2>3. CASE at' # "closed"
    BY <1>1, <2>1, <2>3 DEF Open
  <2> QED
    BY <2>2, <2>3
<1>2. CASE UNCHANGED vars
  <2>1. UNCHANGED <<sent, arrived, routes, responses, at>>
    BY <1>2 DEF vars, socketVars, prefaceVars, http1Vars, routerVars
  <2> QED
    BY <2>1, AskedKept DEF Answered, Open
<1>3. CASE Application
  <2>1. at' = at /\ UNCHANGED <<sent, arrived, responses>> /\ server = "building"
    BY <1>3 DEF Application, socketVars, prefaceVars, http1Vars, RouterStep, Register, Serve
  <2>2. sent = <<>> /\ sent' = <<>>
    BY <2>1 DEF Answering
  <2>3. LastFramed' = LastFramed /\ LastFramed = 0
    <3>1. LastFramed' = LastFramed
      BY <2>1 DEF LastFramed, Leads, Whole
    <3> QED
      BY <2>2, <3>1, LeadersFramed
  <2>4. Asked = <<>> /\ Asked' = <<>>
    BY <2>3 DEF Asked
  <2> QED
    BY <2>1, <2>3, <2>4 DEF Answered, Open
<1>4. CASE Accept
  <2>1. UNCHANGED <<sent, arrived, routes, responses>> /\ at # "closed"
    BY <1>4 DEF Accept, socketVars, http1Vars, routerVars
  <2> QED
    BY <1>1, <2>1 DEF Contract!Next
<1>5. CASE Client
  <2>1. ClientStep /\ at' = at /\ UNCHANGED <<routes, responses>>
    BY <1>5 DEF Client, prefaceVars, http1Vars, routerVars
  <2>2. Answered' = Answered /\ Open' = Open
    BY <2>1, ClientAsks DEF Open
  <2>3. Asked' = Asked \/ \E q \in AnyQuery : Asked' = Append(Asked, q)
    BY <2>1, ClientAsks
  <2> QED
    BY <2>2, <2>3 DEF Contract!Next, Contract!Ask
<1>6. CASE Task
  <2>1. CASE Dispatch /\ UNCHANGED routerVars
    BY <2>1, DispatchImplements DEF routerVars, Contract!Next
  <2>2. CASE ~Dispatch
    <3>1. UNCHANGED <<sent, arrived, routes, responses>> /\ at # "closed"
      BY <1>6, <2>2
         DEF Task, Detect, ReadPreface, EndOfInput, ReadFails, Close, Consume, Http1Step,
             ReadHeader, ReadBody, HandshakeStep, ReadMagic, ReadFirstFrame,
             socketVars, http1Vars, routerVars
    <3> QED
      BY <1>1, <3>1 DEF Contract!Next
  <2> QED
    BY <1>6, <2>1, <2>2
       DEF Task, Dispatch, Detect, ReadPreface, EndOfInput, ReadFails, Http1Step,
           HandshakeStep, ReadMagic, ReadFirstFrame
<1> QED
  BY <1>2, <1>3, <1>4, <1>5, <1>6 DEF Next

\* ServesAsPromised for every client: the task of a connection is a persistent
\* connection for the requests that are framed.
THEOREM PromiseKept == Spec => ServesAsPromised
<1>1. Init => Aligned /\ Answering /\ InOrder
  <2>1. Init => Aligned
    BY DEF Init, SocketInit, PrefaceInit, Http1Init, Aligned, InStep, Begins
  <2>2. Init => Answering
    BY DEF Init, SocketInit, PrefaceInit, Http1Init, Answering
  <2>3. Init => InOrder
    BY DEF Init, PrefaceInit, Http1Init, InOrder, NeverServedTwice
  <2> QED
    BY <2>1, <2>2, <2>3
<1>2. Init => Contract!Init
  <2> SUFFICES ASSUME Init PROVE Contract!Init
    OBVIOUS
  <2>1. sent = <<>> /\ responses = <<>> /\ at = "idle"
    BY DEF Init, SocketInit, PrefaceInit, Http1Init
  <2>2. LastFramed = 0
    BY <2>1, TypeInit, LeadersFramed
  <2>3. Asked = <<>>
    BY <2>2 DEF Asked
  <2>4. Answered = <<>>
    BY <2>1, <2>2 DEF Answered, Lesser
  <2> QED
    BY <2>1, <2>3, <2>4 DEF Contract!Init, Open
<1>3. Spec => [](TypeOK /\ Parsed /\ InOrder /\ Aligned /\ Answering)
  BY <1>1, TypeInit, TypeNext, InOrderNext, AlignedNext, AnsweringNext, PTL DEF Spec
<1> QED
  BY <1>2, <1>3, StepImplements, PTL DEF Spec, ServesAsPromised, Contract!Spec
=============================================================================
