------------------------------ MODULE FlowProofs ------------------------------
(***************************************************************************)
(* Proof that the DATA an HTTP/2 connection writes never exceeds what its  *)
(* client has allowed (CreditRespected of FlowControl), on any number of   *)
(* streams, whatever WINDOW_UPDATE frames come and however the stream      *)
(* tasks, which keep the streams' windows, interleave with the connection, *)
(* which keeps its own.                                                    *)
(***************************************************************************)
EXTENDS ResponseProofs, FlowControl, FiniteSetTheorems, SequenceTheorems

-----------------------------------------------------------------------------
(* Sums over finite sets *)

\* What holds of 0, and of n + 1 if of n, holds up to any bound: else the numbers
\* it holds of could all be moved up by one without reaching 0.
LEMMA CountUp ==
  ASSUME NEW N \in Nat, NEW T \in SUBSET (0..N), 0 \in T, \A n \in T : n < N => n + 1 \in T
  PROVE  N \in T
<1>. SUFFICES ASSUME N \notin T PROVE FALSE OBVIOUS
<1>. DEFINE f == [n \in T |-> n + 1]
<1>1. f \in [T -> T \ {0}] /\ \A i, j \in T : i # j => f[i] # f[j] OBVIOUS
<1>2. IsFiniteSet(T)
  <2>1. 0 \in Int /\ N \in Int /\ T \in SUBSET (0..N) OBVIOUS
  <2>2. IsFiniteSet(0..N) BY <2>1, FS_Interval
  <2>. QED BY <2>1, <2>2, FS_Subset
<1>3. /\ IsFiniteSet(T \ {0}) /\ Cardinality(T \ {0}) = Cardinality(T) - 1
      /\ Cardinality(T) \in Nat
  BY <1>2, FS_RemoveElement, FS_CardinalityType
<1>. HIDE DEF f
<1>4. Cardinality(T \ {0}) < Cardinality(T) BY <1>3
<1>5. \E i, j \in T : i # j /\ f[i] = f[j] BY <1>1, <1>2, <1>3, <1>4, FS_PigeonHole, Zenon
<1>. QED BY <1>1, <1>5

\* SumFunctionOnSet is a recursive function of the subsets: Solves is its equation.
First(T) == CHOOSE x \in T : TRUE
Equation(g, f, T) == g[T] = IF T = {} THEN 0 ELSE f[First(T)] + g[T \ {First(T)}]
Solves(g, f, S) ==
  g = [T \in SUBSET S |-> IF T = {} THEN 0 ELSE f[First(T)] + g[T \ {First(T)}]]

LEMMA FirstIn ==
  ASSUME NEW T, T # {}, IsFiniteSet(T)
  PROVE  /\ First(T) \in T /\ IsFiniteSet(T \ {First(T)})
         /\ Cardinality(T) \in Nat \ {0} /\ Cardinality(T \ {First(T)}) = Cardinality(T) - 1
<1>1. First(T) \in T BY DEF First
<1>2. Cardinality(T) \in Nat BY FS_CardinalityType
<1>3. Cardinality(T) # 0 BY FS_EmptySet
<1>4. IsFiniteSet(T \ {First(T)}) /\ Cardinality(T \ {First(T)}) = Cardinality(T) - 1
  BY <1>1, FS_RemoveElement
<1>. QED BY <1>1, <1>2, <1>3, <1>4

\* Two solutions agree on the subsets of both.
LEMMA SolutionsAgree ==
  ASSUME NEW f, NEW S, IsFiniteSet(S), NEW T \in SUBSET S, NEW g, NEW h,
         Solves(g, f, S), Solves(h, f, T)
  PROVE  g[T] = h[T]
<1>. DEFINE N == Cardinality(T)
            A == {n \in 0..N : \A U \in SUBSET T : Cardinality(U) <= n => g[U] = h[U]}
<1>1. /\ N \in Nat
      /\ \A U \in SUBSET T : /\ IsFiniteSet(U) /\ Cardinality(U) \in 0..N
                             /\ Equation(g, f, U) /\ Equation(h, f, U)
                             /\ Cardinality(U) = 0 <=> U = {}
  <2>1. IsFiniteSet(T) BY FS_Subset
  <2>2. ASSUME NEW U \in SUBSET T
        PROVE  IsFiniteSet(U) /\ Cardinality(U) \in 0..N /\ (Cardinality(U) = 0 <=> U = {})
    BY <2>1, FS_Subset, FS_CardinalityType, FS_EmptySet
  <2>3. ASSUME NEW U \in SUBSET T PROVE Equation(g, f, U) /\ Equation(h, f, U)
    BY DEF Solves, Equation
  <2>. QED BY <2>1, <2>2, <2>3, FS_CardinalityType
<1>2. 0 \in A
  <2>1. ASSUME NEW U \in SUBSET T, Cardinality(U) <= 0 PROVE g[U] = h[U]
    <3>1. U = {} BY <1>1, <2>1
    <3>. QED BY <1>1, <3>1 DEF Equation
  <2>. QED BY <1>1, <2>1
<1>3. ASSUME NEW n \in A, n < N PROVE n + 1 \in A
  <2>1. n \in 0..N /\ n + 1 \in 0..N BY <1>1, <1>3
  <2>2. ASSUME NEW U \in SUBSET T, Cardinality(U) <= n + 1, U # {} PROVE g[U] = h[U]
    <3>1. IsFiniteSet(U) /\ Equation(g, f, U) /\ Equation(h, f, U) BY <1>1
    <3>2. /\ First(U) \in U /\ Cardinality(U \ {First(U)}) = Cardinality(U) - 1
          /\ Cardinality(U) \in Nat \ {0}
      BY <2>2, <3>1, FirstIn
    <3>3. U \ {First(U)} \in SUBSET T /\ Cardinality(U \ {First(U)}) <= n
      BY <2>1, <2>2, <3>2
    <3>4. g[U \ {First(U)}] = h[U \ {First(U)}] BY <3>3
    <3>. QED BY <2>2, <3>1, <3>4 DEF Equation
  <2>3. g[{}] = h[{}] BY <1>1 DEF Equation
  <2>. QED BY <2>1, <2>2, <2>3
<1>4. N \in A
  <2>. HIDE DEF N
  <2>1. A \in SUBSET (0..N) OBVIOUS
  <2>. HIDE DEF A
  <2>. QED BY <1>1, <1>2, <1>3, <2>1, CountUp
<1>. QED BY <1>1, <1>4

\* It has a solution, found for larger and larger subsets.
LEMMA SumDefined ==
  ASSUME NEW f, NEW S, IsFiniteSet(S), \A x \in S : f[x] \in Nat
  PROVE  \E g \in [SUBSET S -> Nat] : Solves(g, f, S)
<1>. DEFINE N == Cardinality(S)
            Small(n) == {T \in SUBSET S : Cardinality(T) <= n}
            Partial(n, g) == g \in [Small(n) -> Nat] /\ \A T \in Small(n) : Equation(g, f, T)
            A == {n \in 0..N : \E g : Partial(n, g)}
<1>1. /\ N \in Nat /\ Cardinality({}) = 0
      /\ \A T \in SUBSET S : IsFiniteSet(T) /\ Cardinality(T) \in 0..N
                             /\ (Cardinality(T) = 0 <=> T = {})
  <2>1. ASSUME NEW T \in SUBSET S
        PROVE  IsFiniteSet(T) /\ Cardinality(T) \in 0..N /\ (Cardinality(T) = 0 <=> T = {})
    BY <2>1, FS_Subset, FS_CardinalityType, FS_EmptySet
  <2>. QED BY <2>1, FS_CardinalityType, FS_EmptySet
<1>2. 0 \in A
  <2>. DEFINE g == [T \in Small(0) |-> 0]
  <2>1. \A T \in Small(0) : T = {} BY <1>1
  <2>2. Partial(0, g) BY <2>1 DEF Equation
  <2>. HIDE DEF Partial
  <2>. QED BY <1>1, <2>2
<1>3. ASSUME NEW n \in A, n < N PROVE n + 1 \in A
  <2>1. n \in 0..N /\ n + 1 \in 0..N BY <1>1, <1>3
  <2>2. PICK g : Partial(n, g) OBVIOUS
  <2>. DEFINE Value(T) == IF T = {} THEN 0 ELSE f[First(T)] + g[T \ {First(T)}]
              h == [T \in Small(n + 1) |-> Value(T)]
  <2>3. ASSUME NEW T \in Small(n + 1), T # {}
        PROVE  /\ First(T) \in S /\ T \ {First(T)} \in Small(n)
               /\ g[T \ {First(T)}] \in Nat /\ f[First(T)] \in Nat
    <3>1. IsFiniteSet(T) /\ T \in SUBSET S BY <1>1
    <3>2. /\ First(T) \in S /\ T \ {First(T)} \in SUBSET S
          /\ Cardinality(T \ {First(T)}) <= n
      <4>1. /\ First(T) \in T /\ Cardinality(T) \in Nat
            /\ Cardinality(T \ {First(T)}) = Cardinality(T) - 1
        BY <2>3, <3>1, FirstIn
      <4>2. Cardinality(T) <= n + 1 OBVIOUS
      <4>. QED BY <2>1, <3>1, <4>1, <4>2
    <3>. QED BY <2>2, <3>2
  <2>4. h \in [Small(n + 1) -> Nat]
    <3>1. ASSUME NEW T \in Small(n + 1) PROVE Value(T) \in Nat
      BY <2>3
    <3>. HIDE DEF Value, Small
    <3>. QED BY <3>1
  <2>5. \A T \in Small(n) : T \in Small(n + 1) /\ h[T] = g[T]
    <3>1. \A T \in Small(n) : T \in Small(n + 1) BY <1>1, <2>1
    <3>2. \A T \in Small(n) : g[T] = Value(T) BY <2>2 DEF Equation
    <3>. HIDE DEF Value, Small
    <3>. QED BY <3>1, <3>2
  <2>6. ASSUME NEW T \in Small(n + 1) PROVE Equation(h, f, T)
    <3>1. h[T] = Value(T) OBVIOUS
    <3>2. T # {} => h[T \ {First(T)}] = g[T \ {First(T)}] BY <2>3, <2>5
    <3>. HIDE DEF h
    <3>. QED BY <3>1, <3>2 DEF Equation
  <2>7. Partial(n + 1, h)
    <3>. HIDE DEF h, Small
    <3>. QED BY <2>4, <2>6
  <2>. HIDE DEF Partial
  <2>. QED BY <2>1, <2>7
<1>4. N \in A
  <2>. HIDE DEF N
  <2>1. A \in SUBSET (0..N) OBVIOUS
  <2>. HIDE DEF A
  <2>. QED BY <1>1, <1>2, <1>3, <2>1, CountUp
<1>5. PICK g : Partial(N, g) BY <1>4
<1>6. Small(N) = SUBSET S BY <1>1
<1>7. g \in [SUBSET S -> Nat] /\ Solves(g, f, S)
  <2>1. g \in [SUBSET S -> Nat] /\ \A T \in SUBSET S : Equation(g, f, T) BY <1>5, <1>6
  <2>. QED BY <2>1 DEF Solves, Equation
<1>. QED BY <1>7

LEMMA SumIs ==
  ASSUME NEW f, NEW S, NEW g, Solves(g, f, S)
  PROVE  \E h : Solves(h, f, S) /\ SumFunctionOnSet(f, S) = h[S]
<1>. DEFINE chosen == CHOOSE h : Solves(h, f, S)
<1>1. Solves(chosen, f, S) OBVIOUS
<1>2. SumFunctionOnSet(f, S) = chosen[S]
  BY DEF Solves, SumFunctionOnSet, FoldFunctionOnSet, MapThenFoldSet, First
<1>. QED BY <1>1, <1>2

\* What SumFunctionOnSet computes.
LEMMA SumEquation ==
  ASSUME NEW f, NEW S, IsFiniteSet(S), \A x \in S : f[x] \in Nat
  PROVE  /\ SumFunctionOnSet(f, S) \in Nat
         /\ S = {} => SumFunctionOnSet(f, S) = 0
         /\ S # {} => SumFunctionOnSet(f, S)
                       = f[First(S)] + SumFunctionOnSet(f, S \ {First(S)})
<1>1. PICK g \in [SUBSET S -> Nat] : Solves(g, f, S) BY SumDefined
<1>2. ASSUME NEW T \in SUBSET S PROVE SumFunctionOnSet(f, T) = g[T]
  <2>1. IsFiniteSet(T) BY FS_Subset
  <2>2. PICK k : Solves(k, f, T) BY <2>1, SumDefined
  <2>3. PICK h : Solves(h, f, T) /\ SumFunctionOnSet(f, T) = h[T] BY <2>2, SumIs
  <2>. QED BY <1>1, <2>3, SolutionsAgree
<1>3. Equation(g, f, S) BY <1>1 DEF Solves, Equation
<1>4. S \in SUBSET S /\ S \ {First(S)} \in SUBSET S OBVIOUS
<1>. QED BY <1>1, <1>2, <1>3, <1>4 DEF Equation

\* Any element may be taken out of the sum first.
LEMMA SumTakeOut ==
  ASSUME NEW f, NEW S, IsFiniteSet(S), \A x \in S : f[x] \in Nat, NEW e \in S
  PROVE  SumFunctionOnSet(f, S) = f[e] + SumFunctionOnSet(f, S \ {e})
<1>. DEFINE N == Cardinality(S)
            Out(T, x) == SumFunctionOnSet(f, T) = f[x] + SumFunctionOnSet(f, T \ {x})
            A == {n \in 0..N : \A T \in SUBSET S : Cardinality(T) <= n => \A x \in T : Out(T, x)}
<1>1. /\ N \in Nat
      /\ \A T \in SUBSET S : /\ IsFiniteSet(T) /\ Cardinality(T) \in 0..N
                             /\ Cardinality(T) = 0 <=> T = {}
                             /\ SumFunctionOnSet(f, T) \in Nat
  <2>1. ASSUME NEW T \in SUBSET S
        PROVE  IsFiniteSet(T) /\ Cardinality(T) \in 0..N /\ (Cardinality(T) = 0 <=> T = {})
    BY <2>1, FS_Subset, FS_CardinalityType, FS_EmptySet
  <2>2. ASSUME NEW T \in SUBSET S PROVE SumFunctionOnSet(f, T) \in Nat
    BY <2>1, SumEquation
  <2>. QED BY <2>1, <2>2, FS_CardinalityType
<1>2. 0 \in A
  <2>1. \A T \in SUBSET S : Cardinality(T) <= 0 => T = {} BY <1>1
  <2>. HIDE DEF Out
  <2>. QED BY <1>1, <2>1
<1>3. ASSUME NEW n \in A, n < N PROVE n + 1 \in A
  <2>1. n \in 0..N /\ n + 1 \in 0..N BY <1>1, <1>3
  <2>2. ASSUME NEW T \in SUBSET S, Cardinality(T) <= n + 1, NEW x \in T PROVE Out(T, x)
    <3>. DEFINE y == First(T)
                Less(z) == T \ {z}
    <3>1. T # {} /\ IsFiniteSet(T) /\ \A z \in T : f[z] \in Nat BY <1>1, <2>2
    <3>2. y \in T BY <3>1, FirstIn
    <3>3. Out(T, y) BY <3>1, SumEquation
    <3>4. ASSUME NEW z \in T PROVE Less(z) \in SUBSET S /\ Cardinality(Less(z)) <= n
      <4>1. Cardinality(Less(z)) = Cardinality(T) - 1 /\ Cardinality(T) \in Nat
        BY <3>1, FS_RemoveElement, FS_CardinalityType
      <4>. QED BY <2>1, <2>2, <4>1
    <3>5. CASE x = y BY <3>3, <3>5
    <3>6. CASE x # y
      <4>1. Out(Less(y), x) /\ Out(Less(x), y) BY <2>1, <3>2, <3>4, <3>6
      <4>2. Less(y) \ {x} = Less(x) \ {y} OBVIOUS
      <4>3. /\ SumFunctionOnSet(f, T) = f[y] + SumFunctionOnSet(f, Less(y))
            /\ SumFunctionOnSet(f, Less(y)) = f[x] + SumFunctionOnSet(f, Less(x) \ {y})
            /\ SumFunctionOnSet(f, Less(x)) = f[y] + SumFunctionOnSet(f, Less(x) \ {y})
        BY <3>3, <4>1, <4>2
      <4>4. /\ SumFunctionOnSet(f, Less(x) \ {y}) \in Nat /\ f[x] \in Nat /\ f[y] \in Nat
        BY <1>1, <3>1, <3>2
      <4>. HIDE DEF y, Less
      <4>. QED BY <4>3, <4>4 DEF Less
    <3>. QED BY <3>5, <3>6
  <2>. HIDE DEF Out
  <2>. QED BY <2>1, <2>2
<1>4. N \in A
  <2>. HIDE DEF N
  <2>1. A \in SUBSET (0..N) OBVIOUS
  <2>. HIDE DEF A
  <2>. QED BY <1>1, <1>2, <1>3, <2>1, CountUp
<1>. HIDE DEF Out
<1>5. Out(S, e) BY <1>1, <1>4
<1>. QED BY <1>5 DEF Out

\* Only the values in the set count.
LEMMA SumSame ==
  ASSUME NEW f, NEW g, NEW S, IsFiniteSet(S), \A x \in S : f[x] \in Nat /\ g[x] = f[x]
  PROVE  SumFunctionOnSet(f, S) = SumFunctionOnSet(g, S)
<1>1. PICK h : Solves(h, f, S) BY SumDefined
<1>2. Solves(h, g, S)
  <2>1. \A T \in SUBSET S : T # {} => f[First(T)] = g[First(T)]
    BY DEF First
  <2>. QED BY <1>1, <2>1 DEF Solves
<1>3. PICK k : Solves(k, f, S) /\ SumFunctionOnSet(f, S) = k[S] BY <1>1, SumIs
<1>4. PICK l : Solves(l, g, S) /\ SumFunctionOnSet(g, S) = l[S] BY <1>2, SumIs
<1>5. k[S] = h[S] BY <1>1, <1>3, SolutionsAgree
<1>6. l[S] = h[S] BY <1>2, <1>4, SolutionsAgree
<1>. QED BY <1>3, <1>4, <1>5, <1>6

LEMMA SumFunctionIs == \A f : SumFunction(f) = SumFunctionOnSet(f, DOMAIN f)
BY DEF SumFunction

LEMMA SumChanged ==
  ASSUME NEW S, IsFiniteSet(S), NEW f \in [S -> Nat], NEW e \in S, NEW v \in Nat
  PROVE  /\ SumFunction([f EXCEPT ![e] = v]) = SumFunction(f) - f[e] + v
         /\ SumFunction(f) \in Nat /\ f[e] <= SumFunction(f)
<1>. DEFINE g == [f EXCEPT ![e] = v]
            R == S \ {e}
<1>1. /\ SumFunctionOnSet(f, S) = f[e] + SumFunctionOnSet(f, R)
      /\ SumFunctionOnSet(g, S) = g[e] + SumFunctionOnSet(g, R)
  <2>1. e \in S /\ (\A x \in S : f[x] \in Nat) /\ (\A x \in S : g[x] \in Nat) OBVIOUS
  <2>. HIDE DEF g
  <2>. QED BY <2>1, SumTakeOut
<1>2. IsFiniteSet(R) BY FS_Subset
<1>3. SumFunctionOnSet(f, R) = SumFunctionOnSet(g, R) BY <1>2, SumSame
<1>4. SumFunctionOnSet(f, R) \in Nat BY <1>2, SumEquation
<1>5. SumFunction(f) = SumFunctionOnSet(f, S) /\ SumFunction(g) = SumFunctionOnSet(g, S)
  BY SumFunctionIs
<1>. QED BY <1>1, <1>3, <1>4, <1>5

LEMMA SumOfNone ==
  /\ SumFunction(<<>>) = 0
  /\ \A f : DOMAIN f = {} => SumFunction(f) = 0
<1>1. ASSUME NEW f, DOMAIN f = {} PROVE SumFunction(f) = 0
  <2>1. IsFiniteSet({}) BY FS_EmptySet
  <2>. QED BY <1>1, <2>1, SumEquation, SumFunctionIs
<1>. QED BY <1>1

LEMMA SumOfZeros ==
  ASSUME NEW f, IsFiniteSet(DOMAIN f), \A x \in DOMAIN f : f[x] = 0
  PROVE  SumFunction(f) = 0
<1>. DEFINE S == DOMAIN f
            g == [T \in SUBSET S |-> 0]
<1>1. Solves(g, f, S)
  <2>1. \A T \in SUBSET S : T # {} => f[First(T)] = 0 /\ T \ {First(T)} \in SUBSET S
    BY DEF First
  <2>2. \A T \in SUBSET S : g[T] = IF T = {} THEN 0 ELSE f[First(T)] + g[T \ {First(T)}]
    BY <2>1
  <2>. QED BY <2>2 DEF Solves
<1>2. g[S] = 0 OBVIOUS
<1>. HIDE DEF g
<1>3. PICK h : Solves(h, f, S) /\ SumFunctionOnSet(f, S) = h[S] BY <1>1, SumIs
<1>4. h[S] = g[S] BY <1>1, <1>3, SolutionsAgree
<1>. QED BY <1>2, <1>3, <1>4, SumFunctionIs

LEMMA SumAppended ==
  ASSUME NEW q \in Seq(Nat), NEW v \in Nat
  PROVE  SumFunction(Append(q, v)) = SumFunction(q) + v /\ SumFunction(q) \in Nat
<1>. DEFINE r == Append(q, v)
            n == Len(q)
<1>1. /\ r \in Seq(Nat) /\ n \in Nat /\ r[n + 1] = v /\ \A i \in 1..n : r[i] = q[i]
      /\ DOMAIN q = 1..n /\ DOMAIN r = 1..(n + 1) /\ \A i \in 1..n : q[i] \in Nat
  OBVIOUS
<1>. HIDE DEF r, n
<1>2. IsFiniteSet(1..n) /\ IsFiniteSet(1..(n + 1)) BY <1>1, FS_Interval
<1>3. n + 1 \in 1..(n + 1) /\ (1..(n + 1)) \ {n + 1} = 1..n /\ \A i \in 1..(n + 1) : r[i] \in Nat
  BY <1>1
<1>4. SumFunctionOnSet(r, 1..(n + 1)) = v + SumFunctionOnSet(r, 1..n)
  BY <1>1, <1>2, <1>3, SumTakeOut
<1>5. SumFunctionOnSet(q, 1..n) = SumFunctionOnSet(r, 1..n) BY <1>1, <1>2, SumSame
<1>6. SumFunctionOnSet(q, 1..n) \in Nat BY <1>1, <1>2, SumEquation
<1>7. SumFunction(q) = SumFunctionOnSet(q, 1..n) /\ SumFunction(r) = SumFunctionOnSet(r, 1..(n + 1))
  BY <1>1, SumFunctionIs
<1>. QED BY <1>4, <1>5, <1>6, <1>7 DEF r

LEMMA SumTail ==
  ASSUME NEW q \in Seq(Nat), q # <<>>
  PROVE  SumFunction(q) = Head(q) + SumFunction(Tail(q)) /\ SumFunction(q) \in Nat
         /\ SumFunction(Tail(q)) \in Nat
<1>. DEFINE N == Len(q) - 1
            Adds(r) == SumFunction(r) = Head(r) + SumFunction(Tail(r))
            A == {n \in 0..N : \A r \in Seq(Nat) : Len(r) = n + 1 => Adds(r)}
<1>1. N \in Nat OBVIOUS
<1>2. 0 \in A
  <2>1. ASSUME NEW r \in Seq(Nat), Len(r) = 1 PROVE Adds(r)
    <3>. DEFINE x == Head(r)
    <3>1. x \in Nat /\ r = Append(<<>>, x) /\ Tail(r) = <<>>
      <4>1. x = r[1] /\ x \in Nat
        <5>1. Len(<<>>) # 1 OBVIOUS
        <5>2. r # <<>> BY <2>1, <5>1
        <5>. QED BY <2>1, <5>2
      <4>. HIDE DEF x
      <4>2. r = <<x>> BY <2>1, <4>1
      <4>. QED BY <4>1, <4>2
    <3>2. <<>> \in Seq(Nat) OBVIOUS
    <3>. HIDE DEF x
    <3>3. SumFunction(Append(<<>>, x)) = SumFunction(<<>>) + x BY <3>1, <3>2, SumAppended
    <3>4. SumFunction(r) = x + SumFunction(Tail(r)) BY <3>1, <3>3, SumOfNone
    <3>. QED BY <3>4 DEF x
  <2>2. 0 + 1 = 1 OBVIOUS
  <2>. HIDE DEF Adds
  <2>. QED BY <1>1, <2>1, <2>2
<1>3. ASSUME NEW n \in A, n < N PROVE n + 1 \in A
  <2>1. n \in 0..N /\ n + 1 \in 0..N BY <1>1, <1>3
  <2>2. ASSUME NEW r \in Seq(Nat), Len(r) = n + 2 PROVE Adds(r)
    <3>. DEFINE x == r[n + 2]
                p == SubSeq(r, 1, n + 1)
    <3>1. x \in Nat /\ p \in Seq(Nat) /\ Len(p) = n + 1 /\ p # <<>> BY <2>1, <2>2
    <3>2. r = Append(p, x) /\ Head(p) = Head(r) BY <2>1, <2>2
    <3>. HIDE DEF p, x
    <3>3. Tail(r) = Append(Tail(p), x) /\ Tail(p) \in Seq(Nat) /\ Head(p) \in Nat BY <3>1, <3>2
    <3>4. Adds(p) BY <2>1, <3>1
    <3>5. /\ SumFunction(r) = SumFunction(p) + x
          /\ SumFunction(Tail(r)) = SumFunction(Tail(p)) + x /\ SumFunction(Tail(p)) \in Nat
      BY <3>1, <3>2, <3>3, SumAppended
    <3>. QED BY <3>1, <3>2, <3>3, <3>4, <3>5
  <2>. HIDE DEF Adds
  <2>3. \A r \in Seq(Nat) : Len(r) = (n + 1) + 1 => Len(r) = n + 2 BY <2>1
  <2>. QED BY <2>1, <2>2, <2>3
<1>4. N \in A
  <2>. HIDE DEF N
  <2>1. A \in SUBSET (0..N) OBVIOUS
  <2>. HIDE DEF A
  <2>. QED BY <1>1, <1>2, <1>3, <2>1, CountUp
<1>5. Adds(q) BY <1>4
<1>6. Tail(q) \in Seq(Nat) OBVIOUS
<1>. QED BY <1>5, <1>6, SumAppended

-----------------------------------------------------------------------------
(* Sums over the elements of a queue *)

\* The amounts A assigns to them, added up.
Total(A, q) == SumFunction([i \in 1..Len(q) |-> A[q[i]]])

LEMMA TotalOfQueue ==
  ASSUME NEW S, NEW A \in [S -> Nat], NEW q \in Seq(S)
  PROVE  /\ Total(A, q) \in Nat
         /\ Total(A, <<>>) = 0
         /\ \A x \in S : Total(A, Append(q, x)) = Total(A, q) + A[x]
         /\ q # <<>> => Total(A, q) = A[Head(q)] + Total(A, Tail(q))
<1>. DEFINE V(p) == [i \in 1..Len(p) |-> A[p[i]]]
<1>1. \A p \in Seq(S) : V(p) \in Seq(Nat) /\ Len(V(p)) = Len(p)
  <2>. SUFFICES ASSUME NEW p \in Seq(S) PROVE V(p) \in Seq(Nat) /\ Len(V(p)) = Len(p)
    OBVIOUS
  <2>1. \A i \in 1..Len(p) : A[p[i]] \in Nat OBVIOUS
  <2>. QED BY <2>1
<1>2. ASSUME NEW x \in S PROVE V(Append(q, x)) = Append(V(q), A[x]) /\ A[x] \in Nat
  <2>1. /\ Append(q, x) \in Seq(S) /\ Len(Append(q, x)) = Len(q) + 1 /\ Len(q) \in Nat
        /\ Append(q, x)[Len(q) + 1] = x /\ \A i \in 1..Len(q) : Append(q, x)[i] = q[i]
    OBVIOUS
  <2>2. V(q) \in Seq(Nat) /\ Len(V(q)) = Len(q) /\ Len(V(Append(q, x))) = Len(q) + 1
    BY <1>1, <2>1
  <2>3. V(Append(q, x)) \in Seq(Nat) BY <1>1, <2>1
  <2>4. \A i \in 1..(Len(q) + 1) : V(Append(q, x))[i] = Append(V(q), A[x])[i]
    <3>1. \A i \in 1..Len(q) : V(Append(q, x))[i] = V(q)[i] BY <2>1
    <3>2. V(Append(q, x))[Len(q) + 1] = A[x] BY <2>1
    <3>. HIDE DEF V
    <3>. QED BY <2>1, <2>2, <3>1, <3>2
  <2>. HIDE DEF V
  <2>. QED BY <2>1, <2>2, <2>3, <2>4
<1>3. ASSUME q # <<>>
      PROVE  V(q) # <<>> /\ Head(V(q)) = A[Head(q)] /\ V(Tail(q)) = Tail(V(q))
  <2>1. /\ Len(q) \in Nat \ {0} /\ Tail(q) \in Seq(S) /\ Len(Tail(q)) = Len(q) - 1
        /\ Head(q) = q[1] /\ \A i \in 1..(Len(q) - 1) : Tail(q)[i] = q[i + 1]
    BY <1>3
  <2>2. V(q) \in Seq(Nat) /\ Len(V(q)) = Len(q) /\ V(q) # <<>> BY <1>1, <2>1
  <2>3. V(q)[1] = A[Head(q)] BY <2>1
  <2>4. \A i \in 1..(Len(q) - 1) : V(Tail(q))[i] = V(q)[i + 1] BY <2>1
  <2>5. V(Tail(q)) \in Seq(Nat) /\ Len(V(Tail(q))) = Len(q) - 1 BY <1>1, <2>1
  <2>. HIDE DEF V
  <2>6. Head(V(q)) = A[Head(q)] BY <2>2, <2>3
  <2>7. V(Tail(q)) = Tail(V(q))
    <3>1. /\ Tail(V(q)) \in Seq(Nat) /\ Len(Tail(V(q))) = Len(q) - 1
          /\ \A i \in 1..(Len(q) - 1) : Tail(V(q))[i] = V(q)[i + 1]
      BY <2>2
    <3>2. \A i \in 1..(Len(q) - 1) : Tail(V(q))[i] = V(Tail(q))[i] BY <2>4, <3>1
    <3>. DEFINE a == Tail(V(q))
                b == V(Tail(q))
    <3>3. a \in Seq(Nat) /\ b \in Seq(Nat) /\ Len(a) = Len(b) /\ \A i \in 1..Len(b) : a[i] = b[i]
      BY <2>5, <3>1, <3>2
    <3>. HIDE DEF a, b
    <3>4. a = b BY <3>3, SeqEqual, Zenon
    <3>. QED BY <3>4 DEF a, b
  <2>. QED BY <2>2, <2>6, <2>7
<1>4. V(<<>>) = <<>> OBVIOUS
<1>5. \A p : Total(A, p) = SumFunction(V(p)) BY DEF Total
<1>6. V(q) \in Seq(Nat) BY <1>1
<1>. HIDE DEF V
<1>7. Total(A, q) \in Nat BY <1>5, <1>6, SumAppended
<1>8. Total(A, <<>>) = 0 BY <1>4, <1>5, SumOfNone
<1>9. ASSUME NEW x \in S PROVE Total(A, Append(q, x)) = Total(A, q) + A[x]
  <2>1. SumFunction(Append(V(q), A[x])) = SumFunction(V(q)) + A[x]
    BY <1>2, <1>6, SumAppended
  <2>2. Total(A, Append(q, x)) = SumFunction(V(Append(q, x))) /\ Total(A, q) = SumFunction(V(q))
    BY <1>5
  <2>. QED BY <1>2, <2>1, <2>2
<1>10. ASSUME q # <<>> PROVE Total(A, q) = A[Head(q)] + Total(A, Tail(q))
  <2>1. SumFunction(V(q)) = Head(V(q)) + SumFunction(Tail(V(q)))
    BY <1>3, <1>6, <1>10, SumTail
  <2>2. Total(A, Tail(q)) = SumFunction(V(Tail(q))) /\ Total(A, q) = SumFunction(V(q))
    BY <1>5
  <2>. QED BY <1>3, <1>10, <2>1, <2>2
<1>. QED BY <1>7, <1>8, <1>9, <1>10

-----------------------------------------------------------------------------
(* Grants on their way, and DATA written *)

LEMMA Amounts ==
  /\ \A f \in ClientFrames : Grant(f) \in Nat /\ \A s : GrantTo(f, s) \in Nat
  /\ \A m \in ToStream : GrantOf(m) \in Nat
  /\ \A frame \in WireFrame \cup OutFrame : DataSize(frame) \in Nat
<1>1. \A f \in Frame : Grant(f) \in Nat /\ \A s : GrantTo(f, s) \in Nat
  BY DEF Frame, Grant, GrantTo
<1>2. \A m \in ToStream : GrantOf(m) \in Nat BY <1>1 DEF ToStream, GrantOf
<1>3. \A frame \in WireFrame \cup OutFrame : DataSize(frame) \in Nat
  BY DEF DataSize, WireFrame, OutFrame
<1>. QED BY <1>1, <1>2, <1>3, ClientAssumption

LEMMA GrantsInQueue ==
  ASSUME NEW q \in Seq(ClientFrames), NEW s
  PROVE  /\ GrantsTo(q, s) \in Nat /\ GrantsTo(<<>>, s) = 0
         /\ \A f \in ClientFrames : GrantsTo(Append(q, f), s) = GrantsTo(q, s) + GrantTo(f, s)
         /\ q # <<>> => GrantsTo(q, s) = GrantTo(Head(q), s) + GrantsTo(Tail(q), s)
<1>. DEFINE A == [f \in ClientFrames |-> GrantTo(f, s)]
<1>1. A \in [ClientFrames -> Nat] /\ \A f \in ClientFrames : A[f] = GrantTo(f, s) BY Amounts
<1>2. ASSUME NEW p \in Seq(ClientFrames) PROVE GrantsTo(p, s) = Total(A, p)
  <2>1. \A i \in 1..Len(p) : A[p[i]] = GrantTo(p[i], s) BY <1>1
  <2>2. [i \in 1..Len(p) |-> A[p[i]]] = [i \in 1..Len(p) |-> GrantTo(p[i], s)] BY <2>1
  <2>. QED BY <2>2 DEF GrantsTo, Total
<1>3. <<>> \in Seq(ClientFrames) /\ (\A f \in ClientFrames : Append(q, f) \in Seq(ClientFrames))
      /\ (q # <<>> => Tail(q) \in Seq(ClientFrames) /\ Head(q) \in ClientFrames)
  OBVIOUS
<1>. HIDE DEF A
<1>4. /\ Total(A, q) \in Nat /\ Total(A, <<>>) = 0
      /\ \A x \in ClientFrames : Total(A, Append(q, x)) = Total(A, q) + A[x]
      /\ q # <<>> => Total(A, q) = A[Head(q)] + Total(A, Tail(q))
  BY <1>1, TotalOfQueue
<1>. QED BY <1>1, <1>2, <1>3, <1>4

LEMMA GrantsInMessages ==
  ASSUME NEW q \in Seq(ToStream)
  PROVE  /\ GrantsOf(q) \in Nat /\ GrantsOf(<<>>) = 0
         /\ \A m \in ToStream : GrantsOf(Append(q, m)) = GrantsOf(q) + GrantOf(m)
         /\ q # <<>> => GrantsOf(q) = GrantOf(Head(q)) + GrantsOf(Tail(q))
<1>. DEFINE A == [m \in ToStream |-> GrantOf(m)]
<1>1. A \in [ToStream -> Nat] /\ \A m \in ToStream : A[m] = GrantOf(m) BY Amounts
<1>2. ASSUME NEW p \in Seq(ToStream) PROVE GrantsOf(p) = Total(A, p)
  <2>1. \A i \in 1..Len(p) : A[p[i]] = GrantOf(p[i]) BY <1>1
  <2>2. [i \in 1..Len(p) |-> A[p[i]]] = [i \in 1..Len(p) |-> GrantOf(p[i])] BY <2>1
  <2>. QED BY <2>2 DEF GrantsOf, Total
<1>3. <<>> \in Seq(ToStream) /\ (\A m \in ToStream : Append(q, m) \in Seq(ToStream))
      /\ (q # <<>> => Tail(q) \in Seq(ToStream) /\ Head(q) \in ToStream)
  OBVIOUS
<1>. HIDE DEF A
<1>4. /\ Total(A, q) \in Nat /\ Total(A, <<>>) = 0
      /\ \A x \in ToStream : Total(A, Append(q, x)) = Total(A, q) + A[x]
      /\ q # <<>> => Total(A, q) = A[Head(q)] + Total(A, Tail(q))
  BY <1>1, TotalOfQueue
<1>. QED BY <1>1, <1>2, <1>3, <1>4

LEMMA DataInLine ==
  ASSUME NEW q \in Seq(WireFrame)
  PROVE  /\ DataIn(q) \in Nat /\ DataIn(<<>>) = 0
         /\ \A f \in WireFrame : DataIn(Append(q, f)) = DataIn(q) + DataSize(f)
<1>. DEFINE A == [f \in WireFrame |-> DataSize(f)]
<1>1. A \in [WireFrame -> Nat] /\ \A f \in WireFrame : A[f] = DataSize(f) BY Amounts
<1>2. ASSUME NEW p \in Seq(WireFrame) PROVE DataIn(p) = Total(A, p)
  <2>1. \A i \in 1..Len(p) : A[p[i]] = DataSize(p[i]) BY <1>1
  <2>2. [i \in 1..Len(p) |-> A[p[i]]] = [i \in 1..Len(p) |-> DataSize(p[i])] BY <2>1
  <2>. QED BY <2>2 DEF DataIn, Total
<1>3. <<>> \in Seq(WireFrame) /\ (\A f \in WireFrame : Append(q, f) \in Seq(WireFrame))
  OBVIOUS
<1>. HIDE DEF A
<1>4. /\ Total(A, q) \in Nat /\ Total(A, <<>>) = 0
      /\ \A x \in WireFrame : Total(A, Append(q, x)) = Total(A, q) + A[x]
      /\ q # <<>> => Total(A, q) = A[Head(q)] + Total(A, Tail(q))
  BY <1>1, TotalOfQueue
<1>. QED BY <1>1, <1>2, <1>3, <1>4

\* The DATA on all streams, after more was written on one.
LEMMA DataWrittenOn ==
  ASSUME TypeOK, NEW s \in Streams, NEW line \in Seq(WireFrame),
         NEW size \in Nat, DataIn(line) = DataIn(wire[s]) + size
  PROVE  DataOf([wire EXCEPT ![s] = line]) = DataOf(wire) + size /\ DataOf(wire) \in Nat
<1>. DEFINE on == [x \in Streams |-> DataIn(wire[x])]
            v == DataIn(line)
<1>1. \A x \in Streams : wire[x] \in Seq(WireFrame) /\ DataIn(wire[x]) \in Nat
  BY ChannelTypes, DataInLine
<1>2. on \in [Streams -> Nat] /\ v \in Nat BY <1>1, DataInLine
<1>3. [x \in Streams |-> DataIn([wire EXCEPT ![s] = line][x])] = [on EXCEPT ![s] = v]
  <2>1. s \in DOMAIN wire /\ \A x \in Streams : x \in DOMAIN wire BY ChannelTypes
  <2>2. \A x \in Streams : [wire EXCEPT ![s] = line][x] = IF x = s THEN line ELSE wire[x]
    BY <2>1
  <2>3. \A x \in Streams : DataIn([wire EXCEPT ![s] = line][x]) = [on EXCEPT ![s] = v][x]
    <3>1. \A x \in Streams : on[x] = DataIn(wire[x]) OBVIOUS
    <3>. HIDE DEF on
    <3>. QED BY <1>2, <2>2, <3>1
  <2>. HIDE DEF on, v
  <2>4. DOMAIN [on EXCEPT ![s] = v] = Streams BY <1>2
  <2>5. [on EXCEPT ![s] = v] = [x \in Streams |-> [on EXCEPT ![s] = v][x]] BY <1>2
  <2>. QED BY <2>3, <2>5
<1>4. on[s] = DataIn(wire[s]) OBVIOUS
<1>5. DataOf(wire) = SumFunction(on) BY DEF DataOf
<1>6. DataOf([wire EXCEPT ![s] = line]) = SumFunction([on EXCEPT ![s] = v])
  BY <1>3 DEF DataOf
<1>. HIDE DEF on, v
<1>7. /\ SumFunction([on EXCEPT ![s] = v]) = SumFunction(on) - on[s] + v
      /\ SumFunction(on) \in Nat
  BY <1>2, FiniteAssumption, SumChanged
<1>. QED BY <1>1, <1>2, <1>4, <1>5, <1>6, <1>7 DEF v

-----------------------------------------------------------------------------
(* The stream tasks *)

LEMMA FlowTypes ==
  ASSUME TypeOK
  PROVE  /\ fromReader \in Seq(ClientFrames) /\ ctx.window \in Nat
         /\ \A s \in Streams : /\ task[s] \in Task /\ task[s].window \in Nat
                               /\ inbox[s] \in Seq(ToStream) /\ wire[s] \in Seq(WireFrame)
                               /\ GrantBlocked(s) \in Nat /\ GrantsOf(inbox[s]) \in Nat
         /\ \A s : GrantsTo(fromReader, s) \in Nat
         /\ Len(blocked) <= 1
         /\ blocked # <<>> => Head(blocked).to \in Streams /\ Head(blocked).msg \in ToStream
<1>1. fromReader \in Seq(ClientFrames) /\ ctx.window \in Nat
  BY WindowAssumption DEF TypeOK, OwnTypeOK, Context
<1>2. \A s \in Streams : /\ task[s] \in Task /\ task[s].window \in Nat
                         /\ inbox[s] \in Seq(ToStream) /\ wire[s] \in Seq(WireFrame)
  BY ChannelTypes, WindowAssumption DEF Task
<1>3. blocked \in Seq(Tasks!Envelope) /\ Len(blocked) <= 1
  BY SameContract DEF TypeOK, Tasks!TypeOK
<1>4. blocked # <<>> => Head(blocked).to \in Streams /\ Head(blocked).msg \in ToStream
  <2>1. blocked # <<>> => Head(blocked) \in Tasks!Envelope BY <1>3
  <2>. QED BY <2>1, SameTypes DEF Tasks!Envelope
<1>5. \A s : GrantBlocked(s) \in Nat BY <1>4, Amounts DEF GrantBlocked
<1>. QED BY <1>1, <1>2, <1>3, <1>4, <1>5, GrantsInQueue, GrantsInMessages

\* What a task makes of a message: its window grows by no more than the message
\* grants, and DATA goes out only within the window.
InWindow(t, u) ==
  u.out # <<>> /\ Response(Head(u.out)) =>
    LET frames == Head(u.out).frames IN
    \A i \in 1..Len(frames) : frames[i].kind = "DATA" => frames[i].len <= t.window

LEMMA HandledInWindow ==
  ASSUME NEW s \in Streams, NEW t \in Task, t.out = <<>>, NEW m \in ToStream
  PROVE  LET u == Handle(s, t, m) IN
         /\ u.phase = "running" => u.window \in Int /\ u.window <= t.window + GrantOf(m)
         /\ InWindow(t, u)
<1>. DEFINE u == Handle(s, t, m)
<1>1. t.window \in Nat BY WindowAssumption DEF Task
<1>2. GrantOf(m) \in Nat BY Amounts
<1>3. CASE m.type = "FrameForRequest"
  <2>. DEFINE f == m.frame
  <2>1. u = HandleFrame(s, t, f) /\ GrantOf(m) = Grant(f) /\ f \in Frame
    BY <1>3 DEF Handle, GrantOf, ToStream
  <2>. HIDE DEF f
  <2>2. HandleFrame(s, t, f).window \in {t.window, t.window + Grant(f)}
    BY <1>1 DEF HandleFrame, Accepted, Grant, Task
  <2>3. HandleFrame(s, t, f).out = <<FrameVerdict(s, t, f)>>
    BY DEF HandleFrame, Accepted, Task
  <2>4. ~Response(FrameVerdict(s, t, f))
    BY DEF FrameVerdict, ErrorMessage, CountMessage, Response
  <2>5. u.window \in Int /\ u.window <= t.window + GrantOf(m) BY <1>1, <1>2, <2>1, <2>2
  <2>6. InWindow(t, u) BY <2>1, <2>3, <2>4 DEF InWindow
  <2>. QED BY <2>5, <2>6
<1>4. CASE m.type = "ResponseObject"
  <2>. DEFINE n == m.size
              both == ResponseMessage(s, <<ResponseHeaders, ResponseData(n)>>)
              one  == ResponseMessage(s, <<ResponseHeaders>>)
  <2>1. u = HandleResponse(s, t, n) /\ n \in Nat BY <1>4 DEF Handle, ToStream
  <2>2. /\ both.frames = <<ResponseHeaders, ResponseData(n)>> /\ ResponseData(n).len = n
        /\ one.frames = <<ResponseHeaders>> /\ ResponseHeaders.kind = "HEADERS"
    BY DEF ResponseMessage, ResponseData, ResponseHeaders
  <2>. HIDE DEF n
  <2>3. CASE CanSendFrame(t, n)
    <3>1. u = [t EXCEPT !.window = @ - n, !.out = <<both>>] BY <2>1, <2>3 DEF HandleResponse
    <3>. HIDE DEF both, u
    <3>2. u.window = t.window - n /\ u.out = <<both>> BY <3>1 DEF Task
    <3>3. n <= t.window BY <1>1, <2>1, <2>3 DEF CanSendFrame
    <3>4. \A i \in 1..Len(both.frames) : both.frames[i].kind = "DATA" => both.frames[i].len = n
      <4>. DEFINE h == ResponseHeaders
                  d == ResponseData(n)
      <4>1. both.frames = <<h, d>> /\ h.kind # "DATA" /\ d.len = n BY <2>2
      <4>. HIDE DEF h, d
      <4>2. Len(both.frames) = 2 /\ both.frames[1] = h /\ both.frames[2] = d BY <4>1
      <4>3. \A i \in 1..2 : i = 1 \/ i = 2 OBVIOUS
      <4>. QED BY <4>1, <4>2, <4>3
    <3>5. InWindow(t, u) BY <3>2, <3>3, <3>4 DEF InWindow
    <3>6. u.window \in Int /\ u.window <= t.window + GrantOf(m) BY <1>1, <1>2, <2>1, <3>2
    <3>. QED BY <3>5, <3>6 DEF u
  <2>4. CASE ~CanSendFrame(t, n)
    <3>1. u = [t EXCEPT !.pending = Append(@, ResponseData(n)), !.out = <<one>>]
      BY <2>1, <2>4 DEF HandleResponse
    <3>. HIDE DEF one, u
    <3>2. u.window = t.window /\ u.out = <<one>> BY <3>1 DEF Task
    <3>3. \A i \in 1..Len(one.frames) : one.frames[i].kind # "DATA" BY <2>2
    <3>4. InWindow(t, u) BY <3>2, <3>3 DEF InWindow
    <3>5. u.window \in Int /\ u.window <= t.window + GrantOf(m) BY <1>1, <1>2, <3>2
    <3>. QED BY <3>4, <3>5 DEF u
  <2>. QED BY <2>3, <2>4
<1>5. CASE m.type = "DecodingHeadersResponse"
  <2>1. u = HandleDecodedHeaders(s, t, m.trailer) BY <1>5 DEF Handle
  <2>2. u.window = t.window BY <2>1 DEF HandleDecodedHeaders, Task
  <2>3. \/ u.out = <<>>
        \/ u.out = <<ErrorMessage(s, ConnectionError("PROTOCOL_ERROR"))>>
    BY <2>1 DEF HandleDecodedHeaders, Task
  <2>4. InWindow(t, u) BY <2>3 DEF InWindow, Response, ErrorMessage
  <2>. HIDE DEF u
  <2>5. u.window \in Int /\ u.window <= t.window + GrantOf(m) BY <1>1, <1>2, <2>2
  <2>. QED BY <2>4, <2>5 DEF u
<1>6. CASE m.type = "DecodingTrailersResponse"
  <2>1. u = HandleDecodedTrailers(t) BY <1>6 DEF Handle
  <2>2. u.phase = "running" => u.window = t.window
    BY <2>1 DEF HandleDecodedTrailers, NewTask, Task
  <2>3. u.out = <<>> BY <2>1 DEF HandleDecodedTrailers, NewTask, Task
  <2>4. InWindow(t, u) BY <2>3 DEF InWindow
  <2>. HIDE DEF u
  <2>5. u.phase = "running" => u.window \in Int /\ u.window <= t.window + GrantOf(m)
    BY <1>1, <1>2, <2>2
  <2>. QED BY <2>4, <2>5 DEF u
<1>7. m.type \in {"FrameForRequest", "ResponseObject", "DecodingHeadersResponse",
                  "DecodingTrailersResponse"}
  BY DEF ToStream
<1>. QED BY <1>3, <1>4, <1>5, <1>6, <1>7

\* What it does at the top of its loop leaves the window alone.
LEMMA TopInWindow ==
  ASSUME NEW s \in Streams, NEW t \in Task, t.out = <<>>,
         NEW u \in {AskForHeaders(s, t), AskForTrailers(s, t), HandOver(s, t)}
                     \cup (IF NeedsFlush(t) THEN {Flush(s, t)} ELSE {})
  PROVE  /\ u.phase = "running" => u.window = t.window
         /\ InWindow(t, u)
<1>1. CASE u = AskForHeaders(s, t)
  <2>1. u.window = t.window /\ u.out = <<DecodeRequest("DecodingHeadersRequest", s, t.headers)>>
    BY <1>1 DEF AskForHeaders, Task
  <2>. QED BY <2>1 DEF InWindow, Response, DecodeRequest
<1>2. CASE u = AskForTrailers(s, t)
  <2>1. /\ u.phase = "running" => u.window = t.window
        /\ \/ u.out = <<>>
           \/ u.out = <<DecodeRequest("DecodingTrailersRequest", s, t.trailers)>>
    BY <1>2 DEF AskForTrailers, NewTask, Task
  <2>. QED BY <2>1 DEF InWindow, Response, DecodeRequest
<1>3. CASE u = HandOver(s, t)
  <2>1. u.window = t.window /\ u.out = <<DispatchMessage(s)>> BY <1>3 DEF HandOver, Task
  <2>. QED BY <2>1 DEF InWindow, Response, DispatchMessage
<1>4. CASE NeedsFlush(t) /\ u = Flush(s, t)
  <2>. DEFINE d == Head(t.pending)
              one == ResponseMessage(s, <<d>>)
  <2>1. d.kind = "DATA" => d.len <= t.window BY <1>4 DEF NeedsFlush, FitsWindow
  <2>2. one.frames = <<d>> BY DEF ResponseMessage
  <2>. HIDE DEF d
  <2>3. \A i \in 1..Len(one.frames) : one.frames[i] = d BY <2>2
  <2>4. \/ u.phase # "running" /\ u.out = <<>>
        \/ u.window = t.window /\ u.out = <<one>>
    <3>1. Flush(s, t).out = <<one>> \/ Flush(s, t) = NewTask("ended")
      BY DEF Flush, one, d, Task
    <3>. QED BY <1>4, <3>1 DEF Flush, NewTask, Task
  <2>. HIDE DEF one
  <2>. QED BY <2>1, <2>3, <2>4 DEF InWindow
<1>. QED BY <1>1, <1>2, <1>3, <1>4

\* A step of a task: what its window and its inbox hold does not grow, and DATA
\* goes out only within the window.
LEMMA TaskInWindow ==
  ASSUME ConnectionInv, NEW s \in Streams, StreamStep(s)
  PROVE  /\ Running(s) /\ task'[s].phase # "absent"
         /\ task'[s].phase = "running" =>
              task'[s].window + GrantsOf(inbox'[s]) <= task[s].window + GrantsOf(inbox[s])
         /\ InWindow(task[s], task'[s])
<1>. DEFINE t == task[s]
            Sum(u, rest) == u.window + GrantsOf(rest)
<1>1. TypeOK /\ Tasks!Coherent(s, t)
  BY DEF ConnectionInv, Tasks!TasksInStep, Tasks!StreamInv
<1>2. /\ task \in [Streams -> Task] /\ inbox \in [Streams -> Seq(ToStream)]
      /\ t \in Task /\ t.window \in Nat
      /\ inbox[s] \in Seq(ToStream) /\ GrantsOf(inbox[s]) \in Nat
  BY <1>1, ChannelTypes, FlowTypes
<1>3. Running(s) /\ task'[s].phase # "absent" BY <1>1, TaskGoesOn
<1>4. ASSUME NEW u, NEW rest, Become(s, u, rest),
             u.phase = "running" => Sum(u, rest) <= Sum(t, inbox[s]), InWindow(t, u)
      PROVE  /\ task'[s].phase = "running" => Sum(task'[s], inbox'[s]) <= Sum(t, inbox[s])
             /\ InWindow(t, task'[s])
  <2>1. task'[s] = u /\ (u.phase = "running" => inbox'[s] = rest) BY <1>2, <1>4 DEF Become
  <2>. HIDE DEF Sum
  <2>. QED BY <1>4, <2>1
<1>5. CASE \/ CompositeHeaders(s) \/ CompositeTrailers(s) \/ DispatchIfNeeded(s)
           \/ RespondIfPossible(s)
  <2>1. AtTop(s) /\ \E u \in {AskForHeaders(s, t), AskForTrailers(s, t), HandOver(s, t)}
                                \cup (IF NeedsFlush(t) THEN {Flush(s, t)} ELSE {}) :
                      Become(s, u, inbox[s])
    BY <1>5 DEF CompositeHeaders, CompositeTrailers, DispatchIfNeeded, RespondIfPossible, TopOfLoop
  <2>2. PICK u \in {AskForHeaders(s, t), AskForTrailers(s, t), HandOver(s, t)}
                     \cup (IF NeedsFlush(t) THEN {Flush(s, t)} ELSE {}) : Become(s, u, inbox[s])
    BY <2>1
  <2>3. t.out = <<>> BY <2>1 DEF AtTop
  <2>4. (u.phase = "running" => u.window = t.window) /\ InWindow(t, u)
    BY <1>2, <2>3, TopInWindow
  <2>5. u.phase = "running" => Sum(u, inbox[s]) <= Sum(t, inbox[s]) BY <1>2, <2>4
  <2>. HIDE DEF t, Sum
  <2>. QED BY <1>3, <1>4, <2>2, <2>4, <2>5 DEF t, Sum
<1>6. ASSUME NEW type, Receive(s, type)
      PROVE  /\ task'[s].phase = "running" => Sum(task'[s], inbox'[s]) <= Sum(t, inbox[s])
             /\ InWindow(t, task'[s])
  <2>. DEFINE m == Head(inbox[s])
              rest == Tail(inbox[s])
              u == Handle(s, t, m)
  <2>1. t.out = <<>> /\ inbox[s] # <<>> /\ Become(s, u, rest)
    BY <1>6 DEF Receive, Idle, AtTop
  <2>2. /\ m \in ToStream /\ rest \in Seq(ToStream)
        /\ GrantsOf(inbox[s]) = GrantOf(m) + GrantsOf(rest)
        /\ GrantOf(m) \in Nat /\ GrantsOf(rest) \in Nat
    <3>1. m \in ToStream /\ rest \in Seq(ToStream) BY <1>2, <2>1, HeadTailProperties
    <3>2. GrantsOf(inbox[s]) = GrantOf(m) + GrantsOf(rest) BY <1>2, <2>1, GrantsInMessages
    <3>. HIDE DEF m, rest
    <3>3. GrantsOf(rest) \in Nat BY <3>1, GrantsInMessages
    <3>4. GrantOf(m) \in Nat BY <3>1, Amounts
    <3>. QED BY <3>1, <3>2, <3>3, <3>4
  <2>3. /\ u.phase = "running" => u.window \in Int /\ u.window <= t.window + GrantOf(m)
        /\ InWindow(t, u)
    BY <1>2, <2>1, <2>2, HandledInWindow
  <2>4. u.phase = "running" => Sum(u, rest) <= Sum(t, inbox[s])
    <3>. HIDE DEF m, rest, u
    <3>. QED BY <1>2, <2>2, <2>3
  <2>. HIDE DEF t, Sum, u, rest
  <2>. QED BY <1>4, <2>1, <2>3, <2>4
<1>7. CASE ReceiveFrame(s) \/ ReceiveResponse(s) \/ ReceiveHeaders(s) \/ ReceiveTrailers(s)
  BY <1>3, <1>6, <1>7 DEF ReceiveFrame, ReceiveResponse, ReceiveHeaders, ReceiveTrailers
<1>8. CASE Terminate(s) \/ SendFails(s)
  <2>1. task'[s] = NewTask("ended") BY <1>2, <1>8 DEF Terminate, SendFails, Become
  <2>. QED BY <1>3, <2>1 DEF NewTask, InWindow
<1>9. CASE Send(s)
  <2>1. t.out # <<>> /\ task' = [task EXCEPT ![s].out = Tail(@)] /\ inbox' = inbox
    BY <1>9 DEF Send
  <2>2. Tail(t.out) = <<>>
    <3>1. Len(t.out) <= 1 BY <1>1 DEF Tasks!Coherent
    <3>2. t.out \in Seq(ToConnection) BY <1>2 DEF Task
    <3>. HIDE DEF t
    <3>. QED BY <2>1, <3>1, <3>2, OnlyOne
  <2>3. task'[s].out = <<>> /\ task'[s].window = t.window BY <1>2, <2>1, <2>2 DEF Task
  <2>. QED BY <1>2, <1>3, <2>1, <2>3 DEF InWindow
<1>. QED BY <1>5, <1>7, <1>8, <1>9 DEF StreamStep

-----------------------------------------------------------------------------
(* The steps that allow no DATA and write none *)

\* The connection writes resets and acknowledgements.
LEMMA NoDataWritten ==
  ASSUME TypeOK, NEW sid, NEW f \in WireFrame, f.kind # "DATA",
         wire' = wire \/ Write(sid, <<f>>) \/ Write(sid, <<>>)
  PROVE  /\ \A s \in Streams : /\ DataIn(wire[s])' = DataIn(wire[s])
                               /\ Wrote("DATA", s)' <=> Wrote("DATA", s)
         /\ DataOf(wire)' = DataOf(wire)
<1>1. ASSUME NEW s \in Streams
      PROVE  /\ DataIn(wire'[s]) = DataIn(wire[s])
             /\ "DATA" \in Kinds(wire'[s]) <=> "DATA" \in Kinds(wire[s])
  <2>1. wire[s] \in Seq(WireFrame) /\ s \in DOMAIN wire BY ChannelTypes
  <2>2. \/ wire'[s] = wire[s] \/ wire'[s] = wire[s] \o <<f>> \/ wire'[s] = wire[s] \o <<>>
    BY <2>1 DEF Write
  <2>3. wire[s] \o <<>> = wire[s] /\ wire[s] \o <<f>> = Append(wire[s], f) BY <2>1
  <2>4. DataIn(Append(wire[s], f)) = DataIn(wire[s])
    <3>1. DataIn(Append(wire[s], f)) = DataIn(wire[s]) + DataSize(f) /\ DataIn(wire[s]) \in Nat
      BY <2>1, DataInLine
    <3>2. DataSize(f) = 0 BY DEF DataSize
    <3>. QED BY <3>1, <3>2
  <2>5. Kinds(Append(wire[s], f)) = Kinds(wire[s]) \cup {f.kind} BY <2>1, KindsAppended
  <2>6. CASE wire'[s] = wire[s] BY <2>6
  <2>7. CASE wire'[s] = Append(wire[s], f) BY <2>4, <2>5, <2>7
  <2>. QED BY <2>2, <2>3, <2>6, <2>7
<1>2. DataOf(wire') = DataOf(wire)
  <2>1. [s \in Streams |-> DataIn(wire'[s])] = [s \in Streams |-> DataIn(wire[s])] BY <1>1
  <2>. QED BY <2>1 DEF DataOf
<1>3. \A s \in Streams : DataIn(wire[s])' = DataIn(wire'[s]) BY DEF DataIn
<1>4. DataOf(wire)' = DataOf(wire') BY DEF DataOf, DataIn
<1>. QED BY <1>1, <1>2, <1>3, <1>4 DEF Wrote, Kinds

\* A step that does not change the balance: the windows and the grants under
\* way do not grow, and no DATA moves but to be dropped.
NoData ==
  /\ \A s \in Streams : /\ DataIn(wire[s])' = DataIn(wire[s])
                        /\ Wrote("DATA", s)' <=> Wrote("DATA", s)
  /\ DataOf(wire)' = DataOf(wire)

Quiet ==
  /\ \A s \in Streams :
       /\ task'[s].window = task[s].window /\ task'[s].out = task[s].out
       /\ \/ task'[s].phase = task[s].phase
          \/ task[s].phase = "absent" /\ task'[s].phase = "running"
       /\ Coming(s)' \in Nat /\ Coming(s)' <= Coming(s)
  /\ ctx'.window \in Nat /\ GrantsTo(fromReader, 0)' \in Nat
  /\ ctx'.window + GrantsTo(fromReader, 0)' <= ctx.window + GrantsTo(fromReader, 0)
  /\ Remaining(toConn')
  /\ NoData

LEMMA CoveredStays ==
  ASSUME TypeOK, NEW s \in Streams, UNCHANGED credit, Remaining(toConn'),
         \A i \in 1..Len(toConn) : Covered(toConn[i], s)
  PROVE  \A i \in 1..Len(toConn') : Covered(toConn[i], s)'
<1>1. toConn \in Seq(ToConnection) BY ChannelTypes
<1>2. \A i \in 1..Len(toConn') : \E j \in 1..Len(toConn) : toConn'[i] = toConn[j]
  <2>1. CASE toConn' = <<>> BY <2>1
  <2>2. CASE toConn' = toConn BY <2>2
  <2>3. CASE toConn # <<>> /\ toConn' = Tail(toConn)
    <3>1. /\ Len(toConn') = Len(toConn) - 1 /\ Len(toConn) \in Nat
          /\ \A i \in 1..Len(toConn') : toConn'[i] = toConn[i + 1]
      BY <1>1, <2>3
    <3>. QED BY <3>1
  <2>. QED BY <2>1, <2>2, <2>3 DEF Remaining
<1>. QED BY <1>2 DEF Covered, Response

LEMMA FlowNumbers ==
  ASSUME TypeOK
  PROVE  /\ \A s \in Streams : DataIn(wire[s]) \in Nat /\ Coming(s) \in Nat
         /\ DataOf(wire) \in Nat
<1>1. \A s \in Streams : DataIn(wire[s]) \in Nat BY FlowTypes, DataInLine
<1>2. DataOf(wire) \in Nat
  <2>. DEFINE on == [s \in Streams |-> DataIn(wire[s])]
  <2>1. DOMAIN on = Streams /\ \A s \in Streams : on[s] \in Nat BY <1>1
  <2>2. DataOf(wire) = SumFunctionOnSet(on, DOMAIN on) BY SumFunctionIs DEF DataOf
  <2>. HIDE DEF on
  <2>. QED BY <2>1, <2>2, FiniteAssumption, SumEquation
<1>3. \A s \in Streams : Coming(s) \in Nat BY FlowTypes DEF Coming
<1>. QED BY <1>1, <1>2, <1>3

\* The credit is a function of what the client has granted.
LEMMA CreditIs ==
  /\ granted \in [Streams \cup {0} -> Nat] => credit \in [Streams \cup {0} -> Nat]
  /\ UNCHANGED granted => UNCHANGED credit
BY WindowAssumption DEF credit

LEMMA QuietKeepsCredit ==
  ASSUME TypeOK, CreditKept, UNCHANGED granted, Quiet
  PROVE  CreditKept'
<1>. SUFFICES ASSUME UNCHANGED credit PROVE CreditKept' BY CreditIs
<1>1. credit \in [Streams \cup {0} -> Nat] BY CreditIs DEF CreditKept
<1>2. ASSUME NEW s \in Streams PROVE WindowKept(s)' /\ DataKept(s)'
  <2>1. WindowKept(s) /\ DataKept(s) /\ credit[s] \in Nat BY <1>1 DEF CreditKept
  <2>2. task[s].window \in Nat /\ Coming(s) \in Nat BY FlowNumbers, FlowTypes
  <2>3. /\ task'[s].window = task[s].window /\ task'[s].out = task[s].out
        /\ \/ task'[s].phase = task[s].phase
           \/ task[s].phase = "absent" /\ task'[s].phase = "running"
        /\ Coming(s)' \in Nat /\ Coming(s)' <= Coming(s)
    BY DEF Quiet
  <2>4. WindowKept(s)' BY <2>1, <2>2, <2>3 DEF WindowKept
  <2>5. \A i \in 1..Len(toConn') : Covered(toConn[i], s)'
    BY <2>1, CoveredStays DEF DataKept, Quiet
  <2>6. task'[s].out # <<>> => Covered(Head(task[s].out), s)'
    BY <2>1, <2>3 DEF DataKept, Covered, Response
  <2>7. DataIn(wire[s])' = DataIn(wire[s]) /\ (Wrote("DATA", s)' <=> Wrote("DATA", s))
    BY DEF Quiet, NoData
  <2>. QED BY <2>1, <2>4, <2>5, <2>6, <2>7 DEF DataKept
<1>3. ConnectionKept'
  <2>1. DataOf(wire) + ctx.window + GrantsTo(fromReader, 0) <= credit[0] /\ credit[0] \in Nat
    BY <1>1 DEF CreditKept, ConnectionKept
  <2>2. ctx.window \in Nat /\ GrantsTo(fromReader, 0) \in Nat BY FlowTypes
  <2>3. DataOf(wire)' = DataOf(wire) BY DEF Quiet, NoData
  <2>4. DataOf(wire) \in Nat BY FlowNumbers
  <2>. QED BY <2>1, <2>2, <2>3, <2>4 DEF ConnectionKept, Quiet
<1>. QED BY <1>1, <1>2, <1>3 DEF CreditKept

\* The reader, the dispatches and the connection do but such steps, unless a
\* frame is read, a response written or a stream started.
LEMMA OtherStepsQuiet ==
  ASSUME ConnectionInv, OtherThanReading \/ UNCHANGED vars, ~WriteResponse, ~TakeStreamFrame,
         \A d \in Streams : ~StreamTask(d)
  PROVE  Quiet
<1>. DEFINE Arriving(s) == GrantsOf(inbox[s]) + GrantBlocked(s)
<1>1. /\ TypeOK /\ ctx \in Context /\ ctx.window \in Nat /\ fromReader \in Seq(ClientFrames)
      /\ task \in [Streams -> Task] /\ inbox \in [Streams -> Seq(ToStream)]
      /\ \A s \in Streams : GrantsOf(inbox[s]) \in Nat /\ GrantBlocked(s) \in Nat
      /\ \A s : GrantsTo(fromReader, s) \in Nat
  BY FlowTypes, ChannelTypes DEF ConnectionInv, TypeOK, OwnTypeOK
<1>2. ASSUME UNCHANGED task, Remaining(toConn'), ctx'.window = ctx.window, NoData,
             \/ fromReader' \in {fromReader, <<>>}
             \/ fromReader # <<>> /\ fromReader' = Tail(fromReader),
             \A s \in Streams : Arriving(s)' \in Nat /\ Arriving(s)' <= Arriving(s)
      PROVE  Quiet
  <2>1. ASSUME NEW s PROVE GrantsTo(fromReader, s)' \in Nat
                           /\ GrantsTo(fromReader, s)' <= GrantsTo(fromReader, s)
    <3>1. GrantsTo(fromReader, s)' = GrantsTo(fromReader', s) BY DEF GrantsTo
    <3>2. CASE fromReader' = fromReader BY <1>1, <3>1, <3>2
    <3>3. CASE fromReader' = <<>>
      <4>1. GrantsTo(<<>>, s) = 0 BY <1>1, GrantsInQueue
      <4>. QED BY <1>1, <3>1, <3>3, <4>1
    <3>4. CASE fromReader # <<>> /\ fromReader' = Tail(fromReader)
      <4>1. GrantsTo(fromReader, s) = GrantTo(Head(fromReader), s) + GrantsTo(Tail(fromReader), s)
        BY <1>1, <3>4, GrantsInQueue
      <4>2. Tail(fromReader) \in Seq(ClientFrames) /\ Head(fromReader) \in ClientFrames
        BY <1>1, <3>4, HeadTailProperties
      <4>3. GrantTo(Head(fromReader), s) \in Nat /\ GrantsTo(Tail(fromReader), s) \in Nat
        BY <4>2, GrantsInQueue, Amounts
      <4>. QED BY <3>1, <3>4, <4>1, <4>3
    <3>. QED BY <1>2, <3>2, <3>3, <3>4
  <2>2. ASSUME NEW s \in Streams PROVE Coming(s)' \in Nat /\ Coming(s)' <= Coming(s)
    <3>1. Coming(s) = Arriving(s) + GrantsTo(fromReader, s)
          /\ Coming(s)' = Arriving(s)' + GrantsTo(fromReader, s)'
      BY DEF Coming
    <3>2. Arriving(s)' \in Nat /\ Arriving(s)' <= Arriving(s) /\ Arriving(s) \in Nat
      BY <1>1, <1>2
    <3>. HIDE DEF Arriving
    <3>. QED BY <1>1, <2>1, <3>1, <3>2
  <2>3. \A s \in Streams : task'[s] = task[s] BY <1>2
  <2>. QED BY <1>1, <1>2, <2>1, <2>2, <2>3 DEF Quiet
<1>3. UNCHANGED wire => NoData BY DEF NoData, DataIn, DataOf, Wrote, Kinds
<1>4. UNCHANGED <<inbox, blocked>> =>
        \A s \in Streams : Arriving(s)' \in Nat /\ Arriving(s)' <= Arriving(s)
  BY <1>1 DEF GrantsOf, GrantBlocked
<1>5. UNCHANGED inbox /\ blocked' = <<>> =>
        \A s \in Streams : Arriving(s)' \in Nat /\ Arriving(s)' <= Arriving(s)
  BY <1>1 DEF GrantsOf, GrantBlocked
<1>. DEFINE reset == ResetFor(ctx.error.code)
            goaway == GoawayFor(ctx.seenMax, ctx.error.code)
<1>6. /\ reset \in WireFrame /\ reset.kind # "DATA" /\ goaway \in WireFrame
      /\ goaway.kind # "DATA"
      /\ \A f \in ClientFrames : Handlers!NeedsAck(f) => AckOf(f) \in WireFrame
                                                         /\ AckOf(f).kind # "DATA"
  BY <1>1, WrittenTypes
     DEF ResetFor, GoawayFor, AckOf, Written, Handlers!NeedsAck
<1>. HIDE DEF reset, goaway, Arriving
<1>7. ASSUME NEW sid, NEW f \in WireFrame, f.kind # "DATA",
             wire' = wire \/ Write(sid, <<f>>) \/ Write(sid, <<>>)
      PROVE  NoData
  BY <1>1, <1>7, NoDataWritten DEF NoData
<1>8. CASE \/ PeerCloses \/ ReaderStops \/ UNCHANGED vars \/ DropOtherError
           \/ (\E d \in Streams : Acquire(d) \/ DispatchCancelled(d) \/ Dispatched(d))
  <2>1. UNCHANGED <<task, inbox, toConn, wire, fromReader, blocked>> /\ ctx'.window = ctx.window
    BY <1>1, <1>8 DEF PeerCloses, ReaderStops, vars, streamVars, connVars, readerVars,
       Acquire, DispatchCancelled, Dispatched, DispatchVars, DropOtherError, Context
  <2>. QED BY <1>2, <1>3, <1>4, <2>1 DEF Remaining
<1>9. ASSUME NEW d \in Streams, DispatchReplies(d) PROVE Quiet
  <2>. DEFINE m == [type |-> "ResponseObject", size |-> dispatch[d].size]
  <2>1. UNCHANGED <<task, toConn, wire, fromReader, blocked, ctx>>
        /\ inbox' = [inbox EXCEPT ![d] = IF Running(d) THEN Append(@, m) ELSE @]
    BY <1>9 DEF DispatchReplies, DispatchVars, connVars, readerVars
  <2>2. m \in ToStream /\ GrantOf(m) = 0
    <3>1. dispatch \in [Streams -> Request] BY <1>1 DEF TypeOK, OwnTypeOK
    <3>2. dispatch[d].size \in Nat BY <3>1 DEF Request
    <3>. QED BY <3>2 DEF ToStream, GrantOf
  <2>. HIDE DEF m
  <2>3. ASSUME NEW s \in Streams PROVE Arriving(s)' \in Nat /\ Arriving(s)' <= Arriving(s)
    <3>1. GrantsOf(Append(inbox[s], m)) = GrantsOf(inbox[s])
      BY <1>1, <2>2, GrantsInMessages
    <3>2. inbox'[s] = inbox[s] \/ inbox'[s] = Append(inbox[s], m) BY <1>1, <2>1
    <3>3. GrantsOf(inbox[s])' = GrantsOf(inbox[s])
      <4>1. GrantsOf(inbox'[s]) = GrantsOf(inbox[s]) BY <3>1, <3>2
      <4>. QED BY <4>1 DEF GrantsOf
    <3>4. GrantBlocked(s)' = GrantBlocked(s) BY <2>1 DEF GrantBlocked
    <3>. QED BY <1>1, <3>3, <3>4 DEF Arriving
  <2>. QED BY <1>2, <1>3, <2>1, <2>3 DEF Remaining
<1>10. CASE TakeRefusedFrame
  <2>1. UNCHANGED <<task, inbox, toConn, wire, blocked>> /\ ctx'.window = ctx.window
        /\ fromReader # <<>> /\ fromReader' = Tail(fromReader)
    BY <1>1, <1>10 DEF TakeRefusedFrame, TakeFrame, streamVars, Context
  <2>. QED BY <1>2, <1>3, <1>4, <2>1 DEF Remaining
<1>11. CASE Deliver
  <2>. DEFINE m == Head(blocked).msg
              d == Head(blocked).to
  <2>1. UNCHANGED <<task, toConn, wire, fromReader, ctx>> /\ blocked # <<>> /\ blocked' = <<>>
        /\ inbox' = [inbox EXCEPT ![d] = Append(@, m)]
    BY <1>11 DEF Deliver, readerVars
  <2>2. d \in Streams /\ m \in ToStream BY <1>1, <2>1, FlowTypes
  <2>3. GrantOf(m) \in Nat BY <2>2, Amounts
  <2>4. ASSUME NEW s \in Streams PROVE Arriving(s)' \in Nat /\ Arriving(s)' <= Arriving(s)
    <3>1. GrantBlocked(s) = IF d = s THEN GrantOf(m) ELSE 0 BY <2>1 DEF GrantBlocked
    <3>2. GrantBlocked(s)' = 0 BY <2>1 DEF GrantBlocked
    <3>. HIDE DEF d, m
    <3>3. GrantsOf(Append(inbox[s], m)) = GrantsOf(inbox[s]) + GrantOf(m)
      BY <1>1, <2>2, GrantsInMessages
    <3>4. inbox'[s] = IF d = s THEN Append(inbox[s], m) ELSE inbox[s] BY <1>1, <2>1
    <3>5. GrantsOf(inbox[s])' = GrantsOf(inbox'[s]) BY DEF GrantsOf
    <3>. QED BY <1>1, <2>3, <3>1, <3>2, <3>3, <3>4, <3>5 DEF Arriving
  <2>. QED BY <1>2, <1>3, <2>1, <2>4 DEF Remaining
<1>12. CASE IdleTimeout \/ FrameInsideBlock
  <2>1. UNCHANGED <<task, inbox, wire>> /\ ctx'.window = ctx.window
        /\ toConn' = <<>> /\ fromReader' = <<>> /\ blocked' = <<>>
    BY <1>1, <1>12 DEF IdleTimeout, FrameInsideBlock, TakeFrame, Abandon, Leave, Context
  <2>. QED BY <1>2, <1>3, <1>5, <2>1 DEF Remaining
<1>13. CASE HandleConnectionError
  <2>1. UNCHANGED <<task, inbox>> /\ ctx'.window = ctx.window
        /\ toConn' = <<>> /\ fromReader' = <<>> /\ blocked' = <<>>
    BY <1>1, <1>13 DEF HandleConnectionError, Leave, Context
  <2>. DEFINE sid == 0
  <2>2. wire' = wire \/ Write(sid, <<goaway>>) \/ Write(sid, <<>>)
    BY <1>13 DEF HandleConnectionError, goaway
  <2>. HIDE DEF sid
  <2>. QED BY <1>2, <1>5, <1>6, <1>7, <2>1, <2>2 DEF Remaining
<1>14. CASE HandleStreamError
  <2>. DEFINE sid == ctx.error.sid
  <2>1. UNCHANGED <<task, inbox>> /\ ctx'.window = ctx.window
    BY <1>1, <1>14 DEF HandleStreamError, CancelToken, Context
  <2>2. \/ UNCHANGED <<toConn, fromReader, blocked>>
        \/ toConn' = <<>> /\ fromReader' = <<>> /\ blocked' = <<>>
    BY <1>14 DEF HandleStreamError, Leave
  <2>3. wire' = wire \/ Write(sid, <<reset>>) \/ Write(sid, <<>>)
    BY <1>14 DEF HandleStreamError, reset
  <2>. HIDE DEF sid
  <2>. QED BY <1>2, <1>4, <1>5, <1>6, <1>7, <2>1, <2>2, <2>3 DEF Remaining
<1>15. CASE TakeConnectionFrame
  <2>1. PICK f \in ClientFrames : TakeFrame(f) /\ OnConnectionLevel(f)
                                  /\ HandleConnectionFrame(f) /\ UNCHANGED <<task, inbox>>
    BY <1>15 DEF TakeConnectionFrame
  <2>2. ctx'.window = ctx.window
    <3>1. \/ Processed(f, ctx).window = ctx.window /\ Processed(f, ctx) \in Context
          \/ ~(Verdict(f, ctx) = NoError)
      BY <1>1, <2>1, ProcessedType DEF Processed, OnConnectionLevel, Context
    <3>. QED BY <1>1, <2>1, <3>1 DEF HandleConnectionFrame, Context
  <2>3. \/ UNCHANGED <<toConn, blocked>> /\ fromReader # <<>> /\ fromReader' = Tail(fromReader)
        \/ toConn' = <<>> /\ fromReader' = <<>> /\ blocked' = <<>>
    BY <2>1 DEF HandleConnectionFrame, Abandon, Leave, TakeFrame
  <2>. DEFINE sid == 0
  <2>4. \/ UNCHANGED wire \/ Write(sid, <<>>)
        \/ Handlers!NeedsAck(f) /\ Write(sid, <<AckOf(f)>>)
    BY <2>1 DEF HandleConnectionFrame
  <2>. HIDE DEF sid
  <2>5. NoData BY <1>6, <1>7, <2>4
  <2>. QED BY <1>2, <1>4, <1>5, <2>1, <2>2, <2>3, <2>5 DEF Remaining
<1>16. CASE StartDispatch \/ DecodeHeaders \/ DecodeTrailers \/ TakeError \/ TakeCount
  <2>1. /\ UNCHANGED <<task, inbox, wire, fromReader>> /\ toConn # <<>> /\ toConn' = Tail(toConn)
        /\ blocked = <<>> /\ ctx'.window = ctx.window
        /\ blocked' # <<>> => Head(blocked').msg.type # "FrameForRequest"
    BY <1>1, <1>16 DEF StartDispatch, DecodeHeaders, DecodeTrailers, ReplyOrError, TakeError,
       TakeCount, TakeMessage, KeepRunning, Selecting, Ready, Context
  <2>2. \A s \in Streams : Arriving(s)' \in Nat /\ Arriving(s)' <= Arriving(s)
    <3>1. \A s \in Streams : GrantBlocked(s)' = 0 BY <2>1 DEF GrantBlocked, GrantOf
    <3>2. \A s \in Streams : GrantsOf(inbox[s])' = GrantsOf(inbox[s]) BY <2>1 DEF GrantsOf
    <3>. QED BY <1>1, <3>1, <3>2 DEF Arriving
  <2>. QED BY <1>2, <1>3, <2>1, <2>2 DEF Remaining
<1>17. CASE DeliverFails
  <2>1. UNCHANGED <<task, inbox, wire>> /\ ctx'.window = ctx.window /\ blocked' = <<>>
        /\ \/ UNCHANGED <<toConn, fromReader>>
           \/ toConn' = <<>> /\ fromReader' = <<>>
    BY <1>1, <1>17 DEF DeliverFails, Abandon, Leave, Context
  <2>. QED BY <1>2, <1>3, <1>5, <2>1 DEF Remaining
<1>. QED BY <1>8, <1>9, <1>10, <1>11, <1>12, <1>13, <1>14, <1>15, <1>16, <1>17
         DEF OtherThanReading, ConnStep, DispatchStep

\* A frame for a stream carries what it grants along, to the stream or to the
\* connection's window; a stream that is started has the window it was held for.
LEMMA StreamFrameQuiet ==
  ASSUME ConnectionInv, CreditKept, TakeStreamFrame
  PROVE  Quiet
<1>1. PICK f \in ClientFrames :
        /\ TakeFrame(f) /\ UNCHANGED <<inbox, wire>>
        /\ task' = IF ShouldInit(f) THEN [task EXCEPT ![f.sid] = NewTask("running")] ELSE task
        /\ ValidateAndForward(f, WithStream(f))
  BY DEF TakeStreamFrame
<1>. DEFINE c == WithStream(f)
            rest == Tail(fromReader)
<1>2. /\ TypeOK /\ ContextFaithful /\ ctx \in Context /\ ctx.window \in Nat
      /\ fromReader \in Seq(ClientFrames) /\ fromReader # <<>> /\ f = Head(fromReader)
      /\ blocked = <<>> /\ task \in [Streams -> Task]
      /\ 0 \notin Streams /\ f.sid \in Streams \cup {0} /\ f \in Frame
  BY <1>1, FlowTypes, ChannelTypes, ClientAssumption, StreamsAssumption
     DEF ConnectionInv, TypeOK, OwnTypeOK, TakeFrame, Selecting, Ready
<1>3. c \in Context /\ c.window = ctx.window /\ c.known \subseteq Streams
      /\ c.known = ctx.known \cup ({f.sid} \ {0})
  <2>1. c.window = ctx.window BY <1>2 DEF WithStream, Context
  <2>. QED BY <1>2, <2>1, WithStreamIn DEF Context
<1>. HIDE DEF c
\* What the frame grants, and to whom.
<1>4. /\ rest \in Seq(ClientFrames)
      /\ \A s : /\ GrantsTo(fromReader, s) = GrantTo(f, s) + GrantsTo(rest, s)
                /\ GrantTo(f, s) \in Nat /\ GrantsTo(rest, s) \in Nat
  BY <1>2, GrantsInQueue, Amounts, HeadTailProperties
<1>5. \/ /\ fromReader' = <<>> /\ blocked' = <<>> /\ ctx'.window = ctx.window
         /\ toConn' = <<>>
      \/ /\ fromReader' = rest /\ toConn' = toConn
         /\ \A s \in Streams : GrantBlocked(s)' \in Nat /\ GrantBlocked(s)' <= GrantTo(f, s)
         /\ ctx'.window \in Nat /\ ctx'.window <= ctx.window + GrantTo(f, 0)
  <2>1. CASE Abandon /\ ctx' = c BY <1>3, <2>1 DEF Abandon, Leave
  <2>2. CASE /\ ctx' = [c EXCEPT !.error = Verdict(f, c)] /\ fromReader' = rest
             /\ UNCHANGED <<toConn, blocked>>
    <3>1. ctx'.window = ctx.window BY <1>3, <2>2 DEF Context
    <3>2. \A s \in Streams : GrantBlocked(s)' = 0 BY <1>2, <2>2 DEF GrantBlocked
    <3>. HIDE DEF rest
    <3>. QED BY <1>2, <1>4, <2>2, <3>1, <3>2
  <2>3. CASE /\ ctx' = Processed(f, c) /\ fromReader' = rest /\ UNCHANGED toConn
             /\ IF f.sid \in c.known
                THEN blocked' = <<[to |-> f.sid, msg |-> [type |-> "FrameForRequest", frame |-> f]]>>
                ELSE UNCHANGED blocked
    <3>1. Processed(f, c).window = c.window + GrantTo(f, 0)
      <4>1. GrantTo(f, 0) = IF f.kind = "WINDOW_UPDATE" /\ f.sid = 0 THEN f.val ELSE 0
        BY DEF GrantTo, Grant
      <4>2. Processed(f, c).window = IF f.kind = "WINDOW_UPDATE" /\ f.sid = 0
                                     THEN c.window + f.val ELSE c.window
        BY <1>3 DEF Processed, Context
      <4>. QED BY <1>2, <1>3, <4>1, <4>2
    <3>2. ASSUME NEW s \in Streams
          PROVE  GrantBlocked(s)' \in Nat /\ GrantBlocked(s)' <= GrantTo(f, s)
      <4>1. CASE f.sid \in c.known
        <5>1. GrantBlocked(s)' = GrantTo(f, s)
          <6>. DEFINE m == [type |-> "FrameForRequest", frame |-> f]
                      b == [to |-> f.sid, msg |-> m]
          <6>1. blocked' = <<b>> BY <2>3, <4>1
          <6>2. b.to = f.sid /\ b.msg = m OBVIOUS
          <6>3. GrantOf(m) = Grant(f) BY DEF GrantOf
          <6>. HIDE DEF b, m
          <6>4. blocked' # <<>> /\ Head(blocked') = b BY <6>1
          <6>. QED BY <6>2, <6>3, <6>4 DEF GrantBlocked, GrantTo
        <5>. QED BY <1>4, <5>1
      <4>2. CASE f.sid \notin c.known
        <5>1. GrantBlocked(s)' = 0 BY <1>2, <2>3, <4>2 DEF GrantBlocked
        <5>. QED BY <1>4, <5>1
      <4>. QED BY <4>1, <4>2
    <3>. HIDE DEF rest
    <3>. QED BY <1>2, <1>3, <1>4, <2>3, <3>1, <3>2
  <2>. QED BY <1>1, <2>1, <2>2, <2>3 DEF ValidateAndForward, c
<1>. HIDE DEF rest
<1>6. ASSUME NEW s
      PROVE  GrantsTo(fromReader, s)' = GrantsTo(fromReader', s) /\ GrantsTo(<<>>, s) = 0
  BY <1>2, GrantsInQueue DEF GrantsTo
<1>7. ASSUME NEW s \in Streams PROVE Coming(s)' \in Nat /\ Coming(s)' <= Coming(s)
  <2>1. GrantsOf(inbox[s]) \in Nat /\ GrantBlocked(s) \in Nat BY <1>2, FlowTypes
  <2>2. GrantsOf(inbox[s])' = GrantsOf(inbox[s]) BY <1>1 DEF GrantsOf
  <2>3. /\ Coming(s) = GrantsOf(inbox[s]) + GrantBlocked(s) + GrantsTo(fromReader, s)
        /\ Coming(s)' = GrantsOf(inbox[s]) + GrantBlocked(s)' + GrantsTo(fromReader', s)
    BY <1>6, <2>2 DEF Coming
  <2>4. CASE fromReader' = <<>> /\ blocked' = <<>>
    <3>1. GrantBlocked(s)' = 0 BY <2>4 DEF GrantBlocked
    <3>. QED BY <1>4, <1>6, <2>1, <2>3, <2>4, <3>1
  <2>5. CASE fromReader' = rest /\ GrantBlocked(s)' \in Nat /\ GrantBlocked(s)' <= GrantTo(f, s)
    BY <1>4, <1>6, <2>1, <2>3, <2>5
  <2>. QED BY <1>5, <2>4, <2>5
<1>8. /\ ctx'.window \in Nat /\ GrantsTo(fromReader, 0)' \in Nat
      /\ ctx'.window + GrantsTo(fromReader, 0)' <= ctx.window + GrantsTo(fromReader, 0)
  BY <1>2, <1>4, <1>5, <1>6
<1>9. ASSUME NEW s \in Streams
      PROVE  /\ task'[s].window = task[s].window /\ task'[s].out = task[s].out
             /\ \/ task'[s].phase = task[s].phase
                \/ task[s].phase = "absent" /\ task'[s].phase = "running"
  <2>1. CASE task'[s] = task[s] BY <2>1
  <2>2. CASE ShouldInit(f) /\ f.sid = s
    <3>1. task[s].phase = "absent" BY <1>2, <2>2 DEF ShouldInit, ContextFaithful
    <3>2. task[s].out = <<>>
      <4>1. Tasks!Coherent(s, task[s]) BY DEF ConnectionInv, Tasks!TasksInStep, Tasks!StreamInv
      <4>. QED BY <3>1, <4>1 DEF Tasks!Coherent
    <3>3. task[s].window = InitWindow BY <3>1 DEF CreditKept, WindowKept
    <3>4. task'[s] = NewTask("running") BY <1>1, <1>2, <2>2
    <3>. QED BY <3>1, <3>2, <3>3, <3>4 DEF NewTask
  <2>. QED BY <1>1, <1>2, <2>1, <2>2
<1>10. NoData BY <1>1 DEF NoData, DataIn, DataOf, Wrote, Kinds
<1>11. Remaining(toConn') BY <1>5 DEF Remaining
<1>. QED BY <1>7, <1>8, <1>9, <1>10, <1>11 DEF Quiet

\* serve leaves.
LEMMA LeavingQuiet ==
  ASSUME TypeOK, Leave, UNCHANGED <<task, inbox, wire, ctx>>
  PROVE  Quiet
<1>1. /\ ctx.window \in Nat /\ fromReader \in Seq(ClientFrames)
      /\ \A s \in Streams : GrantsOf(inbox[s]) \in Nat /\ GrantBlocked(s) \in Nat
      /\ \A s : GrantsTo(fromReader, s) \in Nat
  BY FlowTypes
<1>2. ASSUME NEW s PROVE GrantsTo(fromReader, s)' = 0
  <2>1. GrantsTo(<<>>, s) = 0 BY <1>1, GrantsInQueue
  <2>. QED BY <2>1 DEF GrantsTo, Leave
<1>3. ASSUME NEW s \in Streams PROVE Coming(s)' \in Nat /\ Coming(s)' <= Coming(s)
  <2>1. GrantsOf(inbox[s])' = GrantsOf(inbox[s]) BY DEF GrantsOf
  <2>2. GrantBlocked(s)' = 0 BY DEF GrantBlocked, Leave
  <2>. QED BY <1>1, <1>2, <2>1, <2>2 DEF Coming
<1>4. NoData BY DEF NoData, DataIn, DataOf, Wrote, Kinds
<1>. QED BY <1>1, <1>2, <1>3, <1>4 DEF Quiet, Leave, Remaining

-----------------------------------------------------------------------------
(* A frame is read *)

LEMMA CoveredMore ==
  ASSUME NEW m \in ToConnection, NEW s, credit[s] \in Nat, credit'[s] \in Nat,
         credit[s] <= credit'[s], Covered(m, s)
  PROVE  Covered(m, s)'
<1>. SUFFICES ASSUME Response(m), m.sid = s, NEW i \in 1..Len(m.frames),
                     m.frames[i].kind = "DATA"
              PROVE  m.frames[i].len <= credit'[s]
  BY DEF Covered, Response
<1>1. m.frames[i].len <= credit[s] BY DEF Covered
<1>2. m.frames[i].len \in Nat
  <2>1. m.frames \in Seq(OutFrame) BY DEF Response, ToConnection
  <2>. DEFINE frames == m.frames
  <2>. HIDE DEF frames
  <2>2. frames \in Seq(OutFrame) /\ i \in 1..Len(frames) BY <2>1 DEF frames
  <2>3. frames[i] \in OutFrame BY <2>2
  <2>. QED BY <2>3 DEF frames, OutFrame
<1>. QED BY <1>1, <1>2

LEMMA ReadingKeepsCredit ==
  ASSUME TypeOK, CreditKept, NEW f \in ClientFrames, ReadFrame(f), Granting(f)
  PROVE  CreditKept'
<1>1. /\ credit \in [Streams \cup {0} -> Nat] /\ granted \in [Streams \cup {0} -> Nat]
      /\ f.sid \in Streams \cup {0} /\ Grant(f) \in Nat
      /\ UNCHANGED <<task, inbox, toConn, ctx, blocked, wire>>
      /\ fromReader' = fromReader \/ fromReader' = Append(fromReader, f)
      /\ fromReader \in Seq(ClientFrames)
  BY FlowTypes, Amounts, ClientAssumption, CreditIs
     DEF CreditKept, ReadFrame, streamVars, connVars
<1>2. /\ credit' \in [Streams \cup {0} -> Nat] /\ granted' \in [Streams \cup {0} -> Nat]
      /\ \A s \in Streams \cup {0} : /\ credit'[s] = credit[s] + GrantTo(f, s)
                                     /\ credit[s] \in Nat /\ GrantTo(f, s) \in Nat
  BY <1>1, WindowAssumption DEF Granting, GrantTo, credit
<1>3. ASSUME NEW s \in Streams \cup {0}
      PROVE  /\ GrantsTo(fromReader, s)' \in Nat /\ GrantsTo(fromReader, s) \in Nat
             /\ GrantsTo(fromReader, s)' <= GrantsTo(fromReader, s) + GrantTo(f, s)
  <2>1. GrantsTo(fromReader, s)' = GrantsTo(fromReader', s) BY DEF GrantsTo
  <2>2. GrantsTo(Append(fromReader, f), s) = GrantsTo(fromReader, s) + GrantTo(f, s)
        /\ GrantsTo(fromReader, s) \in Nat
    BY <1>1, GrantsInQueue
  <2>3. GrantTo(f, s) \in Nat BY <1>2
  <2>4. GrantsTo(fromReader', s) \in {GrantsTo(fromReader, s), GrantsTo(Append(fromReader, f), s)}
    BY <1>1
  <2>. QED BY <2>1, <2>2, <2>3, <2>4
<1>4. ASSUME NEW s \in Streams PROVE WindowKept(s)'
  <2>1. WindowKept(s) BY DEF CreditKept
  <2>2. /\ task[s].window \in Nat /\ GrantsOf(inbox[s]) \in Nat /\ GrantBlocked(s) \in Nat
    BY FlowTypes
  <2>3. GrantsOf(inbox[s])' = GrantsOf(inbox[s]) /\ GrantBlocked(s)' = GrantBlocked(s)
    BY <1>1 DEF GrantsOf, GrantBlocked
  <2>4. task[s].window + Coming(s) <= credit[s] => task[s].window + Coming(s)' <= credit'[s]
    BY <1>2, <1>3, <2>2, <2>3 DEF Coming
  <2>. QED BY <1>1, <2>1, <2>4 DEF WindowKept
<1>5. ASSUME NEW s \in Streams PROVE DataKept(s)'
  <2>1. DataKept(s) BY DEF CreditKept
  <2>2. credit[s] \in Nat /\ credit'[s] \in Nat /\ credit[s] <= credit'[s] BY <1>2
  <2>3. toConn \in Seq(ToConnection) /\ task[s] \in Task /\ DataIn(wire[s]) \in Nat
    BY ChannelTypes, FlowNumbers
  <2>4. \A i \in 1..Len(toConn) : Covered(toConn[i], s)'
    <3>1. ASSUME NEW m \in ToConnection, Covered(m, s) PROVE Covered(m, s)'
      BY <2>2, <3>1, CoveredMore
    <3>2. \A i \in 1..Len(toConn) : toConn[i] \in ToConnection /\ toConn'[i] = toConn[i]
      BY <1>1, <2>3
    <3>3. \A i \in 1..Len(toConn) : Covered(toConn[i], s) BY <2>1 DEF DataKept
    <3>4. \A m \in ToConnection : Covered(m, s) => Covered(m, s)' BY <3>1
    <3>. QED BY <3>2, <3>3, <3>4 DEF Covered, Response
  <2>5. task[s].out # <<>> => Covered(Head(task[s].out), s)'
    <3>1. ASSUME task[s].out # <<>> PROVE Covered(Head(task[s].out), s)'
      <4>. DEFINE m == Head(task[s].out)
      <4>1. m \in ToConnection
        <5>1. task[s].out \in Seq(ToConnection) BY <2>3 DEF Task
        <5>. QED BY <3>1, <5>1, HeadTailProperties
      <4>2. m' = m /\ Covered(m, s) BY <1>1, <2>1, <3>1 DEF DataKept
      <4>. HIDE DEF m
      <4>3. \A x \in ToConnection : Covered(x, s) => Covered(x, s)' BY <2>2, CoveredMore
      <4>4. Covered(m, s)' BY <4>1, <4>2, <4>3 DEF Covered, Response
      <4>. QED BY <4>4 DEF m
    <3>. QED BY <3>1
  <2>6. DataIn(wire[s])' = DataIn(wire[s]) /\ (Wrote("DATA", s)' <=> Wrote("DATA", s))
    BY <1>1 DEF DataIn, Wrote, Kinds
  <2>. QED BY <1>1, <2>1, <2>2, <2>3, <2>4, <2>5, <2>6 DEF DataKept
<1>6. ConnectionKept'
  <2>1. DataOf(wire)' = DataOf(wire) /\ DataOf(wire) \in Nat BY <1>1, FlowNumbers DEF DataOf, DataIn
  <2>2. ctx.window \in Nat BY FlowTypes
  <2>. QED BY <1>1, <1>2, <1>3, <2>1, <2>2 DEF ConnectionKept, CreditKept
<1>. QED BY <1>2, <1>4, <1>5, <1>6 DEF CreditKept

-----------------------------------------------------------------------------
(* A stream task makes a step *)

LEMMA OtherInboxes ==
  ASSUME TypeOK, NEW d \in Streams, StreamStep(d)
  PROVE  \A s \in Streams \ {d} : inbox'[s] = inbox[s]
<1>1. inbox \in [Streams -> Seq(ToStream)] BY ChannelTypes
<1>. QED BY <1>1
  DEF StreamStep, CompositeHeaders, CompositeTrailers, DispatchIfNeeded, RespondIfPossible,
      TopOfLoop, ReceiveFrame, ReceiveResponse, ReceiveHeaders, ReceiveTrailers, Receive,
      Terminate, Send, SendFails, Become

LEMMA NextTypes ==
  ASSUME TypeOK'
  PROVE  /\ task' \in [Streams -> Task] /\ inbox' \in [Streams -> Seq(ToStream)]
         /\ \A s \in Streams : task'[s].window \in Nat /\ GrantsOf(inbox[s])' \in Nat
<1>1. task' \in [Streams -> Task] /\ inbox' \in [Streams -> Seq(ToStream)]
  BY SameTypes, SameTypeOKNext DEF TypeOK, Tasks!TypeOK
<1>2. \A s \in Streams : task'[s].window \in Nat BY <1>1, WindowAssumption DEF Task
<1>3. \A s \in Streams : GrantsOf(inbox'[s]) \in Nat BY <1>1, GrantsInMessages
<1>. QED BY <1>1, <1>2, <1>3 DEF GrantsOf

LEMMA TaskKeepsCredit ==
  ASSUME ConnectionInv, CreditKept, [Next]_vars, UNCHANGED granted, NEW d \in Streams, StreamTask(d)
  PROVE  CreditKept'
<1>. SUFFICES ASSUME UNCHANGED credit PROVE CreditKept' BY CreditIs
<1>1. /\ StreamStep(d) /\ TypeOK /\ TypeOK'
      /\ UNCHANGED <<ctx, blocked, wire, fromReader>>
      /\ credit \in [Streams \cup {0} -> Nat]
  BY ConnectionInvStep, CreditIs
     DEF StreamTask, ConnectionInv, connVars, readerVars, CreditKept
<1>2. /\ Running(d) /\ task'[d].phase # "absent"
      /\ task'[d].phase = "running" =>
           task'[d].window + GrantsOf(inbox'[d]) <= task[d].window + GrantsOf(inbox[d])
      /\ InWindow(task[d], task'[d])
  BY <1>1, TaskInWindow
<1>3. /\ \A s \in Streams \ {d} : task'[s] = task[s] /\ inbox'[s] = inbox[s]
      /\ \/ UNCHANGED toConn
         \/ task[d].out # <<>> /\ toConn' = Append(toConn, Head(task[d].out))
  BY <1>1, TaskGoesOn, OtherInboxes
<1>4. ASSUME NEW s \in Streams
      PROVE  /\ WindowKept(s) /\ DataKept(s) /\ credit'[s] = credit[s]
             /\ task[s].window \in Nat /\ GrantsOf(inbox[s]) \in Nat /\ GrantBlocked(s) \in Nat
             /\ GrantsTo(fromReader, s) \in Nat /\ credit[s] \in Nat
             /\ task'[s].window \in Nat /\ GrantsOf(inbox'[s]) \in Nat
             /\ Coming(s)' = GrantsOf(inbox'[s]) + GrantBlocked(s) + GrantsTo(fromReader, s)
  BY <1>1, FlowTypes, NextTypes DEF CreditKept, Coming, GrantsOf, GrantBlocked, GrantsTo
<1>5. ASSUME NEW s \in Streams PROVE WindowKept(s)'
  <2>1. CASE s # d BY <1>3, <1>4, <2>1 DEF WindowKept, Coming
  <2>2. CASE s = d
    <3>1. task[s].window + Coming(s) <= credit[s] BY <1>2, <1>4, <2>2 DEF WindowKept, Running
    <3>2. task'[s].phase = "running" => task'[s].window + Coming(s)' <= credit[s]
      BY <1>2, <1>4, <2>2, <3>1 DEF Coming
    <3>. QED BY <1>2, <1>4, <2>2, <3>2 DEF WindowKept
  <2>. QED BY <2>1, <2>2
<1>6. ASSUME NEW s \in Streams PROVE \A i \in 1..Len(toConn') : Covered(toConn[i], s)'
  <2>1. toConn \in Seq(ToConnection) /\ \A i \in 1..Len(toConn) : Covered(toConn[i], s)
    BY <1>1, <1>4, ChannelTypes DEF DataKept
  <2>2. CASE UNCHANGED toConn BY <1>1, <2>1, <2>2 DEF Covered, Response
  <2>3. CASE task[d].out # <<>> /\ toConn' = Append(toConn, Head(task[d].out))
    <3>. DEFINE m == Head(task[d].out)
                n == Len(toConn)
    <3>1. m \in ToConnection
      <4>1. task[d].out \in Seq(ToConnection) BY <1>1, ChannelTypes DEF Task
      <4>. QED BY <2>3, <4>1, HeadTailProperties
    <3>2. Covered(m, s)
      <4>1. CASE s = d BY <1>4, <2>3, <4>1 DEF DataKept
      <4>2. CASE s # d
        <5>1. m.sid = d BY <1>1, <2>3, SentByItself DEF ConnectionInv
        <5>. QED BY <4>2, <5>1 DEF Covered
      <4>. QED BY <4>1, <4>2
    <3>. HIDE DEF m
    <3>3. /\ Len(toConn') = n + 1 /\ n \in Nat /\ toConn'[n + 1] = m
          /\ \A i \in 1..n : toConn'[i] = toConn[i]
      BY <2>1, <2>3, <3>1 DEF m
    <3>. HIDE DEF n
    <3>4. \A i \in 1..(n + 1) : i \in 1..n \/ i = n + 1 BY <3>3
    <3>5. \A i \in 1..(n + 1) : Covered(toConn'[i], s)
      BY <2>1, <3>2, <3>3, <3>4 DEF n
    <3>. QED BY <1>1, <3>3, <3>5 DEF Covered, Response
  <2>. QED BY <1>3, <2>2, <2>3
<1>7. ASSUME NEW s \in Streams, task'[s].out # <<>> PROVE Covered(Head(task[s].out), s)'
  <2>1. CASE s # d BY <1>1, <1>3, <1>4, <1>7, <2>1 DEF DataKept, Covered, Response
  <2>2. CASE s = d
    <3>. DEFINE m == Head(task'[s].out)
    <3>1. task[s].window <= credit[s] /\ task[s].window \in Nat /\ credit[s] \in Nat
      BY <1>2, <1>4, <2>2 DEF WindowKept, Running, Coming
    <3>2. m \in ToConnection
      <4>1. task'[s].out \in Seq(ToConnection) BY <1>1, NextTypes DEF Task
      <4>. QED BY <1>7, <4>1, HeadTailProperties
    <3>3. Response(m) => \A i \in 1..Len(m.frames) :
             m.frames[i].kind = "DATA" => m.frames[i].len <= task[s].window
      BY <1>2, <1>7, <2>2 DEF InWindow
    <3>. HIDE DEF m
    <3>4. Covered(m, s)
      <4>. SUFFICES ASSUME Response(m), NEW i \in 1..Len(m.frames), m.frames[i].kind = "DATA"
                    PROVE  m.frames[i].len <= credit[s]
        BY DEF Covered
      <4>. DEFINE frames == m.frames
      <4>1. frames \in Seq(OutFrame) BY <3>2 DEF Response, ToConnection
      <4>2. frames[i].len <= task[s].window BY <3>3
      <4>3. i \in 1..Len(frames) OBVIOUS
      <4>. HIDE DEF frames
      <4>4. frames[i].len \in Nat
        <5>1. frames[i] \in OutFrame BY <4>1, <4>3
        <5>. QED BY <5>1 DEF OutFrame
      <4>5. frames[i].len <= credit[s] BY <3>1, <4>2, <4>4
      <4>. QED BY <4>5 DEF frames
    <3>. QED BY <1>1, <1>4, <3>4 DEF Covered, Response, m
  <2>. QED BY <2>1, <2>2
<1>8. /\ \A s \in Streams : DataIn(wire[s])' = DataIn(wire[s])
                            /\ (Wrote("DATA", s)' <=> Wrote("DATA", s))
      /\ DataOf(wire)' = DataOf(wire)
      /\ GrantsTo(fromReader, 0)' = GrantsTo(fromReader, 0)
  BY <1>1 DEF DataIn, DataOf, Wrote, Kinds, GrantsTo
<1>9. ASSUME NEW s \in Streams PROVE DataKept(s)'
  BY <1>4, <1>6, <1>7, <1>8 DEF DataKept
<1>10. ConnectionKept' BY <1>1, <1>8 DEF ConnectionKept, CreditKept
<1>11. granted' \in [Streams \cup {0} -> Nat] BY DEF CreditKept
<1>. QED BY <1>5, <1>9, <1>10, <1>11 DEF CreditKept

-----------------------------------------------------------------------------
(* A response is written *)

\* The DATA in what is written of a message, and where it comes from.
LEMMA DataOfResponse ==
  ASSUME TypeOK, NEW line \in Seq(WireFrame), NEW frames \in Seq(OutFrame), ResponseForm(frames),
         NEW n \in 0..Len(frames), NEW more,
         more = [i \in 1..n |-> ResponseFrame(SubSeq(frames, 1, n)[i])]
  PROVE  LET size == DataLength(SubSeq(frames, 1, n)) IN
         /\ line \o more \in Seq(WireFrame) /\ size \in Nat
         /\ DataIn(line \o more) = DataIn(line) + size
         /\ \/ size = 0 /\ Kinds(line \o more) \subseteq Kinds(line) \cup {"HEADERS"}
            \/ /\ \E i \in 1..Len(frames) : frames[i].kind = "DATA" /\ size = frames[i].len
               /\ "DATA" \in Kinds(line \o more)
         /\ Kinds(line) \subseteq Kinds(line \o more)
<1>. DEFINE now == SubSeq(frames, 1, n)
            size == DataLength(now)
            all == line \o more
            R(i) == ResponseFrame(frames[i])
            Goal == /\ all \in Seq(WireFrame) /\ size \in Nat
                    /\ DataIn(all) = DataIn(line) + size
                    /\ \/ size = 0 /\ Kinds(all) \subseteq Kinds(line) \cup {"HEADERS"}
                       \/ /\ \E i \in 1..Len(frames) : frames[i].kind = "DATA" /\ size = frames[i].len
                          /\ "DATA" \in Kinds(all)
                    /\ Kinds(line) \subseteq Kinds(all)
<1>. SUFFICES Goal OBVIOUS
<1>1. /\ Len(frames) \in {1, 2} /\ IsResponse(frames[1])
      /\ Len(frames) = 2 => frames[1].kind = "HEADERS" /\ frames[2].kind = "DATA"
  BY DEF ResponseForm
<1>2. \A i \in 1..n : now[i] = frames[i] /\ i \in 1..Len(frames) OBVIOUS
<1>3. Len(now) = n /\ n \in {0, 1, 2} BY <1>1
<1>4. ASSUME NEW i \in 1..Len(frames)
      PROVE  /\ R(i) \in WireFrame /\ R(i).kind = frames[i].kind /\ frames[i].len \in Nat
             /\ DataSize(R(i)) = IF frames[i].kind = "DATA" THEN frames[i].len ELSE 0
  <2>1. frames[i] \in OutFrame OBVIOUS
  <2>2. R(i).kind = frames[i].kind /\ R(i).len = frames[i].len BY DEF ResponseFrame, Written
  <2>. QED BY <2>1, <2>2, WrittenTypes DEF DataSize, OutFrame
<1>5. \A i \in 1..n : more[i] = R(i) BY <1>2
<1>6. \A p \in Seq(WireFrame), f \in WireFrame :
         /\ Append(p, f) \in Seq(WireFrame) /\ DataIn(p) \in Nat
         /\ DataIn(Append(p, f)) = DataIn(p) + DataSize(f)
         /\ Kinds(Append(p, f)) = Kinds(p) \cup {f.kind}
  BY DataInLine, KindsAppended
<1>7. size = IF \E i \in 1..n : frames[i].kind = "DATA"
               THEN frames[CHOOSE i \in 1..n : frames[i].kind = "DATA"].len ELSE 0
  <2>1. (\E i \in 1..Len(now) : now[i].kind = "DATA") <=> \E i \in 1..n : frames[i].kind = "DATA"
    BY <1>2, <1>3
  <2>2. CASE ~\E i \in 1..n : frames[i].kind = "DATA" BY <2>1, <2>2 DEF DataLength
  <2>3. CASE \E i \in 1..n : frames[i].kind = "DATA"
    <3>. DEFINE a == CHOOSE i \in 1..Len(now) : now[i].kind = "DATA"
                b == CHOOSE i \in 1..n : frames[i].kind = "DATA"
    <3>1. \A i : i \in 1..Len(now) /\ now[i].kind = "DATA" <=> i \in 1..n /\ frames[i].kind = "DATA"
      BY <1>2, <1>3
    <3>2. a = b BY <3>1
    <3>3. a \in 1..n BY <2>1, <2>3, <1>3
    <3>. QED BY <1>2, <2>1, <2>3, <3>2, <3>3 DEF DataLength
  <2>. QED BY <2>2, <2>3
<1>. HIDE DEF now, R, size
<1>8. CASE n = 0
  <2>1. more = <<>> BY <1>8
  <2>2. all = line BY <2>1
  <2>3. size = 0 BY <1>7, <1>8
  <2>4. DataIn(line) \in Nat BY DataInLine
  <2>. HIDE DEF all
  <2>. QED BY <2>2, <2>3, <2>4
<1>9. CASE n = 1
  <2>. DEFINE x == R(1)
  <2>1. more = <<x>> /\ 1 \in 1..Len(frames) BY <1>1, <1>5, <1>9
  <2>2. /\ x \in WireFrame /\ x.kind = frames[1].kind /\ frames[1].len \in Nat
        /\ DataSize(x) = IF frames[1].kind = "DATA" THEN frames[1].len ELSE 0
    BY <1>4, <2>1
  <2>3. x.kind \in {"HEADERS", "DATA"} BY <1>1, <2>2 DEF IsResponse
  <2>. HIDE DEF x
  <2>4. all = Append(line, x)
    <3>1. line \o <<x>> = Append(line, x) BY <2>2
    <3>. QED BY <2>1, <3>1
  <2>5. size = DataSize(x)
    <3>1. (\E i \in 1..1 : frames[i].kind = "DATA") <=> frames[1].kind = "DATA" OBVIOUS
    <3>2. ASSUME frames[1].kind = "DATA"
          PROVE  (CHOOSE i \in 1..1 : frames[i].kind = "DATA") = 1
      <4>. DEFINE b == CHOOSE i \in 1..1 : frames[i].kind = "DATA"
      <4>1. b \in 1..1 BY <3>1, <3>2
      <4>. HIDE DEF b
      <4>2. b = 1 BY <4>1
      <4>. QED BY <4>2 DEF b
    <3>3. size = IF \E i \in 1..1 : frames[i].kind = "DATA"
                 THEN frames[CHOOSE i \in 1..1 : frames[i].kind = "DATA"].len ELSE 0
      BY <1>7, <1>9
    <3>. QED BY <2>2, <3>1, <3>2, <3>3
  <2>6. /\ Append(line, x) \in Seq(WireFrame) /\ DataIn(Append(line, x)) = DataIn(line) + DataSize(x)
        /\ Kinds(Append(line, x)) = Kinds(line) \cup {x.kind}
    BY <1>6, <2>2
  <2>. HIDE DEF all
  <2>. QED BY <2>1, <2>2, <2>3, <2>4, <2>5, <2>6
<1>10. CASE n = 2
  <2>. DEFINE x == R(1)
              y == R(2)
              one == Append(line, x)
  <2>1. Len(frames) = 2 BY <1>1, <1>10
  <2>2. more = <<x, y>> /\ 1 \in 1..Len(frames) /\ 2 \in 1..Len(frames)
    BY <1>5, <1>10, <2>1
  <2>3. /\ x \in WireFrame /\ x.kind = "HEADERS" /\ DataSize(x) = 0
        /\ y \in WireFrame /\ y.kind = "DATA" /\ DataSize(y) = frames[2].len
        /\ frames[1].kind = "HEADERS" /\ frames[2].kind = "DATA" /\ frames[2].len \in Nat
    BY <1>1, <1>4, <2>1, <2>2
  <2>. HIDE DEF x, y
  <2>4. all = Append(one, y)
    <3>1. line \o <<x, y>> = Append(Append(line, x), y) BY <2>3, SMTT(30)
    <3>. QED BY <2>2, <3>1
  <2>5. size = frames[2].len
    <3>. DEFINE b == CHOOSE i \in 1..2 : frames[i].kind = "DATA"
    <3>1. \E i \in 1..2 : frames[i].kind = "DATA" BY <2>3
    <3>2. b \in 1..2 /\ frames[b].kind = "DATA" BY <3>1
    <3>3. \A i \in 1..2 : i = 1 \/ i = 2 OBVIOUS
    <3>4. b = 2
      <4>. HIDE DEF b
      <4>. QED BY <2>3, <3>2, <3>3
    <3>. QED BY <1>7, <1>10, <3>1, <3>4
  <2>6. one \in Seq(WireFrame) /\ DataIn(one) = DataIn(line) + DataSize(x)
        /\ Kinds(one) = Kinds(line) \cup {x.kind} /\ DataIn(line) \in Nat
    BY <1>6, <2>3
  <2>. HIDE DEF one, all
  <2>7. Append(one, y) \in Seq(WireFrame) /\ DataIn(Append(one, y)) = DataIn(one) + DataSize(y)
        /\ Kinds(Append(one, y)) = Kinds(one) \cup {y.kind}
    BY <1>6, <2>3, <2>6
  <2>8. DataIn(all) = DataIn(line) + size /\ size \in Nat BY <2>3, <2>4, <2>5, <2>6, <2>7
  <2>9. \E i \in 1..Len(frames) : frames[i].kind = "DATA" /\ size = frames[i].len
    BY <2>2, <2>3, <2>5
  <2>10. "DATA" \in Kinds(all) /\ Kinds(line) \subseteq Kinds(all) BY <2>3, <2>4, <2>6, <2>7
  <2>. QED BY <2>4, <2>7, <2>8, <2>9, <2>10
<1>. QED BY <1>3, <1>8, <1>9, <1>10

LEMMA WritingKeepsCredit ==
  ASSUME ConnectionInv, ResponsesInStep, CreditKept, UNCHANGED granted, WriteResponse
  PROVE  CreditKept'
<1>. SUFFICES ASSUME UNCHANGED credit PROVE CreditKept' BY CreditIs
<1>. DEFINE m == Head(toConn)
            d == m.sid
            frames == m.frames
<1>1. /\ TypeOK /\ toConn # <<>> /\ Response(m) /\ UNCHANGED <<task, inbox>>
      /\ credit \in [Streams \cup {0} -> Nat]
  BY CreditIs DEF ConnectionInv, WriteResponse, TakeMessage, Response, CreditKept
<1>2. /\ d \in Streams /\ frames \in Seq(OutFrame) /\ wire[d] \in Seq(WireFrame)
      /\ toConn \in Seq(ToConnection) /\ wire \in [Streams \cup {0} -> Seq(WireFrame)]
      /\ ctx \in Context /\ ctx.window \in 0..MaxWindow
  BY <1>1, MessageTypes, ChannelTypes DEF Response, TypeOK, OwnTypeOK, Context
<1>3. m = toConn[1] /\ 1 \in 1..Len(toConn) BY <1>1, <1>2
<1>4. ResponseForm(frames)
  <2>1. ResponseInv(d) BY <1>2 DEF ResponsesInStep
  <2>. QED BY <1>1, <1>3, <2>1, InvParts DEF FormsInChannel
<1>5. CASE Abandon /\ UNCHANGED <<ctx, wire>>
  BY <1>1, <1>5, LeavingQuiet, QuietKeepsCredit DEF Abandon
<1>6. ASSUME NEW n \in 0..Len(frames), CoversFirst(n, frames, ctx.window),
             wire' = [wire EXCEPT ![d] = @ \o [i \in 1..n |-> ResponseFrame(SubSeq(frames, 1, n)[i])]],
             ctx' = [ctx EXCEPT !.window = @ - DataLength(SubSeq(frames, 1, n))],
             toConn' = Tail(toConn), UNCHANGED <<fromReader, blocked>>
      PROVE  CreditKept'
  <2>. DEFINE more == [i \in 1..n |-> ResponseFrame(SubSeq(frames, 1, n)[i])]
              line == wire[d]
              size == DataLength(SubSeq(frames, 1, n))
  <2>1. /\ line \o more \in Seq(WireFrame) /\ size \in Nat
        /\ DataIn(line \o more) = DataIn(line) + size
        /\ \/ size = 0 /\ Kinds(line \o more) \subseteq Kinds(line) \cup {"HEADERS"}
           \/ /\ \E i \in 1..Len(frames) : frames[i].kind = "DATA" /\ size = frames[i].len
              /\ "DATA" \in Kinds(line \o more)
        /\ Kinds(line) \subseteq Kinds(line \o more)
    <3>. HIDE DEF frames
    <3>. QED BY <1>1, <1>2, <1>4, DataOfResponse
  <2>2. ctx.window - size \in 0..MaxWindow
    <3>. HIDE DEF frames
    <3>. QED BY <1>2, <1>6, WindowCovers
  <2>3. wire' = [wire EXCEPT ![d] = line \o more] /\ ctx'.window = ctx.window - size
        /\ wire'[d] = line \o more /\ \A s \in Streams \ {d} : wire'[s] = wire[s]
    BY <1>2, <1>6 DEF Context
  <2>. HIDE DEF more, size, frames
\* The DATA on the wire.
  <2>4. DataOf(wire)' = DataOf(wire) + size /\ DataOf(wire) \in Nat
    <3>. DEFINE all == line \o more
    <3>1. all \in Seq(WireFrame) /\ DataIn(all) = DataIn(wire[d]) + size BY <2>1
    <3>2. wire' = [wire EXCEPT ![d] = all] BY <2>3
    <3>. HIDE DEF all, line, d
    <3>3. DataOf([wire EXCEPT ![d] = all]) = DataOf(wire) + size /\ DataOf(wire) \in Nat
      BY <1>1, <1>2, <2>1, <3>1, DataWrittenOn
    <3>. QED BY <3>2, <3>3 DEF DataOf, DataIn
  <2>5. ASSUME NEW s \in Streams
        PROVE  DataIn(wire[s])' <= credit[s] /\ (~Wrote("DATA", s)' => DataIn(wire[s])' = 0)
    <3>1. DataKept(s) /\ DataIn(wire[s])' = DataIn(wire'[s]) /\ DataIn(wire[s]) \in Nat
          /\ credit[s] \in Nat
      BY <1>1, FlowNumbers DEF CreditKept, DataIn
    <3>2. CASE s # d
      <4>1. wire'[s] = wire[s] BY <2>3, <3>2
      <4>. QED BY <3>1, <4>1 DEF DataKept, Wrote, Kinds
    <3>3. CASE s = d /\ size = 0 /\ Kinds(line \o more) \subseteq Kinds(line) \cup {"HEADERS"}
      <4>1. DataIn(wire'[s]) = DataIn(wire[s]) BY <2>1, <2>3, <3>1, <3>3
      <4>2. Kinds(wire'[s]) \subseteq Kinds(wire[s]) \cup {"HEADERS"}
            /\ Kinds(wire[s]) \subseteq Kinds(wire'[s])
        BY <2>1, <2>3, <3>3
      <4>3. Wrote("DATA", s)' <=> "DATA" \in Kinds(wire'[s]) BY DEF Wrote, Kinds
      <4>4. ~Wrote("DATA", s)' => ~Wrote("DATA", s) BY <4>2, <4>3 DEF Wrote
      <4>. QED BY <3>1, <4>1, <4>4 DEF DataKept
    <3>4. ASSUME s = d, NEW i \in 1..Len(frames), frames[i].kind = "DATA", size = frames[i].len,
                 "DATA" \in Kinds(line \o more)
          PROVE  DataIn(wire[s])' <= credit[s] /\ (~Wrote("DATA", s)' => DataIn(wire[s])' = 0)
      <4>1. Bears(m, "DATA", s) BY <1>1, <3>4 DEF Bears, frames
      <4>2. 1 \in Carrying("DATA", s) BY <1>3, <4>1 DEF Carrying
      <4>3. InOnePlace("DATA", s) BY DEF ResponsesInStep, ResponseInv
      <4>4. ~Wrote("DATA", s) BY <4>2, <4>3 DEF InOnePlace
      <4>5. DataIn(wire[s]) = 0 BY <3>1, <4>4 DEF DataKept
      <4>6. Covered(m, s) BY <1>3, <3>1 DEF DataKept
      <4>7. size <= credit[s] BY <1>1, <3>4, <4>6 DEF Covered, frames
      <4>8. DataIn(wire'[s]) = size
        <5>1. DataIn(line \o more) = 0 + size BY <2>1, <3>4, <4>5
        <5>2. wire'[s] = line \o more BY <2>3, <3>4
        <5>3. 0 + size = size BY <2>1
        <5>. QED BY <5>1, <5>2, <5>3
      <4>9. Wrote("DATA", s)'
        <5>1. "DATA" \in Kinds(wire'[s]) BY <2>3, <3>4
        <5>. QED BY <5>1 DEF Wrote, Kinds
      <4>. QED BY <3>1, <4>7, <4>8, <4>9
    <3>. QED BY <2>1, <3>2, <3>3, <3>4
  <2>6. ASSUME NEW s \in Streams PROVE WindowKept(s)' /\ DataKept(s)'
    <3>1. WindowKept(s) /\ DataKept(s) BY DEF CreditKept
    <3>2. Coming(s)' = Coming(s)
      BY <1>1, <1>6 DEF Coming, GrantsOf, GrantBlocked, GrantsTo
    <3>3. WindowKept(s)' BY <1>1, <3>1, <3>2 DEF WindowKept
    <3>4. Remaining(toConn') BY <1>1, <1>6 DEF Remaining
    <3>5. \A i \in 1..Len(toConn') : Covered(toConn[i], s)'
      BY <1>1, <3>1, <3>4, CoveredStays DEF DataKept
    <3>6. task'[s].out # <<>> => Covered(Head(task[s].out), s)'
      BY <1>1, <3>1 DEF DataKept, Covered, Response
    <3>. QED BY <2>5, <3>3, <3>5, <3>6 DEF DataKept
  <2>7. ConnectionKept'
    <3>1. /\ DataOf(wire) + ctx.window + GrantsTo(fromReader, 0) <= credit[0]
          /\ credit[0] \in Nat /\ GrantsTo(fromReader, 0) \in Nat /\ ctx.window \in Nat
      BY <1>1, FlowTypes DEF CreditKept, ConnectionKept
    <3>2. GrantsTo(fromReader, 0)' = GrantsTo(fromReader, 0) BY <1>6 DEF GrantsTo
    <3>3. size \in Nat BY <2>1
    <3>. QED BY <2>3, <2>4, <3>1, <3>2, <3>3 DEF ConnectionKept
  <2>. QED BY <1>1, <2>6, <2>7 DEF CreditKept
<1>. QED BY <1>5, <1>6 DEF WriteResponse, KeepRunning, Write

-----------------------------------------------------------------------------
(* The theorem *)

LEMMA FlowIsConnection ==
  /\ FlowInit => ConnInit
  /\ [FlowNext]_flowVars => [Next]_vars
BY DEF FlowInit, FlowNext, flowVars, Next, Reading

LEMMA CreditInit == FlowInit => CreditKept
<1>. SUFFICES ASSUME FlowInit PROVE CreditKept OBVIOUS
<1>1. /\ granted = [s \in Streams \cup {0} |-> 0] /\ InitWindow \in Nat
      /\ task = [s \in Streams |-> NewTask("absent")] /\ inbox = [s \in Streams |-> <<>>]
      /\ toConn = <<>> /\ fromReader = <<>> /\ blocked = <<>> /\ ctx.window = InitWindow
      /\ wire = [s \in Streams \cup {0} |-> <<>>]
  BY WindowAssumption DEF FlowInit, ConnInit, StreamInit
<1>2. /\ \A s : GrantsTo(<<>>, s) = 0
      /\ GrantsOf(<<>>) = 0 /\ DataIn(<<>>) = 0
  <2>1. \A S : <<>> \in Seq(S) OBVIOUS
  <2>. QED BY <2>1, GrantsInQueue, GrantsInMessages, DataInLine
<1>3. ASSUME NEW s \in Streams PROVE WindowKept(s) /\ DataKept(s)
  <2>1. task[s] = NewTask("absent") /\ inbox[s] = <<>> /\ wire[s] = <<>> /\ credit[s] = InitWindow
    BY <1>1 DEF credit
  <2>2. task[s].out = <<>> /\ task[s].window = InitWindow BY <2>1 DEF NewTask
  <2>3. Coming(s) = 0 BY <1>1, <1>2, <2>1 DEF Coming, GrantBlocked
  <2>. QED BY <1>1, <1>2, <2>1, <2>2, <2>3 DEF WindowKept, DataKept
<1>4. DataOf(wire) = 0
  <2>. DEFINE on == [s \in Streams |-> DataIn(wire[s])]
  <2>1. DOMAIN on = Streams /\ \A s \in Streams : on[s] = 0 BY <1>1, <1>2
  <2>2. DataOf(wire) = SumFunction(on) BY DEF DataOf
  <2>. HIDE DEF on
  <2>3. SumFunction(on) = 0 BY <2>1, FiniteAssumption, SumOfZeros
  <2>. QED BY <2>2, <2>3
<1>5. ConnectionKept
  <2>1. credit[0] = InitWindow BY <1>1 DEF credit
  <2>. QED BY <2>1, <1>1, <1>2, <1>4 DEF ConnectionKept
<1>. QED BY <1>1, <1>3, <1>5 DEF CreditKept

LEMMA CreditStep ==
  ASSUME ConnectionInv, ResponsesInStep, CreditKept, [FlowNext]_flowVars
  PROVE  CreditKept'
<1>1. TypeOK /\ [Next]_vars BY FlowIsConnection DEF ConnectionInv
<1>2. CASE \E f \in ClientFrames : ReadFrame(f) /\ Granting(f)
  BY <1>1, <1>2, ReadingKeepsCredit
<1>3. ASSUME OtherThanReading \/ UNCHANGED vars, UNCHANGED granted PROVE CreditKept'
  <2>1. CASE WriteResponse BY <1>3, <2>1, WritingKeepsCredit
  <2>2. CASE \E d \in Streams : StreamTask(d) BY <1>1, <1>3, <2>2, TaskKeepsCredit
  <2>3. CASE TakeStreamFrame BY <1>1, <1>3, <2>3, StreamFrameQuiet, QuietKeepsCredit
  <2>4. CASE ~WriteResponse /\ ~TakeStreamFrame /\ \A d \in Streams : ~StreamTask(d)
    BY <1>1, <1>3, <2>4, OtherStepsQuiet, QuietKeepsCredit
  <2>. QED BY <2>1, <2>2, <2>3, <2>4
<1>. QED BY <1>2, <1>3 DEF FlowNext, flowVars

LEMMA CreditBounds ==
  ASSUME TypeOK, CreditKept, leastWindow \in Nat
  PROVE  CreditRespected
<1>1. \A s \in Streams \cup {0} : credit[s] = InitWindow + granted[s] /\ granted[s] \in Nat
  BY DEF CreditKept, credit
<1>2. DataOf(wire) + ctx.window + GrantsTo(fromReader, 0) <= credit[0]
  BY DEF CreditKept, ConnectionKept
<1>3. DataOf(wire) \in Nat /\ ctx.window \in Nat /\ GrantsTo(fromReader, 0) \in Nat
  BY FlowNumbers, FlowTypes
<1>4. ConnectionWithin
  <2>1. Allowed(0) = credit[0] /\ credit[0] \in Nat BY <1>1, WindowAssumption DEF Allowed
  <2>. QED BY <1>2, <1>3, <2>1 DEF ConnectionWithin
<1>5. ASSUME leastWindow >= InitWindow, NEW s \in Streams
      PROVE  DataIn(wire[s]) <= Allowed(s)
  <2>1. DataIn(wire[s]) <= credit[s] /\ DataIn(wire[s]) \in Nat
    BY FlowNumbers DEF CreditKept, DataKept
  <2>2. s # 0 BY StreamsAssumption
  <2>3. Allowed(s) = granted[s] + leastWindow BY <2>2 DEF Allowed
  <2>. QED BY <1>1, <1>5, <2>1, <2>3, WindowAssumption
<1>. QED BY <1>4, <1>5 DEF CreditRespected, StreamsWithin

\* Accounting for the client's credit leaves the connection as it is.
LEMMA FlowImplies == FlowSpec => Spec
BY FlowIsConnection, PTL DEF FlowSpec, Spec

WindowAnnounced == leastWindow \in Nat

LEMMA StaysAnnounced == FlowSpec => []WindowAnnounced
<1>1. FlowInit => WindowAnnounced BY ClientWindowsAssumption DEF FlowInit, WindowAnnounced
<1>2. WindowAnnounced /\ [FlowNext]_flowVars => WindowAnnounced'
  BY ClientWindowsAssumption DEF FlowNext, flowVars, Announcing, WindowAnnounced
<1>. QED BY <1>1, <1>2, PTL DEF FlowSpec

\* However WINDOW_UPDATE frames, held-back responses and stream tasks
\* interleave, the DATA written on the whole connection never exceeds what the
\* client has allowed, whatever SETTINGS it sends, and neither does that on a
\* stream if it never announces less than the window the server assumes: the task's window and the connection's
\* never hold credit twice, and DATA that is flushed without a debit is the last
\* of its stream.
THEOREM CreditNeverExceeded == FlowSpec => []CreditRespected
<1>1. ConnectionInv /\ ResponsesInStep /\ CreditKept /\ [FlowNext]_flowVars => CreditKept'
  BY CreditStep
<1>2. ConnectionInv /\ CreditKept /\ WindowAnnounced => CreditRespected
  BY CreditBounds DEF ConnectionInv, WindowAnnounced
<1>. QED
  BY <1>1, <1>2, CreditInit, StaysAnnounced, FlowImplies, StaysFaithful, ResponsesStayInStep,
     PTL DEF FlowSpec
=============================================================================
