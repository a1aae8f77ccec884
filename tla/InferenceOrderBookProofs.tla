---------------------- MODULE InferenceOrderBookProofs ----------------------
(***************************************************************************)
(* Proofs about the order book, in the terms of InferenceOrderBookInv.     *)
(*                                                                         *)
(* The first part describes one iteration of the matching loop by its      *)
(* outcome (VCases) and walks of any length by induction (UpTo, Steps).    *)
(* The second shows that each piece of a call, and each action, keeps      *)
(* BookInv, and reads four properties off it: in its terms the sums and    *)
(* counts of the properties run over one thing or none.                    *)
(*                                                                         *)
(* The third part does the same for the terms of orders.  Every iteration  *)
(* keeps Terms; the simulated walk of a fill-or-kill order is compared     *)
(* with the real one iteration by iteration (Sim); what the walk leaves is *)
(* orderly again.  TermsInv follows, and with it that no two orders at rest *)
(* could trade, that fills are on both orders' terms and that they are in  *)
(* the order of price and time.                                            *)
(***************************************************************************)
EXTENDS InferenceOrderBookInv, FiniteSetTheorems, WellFoundedInduction, TLAPS

-----------------------------------------------------------------------------
(***************************************************************************)
(* Induction, stated with sets so that it can be cited like any lemma.     *)
(***************************************************************************)
LEMMA LeastNat ==
  ASSUME NEW T \in SUBSET Nat, T # {}
  PROVE  \E x \in T : \A y \in T : x <= y
<1> DEFINE R == OpToRel(<, Nat)
<1>1. \E x \in T : \A y \in T : ~ (<<y, x>> \in R)
  <2>1. IsWellFoundedOn(R, Nat) BY NatLessThanWellFounded
  <2> QED BY <2>1, WFMin
<1>2. PICK x \in T : \A y \in T : ~ (<<y, x>> \in R) BY <1>1
<1>3. \A y \in T : ~ (y < x) BY <1>2 DEF OpToRel
<1> QED BY <1>3

LEMMA UpTo ==
  ASSUME NEW n \in Nat, NEW G, 0 \in G, \A k \in 1..n : k - 1 \in G => k \in G
  PROVE  \A k \in 0..n : k \in G
<1> SUFFICES ASSUME NEW j \in 0..n, j \notin G PROVE FALSE OBVIOUS
<1> DEFINE T == {k \in Nat : k <= n /\ k \notin G}
<1>0. T \in SUBSET Nat /\ j \in T OBVIOUS
<1> HIDE DEF T
<1>1. PICK x \in T : \A y \in T : x <= y BY <1>0, LeastNat
<1> USE DEF T
<1>2. x \in 1..n /\ x - 1 \in G BY <1>1
<1> QED BY <1>1, <1>2

\* The walk's states are what their recursive definition says.
LEMMA WalkedDef ==
  ASSUME NEW start, NEW taker, IsFiniteSet(start.todo)
  PROVE  LET n == Cardinality(start.todo)
             w == Walked(start, taker)
         IN  /\ n \in Nat
             /\ w[0] = start
             /\ \A k \in 1..n : w[k] = Visit(w[k - 1], taker)
<1> DEFINE n == Cardinality(start.todo)
           Is(f, j) == f = [k \in 0..j |-> IF k = 0 THEN start ELSE Visit(f[k - 1], taker)]
           G == {j \in Nat : \E f : Is(f, j)}
<1>1. n \in Nat BY FS_CardinalityType
<1>2. 0 \in G
  <2> DEFINE f == [k \in 0..0 |-> start]
  <2>1. Is(f, 0) OBVIOUS
  <2> QED BY <2>1
<1>3. ASSUME NEW j \in 1..n, j - 1 \in G PROVE j \in G
  <2>1. PICK g : Is(g, j - 1) BY <1>3
  <2> DEFINE f == [k \in 0..j |-> IF k = 0 THEN start ELSE Visit(g[k - 1], taker)]
  <2>2. \A k \in 0..(j - 1) : f[k] = g[k] BY <2>1
  <2>3. \A k \in 1..j : Visit(f[k - 1], taker) = Visit(g[k - 1], taker) BY <2>2
  <2> HIDE DEF f
  <2>4. f = [k \in 0..j |-> IF k = 0 THEN start ELSE Visit(g[k - 1], taker)] BY DEF f
  <2>6. \A k \in 0..j : (IF k = 0 THEN start ELSE Visit(g[k - 1], taker))
                          = (IF k = 0 THEN start ELSE Visit(f[k - 1], taker)) BY <2>3
  <2>7. [k \in 0..j |-> IF k = 0 THEN start ELSE Visit(g[k - 1], taker)]
          = [k \in 0..j |-> IF k = 0 THEN start ELSE Visit(f[k - 1], taker)] BY <2>6
  <2>5. Is(f, j) BY <2>4, <2>7
  <2> QED BY <2>5
<1> HIDE DEF G
<1>4. \A k \in 0..n : k \in G BY <1>1, <1>2, <1>3, UpTo
<1>5. \E f : Is(f, n) BY <1>1, <1>4 DEF G
<1>6. Is(Walked(start, taker), n) BY <1>5 DEF Walked
<1> QED BY <1>1, <1>6

-----------------------------------------------------------------------------
(***************************************************************************)
(* Sums over finite sets.                                                  *)
(***************************************************************************)
Some(s) == CHOOSE x \in s : TRUE

Summing(f, S) ==
  CHOOSE iter : iter = [s \in SUBSET S |-> IF s = {} THEN 0
                                           ELSE f[Some(s)] + iter[s \ {Some(s)}]]

LEMMA SumIsSumming == ASSUME NEW f, NEW S PROVE Sum(f, S) = Summing(f, S)[S]
BY DEF Sum, SumFunctionOnSet, FoldFunctionOnSet, MapThenFoldSet, Summing, Some

LEMMA SummingDef ==
  ASSUME NEW f, NEW S, IsFiniteSet(S)
  PROVE  \A s \in SUBSET S : Summing(f, S)[s] = IF s = {} THEN 0
                                 ELSE f[Some(s)] + Summing(f, S)[s \ {Some(s)}]
<1> DEFINE n == Cardinality(S)
           Low(j) == {t \in SUBSET S : Cardinality(t) <= j}
           Step(g, s) == IF s = {} THEN 0 ELSE f[Some(s)] + g[s \ {Some(s)}]
           Is(g, j) == g = [s \in Low(j) |-> Step(g, s)]
           G == {j \in Nat : \E g : Is(g, j)}
<1>1. n \in Nat BY FS_CardinalityType
<1>2. ASSUME NEW s \in SUBSET S
      PROVE  /\ IsFiniteSet(s) /\ Cardinality(s) \in Nat
             /\ Cardinality(s) <= n
             /\ s # {} => /\ Some(s) \in s
                          /\ Cardinality(s) # 0
                          /\ Cardinality(s \ {Some(s)}) = Cardinality(s) - 1
  <2>1. IsFiniteSet(s) /\ Cardinality(s) <= n BY FS_Subset
  <2>2. Cardinality(s) \in Nat BY <2>1, FS_CardinalityType
  <2>3. ASSUME s # {} PROVE Some(s) \in s BY <2>3 DEF Some
  <2>4. s # {} => Cardinality(s) # 0 BY <2>1, FS_EmptySet
  <2>5. ASSUME s # {} PROVE Cardinality(s \ {Some(s)}) = Cardinality(s) - 1
    BY <2>1, <2>3, <2>5, FS_RemoveElement
  <2> QED BY <2>1, <2>2, <2>3, <2>4, <2>5
<1> HIDE DEF n
<1>3. 0 \in G
  <2> DEFINE g == [s \in Low(0) |-> 0]
  <2>1. ASSUME NEW s \in Low(0) PROVE s = {}
    <3>1. Cardinality(s) <= 0 /\ s \in SUBSET S OBVIOUS
    <3>2. Cardinality(s) \in Nat /\ (s # {} => Cardinality(s) # 0) BY <1>2, <3>1
    <3> QED BY <3>1, <3>2
  <2>2. \A s \in Low(0) : Step(g, s) = 0 BY <2>1
  <2>3. Is(g, 0) BY <2>2
  <2> QED BY <2>3
<1>4. ASSUME NEW j \in 1..n, j - 1 \in G PROVE j \in G
  <2>1. PICK g : Is(g, j - 1) BY <1>4
  <2> DEFINE h == [s \in Low(j) |-> Step(g, s)]
  <2>2. ASSUME NEW s \in Low(j - 1) PROVE s \in Low(j)
    <3>1. Cardinality(s) <= j - 1 /\ s \in SUBSET S OBVIOUS
    <3>2. Cardinality(s) \in Nat BY <1>2, <3>1
    <3>3. Cardinality(s) <= j BY <1>1, <3>1, <3>2
    <3> QED BY <3>1, <3>3
  <2>3. \A s \in Low(j - 1) : h[s] = g[s] BY <2>1, <2>2
  <2>4. \A s \in Low(j) : s # {} => s \ {Some(s)} \in Low(j - 1) BY <1>1, <1>2
  <2> HIDE DEF h, Low
  <2>5. \A s \in Low(j) : Step(g, s) = Step(h, s) BY <2>3, <2>4
  <2>6. h = [s \in Low(j) |-> Step(g, s)] BY DEF h
  <2> HIDE DEF Step
  <2>7. [s \in Low(j) |-> Step(g, s)] = [s \in Low(j) |-> Step(h, s)] BY <2>5
  <2>8. Is(h, j) BY <2>6, <2>7
  <2> QED BY <1>1, <2>8
<1> HIDE DEF G
<1>5. \A k \in 0..n : k \in G BY <1>1, <1>3, <1>4, UpTo
<1>6a. n \in G BY <1>1, <1>5
<1> HIDE DEF Is
<1>6. PICK g : Is(g, n) BY <1>6a DEF G
<1> USE DEF Is
<1>7. Low(n) = SUBSET S BY <1>2
<1>8. g = [s \in SUBSET S |-> Step(g, s)] BY <1>6, <1>7
<1>9. Summing(f, S) = [s \in SUBSET S |-> Step(Summing(f, S), s)] BY <1>8 DEF Summing
<1> HIDE DEF Step
<1>10. \A s \in SUBSET S : Summing(f, S)[s] = Step(Summing(f, S), s) BY <1>9
<1> QED BY <1>10 DEF Step

LEMMA SummingPart ==
  ASSUME NEW f, NEW S, IsFiniteSet(S)
  PROVE  \A U \in SUBSET S : \A T \in SUBSET U : Summing(f, U)[T] = Sum(f, T)
<1> DEFINE n == Cardinality(S)
           G == {k \in Nat : \A U \in SUBSET S : \A T \in SUBSET U :
                               Cardinality(T) <= k => Summing(f, U)[T] = Sum(f, T)}
<1>1. n \in Nat BY FS_CardinalityType
<1>2. ASSUME NEW s \in SUBSET S
      PROVE  /\ IsFiniteSet(s) /\ Cardinality(s) \in Nat
             /\ Cardinality(s) <= n
             /\ s # {} => /\ Some(s) \in s
                          /\ Cardinality(s) # 0
                          /\ Cardinality(s \ {Some(s)}) = Cardinality(s) - 1
  <2>1. IsFiniteSet(s) /\ Cardinality(s) <= n BY FS_Subset
  <2>2. Cardinality(s) \in Nat BY <2>1, FS_CardinalityType
  <2>3. ASSUME s # {} PROVE Some(s) \in s BY <2>3 DEF Some
  <2>4. s # {} => Cardinality(s) # 0 BY <2>1, FS_EmptySet
  <2>5. ASSUME s # {} PROVE Cardinality(s \ {Some(s)}) = Cardinality(s) - 1
    BY <2>1, <2>3, <2>5, FS_RemoveElement
  <2> QED BY <2>1, <2>2, <2>3, <2>4, <2>5
<1> HIDE DEF n
<1>3. ASSUME NEW U \in SUBSET S PROVE Summing(f, U)[{}] = 0
  BY <1>2, <1>3, SummingDef
<1>4. 0 \in G
  <2> SUFFICES ASSUME NEW U \in SUBSET S, NEW T \in SUBSET U, Cardinality(T) <= 0
               PROVE  Summing(f, U)[T] = Sum(f, T) OBVIOUS
  <2>1. T = {}
    <3>1. Cardinality(T) \in Nat /\ (T # {} => Cardinality(T) # 0) BY <1>2
    <3> QED BY <3>1
  <2>2. Sum(f, T) = Summing(f, T)[T] BY SumIsSumming
  <2> QED BY <1>3, <2>1, <2>2
<1>5. ASSUME NEW k \in 1..n, k - 1 \in G PROVE k \in G
  <2> SUFFICES ASSUME NEW U \in SUBSET S, NEW T \in SUBSET U, Cardinality(T) <= k
               PROVE  Summing(f, U)[T] = Sum(f, T) BY <1>1
  <2>1. Sum(f, T) = Summing(f, T)[T] BY SumIsSumming
  <2>2. CASE T = {} BY <1>3, <2>1, <2>2
  <2>3. CASE T # {}
    <3> DEFINE R == T \ {Some(T)}
    <3>1. T \in SUBSET S /\ IsFiniteSet(T) /\ IsFiniteSet(U) BY <1>2
    <3>2. R \in SUBSET T /\ R \in SUBSET U /\ Cardinality(R) <= k - 1
      <4>1. Cardinality(R) = Cardinality(T) - 1 /\ Cardinality(T) \in Nat BY <1>2, <2>3, <3>1
      <4>2. R \in SUBSET T /\ R \in SUBSET U OBVIOUS
      <4> HIDE DEF R
      <4> QED BY <4>1, <4>2
    <3>3. Summing(f, U)[T] = f[Some(T)] + Summing(f, U)[R] BY <2>3, <3>1, SummingDef
    <3>4. Summing(f, T)[T] = f[Some(T)] + Summing(f, T)[R] BY <2>3, <3>1, SummingDef
    <3> HIDE DEF R
    <3>5. Summing(f, U)[R] = Sum(f, R) BY <1>5, <3>2
    <3>6. Summing(f, T)[R] = Sum(f, R) BY <1>5, <3>1, <3>2
    <3> QED BY <2>1, <3>3, <3>4, <3>5, <3>6
  <2> QED BY <2>2, <2>3
<1> HIDE DEF G
<1>6. \A k \in 0..n : k \in G BY <1>1, <1>4, <1>5, UpTo
<1>7. n \in G BY <1>1, <1>6
<1> SUFFICES ASSUME NEW U \in SUBSET S, NEW T \in SUBSET U
             PROVE  Summing(f, U)[T] = Sum(f, T) OBVIOUS
<1>8. Cardinality(T) <= n BY <1>2
<1> QED BY <1>7, <1>8 DEF G

LEMMA SumEmpty == ASSUME NEW f PROVE Sum(f, {}) = 0
<1>1. Sum(f, {}) = Summing(f, {})[{}] BY SumIsSumming
<1>2. IsFiniteSet({}) BY FS_EmptySet
<1>3. \A s \in SUBSET {} : Summing(f, {})[s] = IF s = {} THEN 0
                                 ELSE f[Some(s)] + Summing(f, {})[s \ {Some(s)}] BY <1>2, SummingDef
<1> QED BY <1>1, <1>3

LEMMA SumSome ==
  ASSUME NEW f, NEW S, IsFiniteSet(S), S # {}
  PROVE  Sum(f, S) = f[Some(S)] + Sum(f, S \ {Some(S)})
<1>1. Sum(f, S) = Summing(f, S)[S] BY SumIsSumming
<1>2. Summing(f, S)[S] = f[Some(S)] + Summing(f, S)[S \ {Some(S)}] BY SummingDef
<1>3. Summing(f, S)[S \ {Some(S)}] = Sum(f, S \ {Some(S)})
  <2>1. S \in SUBSET S /\ S \ {Some(S)} \in SUBSET S OBVIOUS
  <2> QED BY <2>1, SummingPart
<1> QED BY <1>1, <1>2, <1>3

LEMMA SumInt ==
  ASSUME NEW f, NEW S, IsFiniteSet(S), \A x \in S : f[x] \in Int
  PROVE  Sum(f, S) \in Int
<1> DEFINE n == Cardinality(S)
           G == {k \in Nat : \A T \in SUBSET S : Cardinality(T) <= k => Sum(f, T) \in Int}
<1>1. n \in Nat BY FS_CardinalityType
<1>2. ASSUME NEW T \in SUBSET S
      PROVE  /\ IsFiniteSet(T) /\ Cardinality(T) \in Nat
             /\ Cardinality(T) = 0 => T = {}
  BY FS_Subset, FS_CardinalityType, FS_EmptySet
<1> HIDE DEF n
<1>3. 0 \in G
  <2> SUFFICES ASSUME NEW T \in SUBSET S, Cardinality(T) <= 0 PROVE Sum(f, T) \in Int OBVIOUS
  <2>1. T = {} BY <1>2
  <2> QED BY <2>1, SumEmpty
<1>4. ASSUME NEW k \in 1..n, k - 1 \in G PROVE k \in G
  <2> SUFFICES ASSUME NEW T \in SUBSET S, Cardinality(T) <= k PROVE Sum(f, T) \in Int BY <1>1
  <2>1. CASE T = {} BY <2>1, SumEmpty
  <2>2. CASE T # {}
    <3>1. Some(T) \in T BY <2>2 DEF Some
    <3>2. Cardinality(T \ {Some(T)}) = Cardinality(T) - 1 BY <1>2, <3>1, FS_RemoveElement
    <3>3. Sum(f, T \ {Some(T)}) \in Int
      <4>1. Cardinality(T \ {Some(T)}) <= k - 1 BY <1>2, <3>2
      <4>2. T \ {Some(T)} \in SUBSET S OBVIOUS
      <4> QED BY <1>4, <4>1, <4>2
    <3>4. Sum(f, T) = f[Some(T)] + Sum(f, T \ {Some(T)}) BY <1>2, <2>2, SumSome
    <3>5. f[Some(T)] \in Int BY <3>1
    <3> QED BY <3>3, <3>4, <3>5
  <2> QED BY <2>1, <2>2
<1> HIDE DEF G
<1>5. \A k \in 0..n : k \in G BY <1>1, <1>3, <1>4, UpTo
<1>6. n \in G BY <1>1, <1>5
<1>7. Cardinality(S) <= n BY <1>1 DEF n
<1> QED BY <1>6, <1>7 DEF G

\* Any element may be taken first.
LEMMA SumPick ==
  ASSUME NEW f, NEW S, IsFiniteSet(S), \A x \in S : f[x] \in Int, NEW x \in S
  PROVE  Sum(f, S) = f[x] + Sum(f, S \ {x})
<1> DEFINE n == Cardinality(S)
           G == {k \in Nat : \A T \in SUBSET S : Cardinality(T) <= k =>
                               \A y \in T : Sum(f, T) = f[y] + Sum(f, T \ {y})}
<1>1. n \in Nat BY FS_CardinalityType
<1>2. ASSUME NEW T \in SUBSET S
      PROVE  /\ IsFiniteSet(T) /\ Cardinality(T) \in Nat
             /\ Cardinality(T) = 0 => T = {}
             /\ Sum(f, T) \in Int
  <2>1. IsFiniteSet(T) BY FS_Subset
  <2>2. \A y \in T : f[y] \in Int OBVIOUS
  <2> QED BY <2>1, <2>2, FS_CardinalityType, FS_EmptySet, SumInt
<1> HIDE DEF n
<1>3. 0 \in G
  <2> SUFFICES ASSUME NEW T \in SUBSET S, Cardinality(T) <= 0, NEW y \in T PROVE FALSE OBVIOUS
  <2> QED BY <1>2
<1>4. ASSUME NEW k \in 1..n, k - 1 \in G PROVE k \in G
  <2> SUFFICES ASSUME NEW T \in SUBSET S, Cardinality(T) <= k, NEW y \in T
               PROVE  Sum(f, T) = f[y] + Sum(f, T \ {y}) BY <1>1
  <2> DEFINE z == Some(T)
  <2>1. z \in T BY DEF Some
  <2>2. Sum(f, T) = f[z] + Sum(f, T \ {z}) BY <1>2, SumSome
  <2>3. CASE y = z BY <2>2, <2>3
  <2>4. CASE y # z
    <3> HIDE DEF z
    <3> DEFINE A == T \ {z}
               B == T \ {y}
    <3>1. /\ A \in SUBSET S /\ B \in SUBSET S /\ y \in A /\ z \in B
          /\ A \ {y} = B \ {z} /\ A \ {y} \in SUBSET S
      BY <2>1, <2>4
    <3>2. Cardinality(A) <= k - 1 /\ Cardinality(B) <= k - 1
      BY <1>2, <2>1, FS_RemoveElement
    <3> HIDE DEF A, B
    <3>3. Sum(f, A) = f[y] + Sum(f, A \ {y}) BY <1>4, <3>1, <3>2
    <3>4. Sum(f, B) = f[z] + Sum(f, B \ {z}) BY <1>4, <3>1, <3>2
    <3>5. f[y] \in Int /\ f[z] \in Int /\ Sum(f, A \ {y}) \in Int BY <1>2, <2>1, <3>1
    <3>6. Sum(f, T) = f[z] + Sum(f, A) BY <2>2 DEF A
    <3>7. Sum(f, A \ {y}) = Sum(f, B \ {z}) BY <3>1, Zenon
    <3>8. Sum(f, T) = f[y] + Sum(f, B) BY <3>3, <3>4, <3>5, <3>6, <3>7
    <3> QED BY <3>8 DEF B
  <2> QED BY <2>3, <2>4
<1> HIDE DEF G
<1>5. \A k \in 0..n : k \in G BY <1>1, <1>3, <1>4, UpTo
<1>6. n \in G BY <1>1, <1>5
<1>7. Cardinality(S) <= n BY <1>1 DEF n
<1> QED BY <1>6, <1>7 DEF G

LEMMA SumSame ==
  ASSUME NEW f, NEW g, NEW S, IsFiniteSet(S), \A x \in S : f[x] = g[x]
  PROVE  Sum(f, S) = Sum(g, S)
<1> DEFINE n == Cardinality(S)
           G == {k \in Nat : \A T \in SUBSET S : Cardinality(T) <= k => Sum(f, T) = Sum(g, T)}
<1>1. n \in Nat BY FS_CardinalityType
<1>2. ASSUME NEW T \in SUBSET S
      PROVE  /\ IsFiniteSet(T) /\ Cardinality(T) \in Nat
             /\ Cardinality(T) = 0 => T = {}
  BY FS_Subset, FS_CardinalityType, FS_EmptySet
<1> HIDE DEF n
<1>3. 0 \in G
  <2> SUFFICES ASSUME NEW T \in SUBSET S, Cardinality(T) <= 0 PROVE Sum(f, T) = Sum(g, T) OBVIOUS
  <2>1. T = {} BY <1>2
  <2> QED BY <2>1, SumEmpty
<1>4. ASSUME NEW k \in 1..n, k - 1 \in G PROVE k \in G
  <2> SUFFICES ASSUME NEW T \in SUBSET S, Cardinality(T) <= k PROVE Sum(f, T) = Sum(g, T) BY <1>1
  <2>1. CASE T = {} BY <2>1, SumEmpty
  <2>2. CASE T # {}
    <3>1. Some(T) \in T BY <2>2 DEF Some
    <3>2. Cardinality(T \ {Some(T)}) = Cardinality(T) - 1 BY <1>2, <3>1, FS_RemoveElement
    <3>3. Sum(f, T \ {Some(T)}) = Sum(g, T \ {Some(T)})
      <4>1. Cardinality(T \ {Some(T)}) <= k - 1 BY <1>2, <3>2
      <4>2. T \ {Some(T)} \in SUBSET S OBVIOUS
      <4> QED BY <1>4, <4>1, <4>2
    <3>4. Sum(f, T) = f[Some(T)] + Sum(f, T \ {Some(T)}) BY <1>2, <2>2, SumSome
    <3>6. Sum(g, T) = g[Some(T)] + Sum(g, T \ {Some(T)}) BY <1>2, <2>2, SumSome
    <3>5. f[Some(T)] = g[Some(T)] BY <3>1
    <3> QED BY <3>3, <3>4, <3>5, <3>6
  <2> QED BY <2>1, <2>2
<1> HIDE DEF G
<1>5. \A k \in 0..n : k \in G BY <1>1, <1>3, <1>4, UpTo
<1>6. n \in G BY <1>1, <1>5
<1>7. Cardinality(S) <= n BY <1>1 DEF n
<1> QED BY <1>6, <1>7 DEF G

\* One value changes.
LEMMA SumChange ==
  ASSUME NEW f, NEW g, NEW S, IsFiniteSet(S), NEW x \in S,
         \A y \in S : f[y] \in Int /\ g[y] \in Int, \A y \in S \ {x} : f[y] = g[y]
  PROVE  Sum(g, S) = Sum(f, S) - f[x] + g[x]
<1>1. IsFiniteSet(S \ {x}) BY FS_RemoveElement
<1>2. Sum(f, S \ {x}) = Sum(g, S \ {x}) BY <1>1, SumSame
<1>3. Sum(f, S) = f[x] + Sum(f, S \ {x}) BY SumPick
<1>4. Sum(g, S) = g[x] + Sum(g, S \ {x}) BY SumPick
<1>5. Sum(f, S \ {x}) \in Int BY <1>1, SumInt
<1> QED BY <1>2, <1>3, <1>4, <1>5

\* One element is new.
LEMMA SumGrow ==
  ASSUME NEW f, NEW g, NEW S, IsFiniteSet(S), NEW x, x \notin S,
         \A y \in S : g[y] \in Int /\ f[y] = g[y], g[x] \in Int
  PROVE  Sum(g, S \cup {x}) = Sum(f, S) + g[x]
<1>1. IsFiniteSet(S \cup {x}) BY FS_AddElement
<1>2. Sum(g, S \cup {x}) = g[x] + Sum(g, (S \cup {x}) \ {x}) BY <1>1, SumPick
<1>3. Sum(g, (S \cup {x}) \ {x}) = Sum(g, S)
  <2>1. (S \cup {x}) \ {x} = S OBVIOUS
  <2> QED BY <2>1, Zenon
<1>4. Sum(f, S) = Sum(g, S) BY SumSame
<1>5. Sum(g, S) \in Int BY SumInt
<1> QED BY <1>2, <1>3, <1>4, <1>5

LEMMA SumOne ==
  ASSUME NEW f, NEW x, f[x] \in Int
  PROVE  Sum(f, {x}) = f[x]
<1>1. IsFiniteSet({x}) BY FS_Singleton
<1>2. Sum(f, {x}) = f[x] + Sum(f, {x} \ {x}) BY <1>1, SumPick
<1>3. {x} \ {x} = {} OBVIOUS
<1> QED BY <1>2, <1>3, SumEmpty

LEMMA SumZero ==
  ASSUME NEW f, NEW S, IsFiniteSet(S), \A x \in S : f[x] = 0
  PROVE  Sum(f, S) = 0
<1> DEFINE n == Cardinality(S)
           G == {k \in Nat : \A T \in SUBSET S : Cardinality(T) <= k => Sum(f, T) = 0}
<1>1. n \in Nat BY FS_CardinalityType
<1>2. ASSUME NEW T \in SUBSET S
      PROVE  /\ IsFiniteSet(T) /\ Cardinality(T) \in Nat
             /\ Cardinality(T) = 0 => T = {}
  BY FS_Subset, FS_CardinalityType, FS_EmptySet
<1> HIDE DEF n
<1>3. 0 \in G
  <2> SUFFICES ASSUME NEW T \in SUBSET S, Cardinality(T) <= 0 PROVE Sum(f, T) = 0 OBVIOUS
  <2>1. T = {} BY <1>2
  <2> QED BY <2>1, SumEmpty
<1>4. ASSUME NEW k \in 1..n, k - 1 \in G PROVE k \in G
  <2> SUFFICES ASSUME NEW T \in SUBSET S, Cardinality(T) <= k PROVE Sum(f, T) = 0 BY <1>1
  <2>1. CASE T = {} BY <2>1, SumEmpty
  <2>2. CASE T # {}
    <3>1. Some(T) \in T BY <2>2 DEF Some
    <3>2. Cardinality(T \ {Some(T)}) = Cardinality(T) - 1 BY <1>2, <3>1, FS_RemoveElement
    <3>3. Sum(f, T \ {Some(T)}) = 0
      <4>1. Cardinality(T \ {Some(T)}) <= k - 1 BY <1>2, <3>2
      <4>2. T \ {Some(T)} \in SUBSET S OBVIOUS
      <4> QED BY <1>4, <4>1, <4>2
    <3>4. Sum(f, T) = f[Some(T)] + Sum(f, T \ {Some(T)}) BY <1>2, <2>2, SumSome
    <3>5. f[Some(T)] = 0 BY <3>1
    <3> QED BY <3>3, <3>4, <3>5
  <2> QED BY <2>1, <2>2
<1> HIDE DEF G
<1>5. \A k \in 0..n : k \in G BY <1>1, <1>3, <1>4, UpTo
<1>6. n \in G BY <1>1, <1>5
<1>7. Cardinality(S) <= n BY <1>1 DEF n
<1> QED BY <1>6, <1>7 DEF G

-----------------------------------------------------------------------------
(***************************************************************************)
(* The shape of the book.                                                  *)
(***************************************************************************)
LEMMA BookFinite == ASSUME NEW b, BookShape(b) PROVE IsFiniteSet(DOMAIN b.orders)
<1>1. b.nextOrderId - 1 \in Int BY DEF BookShape
<1>2. IsFiniteSet(1..(b.nextOrderId - 1)) BY <1>1, FS_Interval
<1> QED BY <1>2, FS_Subset DEF BookShape

LEMMA OrderOf ==
  ASSUME NEW b, BookShape(b), NEW i \in DOMAIN b.orders
  PROVE  b.orders[i] \in OrderSet /\ i \in Nat \ {0} /\ i < b.nextOrderId
BY DEF BookShape

\* A non-empty set of orders of one side has a first.
LEMMA FirstOf ==
  ASSUME NEW b, BookShape(b), NEW S \in SUBSET DOMAIN b.orders, S # {},
         \A i, j \in S : b.orders[i].isBuy = b.orders[j].isBuy
  PROVE  First(b, S) \in S /\ \A j \in S \ {First(b, S)} : Before(b, First(b, S), j)
<1> DEFINE Ahd(i) == {j \in S : Before(b, j, i)}
           Ranks == {Cardinality(Ahd(i)) : i \in S}
<1>1. IsFiniteSet(S) BY BookFinite, FS_Subset
<1>2. \A i \in S : IsFiniteSet(Ahd(i)) /\ Cardinality(Ahd(i)) \in Nat
  BY <1>1, FS_Subset, FS_CardinalityType
<1>3. \A i \in S : i \in Nat /\ b.orders[i].price \in Nat
  BY OrderOf DEF OrderSet
<1>4. Ranks \in SUBSET Nat /\ Ranks # {} BY <1>2
<1>5. PICK r \in Ranks : \A s \in Ranks : r <= s BY <1>4, LeastNat
<1>6. PICK i \in S : r = Cardinality(Ahd(i)) BY <1>5
<1>7. ASSUME NEW j \in S, Before(b, j, i) PROVE FALSE
  <2>1. Ahd(j) \in SUBSET Ahd(i) BY <1>3, <1>7 DEF Before
  <2>2. j \in Ahd(i) /\ j \notin Ahd(j) BY <1>3, <1>7 DEF Before
  <2>3. Cardinality(Ahd(j)) <= Cardinality(Ahd(i)) /\ Cardinality(Ahd(j)) # Cardinality(Ahd(i))
    <3> HIDE DEF Ahd
    <3>1. IsFiniteSet(Ahd(i)) BY <1>2
    <3> QED BY <2>1, <2>2, <3>1, FS_Subset
  <2>4. Cardinality(Ahd(j)) \in Ranks OBVIOUS
  <2>5. r <= Cardinality(Ahd(j)) BY <1>5, <2>4
  <2>6. Cardinality(Ahd(j)) \in Nat /\ r \in Nat BY <1>2, <1>6
  <2> QED BY <1>6, <2>3, <2>5, <2>6
<1>8. \A j \in S \ {i} : Before(b, i, j) BY <1>3, <1>7 DEF Before
<1> QED BY <1>8 DEF First

-----------------------------------------------------------------------------
(***************************************************************************)
(* Prices.                                                                 *)
(***************************************************************************)
LEMMA MulNat == ASSUME NEW x \in Nat, NEW y \in Nat PROVE x * y \in Nat
OBVIOUS

LEMMA UnitType == ASSUME NEW p \in Nat PROVE TickFee(p) \in Nat /\ Unit(p) \in Nat /\ Unit(p) >= p
<1>1. p * PLATFORM_FEE_BPS \in Nat BY BookAssumption, MulNat
<1>2. (p * PLATFORM_FEE_BPS) \div BPS_DENOMINATOR \in Nat
  <2> DEFINE x == p * PLATFORM_FEE_BPS
  <2>1. x \in Nat BY <1>1
  <2> HIDE DEF x
  <2>2. x \div BPS_DENOMINATOR \in Nat BY <2>1, BookAssumption
  <2> QED BY <2>2 DEF x
<1> QED BY <1>2 DEF TickFee, Unit

LEMMA DebitType ==
  ASSUME NEW trade \in Int, NEW p \in Nat, NEW flags
  PROVE  Debit(trade, p, flags) \in Int
<1>1. Unit(p) \in Nat BY UnitType
<1>2. trade * Unit(p) \in Int BY <1>1
<1> QED BY <1>2 DEF Debit

-----------------------------------------------------------------------------
(***************************************************************************)
(* What the operations on the storage do, field by field.                  *)
(***************************************************************************)
LEMMA RequestEta ==
  ASSUME NEW r \in RequestSet, NEW x \in Int
  PROVE  /\ [r EXCEPT !.spent = @ + x] = Moved(r, 0, 0, 0, x, 0)
         /\ [r EXCEPT !.back = @ + x] = Moved(r, 0, 0, 0, 0, x)
BY DEF RequestSet, Moved

LEMMA TellEta ==
  ASSUME NEW r \in RequestSet
  PROVE  /\ [r EXCEPT !.placed = @ + 1] = Moved(r, 1, 0, 0, 0, 0)
         /\ [r EXCEPT !.rejected = @ + 1] = Moved(r, 0, 1, 0, 0, 0)
         /\ [r EXCEPT !.removed = @ + 1] = Moved(r, 0, 0, 1, 0, 0)
BY DEF RequestSet, Moved

LEMMA MovedType ==
  ASSUME NEW r \in RequestSet, NEW p \in Int, NEW j \in Int, NEW v \in Int, NEW s \in Int,
         NEW k \in Int
  PROVE  Moved(r, p, j, v, s, k) \in RequestSet
BY DEF RequestSet, Moved

\* Notices that come together.
LEMMA MovedTwice ==
  ASSUME NEW r \in RequestSet, NEW x \in Int, NEW y \in Int
  PROVE  /\ Moved(Moved(r, 0, 0, 1, 0, 0), 0, 0, 0, 0, x) = Moved(r, 0, 0, 1, 0, x)
         /\ Moved(Moved(r, 0, 1, 0, 0, 0), 0, 0, 0, 0, x) = Moved(r, 0, 1, 0, 0, x)
         /\ Moved(Moved(r, 0, 0, 0, y, 0), 0, 0, 1, 0, x) = Moved(r, 0, 0, 1, y, x)
BY DEF RequestSet, Moved

LEMMA TellDoes ==
  ASSUME NEW b, DOMAIN b = BookFields, b.requests \in Seq(RequestSet), NEW c \in DOMAIN b.requests,
         NEW what \in {"placed", "rejected", "removed"}
  PROVE  LET b2 == Tell(b, c, what)
         IN  /\ Frame(b, b2) /\ NoFill(b, b2) /\ b2.orders = b.orders /\ b2.out = b.out
             /\ b2.requests \in Seq(RequestSet) /\ DOMAIN b2.requests = DOMAIN b.requests
             /\ Notified(b, b2, c, IF what = "placed" THEN 1 ELSE 0,
                         IF what = "rejected" THEN 1 ELSE 0, IF what = "removed" THEN 1 ELSE 0, 0, 0)
<1> DEFINE r == b.requests[c]
           r2 == [r EXCEPT ![what] = @ + 1]
           b2 == Tell(b, c, what)
           mv == Moved(r, IF what = "placed" THEN 1 ELSE 0,
                    IF what = "rejected" THEN 1 ELSE 0, IF what = "removed" THEN 1 ELSE 0, 0, 0)
<1>1. c # 0 /\ r \in RequestSet OBVIOUS
<1> HIDE DEF r
<1>2. r2 = mv /\ r2 \in RequestSet
  <2>1. CASE what = "placed"
    <3>1. r2 = [r EXCEPT !.placed = @ + 1] /\ mv = Moved(r, 1, 0, 0, 0, 0) BY <2>1
    <3>2. [r EXCEPT !.placed = @ + 1] = Moved(r, 1, 0, 0, 0, 0) BY <1>1, TellEta
    <3>3. Moved(r, 1, 0, 0, 0, 0) \in RequestSet BY <1>1, MovedType
    <3> QED BY <3>1, <3>2, <3>3
  <2>2. CASE what = "rejected"
    <3>1. r2 = [r EXCEPT !.rejected = @ + 1] /\ mv = Moved(r, 0, 1, 0, 0, 0) BY <2>2
    <3>2. [r EXCEPT !.rejected = @ + 1] = Moved(r, 0, 1, 0, 0, 0) BY <1>1, TellEta
    <3>3. Moved(r, 0, 1, 0, 0, 0) \in RequestSet BY <1>1, MovedType
    <3> QED BY <3>1, <3>2, <3>3
  <2>3. CASE what = "removed"
    <3>1. r2 = [r EXCEPT !.removed = @ + 1] /\ mv = Moved(r, 0, 0, 1, 0, 0) BY <2>3
    <3>2. [r EXCEPT !.removed = @ + 1] = Moved(r, 0, 0, 1, 0, 0) BY <1>1, TellEta
    <3>3. Moved(r, 0, 0, 1, 0, 0) \in RequestSet BY <1>1, MovedType
    <3> QED BY <3>1, <3>2, <3>3
  <2> QED BY <2>1, <2>2, <2>3
<1>3. r2 \in RequestSet BY <1>2
<1>4. b2 = [b EXCEPT !.requests = [@ EXCEPT ![c] = r2]] BY <1>1, Zenon DEF Tell, r
<1> HIDE DEF r2
<1>5. b2.requests = [b.requests EXCEPT ![c] = r2] BY <1>4 DEF BookFields
<1>6. b2.requests \in Seq(RequestSet) /\ DOMAIN b2.requests = DOMAIN b.requests BY <1>3, <1>5
<1>7. Frame(b, b2) /\ NoFill(b, b2) /\ b2.orders = b.orders /\ b2.out = b.out
  BY <1>4 DEF Frame, NoFill, BookFields
<1>8. b2.requests = [b.requests EXCEPT ![c] = mv] BY <1>2, <1>5
<1>9. Notified(b, b2, c, IF what = "placed" THEN 1 ELSE 0,
          IF what = "rejected" THEN 1 ELSE 0, IF what = "removed" THEN 1 ELSE 0, 0, 0)
  BY <1>8 DEF Notified, r
<1> QED BY <1>6, <1>7, <1>9

LEMMA PayDoes ==
  ASSUME NEW b, DOMAIN b = BookFields, b.requests \in Seq(RequestSet), NEW c \in DOMAIN b.requests,
         NEW x \in Int
  PROVE  LET b2 == PayShell(b, c, x)
         IN  /\ Frame(b, b2) /\ NoFill(b, b2) /\ b2.orders = b.orders /\ b2.out = b.out
             /\ Notified(b, b2, c, 0, 0, 0, 0, x)
<1> DEFINE r == b.requests[c]
           b2 == PayShell(b, c, x)
           r2 == [r EXCEPT !.back = @ + x]
<1>1. c # 0 /\ r \in RequestSet OBVIOUS
<1>2. r2 = Moved(r, 0, 0, 0, 0, x) BY <1>1, RequestEta
<1> HIDE DEF r2
<1>3. b2 = [b EXCEPT !.requests = [@ EXCEPT ![c] = r2]] BY <1>1 DEF PayShell, r2
<1>4. b2.requests = [b.requests EXCEPT ![c] = r2] BY <1>3 DEF BookFields
<1>5. Frame(b, b2) /\ NoFill(b, b2) /\ b2.orders = b.orders /\ b2.out = b.out
  BY <1>3 DEF Frame, NoFill, BookFields
<1> QED BY <1>2, <1>4, <1>5 DEF Notified

LEMMA RemoveDoes ==
  ASSUME NEW b, Stored(b), NEW i \in DOMAIN b.orders
  PROVE  LET b2 == RemoveFromBook(b, i)
             c  == b.orders[i].client
         IN  /\ Frame(b, b2) /\ NoFill(b, b2) /\ b2.out = b.out
             /\ b2.orders = Without(b.orders, i)
             /\ b2.requests \in Seq(RequestSet) /\ DOMAIN b2.requests = DOMAIN b.requests
             /\ b.orders[i].isBuy => Notified(b, b2, c, 0, 0, 1, 0, 0)
             /\ ~b.orders[i].isBuy => b2.requests = b.requests
<1> DEFINE c  == b.orders[i].client
           b1 == [b EXCEPT !.orders = [j \in DOMAIN @ \ {i} |-> @[j]]]
           b2 == Tell(b1, c, "removed")
<1>0. RemoveFromBook(b, i) = b2 BY DEF RemoveFromBook
<1>1. /\ DOMAIN b1 = BookFields /\ b1.orders = Without(b.orders, i) /\ b1.requests = b.requests
      /\ b1.out = b.out /\ Frame(b, b1) /\ NoFill(b, b1)
  BY DEF Stored, BookShape, BookFields, Frame, NoFill, Without
<1>2. b.requests \in Seq(RequestSet) BY DEF Stored, BookShape
<1>3. Sides(b, b.orders[i]) /\ b.orders[i].isBuy \in BOOLEAN BY OrderOf DEF Stored, OrderSet
<1> HIDE DEF b1
<1>4. CASE b.orders[i].isBuy
  <2>1. c \in DOMAIN b1.requests BY <1>1, <1>3, <1>4 DEF Sides
  <2>2. /\ Frame(b1, b2) /\ NoFill(b1, b2) /\ b2.orders = b1.orders /\ b2.out = b1.out
        /\ b2.requests \in Seq(RequestSet) /\ DOMAIN b2.requests = DOMAIN b1.requests
        /\ Notified(b1, b2, c, 0, 0, 1, 0, 0)
    BY <1>1, <1>2, <2>1, TellDoes
  <2> QED BY <1>0, <1>1, <1>4, <2>2 DEF Frame, NoFill, Notified
<1>5. CASE ~b.orders[i].isBuy
  <2>1. c = 0 BY <1>3, <1>5 DEF Sides
  <2>2. b2 = b1 BY <2>1 DEF Tell
  <2> QED BY <1>0, <1>1, <1>2, <1>5, <2>2
<1> QED BY <1>3, <1>4, <1>5

LEMMA RefundDoes ==
  ASSUME NEW b, Stored(b), NEW i \in DOMAIN b.orders, b.orders[i].isBuy
  PROVE  BidLeaves(b, RefundAndRemove(b, i), i)
<1> DEFINE o == b.orders[i]
           c == o.client
           b1 == RemoveFromBook(b, i)
           b2 == PayShell(b1, c, o.escrow)
<1>0. RefundAndRemove(b, i) = b2 BY DEF RefundAndRemove
<1>1. o \in OrderSet /\ Sides(b, o) /\ b.requests \in Seq(RequestSet) BY OrderOf DEF Stored, BookShape
<1>2. c \in DOMAIN b.requests /\ o.escrow \in Int BY <1>1 DEF Sides, OrderSet
<1>3. /\ Frame(b, b1) /\ NoFill(b, b1) /\ b1.out = b.out /\ b1.orders = Without(b.orders, i)
      /\ b1.requests \in Seq(RequestSet) /\ DOMAIN b1.requests = DOMAIN b.requests
      /\ Notified(b, b1, c, 0, 0, 1, 0, 0)
  BY RemoveDoes
<1>4. DOMAIN b1 = BookFields /\ c \in DOMAIN b1.requests BY <1>2, <1>3 DEF Frame
<1> HIDE DEF b1, o, c
<1>5. /\ Frame(b1, b2) /\ NoFill(b1, b2) /\ b2.orders = b1.orders /\ b2.out = b1.out
      /\ Notified(b1, b2, c, 0, 0, 0, 0, o.escrow)
  BY <1>2, <1>3, <1>4, PayDoes
<1> HIDE DEF b2
<1>6. Notified(b, b2, c, 0, 0, 1, 0, o.escrow)
  <2> DEFINE r == b.requests[c]
             r1 == Moved(r, 0, 0, 1, 0, 0)
             r2 == Moved(r, 0, 0, 1, 0, o.escrow)
  <2>1. r \in RequestSet BY <1>1, <1>2
  <2>2. Moved(r1, 0, 0, 0, 0, o.escrow) = r2 BY <1>2, <2>1, MovedTwice
  <2>3. b1.requests = [b.requests EXCEPT ![c] = r1] BY <1>3 DEF Notified
  <2> HIDE DEF r1, r2
  <2>4. b1.requests[c] = r1 BY <1>2, <2>3
  <2>5. b2.requests = [b1.requests EXCEPT ![c] = r2] BY <1>5, <2>2, <2>4 DEF Notified
  <2>6. b2.requests = [b.requests EXCEPT ![c] = r2] BY <2>3, <2>5
  <2> QED BY <2>6 DEF Notified, r2
<1>7. Frame(b, b2) /\ NoFill(b, b2) /\ b2.out = b.out /\ b2.orders = Without(b.orders, i)
  BY <1>3, <1>5 DEF Frame, NoFill
<1> QED BY <1>0, <1>6, <1>7 DEF BidLeaves, o, c

LEMMA ClosesDoes ==
  ASSUME NEW b, Stored(b), NEW i \in DOMAIN b.orders, ~b.orders[i].isBuy
  PROVE  AskLeaves(b, OnSellClosed(RemoveFromBook(b, i), b.orders[i].deal), i)
<1> DEFINE d == b.orders[i].deal
           b1 == RemoveFromBook(b, i)
           b2 == Send(b1, d, [kind |-> "closed"])
<1>1. /\ Frame(b, b1) /\ NoFill(b, b1) /\ b1.out = b.out /\ b1.orders = Without(b.orders, i)
      /\ b1.requests = b.requests
  BY RemoveDoes
<1>2. DOMAIN b1 = BookFields BY <1>1 DEF Frame
<1> HIDE DEF b1, d
<1>3. /\ Frame(b1, b2) /\ NoFill(b1, b2) /\ b2.orders = b1.orders /\ b2.requests = b1.requests
      /\ b2.out = [b1.out EXCEPT ![d] = Append(@, [kind |-> "closed"])]
  BY <1>2 DEF Send, Frame, NoFill, BookFields
<1> HIDE DEF b2
<1>4. AskLeaves(b, b2, i) BY <1>1, <1>3 DEF AskLeaves, Frame, NoFill, d
<1> QED BY <1>4 DEF OnSellClosed, b2, b1, d

LEMMA ExpiredDoes ==
  ASSUME NEW b, Stored(b), NEW i \in DOMAIN b.orders
  PROVE  Leaves(b, RemoveExpired(b, i), i)
<1>1. b.orders[i].isBuy \in BOOLEAN BY OrderOf DEF Stored, OrderSet
<1>2. CASE b.orders[i].isBuy BY <1>2, RefundDoes DEF RemoveExpired, Leaves
<1>3. CASE ~b.orders[i].isBuy BY <1>3, ClosesDoes DEF RemoveExpired, Leaves
<1> QED BY <1>1, <1>2, <1>3

LEMMA CancelledDoes ==
  ASSUME NEW b, Stored(b), NEW i \in DOMAIN b.orders
  PROVE  Leaves(b, Cancelled(b, i), i)
<1>1. b.orders[i].isBuy \in BOOLEAN BY OrderOf DEF Stored, OrderSet
<1>2. CASE b.orders[i].isBuy BY <1>2, RefundDoes DEF Cancelled, Leaves
<1>3. CASE ~b.orders[i].isBuy
  <2>1. b.orders[i].client = 0 BY <1>3 DEF Stored, Sides
  <2>2. RefundAndRemove(b, i) = RemoveFromBook(b, i) BY <2>1 DEF RefundAndRemove, PayShell
  <2>3. Cancelled(b, i) = OnSellClosed(RemoveFromBook(b, i), b.orders[i].deal)
    BY <1>3, <2>2 DEF Cancelled
  <2> QED BY <1>3, <2>3, ClosesDoes DEF Leaves
<1> QED BY <1>1, <1>2, <1>3

LEMMA RejectDoes ==
  ASSUME NEW b, DOMAIN b = BookFields, b.requests \in Seq(RequestSet), NEW c \in DOMAIN b.requests,
         NEW x \in Int
  PROVE  Refused(b, RejectToNote(b, c, x), c, x)
<1> DEFINE b1 == Tell(b, c, "rejected")
           b2 == PayShell(b1, c, x)
<1>0. RejectToNote(b, c, x) = b2 BY DEF RejectToNote
<1>3. /\ Frame(b, b1) /\ NoFill(b, b1) /\ b1.out = b.out /\ b1.orders = b.orders
      /\ b1.requests \in Seq(RequestSet) /\ DOMAIN b1.requests = DOMAIN b.requests
      /\ Notified(b, b1, c, 0, 1, 0, 0, 0)
  BY TellDoes
<1>4. DOMAIN b1 = BookFields /\ c \in DOMAIN b1.requests BY <1>3 DEF Frame
<1> HIDE DEF b1
<1>5. /\ Frame(b1, b2) /\ NoFill(b1, b2) /\ b2.orders = b1.orders /\ b2.out = b1.out
      /\ Notified(b1, b2, c, 0, 0, 0, 0, x)
  BY <1>3, <1>4, PayDoes
<1> HIDE DEF b2
<1>6. Notified(b, b2, c, 0, 1, 0, 0, x)
  <2> DEFINE r == b.requests[c]
             r1 == Moved(r, 0, 1, 0, 0, 0)
             r2 == Moved(r, 0, 1, 0, 0, x)
  <2>1. r \in RequestSet OBVIOUS
  <2>2. Moved(r1, 0, 0, 0, 0, x) = r2 BY <2>1, MovedTwice
  <2>3. b1.requests = [b.requests EXCEPT ![c] = r1] BY <1>3 DEF Notified
  <2> HIDE DEF r1, r2
  <2>4. b1.requests[c] = r1 BY <2>3
  <2>5. b2.requests = [b1.requests EXCEPT ![c] = r2] BY <1>5, <2>2, <2>4 DEF Notified
  <2>6. b2.requests = [b.requests EXCEPT ![c] = r2] BY <2>3, <2>5
  <2> QED BY <2>6 DEF Notified, r2
<1>7. Frame(b, b2) /\ NoFill(b, b2) /\ b2.out = b.out /\ b2.orders = b.orders
  BY <1>3, <1>5 DEF Frame, NoFill
<1> QED BY <1>0, <1>6, <1>7 DEF Refused

LEMMA InsertDoes ==
  ASSUME NEW b, DOMAIN b = BookFields, b.requests \in Seq(RequestSet), NEW id, NEW o,
         o.client \in DOMAIN b.requests \cup {0}
  PROVE  Rests(b, InsertIntoBook(b, id, o), id, o)
<1> DEFINE b1 == [b EXCEPT !.orders = [i \in DOMAIN @ \cup {id} |-> IF i = id THEN o ELSE @[i]]]
           b2 == Tell(b1, o.client, "placed")
<1>0. InsertIntoBook(b, id, o) = b2 BY DEF InsertIntoBook
<1>1. /\ Frame(b, b1) /\ NoFill(b, b1) /\ b1.out = b.out /\ b1.requests = b.requests
      /\ b1.orders = [i \in DOMAIN b.orders \cup {id} |-> IF i = id THEN o ELSE b.orders[i]]
  BY DEF Frame, NoFill, BookFields
<1> HIDE DEF b1
<1>2. CASE o.client = 0
  <2>1. b2 = b1 BY <1>2 DEF Tell
  <2> QED BY <1>0, <1>1, <1>2, <2>1 DEF Rests
<1>3. CASE o.client # 0
  <2>1. DOMAIN b1 = BookFields /\ o.client \in DOMAIN b1.requests /\ b1.requests \in Seq(RequestSet)
    BY <1>1, <1>3 DEF Frame
  <2>2. /\ Frame(b1, b2) /\ NoFill(b1, b2) /\ b2.orders = b1.orders /\ b2.out = b1.out
        /\ Notified(b1, b2, o.client, 1, 0, 0, 0, 0)
    BY <2>1, TellDoes
  <2> HIDE DEF b2
  <2>3. Notified(b, b2, o.client, 1, 0, 0, 0, 0) BY <1>1, <2>2 DEF Notified
  <2>4. Frame(b, b2) /\ NoFill(b, b2) BY <1>1, <2>2 DEF Frame, NoFill
  <2> QED BY <1>0, <1>1, <1>3, <2>2, <2>3, <2>4 DEF Rests
<1> QED BY <1>2, <1>3

-----------------------------------------------------------------------------
(***************************************************************************)
(* Fills.                                                                  *)
(***************************************************************************)
LEMMA SettleDoes ==
  ASSUME NEW m, NEW taker, NEW i, NEW trade, Stored(m.book), Taking(m.book, taker),
         i \in DOMAIN m.book.orders, m.book.orders[i].isBuy # taker.isBuy,
         Cost(taker, m.book.orders[i], trade) \in Int
  PROVE  LET b2 == SettleFill(m, taker, i, trade)
             maker == m.book.orders[i]
         IN  /\ Settles(m, b2, taker, i, trade)
             /\ b2.orders = m.book.orders
             /\ Notified(m.book, b2, Buying(taker, maker).client, 0, 0, 0, Cost(taker, maker, trade), 0)
             /\ Buying(taker, maker).client \in DOMAIN m.book.requests
<1> DEFINE b == m.book
           maker == b.orders[i]
           buy == Buying(taker, maker)
           d == Serving(taker, maker)
           cost == Cost(taker, maker, trade)
           msg == HandoverOf(taker, maker, trade)
           fill == FillOf(m, taker, i, trade)
           c == buy.client
           b1 == RecordHandover(b, d, buy.note)
           b3 == Send(b1, d, msg)
           b4 == [b3 EXCEPT !.requests[c].spent = @ + cost, !.trades = Append(@, fill)]
<1>0. SettleFill(m, taker, i, trade) = b4
  BY DEF SettleFill, Buying, Serving, Cost, HandoverOf, FillOf
<1>1. Sides(b, maker) /\ Sides(b, taker) /\ maker.isBuy \in BOOLEAN /\ taker.isBuy \in BOOLEAN
  BY OrderOf DEF Stored, Taking, OrderSet, EntrySet
<1>2. c \in DOMAIN b.requests BY <1>1 DEF Buying, Sides
<1>3. b.requests \in Seq(RequestSet) /\ DOMAIN b = BookFields BY DEF Stored, BookShape
<1> HIDE DEF b, maker, buy, d, cost, msg, fill, c
<1>4. /\ Frame(b, b1) /\ b1.orders = b.orders /\ b1.requests = b.requests /\ b1.out = b.out
      /\ b1.handoverBuyer = [b.handoverBuyer EXCEPT ![d] = buy.note] /\ b1.trades = b.trades
  BY <1>3 DEF RecordHandover, Frame, BookFields
<1>5. DOMAIN b1 = BookFields BY <1>4 DEF Frame
<1> HIDE DEF b1
<1>6. /\ Frame(b1, b3) /\ NoFill(b1, b3) /\ b3.orders = b1.orders /\ b3.requests = b1.requests
      /\ b3.out = [b1.out EXCEPT ![d] = Append(@, msg)]
  BY <1>5 DEF Send, Frame, NoFill, BookFields
<1>7. DOMAIN b3 = BookFields BY <1>6 DEF Frame
<1> HIDE DEF b3
<1> DEFINE r == b.requests[c]
           r2 == [r EXCEPT !.spent = @ + cost]
<1>8. r2 = Moved(r, 0, 0, 0, cost, 0)
  <2>1. r \in RequestSet /\ cost \in Int BY <1>2, <1>3 DEF cost, maker, b
  <2> HIDE DEF r
  <2> QED BY <2>1, RequestEta
<1>9. b4 = [b3 EXCEPT !.requests = [@ EXCEPT ![c] = r2], !.trades = Append(@, fill)]
  BY <1>4, <1>6, Zenon
<1> HIDE DEF r2, b4
<1>10. b4.requests = [b3.requests EXCEPT ![c] = r2] BY <1>7, <1>9 DEF BookFields
<1>11. b4.trades = Append(b3.trades, fill) BY <1>7, <1>9 DEF BookFields
<1>12. /\ Frame(b3, b4) /\ b4.orders = b3.orders /\ b4.out = b3.out
       /\ b4.handoverBuyer = b3.handoverBuyer
  BY <1>7, <1>9 DEF BookFields, Frame
<1>13. b4.requests = [b.requests EXCEPT ![c] = r2] BY <1>4, <1>6, <1>10
<1>14. Notified(b, b4, c, 0, 0, 0, cost, 0) BY <1>8, <1>13 DEF Notified
<1>15. /\ Frame(b, b4) /\ b4.orders = b.orders
       /\ b4.handoverBuyer = [b.handoverBuyer EXCEPT ![d] = buy.note]
       /\ b4.out = [b.out EXCEPT ![d] = Append(@, msg)]
       /\ b4.trades = Append(b.trades, fill)
  BY <1>4, <1>6, <1>11, <1>12 DEF Frame, NoFill
<1>16. Settles(m, b4, taker, i, trade) BY <1>15 DEF Settles, b, maker, d, msg, fill, buy
<1> QED BY <1>0, <1>2, <1>14, <1>15, <1>16 DEF b, c, buy, cost, maker

LEMMA NotifiedKeeps ==
  ASSUME NEW b, NEW b2, b.requests \in Seq(RequestSet), NEW c \in DOMAIN b.requests,
         NEW p \in Int, NEW j \in Int, NEW v \in Int, NEW s \in Int, NEW k \in Int,
         Notified(b, b2, c, p, j, v, s, k)
  PROVE  /\ SameNotes(b, b2)
         /\ b2.requests[c] = Moved(b.requests[c], p, j, v, s, k)
         /\ \A x \in DOMAIN b.requests : x # c => b2.requests[x] = b.requests[x]
<1> DEFINE r == b.requests[c]
           r2 == Moved(r, p, j, v, s, k)
<1>1. r \in RequestSet OBVIOUS
<1>2. b2.requests = [b.requests EXCEPT ![c] = r2] BY DEF Notified
<1> HIDE DEF r
<1>3. r2 \in RequestSet BY <1>1, MovedType
<1>4. r2.note = r.note BY DEF Moved
<1> HIDE DEF r2
<1>5. /\ b2.requests \in Seq(RequestSet) /\ DOMAIN b2.requests = DOMAIN b.requests
      /\ b2.requests[c] = r2
      /\ \A x \in DOMAIN b.requests : x # c => b2.requests[x] = b.requests[x]
  BY <1>2, <1>3
<1>6. SameNotes(b, b2) BY <1>4, <1>5 DEF SameNotes, r
<1> QED BY <1>5, <1>6 DEF r2, r

LEMMA SidesKept ==
  ASSUME NEW b, NEW b2, SameNotes(b, b2), NEW o, Sides(b, o)
  PROVE  Sides(b2, o)
BY DEF SameNotes, Sides

LEMMA StoredBy ==
  ASSUME NEW b, NEW b2, Stored(b), Frame(b, b2), SameNotes(b, b2),
         DOMAIN b2.orders \subseteq 1..(b.nextOrderId - 1),
         b2.orders \in [DOMAIN b2.orders -> OrderSet],
         \A i \in DOMAIN b2.orders : Sides(b, b2.orders[i]),
         b2.out \in [Deals -> Seq(OutMsgs)],
         b2.handoverBuyer \in [Deals -> Notes \cup {NoNote}],
         b2.trades \in Seq(FillSet)
  PROVE  Stored(b2)
<1>1. BookShape(b2) BY DEF Stored, BookShape, Frame, SameNotes
<1>2. \A i \in DOMAIN b2.orders : Sides(b2, b2.orders[i]) BY SidesKept
<1> QED BY <1>1, <1>2 DEF Stored

LEMMA WithoutKeeps ==
  ASSUME NEW b, Stored(b), NEW i, NEW f, f = Without(b.orders, i)
  PROVE  /\ DOMAIN f = DOMAIN b.orders \ {i}
         /\ \A j \in DOMAIN f : f[j] = b.orders[j]
         /\ DOMAIN f \subseteq 1..(b.nextOrderId - 1)
         /\ f \in [DOMAIN f -> OrderSet]
         /\ \A j \in DOMAIN f : Sides(b, f[j])
<1>1. /\ f = [j \in DOMAIN f |-> f[j]] /\ DOMAIN f = DOMAIN b.orders \ {i}
      /\ \A j \in DOMAIN f : f[j] = b.orders[j] BY DEF Without
<1>2. /\ DOMAIN f \subseteq 1..(b.nextOrderId - 1)
      /\ \A j \in DOMAIN f : Sides(b, f[j])
      /\ \A j \in DOMAIN f : f[j] \in OrderSet BY <1>1, OrderOf DEF Stored, BookShape
<1> QED BY <1>1, <1>2

LEMMA OutGrows ==
  ASSUME NEW b, Stored(b), NEW d \in Deals, NEW msg \in OutMsgs, NEW out,
         out = [b.out EXCEPT ![d] = Append(@, msg)]
  PROVE  out \in [Deals -> Seq(OutMsgs)]
<1>1. b.out \in [Deals -> Seq(OutMsgs)] BY DEF Stored, BookShape
<1> QED BY <1>1

\* A removal keeps the book well formed.
LEMMA LeavesStored ==
  ASSUME NEW b, NEW b2, Stored(b), NEW i \in DOMAIN b.orders, Leaves(b, b2, i)
  PROVE  Stored(b2) /\ SameNotes(b, b2)
<1>1. /\ b.requests \in Seq(RequestSet) /\ b.out \in [Deals -> Seq(OutMsgs)]
      /\ b.handoverBuyer \in [Deals -> Notes \cup {NoNote}] /\ b.trades \in Seq(FillSet)
  BY DEF Stored, BookShape
<1>2. b.orders[i] \in OrderSet /\ Sides(b, b.orders[i]) BY OrderOf DEF Stored
<1>3. b.orders[i].isBuy \in BOOLEAN BY <1>2 DEF OrderSet
<1>4. CASE b.orders[i].isBuy
  <2>1. BidLeaves(b, b2, i) BY <1>4 DEF Leaves
  <2>2. /\ Frame(b, b2) /\ NoFill(b, b2) /\ b2.out = b.out /\ b2.orders = Without(b.orders, i)
        /\ Notified(b, b2, b.orders[i].client, 0, 0, 1, 0, b.orders[i].escrow)
    BY <2>1 DEF BidLeaves
  <2>3. b.orders[i].client \in DOMAIN b.requests /\ b.orders[i].escrow \in Int
    BY <1>2, <1>4 DEF Sides, OrderSet
  <2>4. SameNotes(b, b2) BY <1>1, <2>2, <2>3, NotifiedKeeps
  <2>5. /\ b2.handoverBuyer \in [Deals -> Notes \cup {NoNote}] /\ b2.trades \in Seq(FillSet)
        /\ b2.out \in [Deals -> Seq(OutMsgs)] BY <1>1, <2>2 DEF NoFill
  <2>6. /\ DOMAIN b2.orders \subseteq 1..(b.nextOrderId - 1)
        /\ b2.orders \in [DOMAIN b2.orders -> OrderSet]
        /\ \A j \in DOMAIN b2.orders : Sides(b, b2.orders[j])
    <3>1. b2.orders = Without(b.orders, i) BY <2>2
    <3> QED BY <3>1, WithoutKeeps
  <2>7. Stored(b2) BY <2>2, <2>4, <2>5, <2>6, StoredBy
  <2> QED BY <2>4, <2>7
<1>5. CASE ~b.orders[i].isBuy
  <2>1. AskLeaves(b, b2, i) BY <1>5 DEF Leaves
  <2>2. /\ Frame(b, b2) /\ NoFill(b, b2) /\ b2.requests = b.requests
        /\ b2.orders = Without(b.orders, i)
        /\ b2.out = [b.out EXCEPT ![b.orders[i].deal] = Append(@, [kind |-> "closed"])]
    BY <2>1 DEF AskLeaves
  <2>3. b.orders[i].deal \in Deals BY <1>2, <1>5 DEF Sides
  <2>4. [kind |-> "closed"] \in OutMsgs BY DEF OutMsgs
  <2>5. b2.out \in [Deals -> Seq(OutMsgs)] BY <2>2, <2>3, <2>4, OutGrows
  <2>6. SameNotes(b, b2) BY <1>1, <2>2 DEF SameNotes
  <2>7. /\ b2.handoverBuyer \in [Deals -> Notes \cup {NoNote}] /\ b2.trades \in Seq(FillSet)
    BY <1>1, <2>2 DEF NoFill
  <2>8. /\ DOMAIN b2.orders \subseteq 1..(b.nextOrderId - 1)
        /\ b2.orders \in [DOMAIN b2.orders -> OrderSet]
        /\ \A j \in DOMAIN b2.orders : Sides(b, b2.orders[j])
    <3>1. b2.orders = Without(b.orders, i) BY <2>2
    <3> QED BY <3>1, WithoutKeeps
  <2>9. Stored(b2) BY <2>2, <2>5, <2>6, <2>7, <2>8, StoredBy
  <2> QED BY <2>6, <2>9
<1> QED BY <1>3, <1>4, <1>5

LEMMA FacingFacts ==
  ASSUME NEW m, NEW taker, NEW i, NEW trade, Facing(m, taker, i, trade)
  PROVE  LET maker == m.book.orders[i]
             d == Serving(taker, maker)
             buy == Buying(taker, maker)
         IN  /\ d \in Deals /\ Clearing(taker, maker) = AskPrice[d] /\ AskPrice[d] \in Nat \ {0}
             /\ Cost(taker, maker, trade) \in Int
             /\ buy.client \in DOMAIN m.book.requests
             /\ buy.note \in Notes /\ m.book.requests[buy.client].note = buy.note
             /\ HandoverOf(taker, maker, trade) \in OutMsgs
             /\ FillOf(m, taker, i, trade) \in FillSet
             /\ taker.isBuy \in BOOLEAN /\ maker.isBuy = ~taker.isBuy
             /\ maker \in OrderSet /\ Sides(m.book, maker)
<1> DEFINE maker == m.book.orders[i]
           d == Serving(taker, maker)
           buy == Buying(taker, maker)
<1>1. maker \in OrderSet /\ Sides(m.book, maker) /\ i \in Nat BY OrderOf DEF Facing, Stored
<1>2. taker \in EntrySet /\ Sides(m.book, taker) /\ taker.note \in Notes BY DEF Facing, Taking
<1>3. taker.isBuy \in BOOLEAN /\ maker.isBuy \in BOOLEAN /\ maker.note \in Notes
  BY <1>1, <1>2 DEF OrderSet, EntrySet
<1>4. maker.isBuy = ~taker.isBuy BY <1>3 DEF Facing
<1> HIDE DEF maker
<1>5. d \in Deals /\ Clearing(taker, maker) = AskPrice[d]
  BY <1>1, <1>2, <1>4 DEF Serving, Clearing, Sides
<1>6. AskPrice[d] \in Nat \ {0} BY <1>5, BookAssumption
<1>7. Cost(taker, maker, trade) \in Int BY <1>5, <1>6, DebitType DEF Cost, Facing
<1>8. /\ buy.client \in DOMAIN m.book.requests
      /\ buy.note \in Notes /\ m.book.requests[buy.client].note = buy.note
  BY <1>1, <1>2, <1>3, <1>4 DEF Buying, Sides
<1>9. HandoverOf(taker, maker, trade) \in OutMsgs
  BY <1>7, <1>8 DEF HandoverOf, OutMsgs, Handovers, IsSub
<1>10. FillOf(m, taker, i, trade) \in FillSet
  BY <1>1, <1>2 DEF FillOf, FillSet, Facing, maker
<1> QED BY <1>1, <1>3, <1>4, <1>5, <1>6, <1>7, <1>8, <1>9, <1>10 DEF maker

\* The settlement alone keeps the book well formed.
LEMMA SettlesStored ==
  ASSUME NEW m, NEW b2, NEW taker, NEW i, NEW trade, Facing(m, taker, i, trade),
         Settles(m, b2, taker, i, trade), SameNotes(m.book, b2),
         DOMAIN b2.orders \subseteq 1..(m.book.nextOrderId - 1),
         b2.orders \in [DOMAIN b2.orders -> OrderSet],
         \A j \in DOMAIN b2.orders : Sides(m.book, b2.orders[j])
  PROVE  Stored(b2)
<1> DEFINE b == m.book
           maker == b.orders[i]
           d == Serving(taker, maker)
           msg == HandoverOf(taker, maker, trade)
           fill == FillOf(m, taker, i, trade)
           n == Buying(taker, maker).note
<1>1. d \in Deals /\ msg \in OutMsgs /\ fill \in FillSet /\ n \in Notes BY FacingFacts
<1>2. Stored(b) BY DEF Facing
<1>3. /\ Frame(b, b2)
      /\ b2.handoverBuyer = [b.handoverBuyer EXCEPT ![d] = n]
      /\ b2.out = [b.out EXCEPT ![d] = Append(@, msg)]
      /\ b2.trades = Append(b.trades, fill)
  BY DEF Settles
<1> HIDE DEF b, maker, d, msg, fill, n
<1>4. /\ b.handoverBuyer \in [Deals -> Notes \cup {NoNote}] /\ b.trades \in Seq(FillSet)
      /\ b.out \in [Deals -> Seq(OutMsgs)]
  BY <1>2 DEF Stored, BookShape
<1>5. b2.out \in [Deals -> Seq(OutMsgs)] BY <1>1, <1>3, <1>4
<1>6. b2.handoverBuyer \in [Deals -> Notes \cup {NoNote}] BY <1>1, <1>3, <1>4
<1>7. b2.trades \in Seq(FillSet) BY <1>1, <1>3, <1>4
<1> QED BY <1>2, <1>3, <1>5, <1>6, <1>7, StoredBy DEF b

LEMMA AfterFillDoes ==
  ASSUME NEW m, NEW taker, NEW i, NEW trade, Facing(m, taker, i, trade)
  PROVE  LET b2 == AfterFill(SettleFill(m, taker, i, trade), taker, i, trade)
         IN  Fills(m, b2, taker, i, trade) /\ Stored(b2) /\ SameNotes(m.book, b2)
<1> DEFINE b == m.book
           maker == b.orders[i]
           cost == Cost(taker, maker, trade)
           s == SettleFill(m, taker, i, trade)
           c == Buying(taker, maker).client
           b2 == AfterFill(s, taker, i, trade)
<1>1. /\ cost \in Int /\ c \in DOMAIN b.requests /\ taker.isBuy \in BOOLEAN
      /\ maker.isBuy = ~taker.isBuy /\ maker \in OrderSet /\ Sides(b, maker)
  BY FacingFacts
<1>2. Stored(b) /\ i \in DOMAIN b.orders BY DEF Facing
<1>3. /\ Settles(m, s, taker, i, trade) /\ s.orders = b.orders
      /\ Notified(b, s, c, 0, 0, 0, cost, 0)
  <2>1. Stored(m.book) /\ Taking(m.book, taker) /\ i \in DOMAIN m.book.orders
        /\ m.book.orders[i].isBuy # taker.isBuy BY DEF Facing
  <2> QED BY <1>1, <2>1, SettleDoes
<1>4. b.requests \in Seq(RequestSet) BY <1>2 DEF Stored, BookShape
<1>5. SameNotes(b, s)
  <2> HIDE DEF b, s, c, cost
  <2> QED BY <1>1, <1>3, <1>4, NotifiedKeeps
<1>6. Stored(s)
  <2>1. /\ DOMAIN s.orders \subseteq 1..(b.nextOrderId - 1)
        /\ s.orders \in [DOMAIN s.orders -> OrderSet]
        /\ \A j \in DOMAIN s.orders : Sides(b, s.orders[j])
    BY <1>2, <1>3 DEF Stored, BookShape
  <2> HIDE DEF s
  <2> QED BY <1>3, <1>5, <2>1, SettlesStored
<1>7. CASE taker.isBuy
  <2> HIDE DEF s
  <2>1. b2 = RemoveFromBook(s, i) BY <1>7 DEF AfterFill
  <2>2. i \in DOMAIN s.orders /\ ~s.orders[i].isBuy BY <1>1, <1>2, <1>3, <1>7
  <2>3. /\ Frame(s, b2) /\ NoFill(s, b2) /\ b2.out = s.out /\ b2.orders = Without(s.orders, i)
        /\ b2.requests = s.requests
    BY <1>6, <2>1, <2>2, RemoveDoes
  <2> HIDE DEF b2
  <2>4. Settles(m, b2, taker, i, trade) BY <1>3, <2>3 DEF Settles, Frame, NoFill
  <2>5. b2.orders = Without(b.orders, i) BY <1>3, <2>3
  <2>6. SameNotes(b, b2) BY <1>5, <2>3 DEF SameNotes
  <2>7. c = taker.client BY <1>7 DEF Buying
  <2>8. Notified(b, b2, taker.client, 0, 0, 0, cost, 0) BY <1>3, <2>3, <2>7 DEF Notified
  <2>9. Stored(b2)
    <3>1. /\ DOMAIN b2.orders \subseteq 1..(b.nextOrderId - 1)
          /\ b2.orders \in [DOMAIN b2.orders -> OrderSet]
          /\ \A j \in DOMAIN b2.orders : Sides(b, b2.orders[j])
      BY <1>2, <2>5, WithoutKeeps
    <3> QED BY <2>4, <2>6, <3>1, SettlesStored
  <2>10. AskTaken(m, b2, taker, i, trade) BY <2>4, <2>5, <2>8 DEF AskTaken
  <2> QED BY <1>7, <2>6, <2>9, <2>10 DEF Fills, b2, s
<1>8. CASE ~taker.isBuy
  <2> DEFINE p == [s EXCEPT !.orders[i].escrow = @ - cost]
             rest == maker.escrow - cost
  <2>1. c = maker.client /\ maker.isBuy /\ maker.client \in DOMAIN b.requests
    BY <1>1, <1>8 DEF Buying
  <2>2. s.orders[i] = maker /\ i \in DOMAIN s.orders /\ rest \in Int
    BY <1>1, <1>2, <1>3 DEF OrderSet
  <2>3. Cost(taker, s.orders[i], trade) = Debit(trade, Clearing(taker, maker), maker.flags)
    BY <1>8, <2>2 DEF Cost, Buying
  <2> HIDE DEF s
  <2>4. AfterFill(s, taker, i, trade)
          = IF maker.amount = trade THEN RefundAndRemove(p, i)
            ELSE [p EXCEPT !.orders[i].amount = @ - trade]
    <3>1. Debit(trade, Clearing(taker, s.orders[i]), s.orders[i].flags) = cost
      BY <1>8, <2>2 DEF Cost, Buying
    <3> QED BY <1>8, <2>2, <3>1 DEF AfterFill
  <2> DEFINE o2 == [maker EXCEPT !.escrow = rest]
  <2>5. DOMAIN s = BookFields BY <1>6 DEF Stored, BookShape
  <2>6. p = [s EXCEPT !.orders = [@ EXCEPT ![i] = o2]] BY <2>2, Zenon
  <2> HIDE DEF p
  <2>7. /\ p.orders = [b.orders EXCEPT ![i] = o2] /\ p.requests = s.requests
        /\ Frame(s, p) /\ NoFill(s, p) /\ p.out = s.out
    <3> HIDE DEF o2
    <3> QED BY <1>3, <2>5, <2>6 DEF Frame, NoFill, BookFields
  <2>8. /\ o2 \in OrderSet /\ o2.isBuy /\ o2.client = maker.client /\ o2.escrow = rest
        /\ Sides(b, o2) /\ o2.amount = maker.amount
    <3> HIDE DEF rest, maker, b
    <3> QED BY <1>1, <2>1, <2>2 DEF OrderSet, Sides
  <2> HIDE DEF o2, rest
  <2>9. SameNotes(b, p) BY <1>5, <2>7 DEF SameNotes
  <2>10. /\ DOMAIN p.orders = DOMAIN b.orders /\ p.orders[i] = o2
         /\ \A j \in DOMAIN b.orders : j # i => p.orders[j] = b.orders[j]
         /\ p.orders \in [DOMAIN p.orders -> OrderSet]
         /\ \A j \in DOMAIN p.orders : Sides(b, p.orders[j])
         /\ DOMAIN p.orders \subseteq 1..(b.nextOrderId - 1)
    BY <1>2, <2>7, <2>8 DEF Stored, BookShape
  <2>11. Settles(m, p, taker, i, trade) BY <1>3, <2>7 DEF Settles, Frame, NoFill
  <2>12. Stored(p) BY <2>9, <2>10, <2>11, SettlesStored
  <2>13. CASE maker.amount = trade
    <3>1. b2 = RefundAndRemove(p, i) BY <2>4, <2>13
    <3>2. BidLeaves(p, b2, i) BY <1>2, <2>8, <2>10, <2>12, <3>1, RefundDoes
    <3> HIDE DEF b2
    <3>3. /\ Frame(p, b2) /\ NoFill(p, b2) /\ b2.out = p.out /\ b2.orders = Without(p.orders, i)
          /\ Notified(p, b2, c, 0, 0, 1, 0, rest)
      BY <2>1, <2>8, <2>10, <3>2 DEF BidLeaves
    <3>4. Settles(m, b2, taker, i, trade) BY <2>11, <3>3 DEF Settles, Frame, NoFill
    <3>5. b2.orders = Without(b.orders, i)
      <4>1. \A j \in DOMAIN b.orders \ {i} : p.orders[j] = b.orders[j] BY <2>10
      <4> QED BY <2>10, <3>3, <4>1 DEF Without
    <3>6. Notified(b, b2, c, 0, 0, 1, cost, rest)
      <4> DEFINE r == b.requests[c]
                 r1 == Moved(r, 0, 0, 0, cost, 0)
                 r2 == Moved(r, 0, 0, 1, cost, rest)
      <4>1. r \in RequestSet BY <1>1, <1>4
      <4>2. Moved(r1, 0, 0, 1, 0, rest) = r2
        <5> HIDE DEF r, cost
        <5> QED BY <1>1, <2>2, <4>1, MovedTwice
      <4>3. p.requests = [b.requests EXCEPT ![c] = r1] BY <1>3, <2>7 DEF Notified
      <4> HIDE DEF r1, r2, c
      <4>4. p.requests[c] = r1 BY <1>1, <4>3
      <4>5. b2.requests = [p.requests EXCEPT ![c] = r2] BY <3>3, <4>2, <4>4 DEF Notified
      <4>6. b2.requests = [b.requests EXCEPT ![c] = r2] BY <4>3, <4>5
      <4> QED BY <4>6 DEF Notified, r2
    <3>7. SameNotes(b, b2)
      <4> HIDE DEF b, c, cost
      <4> QED BY <1>1, <1>4, <2>2, <3>6, NotifiedKeeps
    <3>8. Stored(b2)
      <4>1. /\ DOMAIN b2.orders \subseteq 1..(b.nextOrderId - 1)
            /\ b2.orders \in [DOMAIN b2.orders -> OrderSet]
            /\ \A j \in DOMAIN b2.orders : Sides(b, b2.orders[j])
        BY <1>2, <3>5, WithoutKeeps
      <4> QED BY <3>4, <3>7, <4>1, SettlesStored
    <3>9. BidTaken(m, b2, taker, i, trade) BY <2>1, <3>4, <3>5, <3>6 DEF BidTaken, rest
    <3> QED BY <1>8, <2>13, <3>7, <3>8, <3>9 DEF Fills, b2, s
  <2>14. CASE maker.amount # trade
    <3> DEFINE o3 == [maker EXCEPT !.escrow = rest, !.amount = maker.amount - trade]
    <3>1. b2 = [p EXCEPT !.orders[i].amount = @ - trade] BY <2>4, <2>14
    <3>2. [o2 EXCEPT !.amount = @ - trade] = o3 BY <1>1 DEF o2, OrderSet
    <3>3. b2 = [p EXCEPT !.orders = [@ EXCEPT ![i] = o3]]
      <4>1. b2 = [p EXCEPT !.orders = [@ EXCEPT ![i] = [p.orders[i] EXCEPT !.amount = @ - trade]]]
        BY <3>1, Zenon
      <4> QED BY <2>10, <3>2, <4>1
    <3>4. DOMAIN p = BookFields BY <2>12 DEF Stored, BookShape
    <3> HIDE DEF b2
    <3>5. /\ b2.orders = [p.orders EXCEPT ![i] = o3] /\ b2.requests = p.requests
          /\ Frame(p, b2) /\ NoFill(p, b2) /\ b2.out = p.out
      <4> HIDE DEF o3
      <4> QED BY <3>3, <3>4 DEF Frame, NoFill, BookFields
    <3>6. o3 \in OrderSet /\ Sides(b, o3)
      <4>1. maker.amount - trade \in Int BY <1>1 DEF OrderSet, Facing
      <4> DEFINE left == maker.amount - trade
      <4> HIDE DEF left, maker, b
      <4>2. [maker EXCEPT !.escrow = rest, !.amount = left] \in OrderSet
        BY <1>1, <2>2, <4>1 DEF OrderSet, left
      <4>3. Sides(b, [maker EXCEPT !.escrow = rest, !.amount = left])
        BY <1>1, <2>1 DEF OrderSet, Sides
      <4> QED BY <4>2, <4>3 DEF left
    <3> HIDE DEF o3
    <3>7. b2.orders = [b.orders EXCEPT ![i] = o3] BY <2>7, <3>5
    <3>8. /\ DOMAIN b2.orders \subseteq 1..(b.nextOrderId - 1)
          /\ b2.orders \in [DOMAIN b2.orders -> OrderSet]
          /\ \A j \in DOMAIN b2.orders : Sides(b, b2.orders[j])
      BY <1>2, <3>6, <3>7 DEF Stored, BookShape
    <3>9. SameNotes(b, b2) BY <2>9, <3>5 DEF SameNotes
    <3>10. Settles(m, b2, taker, i, trade) BY <2>11, <3>5 DEF Settles, Frame, NoFill
    <3>11. Stored(b2) BY <3>8, <3>9, <3>10, SettlesStored
    <3>12. Notified(b, b2, c, 0, 0, 0, cost, 0) BY <1>3, <2>7, <3>5 DEF Notified
    <3>13. BidShrinks(m, b2, taker, i, trade)
      BY <2>1, <3>7, <3>10, <3>12 DEF BidShrinks, o3, rest
    <3> QED BY <1>8, <2>14, <3>9, <3>11, <3>13 DEF Fills, b2, s
  <2> QED BY <2>13, <2>14
<1> QED BY <1>1, <1>7, <1>8

-----------------------------------------------------------------------------
(***************************************************************************)
(* One iteration of the walk.                                              *)
(***************************************************************************)
LEMMA MetOf ==
  ASSUME NEW m, NEW taker, WalkShape(m, taker), ~Idle(m)
  PROVE  /\ Met(m) \in m.todo /\ Met(m) \in DOMAIN m.book.orders
         /\ Maker(m).isBuy # taker.isBuy /\ Met(m) \in Nat \ {0}
         /\ \A j \in m.todo \ {Met(m)} : Before(m.book, Met(m), j)
<1>1. BookShape(m.book) /\ m.todo # {} /\ m.todo \in SUBSET Crossing(m.book, taker)
      /\ taker.isBuy \in BOOLEAN
  BY DEF WalkShape, Stored, Idle, Taking, EntrySet
<1>2. m.todo \in SUBSET DOMAIN m.book.orders BY <1>1 DEF Crossing
<1>3. \A i \in m.todo : m.book.orders[i].isBuy # taker.isBuy BY <1>1 DEF Crossing
<1>4. \A i \in m.todo : m.book.orders[i].isBuy \in BOOLEAN BY <1>1, <1>2, OrderOf DEF OrderSet
<1>5. \A i, j \in m.todo : m.book.orders[i].isBuy = m.book.orders[j].isBuy BY <1>1, <1>3, <1>4
<1>6. Met(m) \in m.todo /\ \A j \in m.todo \ {Met(m)} : Before(m.book, Met(m), j)
  BY <1>1, <1>2, <1>5, FirstOf DEF Met
<1>7. Met(m) \in Nat \ {0} BY <1>1, <1>2, <1>6, OrderOf
<1> QED BY <1>2, <1>3, <1>6, <1>7 DEF Maker

LEMMA LesserType ==
  ASSUME NEW x \in Int, NEW y \in Int
  PROVE  Lesser(x, y) \in Int /\ Lesser(x, y) <= x /\ Lesser(x, y) <= y
         /\ (Lesser(x, y) = x \/ Lesser(x, y) = y)
BY DEF Lesser

LEMMA OfferedType ==
  ASSUME NEW m, NEW taker, WalkShape(m, taker), ~Idle(m)
  PROVE  LET budget == IF taker.isBuy THEN m.leftover ELSE Maker(m).escrow
             unit   == Unit(Clearing(taker, Maker(m)))
             trade  == Offered(m, taker)
         IN  /\ trade \in Int /\ trade <= m.remaining /\ trade <= Maker(m).amount
             /\ unit \in Nat \ {0} /\ budget \in Int /\ trade <= budget \div unit
             /\ \/ trade = m.remaining \/ trade = Maker(m).amount
                \/ trade = budget \div unit
<1> DEFINE budget == IF taker.isBuy THEN m.leftover ELSE Maker(m).escrow
           unit   == Unit(Clearing(taker, Maker(m)))
           trade  == Offered(m, taker)
           aff == budget \div unit
<1>0. Met(m) \in DOMAIN m.book.orders /\ Maker(m).isBuy # taker.isBuy BY MetOf
<1>1. Maker(m) \in OrderSet BY <1>0, OrderOf DEF WalkShape, Stored, Maker
<1>2. m.remaining \in Int /\ m.leftover \in Int BY DEF WalkShape
<1>3. Maker(m).amount \in Int /\ Maker(m).escrow \in Int /\ Maker(m).price \in Nat \ {0}
  BY <1>1 DEF OrderSet
<1>4. Clearing(taker, Maker(m)) \in Nat \ {0}
  <2>1. Taking(m.book, taker) BY DEF WalkShape
  <2>2. ~taker.isBuy => taker.price \in Nat \ {0} BY <2>1 DEF Taking
  <2> QED BY <1>3, <2>2 DEF Clearing
<1>5. unit \in Nat \ {0} BY <1>4, UnitType
<1> HIDE DEF unit
<1>6. budget \in Int /\ aff \in Int BY <1>2, <1>3, <1>5
<1>7. trade = Lesser(Lesser(m.remaining, Maker(m).amount), aff) BY DEF Offered, TradeSize, unit
<1> HIDE DEF aff, trade
<1> DEFINE x == Lesser(m.remaining, Maker(m).amount)
<1>8. x \in Int /\ x <= m.remaining /\ x <= Maker(m).amount
      /\ (x = m.remaining \/ x = Maker(m).amount) BY <1>2, <1>3, LesserType
<1> HIDE DEF x
<1>9. trade = Lesser(x, aff) BY <1>7 DEF x
<1>10. trade \in Int /\ trade <= x /\ trade <= aff /\ (trade = x \/ trade = aff)
  BY <1>6, <1>8, <1>9, LesserType
<1>11. trade <= m.remaining /\ trade <= Maker(m).amount BY <1>2, <1>3, <1>8, <1>10
<1>12. trade = m.remaining \/ trade = Maker(m).amount \/ trade = aff BY <1>8, <1>10
<1> QED BY <1>5, <1>6, <1>10, <1>11, <1>12 DEF unit, aff, trade

LEMMA VisitDoes ==
  ASSUME NEW m, NEW taker, WalkShape(m, taker)
  PROVE  VCases(m, Visit(m, taker), taker)
<1> DEFINE id == Met(m)
           seen == [m EXCEPT !.scanned = @ + 1, !.todo = @ \ {id}]
           trade == Offered(m, taker)
           m2 == Visit(m, taker)
<1>0. m2 = IF Idle(m) THEN m
           ELSE IF Limit(m) THEN [m EXCEPT !.stopped = TRUE, !.resume = id]
           ELSE IF ~DealCompatible(taker, Maker(m)) THEN seen
           ELSE IF IsExpired(Maker(m).deadline)
           THEN [seen EXCEPT !.matches = @ + 1, !.book = RemoveExpired(@, id)]
           ELSE IF Forbids(m, taker) THEN seen
           ELSE IF trade < 2 /\ taker.isBuy THEN [seen EXCEPT !.stopped = TRUE]
           ELSE IF trade < 2 THEN [seen EXCEPT !.matches = @ + 1, !.book = RefundAndRemove(@, id)]
           ELSE Fill(seen, taker, id, trade)
  BY DEF Visit, Idle, Limit, Met, Maker, Offered, Forbids
<1>1. DOMAIN m = WalkFields BY DEF WalkShape
<1>2. CASE Idle(m) BY <1>0, <1>2 DEF VCases
<1>3. CASE ~Idle(m)
  <2>1. id \in m.todo /\ id \in DOMAIN m.book.orders /\ Maker(m).isBuy # taker.isBuy
    BY <1>3, MetOf
  <2>2. Stored(m.book) /\ Taking(m.book, taker) BY DEF WalkShape
  <2>3. /\ DOMAIN seen = WalkFields /\ seen.book = m.book /\ seen.todo = m.todo \ {id}
        /\ seen.remaining = m.remaining /\ seen.leftover = m.leftover /\ seen.matches = m.matches
        /\ seen.scanned = m.scanned + 1 /\ seen.stopped = m.stopped /\ seen.resume = m.resume
    BY <1>1 DEF WalkFields
  <2>4. m.stopped = FALSE BY <1>3 DEF Idle, WalkShape
  <2>5. trade \in Int BY <1>3, OfferedType
  <2>6. taker.isBuy \in BOOLEAN /\ Maker(m).isBuy \in BOOLEAN
    BY <2>1, <2>2, OrderOf DEF Taking, EntrySet, Stored, OrderSet, Maker
  <2>7. m.matches \in Nat BY DEF WalkShape
  <2> HIDE DEF id, seen, trade, m2
  <2>8. CASE Limit(m)
    <3>1. m2 = [m EXCEPT !.stopped = TRUE, !.resume = id] BY <1>0, <1>3, <2>8
    <3>2. VLimit(m, m2) BY <1>1, <1>3, <2>8, <3>1 DEF VLimit, SameMoney, WalkFields, id
    <3> QED BY <3>2 DEF VCases, m2
  <2>9. CASE ~Limit(m)
    <3>1. CASE ~DealCompatible(taker, Maker(m))
      <4>1. m2 = seen BY <1>0, <1>3, <2>9, <3>1
      <4>2. VPass(m, m2, taker)
        BY <1>3, <2>3, <2>4, <2>7, <2>9, <3>1, <4>1 DEF VPass, Counts, SameMoney, id
      <4> QED BY <4>2 DEF VCases, m2
    <3>2. CASE DealCompatible(taker, Maker(m)) /\ IsExpired(Maker(m).deadline)
      <4>1. m2 = [seen EXCEPT !.matches = @ + 1, !.book = RemoveExpired(@, id)]
        BY <1>0, <1>3, <2>9, <3>2
      <4>2. /\ DOMAIN m2 = WalkFields /\ m2.book = RemoveExpired(m.book, id)
            /\ m2.todo = m.todo \ {id} /\ m2.remaining = m.remaining /\ m2.leftover = m.leftover
            /\ m2.matches = m.matches + 1 /\ m2.scanned = m.scanned + 1 /\ m2.stopped = m.stopped
            /\ m2.resume = m.resume
        BY <2>3, <4>1 DEF WalkFields
      <4>3. Leaves(m.book, m2.book, id) BY <2>1, <2>2, <4>2, ExpiredDoes
      <4>4. VDrop(m, m2, taker)
        BY <1>3, <2>4, <2>9, <3>2, <4>2, <4>3 DEF VDrop, Counts, SameMoney, id
      <4> QED BY <4>4 DEF VCases, m2
    <3>3. CASE DealCompatible(taker, Maker(m)) /\ ~IsExpired(Maker(m).deadline) /\ Forbids(m, taker)
      <4>1. m2 = seen BY <1>0, <1>3, <2>9, <3>3
      <4>2. VPass(m, m2, taker)
        BY <1>3, <2>3, <2>4, <2>7, <2>9, <3>3, <4>1 DEF VPass, Counts, SameMoney, id
      <4> QED BY <4>2 DEF VCases, m2
    <3>4. CASE Settleable(m, taker) /\ trade < 2 /\ taker.isBuy
      <4>1. m2 = [seen EXCEPT !.stopped = TRUE] BY <1>0, <1>3, <2>9, <3>4 DEF Settleable
      <4>2. /\ DOMAIN m2 = WalkFields /\ m2.book = m.book
            /\ m2.todo = m.todo \ {id} /\ m2.remaining = m.remaining /\ m2.leftover = m.leftover
            /\ m2.matches = m.matches /\ m2.scanned = m.scanned + 1 /\ m2.stopped = TRUE
            /\ m2.resume = m.resume
        BY <2>3, <4>1 DEF WalkFields
      <4>3. VHalt(m, m2, taker) BY <2>7, <3>4, <4>2 DEF VHalt, Counts, SameMoney, id, trade
      <4> QED BY <4>3 DEF VCases, m2
    <3>5. CASE Settleable(m, taker) /\ trade < 2 /\ ~taker.isBuy
      <4>1. m2 = [seen EXCEPT !.matches = @ + 1, !.book = RefundAndRemove(@, id)]
        BY <1>0, <1>3, <2>9, <3>5 DEF Settleable
      <4>2. /\ DOMAIN m2 = WalkFields /\ m2.book = RefundAndRemove(m.book, id)
            /\ m2.todo = m.todo \ {id} /\ m2.remaining = m.remaining /\ m2.leftover = m.leftover
            /\ m2.matches = m.matches + 1 /\ m2.scanned = m.scanned + 1 /\ m2.stopped = m.stopped
            /\ m2.resume = m.resume
        BY <2>3, <4>1 DEF WalkFields
      <4>3. m.book.orders[id].isBuy BY <2>1, <2>6, <3>5 DEF Maker, id
      <4>4. Leaves(m.book, m2.book, id) BY <2>1, <2>2, <4>2, <4>3, RefundDoes DEF Leaves
      <4>5. VDust(m, m2, taker) BY <2>4, <3>5, <4>2, <4>4 DEF VDust, Counts, SameMoney, id, trade
      <4> QED BY <4>5 DEF VCases, m2
    <3>6. CASE Settleable(m, taker) /\ ~(trade < 2)
      <4>1. m2 = Fill(seen, taker, id, trade) BY <1>0, <1>3, <2>9, <3>6 DEF Settleable
      <4> DEFINE b2 == AfterFill(SettleFill(seen, taker, id, trade), taker, id, trade)
                 cost == Debit(trade, Clearing(taker, m.book.orders[id]), taker.flags)
      <4>2. m2 = [seen EXCEPT !.book = b2,
                    !.leftover = IF taker.isBuy THEN @ - cost ELSE @,
                    !.remaining = IF taker.isBuy THEN @ - trade ELSE 0,
                    !.matches = @ + 1]
        BY <2>3, <4>1 DEF Fill
      <4> HIDE DEF b2, cost
      <4>3. /\ DOMAIN m2 = WalkFields /\ m2.book = b2
            /\ m2.todo = m.todo \ {id}
            /\ m2.remaining = (IF taker.isBuy THEN m.remaining - trade ELSE 0)
            /\ m2.leftover = (IF taker.isBuy THEN m.leftover - cost ELSE m.leftover)
            /\ m2.matches = m.matches + 1 /\ m2.scanned = m.scanned + 1 /\ m2.stopped = m.stopped
            /\ m2.resume = m.resume
        BY <2>3, <4>2 DEF WalkFields
      <4>4. SettleFill(seen, taker, id, trade) = SettleFill(m, taker, id, trade)
        BY <2>3 DEF SettleFill
      <4>5. b2 = AfterFill(SettleFill(m, taker, id, trade), taker, id, trade) BY <4>4 DEF b2
      <4>6. Facing(m, taker, id, trade)
        BY <2>1, <2>2, <2>5 DEF Facing, WalkShape, Maker, id
      <4>7. Fills(m, b2, taker, id, trade) BY <4>5, <4>6, AfterFillDoes
      <4>8. taker.isBuy => cost = Cost(taker, Maker(m), trade)
        BY DEF cost, Cost, Buying, Maker, id
      <4>9. VFill(m, m2, taker)
        BY <2>4, <2>5, <3>6, <4>3, <4>7, <4>8 DEF VFill, Counts, id, trade
      <4> QED BY <4>9 DEF VCases, m2
    <3> QED BY <1>3, <2>6, <2>9, <3>1, <3>2, <3>3, <3>4, <3>5, <3>6 DEF Settleable
  <2> QED BY <2>8, <2>9
<1> QED BY <1>2, <1>3

LEMMA LeavesTouches ==
  ASSUME NEW b, NEW b2, Stored(b), NEW i \in DOMAIN b.orders, Leaves(b, b2, i)
  PROVE  Touches(b, b2, i) /\ b2.orders = Without(b.orders, i) /\ DOMAIN b2.orders = DOMAIN b.orders \ {i}
         /\ Frame(b, b2) /\ NoFill(b, b2)
<1>1. b.orders[i].isBuy \in BOOLEAN BY OrderOf DEF Stored, OrderSet
<1>2. b2.orders = Without(b.orders, i) /\ Frame(b, b2) /\ NoFill(b, b2)
  BY <1>1 DEF Leaves, BidLeaves, AskLeaves
<1> QED BY <1>2 DEF Touches, Without

LEMMA FillsTouches ==
  ASSUME NEW m, NEW b2, NEW taker, NEW i \in DOMAIN m.book.orders, NEW trade,
         Fills(m, b2, taker, i, trade)
  PROVE  Touches(m.book, b2, i) /\ Settles(m, b2, taker, i, trade)
<1>1. CASE AskTaken(m, b2, taker, i, trade) BY <1>1 DEF AskTaken, Touches, Without
<1>2. CASE BidTaken(m, b2, taker, i, trade) BY <1>2 DEF BidTaken, Touches, Without
<1>3. CASE BidShrinks(m, b2, taker, i, trade) BY <1>3 DEF BidShrinks, Touches
<1> QED BY <1>1, <1>2, <1>3 DEF Fills

LEMMA CrossingKept ==
  ASSUME NEW b, NEW b2, NEW taker, NEW i, Touches(b, b2, i), NEW T \in SUBSET Crossing(b, taker)
  PROVE  T \ {i} \in SUBSET Crossing(b2, taker)
BY DEF Crossing, Touches

LEMMA TakingKept ==
  ASSUME NEW b, NEW b2, NEW taker, SameNotes(b, b2), Taking(b, taker)
  PROVE  Taking(b2, taker)
BY SidesKept DEF Taking

LEMMA FillFacing ==
  ASSUME NEW m, NEW m2, NEW taker, WalkShape(m, taker), VFill(m, m2, taker)
  PROVE  /\ Facing(m, taker, Met(m), Offered(m, taker)) /\ ~Idle(m)
         /\ Cost(taker, Maker(m), Offered(m, taker)) \in Int
<1>1. ~Idle(m) BY DEF VFill, Settleable
<1>2. Met(m) \in DOMAIN m.book.orders /\ Maker(m).isBuy # taker.isBuy BY <1>1, MetOf
<1>3. Offered(m, taker) \in Int BY <1>1, OfferedType
<1>4. Facing(m, taker, Met(m), Offered(m, taker))
  BY <1>2, <1>3 DEF Facing, WalkShape, Maker
<1>5. Cost(taker, Maker(m), Offered(m, taker)) \in Int BY <1>4, FacingFacts DEF Maker
<1> QED BY <1>1, <1>4, <1>5

\* A fill keeps the book well formed.
LEMMA FillsStored ==
  ASSUME NEW m, NEW b2, NEW taker, NEW i, NEW trade, Facing(m, taker, i, trade),
         Fills(m, b2, taker, i, trade)
  PROVE  Stored(b2) /\ SameNotes(m.book, b2)
<1> DEFINE b == m.book
           maker == b.orders[i]
           cost == Cost(taker, maker, trade)
           c == Buying(taker, maker).client
<1>1. /\ cost \in Int /\ c \in DOMAIN b.requests /\ taker.isBuy \in BOOLEAN
      /\ maker.isBuy = ~taker.isBuy /\ maker \in OrderSet /\ Sides(b, maker)
  BY FacingFacts
<1>2. Stored(b) /\ i \in DOMAIN b.orders /\ trade \in Int BY DEF Facing
<1>3. b.requests \in Seq(RequestSet) BY <1>2 DEF Stored, BookShape
<1>4. Settles(m, b2, taker, i, trade) BY <1>2, FillsTouches
<1>5. CASE taker.isBuy
  <2>1. AskTaken(m, b2, taker, i, trade) BY <1>5 DEF Fills
  <2>2. Notified(b, b2, c, 0, 0, 0, cost, 0) BY <1>5, <2>1 DEF AskTaken, Buying
  <2>3. SameNotes(b, b2)
    <3> HIDE DEF b, c, cost
    <3> QED BY <1>1, <1>3, <2>2, NotifiedKeeps
  <2>4. b2.orders = Without(b.orders, i) BY <2>1 DEF AskTaken
  <2>5. /\ DOMAIN b2.orders \subseteq 1..(b.nextOrderId - 1)
        /\ b2.orders \in [DOMAIN b2.orders -> OrderSet]
        /\ \A j \in DOMAIN b2.orders : Sides(b, b2.orders[j])
    BY <1>2, <2>4, WithoutKeeps
  <2> QED BY <1>4, <2>3, <2>5, SettlesStored
<1>6. CASE ~taker.isBuy /\ maker.amount = trade
  <2>1. BidTaken(m, b2, taker, i, trade) BY <1>6 DEF Fills
  <2>2. Notified(b, b2, c, 0, 0, 1, cost, maker.escrow - cost) BY <1>6, <2>1 DEF BidTaken, Buying
  <2>3. SameNotes(b, b2)
    <3> DEFINE x == maker.escrow - cost
    <3>1. x \in Int BY <1>1 DEF OrderSet
    <3>2. Notified(b, b2, c, 0, 0, 1, cost, x) BY <2>2 DEF x
    <3>3. cost \in Int /\ c \in DOMAIN b.requests BY <1>1
    <3> HIDE DEF b, c, cost, x, maker
    <3> QED BY <1>3, <3>1, <3>2, <3>3, NotifiedKeeps
  <2>4. b2.orders = Without(b.orders, i) BY <2>1 DEF BidTaken
  <2>5. /\ DOMAIN b2.orders \subseteq 1..(b.nextOrderId - 1)
        /\ b2.orders \in [DOMAIN b2.orders -> OrderSet]
        /\ \A j \in DOMAIN b2.orders : Sides(b, b2.orders[j])
    BY <1>2, <2>4, WithoutKeeps
  <2> QED BY <1>4, <2>3, <2>5, SettlesStored
<1>7. CASE ~taker.isBuy /\ maker.amount # trade
  <2>1. BidShrinks(m, b2, taker, i, trade) BY <1>7 DEF Fills
  <2>2. Notified(b, b2, c, 0, 0, 0, cost, 0) BY <1>7, <2>1 DEF BidShrinks, Buying
  <2>3. SameNotes(b, b2)
    <3> HIDE DEF b, c, cost
    <3> QED BY <1>1, <1>3, <2>2, NotifiedKeeps
  <2> DEFINE x == maker.escrow - cost
             y == maker.amount - trade
             o == [maker EXCEPT !.escrow = x, !.amount = y]
  <2>4. x \in Int /\ y \in Int BY <1>1, <1>2 DEF OrderSet
  <2>5. b2.orders = [b.orders EXCEPT ![i] = o] BY <2>1 DEF BidShrinks
  <2> HIDE DEF x, y
  <2>6. o \in OrderSet /\ Sides(b, o)
    <3> HIDE DEF maker, b
    <3>1. o \in OrderSet BY <1>1, <2>4 DEF OrderSet
    <3>2. Sides(b, o) BY <1>1, <1>7 DEF OrderSet, Sides
    <3> QED BY <3>1, <3>2
  <2> HIDE DEF o
  <2>7. /\ DOMAIN b2.orders \subseteq 1..(b.nextOrderId - 1)
        /\ b2.orders \in [DOMAIN b2.orders -> OrderSet]
        /\ \A j \in DOMAIN b2.orders : Sides(b, b2.orders[j])
    BY <1>2, <2>5, <2>6 DEF Stored, BookShape
  <2> QED BY <1>4, <2>3, <2>7, SettlesStored
<1> QED BY <1>1, <1>5, <1>6, <1>7

LEMMA CountsShape ==
  ASSUME NEW m, NEW m2, NEW taker, WalkShape(m, taker), ~Idle(m), NEW x \in Nat,
         NEW stop \in BOOLEAN, Counts(m, m2, x, stop),
         Stored(m2.book), Taking(m2.book, taker), m.todo \ {Met(m)} \in SUBSET Crossing(m2.book, taker),
         m2.remaining \in Int, m2.leftover \in Int
  PROVE  WalkShape(m2, taker)
<1>1. /\ DOMAIN m2 = WalkFields /\ m2.todo = m.todo \ {Met(m)} /\ m2.scanned = m.scanned + 1
      /\ m2.matches = m.matches + x /\ m2.stopped = stop /\ m2.resume = m.resume
  BY DEF Counts
<1>2. /\ m.matches \in Nat /\ m.scanned \in Nat /\ (m.resume # 0 => m.stopped) /\ ~m.stopped
  BY DEF WalkShape, Idle
<1>3. m2.resume = 0 BY <1>1, <1>2
<1>4. m2.matches \in Nat /\ m2.scanned \in Nat /\ m2.stopped \in BOOLEAN BY <1>1, <1>2
<1>5. m2.todo \in SUBSET Crossing(m2.book, taker) BY <1>1
<1> QED BY <1>1, <1>3, <1>4, <1>5 DEF WalkShape

\* The walk keeps its shape; the queue, the counters and the repayments stay.
LEMMA VisitShape ==
  ASSUME NEW m, NEW m2, NEW taker, WalkShape(m, taker), VCases(m, m2, taker)
  PROVE  WalkShape(m2, taker) /\ Frame(m.book, m2.book) /\ SameNotes(m.book, m2.book)
<1> DEFINE i == Met(m)
<1>0. /\ Stored(m.book) /\ Taking(m.book, taker) /\ m.todo \in SUBSET Crossing(m.book, taker)
      /\ m.remaining \in Int /\ m.leftover \in Int /\ m.matches \in Nat /\ m.scanned \in Nat
      /\ m.stopped \in BOOLEAN /\ m.resume \in Nat /\ (m.resume # 0 => m.stopped)
  BY DEF WalkShape
<1>1. Frame(m.book, m.book) /\ SameNotes(m.book, m.book)
  BY <1>0 DEF Stored, BookShape, Frame, SameNotes
<1>2. ASSUME ~Idle(m) PROVE i \in m.todo /\ i \in DOMAIN m.book.orders /\ i \in Nat \ {0} /\ m.resume = 0
  BY <1>0, <1>2, MetOf DEF Idle
<1>3. CASE Idle(m) /\ m2 = m BY <1>1, <1>3
<1>4. CASE VLimit(m, m2)
  <2>1. ~Idle(m) BY <1>4 DEF VLimit
  <2> QED BY <1>0, <1>1, <1>2, <1>4, <2>1 DEF VLimit, WalkShape, SameMoney
<1>5. CASE VPass(m, m2, taker)
  <2>1. ~Idle(m) BY <1>5 DEF VPass
  <2>2. /\ Counts(m, m2, 0, FALSE) /\ m2.book = m.book
        /\ m2.remaining = m.remaining /\ m2.leftover = m.leftover BY <1>5 DEF VPass, SameMoney
  <2>3. m.todo \ {Met(m)} \in SUBSET Crossing(m2.book, taker) BY <1>0, <2>2
  <2>4. WalkShape(m2, taker) BY <1>0, <2>1, <2>2, <2>3, CountsShape
  <2> QED BY <1>1, <2>2, <2>4
<1>6. CASE VHalt(m, m2, taker)
  <2>1. ~Idle(m) BY <1>6 DEF VHalt, Settleable
  <2>2. /\ Counts(m, m2, 0, TRUE) /\ m2.book = m.book
        /\ m2.remaining = m.remaining /\ m2.leftover = m.leftover BY <1>6 DEF VHalt, SameMoney
  <2>3. m.todo \ {Met(m)} \in SUBSET Crossing(m2.book, taker) BY <1>0, <2>2
  <2>4. WalkShape(m2, taker) BY <1>0, <2>1, <2>2, <2>3, CountsShape
  <2> QED BY <1>1, <2>2, <2>4
<1>7. CASE VDrop(m, m2, taker) \/ VDust(m, m2, taker)
  <2>1. ~Idle(m) /\ Counts(m, m2, 1, FALSE) /\ SameMoney(m, m2) /\ Leaves(m.book, m2.book, i)
    BY <1>7 DEF VDrop, VDust, Settleable
  <2>2. i \in DOMAIN m.book.orders /\ m.resume = 0 BY <1>2, <2>1
  <2>3. Stored(m2.book) /\ SameNotes(m.book, m2.book) BY <1>0, <2>1, <2>2, LeavesStored
  <2>4. Touches(m.book, m2.book, i) /\ Frame(m.book, m2.book) BY <1>0, <2>1, <2>2, LeavesTouches
  <2>5. m.todo \ {Met(m)} \in SUBSET Crossing(m2.book, taker) BY <1>0, <2>4, CrossingKept
  <2>6. Taking(m2.book, taker) BY <1>0, <2>3, TakingKept
  <2>7. m2.remaining \in Int /\ m2.leftover \in Int BY <1>0, <2>1 DEF SameMoney
  <2>8. WalkShape(m2, taker) BY <2>1, <2>3, <2>5, <2>6, <2>7, CountsShape
  <2> QED BY <2>3, <2>4, <2>8
<1>8. CASE VFill(m, m2, taker)
  <2> DEFINE trade == Offered(m, taker)
             cost == Cost(taker, Maker(m), trade)
  <2>1. ~Idle(m) /\ Facing(m, taker, i, trade) /\ cost \in Int BY <1>8, FillFacing
  <2>2. i \in DOMAIN m.book.orders /\ m.resume = 0 BY <1>2, <2>1
  <2>3. /\ Counts(m, m2, 1, FALSE) /\ Fills(m, m2.book, taker, i, trade)
        /\ m2.leftover = (IF taker.isBuy THEN m.leftover - cost ELSE m.leftover)
        /\ m2.remaining = IF taker.isBuy THEN m.remaining - trade ELSE 0
    BY <1>8 DEF VFill
  <2>4. trade \in Int BY <2>1 DEF Facing
  <2> HIDE DEF trade, cost
  <2>5. Stored(m2.book) /\ SameNotes(m.book, m2.book) BY <2>1, <2>3, FillsStored
  <2>6. Touches(m.book, m2.book, i) /\ Settles(m, m2.book, taker, i, trade)
    BY <2>2, <2>3, FillsTouches
  <2>7. Frame(m.book, m2.book) BY <2>6 DEF Settles
  <2>8. m.todo \ {Met(m)} \in SUBSET Crossing(m2.book, taker) BY <1>0, <2>6, CrossingKept
  <2>9. Taking(m2.book, taker) BY <1>0, <2>5, TakingKept
  <2>10. m2.leftover \in Int /\ m2.remaining \in Int BY <1>0, <2>1, <2>3, <2>4
  <2>11. WalkShape(m2, taker) BY <2>1, <2>3, <2>5, <2>8, <2>9, <2>10, CountsShape
  <2> QED BY <2>5, <2>7, <2>11
<1> QED BY <1>3, <1>4, <1>5, <1>6, <1>7, <1>8 DEF VCases

-----------------------------------------------------------------------------
(***************************************************************************)
(* What a step leaves alone keeps its place.                               *)
(***************************************************************************)
LEMMA ClientKept ==
  ASSUME NEW b, NEW b2, NEW q, NEW h, NEW h2, NEW held, NEW held2, NEW c,
         ClientUntouched(b, b2, c), ClientOK(b, q, h, held, c),
         c = h <=> c = h2, c = h => held2 = held
  PROVE  ClientOK(b2, q, h2, held2, c)
<1>1. NotResting(b, c) => NotResting(b2, c) BY DEF ClientUntouched, NotResting
<1>2. b2.requests[c] = b.requests[c] BY DEF ClientUntouched
<1>3. CASE Waiting(b, q, h, c)
  <2>1. Waiting(b2, q, h2, c) BY <1>1, <1>2, <1>3 DEF Waiting
  <2> QED BY <2>1 DEF ClientOK
<1>4. CASE InHand(b, q, h, held, c)
  <2>1. InHand(b2, q, h2, held2, c) BY <1>1, <1>2, <1>4 DEF InHand
  <2> QED BY <2>1 DEF ClientOK
<1>5. CASE AtRest(b, q, h, c)
  <2>1. AtRest(b2, q, h2, c) BY <1>2, <1>5 DEF AtRest, ClientUntouched
  <2> QED BY <2>1 DEF ClientOK
<1>6. CASE Over(b, q, h, c)
  <2>1. Over(b2, q, h2, c) BY <1>1, <1>2, <1>6 DEF Over
  <2> QED BY <2>1 DEF ClientOK
<1> QED BY <1>3, <1>4, <1>5, <1>6 DEF ClientOK

LEMMA DealKept ==
  ASSUME NEW b, NEW b2, NEW q, NEW d, NEW d2, NEW x, NEW dl, NEW tb,
         DealUntouched(b, b2, x), DealOK(b, q, d, x, dl, tb), x = d <=> x = d2
  PROVE  DealOK(b2, q, d2, x, dl, tb)
<1>1. NotListed(b, x) => NotListed(b2, x) BY DEF DealUntouched, NotListed
<1>2. b2.out[x] = b.out[x] /\ b2.handoverBuyer[x] = b.handoverBuyer[x] BY DEF DealUntouched
<1>3. CASE Sent(b, q, d, x, dl, tb)
  <2>1. Sent(b2, q, d2, x, dl, tb) BY <1>1, <1>2, <1>3 DEF Sent
  <2> QED BY <2>1 DEF DealOK
<1>4. CASE Waits(b, q, d, x, dl, tb)
  <2>1. Waits(b2, q, d2, x, dl, tb) BY <1>1, <1>2, <1>4 DEF Waits
  <2> QED BY <2>1 DEF DealOK
<1>5. CASE Matched(b, q, d, x, dl, tb)
  <2>1. Matched(b2, q, d2, x, dl, tb) BY <1>1, <1>2, <1>5 DEF Matched
  <2> QED BY <2>1 DEF DealOK
<1>6. CASE Lists(b, q, d, x, dl, tb)
  <2>1. Lists(b2, q, d2, x, dl, tb) BY <1>2, <1>6 DEF Lists, DealUntouched
  <2> QED BY <2>1 DEF DealOK
<1>7. CASE Answered(b, q, d, x, dl, tb)
  <2>1. Answered(b2, q, d2, x, dl, tb) BY <1>1, <1>2, <1>7 DEF Answered
  <2> QED BY <2>1 DEF DealOK
<1>8. CASE Stuck(b, q, d, x, dl, tb)
  <2>1. Stuck(b2, q, d2, x, dl, tb) BY <1>1, <1>2, <1>8 DEF Stuck
  <2> QED BY <2>1 DEF DealOK
<1>9. CASE Free(b, q, d, x, dl, tb)
  <2>1. Free(b2, q, d2, x, dl, tb) BY <1>1, <1>2, <1>9 DEF Free
  <2> QED BY <2>1 DEF DealOK
<1> QED BY <1>3, <1>4, <1>5, <1>6, <1>7, <1>8, <1>9 DEF DealOK

\* The requests are numbered from 1, and so finite in number.
LEMMA RequestNumbers ==
  ASSUME NEW b, b.requests \in Seq(RequestSet)
  PROVE  /\ 0 \notin DOMAIN b.requests /\ IsFiniteSet(DOMAIN b.requests)
         /\ \A n : IsFiniteSet(RequestsOf(b, n))
         /\ \A c \in DOMAIN b.requests : Spent(b)[c] \in Int
<1> DEFINE k == Len(b.requests)
<1>1. DOMAIN b.requests = 1..k /\ k \in Nat OBVIOUS
<1>2. IsFiniteSet(1..k) BY <1>1, FS_Interval
<1>3. IsFiniteSet(DOMAIN b.requests) BY <1>1, <1>2
<1>4. \A n : RequestsOf(b, n) \in SUBSET DOMAIN b.requests BY DEF RequestsOf
<1>5. \A n : IsFiniteSet(RequestsOf(b, n)) BY <1>3, <1>4, FS_Subset
<1>6. \A c \in DOMAIN b.requests : b.requests[c] \in RequestSet OBVIOUS
<1>7. \A c \in DOMAIN b.requests : b.requests[c].spent \in Int BY <1>6 DEF RequestSet
<1>8. \A c \in DOMAIN b.requests : Spent(b)[c] = b.requests[c].spent BY DEF Spent
<1> QED BY <1>1, <1>3, <1>5, <1>7, <1>8

\* The sums of a note do not move when no request of it and no way changes.
LEMMA BalancedKept ==
  ASSUME NEW b, NEW b2, NEW tbs, NEW tbs2, NEW n, b.requests \in Seq(RequestSet), SameNotes(b, b2),
         \A c \in DOMAIN b.requests : b2.requests[c].spent = b.requests[c].spent,
         \A x \in Deals : Way(b2.out[x], tbs2[x], n) = Way(b.out[x], tbs[x], n),
         b2.landed[n] = b.landed[n], b2.repaid[n] = b.repaid[n], Balanced(b, tbs, n)
  PROVE  Balanced(b2, tbs2, n)
<1>1. RequestsOf(b2, n) = RequestsOf(b, n) BY DEF RequestsOf, SameNotes
<1>2. \A c \in RequestsOf(b, n) : Spent(b)[c] = Spent(b2)[c]
  BY DEF RequestsOf, Spent, SameNotes
<1>3. IsFiniteSet(RequestsOf(b, n)) BY RequestNumbers
<1>4. Sum(Spent(b), RequestsOf(b, n)) = Sum(Spent(b2), RequestsOf(b, n)) BY <1>2, <1>3, SumSame
<1>5. Sum(Spent(b2), RequestsOf(b2, n)) = Sum(Spent(b2), RequestsOf(b, n)) BY <1>1, Zenon
<1>6. \A x \in Deals : Ways(b, tbs, n)[x] = Ways(b2, tbs2, n)[x] BY DEF Ways
<1>7. Sum(Ways(b, tbs, n), Deals) = Sum(Ways(b2, tbs2, n), Deals)
  BY <1>6, SumSame, BookAssumption
<1> QED BY <1>4, <1>5, <1>7 DEF Balanced

-----------------------------------------------------------------------------
(***************************************************************************)
(* How a request moves on.                                                 *)
(***************************************************************************)
LEMMA RestsHere ==
  ASSUME NEW b, NEW q, NEW h, NEW held, NEW i \in DOMAIN b.orders,
         ClientOK(b, q, h, held, b.orders[i].client)
  PROVE  AtRest(b, q, h, b.orders[i].client)
BY DEF ClientOK, Waiting, InHand, Over, NotResting

\* A bid leaves: what it held is spent or paid back.
LEMMA RestEnds ==
  ASSUME NEW b, NEW b2, NEW q, NEW h, NEW held, NEW held2, NEW i \in DOMAIN b.orders,
         NEW s \in Int, NEW k \in Int, b.orders[i].client \in DOMAIN b.requests,
         b.requests[b.orders[i].client] \in RequestSet,
         b.orders[i].escrow = s + k, b2.orders = Without(b.orders, i),
         b2.requests[b.orders[i].client] = Moved(b.requests[b.orders[i].client], 0, 0, 1, s, k),
         ClientOK(b, q, h, held, b.orders[i].client)
  PROVE  ClientOK(b2, q, h, held2, b.orders[i].client)
<1> DEFINE c == b.orders[i].client
           r == b.requests[c]
           r2 == b2.requests[c]
<1>1. AtRest(b, q, h, c) BY RestsHere
<1>2. c # h /\ NotQueued(q, c) BY <1>1 DEF AtRest
<1>3. \A j \in DOMAIN b.orders : b.orders[j].client = c => j = i BY <1>1 DEF AtRest
<1>4. /\ r.committed = r.spent + r.back + b.orders[i].escrow
      /\ r.placed = 1 /\ r.rejected = 0 /\ r.removed = 0
  BY <1>1 DEF AtRest
<1>5. NotResting(b2, c)
  <2>1. \A j \in DOMAIN b2.orders : j \in DOMAIN b.orders /\ j # i /\ b2.orders[j] = b.orders[j]
    BY DEF Without
  <2> QED BY <1>3, <2>1 DEF NotResting
<1>6. /\ r.committed \in Int /\ r.spent \in Int /\ r.back \in Int BY DEF RequestSet
<1>7. r2.committed = r.committed /\ r2.spent = r.spent + s /\ r2.back = r.back + k
      /\ r2.placed = r.placed + 0 /\ r2.rejected = r.rejected + 0 /\ r2.removed = r.removed + 1
  BY DEF Moved
<1> HIDE DEF r, r2, c
<1>8. /\ r2.committed = r2.spent + r2.back /\ r2.placed + r2.rejected = 1 /\ r2.placed = r2.removed
  BY <1>4, <1>6, <1>7
<1>9. Over(b2, q, h, c) BY <1>2, <1>5, <1>8 DEF Over, r2
<1> QED BY <1>9 DEF ClientOK, c

\* A bid is taken in part.
LEMMA RestShrinks ==
  ASSUME NEW b, NEW b2, NEW q, NEW h, NEW held, NEW held2, NEW i \in DOMAIN b.orders,
         NEW s \in Int, NEW o, b.orders[i].client \in DOMAIN b.requests,
         b.requests[b.orders[i].client] \in RequestSet, b.orders[i].escrow \in Int,
         o.escrow = b.orders[i].escrow - s, o.client = b.orders[i].client,
         b2.orders = [b.orders EXCEPT ![i] = o],
         b2.requests[b.orders[i].client] = Moved(b.requests[b.orders[i].client], 0, 0, 0, s, 0),
         ClientOK(b, q, h, held, b.orders[i].client)
  PROVE  ClientOK(b2, q, h, held2, b.orders[i].client)
<1> DEFINE c == b.orders[i].client
           r == b.requests[c]
           r2 == b2.requests[c]
<1>1. AtRest(b, q, h, c) BY RestsHere
<1>2. c # h /\ NotQueued(q, c) BY <1>1 DEF AtRest
<1>3. \A j \in DOMAIN b.orders : b.orders[j].client = c => j = i BY <1>1 DEF AtRest
<1>4. /\ r.committed = r.spent + r.back + b.orders[i].escrow
      /\ r.placed = 1 /\ r.rejected = 0 /\ r.removed = 0
  BY <1>1 DEF AtRest
<1>5. /\ DOMAIN b2.orders = DOMAIN b.orders /\ b2.orders[i] = o
      /\ \A j \in DOMAIN b.orders : j # i => b2.orders[j] = b.orders[j]
  OBVIOUS
<1>6. /\ r.committed \in Int /\ r.spent \in Int /\ r.back \in Int BY DEF RequestSet
<1>7. r2.committed = r.committed /\ r2.spent = r.spent + s /\ r2.back = r.back + 0
      /\ r2.placed = r.placed + 0 /\ r2.rejected = r.rejected + 0 /\ r2.removed = r.removed + 0
  BY DEF Moved
<1>8. /\ r2.committed = r2.spent + r2.back + o.escrow
      /\ r2.placed = 1 /\ r2.rejected = 0 /\ r2.removed = 0
  <2> HIDE DEF r, r2
  <2> QED BY <1>4, <1>6, <1>7
<1>9. \A j \in DOMAIN b2.orders : b2.orders[j].client = c => j = i BY <1>3, <1>5
<1>10. AtRest(b2, q, h, c) BY <1>2, <1>5, <1>8, <1>9 DEF AtRest
<1> QED BY <1>10 DEF ClientOK

LEMMA HeldHere ==
  ASSUME NEW b, NEW q, NEW h, NEW held, ClientOK(b, q, h, held, h)
  PROVE  InHand(b, q, h, held, h)
BY DEF ClientOK, Waiting, AtRest, Over

\* The taker buys.
LEMMA HandSpends ==
  ASSUME NEW b, NEW b2, NEW q, NEW h, NEW held \in Int, NEW s \in Int, NEW i,
         b.requests[h] \in RequestSet,
         b2.requests[h] = Moved(b.requests[h], 0, 0, 0, s, 0), b2.orders = Without(b.orders, i),
         ClientOK(b, q, h, held, h)
  PROVE  ClientOK(b2, q, h, held - s, h)
<1> DEFINE r == b.requests[h]
           r2 == b2.requests[h]
<1>1. InHand(b, q, h, held, h) BY HeldHere
<1>2. NotQueued(q, h) /\ NotResting(b, h) BY <1>1 DEF InHand
<1>3. /\ r.committed = r.spent + r.back + held
      /\ r.placed = 0 /\ r.rejected = 0 /\ r.removed = 0
  BY <1>1 DEF InHand, Unanswered
<1>4. NotResting(b2, h)
  <2>1. \A j \in DOMAIN b2.orders : j \in DOMAIN b.orders /\ b2.orders[j] = b.orders[j]
    BY DEF Without
  <2> QED BY <1>2, <2>1 DEF NotResting
<1>6. /\ r.committed \in Int /\ r.spent \in Int /\ r.back \in Int BY DEF RequestSet
<1>7. r2.committed = r.committed /\ r2.spent = r.spent + s /\ r2.back = r.back + 0
      /\ r2.placed = r.placed + 0 /\ r2.rejected = r.rejected + 0 /\ r2.removed = r.removed + 0
  BY DEF Moved
<1>8. /\ r2.committed = r2.spent + r2.back + (held - s)
      /\ r2.placed = 0 /\ r2.rejected = 0 /\ r2.removed = 0
  <2> HIDE DEF r, r2
  <2> QED BY <1>3, <1>6, <1>7
<1>9. InHand(b2, q, h, held - s, h) BY <1>2, <1>4, <1>8 DEF InHand, Unanswered
<1> QED BY <1>9 DEF ClientOK

\* The taker is refused and paid back.
LEMMA HandRefused ==
  ASSUME NEW b, NEW b2, NEW q, NEW h, h # 0, NEW held \in Int, NEW held2,
         b.requests[h] \in RequestSet,
         b2.requests[h] = Moved(b.requests[h], 0, 1, 0, 0, held), b2.orders = b.orders,
         ClientOK(b, q, h, held, h)
  PROVE  ClientOK(b2, q, 0, held2, h)
<1> DEFINE r == b.requests[h]
           r2 == b2.requests[h]
<1>1. InHand(b, q, h, held, h) BY HeldHere
<1>2. NotQueued(q, h) /\ NotResting(b2, h) BY <1>1 DEF InHand, NotResting
<1>3. /\ r.committed = r.spent + r.back + held
      /\ r.placed = 0 /\ r.rejected = 0 /\ r.removed = 0
  BY <1>1 DEF InHand, Unanswered
<1>6. /\ r.committed \in Int /\ r.spent \in Int /\ r.back \in Int BY DEF RequestSet
<1>7. r2.committed = r.committed /\ r2.spent = r.spent + 0 /\ r2.back = r.back + held
      /\ r2.placed = r.placed + 0 /\ r2.rejected = r.rejected + 1 /\ r2.removed = r.removed + 0
  BY DEF Moved
<1>8. /\ r2.committed = r2.spent + r2.back
      /\ r2.placed + r2.rejected = 1 /\ r2.placed = r2.removed
  <2> HIDE DEF r, r2
  <2> QED BY <1>3, <1>6, <1>7
<1>9. Over(b2, q, 0, h) BY <1>2, <1>8 DEF Over
<1> QED BY <1>9 DEF ClientOK

\* The taker comes to rest.
LEMMA HandRests ==
  ASSUME NEW b, NEW b2, NEW q, NEW h, h # 0, NEW held \in Int, NEW held2, NEW id, NEW o,
         b.requests[h] \in RequestSet, o.client = h, o.escrow = held,
         b2.requests[h] = Moved(b.requests[h], 1, 0, 0, 0, 0),
         b2.orders = [i \in DOMAIN b.orders \cup {id} |-> IF i = id THEN o ELSE b.orders[i]],
         ClientOK(b, q, h, held, h)
  PROVE  ClientOK(b2, q, 0, held2, h)
<1> DEFINE r == b.requests[h]
           r2 == b2.requests[h]
<1>1. InHand(b, q, h, held, h) BY HeldHere
<1>2. NotQueued(q, h) /\ NotResting(b, h) BY <1>1 DEF InHand
<1>3. /\ r.committed = r.spent + r.back + held
      /\ r.placed = 0 /\ r.rejected = 0 /\ r.removed = 0
  BY <1>1 DEF InHand, Unanswered
<1>6. /\ r.committed \in Int /\ r.spent \in Int /\ r.back \in Int BY DEF RequestSet
<1>7. r2.committed = r.committed /\ r2.spent = r.spent + 0 /\ r2.back = r.back + 0
      /\ r2.placed = r.placed + 1 /\ r2.rejected = r.rejected + 0 /\ r2.removed = r.removed + 0
  BY DEF Moved
<1>8. /\ r2.committed = r2.spent + r2.back + held
      /\ r2.placed = 1 /\ r2.rejected = 0 /\ r2.removed = 0
  <2> HIDE DEF r, r2
  <2> QED BY <1>3, <1>6, <1>7
<1>9. id \in DOMAIN b2.orders /\ b2.orders[id] = o OBVIOUS
<1>10. \A j \in DOMAIN b2.orders : b2.orders[j].client = h => j = id BY <1>2 DEF NotResting
<1>11. AtRest(b2, q, 0, h) BY <1>2, <1>8, <1>9, <1>10 DEF AtRest
<1> QED BY <1>11 DEF ClientOK

-----------------------------------------------------------------------------
(***************************************************************************)
(* How an offer moves on.                                                  *)
(***************************************************************************)
LEMMA ListsHere ==
  ASSUME NEW b, NEW q, NEW d, NEW dl, NEW tb, NEW i \in DOMAIN b.orders,
         DealOK(b, q, d, b.orders[i].deal, dl, tb)
  PROVE  Lists(b, q, d, b.orders[i].deal, dl, tb)
BY DEF DealOK, Sent, Waits, Matched, Answered, Stuck, Free, NotListed

LEMMA MatchedHere ==
  ASSUME NEW b, NEW q, NEW d, NEW dl, NEW tb, DealOK(b, q, d, d, dl, tb)
  PROVE  Matched(b, q, d, d, dl, tb)
BY DEF DealOK, Sent, Waits, Lists, Answered, Stuck, Free

\* A listed offer is answered and leaves.
LEMMA ListingEnds ==
  ASSUME NEW b, NEW b2, NEW q, NEW d, NEW d2, NEW x, NEW dl, NEW tb, NEW i, NEW msg,
         i \in DOMAIN b.orders, b.orders[i].deal = x,
         b2.orders = Without(b.orders, i), Sends(b, b2, x, msg),
         Answers(b2, x, msg), d2 # x, DealOK(b, q, d, x, dl, tb)
  PROVE  DealOK(b2, q, d2, x, dl, tb)
<1>1. Lists(b, q, d, x, dl, tb) BY ListsHere
<1>2. /\ NotWaiting(q, x) /\ b.out[x] = <<>> /\ Live(dl) /\ tb = <<>>
      /\ \A j \in DOMAIN b.orders : b.orders[j].deal = x => j = i
  BY <1>1 DEF Lists
<1>3. b2.out[x] = Append(<<>>, msg) BY <1>2 DEF Sends
<1>4. Len(b2.out[x]) = 1 /\ b2.out[x][1] = msg BY <1>3
<1>5. NotListed(b2, x)
  <2>1. \A j \in DOMAIN b2.orders : j \in DOMAIN b.orders /\ j # i /\ b2.orders[j] = b.orders[j]
    BY DEF Without
  <2> QED BY <1>2, <2>1 DEF NotListed
<1>6. Answered(b2, q, d2, x, dl, tb) BY <1>2, <1>4, <1>5 DEF Answered, Answers
<1> QED BY <1>6 DEF DealOK

\* The offer in hand is answered and never rests.
LEMMA MatchEnds ==
  ASSUME NEW b, NEW b2, NEW q, NEW d, NEW dl, NEW tb, NEW d2, d2 # d, NEW msg,
         NotListed(b, d) => NotListed(b2, d), Sends(b, b2, d, msg),
         Answers(b2, d, msg), DealOK(b, q, d, d, dl, tb)
  PROVE  DealOK(b2, q, d2, d, dl, tb)
<1>1. Matched(b, q, d, d, dl, tb) BY MatchedHere
<1>2. /\ NotWaiting(q, d) /\ b.out[d] = <<>> /\ Live(dl) /\ tb = <<>> /\ NotListed(b2, d)
  BY <1>1 DEF Matched
<1>3. b2.out[d] = Append(<<>>, msg) BY <1>2 DEF Sends
<1>4. Len(b2.out[d]) = 1 /\ b2.out[d][1] = msg BY <1>3
<1>5. Answered(b2, q, d2, d, dl, tb) BY <1>2, <1>4 DEF Answered, Answers
<1> QED BY <1>2, <1>5 DEF DealOK

\* The offer in hand comes to rest.
LEMMA MatchRests ==
  ASSUME NEW b, NEW b2, NEW q, NEW d, NEW dl, NEW tb, NEW d2, d2 # d, NEW id, NEW o, o.deal = d,
         b2.orders = [i \in DOMAIN b.orders \cup {id} |-> IF i = id THEN o ELSE b.orders[i]],
         b2.out[d] = b.out[d], DealOK(b, q, d, d, dl, tb)
  PROVE  DealOK(b2, q, d2, d, dl, tb)
<1>1. Matched(b, q, d, d, dl, tb) BY MatchedHere
<1>2. /\ NotWaiting(q, d) /\ b2.out[d] = <<>> /\ Live(dl) /\ tb = <<>> /\ NotListed(b, d)
  BY <1>1 DEF Matched
<1>3. id \in DOMAIN b2.orders /\ b2.orders[id] = o OBVIOUS
<1>4. \A j \in DOMAIN b2.orders : b2.orders[j].deal = d => j = id BY <1>2 DEF NotListed
<1>5. Lists(b2, q, d2, d, dl, tb) BY <1>2, <1>3, <1>4 DEF Lists
<1> QED BY <1>5 DEF DealOK

-----------------------------------------------------------------------------
(***************************************************************************)
(* The ledger under a removal and under a fill.                            *)
(***************************************************************************)
LEMMA WithoutClient ==
  ASSUME NEW b, NEW b2, NEW i, NEW c, b2.orders = Without(b.orders, i),
         i \in DOMAIN b.orders => b.orders[i].client # c, b2.requests[c] = b.requests[c]
  PROVE  ClientUntouched(b, b2, c)
<1>1. /\ DOMAIN b2.orders = DOMAIN b.orders \ {i}
      /\ \A j \in DOMAIN b2.orders : b2.orders[j] = b.orders[j] BY DEF Without
<1> QED BY <1>1 DEF ClientUntouched

LEMMA WithoutDeal ==
  ASSUME NEW b, NEW b2, NEW i, NEW x, b2.orders = Without(b.orders, i),
         i \in DOMAIN b.orders => b.orders[i].deal # x,
         b2.out[x] = b.out[x], b2.handoverBuyer[x] = b.handoverBuyer[x]
  PROVE  DealUntouched(b, b2, x)
<1>1. /\ DOMAIN b2.orders = DOMAIN b.orders \ {i}
      /\ \A j \in DOMAIN b2.orders : b2.orders[j] = b.orders[j] BY DEF Without
<1> QED BY <1>1 DEF DealUntouched

LEMMA ClosedWay ==
  ASSUME NEW out, out = <<>>, NEW n, NEW msg, msg.kind = "closed"
  PROVE  Way(Append(out, msg), <<>>, n) = Way(out, <<>>, n)
<1>1. Append(out, msg)[1] = msg OBVIOUS
<1> QED BY <1>1 DEF Way

LEMMA LedgerLeaves ==
  ASSUME NEW b, NEW b2, NEW q, NEW h, NEW held, NEW d, NEW dls, NEW tbs,
         Stored(b), NEW i \in DOMAIN b.orders, Leaves(b, b2, i),
         Ledger(b, q, h, held, d, dls, tbs)
  PROVE  Ledger(b2, q, h, held, d, dls, tbs)
<1> DEFINE o == b.orders[i]
           c == o.client
<1>1. /\ b.requests \in Seq(RequestSet) /\ b.out \in [Deals -> Seq(OutMsgs)]
  BY DEF Stored, BookShape
<1>2. o \in OrderSet /\ Sides(b, o) BY OrderOf DEF Stored
<1>3. o.isBuy \in BOOLEAN /\ o.escrow \in Int BY <1>2 DEF OrderSet
<1>4. SameNotes(b, b2) /\ b2.orders = Without(b.orders, i) /\ Frame(b, b2) /\ NoFill(b, b2)
  BY LeavesStored, LeavesTouches
<1>5. b2.landed = b.landed /\ b2.repaid = b.repaid /\ b2.handoverBuyer = b.handoverBuyer
  BY <1>4 DEF Frame, NoFill
<1>6. DOMAIN b2.requests = DOMAIN b.requests BY <1>4 DEF SameNotes
<1>7. /\ \A k \in DOMAIN b.requests : ClientOK(b, q, h, held, k)
      /\ \A x \in Deals : DealOK(b, q, d, x, dls[x], tbs[x])
      /\ \A n \in Notes : Balanced(b, tbs, n)
  BY DEF Ledger
<1>8. CASE o.isBuy
  <2>1. BidLeaves(b, b2, i) BY <1>8 DEF Leaves
  <2>2. b2.out = b.out /\ Notified(b, b2, c, 0, 0, 1, 0, o.escrow) BY <2>1 DEF BidLeaves
  <2>3. c \in DOMAIN b.requests /\ o.deal = NoDeal BY <1>2, <1>8 DEF Sides
  <2> HIDE DEF o, c
  <2>4. /\ b2.requests[c] = Moved(b.requests[c], 0, 0, 1, 0, o.escrow)
        /\ \A x \in DOMAIN b.requests : x # c => b2.requests[x] = b.requests[x]
    BY <1>1, <2>2, <2>3 DEF Notified
  <2>5. b.requests[c] \in RequestSet BY <1>1, <2>3
  <2>6. ASSUME NEW k \in DOMAIN b.requests PROVE ClientOK(b2, q, h, held, k)
    <3>1. CASE k = c
      <4>1. o.escrow = 0 + o.escrow BY <1>3
      <4>2. ClientOK(b, q, h, held, c) BY <1>7, <2>3
      <4> DEFINE k0 == o.escrow
      <4>3. /\ b.orders[i].client \in DOMAIN b.requests
            /\ b.requests[b.orders[i].client] \in RequestSet
            /\ b.orders[i].escrow = 0 + k0 /\ k0 \in Int /\ 0 \in Int
            /\ b2.requests[b.orders[i].client] = Moved(b.requests[b.orders[i].client], 0, 0, 1, 0, k0)
            /\ ClientOK(b, q, h, held, b.orders[i].client)
        BY <1>3, <2>3, <2>4, <2>5, <4>1, <4>2 DEF o, c
      <4> HIDE DEF k0
      <4>4. ClientOK(b2, q, h, held, b.orders[i].client) BY <1>4, <4>3, RestEnds
      <4> QED BY <3>1, <4>4 DEF c, o
    <3>2. CASE k # c
      <4>1. ClientUntouched(b, b2, k) BY <1>4, <2>4, <3>2, WithoutClient DEF o, c
      <4> QED BY <1>7, <4>1, ClientKept
    <3> QED BY <3>1, <3>2
  <2>7. ASSUME NEW x \in Deals PROVE DealOK(b2, q, d, x, dls[x], tbs[x])
    <3>1. DealUntouched(b, b2, x) BY <1>4, <1>5, <2>2, <2>3, WithoutDeal, BookAssumption DEF o
    <3> QED BY <1>7, <3>1, DealKept
  <2>8. ASSUME NEW n \in Notes PROVE Balanced(b2, tbs, n)
    <3>1. \A k \in DOMAIN b.requests : b2.requests[k].spent = b.requests[k].spent
      <4>1. b.requests[c].spent \in Int BY <2>5 DEF RequestSet
      <4>2. b2.requests[c].spent = b.requests[c].spent + 0 BY <2>4 DEF Moved
      <4> QED BY <2>4, <4>1, <4>2
    <3> QED BY <1>1, <1>4, <1>5, <1>7, <2>2, <3>1, BalancedKept
  <2> QED BY <1>6, <2>6, <2>7, <2>8 DEF Ledger
<1>9. CASE ~o.isBuy
  <2> DEFINE y == o.deal
             msg == [kind |-> "closed"]
  <2>1. AskLeaves(b, b2, i) BY <1>9 DEF Leaves
  <2>2. b2.requests = b.requests /\ b2.out = [b.out EXCEPT ![y] = Append(@, msg)]
    BY <2>1 DEF AskLeaves
  <2>3. y \in Deals /\ c = 0 BY <1>2, <1>9 DEF Sides
  <2>4. b2.out[y] = Append(b.out[y], msg) /\ \A x \in Deals : x # y => b2.out[x] = b.out[x]
    BY <1>1, <2>2, <2>3
  <2>5. DealOK(b, q, d, y, dls[y], tbs[y]) BY <1>7, <2>3
  <2>6. d # y /\ b.out[y] = <<>> /\ tbs[y] = <<>>
    <3>1. Lists(b, q, d, y, dls[y], tbs[y]) BY <2>5, ListsHere
    <3> QED BY <3>1 DEF Lists
  <2>7. Answers(b2, y, msg) BY DEF Answers
  <2>8. msg.kind = "closed" OBVIOUS
  <2> HIDE DEF msg
  <2>9. DealOK(b2, q, d, y, dls[y], tbs[y])
    <3>1. b2.orders = Without(b.orders, i) /\ b.orders[i].deal = y BY <1>4
    <3> HIDE DEF y
    <3>2. Sends(b, b2, y, msg) BY <2>4 DEF Sends
    <3> QED BY <2>5, <2>6, <2>7, <3>1, <3>2, ListingEnds
  <2> HIDE DEF o, c, y
  <2>10. ASSUME NEW k \in DOMAIN b.requests PROVE ClientOK(b2, q, h, held, k)
    <3>1. k # 0 BY <1>1, RequestNumbers
    <3>2. ClientUntouched(b, b2, k) BY <1>4, <2>2, <2>3, <3>1, WithoutClient DEF o, c
    <3> QED BY <1>7, <3>2, ClientKept
  <2>11. ASSUME NEW x \in Deals PROVE DealOK(b2, q, d, x, dls[x], tbs[x])
    <3>1. CASE x = y BY <2>9, <3>1
    <3>2. CASE x # y
      <4>1. DealUntouched(b, b2, x) BY <1>4, <1>5, <2>4, <3>2, WithoutDeal DEF o, y
      <4> QED BY <1>7, <4>1, DealKept
    <3> QED BY <3>1, <3>2
  <2>12. ASSUME NEW n \in Notes PROVE Balanced(b2, tbs, n)
    <3>1. \A x \in Deals : Way(b2.out[x], tbs[x], n) = Way(b.out[x], tbs[x], n)
      <4>1. Way(Append(b.out[y], msg), <<>>, n) = Way(b.out[y], <<>>, n)
        BY <2>6, <2>8, ClosedWay
      <4> QED BY <2>4, <2>6, <4>1
    <3>2. \A k \in DOMAIN b.requests : b2.requests[k].spent = b.requests[k].spent BY <2>2
    <3> QED BY <1>1, <1>4, <1>5, <1>7, <3>1, <3>2, BalancedKept
  <2> QED BY <1>6, <2>10, <2>11, <2>12 DEF Ledger
<1> QED BY <1>3, <1>8, <1>9

LEMMA WayInt ==
  ASSUME NEW b, NEW q, NEW d, NEW x, NEW dl, NEW tb, NEW n,
         b.out[x] \in Seq(OutMsgs), DealOK(b, q, d, x, dl, tb)
  PROVE  Way(b.out[x], tb, n) \in Int
<1> DEFINE out == b.out[x]
<1>1. out # <<>> => out[1] \in OutMsgs OBVIOUS
<1>2. ASSUME out # <<>>, out[1].kind = "handover" PROVE out[1].paid \in Int
  BY <1>1, <1>2 DEF OutMsgs, Handovers
<1>3. ASSUME tb # <<>>, tb[1].kind = "bounced" PROVE tb[1].paid \in Int
  <2>1. CASE Sent(b, q, d, x, dl, tb)
    <3>1. tb[1] \in OfferMsgs \/ tb[1] = Accepted BY <2>1 DEF Sent
    <3> QED BY <1>3, <3>1 DEF OfferMsgs, Accepted
  <2>2. CASE Stuck(b, q, d, x, dl, tb)
    <3>1. tb[1] \in Bounced BY <1>3, <2>2 DEF Stuck
    <3> QED BY <3>1 DEF Bounced
  <2>3. CASE Free(b, q, d, x, dl, tb)
    <3>1. tb[1] = Accepted BY <1>3, <2>3 DEF Free
    <3> QED BY <1>3, <3>1 DEF Accepted
  <2> QED BY <1>3, <2>1, <2>2, <2>3 DEF DealOK, Waits, Matched, Lists, Answered
<1> QED BY <1>2, <1>3 DEF Way

\* A fill's money leaves the request and is on its way.
LEMMA BalancedFill ==
  ASSUME NEW b, NEW b2, NEW tbs, NEW n \in Notes, NEW c \in DOMAIN b.requests, NEW cost \in Int,
         NEW y \in Deals, NEW msg,
         Stored(b), SameNotes(b, b2),
         Pays(b, b2, c, cost),
         \A k \in DOMAIN b.requests : k # c => b2.requests[k] = b.requests[k],
         \A x \in Deals : Way(b.out[x], tbs[x], n) \in Int,
         b.out[y] = <<>>, tbs[y] = <<>>, Sends(b, b2, y, msg),
         \A x \in Deals : x # y => b2.out[x] = b.out[x],
         msg.kind = "handover", msg.buyer = b.requests[c].note, msg.paid = cost,
         b2.landed = b.landed, b2.repaid = b.repaid, Balanced(b, tbs, n)
  PROVE  Balanced(b2, tbs, n)
<1> DEFINE S == RequestsOf(b, n)
           f == Spent(b)
           f2 == Spent(b2)
           w == Ways(b, tbs, n)
           w2 == Ways(b2, tbs, n)
           mine == b.requests[c].note = n
           moved == IF mine THEN cost ELSE 0
<1>0. /\ b.requests \in Seq(RequestSet) /\ b2.requests \in Seq(RequestSet)
      /\ DOMAIN b2.requests = DOMAIN b.requests /\ b.out \in [Deals -> Seq(OutMsgs)]
      /\ b.landed[n] \in Int /\ b.repaid[n] \in Int
  BY DEF Stored, BookShape, SameNotes
<1>1. RequestsOf(b2, n) = S BY DEF RequestsOf, SameNotes
<1>2. IsFiniteSet(S) /\ S \in SUBSET DOMAIN b.requests BY <1>0, RequestNumbers DEF RequestsOf
<1>3. \A k \in S : f[k] \in Int /\ f2[k] \in Int BY <1>0, <1>2, RequestNumbers
<1>4. \A k \in S \ {c} : f[k] = f2[k] BY <1>0, <1>2 DEF Spent
<1>5. Sum(f2, S) = Sum(f, S) + moved /\ Sum(f, S) \in Int
  <2>1. Sum(f, S) \in Int BY <1>2, <1>3, SumInt
  <2>2. CASE mine
    <3>1. c \in S BY <2>2 DEF RequestsOf
    <3>2. f[c] = b.requests[c].spent /\ f2[c] = b2.requests[c].spent BY <1>0 DEF Spent
    <3>3. f[c] \in Int /\ f2[c] \in Int BY <1>3, <3>1
    <3>4. f2[c] = f[c] + cost BY <3>2 DEF Pays
    <3> HIDE DEF f, f2, S
    <3>5. Sum(f2, S) = Sum(f, S) - f[c] + f2[c] BY <1>2, <1>3, <1>4, <3>1, SumChange
    <3> QED BY <2>1, <2>2, <3>3, <3>4, <3>5
  <2>3. CASE ~mine
    <3>1. c \notin S BY <2>3 DEF RequestsOf
    <3>2. \A k \in S : f[k] = f2[k] BY <1>4, <3>1
    <3> HIDE DEF f, f2, S
    <3>3. Sum(f, S) = Sum(f2, S) BY <1>2, <3>2, SumSame
    <3> QED BY <2>1, <2>3, <3>3
  <2> QED BY <2>2, <2>3
<1>6. w[y] = 0 /\ w2[y] = moved
  <2>1. w[y] = Way(<<>>, <<>>, n) BY DEF Ways
  <2>2. b2.out[y] = Append(<<>>, msg) BY DEF Sends
  <2>3. w2[y] = Way(Append(<<>>, msg), <<>>, n) BY <2>2 DEF Ways
  <2>4. Append(<<>>, msg)[1] = msg /\ Append(<<>>, msg) # <<>> OBVIOUS
  <2> HIDE DEF w, w2
  <2> QED BY <2>1, <2>3, <2>4 DEF Way
<1>7. \A x \in Deals \ {y} : w[x] = w2[x] BY <1>0 DEF Ways
<1>8. \A x \in Deals : w[x] \in Int BY DEF Ways
<1> HIDE DEF w, w2, f, f2, S
<1>9. \A x \in Deals : w[x] \in Int /\ w2[x] \in Int BY <1>6, <1>7, <1>8
<1>10. Sum(w2, Deals) = Sum(w, Deals) - w[y] + w2[y]
  <2>1. IsFiniteSet(Deals) BY BookAssumption
  <2> QED BY <1>7, <1>9, <2>1, SumChange
<1>11. Sum(w, Deals) \in Int BY <1>8, SumInt, BookAssumption
<1>12. moved \in Int OBVIOUS
<1>13. Sum(f, S) = b.landed[n] + b.repaid[n] + Sum(w, Deals) BY DEF Balanced, f, S, w
<1> HIDE DEF moved
<1>14. Sum(f2, S) = b.landed[n] + b.repaid[n] + Sum(w2, Deals)
  BY <1>0, <1>5, <1>6, <1>10, <1>11, <1>12, <1>13
<1>15. Sum(f2, RequestsOf(b2, n)) = Sum(f2, S) BY <1>1, Zenon
<1> QED BY <1>14, <1>15 DEF Balanced, f2, w2

LEMMA FillFits ==
  ASSUME NEW m, NEW taker, NEW i, NEW trade, Facing(m, taker, i, trade), trade >= 2,
         trade <= AskTicks[Serving(taker, m.book.orders[i])]
  PROVE  FitsDeal(Serving(taker, m.book.orders[i]), HandoverOf(taker, m.book.orders[i], trade))
<1> DEFINE maker == m.book.orders[i]
           d == Serving(taker, maker)
           msg == HandoverOf(taker, maker, trade)
           buy == Buying(taker, maker)
<1>1. d \in Deals /\ Clearing(taker, maker) = AskPrice[d] BY FacingFacts
<1>2. AskTicks[d] \in Nat BY <1>1, BookAssumption
<1>3. msg.paid = Debit(trade, Clearing(taker, maker), buy.flags) /\ msg.sub = IsSub(buy.flags)
  BY DEF HandoverOf, Cost
<1> HIDE DEF msg, buy
<1>4. msg.paid = trade * Unit(AskPrice[d]) + (IF msg.sub THEN 2 * AskPrice[d] ELSE 0)
  BY <1>1, <1>3 DEF Debit
<1>5. trade \in 2..AskTicks[d] BY <1>2 DEF Facing
<1> HIDE DEF d
<1>6. FitsDeal(d, msg) BY <1>4, <1>5 DEF FitsDeal
<1> QED BY <1>6 DEF d, msg

\* A fill: the buyer's request pays, the offer is answered with a hand-over.
LEMMA LedgerFills ==
  ASSUME NEW m, NEW b2, NEW taker, NEW i, NEW trade, Facing(m, taker, i, trade),
         Fills(m, b2, taker, i, trade), trade >= 2,
         trade <= AskTicks[Serving(taker, m.book.orders[i])],
         NEW q, NEW dls, NEW tbs,
         Ledger(m.book, q, taker.client, m.leftover, taker.deal, dls, tbs)
  PROVE  Ledger(b2, q, taker.client,
                IF taker.isBuy THEN m.leftover - Cost(taker, m.book.orders[i], trade) ELSE m.leftover,
                NoDeal, dls, tbs)
<1> DEFINE b == m.book
           maker == b.orders[i]
           h == taker.client
           held == m.leftover
           d == taker.deal
           cost == Cost(taker, maker, trade)
           held2 == IF taker.isBuy THEN held - cost ELSE held
           y == Serving(taker, maker)
           buy == Buying(taker, maker)
           c == buy.client
           msg == HandoverOf(taker, maker, trade)
<1>1. /\ y \in Deals /\ cost \in Int /\ c \in DOMAIN b.requests
      /\ b.requests[c].note = buy.note /\ taker.isBuy \in BOOLEAN
      /\ maker.isBuy = ~taker.isBuy /\ maker \in OrderSet /\ Sides(b, maker)
  BY FacingFacts
<1>2. Stored(b) /\ Taking(b, taker) /\ i \in DOMAIN b.orders /\ trade \in Int /\ held \in Int
  BY DEF Facing
<1>3. Sides(b, taker) BY <1>2 DEF Taking
<1>4. /\ b.requests \in Seq(RequestSet) /\ b.out \in [Deals -> Seq(OutMsgs)]
      /\ b.handoverBuyer \in [Deals -> Notes \cup {NoNote}] BY <1>2 DEF Stored, BookShape
<1>5. SameNotes(b, b2) BY FillsStored
<1>6. Settles(m, b2, taker, i, trade) BY <1>2, FillsTouches
<1>7. /\ Frame(b, b2) /\ b2.handoverBuyer = [b.handoverBuyer EXCEPT ![y] = buy.note]
      /\ b2.out = [b.out EXCEPT ![y] = Append(@, msg)]
  BY <1>6 DEF Settles
<1>8. /\ \A k \in DOMAIN b.requests : ClientOK(b, q, h, held, k)
      /\ \A x \in Deals : DealOK(b, q, d, x, dls[x], tbs[x])
      /\ \A n \in Notes : Balanced(b, tbs, n)
  BY DEF Ledger
<1>9. msg.kind = "handover" /\ msg.buyer = buy.note /\ msg.paid = cost BY DEF HandoverOf
<1>10. FitsDeal(y, msg) BY FillFits
<1>11. DOMAIN b2.requests = DOMAIN b.requests BY <1>5 DEF SameNotes
<1>12. b.requests[c] \in RequestSet /\ maker.escrow \in Int BY <1>1, <1>4 DEF OrderSet
<1>13. 0 \notin DOMAIN b.requests BY <1>4, RequestNumbers
<1>14. taker.isBuy => c = h /\ y = maker.deal /\ d = NoDeal /\ maker.client = 0
  BY <1>1, <1>3 DEF Buying, Serving, Sides
<1>15. ~taker.isBuy => c = maker.client /\ y = d /\ h = 0 /\ maker.deal = NoDeal
  BY <1>1, <1>3 DEF Buying, Serving, Sides
<1>16. NoDeal \notin Deals BY BookAssumption
<1> HIDE DEF b, maker, h, held, d, cost, y, buy, c, msg
<1>17. /\ Touches(b, b2, i)
       /\ i \in DOMAIN b2.orders => /\ ~taker.isBuy /\ b2.orders[i].client = maker.client
                                   /\ b2.orders[i].deal = maker.deal
  <2>1. Touches(b, b2, i) BY <1>2, FillsTouches DEF b
  <2>2. CASE taker.isBuy
    <3>1. b2.orders = Without(b.orders, i) BY <2>2 DEF Fills, AskTaken, b
    <3> QED BY <2>1, <3>1 DEF Without
  <2>3. CASE ~taker.isBuy /\ b2.orders = Without(b.orders, i) BY <2>1, <2>3 DEF Without
  <2>4. CASE ~taker.isBuy /\ b2.orders # Without(b.orders, i)
    <3> DEFINE e2 == maker.escrow - cost
               a2 == maker.amount - trade
    <3>1. BidShrinks(m, b2, taker, i, trade) BY <2>4 DEF Fills, BidTaken, b
    <3>2. b2.orders = [b.orders EXCEPT ![i] = [@ EXCEPT !.escrow = e2, !.amount = a2]]
      BY <3>1 DEF BidShrinks, b, maker, cost
    <3> HIDE DEF e2, a2
    <3>3. b2.orders[i] = [maker EXCEPT !.escrow = e2, !.amount = a2] BY <1>2, <3>2 DEF maker
    <3>4. b2.orders[i].client = maker.client /\ b2.orders[i].deal = maker.deal
      BY <1>1, <3>3 DEF OrderSet
    <3> QED BY <2>1, <2>4, <3>4
  <2> QED BY <1>1, <2>2, <2>3, <2>4
<1>18. \A k \in DOMAIN b.requests : k # c => b2.requests[k] = b.requests[k]
  <2>1. CASE taker.isBuy
    <3>1. Notified(b, b2, h, 0, 0, 0, cost, 0) BY <2>1 DEF Fills, AskTaken, b, h, cost, maker
    <3> QED BY <1>14, <2>1, <3>1 DEF Notified
  <2>2. CASE ~taker.isBuy /\ maker.amount = trade
    <3>1. Notified(b, b2, maker.client, 0, 0, 1, cost, maker.escrow - cost)
      BY <2>2 DEF Fills, BidTaken, b, cost, maker
    <3> QED BY <1>15, <2>2, <3>1 DEF Notified
  <2>3. CASE ~taker.isBuy /\ maker.amount # trade
    <3>1. Notified(b, b2, maker.client, 0, 0, 0, cost, 0)
      BY <2>3 DEF Fills, BidShrinks, b, cost, maker
    <3> QED BY <1>15, <2>3, <3>1 DEF Notified
  <2> QED BY <1>1, <2>1, <2>2, <2>3
<1>19. ClientOK(b2, q, h, held2, c) /\ Pays(b, b2, c, cost)
  <2>0. ClientOK(b, q, h, held, c) BY <1>1, <1>8
  <2>1. CASE taker.isBuy
    <3>1. /\ Notified(b, b2, c, 0, 0, 0, cost, 0) /\ b2.orders = Without(b.orders, i)
      BY <1>14, <2>1 DEF Fills, AskTaken, b, h, cost, maker
    <3>2. b2.requests[c] = Moved(b.requests[c], 0, 0, 0, cost, 0) BY <1>1, <3>1 DEF Notified
    <3>3. c = h /\ ClientOK(b, q, h, held, h) /\ held \in Int /\ cost \in Int
          /\ b.requests[h] \in RequestSet /\ b2.requests[h] = Moved(b.requests[h], 0, 0, 0, cost, 0)
      BY <1>1, <1>2, <1>12, <1>14, <2>0, <2>1, <3>2
    <3>4. ClientOK(b2, q, h, held - cost, h) BY <3>1, <3>3, HandSpends
    <3>5. Pays(b, b2, c, cost) BY <3>2 DEF Pays, Moved
    <3> QED BY <2>1, <3>3, <3>4, <3>5
  <2>2. CASE ~taker.isBuy /\ maker.amount = trade
    <3> DEFINE k0 == maker.escrow - cost
    <3>1. /\ Notified(b, b2, c, 0, 0, 1, cost, k0) /\ b2.orders = Without(b.orders, i)
      BY <1>15, <2>2 DEF Fills, BidTaken, b, cost, maker
    <3>2. b2.requests[c] = Moved(b.requests[c], 0, 0, 1, cost, k0)
      <4> HIDE DEF k0
      <4> QED BY <1>1, <3>1 DEF Notified
    <3>3. k0 \in Int /\ maker.escrow = cost + k0 BY <1>1, <1>12
    <3> HIDE DEF k0
    <3>4. /\ b.orders[i].client \in DOMAIN b.requests
          /\ b.requests[b.orders[i].client] \in RequestSet
          /\ b.orders[i].escrow = cost + k0
          /\ b2.requests[b.orders[i].client] = Moved(b.requests[b.orders[i].client], 0, 0, 1, cost, k0)
          /\ ClientOK(b, q, h, held, b.orders[i].client)
      BY <1>1, <1>12, <1>15, <2>0, <2>2, <3>2, <3>3 DEF maker
    <3>5. ClientOK(b2, q, h, held2, b.orders[i].client)
      <4> HIDE DEF held2
      <4>1. cost \in Int /\ i \in DOMAIN b.orders /\ b2.orders = Without(b.orders, i)
        BY <1>1, <1>2, <3>1
      <4> QED BY <3>3, <3>4, <4>1, RestEnds
    <3>6. Pays(b, b2, c, cost) BY <3>2 DEF Pays, Moved
    <3> QED BY <1>15, <2>2, <3>5, <3>6 DEF maker
  <2>3. CASE ~taker.isBuy /\ maker.amount # trade
    <3> DEFINE e2 == maker.escrow - cost
               a2 == maker.amount - trade
               o == [maker EXCEPT !.escrow = e2, !.amount = a2]
    <3>1. /\ Notified(b, b2, c, 0, 0, 0, cost, 0) /\ b2.orders = [b.orders EXCEPT ![i] = o]
      BY <1>15, <2>3 DEF Fills, BidShrinks, b, cost, maker
    <3>2. b2.requests[c] = Moved(b.requests[c], 0, 0, 0, cost, 0) BY <1>1, <3>1 DEF Notified
    <3>3. o.client = maker.client /\ o.escrow = maker.escrow - cost
      <4> HIDE DEF a2, e2
      <4>1. o.client = maker.client /\ o.escrow = e2 BY <1>1 DEF OrderSet
      <4> QED BY <4>1 DEF e2
    <3> HIDE DEF o
    <3>4. /\ b.orders[i].client \in DOMAIN b.requests
          /\ b.requests[b.orders[i].client] \in RequestSet
          /\ b.orders[i].escrow \in Int /\ o.escrow = b.orders[i].escrow - cost
          /\ o.client = b.orders[i].client
          /\ b2.requests[b.orders[i].client] = Moved(b.requests[b.orders[i].client], 0, 0, 0, cost, 0)
          /\ ClientOK(b, q, h, held, b.orders[i].client)
      BY <1>1, <1>12, <1>15, <2>0, <2>3, <3>2, <3>3 DEF maker
    <3>5. ClientOK(b2, q, h, held2, b.orders[i].client)
      <4> HIDE DEF held2, e2, a2
      <4>1. cost \in Int /\ i \in DOMAIN b.orders /\ b2.orders = [b.orders EXCEPT ![i] = o]
        BY <1>1, <1>2, <3>1
      <4> QED BY <3>4, <4>1, RestShrinks
    <3>6. Pays(b, b2, c, cost) BY <3>2 DEF Pays, Moved
    <3> QED BY <1>15, <2>3, <3>5, <3>6 DEF maker
  <2> QED BY <1>1, <2>1, <2>2, <2>3
<1>20. ASSUME NEW k \in DOMAIN b.requests PROVE ClientOK(b2, q, h, held2, k)
  <2>1. CASE k = c BY <1>19, <2>1
  <2>2. CASE k # c
    <3>1. maker.client # k BY <1>1, <1>13, <1>14, <1>15, <2>2
    <3>2. ClientUntouched(b, b2, k)
      BY <1>18, <1>17, <2>2, <3>1 DEF ClientUntouched, Touches, maker
    <3>3. k # h BY <1>1, <1>13, <1>14, <1>15, <2>2
    <3> QED BY <1>8, <3>2, <3>3, ClientKept
  <2> QED BY <2>1, <2>2
<1>21. /\ Sends(b, b2, y, msg) /\ b2.handoverBuyer[y] = buy.note
       /\ \A x \in Deals : x # y => b2.out[x] = b.out[x] /\ b2.handoverBuyer[x] = b.handoverBuyer[x]
  BY <1>1, <1>4, <1>7 DEF Sends
<1>22. Answers(b2, y, msg) BY <1>9, <1>10, <1>21 DEF Answers
<1>23. DealOK(b, q, d, y, dls[y], tbs[y]) BY <1>1, <1>8
<1>24. DealOK(b2, q, NoDeal, y, dls[y], tbs[y]) /\ b.out[y] = <<>> /\ tbs[y] = <<>>
  <2>0. y # NoDeal BY <1>1, <1>16
  <2>1. CASE taker.isBuy
    <3>1. b2.orders = Without(b.orders, i) /\ b.orders[i].deal = y
      BY <1>14, <2>1 DEF Fills, AskTaken, b, maker
    <3>2. DealOK(b2, q, NoDeal, y, dls[y], tbs[y])
      BY <1>2, <1>21, <1>22, <1>23, <2>0, <3>1, ListingEnds
    <3>3. Lists(b, q, d, y, dls[y], tbs[y]) BY <1>2, <1>23, <3>1, ListsHere
    <3> QED BY <3>2, <3>3 DEF Lists
  <2>2. CASE ~taker.isBuy
    <3>1. y = d BY <1>15, <2>2
    <3>2. NotListed(b, d) => NotListed(b2, d)
      BY <1>1, <1>15, <1>16, <1>17, <2>2, <3>1 DEF NotListed, Touches
    <3>3. DealOK(b2, q, NoDeal, d, dls[d], tbs[d])
      BY <1>21, <1>22, <1>23, <2>0, <3>1, <3>2, MatchEnds
    <3>4. Matched(b, q, d, d, dls[d], tbs[d]) BY <1>23, <3>1, MatchedHere
    <3> QED BY <3>1, <3>3, <3>4 DEF Matched
  <2> QED BY <1>1, <2>1, <2>2
<1>25. ASSUME NEW x \in Deals PROVE DealOK(b2, q, NoDeal, x, dls[x], tbs[x])
  <2>1. CASE x = y BY <1>24, <2>1
  <2>2. CASE x # y
    <3>1. maker.deal # x /\ x # d /\ x # NoDeal BY <1>1, <1>14, <1>15, <1>16, <2>2
    <3>2. DealUntouched(b, b2, x)
      BY <1>17, <1>21, <2>2, <3>1 DEF DealUntouched, Touches, maker
    <3> QED BY <1>8, <3>1, <3>2, DealKept
  <2> QED BY <2>1, <2>2
<1>26. ASSUME NEW n \in Notes PROVE Balanced(b2, tbs, n)
  <2>1. \A x \in Deals : Way(b.out[x], tbs[x], n) \in Int BY <1>4, <1>8, WayInt
  <2>2. b2.landed = b.landed /\ b2.repaid = b.repaid BY <1>7 DEF Frame
  <2>3. Balanced(b, tbs, n) BY <1>8
  <2>4. msg.buyer = b.requests[c].note BY <1>1, <1>9
  <2>5. \A x \in Deals : x # y => b2.out[x] = b.out[x] BY <1>21
  <2> QED BY <1>1, <1>2, <1>5, <1>9, <1>18, <1>19, <1>21, <1>24, <2>1, <2>2, <2>3, <2>4, <2>5, BalancedFill
<1>27. Ledger(b2, q, h, held2, NoDeal, dls, tbs) BY <1>11, <1>20, <1>25, <1>26 DEF Ledger
<1> QED BY <1>27 DEF h, held, cost, maker, b

-----------------------------------------------------------------------------
(***************************************************************************)
(* The ledger when the taker ends.                                         *)
(***************************************************************************)
LEMMA LedgerRefused ==
  ASSUME NEW b, NEW b2, NEW q, NEW h, NEW held \in Int, NEW dls, NEW tbs, Stored(b),
         h \in DOMAIN b.requests, Refused(b, b2, h, held),
         Ledger(b, q, h, held, NoDeal, dls, tbs)
  PROVE  Ledger(b2, q, 0, 0, NoDeal, dls, tbs) /\ Stored(b2) /\ SameNotes(b, b2)
<1>1. b.requests \in Seq(RequestSet) BY DEF Stored, BookShape
<1>2. /\ Frame(b, b2) /\ NoFill(b, b2) /\ b2.out = b.out /\ b2.orders = b.orders
      /\ Notified(b, b2, h, 0, 1, 0, 0, held)
  BY DEF Refused
<1>3. SameNotes(b, b2) BY <1>1, <1>2, NotifiedKeeps
<1>4. Stored(b2)
  <2>1. /\ DOMAIN b2.orders \subseteq 1..(b.nextOrderId - 1)
        /\ b2.orders \in [DOMAIN b2.orders -> OrderSet]
        /\ \A i \in DOMAIN b2.orders : Sides(b, b2.orders[i])
        /\ b2.out \in [Deals -> Seq(OutMsgs)]
        /\ b2.handoverBuyer \in [Deals -> Notes \cup {NoNote}]
        /\ b2.trades \in Seq(FillSet)
    BY <1>2 DEF Stored, BookShape, NoFill
  <2> QED BY <1>2, <1>3, <2>1, StoredBy
<1>5. /\ b2.requests[h] = Moved(b.requests[h], 0, 1, 0, 0, held)
      /\ \A x \in DOMAIN b.requests : x # h => b2.requests[x] = b.requests[x]
  BY <1>1, <1>2 DEF Notified
<1>6. b.requests[h] \in RequestSet /\ h # 0 /\ 0 \notin DOMAIN b.requests
  BY <1>1, RequestNumbers
<1>7. /\ \A k \in DOMAIN b.requests : ClientOK(b, q, h, held, k)
      /\ \A x \in Deals : DealOK(b, q, NoDeal, x, dls[x], tbs[x])
      /\ \A n \in Notes : Balanced(b, tbs, n)
  BY DEF Ledger
<1>8. ASSUME NEW k \in DOMAIN b.requests PROVE ClientOK(b2, q, 0, 0, k)
  <2>1. CASE k = h
    <3>1. ClientOK(b2, q, 0, 0, h) BY <1>2, <1>5, <1>6, <1>7, HandRefused
    <3> QED BY <2>1, <3>1
  <2>2. CASE k # h
    <3>1. ClientUntouched(b, b2, k) BY <1>2, <1>5, <2>2 DEF ClientUntouched
    <3>2. k # 0 BY <1>6
    <3> QED BY <1>7, <2>2, <3>1, <3>2, ClientKept
  <2> QED BY <2>1, <2>2
<1>9. ASSUME NEW x \in Deals PROVE DealOK(b2, q, NoDeal, x, dls[x], tbs[x])
  <2>1. DealUntouched(b, b2, x) BY <1>2 DEF DealUntouched, NoFill
  <2> QED BY <1>7, <2>1, DealKept
<1>10. ASSUME NEW n \in Notes PROVE Balanced(b2, tbs, n)
  <2>1. \A k \in DOMAIN b.requests : b2.requests[k].spent = b.requests[k].spent
    <3>1. b.requests[h].spent \in Int BY <1>6 DEF RequestSet
    <3>2. b2.requests[h].spent = b.requests[h].spent + 0 BY <1>5 DEF Moved
    <3> QED BY <1>5, <3>1, <3>2
  <2>2. b2.landed[n] = b.landed[n] /\ b2.repaid[n] = b.repaid[n] BY <1>2 DEF Frame
  <2> QED BY <1>1, <1>2, <1>3, <1>7, <2>1, <2>2, BalancedKept
<1>11. DOMAIN b2.requests = DOMAIN b.requests BY <1>3 DEF SameNotes
<1>12. Ledger(b2, q, 0, 0, NoDeal, dls, tbs) BY <1>8, <1>9, <1>10, <1>11 DEF Ledger
<1> QED BY <1>3, <1>4, <1>12

LEMMA LedgerClosed ==
  ASSUME NEW b, NEW b2, NEW q, NEW held, NEW d \in Deals, NEW dls, NEW tbs, Stored(b),
         Closed(b, b2, d), Ledger(b, q, 0, held, d, dls, tbs)
  PROVE  Ledger(b2, q, 0, 0, NoDeal, dls, tbs) /\ Stored(b2) /\ SameNotes(b, b2)
<1> DEFINE msg == [kind |-> "closed"]
<1>1. b.requests \in Seq(RequestSet) /\ b.out \in [Deals -> Seq(OutMsgs)] BY DEF Stored, BookShape
<1>2. /\ Frame(b, b2) /\ NoFill(b, b2) /\ b2.requests = b.requests /\ b2.orders = b.orders
      /\ b2.out = [b.out EXCEPT ![d] = Append(@, msg)]
  BY DEF Closed
<1>3. SameNotes(b, b2) BY <1>1, <1>2 DEF SameNotes
<1>a. msg \in OutMsgs /\ msg.kind = "closed" BY DEF OutMsgs
<1> HIDE DEF msg
<1>4. Stored(b2)
  <2>0. b2.out \in [Deals -> Seq(OutMsgs)] BY <1>2, <1>a, OutGrows
  <2>1. /\ DOMAIN b2.orders \subseteq 1..(b.nextOrderId - 1)
        /\ b2.orders \in [DOMAIN b2.orders -> OrderSet]
        /\ \A i \in DOMAIN b2.orders : Sides(b, b2.orders[i])
        /\ b2.handoverBuyer \in [Deals -> Notes \cup {NoNote}]
        /\ b2.trades \in Seq(FillSet)
    BY <1>2 DEF Stored, BookShape, NoFill
  <2> QED BY <1>2, <1>3, <2>0, <2>1, StoredBy
<1>5. /\ Sends(b, b2, d, msg) /\ b2.out[d] = Append(b.out[d], msg)
      /\ \A x \in Deals : x # d => b2.out[x] = b.out[x]
  BY <1>1, <1>2 DEF Sends
<1>6. 0 \notin DOMAIN b.requests /\ d # NoDeal /\ NoDeal \notin Deals BY <1>1, RequestNumbers, BookAssumption
<1>7. /\ \A k \in DOMAIN b.requests : ClientOK(b, q, 0, held, k)
      /\ \A x \in Deals : DealOK(b, q, d, x, dls[x], tbs[x])
      /\ \A n \in Notes : Balanced(b, tbs, n)
  BY DEF Ledger
<1>8. ASSUME NEW k \in DOMAIN b.requests PROVE ClientOK(b2, q, 0, 0, k)
  <2>1. ClientUntouched(b, b2, k) BY <1>2 DEF ClientUntouched
  <2>2. k # 0 BY <1>6
  <2> QED BY <1>7, <2>1, <2>2, ClientKept
<1>9. ASSUME NEW x \in Deals PROVE DealOK(b2, q, NoDeal, x, dls[x], tbs[x])
  <2>1. CASE x = d
    <3>1. DealOK(b, q, d, d, dls[d], tbs[d]) BY <1>7
    <3>2. Answers(b2, d, msg) BY <1>a DEF Answers
    <3>3. NotListed(b, d) => NotListed(b2, d) BY <1>2 DEF NotListed
    <3>4. DealOK(b2, q, NoDeal, d, dls[d], tbs[d]) BY <1>5, <1>6, <3>1, <3>2, <3>3, MatchEnds
    <3> QED BY <2>1, <3>4
  <2>2. CASE x # d
    <3>1. DealUntouched(b, b2, x) BY <1>2, <1>5, <2>2 DEF DealUntouched, NoFill
    <3>2. x # NoDeal BY <1>6
    <3> QED BY <1>7, <2>2, <3>1, <3>2, DealKept
  <2> QED BY <2>1, <2>2
<1>10. ASSUME NEW n \in Notes PROVE Balanced(b2, tbs, n)
  <2>1. \A k \in DOMAIN b.requests : b2.requests[k].spent = b.requests[k].spent BY <1>2
  <2>2. b2.landed[n] = b.landed[n] /\ b2.repaid[n] = b.repaid[n] BY <1>2 DEF Frame
  <2>3. b.out[d] = <<>> /\ tbs[d] = <<>>
    <3>1. Matched(b, q, d, d, dls[d], tbs[d]) BY <1>7, MatchedHere
    <3> QED BY <3>1 DEF Matched
  <2>4. Way(Append(b.out[d], msg), <<>>, n) = Way(b.out[d], <<>>, n) BY <1>a, <2>3, ClosedWay
  <2>5. \A x \in Deals : Way(b2.out[x], tbs[x], n) = Way(b.out[x], tbs[x], n)
    BY <1>5, <2>3, <2>4
  <2> QED BY <1>1, <1>3, <1>7, <2>1, <2>2, <2>5, BalancedKept
<1>11. DOMAIN b2.requests = DOMAIN b.requests BY <1>2
<1>12. Ledger(b2, q, 0, 0, NoDeal, dls, tbs) BY <1>8, <1>9, <1>10, <1>11 DEF Ledger
<1> QED BY <1>3, <1>4, <1>12

LEMMA LedgerRests ==
  ASSUME NEW b, NEW b2, NEW q, NEW held \in Int, NEW id, NEW o, NEW dls, NEW tbs, Stored(b),
         id \in Nat \ {0}, id < b.nextOrderId, id \notin DOMAIN b.orders,
         o \in OrderSet, Sides(b, o), o.isBuy => o.escrow = held,
         Rests(b, b2, id, o), Ledger(b, q, o.client, held, o.deal, dls, tbs)
  PROVE  Ledger(b2, q, 0, 0, NoDeal, dls, tbs) /\ Stored(b2) /\ SameNotes(b, b2)
<1> DEFINE h == o.client
           d == o.deal
<1>1. b.requests \in Seq(RequestSet) BY DEF Stored, BookShape
<1>2. /\ Frame(b, b2) /\ NoFill(b, b2) /\ b2.out = b.out
      /\ b2.orders = [i \in DOMAIN b.orders \cup {id} |-> IF i = id THEN o ELSE b.orders[i]]
      /\ h = 0 => b2.requests = b.requests
      /\ h # 0 => Notified(b, b2, h, 1, 0, 0, 0, 0)
  BY DEF Rests
<1>6. 0 \notin DOMAIN b.requests /\ NoDeal \notin Deals BY <1>1, RequestNumbers, BookAssumption
<1>a. o.isBuy \in BOOLEAN /\ h \in Nat BY DEF OrderSet
<1>b. o.isBuy => h \in DOMAIN b.requests /\ h # 0 /\ d = NoDeal BY <1>6 DEF Sides
<1>c. ~o.isBuy => h = 0 /\ d \in Deals BY DEF Sides
<1>3. SameNotes(b, b2)
  <2>1. CASE o.isBuy BY <1>1, <1>2, <1>b, <2>1, NotifiedKeeps
  <2>2. CASE ~o.isBuy BY <1>1, <1>2, <1>c, <2>2 DEF SameNotes
  <2> QED BY <1>a, <2>1, <2>2
<1> HIDE DEF h, d
<1>d. /\ DOMAIN b2.orders = DOMAIN b.orders \cup {id} /\ b2.orders[id] = o
      /\ \A i \in DOMAIN b.orders : b2.orders[i] = b.orders[i]
  BY <1>2
<1>4. Stored(b2)
  <2>1. /\ DOMAIN b.orders \subseteq 1..(b.nextOrderId - 1) /\ b.nextOrderId \in Nat
        /\ \A i \in DOMAIN b.orders : b.orders[i] \in OrderSet /\ Sides(b, b.orders[i])
    BY OrderOf DEF Stored, BookShape
  <2>2. /\ DOMAIN b2.orders \subseteq 1..(b.nextOrderId - 1)
        /\ \A i \in DOMAIN b2.orders : b2.orders[i] \in OrderSet /\ Sides(b, b2.orders[i])
    BY <1>d, <2>1
  <2>3. b2.orders \in [DOMAIN b2.orders -> OrderSet] BY <1>2, <2>2
  <2>4. /\ b2.out \in [Deals -> Seq(OutMsgs)]
        /\ b2.handoverBuyer \in [Deals -> Notes \cup {NoNote}]
        /\ b2.trades \in Seq(FillSet)
    BY <1>2 DEF Stored, BookShape, NoFill
  <2> QED BY <1>2, <1>3, <2>2, <2>3, <2>4, StoredBy
<1>7. /\ \A k \in DOMAIN b.requests : ClientOK(b, q, h, held, k)
      /\ \A x \in Deals : DealOK(b, q, d, x, dls[x], tbs[x])
      /\ \A n \in Notes : Balanced(b, tbs, n)
  BY DEF Ledger, h, d
<1>e. \A k \in DOMAIN b.requests : k # h => b2.requests[k] = b.requests[k]
  <2>1. CASE o.isBuy BY <1>1, <1>2, <1>b, <2>1 DEF Notified
  <2>2. CASE ~o.isBuy BY <1>1, <1>2, <1>c, <2>2
  <2> QED BY <1>a, <2>1, <2>2
<1>8. ASSUME NEW k \in DOMAIN b.requests PROVE ClientOK(b2, q, 0, 0, k)
  <2>1. CASE k = h
    <3>0. o.isBuy BY <1>6, <1>a, <1>c, <2>1
    <3>1. b2.requests[h] = Moved(b.requests[h], 1, 0, 0, 0, 0) BY <1>1, <1>2, <1>b, <3>0 DEF Notified
    <3>2. b.requests[h] \in RequestSet /\ o.client = h /\ o.escrow = held /\ h # 0
      BY <1>1, <1>b, <3>0 DEF h
    <3>3. ClientOK(b, q, h, held, h) BY <1>7, <2>1
    <3>4. ClientOK(b2, q, 0, 0, h) BY <1>2, <3>1, <3>2, <3>3, HandRests
    <3> QED BY <2>1, <3>4
  <2>2. CASE k # h
    <3>1. ClientUntouched(b, b2, k) BY <1>d, <1>e, <2>2 DEF ClientUntouched, h
    <3>2. k # 0 BY <1>6
    <3> QED BY <1>7, <2>2, <3>1, <3>2, ClientKept
  <2> QED BY <2>1, <2>2
<1>9. ASSUME NEW x \in Deals PROVE DealOK(b2, q, NoDeal, x, dls[x], tbs[x])
  <2>0. x # NoDeal BY <1>6
  <2>1. CASE x = d
    <3>1. DealOK(b, q, d, d, dls[d], tbs[d]) BY <1>7, <2>1
    <3>2. o.deal = d /\ b2.out[d] = b.out[d] /\ NoDeal # d BY <1>2, <2>0, <2>1 DEF d
    <3>4. DealOK(b2, q, NoDeal, d, dls[d], tbs[d]) BY <1>2, <3>1, <3>2, MatchRests
    <3> QED BY <2>1, <3>4
  <2>2. CASE x # d
    <3>1. DealUntouched(b, b2, x) BY <1>2, <1>d, <2>2 DEF DealUntouched, NoFill, d
    <3> QED BY <1>7, <2>0, <2>2, <3>1, DealKept
  <2> QED BY <2>1, <2>2
<1>10. ASSUME NEW n \in Notes PROVE Balanced(b2, tbs, n)
  <2>1. \A k \in DOMAIN b.requests : b2.requests[k].spent = b.requests[k].spent
    <3>1. CASE h \in DOMAIN b.requests
      <4>1. o.isBuy BY <1>6, <1>a, <1>c, <3>1
      <4>2. b2.requests[h] = Moved(b.requests[h], 1, 0, 0, 0, 0)
        BY <1>1, <1>2, <1>b, <4>1 DEF Notified
      <4>5. b.requests[h] \in RequestSet BY <1>1, <3>1
      <4>3. b.requests[h].spent \in Int BY <4>5 DEF RequestSet
      <4>4. b2.requests[h].spent = b.requests[h].spent + 0 BY <4>2 DEF Moved
      <4> QED BY <1>e, <4>3, <4>4
    <3>2. CASE h \notin DOMAIN b.requests BY <1>e, <3>2
    <3> QED BY <3>1, <3>2
  <2>2. b2.landed[n] = b.landed[n] /\ b2.repaid[n] = b.repaid[n] BY <1>2 DEF Frame
  <2>3. \A x \in Deals : Way(b2.out[x], tbs[x], n) = Way(b.out[x], tbs[x], n) BY <1>2
  <2> QED BY <1>1, <1>3, <1>7, <2>1, <2>2, <2>3, BalancedKept
<1>11. DOMAIN b2.requests = DOMAIN b.requests BY <1>3 DEF SameNotes
<1>12. Ledger(b2, q, 0, 0, NoDeal, dls, tbs) BY <1>8, <1>9, <1>10, <1>11 DEF Ledger
<1> QED BY <1>3, <1>4, <1>12

-----------------------------------------------------------------------------
(***************************************************************************)
(* The queue and the hand.  q2 is q with entry e at place p; f tells where *)
(* the entries of q are in it.                                             *)
(***************************************************************************)
LEMMA JoinedClient ==
  ASSUME NEW b, NEW q, NEW q2, NEW p, NEW e, NEW f, Joined(q2, q, p, e, f), NEW c, c # 0
  PROVE  ClientOK(b, q, e.client, HeldInQueue(e), c) <=> ClientOK(b, q2, 0, 0, c)
<1> DEFINE h == e.client
           held == HeldInQueue(e)
           Mine(z, k) == z[k].client = c /\ \A l \in DOMAIN z : z[l].client = c => l = k
<1>1. NotQueued(q2, c) <=> NotQueued(q, c) /\ c # h BY DEF Joined, NotQueued
<1>2. ASSUME NEW k \in DOMAIN q, Mine(q, k), c # h PROVE Mine(q2, f[k]) BY <1>2 DEF Joined
<1>3. ASSUME NEW l \in DOMAIN q2, Mine(q2, l), l # p
      PROVE  c # h /\ \E k \in DOMAIN q : f[k] = l /\ Mine(q, k) /\ q[k] = q2[l]
  <2>1. c # h BY <1>3 DEF Joined
  <2>2. PICK k \in DOMAIN q : f[k] = l BY <1>3 DEF Joined
  <2>3. q[k] = q2[l] BY <2>2 DEF Joined
  <2>4. Mine(q, k) BY <1>3, <2>2, <2>3 DEF Joined
  <2> QED BY <2>1, <2>2, <2>3, <2>4
<1>4. NotQueued(q, c) /\ c = h => Mine(q2, p) BY DEF Joined, NotQueued
<1>5. Mine(q2, p) => NotQueued(q, c) BY DEF Joined, NotQueued
<1>6. ASSUME Waiting(b, q, h, c) PROVE Waiting(b, q2, 0, c)
  <2>1. PICK k \in DOMAIN q : /\ Mine(q, k)
          /\ b.requests[c].committed = b.requests[c].spent + b.requests[c].back + HeldInQueue(q[k])
    BY <1>6 DEF Waiting
  <2>2. Mine(q2, f[k]) /\ f[k] \in DOMAIN q2 /\ q2[f[k]] = q[k] BY <1>2, <1>6, <2>1 DEF Waiting, Joined
  <2> QED BY <1>6, <2>1, <2>2 DEF Waiting
<1>7. ASSUME InHand(b, q, h, held, c) PROVE Waiting(b, q2, 0, c)
  <2>1. Mine(q2, p) /\ p \in DOMAIN q2 /\ q2[p] = e BY <1>4, <1>7 DEF InHand, Joined
  <2> QED BY <1>7, <2>1 DEF Waiting, InHand
<1>8. ASSUME Waiting(b, q2, 0, c) PROVE Waiting(b, q, h, c) \/ InHand(b, q, h, held, c)
  <2>1. PICK l \in DOMAIN q2 : /\ Mine(q2, l)
          /\ b.requests[c].committed = b.requests[c].spent + b.requests[c].back + HeldInQueue(q2[l])
    BY <1>8 DEF Waiting
  <2>2. CASE l = p
    <3>1. c = h /\ NotQueued(q, c) /\ q2[l] = e BY <1>5, <2>1, <2>2 DEF Joined
    <3> QED BY <1>8, <2>1, <3>1 DEF Waiting, InHand
  <2>3. CASE l # p
    <3>1. PICK k \in DOMAIN q : f[k] = l /\ Mine(q, k) /\ q[k] = q2[l] BY <1>3, <2>1, <2>3
    <3>2. c # h BY <1>3, <2>1, <2>3
    <3> QED BY <1>8, <2>1, <3>1, <3>2 DEF Waiting
  <2> QED BY <2>2, <2>3
<1>9. AtRest(b, q, h, c) <=> AtRest(b, q2, 0, c) BY <1>1 DEF AtRest
<1>10. Over(b, q, h, c) <=> Over(b, q2, 0, c) BY <1>1 DEF Over
<1>11. ~InHand(b, q2, 0, 0, c) BY DEF InHand
<1> QED BY <1>6, <1>7, <1>8, <1>9, <1>10, <1>11 DEF ClientOK

LEMMA JoinedDeal ==
  ASSUME NEW b, NEW q, NEW q2, NEW p, NEW e, NEW f, Joined(q2, q, p, e, f),
         NEW x, x # NoDeal, NEW dl, NEW tb
  PROVE  DealOK(b, q, e.deal, x, dl, tb) <=> DealOK(b, q2, NoDeal, x, dl, tb)
<1> DEFINE d == e.deal
           Mine(z, k) == z[k].deal = x /\ \A l \in DOMAIN z : z[l].deal = x => l = k
<1>1. NotWaiting(q2, x) <=> NotWaiting(q, x) /\ x # d BY DEF Joined, NotWaiting
<1>2. ASSUME NEW k \in DOMAIN q, Mine(q, k), x # d PROVE Mine(q2, f[k]) BY <1>2 DEF Joined
<1>3. ASSUME NEW l \in DOMAIN q2, Mine(q2, l), l # p
      PROVE  x # d /\ \E k \in DOMAIN q : Mine(q, k)
  <2>1. x # d BY <1>3 DEF Joined
  <2>2. PICK k \in DOMAIN q : f[k] = l BY <1>3 DEF Joined
  <2>3. q[k] = q2[l] BY <2>2 DEF Joined
  <2>4. Mine(q, k) BY <1>3, <2>2, <2>3 DEF Joined
  <2> QED BY <2>1, <2>2, <2>3, <2>4
<1>4. NotWaiting(q, x) /\ x = d => Mine(q2, p) BY DEF Joined, NotWaiting
<1>5. Mine(q2, p) => NotWaiting(q, x) BY DEF Joined, NotWaiting
<1>6. ASSUME Waits(b, q, d, x, dl, tb) PROVE Waits(b, q2, NoDeal, x, dl, tb)
  <2>1. PICK k \in DOMAIN q : Mine(q, k) BY <1>6 DEF Waits
  <2>2. Mine(q2, f[k]) /\ f[k] \in DOMAIN q2 BY <1>2, <1>6, <2>1 DEF Waits, Joined
  <2> QED BY <1>6, <2>2 DEF Waits
<1>7. ASSUME Matched(b, q, d, x, dl, tb) PROVE Waits(b, q2, NoDeal, x, dl, tb)
  <2>1. Mine(q2, p) /\ p \in DOMAIN q2 BY <1>4, <1>7 DEF Matched, Joined
  <2> QED BY <1>7, <2>1 DEF Waits, Matched
<1>8. ASSUME Waits(b, q2, NoDeal, x, dl, tb)
      PROVE  Waits(b, q, d, x, dl, tb) \/ Matched(b, q, d, x, dl, tb)
  <2>1. PICK l \in DOMAIN q2 : Mine(q2, l) BY <1>8 DEF Waits
  <2>2. CASE l = p
    <3>1. x = d /\ NotWaiting(q, x) BY <1>5, <2>1, <2>2 DEF Joined
    <3> QED BY <1>8, <3>1 DEF Waits, Matched
  <2>3. CASE l # p
    <3>1. x # d /\ \E k \in DOMAIN q : Mine(q, k) BY <1>3, <2>1, <2>3
    <3> QED BY <1>8, <3>1 DEF Waits
  <2> QED BY <2>2, <2>3
<1>9. Sent(b, q, d, x, dl, tb) <=> Sent(b, q2, NoDeal, x, dl, tb) BY <1>1 DEF Sent
<1>10. Lists(b, q, d, x, dl, tb) <=> Lists(b, q2, NoDeal, x, dl, tb) BY <1>1 DEF Lists
<1>11. Answered(b, q, d, x, dl, tb) <=> Answered(b, q2, NoDeal, x, dl, tb) BY <1>1 DEF Answered
<1>12. Stuck(b, q, d, x, dl, tb) <=> Stuck(b, q2, NoDeal, x, dl, tb) BY <1>1 DEF Stuck
<1>13. Free(b, q, d, x, dl, tb) <=> Free(b, q2, NoDeal, x, dl, tb) BY <1>1 DEF Free
<1>14. ~Matched(b, q2, NoDeal, x, dl, tb) BY DEF Matched
<1> QED BY <1>6, <1>7, <1>8, <1>9, <1>10, <1>11, <1>12, <1>13, <1>14 DEF DealOK

\* Taking an entry in hand, or putting it into the queue, moves nothing.
LEMMA JoinedLedger ==
  ASSUME NEW b, NEW q, NEW q2, NEW p, NEW e, NEW f, Joined(q2, q, p, e, f), NEW dls, NEW tbs,
         b.requests \in Seq(RequestSet)
  PROVE  Ledger(b, q, e.client, HeldInQueue(e), e.deal, dls, tbs)
           <=> Ledger(b, q2, 0, 0, NoDeal, dls, tbs)
<1>1. \A c \in DOMAIN b.requests : c # 0 BY RequestNumbers
<1>2. \A x \in Deals : x # NoDeal BY BookAssumption
<1>3. \A c \in DOMAIN b.requests :
        ClientOK(b, q, e.client, HeldInQueue(e), c) <=> ClientOK(b, q2, 0, 0, c)
  BY <1>1, JoinedClient
<1>4. \A x \in Deals :
        DealOK(b, q, e.deal, x, dls[x], tbs[x]) <=> DealOK(b, q2, NoDeal, x, dls[x], tbs[x])
  BY <1>2, JoinedDeal
<1> QED BY <1>3, <1>4 DEF Ledger

\* A sequence is its head and its tail, with or without a change of the head.
LEMMA HeadJoined ==
  ASSUME NEW q \in Seq(EntrySet), q # <<>>, NEW e
  PROVE  /\ Joined([q EXCEPT ![1] = e], Tail(q), 1, e, [k \in DOMAIN Tail(q) |-> k + 1])
         /\ Joined(q, Tail(q), 1, Head(q), [k \in DOMAIN Tail(q) |-> k + 1])
<1> DEFINE t == Tail(q)
           n == Len(q)
           f == [k \in DOMAIN t |-> k + 1]
           g == [q EXCEPT ![1] = e]
<1>1. n \in Nat \ {0} /\ DOMAIN q = 1..n OBVIOUS
<1>2. Len(t) = n - 1 /\ DOMAIN t = 1..(n - 1) /\ \A k \in 1..(n - 1) : t[k] = q[k + 1]
  OBVIOUS
<1>3. DOMAIN g = 1..n /\ g[1] = e /\ \A k \in 2..n : g[k] = q[k] BY <1>1
<1>4. Head(q) = q[1] OBVIOUS
<1>5. \A k \in 1..(n - 1) : f[k] = k + 1 BY <1>2
<1>6. \A l \in 1..n : l # 1 => l - 1 \in 1..(n - 1) /\ f[l - 1] = l BY <1>1, <1>5
<1> HIDE DEF t, n, f, g
<1>a. 1 \in DOMAIN q /\ 1 \in DOMAIN g BY <1>1, <1>3
<1>b. \A k \in DOMAIN t : f[k] \in DOMAIN q /\ f[k] \in DOMAIN g /\ f[k] # 1
        /\ q[f[k]] = t[k] /\ g[f[k]] = t[k]
  <2> SUFFICES ASSUME NEW k \in DOMAIN t
               PROVE  f[k] \in DOMAIN q /\ f[k] \in DOMAIN g /\ f[k] # 1
                      /\ q[f[k]] = t[k] /\ g[f[k]] = t[k] OBVIOUS
  <2>1. k \in 1..(n - 1) /\ f[k] = k + 1 /\ t[k] = q[k + 1] BY <1>2, <1>5
  <2>2. k + 1 \in 2..n /\ k + 1 \in 1..n BY <1>1, <2>1
  <2>3. g[k + 1] = q[k + 1] BY <1>3, <2>2
  <2> QED BY <1>1, <1>3, <2>1, <2>2, <2>3
<1>c. \A k, l \in DOMAIN t : f[k] = f[l] => k = l BY <1>1, <1>2, <1>5
<1>d. \A l \in 1..n : l # 1 => \E k \in DOMAIN t : f[k] = l BY <1>2, <1>6
<1>7. Joined(g, t, 1, e, f) BY <1>3, <1>a, <1>b, <1>c, <1>d DEF Joined
<1>8. Joined(q, t, 1, Head(q), f) BY <1>1, <1>4, <1>a, <1>b, <1>c, <1>d DEF Joined
<1> QED BY <1>7, <1>8 DEF t, f, g

LEMMA LastJoined ==
  ASSUME NEW q \in Seq(EntrySet), NEW e
  PROVE  Joined(Append(q, e), q, Len(q) + 1, e, [k \in DOMAIN q |-> k])
<1> DEFINE n == Len(q)
           f == [k \in DOMAIN q |-> k]
           g == Append(q, e)
<1>1. n \in Nat /\ DOMAIN q = 1..n OBVIOUS
<1>2. DOMAIN g = 1..(n + 1) /\ g[n + 1] = e /\ \A k \in 1..n : g[k] = q[k] OBVIOUS
<1>3. \A k \in 1..n : f[k] = k BY <1>1
<1> HIDE DEF n, f, g
<1>4. Joined(g, q, n + 1, e, f) BY <1>1, <1>2, <1>3 DEF Joined
<1> QED BY <1>4 DEF n, f, g

-----------------------------------------------------------------------------
(***************************************************************************)
(* A whole walk.                                                           *)
(***************************************************************************)
LEMMA LaterTwice ==
  ASSUME NEW b, NEW b1, NEW b2, Later(b, b1), Later(b1, b2)
  PROVE  Later(b, b2)
BY DEF Later, Frame, SameNotes

LEMMA FillTicks ==
  ASSUME NEW m, NEW taker, WalkShape(m, taker), ~Idle(m),
         ~taker.isBuy => m.remaining <= AskTicks[taker.deal]
  PROVE  Offered(m, taker) <= AskTicks[Serving(taker, Maker(m))]
<1> DEFINE t == Offered(m, taker)
<1>1. t \in Int /\ t <= m.remaining /\ t <= Maker(m).amount BY OfferedType
<1>2. /\ Met(m) \in DOMAIN m.book.orders /\ Maker(m).isBuy # taker.isBuy BY MetOf
<1>3. Maker(m) \in OrderSet /\ Sides(m.book, Maker(m)) BY <1>2, OrderOf DEF WalkShape, Stored, Maker
<1>4. Taking(m.book, taker) /\ m.remaining \in Int BY DEF WalkShape
<1>5. taker.isBuy \in BOOLEAN /\ Maker(m).isBuy \in BOOLEAN /\ Maker(m).amount \in Int
  BY <1>3, <1>4 DEF OrderSet, Taking, EntrySet
<1>6. taker.isBuy => Maker(m).deal \in Deals /\ Maker(m).amount <= AskTicks[Maker(m).deal]
  BY <1>2, <1>3, <1>5 DEF Sides
<1>7. ~taker.isBuy => taker.deal \in Deals BY <1>4 DEF Taking, Sides
<1>8. \A x \in Deals : AskTicks[x] \in Nat BY BookAssumption
<1> HIDE DEF t
<1>9. CASE taker.isBuy BY <1>1, <1>5, <1>6, <1>8, <1>9 DEF Serving, t
<1>10. CASE ~taker.isBuy BY <1>1, <1>4, <1>7, <1>8, <1>10 DEF Serving, t
<1> QED BY <1>9, <1>10

LEMMA VisitKeeps ==
  ASSUME NEW m, NEW m2, NEW taker, NEW q, NEW dls, NEW tbs,
         WalkOK(m, taker, q, dls, tbs), VCases(m, m2, taker)
  PROVE  WalkOK(m2, taker, q, dls, tbs) /\ Later(m.book, m2.book)
<1> DEFINE i == Met(m)
           trade == Offered(m, taker)
           cost == Cost(taker, Maker(m), trade)
<1>1. /\ WalkShape(m, taker)
      /\ Ledger(m.book, q, taker.client, m.leftover, Rest(m, taker), dls, tbs)
      /\ ~taker.isBuy => m.remaining <= AskTicks[taker.deal]
      /\ m.resume # 0 => m.remaining # 0
  BY DEF WalkOK
<1>2. WalkShape(m2, taker) /\ Frame(m.book, m2.book) /\ SameNotes(m.book, m2.book)
  BY <1>1, VisitShape
<1>3. ASSUME ~Idle(m)
      PROVE  /\ m.resume = 0 /\ m.remaining # 0 /\ i \in DOMAIN m.book.orders /\ Stored(m.book)
             /\ Rest(m, taker) = taker.deal
  BY <1>1, <1>3, MetOf DEF WalkShape, Idle, Rest
<1>4. CASE m2.book = m.book /\ SameMoney(m, m2) /\ (m2.resume = m.resume \/ ~Idle(m))
  <2>1. Rest(m2, taker) = Rest(m, taker) BY <1>4 DEF Rest, SameMoney
  <2>2. m2.resume # 0 => m2.remaining # 0 BY <1>1, <1>3, <1>4 DEF SameMoney
  <2>3. WalkOK(m2, taker, q, dls, tbs) BY <1>1, <1>2, <1>4, <2>1, <2>2 DEF WalkOK, SameMoney
  <2> QED BY <1>2, <1>4, <2>3 DEF Later
<1>5. CASE VDrop(m, m2, taker) \/ VDust(m, m2, taker)
  <2>1. ~Idle(m) /\ Counts(m, m2, 1, FALSE) /\ SameMoney(m, m2) /\ Leaves(m.book, m2.book, i)
    BY <1>5 DEF VDrop, VDust, Settleable
  <2>2. i \in DOMAIN m.book.orders /\ Stored(m.book) /\ m.resume = 0 BY <1>3, <2>1
  <2>3. Ledger(m2.book, q, taker.client, m.leftover, Rest(m, taker), dls, tbs)
    BY <1>1, <2>1, <2>2, LedgerLeaves
  <2>4. Rest(m2, taker) = Rest(m, taker) BY <2>1 DEF Rest, SameMoney
  <2>5. m2.resume = 0 BY <2>1, <2>2 DEF Counts
  <2>6. WalkOK(m2, taker, q, dls, tbs) BY <1>1, <1>2, <2>1, <2>3, <2>4, <2>5 DEF WalkOK, SameMoney
  <2>7. DOMAIN m2.book.orders \in SUBSET DOMAIN m.book.orders
    BY <2>1, <2>2, LeavesTouches DEF Touches
  <2> QED BY <1>2, <2>6, <2>7 DEF Later
<1>6. CASE VFill(m, m2, taker)
  <2>1. ~Idle(m) /\ Facing(m, taker, i, trade) /\ trade >= 2 /\ Fills(m, m2.book, taker, i, trade)
        /\ Counts(m, m2, 1, FALSE)
    BY <1>1, <1>6, FillFacing DEF VFill
  <2>2. /\ m2.leftover = (IF taker.isBuy THEN m.leftover - cost ELSE m.leftover)
        /\ m2.remaining = IF taker.isBuy THEN m.remaining - trade ELSE 0
    BY <1>6 DEF VFill
  <2>3. trade <= AskTicks[Serving(taker, m.book.orders[i])] BY <1>1, <2>1, FillTicks DEF Maker
  <2>4. i \in DOMAIN m.book.orders /\ m.resume = 0 /\ Rest(m, taker) = taker.deal BY <1>3, <2>1
  <2>5. Ledger(m.book, q, taker.client, m.leftover, taker.deal, dls, tbs) BY <1>1, <2>4
  <2>6. Ledger(m2.book, q, taker.client, m2.leftover, NoDeal, dls, tbs)
    <3>1. Ledger(m2.book, q, taker.client,
                IF taker.isBuy THEN m.leftover - Cost(taker, m.book.orders[i], trade) ELSE m.leftover,
                NoDeal, dls, tbs)
      <4> HIDE DEF i, trade
      <4> QED BY <2>1, <2>3, <2>5, LedgerFills
    <3> QED BY <2>2, <3>1 DEF Maker
  <2>7. Taking(m.book, taker) /\ taker.isBuy \in BOOLEAN BY <1>1 DEF WalkShape, Taking, EntrySet
  <2>8. Rest(m2, taker) = NoDeal
    <3>1. taker.isBuy => taker.deal = NoDeal BY <2>7 DEF Taking, Sides
    <3> QED BY <2>2, <2>7, <3>1 DEF Rest
  <2>9. ~taker.isBuy => m2.remaining <= AskTicks[taker.deal]
    <3>1. ~taker.isBuy => taker.deal \in Deals BY <2>7 DEF Taking, Sides
    <3>2. \A x \in Deals : AskTicks[x] \in Nat BY BookAssumption
    <3> QED BY <2>2, <3>1, <3>2
  <2>10. m2.resume = 0 BY <2>1, <2>4 DEF Counts
  <2>11. WalkOK(m2, taker, q, dls, tbs) BY <1>2, <2>6, <2>8, <2>9, <2>10 DEF WalkOK
  <2>12. DOMAIN m2.book.orders \in SUBSET DOMAIN m.book.orders
    BY <2>1, <2>4, FillsTouches DEF Touches
  <2> QED BY <1>2, <2>11, <2>12 DEF Later
<1>7. CASE Idle(m) /\ m2 = m BY <1>4, <1>7 DEF SameMoney
<1>8. CASE VLimit(m, m2) BY <1>4, <1>8 DEF VLimit
<1>9. CASE VPass(m, m2, taker) BY <1>4, <1>9 DEF VPass, Counts
<1>10. CASE VHalt(m, m2, taker) BY <1>4, <1>10 DEF VHalt, Counts
<1> QED BY <1>5, <1>6, <1>7, <1>8, <1>9, <1>10 DEF VCases

LEMMA MatchKeeps ==
  ASSUME NEW b, NEW taker, NEW amount \in Int, NEW escrow \in Int, NEW from, NEW q, NEW dls, NEW tbs,
         Stored(b), Taking(b, taker), ~taker.isBuy => amount <= AskTicks[taker.deal] /\ amount # 0,
         Ledger(b, q, taker.client, escrow, taker.deal, dls, tbs)
  PROVE  LET m == Match(b, taker, amount, escrow, from)
         IN  WalkOK(m, taker, q, dls, tbs) /\ Later(b, m.book)
<1> DEFINE makers == Walk(b, taker, from)
           start == [ book |-> b, todo |-> makers, remaining |-> amount, leftover |-> escrow,
                      matches |-> 0, scanned |-> 0, stopped |-> FALSE, resume |-> 0 ]
           n == Cardinality(makers)
           w == Walked(start, taker)
           G == {k \in Nat : WalkOK(w[k], taker, q, dls, tbs) /\ Later(b, w[k].book)}
<1>1. makers \in SUBSET Crossing(b, taker) BY DEF Walk
<1>2. makers \in SUBSET DOMAIN b.orders BY <1>1 DEF Crossing
<1>3. IsFiniteSet(makers) BY <1>2, BookFinite, FS_Subset DEF Stored
<1>4. Match(b, taker, amount, escrow, from) = w[n] BY DEF Match
<1> HIDE DEF makers
<1>5. /\ DOMAIN start = WalkFields /\ start.book = b /\ start.todo = makers
      /\ start.remaining = amount /\ start.leftover = escrow /\ start.matches = 0
      /\ start.scanned = 0 /\ start.stopped = FALSE /\ start.resume = 0
  BY DEF WalkFields
<1> HIDE DEF start
<1>6. n \in Nat /\ w[0] = start /\ \A k \in 1..n : w[k] = Visit(w[k - 1], taker)
  BY <1>3, <1>5, WalkedDef
<1> HIDE DEF w, n
<1>7. WalkOK(start, taker, q, dls, tbs) /\ Later(b, start.book)
  <2>1. WalkShape(start, taker)
    <3>1. start.todo \in SUBSET Crossing(start.book, taker) BY <1>1, <1>5
    <3>2. start.matches \in Nat /\ start.scanned \in Nat /\ start.resume \in Nat
          /\ start.remaining \in Int /\ start.leftover \in Int
      BY <1>5
    <3>3. start.stopped \in BOOLEAN BY <1>5
    <3>4. Stored(start.book) /\ Taking(start.book, taker) BY <1>5, Zenon
    <3> QED BY <1>5, <3>1, <3>2, <3>3, <3>4 DEF WalkShape
  <2>2. taker.isBuy \in BOOLEAN /\ (taker.isBuy => taker.deal = NoDeal)
    BY DEF Taking, EntrySet, Sides
  <2>3. Rest(start, taker) = taker.deal BY <1>5, <2>2 DEF Rest
  <2>4. WalkOK(start, taker, q, dls, tbs) BY <1>5, <2>1, <2>3 DEF WalkOK
  <2>5. Later(b, b) BY DEF Later, Frame, SameNotes, Stored, BookShape
  <2> QED BY <1>5, <2>4, <2>5
<1>8. 0 \in G BY <1>6, <1>7
<1>9. ASSUME NEW k \in 1..n, k - 1 \in G PROVE k \in G
  <2> DEFINE m == w[k - 1]
             m2 == w[k]
  <2>1. WalkOK(m, taker, q, dls, tbs) /\ Later(b, m.book) BY <1>9
  <2>2. m2 = Visit(m, taker) BY <1>6
  <2> HIDE DEF m, m2
  <2>3. VCases(m, m2, taker) BY <2>1, <2>2, VisitDoes DEF WalkOK
  <2>4. WalkOK(m2, taker, q, dls, tbs) /\ Later(m.book, m2.book) BY <2>1, <2>3, VisitKeeps
  <2>5. Later(b, m2.book) BY <2>1, <2>4, LaterTwice
  <2> QED BY <1>6, <2>4, <2>5 DEF m2
<1> HIDE DEF G
<1>10. \A k \in 0..n : k \in G BY <1>6, <1>8, <1>9, UpTo
<1>11. n \in G BY <1>6, <1>10
<1> QED BY <1>4, <1>11 DEF G

-----------------------------------------------------------------------------
(***************************************************************************)
(* The end of a taker.                                                     *)
(***************************************************************************)
LEMMA LedgerSame ==
  ASSUME NEW b, NEW b2, NEW q, NEW h, NEW held, NEW held2, NEW d, NEW dls, NEW tbs,
         b.requests \in Seq(RequestSet), SameLedger(b, b2), h = 0 \/ held2 = held,
         Ledger(b, q, h, held, d, dls, tbs)
  PROVE  Ledger(b2, q, h, held2, d, dls, tbs)
<1>1. /\ \A k \in DOMAIN b.requests : ClientOK(b, q, h, held, k)
      /\ \A x \in Deals : DealOK(b, q, d, x, dls[x], tbs[x])
      /\ \A n \in Notes : Balanced(b, tbs, n)
  BY DEF Ledger
<1>2. b2.requests = b.requests /\ SameNotes(b, b2) BY DEF SameLedger, SameNotes
<1>3. 0 \notin DOMAIN b.requests BY RequestNumbers
<1>4. ASSUME NEW k \in DOMAIN b.requests PROVE ClientOK(b2, q, h, held2, k)
  <2>1. ClientUntouched(b, b2, k) BY DEF ClientUntouched, SameLedger
  <2>2. k = h => held2 = held BY <1>3
  <2> QED BY <1>1, <2>1, <2>2, ClientKept
<1>5. ASSUME NEW x \in Deals PROVE DealOK(b2, q, d, x, dls[x], tbs[x])
  <2>1. DealUntouched(b, b2, x) BY DEF DealUntouched, SameLedger
  <2> QED BY <1>1, <2>1, DealKept
<1>6. ASSUME NEW n \in Notes PROVE Balanced(b2, tbs, n)
  <2>1. /\ \A k \in DOMAIN b.requests : b2.requests[k].spent = b.requests[k].spent
        /\ \A x \in Deals : Way(b2.out[x], tbs[x], n) = Way(b.out[x], tbs[x], n)
        /\ b2.landed[n] = b.landed[n] /\ b2.repaid[n] = b.repaid[n]
    BY DEF SameLedger
  <2> QED BY <1>1, <1>2, <2>1, BalancedKept
<1> QED BY <1>2, <1>4, <1>5, <1>6 DEF Ledger

LEMMA StoredSame ==
  ASSUME NEW b, NEW b2, Stored(b), SameLedger(b, b2), DOMAIN b2 = BookFields,
         b2.nextOrderId \in Nat, b2.nextOrderId >= b.nextOrderId,
         b2.queue \in Seq(EntrySet), b2.trades \in Seq(FillSet)
  PROVE  Stored(b2)
<1>1. /\ b.nextOrderId \in Nat \ {0} /\ DOMAIN b.orders \subseteq 1..(b.nextOrderId - 1)
  BY DEF Stored, BookShape
<1>2. b2.nextOrderId \in Nat \ {0} /\ DOMAIN b2.orders \subseteq 1..(b2.nextOrderId - 1)
  BY <1>1 DEF SameLedger
<1>3. BookShape(b2) BY <1>2 DEF Stored, BookShape, SameLedger
<1>4. ASSUME NEW i \in DOMAIN b2.orders PROVE Sides(b2, b2.orders[i])
  <2>1. Sides(b, b.orders[i]) /\ b2.orders[i] = b.orders[i] BY DEF Stored, SameLedger
  <2> QED BY <2>1 DEF Sides, SameLedger
<1> QED BY <1>3, <1>4 DEF Stored

LEMMA FinalizeKeeps ==
  ASSUME NEW m, NEW e, NEW q, NEW dls, NEW tbs, NEW id, WalkOK(m, e, q, dls, tbs),
         id \in Nat \ {0}, id < m.book.nextOrderId, id \notin DOMAIN m.book.orders
  PROVE  LET b2 == FinalizeTaker(m.book, e, id, m.remaining, m.leftover)
         IN  /\ Stored(b2) /\ SameNotes(m.book, b2) /\ Frame(m.book, b2)
             /\ Ledger(b2, q, 0, 0, NoDeal, dls, tbs)
<1> DEFINE b == m.book
           remaining == m.remaining
           leftover == m.leftover
           h == e.client
           takerOnly == e.flags \cap TAKER_FLAGS # {}
           o == [ note |-> e.note, deal |-> e.deal, price |-> e.price, amount |-> remaining,
                  escrow |-> leftover, deadline |-> e.deadline, client |-> e.client,
                  flags |-> e.flags, isBuy |-> e.isBuy ]
           b2 == FinalizeTaker(b, e, id, remaining, leftover)
           Goal(z) == /\ Stored(z) /\ SameNotes(b, z) /\ Frame(b, z)
                      /\ Ledger(z, q, 0, 0, NoDeal, dls, tbs)
<1>1. /\ Stored(b) /\ Taking(b, e) /\ remaining \in Int /\ leftover \in Int
      /\ ~e.isBuy => remaining <= AskTicks[e.deal]
      /\ Ledger(b, q, h, leftover, Rest(m, e), dls, tbs)
  BY DEF WalkOK, WalkShape
<1>2. e \in EntrySet /\ Sides(b, e) /\ e.note \in Notes /\ e.isBuy \in BOOLEAN
  BY <1>1 DEF Taking, EntrySet
<1>3. DOMAIN b = BookFields /\ b.requests \in Seq(RequestSet) BY <1>1 DEF Stored, BookShape
<1>4. e.isBuy => h \in DOMAIN b.requests /\ e.deal = NoDeal BY <1>2 DEF Sides
<1>5. ~e.isBuy => h = 0 /\ e.deal \in Deals BY <1>2 DEF Sides
<1>6. b2 = IF e.isBuy
           THEN IF remaining < 2 \/ takerOnly THEN RejectToNote(b, h, leftover)
                ELSE InsertIntoBook(b, id, o)
           ELSE IF remaining = 0 THEN b
           ELSE IF takerOnly THEN OnSellClosed(b, e.deal) ELSE InsertIntoBook(b, id, o)
  BY DEF FinalizeTaker
<1>7. Rest(m, e) = IF remaining = 0 THEN NoDeal ELSE e.deal BY DEF Rest
<1>8. ASSUME ~takerOnly, Rest(m, e) = e.deal PROVE Goal(InsertIntoBook(b, id, o))
  <2> DEFINE z == InsertIntoBook(b, id, o)
  <2>1. o.client \in DOMAIN b.requests \cup {0} BY <1>2, <1>4, <1>5
  <2>2. "MARKET" \notin e.flags BY <1>8 DEF TAKER_FLAGS
  <2>3. e.price \in Nat \ {0} BY <1>1, <2>2 DEF Taking
  <2>4. o \in OrderSet BY <1>1, <1>2, <2>3 DEF OrderSet, EntrySet
  <2>5. Sides(b, o) BY <1>1, <1>2 DEF Sides
  <2>6. o.client = h /\ o.deal = e.deal /\ o.escrow = leftover OBVIOUS
  <2> HIDE DEF o
  <2>7. Rests(b, z, id, o) BY <1>3, <2>1, InsertDoes
  <2>8. Ledger(b, q, o.client, leftover, o.deal, dls, tbs) BY <1>1, <1>8, <2>6
  <2>9. id \in Nat \ {0} /\ id < b.nextOrderId /\ id \notin DOMAIN b.orders OBVIOUS
  <2> HIDE DEF z, b, leftover
  <2>10. Ledger(z, q, 0, 0, NoDeal, dls, tbs) /\ Stored(z) /\ SameNotes(b, z)
    BY <1>1, <2>4, <2>5, <2>6, <2>7, <2>8, <2>9, LedgerRests
  <2>11. Frame(b, z) BY <2>7 DEF Rests
  <2> QED BY <2>10, <2>11 DEF z
<1> HIDE DEF o, takerOnly
<1>9. CASE e.isBuy
  <2>1. Rest(m, e) = e.deal /\ e.deal = NoDeal BY <1>4, <1>7, <1>9
  <2>2. CASE remaining < 2 \/ takerOnly
    <3>1. b2 = RejectToNote(b, h, leftover) BY <1>6, <1>9, <2>2
    <3>2. Refused(b, b2, h, leftover) BY <1>1, <1>3, <1>4, <1>9, <3>1, RejectDoes
    <3>3. h \in DOMAIN b.requests /\ Ledger(b, q, h, leftover, NoDeal, dls, tbs)
      BY <1>1, <1>4, <1>9, <2>1
    <3> HIDE DEF b, h, leftover, b2
    <3>4. Ledger(b2, q, 0, 0, NoDeal, dls, tbs) /\ Stored(b2) /\ SameNotes(b, b2)
      BY <1>1, <3>2, <3>3, LedgerRefused
    <3>5. Frame(b, b2) BY <3>2 DEF Refused
    <3> QED BY <3>4, <3>5 DEF b2, b, leftover
  <2>3. CASE ~(remaining < 2 \/ takerOnly)
    <3>1. b2 = InsertIntoBook(b, id, o) BY <1>6, <1>9, <2>3
    <3>2. Goal(InsertIntoBook(b, id, o)) BY <1>8, <2>1, <2>3
    <3> QED BY <3>1, <3>2
  <2> QED BY <2>2, <2>3
<1>10. CASE ~e.isBuy
  <2>1. CASE remaining = 0
    <3>1. b2 = b BY <1>6, <1>10, <2>1
    <3>2. h = 0 /\ Ledger(b, q, 0, leftover, NoDeal, dls, tbs) BY <1>1, <1>5, <1>7, <1>10, <2>1
    <3>3. SameLedger(b, b) /\ Frame(b, b) /\ SameNotes(b, b)
      BY <1>3 DEF SameLedger, Frame, SameNotes
    <3>4. Ledger(b, q, 0, 0, NoDeal, dls, tbs) BY <1>3, <3>2, <3>3, LedgerSame
    <3> QED BY <1>1, <3>1, <3>3, <3>4
  <2>2. CASE remaining # 0 /\ takerOnly
    <3> DEFINE d == e.deal
    <3>1. b2 = OnSellClosed(b, d) BY <1>6, <1>10, <2>2
    <3>2. h = 0 /\ d \in Deals /\ Ledger(b, q, 0, leftover, d, dls, tbs)
      BY <1>1, <1>5, <1>7, <1>10, <2>2
    <3> HIDE DEF d, b2, b, leftover
    <3>3. Closed(b, b2, d)
      BY <1>3, <3>1 DEF Closed, OnSellClosed, Send, Frame, NoFill, BookFields
    <3>4. Ledger(b2, q, 0, 0, NoDeal, dls, tbs) /\ Stored(b2) /\ SameNotes(b, b2)
      BY <1>1, <3>2, <3>3, LedgerClosed
    <3>5. Frame(b, b2) BY <3>3 DEF Closed
    <3> QED BY <3>4, <3>5 DEF b2, b, leftover
  <2>3. CASE remaining # 0 /\ ~takerOnly
    <3>1. b2 = InsertIntoBook(b, id, o) BY <1>6, <1>10, <2>3
    <3>2. Goal(InsertIntoBook(b, id, o)) BY <1>7, <1>8, <2>3
    <3> QED BY <3>1, <3>2
  <2> QED BY <2>1, <2>2, <2>3
<1> QED BY <1>2, <1>9, <1>10

-----------------------------------------------------------------------------
(***************************************************************************)
(* The head of the queue.                                                  *)
(***************************************************************************)
LEMMA EntryKept ==
  ASSUME NEW b, NEW b2, SameNotes(b, b2), NEW e, EntryOK(b, e)
  PROVE  EntryOK(b2, e)
BY TakingKept DEF EntryOK

\* The head is taken in hand.
LEMMA HeadInHand ==
  ASSUME NEW b, NEW dls, NEW tbs, CallInv(b, dls, tbs), b.queue # <<>>
  PROVE  LET e == Head(b.queue)
         IN  /\ e \in EntrySet /\ EntryOK(b, e) /\ ContOK(b, e)
             /\ Ledger(b, Tail(b.queue), e.client, HeldInQueue(e), e.deal, dls, tbs)
<1> DEFINE q == b.queue
           e == Head(q)
<1>1. q \in Seq(EntrySet) /\ b.requests \in Seq(RequestSet) BY DEF CallInv, Stored, BookShape
<1>2. 1 \in DOMAIN q /\ e = q[1] /\ e \in EntrySet BY <1>1
<1>3. EntryOK(b, q[1]) /\ ContOK(b, q[1]) BY <1>2 DEF CallInv, QueueOK
<1>4. Joined(q, Tail(q), 1, e, [k \in DOMAIN Tail(q) |-> k + 1]) BY <1>1, HeadJoined
<1>5. Ledger(b, q, 0, 0, NoDeal, dls, tbs) BY DEF CallInv
<1> HIDE DEF e, q
<1>6. Ledger(b, Tail(q), e.client, HeldInQueue(e), e.deal, dls, tbs)
  BY <1>1, <1>4, <1>5, JoinedLedger
<1> QED BY <1>2, <1>3, <1>6 DEF e, q

\* The head is done with and leaves the queue.
LEMMA HeadGone ==
  ASSUME NEW b, NEW b1, NEW b2, NEW dls, NEW tbs, Stored(b), QueueOK(b), b.queue # <<>>,
         Stored(b1), SameNotes(b, b1), b1.queue = b.queue, b2 = AdvanceHead(b1),
         Ledger(b1, Tail(b.queue), 0, 0, NoDeal, dls, tbs)
  PROVE  CallInv(b2, dls, tbs)
<1> DEFINE q == b.queue
<1>1. q \in Seq(EntrySet) BY DEF Stored, BookShape
<1>2. DOMAIN b1 = BookFields /\ b1.requests \in Seq(RequestSet) /\ b1.trades \in Seq(FillSet)
      /\ b1.nextOrderId \in Nat
  BY DEF Stored, BookShape
<1>3. /\ DOMAIN b2 = BookFields /\ b2.queue = Tail(q) /\ b2.nextOrderId = b1.nextOrderId
      /\ b2.trades = b1.trades /\ SameLedger(b1, b2)
  BY <1>2 DEF AdvanceHead, BookFields, SameLedger
<1>4. Tail(q) \in Seq(EntrySet) BY <1>1
<1>5. Stored(b2)
  <2>1. b2.nextOrderId \in Nat /\ b2.nextOrderId >= b1.nextOrderId BY <1>2, <1>3
  <2>2. b2.queue \in Seq(EntrySet) /\ b2.trades \in Seq(FillSet) BY <1>2, <1>3, <1>4
  <2> QED BY <1>3, <2>1, <2>2, StoredSame
<1>6. Ledger(b2, Tail(q), 0, 0, NoDeal, dls, tbs) BY <1>2, <1>3, LedgerSame
<1>7. Ledger(b2, b2.queue, 0, 0, NoDeal, dls, tbs) BY <1>3, <1>6
<1>8. SameNotes(b, b2) BY <1>3 DEF SameNotes, SameLedger
<1>9. QueueOK(b2)
  <2> SUFFICES ASSUME NEW k \in DOMAIN Tail(q)
               PROVE  EntryOK(b2, Tail(q)[k]) /\ Tail(q)[k].contOrderId = 0
    BY <1>3 DEF QueueOK, ContOK
  <2>1. k + 1 \in DOMAIN q /\ Tail(q)[k] = q[k + 1] /\ k + 1 # 1 BY <1>1
  <2> DEFINE e == q[k + 1]
  <2>2. EntryOK(b, e) /\ e.contOrderId = 0 BY <2>1 DEF QueueOK
  <2> HIDE DEF e
  <2>3. EntryOK(b2, e) BY <1>8, <2>2, EntryKept
  <2> QED BY <2>1, <2>2, <2>3 DEF e
<1> QED BY <1>5, <1>7, <1>9 DEF CallInv

\* A refusal before, or in the middle of, matching.
LEMMA DismissKeeps ==
  ASSUME NEW b, NEW dls, NEW tbs, CallInv(b, dls, tbs), b.queue # <<>>,
         NEW e, e = Head(b.queue), e.type = "place"
  PROVE  CallInv(AdvanceHead(Dismiss(b, e, HeldInQueue(e))), dls, tbs)
<1> DEFINE q == Tail(b.queue)
           held == HeldInQueue(e)
           b1 == Dismiss(b, e, held)
           b2 == AdvanceHead(b1)
<1>1. /\ e \in EntrySet /\ EntryOK(b, e)
      /\ Ledger(b, q, e.client, held, e.deal, dls, tbs)
  BY HeadInHand
<1>2. Stored(b) /\ QueueOK(b) BY DEF CallInv
<1>3. DOMAIN b = BookFields /\ b.requests \in Seq(RequestSet) BY <1>2 DEF Stored, BookShape
<1>4. Taking(b, e) BY <1>1 DEF EntryOK
<1>5. e.isBuy \in BOOLEAN /\ Sides(b, e) /\ held \in Int
  BY <1>1, <1>4 DEF Taking, EntrySet, HeldInQueue
<1>6. Stored(b1) /\ SameNotes(b, b1) /\ b1.queue = b.queue /\ Ledger(b1, q, 0, 0, NoDeal, dls, tbs)
  <2>1. CASE e.isBuy
    <3> DEFINE h == e.client
    <3>1. h \in DOMAIN b.requests /\ e.deal = NoDeal BY <1>5, <2>1 DEF Sides
    <3>2. b1 = RejectToNote(b, h, held) BY <2>1 DEF Dismiss
    <3>3. Ledger(b, q, h, held, NoDeal, dls, tbs) BY <1>1, <3>1
    <3> HIDE DEF h, b1, held, q
    <3>4. Refused(b, b1, h, held) BY <1>3, <1>5, <3>1, <3>2, RejectDoes
    <3>5. Ledger(b1, q, 0, 0, NoDeal, dls, tbs) /\ Stored(b1) /\ SameNotes(b, b1)
      BY <1>2, <1>5, <3>1, <3>3, <3>4, LedgerRefused
    <3> QED BY <3>4, <3>5 DEF Refused, Frame
  <2>2. CASE ~e.isBuy
    <3> DEFINE d == e.deal
    <3>1. e.client = 0 /\ d \in Deals BY <1>5, <2>2 DEF Sides
    <3>2. b1 = OnSellClosed(b, d) BY <2>2, <3>1 DEF Dismiss, RejectToNote, PayShell, Tell
    <3>3. Ledger(b, q, 0, held, d, dls, tbs) BY <1>1, <3>1
    <3> HIDE DEF d, b1, held, q
    <3>4. Closed(b, b1, d)
      BY <1>3, <3>2 DEF Closed, OnSellClosed, Send, Frame, NoFill, BookFields
    <3>5. Ledger(b1, q, 0, 0, NoDeal, dls, tbs) /\ Stored(b1) /\ SameNotes(b, b1)
      BY <1>2, <3>1, <3>3, <3>4, LedgerClosed
    <3> QED BY <3>4, <3>5 DEF Closed, Frame
  <2> QED BY <1>5, <2>1, <2>2
<1> HIDE DEF b1
<1>7. CallInv(b2, dls, tbs) BY <1>2, <1>6, HeadGone
<1> QED BY <1>7 DEF b1

LEMMA ContinuedIs ==
  ASSUME NEW e \in EntrySet, NEW id \in Nat, NEW m, m.remaining \in Int, m.leftover \in Int,
         m.resume \in Nat
  PROVE  LET e2 == Continued(e, id, m)
         IN  /\ e2 \in EntrySet /\ e2.contOrderId = id /\ e2.contRemaining = m.remaining
             /\ e2.contLeftover = m.leftover /\ e2.contScanOrder = m.resume
             /\ e2.type = e.type /\ e2.note = e.note /\ e2.isBuy = e.isBuy /\ e2.flags = e.flags
             /\ e2.price = e.price /\ e2.amount = e.amount /\ e2.deal = e.deal
             /\ e2.client = e.client
BY DEF Continued, EntrySet

LEMMA CappedKeeps ==
  ASSUME NEW b, NEW m, NEW b2, NEW e, NEW id, NEW dls, NEW tbs, Stored(b), QueueOK(b),
         b.queue # <<>>, EntryOK(b, e), e.type = "place", SameNotes(b, m.book),
         WalkOK(m, e, Tail(b.queue), dls, tbs), m.resume # 0,
         id \in Nat \ {0}, id < m.book.nextOrderId, id \notin DOMAIN m.book.orders,
         Capped(b, m, b2, e, id)
  PROVE  CallInv(b2, dls, tbs)
<1> DEFINE q == b.queue
           e2 == Continued(e, id, m)
<1>1. q \in Seq(EntrySet) BY DEF Stored, BookShape
<1>2. /\ WalkShape(m, e) /\ Ledger(m.book, Tail(q), e.client, m.leftover, Rest(m, e), dls, tbs)
      /\ ~e.isBuy => m.remaining <= AskTicks[e.deal]
      /\ m.remaining # 0
  BY DEF WalkOK
<1>3. /\ Stored(m.book) /\ m.remaining \in Int /\ m.leftover \in Int /\ m.resume \in Nat
      /\ m.resume \in Crossing(m.book, e)
  BY <1>2 DEF WalkShape
<1>4. Taking(b, e) /\ e \in EntrySet /\ (~e.isBuy => e.amount # 0) BY DEF EntryOK, Taking
<1>5. /\ e2 \in EntrySet /\ e2.contOrderId = id /\ e2.contRemaining = m.remaining
      /\ e2.contLeftover = m.leftover /\ e2.contScanOrder = m.resume
      /\ e2.type = e.type /\ e2.note = e.note /\ e2.isBuy = e.isBuy /\ e2.flags = e.flags
      /\ e2.price = e.price /\ e2.amount = e.amount /\ e2.deal = e.deal
      /\ e2.client = e.client
  <2>1. id \in Nat /\ e \in EntrySet /\ m.remaining \in Int /\ m.leftover \in Int /\ m.resume \in Nat
    BY <1>3, <1>4
  <2> QED BY ONLY <2>1, ContinuedIs
<1>6. b2.queue = [q EXCEPT ![1] = e2] BY DEF Capped
<1> HIDE DEF e2
<1>7. 1 \in DOMAIN q BY <1>1
<1>8. b2.queue \in Seq(EntrySet)
  <2> HIDE DEF EntrySet
  <2> QED BY <1>1, <1>5, <1>6, <1>7
<1>9. SameLedger(m.book, b2) /\ DOMAIN b2 = BookFields /\ b2.nextOrderId = m.book.nextOrderId
      /\ b2.trades = m.book.trades
  BY DEF Capped
<1>10. m.book.nextOrderId \in Nat /\ m.book.trades \in Seq(FillSet) /\ m.book.requests \in Seq(RequestSet)
  BY <1>3 DEF Stored, BookShape
<1>11. Stored(b2)
  <2>1. b2.nextOrderId \in Nat /\ b2.nextOrderId >= m.book.nextOrderId BY <1>9, <1>10
  <2>2. b2.trades \in Seq(FillSet) BY <1>9, <1>10
  <2> QED BY <1>3, <1>8, <1>9, <2>1, <2>2, StoredSame
<1>12. Ledger(b2, b2.queue, 0, 0, NoDeal, dls, tbs)
  <2>1. HeldInQueue(e2) = m.leftover BY <1>5 DEF HeldInQueue
  <2>2. Rest(m, e) = e2.deal BY <1>2, <1>5 DEF Rest
  <2>3. Ledger(m.book, Tail(q), e2.client, HeldInQueue(e2), e2.deal, dls, tbs)
    BY <1>2, <1>5, <2>1, <2>2
  <2> DEFINE q2 == b2.queue
  <2>4. Joined(q2, Tail(q), 1, e2, [k \in DOMAIN Tail(q) |-> k + 1]) BY <1>1, <1>6, HeadJoined
  <2> HIDE DEF q2
  <2>5. Ledger(m.book, q2, 0, 0, NoDeal, dls, tbs) BY <1>10, <2>3, <2>4, JoinedLedger
  <2>6. Ledger(b2, q2, 0, 0, NoDeal, dls, tbs) BY <1>9, <1>10, <2>5, LedgerSame
  <2> QED BY <2>6 DEF q2
<1>13. SameNotes(b, b2) BY <1>9 DEF SameNotes, SameLedger
<1>14. EntryOK(b2, e2) /\ ContOK(b2, e2)
  <2>1. Taking(b2, e) BY <1>4, <1>13, TakingKept
  <2>2. Taking(b2, e2) BY <1>5, <2>1 DEF Taking, Sides
  <2>3. EntryOK(b2, e2) BY <1>4, <1>5, <2>2 DEF EntryOK
  <2>4. e2.contScanOrder \in Crossing(b2, e2)
    BY <1>3, <1>5, <1>9 DEF Crossing, Crosses, SameLedger
  <2>5. id < b2.nextOrderId /\ id \notin DOMAIN b2.orders BY <1>9 DEF SameLedger
  <2> QED BY <1>2, <1>5, <2>3, <2>4, <2>5 DEF ContOK
<1>15. QueueOK(b2)
  <2> SUFFICES ASSUME NEW k \in DOMAIN b2.queue
               PROVE  /\ EntryOK(b2, b2.queue[k]) /\ ContOK(b2, b2.queue[k])
                      /\ b2.queue[k].contOrderId # 0 => k = 1
    BY DEF QueueOK
  <2>1. k \in DOMAIN q BY <1>6
  <2>2. CASE k = 1
    <3>1. b2.queue[k] = e2 BY <1>6, <1>7, <2>2
    <3> QED BY <1>14, <2>2, <3>1
  <2>3. CASE k # 1
    <3> DEFINE y == q[k]
    <3>1. b2.queue[k] = y BY <1>6, <2>1, <2>3
    <3>2. EntryOK(b, y) /\ y.contOrderId = 0 BY <2>1, <2>3 DEF QueueOK
    <3> HIDE DEF y
    <3>3. EntryOK(b2, y) BY <1>13, <3>2, EntryKept
    <3> QED BY <3>1, <3>2, <3>3 DEF ContOK
  <2> QED BY <2>2, <2>3
<1> QED BY <1>11, <1>12, <1>15 DEF CallInv

LEMMA ReadyIs ==
  ASSUME NEW b, NEW dls, NEW tbs, CallInv(b, dls, tbs), b.queue # <<>>,
         NEW e, e = Head(b.queue), e.type = "place"
  PROVE  /\ e \in EntrySet /\ Taking(b, e) /\ ContOK(b, e) /\ e.isBuy \in BOOLEAN
         /\ HeldInQueue(e) \in Int /\ Volume(e) \in Int /\ e.contOrderId \in Nat
         /\ ~e.isBuy => Volume(e) <= AskTicks[e.deal] /\ Volume(e) # 0
         /\ SameLedger(b, Ready(b, e)) /\ Stored(Ready(b, e)) /\ SameNotes(b, Ready(b, e))
         /\ Ready(b, e).queue = b.queue /\ Ready(b, e).trades = b.trades
         /\ Taking(Ready(b, e), e)
         /\ Number(b, e) \in Nat \ {0} /\ Number(b, e) < Ready(b, e).nextOrderId
         /\ Number(b, e) \notin DOMAIN b.orders
<1> DEFINE first == e.contOrderId = 0
           id    == Number(b, e)
           ready == Ready(b, e)
<1>1. /\ e \in EntrySet /\ EntryOK(b, e) /\ ContOK(b, e) BY HeadInHand
<1>2. Stored(b) BY DEF CallInv
<1>3. /\ DOMAIN b = BookFields /\ b.requests \in Seq(RequestSet) /\ b.nextOrderId \in Nat \ {0}
      /\ b.queue \in Seq(EntrySet) /\ b.trades \in Seq(FillSet)
      /\ DOMAIN b.orders \subseteq 1..(b.nextOrderId - 1)
  BY <1>2 DEF Stored, BookShape
<1>4. Taking(b, e) /\ (~e.isBuy => e.amount # 0) BY <1>1 DEF EntryOK
<1>5. /\ e.isBuy \in BOOLEAN /\ Sides(b, e) /\ HeldInQueue(e) \in Int /\ Volume(e) \in Int
      /\ e.contOrderId \in Nat
  BY <1>1, <1>4 DEF Taking, EntrySet, HeldInQueue, Volume
<1>6. ~e.isBuy => Volume(e) <= AskTicks[e.deal] /\ Volume(e) # 0
  BY <1>1, <1>4, <1>5 DEF Sides, ContOK, Volume
<1>7. /\ DOMAIN ready = BookFields /\ ready.queue = b.queue /\ ready.trades = b.trades
      /\ SameLedger(b, ready)
      /\ ready.nextOrderId = IF first THEN b.nextOrderId + 1 ELSE b.nextOrderId
  BY <1>3 DEF BookFields, SameLedger, Ready
<1>8. id \in Nat \ {0} /\ id < ready.nextOrderId /\ id \notin DOMAIN b.orders
  <2>1. id = IF first THEN b.nextOrderId ELSE e.contOrderId BY DEF Number
  <2> HIDE DEF id, ready
  <2>2. CASE first BY <1>3, <1>7, <2>1, <2>2
  <2>3. CASE ~first BY <1>1, <1>3, <1>5, <1>7, <2>1, <2>3 DEF ContOK
  <2> QED BY <2>2, <2>3
<1> HIDE DEF ready, id
<1>9. Stored(ready) /\ SameNotes(b, ready)
  <2>1. ready.nextOrderId \in Nat /\ ready.nextOrderId >= b.nextOrderId BY <1>3, <1>7
  <2>2. ready.queue \in Seq(EntrySet) /\ ready.trades \in Seq(FillSet) BY <1>3, <1>7
  <2>3. Stored(ready) BY <1>2, <1>7, <2>1, <2>2, StoredSame
  <2> QED BY <1>3, <1>7, <2>3 DEF SameLedger, SameNotes
<1>10. Taking(ready, e) BY <1>4, <1>9, TakingKept
<1> QED BY <1>1, <1>4, <1>5, <1>6, <1>7, <1>8, <1>9, <1>10 DEF ready, id

\* The head stays, with what the walk left, or goes.
LEMMA DoMatchDoes ==
  ASSUME NEW b, NEW e, NEW m, m = Matching(b, e), DOMAIN m.book = BookFields,
         b.queue \in Seq(EntrySet), b.queue # <<>>, e = Head(b.queue), m.book.queue = b.queue
  PROVE  /\ m.resume # 0 => Capped(b, m, DoMatch(b, e), e, Number(b, e))
         /\ m.resume = 0 =>
              DoMatch(b, e) =
                AdvanceHead(FinalizeTaker(m.book, e, Number(b, e), m.remaining, m.leftover))
<1> DEFINE id == Number(b, e)
           b2 == [m.book EXCEPT !.queue[1].contOrderId = id,
                                !.queue[1].contRemaining = m.remaining,
                                !.queue[1].contLeftover = m.leftover,
                                !.queue[1].contScanOrder = m.resume]
<1>1. DoMatch(b, e) = IF m.resume # 0 THEN b2
                      ELSE AdvanceHead(FinalizeTaker(m.book, e, id, m.remaining, m.leftover))
  BY DEF DoMatch, Matching, Ready, Volume, Number
<1> HIDE DEF id
<1>2. 1 \in DOMAIN b.queue /\ b.queue[1] = e OBVIOUS
<1>3. DOMAIN b2 = BookFields /\ b2.nextOrderId = m.book.nextOrderId /\ b2.trades = m.book.trades
  BY DEF BookFields
<1>4. SameLedger(m.book, b2) BY DEF BookFields, SameLedger
<1>5. b2.queue = [b.queue EXCEPT ![1] = Continued(e, id, m)]
  <2> DEFINE f == b.queue
  <2>1. b2.queue = [[[[f EXCEPT ![1].contOrderId = id] EXCEPT ![1].contRemaining = m.remaining]
                      EXCEPT ![1].contLeftover = m.leftover] EXCEPT ![1].contScanOrder = m.resume]
    BY DEF BookFields
  <2> HIDE DEF b2
  <2> QED BY <1>2, <2>1 DEF Continued
<1>6. Capped(b, m, b2, e, id) BY <1>3, <1>4, <1>5 DEF Capped
<1> HIDE DEF b2
<1> QED BY <1>1, <1>6 DEF id

LEMMA DoMatchKeeps ==
  ASSUME NEW b, NEW dls, NEW tbs, CallInv(b, dls, tbs), b.queue # <<>>,
         NEW e, e = Head(b.queue), e.type = "place"
  PROVE  CallInv(DoMatch(b, e), dls, tbs)
<1> DEFINE q == Tail(b.queue)
           held == HeldInQueue(e)
           id    == Number(b, e)
           ready == Ready(b, e)
           amount == Volume(e)
           m     == Matching(b, e)
<1>1. /\ e \in EntrySet /\ EntryOK(b, e) /\ Ledger(b, q, e.client, held, e.deal, dls, tbs)
  BY HeadInHand
<1>2. Stored(b) /\ QueueOK(b) BY DEF CallInv
<1>3. b.requests \in Seq(RequestSet) /\ b.queue \in Seq(EntrySet) BY <1>2 DEF Stored, BookShape
<1>4. /\ held \in Int /\ amount \in Int /\ (~e.isBuy => amount <= AskTicks[e.deal] /\ amount # 0)
      /\ SameLedger(b, ready) /\ Stored(ready) /\ SameNotes(b, ready) /\ ready.queue = b.queue
      /\ Taking(ready, e) /\ id \in Nat \ {0} /\ id < ready.nextOrderId /\ id \notin DOMAIN b.orders
  BY ReadyIs
<1>5. m = Match(ready, e, amount, held, e.contScanOrder) BY DEF Matching
<1>6. ready.orders = b.orders BY <1>4 DEF SameLedger
<1> HIDE DEF amount, held, q, ready, id, m
<1>7. Ledger(ready, q, e.client, held, e.deal, dls, tbs) BY <1>1, <1>3, <1>4, LedgerSame
<1>8. WalkOK(m, e, q, dls, tbs) /\ Later(ready, m.book)
  BY <1>4, <1>5, <1>7, MatchKeeps
<1>9. /\ SameNotes(b, m.book) /\ m.book.queue = b.queue /\ DOMAIN m.book = BookFields
      /\ id < m.book.nextOrderId /\ id \notin DOMAIN m.book.orders
  BY <1>4, <1>6, <1>8 DEF Later, Frame, SameNotes
<1> DEFINE b2 == DoMatch(b, e)
<1>10. /\ m.resume # 0 => Capped(b, m, b2, e, id)
       /\ m.resume = 0 => b2 = AdvanceHead(FinalizeTaker(m.book, e, id, m.remaining, m.leftover))
  BY <1>3, <1>9, DoMatchDoes DEF m, id
<1> HIDE DEF b2
<1>11. CASE m.resume # 0
  <2>1. CallInv(b2, dls, tbs) BY <1>1, <1>2, <1>4, <1>8, <1>9, <1>10, <1>11, CappedKeeps DEF q
  <2> QED BY <2>1 DEF b2
<1>12. CASE m.resume = 0
  <2> DEFINE b1 == FinalizeTaker(m.book, e, id, m.remaining, m.leftover)
  <2>1. /\ Stored(b1) /\ SameNotes(m.book, b1) /\ Frame(m.book, b1)
        /\ Ledger(b1, q, 0, 0, NoDeal, dls, tbs)
    BY <1>4, <1>8, <1>9, FinalizeKeeps
  <2>2. b2 = AdvanceHead(b1) BY <1>10, <1>12
  <2> HIDE DEF b1
  <2>3. SameNotes(b, b1) /\ b1.queue = b.queue BY <1>9, <2>1 DEF SameNotes, Frame
  <2>4. CallInv(b2, dls, tbs) BY <1>2, <2>1, <2>2, <2>3, HeadGone DEF q
  <2> QED BY <2>4 DEF b2
<1> QED BY <1>11, <1>12

-----------------------------------------------------------------------------
(***************************************************************************)
(* Cancellation and expiry.                                                *)
(***************************************************************************)
LEMMA LeavesKeeps ==
  ASSUME NEW b, NEW b2, NEW q, NEW dls, NEW tbs, Stored(b), NEW i \in DOMAIN b.orders,
         Leaves(b, b2, i), Ledger(b, q, 0, 0, NoDeal, dls, tbs)
  PROVE  /\ Stored(b2) /\ SameNotes(b, b2) /\ Frame(b, b2) /\ Ledger(b2, q, 0, 0, NoDeal, dls, tbs)
         /\ b2.orders = Without(b.orders, i) /\ Thinned(b, b2)
<1>1. Stored(b2) /\ SameNotes(b, b2) BY LeavesStored
<1>2. Frame(b, b2) /\ NoFill(b, b2) /\ b2.orders = Without(b.orders, i) BY LeavesTouches
<1>3. Ledger(b2, q, 0, 0, NoDeal, dls, tbs) BY LedgerLeaves
<1>4. Thinned(b, b2) BY <1>2 DEF Thinned, NoFill, Without
<1> QED BY <1>1, <1>2, <1>3, <1>4

\* A cancel or an expiry of one order, or of none.
LEMMA RemovalKeeps ==
  ASSUME NEW b, NEW b1, NEW dls, NEW tbs, CallInv(b, dls, tbs), b.queue # <<>>,
         Head(b.queue).type # "place",
         b1 = b \/ \E i \in DOMAIN b.orders : Leaves(b, b1, i)
  PROVE  CallInv(AdvanceHead(b1), dls, tbs)
<1> DEFINE q == Tail(b.queue)
           e == Head(b.queue)
<1>1. EntryOK(b, e) /\ Ledger(b, q, e.client, HeldInQueue(e), e.deal, dls, tbs) BY HeadInHand
<1>2. e.client = 0 /\ e.deal = NoDeal BY <1>1 DEF EntryOK
<1>3. Stored(b) /\ QueueOK(b) BY DEF CallInv
<1>4. DOMAIN b = BookFields /\ b.requests \in Seq(RequestSet) BY <1>3 DEF Stored, BookShape
<1>5. Ledger(b, q, 0, 0, NoDeal, dls, tbs)
  <2>1. Ledger(b, q, 0, HeldInQueue(e), NoDeal, dls, tbs) BY <1>1, <1>2
  <2>2. SameLedger(b, b) BY DEF SameLedger
  <2> HIDE DEF e, q
  <2> QED BY <1>4, <2>1, <2>2, LedgerSame
<1> HIDE DEF q
<1>6. Stored(b1) /\ SameNotes(b, b1) /\ b1.queue = b.queue /\ Ledger(b1, q, 0, 0, NoDeal, dls, tbs)
  <2>1. CASE b1 = b BY <1>3, <1>4, <1>5, <2>1 DEF SameNotes
  <2>2. CASE \E i \in DOMAIN b.orders : Leaves(b, b1, i)
    <3>1. PICK i \in DOMAIN b.orders : Leaves(b, b1, i) BY <2>2
    <3>2. Stored(b1) /\ SameNotes(b, b1) /\ Frame(b, b1) /\ Ledger(b1, q, 0, 0, NoDeal, dls, tbs)
      BY <1>3, <1>5, <3>1, LeavesKeeps
    <3> QED BY <3>2 DEF Frame
  <2> QED BY <2>1, <2>2
<1> QED BY <1>3, <1>6, HeadGone DEF q

LEMMA DoCancelKeeps ==
  ASSUME NEW b, NEW dls, NEW tbs, CallInv(b, dls, tbs), b.queue # <<>>,
         Head(b.queue).type # "place", NEW note, NEW id
  PROVE  CallInv(AdvanceHead(DoCancel(b, note, id)), dls, tbs)
<1> DEFINE b1 == DoCancel(b, note, id)
<1>1. Stored(b) BY DEF CallInv
<1>2. b1 = b \/ \E i \in DOMAIN b.orders : Leaves(b, b1, i)
  BY <1>1, CancelledDoes DEF DoCancel
<1> HIDE DEF b1
<1>3. CallInv(AdvanceHead(b1), dls, tbs) BY <1>2, RemovalKeeps
<1> QED BY <1>3 DEF b1

LEMMA DoExpireKeeps ==
  ASSUME NEW b, NEW dls, NEW tbs, CallInv(b, dls, tbs), b.queue # <<>>,
         Head(b.queue).type # "place", NEW id
  PROVE  CallInv(AdvanceHead(DoExpire(b, id)), dls, tbs)
<1> DEFINE b1 == DoExpire(b, id)
<1>1. Stored(b) BY DEF CallInv
<1>2. b1 = b \/ \E i \in DOMAIN b.orders : Leaves(b, b1, i)
  BY <1>1, ExpiredDoes DEF DoExpire
<1> HIDE DEF b1
<1>3. CallInv(AdvanceHead(b1), dls, tbs) BY <1>2, RemovalKeeps
<1> QED BY <1>3 DEF b1

LEMMA CancelledDef ==
  ASSUME NEW b, NEW note, NEW n \in Nat
  PROVE  LET w == CancelledFrom(b, note, n)
         IN  w[0] = b /\ \A k \in 1..n : w[k] = CancelFirst(w[k - 1], note)
<1> DEFINE Is(f, j) == f = [k \in 0..j |-> IF k = 0 THEN b ELSE CancelFirst(f[k - 1], note)]
           G == {j \in Nat : \E f : Is(f, j)}
<1>2. 0 \in G
  <2> DEFINE f == [k \in 0..0 |-> b]
  <2>1. Is(f, 0) OBVIOUS
  <2> QED BY <2>1
<1>3. ASSUME NEW j \in 1..n, j - 1 \in G PROVE j \in G
  <2>1. PICK g : Is(g, j - 1) BY <1>3
  <2> DEFINE f == [k \in 0..j |-> IF k = 0 THEN b ELSE CancelFirst(g[k - 1], note)]
  <2>2. \A k \in 0..(j - 1) : f[k] = g[k] BY <2>1
  <2>3. ASSUME NEW k \in 1..j PROVE CancelFirst(f[k - 1], note) = CancelFirst(g[k - 1], note)
    <3> HIDE DEF f
    <3>1. f[k - 1] = g[k - 1] BY <2>2
    <3> QED BY <3>1
  <2> HIDE DEF f
  <2>4. f = [k \in 0..j |-> IF k = 0 THEN b ELSE CancelFirst(g[k - 1], note)] BY DEF f
  <2>6. \A k \in 0..j : (IF k = 0 THEN b ELSE CancelFirst(g[k - 1], note))
                          = (IF k = 0 THEN b ELSE CancelFirst(f[k - 1], note)) BY <2>3
  <2>7. [k \in 0..j |-> IF k = 0 THEN b ELSE CancelFirst(g[k - 1], note)]
          = [k \in 0..j |-> IF k = 0 THEN b ELSE CancelFirst(f[k - 1], note)] BY <2>6
  <2>5. Is(f, j) BY <2>4, <2>7
  <2> QED BY <2>5
<1> HIDE DEF G
<1>4. \A k \in 0..n : k \in G BY <1>2, <1>3, UpTo
<1>5. \E f : Is(f, n) BY <1>4 DEF G
<1>6. Is(CancelledFrom(b, note, n), n) BY <1>5 DEF CancelledFrom, CancelFirst
<1> QED BY <1>6

LEMMA CancelFirstDoes ==
  ASSUME NEW b, Stored(b), NEW note, OwnOrders(b, note) # {}
  PROVE  \E i \in OwnOrders(b, note) : Leaves(b, CancelFirst(b, note), i)
<1> DEFINE own == OwnOrders(b, note)
           i == CHOOSE x \in own : \A y \in own : x <= y
<1>1. own \in SUBSET DOMAIN b.orders BY DEF OwnOrders
<1>2. own \in SUBSET Nat BY <1>1, OrderOf DEF Stored
<1> HIDE DEF own
<1>3. \E x \in own : \A y \in own : x <= y BY <1>2, LeastNat DEF own
<1>4. i \in own BY <1>3
<1>5. CancelFirst(b, note) = Cancelled(b, i) BY DEF CancelFirst, own
<1> HIDE DEF i
<1>6. Leaves(b, Cancelled(b, i), i) BY <1>1, <1>4, CancelledDoes
<1> QED BY <1>4, <1>5, <1>6 DEF own

\* Any number of removals, as many as the owner has orders.
LEMMA CancelsKeep ==
  ASSUME NEW b, NEW q, NEW dls, NEW tbs, NEW note, NEW n \in Nat, Stored(b),
         n <= Cardinality(OwnOrders(b, note)), Ledger(b, q, 0, 0, NoDeal, dls, tbs)
  PROVE  LET b2 == CancelledFrom(b, note, n)[n]
         IN  /\ Stored(b2) /\ SameNotes(b, b2) /\ Frame(b, b2) /\ Thinned(b, b2)
             /\ Ledger(b2, q, 0, 0, NoDeal, dls, tbs)
<1> DEFINE w == CancelledFrom(b, note, n)
           P(z) == /\ Stored(z) /\ SameNotes(b, z) /\ Frame(b, z) /\ Thinned(b, z)
                   /\ Ledger(z, q, 0, 0, NoDeal, dls, tbs)
           C(z) == Cardinality(OwnOrders(z, note))
           G == {k \in Nat : P(w[k]) /\ C(w[k]) = C(b) - k}
<1>1. w[0] = b /\ \A k \in 1..n : w[k] = CancelFirst(w[k - 1], note) BY CancelledDef
<1> HIDE DEF w
<1>2. ASSUME NEW z, Stored(z) PROVE IsFiniteSet(OwnOrders(z, note)) /\ C(z) \in Nat
  <2>1. IsFiniteSet(DOMAIN z.orders) BY <1>2, BookFinite DEF Stored
  <2>2. OwnOrders(z, note) \subseteq DOMAIN z.orders BY DEF OwnOrders
  <2>3. IsFiniteSet(OwnOrders(z, note)) BY <2>1, <2>2, FS_Subset
  <2> QED BY <2>3, FS_CardinalityType
<1>3. 0 \in G
  <2>1. SameNotes(b, b) /\ Frame(b, b) /\ Thinned(b, b)
    BY DEF SameNotes, Frame, Thinned, Stored, BookShape
  <2>2. C(b) = C(b) - 0 BY <1>2
  <2> HIDE DEF C
  <2> QED BY <1>1, <2>1, <2>2
<1>4. ASSUME NEW k \in 1..n, k - 1 \in G PROVE k \in G
  <2> DEFINE y == w[k - 1]
             z == w[k]
  <2>1. P(y) /\ C(y) = C(b) - (k - 1) BY <1>4
  <2>2. z = CancelFirst(y, note) BY <1>1
  <2> HIDE DEF y, z
  <2>3. C(b) \in Nat /\ C(y) \in Nat /\ IsFiniteSet(OwnOrders(y, note)) BY <1>2, <2>1
  <2>4. OwnOrders(y, note) # {}
    <3>1. C(y) # 0 BY <2>1, <2>3
    <3> QED BY <3>1, FS_EmptySet
  <2>5. PICK i \in OwnOrders(y, note) : Leaves(y, z, i) BY <2>1, <2>2, <2>4, CancelFirstDoes
  <2>6. i \in DOMAIN y.orders BY DEF OwnOrders
  <2>7. /\ Stored(z) /\ SameNotes(y, z) /\ Frame(y, z) /\ Ledger(z, q, 0, 0, NoDeal, dls, tbs)
        /\ z.orders = Without(y.orders, i) /\ Thinned(y, z)
    BY <2>1, <2>5, <2>6, LeavesKeeps
  <2>8. P(z) BY <2>1, <2>7 DEF SameNotes, Frame, Thinned
  <2>9. OwnOrders(z, note) = OwnOrders(y, note) \ {i} BY <2>7 DEF OwnOrders, Without
  <2>10. C(z) = C(y) - 1 BY <2>3, <2>5, <2>9, FS_RemoveElement
  <2> HIDE DEF P, C
  <2>11. C(z) = C(b) - k BY <2>1, <2>3, <2>10
  <2> QED BY <2>8, <2>11 DEF z
<1> HIDE DEF G
<1>5. \A k \in 0..n : k \in G BY <1>3, <1>4, UpTo
<1>6. n \in G BY <1>5
<1>7. P(w[n]) BY <1>6 DEF G
<1> QED BY <1>7 DEF w

LEMMA DoCancelAllKeeps ==
  ASSUME NEW b, NEW dls, NEW tbs, CallInv(b, dls, tbs), b.queue # <<>>,
         Head(b.queue).type # "place", NEW note
  PROVE  CallInv(DoCancelAll(b, note), dls, tbs)
<1> DEFINE q == Tail(b.queue)
           e == Head(b.queue)
           card == Cardinality(OwnOrders(b, note))
           n == Lesser(card, MAX_CANCEL_PER_CALL)
           done == CancelledFrom(b, note, n)[n]
<1>1. EntryOK(b, e) /\ Ledger(b, q, e.client, HeldInQueue(e), e.deal, dls, tbs) BY HeadInHand
<1>2. e.client = 0 /\ e.deal = NoDeal /\ e.contOrderId = 0 BY <1>1 DEF EntryOK
<1>3. Stored(b) /\ QueueOK(b) /\ Ledger(b, b.queue, 0, 0, NoDeal, dls, tbs) BY DEF CallInv
<1>4. b.queue \in Seq(EntrySet) /\ b.requests \in Seq(RequestSet) BY <1>3 DEF Stored, BookShape
<1>5. Ledger(b, q, 0, 0, NoDeal, dls, tbs)
  <2>1. Ledger(b, q, 0, HeldInQueue(e), NoDeal, dls, tbs) BY <1>1, <1>2
  <2>2. SameLedger(b, b) BY DEF SameLedger
  <2> HIDE DEF e, q
  <2> QED BY <1>4, <2>1, <2>2, LedgerSame
<1>6. card \in Nat
  <2>1. IsFiniteSet(DOMAIN b.orders) BY <1>3, BookFinite DEF Stored
  <2>2. OwnOrders(b, note) \subseteq DOMAIN b.orders BY DEF OwnOrders
  <2> QED BY <2>1, <2>2, FS_Subset, FS_CardinalityType
<1>7. n \in Nat /\ n <= card
  <2> HIDE DEF card
  <2> QED BY <1>6, BookAssumption DEF Lesser
<1>8. DoCancelAll(b, note) = IF n >= MAX_CANCEL_PER_CALL THEN done ELSE AdvanceHead(done)
  BY DEF DoCancelAll
<1> HIDE DEF n
<1>9. /\ Stored(done) /\ SameNotes(b, done) /\ Frame(b, done)
      /\ Ledger(done, q, 0, 0, NoDeal, dls, tbs)
  <2> HIDE DEF q
  <2> QED BY <1>3, <1>5, <1>7, CancelsKeep
<1>10. Ledger(done, b.queue, 0, 0, NoDeal, dls, tbs)
  <2> DEFINE x == b.queue
  <2>1. Ledger(b, x, 0, 0, NoDeal, dls, tbs) BY <1>3
  <2> HIDE DEF x
  <2>2. Ledger(done, x, 0, 0, NoDeal, dls, tbs) BY <1>3, <1>7, <2>1, CancelsKeep
  <2> QED BY <2>2 DEF x
<1> HIDE DEF done
<1>11. done.queue = b.queue BY <1>9 DEF Frame
<1>12. CallInv(AdvanceHead(done), dls, tbs) BY <1>3, <1>9, <1>11, HeadGone
<1>13. CallInv(done, dls, tbs)
  <2>1. QueueOK(done)
    <3> SUFFICES ASSUME NEW k \in DOMAIN b.queue
                 PROVE  EntryOK(done, b.queue[k]) /\ b.queue[k].contOrderId = 0
      BY <1>11 DEF QueueOK, ContOK
    <3> DEFINE y == b.queue[k]
    <3>1. EntryOK(b, y) /\ (y.contOrderId # 0 => k = 1) BY <1>3 DEF QueueOK
    <3>2. k = 1 => y = e BY <1>4
    <3> HIDE DEF y, e
    <3>3. EntryOK(done, y) BY <1>9, <3>1, EntryKept
    <3> QED BY <1>2, <3>1, <3>2, <3>3 DEF y
  <2> QED BY <1>9, <1>10, <1>11, <2>1 DEF CallInv
<1> QED BY <1>8, <1>12, <1>13

LEMMA ProcessHeadKeeps ==
  ASSUME NEW b, NEW dls, NEW tbs, CallInv(b, dls, tbs)
  PROVE  CallInv(ProcessHeadCore(b), dls, tbs)
<1>1. CASE b.queue = <<>> BY <1>1 DEF ProcessHeadCore
<1>2. CASE b.queue # <<>>
  <2> DEFINE e == Head(b.queue)
  <2>1. e \in EntrySet BY <1>2, HeadInHand
  <2>2. e.type \in {"place", "cancel", "cancelAll", "expire"} BY <2>1 DEF EntrySet
  <2>3. CASE e.type = "cancel"
    <3>1. ProcessHeadCore(b) = AdvanceHead(DoCancel(b, e.note, e.target))
      BY <1>2, <2>3 DEF ProcessHeadCore
    <3> QED BY <1>2, <2>3, <3>1, DoCancelKeeps
  <2>4. CASE e.type = "cancelAll"
    <3>1. ProcessHeadCore(b) = DoCancelAll(b, e.note) BY <1>2, <2>4 DEF ProcessHeadCore
    <3> QED BY <1>2, <2>4, <3>1, DoCancelAllKeeps
  <2>5. CASE e.type = "expire"
    <3>1. ProcessHeadCore(b) = AdvanceHead(DoExpire(b, e.target))
      BY <1>2, <2>5 DEF ProcessHeadCore
    <3> QED BY <1>2, <2>5, <3>1, DoExpireKeeps
  <2>6. CASE e.type = "place"
    <3>1. ProcessHeadCore(b) = DoPlaceHead(b, e) BY <1>2, <2>6 DEF ProcessHeadCore
    <3>2. \/ DoPlaceHead(b, e) = AdvanceHead(Dismiss(b, e, HeldInQueue(e)))
          \/ DoPlaceHead(b, e) = DoMatch(b, e)
      BY DEF DoPlaceHead
    <3>3. CallInv(AdvanceHead(Dismiss(b, e, HeldInQueue(e))), dls, tbs)
      BY <1>2, <2>6, DismissKeeps
    <3>4. CallInv(DoMatch(b, e), dls, tbs) BY <1>2, <2>6, DoMatchKeeps
    <3> QED BY <3>1, <3>2, <3>3, <3>4
  <2> QED BY <2>2, <2>3, <2>4, <2>5, <2>6
<1> QED BY <1>1, <1>2

-----------------------------------------------------------------------------
(***************************************************************************)
(* The calls.                                                              *)
(***************************************************************************)
LEMMA EnqueueKeeps ==
  ASSUME NEW b, NEW e, NEW dls, NEW tbs, Stored(b), QueueOK(b), e \in EntrySet, EntryOK(b, e),
         e.contOrderId = 0,
         Ledger(b, b.queue, e.client, HeldInQueue(e), e.deal, dls, tbs)
  PROVE  CallInv(Enqueue(b, e), dls, tbs)
<1> DEFINE q == b.queue
           b2 == Enqueue(b, e)
<1>1. /\ q \in Seq(EntrySet) /\ DOMAIN b = BookFields /\ b.nextOrderId \in Nat
      /\ b.requests \in Seq(RequestSet)
  BY DEF Stored, BookShape
<1>2. /\ DOMAIN b2 = BookFields /\ SameLedger(b, b2) /\ b2.nextOrderId = b.nextOrderId
      /\ b2.queue = Append(q, e) /\ b2.trades = <<>>
  BY <1>1 DEF Enqueue, BookFields, SameLedger
<1> HIDE DEF b2
<1>3. Append(q, e) \in Seq(EntrySet) /\ <<>> \in Seq(FillSet) BY <1>1
<1>4. Stored(b2)
  <2>1. b2.nextOrderId \in Nat /\ b2.nextOrderId >= b.nextOrderId BY <1>1, <1>2
  <2>2. b2.queue \in Seq(EntrySet) /\ b2.trades \in Seq(FillSet) BY <1>2, <1>3
  <2> QED BY <1>2, <2>1, <2>2, StoredSame
<1>5. Ledger(b2, b2.queue, 0, 0, NoDeal, dls, tbs)
  <2> DEFINE q2 == Append(q, e)
  <2>1. Joined(q2, q, Len(q) + 1, e, [k \in DOMAIN q |-> k]) BY <1>1, LastJoined
  <2> HIDE DEF q2
  <2>2. Ledger(b, q2, 0, 0, NoDeal, dls, tbs) BY <1>1, <2>1, JoinedLedger
  <2>3. Ledger(b2, q2, 0, 0, NoDeal, dls, tbs) BY <1>1, <1>2, <2>2, LedgerSame
  <2> QED BY <1>2, <2>3 DEF q2
<1>6. SameNotes(b, b2) BY <1>1, <1>2 DEF SameLedger, SameNotes
<1>7. QueueOK(b2)
  <2> SUFFICES ASSUME NEW k \in DOMAIN Append(q, e)
               PROVE  /\ EntryOK(b2, Append(q, e)[k]) /\ ContOK(b2, Append(q, e)[k])
                      /\ Append(q, e)[k].contOrderId # 0 => k = 1
    BY <1>2 DEF QueueOK
  <2> DEFINE y == Append(q, e)[k]
  <2>1. CASE k \in DOMAIN q
    <3>1. y = q[k] BY <1>1, <2>1
    <3>2. EntryOK(b, y) /\ ContOK(b, y) /\ (y.contOrderId # 0 => k = 1) BY <2>1, <3>1 DEF QueueOK
    <3> HIDE DEF y
    <3>3. EntryOK(b2, y) BY <1>6, <3>2, EntryKept
    <3>4. ContOK(b2, y) BY <1>2, <3>2 DEF ContOK, SameLedger, Crossing
    <3> QED BY <3>2, <3>3, <3>4 DEF y
  <2>2. CASE k \notin DOMAIN q
    <3>1. y = e BY <1>1, <2>2
    <3>2. EntryOK(b2, e) BY <1>6, EntryKept
    <3> HIDE DEF y
    <3> QED BY <3>1, <3>2 DEF ContOK, y
  <2> QED BY <2>1, <2>2
<1> QED BY <1>4, <1>5, <1>7 DEF CallInv, b2

LEMMA EntryType ==
  ASSUME NEW type \in {"place", "cancel", "cancelAll", "expire"}, NEW note \in Notes \cup {NoNote}
  PROVE  Entry(type, note) \in EntrySet
<1>1. {} \in AllFlags BY DEF AllFlags
<1>2. NoDeal \in Deals \cup {NoDeal} /\ 0 \in Nat \cup {MarketPrice} /\ FALSE \in BOOLEAN OBVIOUS
<1> QED BY <1>1, <1>2 DEF Entry, EntrySet

\* A cancel, a cancel of everything, or an expiry joins the queue.
LEMMA RemovalQueued ==
  ASSUME NEW b, NEW e, NEW dls, NEW tbs, CallInv(b, dls, tbs),
         NEW type \in {"cancel", "cancelAll", "expire"}, NEW note \in Notes \cup {NoNote},
         NEW id \in Nat,
         e = Entry(type, note) \/ e = [Entry(type, note) EXCEPT !.target = id]
  PROVE  CallInv(Enqueue(b, e), dls, tbs)
<1>1. {} \in AllFlags BY DEF AllFlags
<1>2. /\ e.type = type /\ e.client = 0 /\ e.deal = NoDeal /\ e.contOrderId = 0 /\ e.escrow = 0
  BY DEF Entry
<1>3. e \in EntrySet
  <2>1. Entry(type, note) \in EntrySet BY EntryType
  <2>2. [Entry(type, note) EXCEPT !.target = id] \in EntrySet BY <2>1 DEF EntrySet
  <2> QED BY <2>1, <2>2
<1>4. EntryOK(b, e) BY <1>2 DEF EntryOK
<1>5. HeldInQueue(e) = 0 BY <1>2 DEF HeldInQueue
<1>6. Ledger(b, b.queue, e.client, HeldInQueue(e), e.deal, dls, tbs) BY <1>2, <1>5 DEF CallInv
<1>7. Stored(b) /\ QueueOK(b) BY DEF CallInv
<1> QED BY <1>2, <1>3, <1>4, <1>6, <1>7, EnqueueKeeps

\* A new request joins the queue.
LEMMA RequestJoins ==
  ASSUME NEW b, NEW b2, NEW r, NEW c, NEW dls, NEW tbs, CallInv(b, dls, tbs), r \in RequestSet,
         c = Len(b.requests) + 1, b2 = [b EXCEPT !.requests = Append(@, r)],
         r.committed = r.spent + r.back + r.committed, Unanswered(r), r.spent = 0
  PROVE  /\ Stored(b2) /\ QueueOK(b2) /\ c \in DOMAIN b2.requests /\ b2.requests[c] = r
         /\ Ledger(b2, b2.queue, c, r.committed, NoDeal, dls, tbs)
<1> DEFINE q == b.queue
           R == b.requests
<1>1. Stored(b) /\ QueueOK(b) /\ Ledger(b, q, 0, 0, NoDeal, dls, tbs) BY DEF CallInv
<1>2. DOMAIN b = BookFields /\ R \in Seq(RequestSet) BY <1>1 DEF Stored, BookShape
<1>3. /\ DOMAIN b2 = BookFields /\ b2.requests = Append(R, r) /\ b2.queue = q
      /\ b2.orders = b.orders /\ b2.out = b.out /\ b2.handoverBuyer = b.handoverBuyer
      /\ b2.nextOrderId = b.nextOrderId /\ b2.repaid = b.repaid /\ b2.landed = b.landed
      /\ b2.trades = b.trades
  BY <1>2 DEF BookFields
<1>4. /\ c \in Nat \ {0} /\ c \notin DOMAIN R /\ DOMAIN b2.requests = DOMAIN R \cup {c}
      /\ b2.requests[c] = r /\ \A k \in DOMAIN R : b2.requests[k] = R[k]
      /\ b2.requests \in Seq(RequestSet)
  <2> HIDE DEF R
  <2>1. c \in Nat \ {0} /\ c \notin DOMAIN R BY <1>2 DEF R
  <2> QED BY <1>2, <1>3, <2>1 DEF R
<1>5. ASSUME NEW o, Sides(b, o) PROVE Sides(b2, o) BY <1>4, <1>5 DEF Sides
<1>6. Stored(b2)
  <2>1. BookShape(b2) BY <1>1, <1>3, <1>4 DEF Stored, BookShape
  <2>2. \A i \in DOMAIN b2.orders : Sides(b2, b2.orders[i]) BY <1>1, <1>3, <1>5 DEF Stored
  <2> QED BY <2>1, <2>2 DEF Stored
<1>7. ASSUME NEW e, EntryOK(b, e) PROVE EntryOK(b2, e) BY <1>5, <1>7 DEF EntryOK, Taking
<1>8. QueueOK(b2)
  <2> SUFFICES ASSUME NEW k \in DOMAIN q
               PROVE  /\ EntryOK(b2, q[k]) /\ ContOK(b2, q[k])
                      /\ q[k].contOrderId # 0 => k = 1
    BY <1>3 DEF QueueOK
  <2> DEFINE y == q[k]
  <2>1. EntryOK(b, y) /\ ContOK(b, y) /\ (y.contOrderId # 0 => k = 1) BY <1>1 DEF QueueOK
  <2> HIDE DEF y
  <2>2. EntryOK(b2, y) BY <1>7, <2>1
  <2>3. ContOK(b2, y) BY <1>3, <2>1 DEF ContOK, Crossing
  <2> QED BY <2>1, <2>2, <2>3 DEF y
<1>9. NotResting(b2, c)
  <2> SUFFICES ASSUME NEW i \in DOMAIN b.orders PROVE b.orders[i].client # c
    BY <1>3 DEF NotResting
  <2>1. Sides(b, b.orders[i]) /\ b.orders[i] \in OrderSet BY <1>1, OrderOf DEF Stored
  <2>2. b.orders[i].isBuy \in BOOLEAN BY <2>1 DEF OrderSet
  <2> QED BY <1>4, <2>1, <2>2 DEF Sides
<1>10. NotQueued(q, c)
  <2> SUFFICES ASSUME NEW k \in DOMAIN q PROVE q[k].client # c BY DEF NotQueued
  <2> DEFINE y == q[k]
  <2>1. EntryOK(b, y) BY <1>1 DEF QueueOK
  <2> HIDE DEF y
  <2>2. y.type # "place" => y.client = 0 BY <2>1 DEF EntryOK
  <2>3. ASSUME y.type = "place" PROVE y.client \in DOMAIN R \/ y.client = 0
    <3>1. Taking(b, y) BY <2>1, <2>3 DEF EntryOK
    <3>2. y.isBuy \in BOOLEAN /\ Sides(b, y) BY <3>1 DEF Taking, EntrySet
    <3> QED BY <3>2 DEF Sides
  <2> QED BY <1>4, <2>2, <2>3 DEF y
<1>11. ASSUME NEW k \in DOMAIN b2.requests PROVE ClientOK(b2, q, c, r.committed, k)
  <2>1. CASE k = c
    <3>1. InHand(b2, q, c, r.committed, c) BY <1>4, <1>9, <1>10 DEF InHand
    <3> QED BY <2>1, <3>1 DEF ClientOK
  <2>2. CASE k # c
    <3>1. k \in DOMAIN R /\ k # 0 BY <1>2, <1>4, <2>2
    <3>2. ClientOK(b, q, 0, 0, k) BY <1>1, <3>1 DEF Ledger
    <3>3. ClientUntouched(b, b2, k) BY <1>3, <1>4, <3>1 DEF ClientUntouched
    <3> QED BY <2>2, <3>1, <3>2, <3>3, ClientKept
  <2> QED BY <2>1, <2>2
<1>12. ASSUME NEW x \in Deals PROVE DealOK(b2, q, NoDeal, x, dls[x], tbs[x])
  <2>1. DealOK(b, q, NoDeal, x, dls[x], tbs[x]) BY <1>1 DEF Ledger
  <2>2. DealUntouched(b, b2, x) BY <1>3 DEF DealUntouched
  <2> QED BY <2>1, <2>2, DealKept
<1>13. ASSUME NEW n \in Notes PROVE Balanced(b2, tbs, n)
  <2>1. Balanced(b, tbs, n) BY <1>1 DEF Ledger
  <2> DEFINE S == RequestsOf(b, n)
             S2 == RequestsOf(b2, n)
             f == Spent(b)
             g == Spent(b2)
  <2>2. IsFiniteSet(S) /\ \A k \in DOMAIN R : f[k] \in Int BY <1>2, RequestNumbers
  <2>3. S \in SUBSET DOMAIN R BY DEF RequestsOf
  <2>4. ASSUME NEW k \in S PROVE g[k] = f[k] /\ g[k] \in Int
    <3>1. k \in DOMAIN R /\ k \in DOMAIN b2.requests /\ b2.requests[k] = R[k] BY <1>4, <2>3
    <3>2. g[k] = f[k] BY <3>1 DEF Spent
    <3> QED BY <2>2, <3>1, <3>2
  <2>5. g[c] = 0 BY <1>4 DEF Spent
  <2>6. S2 = IF r.note = n THEN S \cup {c} ELSE S BY <1>4 DEF RequestsOf
  <2>7. c \notin S BY <1>4, <2>3
  <2> HIDE DEF S, S2, f, g
  <2>8. Sum(g, S2) = Sum(f, S)
    <3>1. CASE r.note = n
      <4>1. Sum(g, S \cup {c}) = Sum(f, S) + g[c] BY <2>2, <2>4, <2>5, <2>7, SumGrow
      <4>2. Sum(f, S) \in Int
        <5>1. \A k \in S : f[k] \in Int BY <2>4
        <5> QED BY <2>2, <5>1, SumInt
      <4> QED BY <2>5, <2>6, <3>1, <4>1, <4>2
    <3>2. CASE r.note # n
      <4>1. Sum(f, S) = Sum(g, S) BY <2>2, <2>4, SumSame
      <4> QED BY <2>6, <3>2, <4>1
    <3> QED BY <3>1, <3>2
  <2>9. Ways(b2, tbs, n) = Ways(b, tbs, n) BY <1>3 DEF Ways
  <2> QED BY <1>3, <2>1, <2>8, <2>9 DEF Balanced, S, S2, f, g
<1> QED BY <1>3, <1>4, <1>6, <1>8, <1>11, <1>12, <1>13 DEF Ledger

-----------------------------------------------------------------------------
(***************************************************************************)
(* Steps of one deal, or of the book on a message from one deal.           *)
(***************************************************************************)
LEMMA AsideStored ==
  ASSUME NEW b, NEW b2, NEW d, Stored(b), QueueOK(b), Aside(b, b2, d)
  PROVE  Stored(b2) /\ QueueOK(b2)
<1>1. BookShape(b2)
  <2>1. <<>> \in Seq(FillSet) OBVIOUS
  <2> QED BY <2>1 DEF Stored, BookShape, Aside
<1>2. ASSUME NEW o, Sides(b, o) PROVE Sides(b2, o) BY <1>2 DEF Sides, Aside
<1>3. Stored(b2) BY <1>1, <1>2 DEF Stored, Aside
<1>4. SameNotes(b, b2) BY DEF SameNotes, Aside, Stored, BookShape
<1>5. ASSUME NEW k \in DOMAIN b2.queue
      PROVE  /\ EntryOK(b2, b2.queue[k]) /\ ContOK(b2, b2.queue[k])
             /\ b2.queue[k].contOrderId # 0 => k = 1
  <2> DEFINE y == b2.queue[k]
  <2>1. EntryOK(b, y) /\ ContOK(b, y) /\ (y.contOrderId # 0 => k = 1)
    BY DEF QueueOK, Aside
  <2> HIDE DEF y
  <2>2. EntryOK(b2, y) BY <1>4, <2>1, EntryKept
  <2>3. ContOK(b2, y) BY <2>1 DEF ContOK, Crossing, Aside
  <2> QED BY <2>1, <2>2, <2>3 DEF y
<1> QED BY <1>3, <1>5 DEF QueueOK

LEMMA BalancedMoves ==
  ASSUME NEW b, NEW b2, NEW d \in Deals, NEW tbs, NEW tbs2, NEW n \in Notes, Stored(b),
         Aside(b, b2, d), \A x \in Deals : Way(b.out[x], tbs[x], n) \in Int,
         \A x \in Deals : x # d => tbs2[x] = tbs[x], Way(b2.out[d], tbs2[d], n) \in Int,
         Purse(b2, tbs2[d], d, n) = Purse(b, tbs[d], d, n), Balanced(b, tbs, n)
  PROVE  Balanced(b2, tbs2, n)
<1> DEFINE f == Ways(b, tbs, n)
           g == Ways(b2, tbs2, n)
           D == Deals
<1>1. IsFiniteSet(D) BY BookAssumption
<1>2. \A x \in D : f[x] \in Int BY DEF Ways
<1>3. \A x \in D \ {d} : f[x] = g[x] BY DEF Ways, Aside
<1>4. f[d] = Way(b.out[d], tbs[d], n) /\ g[d] = Way(b2.out[d], tbs2[d], n) BY DEF Ways
<1>5. \A x \in D : g[x] \in Int BY <1>2, <1>3, <1>4
<1>6. d \in D OBVIOUS
<1>7. Balanced(b, tbs, n) <=> Sum(Spent(b), RequestsOf(b, n)) = b.landed[n] + b.repaid[n] + Sum(f, D)
  BY DEF Balanced
<1>8. Balanced(b2, tbs2, n)
        <=> Sum(Spent(b2), RequestsOf(b2, n)) = b2.landed[n] + b2.repaid[n] + Sum(g, D)
  BY DEF Balanced
<1>9. Spent(b2) = Spent(b) /\ RequestsOf(b2, n) = RequestsOf(b, n)
  BY DEF Spent, RequestsOf, Aside
<1>10. b.landed[n] \in Int /\ b.repaid[n] \in Int /\ b2.landed[n] \in Int /\ b2.repaid[n] \in Int
  BY DEF Stored, BookShape, Aside
<1>11. b2.landed[n] + b2.repaid[n] + g[d] = b.landed[n] + b.repaid[n] + f[d] BY <1>4 DEF Purse
<1> HIDE DEF f, g, D
<1>12. Sum(g, D) = Sum(f, D) - f[d] + g[d] BY <1>1, <1>2, <1>3, <1>5, <1>6, SumChange
<1>13. Sum(f, D) \in Int BY <1>1, <1>2, SumInt
<1>14. f[d] \in Int /\ g[d] \in Int BY <1>2, <1>5, <1>6
<1> QED BY <1>7, <1>8, <1>9, <1>10, <1>11, <1>12, <1>13, <1>14

LEMMA LedgerMoves ==
  ASSUME NEW b, NEW b2, NEW q, NEW d \in Deals, NEW hand, hand = NoDeal \/ hand = d,
         NEW dls, NEW dls2, NEW tbs, NEW tbs2, Stored(b), Aside(b, b2, d),
         \A x \in Deals : x # d => dls2[x] = dls[x] /\ tbs2[x] = tbs[x],
         DealOK(b2, q, hand, d, dls2[d], tbs2[d]),
         \A n \in Notes : Purse(b2, tbs2[d], d, n) = Purse(b, tbs[d], d, n),
         \A n \in Notes : Way(b2.out[d], tbs2[d], n) \in Int,
         Ledger(b, q, 0, 0, NoDeal, dls, tbs)
  PROVE  Ledger(b2, q, 0, 0, hand, dls2, tbs2)
<1>1. NoDeal \notin Deals BY BookAssumption
<1>2. /\ \A c \in DOMAIN b.requests : ClientOK(b, q, 0, 0, c)
      /\ \A x \in Deals : DealOK(b, q, NoDeal, x, dls[x], tbs[x])
      /\ \A n \in Notes : Balanced(b, tbs, n)
  BY DEF Ledger
<1>3. b2.requests = b.requests BY DEF Aside
<1>4. ASSUME NEW c \in DOMAIN b.requests PROVE ClientOK(b2, q, 0, 0, c)
  <2>1. ClientUntouched(b, b2, c) BY DEF ClientUntouched, Aside
  <2> QED BY <1>2, <2>1, ClientKept
<1>5. ASSUME NEW x \in Deals, x # d PROVE DealOK(b2, q, hand, x, dls2[x], tbs2[x])
  <2>1. DealUntouched(b, b2, x) BY <1>5 DEF DealUntouched, Aside
  <2>2. DealOK(b, q, NoDeal, x, dls2[x], tbs2[x]) BY <1>2, <1>5
  <2>3. x = NoDeal <=> x = hand BY <1>1, <1>5
  <2> QED BY <2>1, <2>2, <2>3, DealKept
<1>6. ASSUME NEW n \in Notes PROVE Balanced(b2, tbs2, n)
  <2>1. ASSUME NEW x \in Deals PROVE Way(b.out[x], tbs[x], n) \in Int
    <3>1. b.out[x] \in Seq(OutMsgs) BY DEF Stored, BookShape
    <3> QED BY <1>2, <3>1, WayInt
  <2> QED BY <1>2, <2>1, BalancedMoves
<1> QED BY <1>3, <1>4, <1>5, <1>6 DEF Ledger

\* A deal's step that leaves its messages alone.
LEMMA QuietStep ==
  ASSUME NEW b, NEW b2, NEW q, NEW d \in Deals, NEW dls, NEW dls2, NEW tbs, Stored(b),
         Aside(b, b2, d), b2.out[d] = b.out[d], b2.landed = b.landed, b2.repaid = b.repaid,
         \A x \in Deals : x # d => dls2[x] = dls[x],
         DealOK(b2, q, NoDeal, d, dls2[d], tbs[d]),
         Ledger(b, q, 0, 0, NoDeal, dls, tbs)
  PROVE  Ledger(b2, q, 0, 0, NoDeal, dls2, tbs)
<1>1. \A n \in Notes : Purse(b2, tbs[d], d, n) = Purse(b, tbs[d], d, n) BY DEF Purse
<1>2. ASSUME NEW n \in Notes PROVE Way(b2.out[d], tbs[d], n) \in Int
  <2>1. DealOK(b, q, NoDeal, d, dls[d], tbs[d]) /\ b.out[d] \in Seq(OutMsgs)
    BY DEF Ledger, Stored, BookShape
  <2>2. Way(b.out[d], tbs[d], n) \in Int BY <2>1, WayInt
  <2> QED BY <2>2
<1> QED BY <1>1, <1>2, LedgerMoves

-----------------------------------------------------------------------------
(***************************************************************************)
(* The deals' actions.                                                     *)
(***************************************************************************)
LEMMA InvFacts ==
  ASSUME BookInv
  PROVE  /\ Stored(book) /\ QueueOK(book) /\ DOMAIN book = BookFields
         /\ book.out \in [Deals -> Seq(OutMsgs)]
         /\ book.handoverBuyer \in [Deals -> Notes \cup {NoNote}]
         /\ book.repaid \in [Notes -> Int] /\ book.landed \in [Notes -> Int]
         /\ deals \in [Deals -> DealSet] /\ toBook \in [Deals -> Seq(BookMsgs)] /\ now \in Nat
         /\ Ledger(book, book.queue, 0, 0, NoDeal, deals, toBook)
         /\ \A x \in Deals : DealOK(book, book.queue, NoDeal, x, deals[x], toBook[x])
BY DEF BookInv, Stored, BookShape, Ledger

LEMMA AsideEnds ==
  ASSUME BookInv, NEW d, Aside(book, book', d), deals' \in [Deals -> DealSet],
         toBook' \in [Deals -> Seq(BookMsgs)], now' \in Nat,
         Ledger(book', book.queue, 0, 0, NoDeal, deals', toBook')
  PROVE  BookInv'
<1>1. Stored(book') /\ QueueOK(book') BY InvFacts, AsideStored
<1>2. book'.queue = book.queue BY DEF Aside
<1> QED BY <1>1, <1>2 DEF BookInv

LEMMA IdleIs ==
  ASSUME BookInv, BookIdle, NEW d
  PROVE  /\ Aside(book, book', d) /\ book'.out = book.out /\ book'.handoverBuyer = book.handoverBuyer
         /\ book'.landed = book.landed /\ book'.repaid = book.repaid /\ book'.orders = book.orders
BY InvFacts DEF BookIdle, Aside, BookFields

LEMMA TakesIs ==
  ASSUME BookInv, NEW d \in Deals, book.out[d] # <<>>, NEW ledger \in [Notes -> Int],
         DealTakes(d, ledger)
  PROVE  /\ Aside(book, book', d) /\ book'.out[d] = Tail(book.out[d])
         /\ book'.handoverBuyer = book.handoverBuyer
         /\ book'.landed = ledger /\ book'.repaid = book.repaid /\ book'.orders = book.orders
<1>1. /\ DOMAIN book' = BookFields /\ book'.orders = book.orders /\ book'.queue = book.queue
      /\ book'.nextOrderId = book.nextOrderId /\ book'.requests = book.requests
      /\ book'.trades = <<>> /\ book'.handoverBuyer = book.handoverBuyer
      /\ book'.landed = ledger /\ book'.repaid = book.repaid
      /\ book'.out = [book.out EXCEPT ![d] = Tail(@)]
  BY InvFacts DEF DealTakes, BookFields
<1>2. Tail(book.out[d]) \in Seq(OutMsgs) BY InvFacts
<1>3. book'.out \in [Deals -> Seq(OutMsgs)] BY <1>1, <1>2, InvFacts
<1>4. book'.out[d] = Tail(book.out[d]) /\ \A x \in Deals : x # d => book'.out[x] = book.out[x]
  BY <1>1, InvFacts
<1> QED BY <1>1, <1>3, <1>4, InvFacts DEF Aside

LEMMA WayZero ==
  ASSUME NEW out, NEW tb, NEW n, out = <<>> \/ out[1].kind # "handover",
         tb = <<>> \/ tb[1].kind # "bounced"
  PROVE  Way(out, tb, n) = 0
BY DEF Way

LEMMA DealChanges ==
  ASSUME NEW dl \in DealSet, NEW p \in BOOLEAN, NEW f \in BOOLEAN
  PROVE  /\ [dl EXCEPT !.posted = TRUE, !.offers = @ + 1] \in DealSet
         /\ [dl EXCEPT !.funded = f, !.posted = p] \in DealSet
         /\ [dl EXCEPT !.failed = TRUE] \in DealSet
         /\ [dl EXCEPT !.alive = FALSE] \in DealSet
         /\ [dl EXCEPT !.posted = p] \in DealSet
<1>1. dl.offers + 1 \in Nat BY DEF DealSet
<1>2. TRUE \in BOOLEAN /\ FALSE \in BOOLEAN OBVIOUS
<1>3. [dl EXCEPT !.posted = TRUE, !.offers = @ + 1] \in DealSet BY <1>1, <1>2 DEF DealSet
<1>4. [dl EXCEPT !.funded = f, !.posted = p] \in DealSet BY DEF DealSet
<1>5. [dl EXCEPT !.failed = TRUE] \in DealSet BY <1>2 DEF DealSet
<1>6. [dl EXCEPT !.alive = FALSE] \in DealSet BY <1>2 DEF DealSet
<1>7. [dl EXCEPT !.posted = p] \in DealSet BY DEF DealSet
<1> QED BY <1>3, <1>4, <1>5, <1>6, <1>7

\* The deal's step, put together.
LEMMA MovesEnd ==
  ASSUME BookInv, NEW d \in Deals, Aside(book, book', d), deals' \in [Deals -> DealSet],
         toBook' \in [Deals -> Seq(BookMsgs)], now' \in Nat,
         \A x \in Deals : x # d => deals'[x] = deals[x] /\ toBook'[x] = toBook[x],
         DealOK(book', book.queue, NoDeal, d, deals'[d], toBook'[d]),
         \A n \in Notes : /\ Purse(book', toBook'[d], d, n) = Purse(book, toBook[d], d, n)
                          /\ Way(book'.out[d], toBook'[d], n) \in Int
  PROVE  BookInv'
<1>1. Stored(book) /\ Ledger(book, book.queue, 0, 0, NoDeal, deals, toBook) BY DEF BookInv
<1>2. \A n \in Notes : Purse(book', toBook'[d], d, n) = Purse(book, toBook[d], d, n) OBVIOUS
<1>3. \A n \in Notes : Way(book'.out[d], toBook'[d], n) \in Int OBVIOUS
<1>4. DealOK(book', book.queue, NoDeal, d, deals'[d], toBook'[d]) OBVIOUS
<1>5. Ledger(book', book.queue, 0, 0, NoDeal, deals', toBook')
  BY <1>1, <1>2, <1>3, <1>4, LedgerMoves
<1> QED BY <1>5, AsideEnds

\* An offer is posted: the deal had none.
LEMMA PostKeeps ==
  ASSUME BookInv, NEW d \in Deals, NEW flags \in SellFlags, NEW life \in Lifetimes,
         PostFromNote(d, flags, life)
  PROVE  BookInv'
<1> DEFINE q == book.queue
           tb == toBook[d]
           msg == [kind |-> "offer", flags |-> flags, deadline |-> now + life]
<1>1. Aside(book, book', d) /\ book'.out = book.out /\ book'.handoverBuyer = book.handoverBuyer
      /\ book'.landed = book.landed /\ book'.repaid = book.repaid /\ book'.orders = book.orders
  BY IdleIs DEF PostFromNote
<1>2. deals[d].alive /\ ~deals[d].posted /\ ~deals[d].funded BY DEF PostFromNote
<1>3. deals[d] \in DealSet /\ tb \in Seq(BookMsgs) BY InvFacts
<1>4. Free(book, q, NoDeal, d, deals[d], tb)
  <2>1. DealOK(book, q, NoDeal, d, deals[d], tb) BY InvFacts
  <2> QED BY <1>2, <2>1 DEF DealOK, Sent, Waits, Matched, Lists, Answered, Stuck, Live
<1>5. msg \in OfferMsgs
  <2>1. now + life \in Int BY BookAssumption, InvFacts
  <2> QED BY <2>1 DEF OfferMsgs
<1>6. msg \in BookMsgs BY <1>5 DEF BookMsgs
<1>7. /\ toBook' = [toBook EXCEPT ![d] = Append(@, msg)]
      /\ deals' = [deals EXCEPT ![d].posted = TRUE, ![d].offers = @ + 1]
      /\ now' = now
  BY DEF PostFromNote, Reply
<1>8. /\ deals' \in [Deals -> DealSet] /\ \A x \in Deals : x # d => deals'[x] = deals[x]
      /\ deals'[d].alive /\ deals'[d].posted = TRUE /\ ~deals'[d].funded
      /\ deals'[d].failed = deals[d].failed
  <2>1. deals'[d] = [deals[d] EXCEPT !.posted = TRUE, !.offers = @ + 1]
        /\ \A x \in Deals : x # d => deals'[x] = deals[x]
    BY <1>7, InvFacts
  <2>2. deals'[d] \in DealSet BY <1>3, <2>1, DealChanges
  <2>3. deals' \in [Deals -> DealSet]
    <3>1. \A x \in Deals : deals'[x] \in DealSet BY <2>1, <2>2, InvFacts
    <3>2. deals' = [x \in Deals |-> deals'[x]] BY <1>7, InvFacts
    <3> QED BY <3>1, <3>2
  <2> QED BY <1>2, <1>3, <2>1, <2>3 DEF DealSet
<1> HIDE DEF msg
<1>9. toBook' \in [Deals -> Seq(BookMsgs)] /\ toBook'[d] = Append(tb, msg)
      /\ \A x \in Deals : x # d => toBook'[x] = toBook[x]
  <2>1. Append(tb, msg) \in Seq(BookMsgs) BY <1>3, <1>6
  <2> QED BY <1>7, <2>1, InvFacts
<1>10. book.out[d] = <<>> /\ (tb = <<>> \/ tb = <<Accepted>>) /\ ~deals[d].failed
       /\ NotListed(book, d) /\ NotWaiting(q, d)
  BY <1>4 DEF Free
<1>11. msg.kind = "offer" /\ Accepted.kind = "accepted" BY <1>5 DEF OfferMsgs, Accepted
<1> DEFINE tb2 == toBook'[d]
<1>12. \/ tb = <<>> /\ Len(tb2) = 1 /\ tb2[1] = msg
       \/ tb = <<Accepted>> /\ Len(tb2) = 2 /\ tb2[1] = Accepted /\ tb2[2] = msg
  <2>1. CASE tb = <<>> BY <1>9, <2>1
  <2>2. CASE tb = <<Accepted>> BY <1>9, <2>2
  <2> QED BY <1>10, <2>1, <2>2
<1> HIDE DEF tb2
<1>13. DealOK(book', q, NoDeal, d, deals'[d], tb2)
  <2>1. Sent(book', q, NoDeal, d, deals'[d], tb2)
    <3>1. NoDeal # d BY BookAssumption
    <3>2. NotListed(book', d) /\ book'.out[d] = <<>> BY <1>1, <1>10 DEF NotListed
    <3>3. Live(deals'[d]) BY <1>8, <1>10 DEF Live
    <3> QED BY <1>5, <1>10, <1>12, <3>1, <3>2, <3>3 DEF Sent
  <2> QED BY <2>1 DEF DealOK
<1>14. ASSUME NEW n \in Notes PROVE Way(book'.out[d], tb2, n) = 0 /\ Way(book.out[d], tb, n) = 0
  <2>1. tb2[1].kind # "bounced" /\ (tb = <<>> \/ tb[1].kind # "bounced") BY <1>11, <1>12
  <2> QED BY <1>1, <1>10, <2>1, WayZero
<1>15. ASSUME NEW n \in Notes PROVE Purse(book', tb2, d, n) = Purse(book, tb, d, n)
  BY <1>1, <1>14 DEF Purse
<1>16. now' \in Nat BY <1>7, InvFacts
<1>17. DealOK(book', book.queue, NoDeal, d, deals'[d], toBook'[d]) BY <1>13 DEF tb2
<1>18. \A n \in Notes : /\ Purse(book', toBook'[d], d, n) = Purse(book, toBook[d], d, n)
                        /\ Way(book'.out[d], toBook'[d], n) \in Int
  BY <1>14, <1>15 DEF tb2
<1>19. \A x \in Deals : x # d => deals'[x] = deals[x] /\ toBook'[x] = toBook[x] BY <1>8, <1>9
<1>20. Aside(book, book', d) /\ deals' \in [Deals -> DealSet] /\ toBook' \in [Deals -> Seq(BookMsgs)]
  BY <1>1, <1>8, <1>9
<1> QED BY <1>16, <1>17, <1>18, <1>19, <1>20, MovesEnd

LEMMA TailOfOne ==
  ASSUME NEW S, NEW s \in Seq(S), Len(s) = 1
  PROVE  Tail(s) = <<>> /\ Head(s) = s[1] /\ s[1] \in S
<1>1. s # <<>> /\ 1 \in DOMAIN s OBVIOUS
<1>2. s = <<s[1]>> OBVIOUS
<1>3. \A x : Tail(<<x>>) = <<>> OBVIOUS
<1>5. Tail(s) = <<>> BY <1>2, <1>3
<1>4. Head(s) = s[1] /\ s[1] \in S BY <1>1
<1> QED BY <1>4, <1>5

\* A pending message is the answer to the deal's offer.
LEMMA AnswerHere ==
  ASSUME BookInv, NEW d \in Deals, book.out[d] # <<>>
  PROVE  /\ Answered(book, book.queue, NoDeal, d, deals[d], toBook[d])
         /\ Live(deals[d]) /\ toBook[d] = <<>> /\ Len(book.out[d]) = 1
         /\ Tail(book.out[d]) = <<>> /\ Head(book.out[d]) = book.out[d][1]
         /\ book.out[d][1] \in OutMsgs
         /\ NotListed(book, d) /\ NotWaiting(book.queue, d) /\ NoDeal # d
<1>1. DealOK(book, book.queue, NoDeal, d, deals[d], toBook[d]) /\ book.out[d] \in Seq(OutMsgs)
  BY InvFacts
<1>2. Answered(book, book.queue, NoDeal, d, deals[d], toBook[d])
  BY <1>1 DEF DealOK, Sent, Waits, Matched, Lists, Stuck, Free
<1>3. /\ Live(deals[d]) /\ toBook[d] = <<>> /\ Len(book.out[d]) = 1
      /\ NotListed(book, d) /\ NotWaiting(book.queue, d) /\ NoDeal # d
  BY <1>2 DEF Answered
<1> DEFINE s == book.out[d]
<1>4. s \in Seq(OutMsgs) /\ Len(s) = 1 BY <1>1, <1>3
<1> HIDE DEF s
<1>5. Head(s) = s[1] /\ s[1] \in OutMsgs /\ Tail(s) = <<>> BY <1>4, TailOfOne
<1> QED BY <1>2, <1>3, <1>5 DEF s

LEMMA HandoverHere ==
  ASSUME BookInv, NEW d \in Deals, Pending(d, "handover")
  PROVE  LET msg == Head(book.out[d])
         IN  /\ msg \in Handovers /\ FitsDeal(d, msg) /\ book.handoverBuyer[d] = msg.buyer
             /\ \A n \in Notes : Way(book.out[d], toBook[d], n) = IF msg.buyer = n THEN msg.paid ELSE 0
<1> DEFINE msg == Head(book.out[d])
<1>1. book.out[d] # <<>> /\ msg.kind = "handover" BY DEF Pending
<1>2. /\ Answered(book, book.queue, NoDeal, d, deals[d], toBook[d]) /\ msg = book.out[d][1]
      /\ msg \in OutMsgs /\ toBook[d] = <<>>
  BY <1>1, AnswerHere
<1>3. msg \in Handovers BY <1>1, <1>2 DEF OutMsgs, Handovers
<1>4. FitsDeal(d, msg) /\ book.handoverBuyer[d] = msg.buyer BY <1>1, <1>2 DEF Answered
<1> HIDE DEF msg
<1>5. ASSUME NEW n \in Notes
      PROVE  Way(book.out[d], toBook[d], n) = IF msg.buyer = n THEN msg.paid ELSE 0
  BY <1>1, <1>2 DEF Way
<1> QED BY <1>3, <1>4, <1>5 DEF msg

LEMMA MulMono ==
  ASSUME NEW a \in Nat, NEW c \in Nat, NEW u \in Nat, a <= c
  PROVE  a * u <= c * u
<1>1. (c - a) * u \in Nat BY MulNat
<1>2. c * u = a * u + (c - a) * u OBVIOUS
<1>3. a * u \in Nat BY MulNat
<1> QED BY <1>1, <1>2, <1>3

\* A hand-over the book sends is one the deal takes.
LEMMA FundFits ==
  ASSUME NEW d \in Deals, NEW msg \in Handovers, FitsDeal(d, msg)
  PROVE  LET bond == IF msg.sub THEN 2 * AskPrice[d] ELSE 0
         IN  /\ msg.paid - bond >= 2 * Unit(AskPrice[d])
             /\ msg.paid - bond <= AskTicks[d] * Unit(AskPrice[d])
<1> DEFINE bond == IF msg.sub THEN 2 * AskPrice[d] ELSE 0
           u == Unit(AskPrice[d])
           most == AskTicks[d]
<1>1. AskPrice[d] \in Nat /\ most \in Nat BY BookAssumption
<1>2. u \in Nat BY <1>1, UnitType
<1>3. bond \in Nat BY <1>1
<1>4. PICK ticks \in 2..most : msg.paid = ticks * u + bond BY DEF FitsDeal
<1> HIDE DEF u, bond, most
<1>5. ticks \in Nat /\ 2 <= ticks /\ ticks <= most BY <1>1, <1>4
<1>6. 2 * u <= ticks * u BY <1>2, <1>5, MulMono
<1>7. ticks * u <= most * u BY <1>1, <1>2, <1>5, MulMono
<1>8. ticks * u \in Nat /\ most * u \in Nat BY <1>1, <1>2, <1>5, MulNat
<1>9. msg.paid - bond = ticks * u BY <1>3, <1>4, <1>8
<1> QED BY <1>6, <1>7, <1>8, <1>9 DEF u, bond, most

LEMMA FundKeeps ==
  ASSUME BookInv, NEW d \in Deals, FundFromOrderBook(d)
  PROVE  BookInv'
<1> DEFINE q == book.queue
           msg == Head(book.out[d])
           landed2 == [book.landed EXCEPT ![msg.buyer] = @ + msg.paid]
           bond == IF msg.sub THEN 2 * AskPrice[d] ELSE 0
           fits == /\ ~deals[d].funded
                   /\ msg.paid - bond >= 2 * Unit(AskPrice[d])
                   /\ msg.paid - bond <= AskTicks[d] * Unit(AskPrice[d])
<1>1. Pending(d, "handover") /\ book.out[d] # <<>> BY DEF FundFromOrderBook, Pending
<1>2. /\ msg \in Handovers /\ FitsDeal(d, msg)
      /\ \A n \in Notes : Way(book.out[d], toBook[d], n) = IF msg.buyer = n THEN msg.paid ELSE 0
  BY <1>1, HandoverHere
<1>3. /\ Live(deals[d]) /\ toBook[d] = <<>> /\ Tail(book.out[d]) = <<>>
      /\ NotListed(book, d) /\ NotWaiting(q, d) /\ NoDeal # d
  BY <1>1, AnswerHere
<1>4. fits BY <1>2, <1>3, FundFits DEF Live
<1>5. msg.buyer \in Notes /\ msg.paid \in Int BY <1>2 DEF Handovers
<1>6. landed2 \in [Notes -> Int] BY <1>5, InvFacts
<1>7. DealTakes(d, landed2) /\ now' = now BY DEF FundFromOrderBook
<1>8. /\ Aside(book, book', d) /\ book'.out[d] = <<>> /\ book'.handoverBuyer = book.handoverBuyer
      /\ book'.landed = landed2 /\ book'.repaid = book.repaid /\ book'.orders = book.orders
  <2> HIDE DEF landed2
  <2> QED BY <1>1, <1>3, <1>6, <1>7, TakesIs
<1>9. toBook' = [toBook EXCEPT ![d] = Append(@, Accepted)] BY DEF FundFromOrderBook, Reply, Accepted
<1>10. Accepted \in BookMsgs /\ Accepted.kind = "accepted" BY DEF BookMsgs, Accepted
<1>11. /\ toBook' \in [Deals -> Seq(BookMsgs)] /\ toBook'[d] = <<Accepted>>
       /\ \A x \in Deals : x # d => toBook'[x] = toBook[x]
  <2>1. Append(toBook[d], Accepted) = <<Accepted>> BY <1>3
  <2>2. <<Accepted>> \in Seq(BookMsgs) BY <1>10
  <2> QED BY <1>9, <2>1, <2>2, InvFacts
<1>12. deals' = [deals EXCEPT ![d].funded = @ \/ fits, ![d].posted = @ /\ ~fits]
  BY DEF FundFromOrderBook
<1> DEFINE dl == deals[d]
<1>13. dl \in DealSet BY InvFacts
<1>14. deals' = [deals EXCEPT ![d] = [dl EXCEPT !.funded = TRUE, !.posted = FALSE]]
  BY <1>4, <1>12
<1> HIDE DEF fits
<1>15. [dl EXCEPT !.funded = TRUE, !.posted = FALSE] \in DealSet
  BY <1>13, DealChanges
<1>16. /\ deals' \in [Deals -> DealSet] /\ \A x \in Deals : x # d => deals'[x] = deals[x]
       /\ deals'[d] = [dl EXCEPT !.funded = TRUE, !.posted = FALSE]
  <2> DEFINE dl2 == [dl EXCEPT !.funded = TRUE, !.posted = FALSE]
  <2> HIDE DEF dl2
  <2>1. deals' = [deals EXCEPT ![d] = dl2] /\ dl2 \in DealSet BY <1>14, <1>15 DEF dl2
  <2>2. /\ deals' \in [Deals -> DealSet] /\ \A x \in Deals : x # d => deals'[x] = deals[x]
        /\ deals'[d] = dl2
    BY <2>1, InvFacts
  <2> QED BY <2>2 DEF dl2
<1>17. ~deals'[d].posted /\ ~deals'[d].failed BY <1>3, <1>13, <1>16 DEF DealSet, Live
<1>18. DealOK(book', q, NoDeal, d, deals'[d], toBook'[d])
  <2>1. NotListed(book', d) BY <1>3, <1>8 DEF NotListed
  <2>2. Free(book', q, NoDeal, d, deals'[d], toBook'[d])
    BY <1>3, <1>8, <1>11, <1>17, <2>1 DEF Free
  <2> QED BY <2>2 DEF DealOK
<1>19. ASSUME NEW n \in Notes
       PROVE  /\ Purse(book', toBook'[d], d, n) = Purse(book, toBook[d], d, n)
              /\ Way(book'.out[d], toBook'[d], n) \in Int
  <2>1. toBook'[d][1].kind # "bounced" BY <1>10, <1>11
  <2>2. Way(book'.out[d], toBook'[d], n) = 0 BY <1>8, <2>1, WayZero
  <2>3. Way(book.out[d], toBook[d], n) = IF msg.buyer = n THEN msg.paid ELSE 0 BY <1>2
  <2>4. book'.landed[n] = book.landed[n] + (IF msg.buyer = n THEN msg.paid ELSE 0)
    BY <1>5, <1>8, InvFacts
  <2>5. book.landed[n] \in Int /\ book.repaid[n] \in Int BY InvFacts
  <2> HIDE DEF msg
  <2> QED BY <1>5, <1>8, <2>2, <2>3, <2>4, <2>5 DEF Purse
<1>20. now' \in Nat BY <1>7, InvFacts
<1>21. \A x \in Deals : x # d => deals'[x] = deals[x] /\ toBook'[x] = toBook[x] BY <1>11, <1>16
<1>22. Aside(book, book', d) /\ deals' \in [Deals -> DealSet] /\ toBook' \in [Deals -> Seq(BookMsgs)]
  BY <1>8, <1>11, <1>16
<1> QED BY <1>18, <1>19, <1>20, <1>21, <1>22, MovesEnd

\* One deal's flags change.
LEMMA DealSets ==
  ASSUME BookInv, NEW d \in Deals, NEW dl2 \in DealSet, deals' = [deals EXCEPT ![d] = dl2]
  PROVE  /\ deals' \in [Deals -> DealSet] /\ \A x \in Deals : x # d => deals'[x] = deals[x]
         /\ deals'[d] = dl2
BY InvFacts

\* One deal's messages to the book change.
LEMMA MsgsSet ==
  ASSUME BookInv, NEW d \in Deals, NEW tb2 \in Seq(BookMsgs), toBook' = [toBook EXCEPT ![d] = tb2]
  PROVE  /\ toBook' \in [Deals -> Seq(BookMsgs)] /\ \A x \in Deals : x # d => toBook'[x] = toBook[x]
         /\ toBook'[d] = tb2
BY InvFacts

LEMMA BounceKeeps ==
  ASSUME BookInv, NEW d \in Deals, BounceHandover(d)
  PROVE  BookInv'
<1> DEFINE q == book.queue
           msg == Head(book.out[d])
           back == [kind |-> "bounced", paid |-> msg.paid, buyer |-> msg.buyer]
           dl2 == [deals[d] EXCEPT !.failed = TRUE]
<1>1. Pending(d, "handover") /\ book.out[d] # <<>> BY DEF BounceHandover, Pending
<1>2. /\ msg \in Handovers /\ book.handoverBuyer[d] = msg.buyer
      /\ \A n \in Notes : Way(book.out[d], toBook[d], n) = IF msg.buyer = n THEN msg.paid ELSE 0
  BY <1>1, HandoverHere
<1>3. /\ Live(deals[d]) /\ toBook[d] = <<>> /\ Tail(book.out[d]) = <<>>
      /\ NotListed(book, d) /\ NotWaiting(q, d) /\ NoDeal # d
  BY <1>1, AnswerHere
<1>4. msg.buyer \in Notes /\ msg.paid \in Int BY <1>2 DEF Handovers
<1>5. DealTakes(d, book.landed) /\ now' = now BY DEF BounceHandover
<1>6. /\ Aside(book, book', d) /\ book'.out[d] = <<>> /\ book'.handoverBuyer = book.handoverBuyer
      /\ book'.landed = book.landed /\ book'.repaid = book.repaid /\ book'.orders = book.orders
  BY <1>1, <1>3, <1>5, InvFacts, TakesIs
<1>7. back \in Bounced /\ back.kind = "bounced" /\ back.buyer = msg.buyer /\ back.paid = msg.paid
  BY <1>4 DEF Bounced
<1>8. toBook' = [toBook EXCEPT ![d] = Append(@, back)] BY DEF BounceHandover, Reply
<1> HIDE DEF back, msg
<1>9. Append(toBook[d], back) = <<back>> BY <1>3
<1>10. <<back>> \in Seq(BookMsgs) BY <1>7 DEF BookMsgs
<1>11. /\ toBook' \in [Deals -> Seq(BookMsgs)] /\ \A x \in Deals : x # d => toBook'[x] = toBook[x]
       /\ toBook'[d] = <<back>>
  <2>1. toBook' = [toBook EXCEPT ![d] = <<back>>] BY <1>8, <1>9
  <2> QED BY <1>10, <2>1, MsgsSet
<1>12. deals[d] \in DealSet BY InvFacts
<1>13. dl2 \in DealSet BY <1>12, DealChanges
<1>14. deals' = [deals EXCEPT ![d] = dl2] BY DEF BounceHandover
<1>15. dl2.alive /\ dl2.posted /\ ~dl2.funded /\ dl2.failed BY <1>3, <1>12 DEF DealSet, Live
<1> HIDE DEF dl2
<1>16. /\ deals' \in [Deals -> DealSet] /\ \A x \in Deals : x # d => deals'[x] = deals[x]
       /\ deals'[d] = dl2
  BY <1>13, <1>14, DealSets
<1>17. DealOK(book', q, NoDeal, d, deals'[d], toBook'[d])
  <2>1. NotListed(book', d) BY <1>3, <1>6 DEF NotListed
  <2> DEFINE tb2 == toBook'[d]
  <2>2. Len(tb2) = 1 /\ tb2[1] = back BY <1>11
  <2> HIDE DEF tb2
  <2>3. Stuck(book', q, NoDeal, d, deals'[d], tb2)
    BY <1>2, <1>3, <1>6, <1>7, <1>15, <1>16, <2>1, <2>2 DEF Stuck
  <2>4. DealOK(book', q, NoDeal, d, deals'[d], tb2) BY <2>3 DEF DealOK
  <2> QED BY <2>4 DEF tb2
<1>18. ASSUME NEW n \in Notes
       PROVE  /\ Purse(book', toBook'[d], d, n) = Purse(book, toBook[d], d, n)
              /\ Way(book'.out[d], toBook'[d], n) \in Int
  <2>1. Way(<<>>, <<back>>, n) = IF msg.buyer = n THEN msg.paid ELSE 0 BY <1>7 DEF Way
  <2>2. Way(book'.out[d], toBook'[d], n) = Way(book.out[d], toBook[d], n) BY <1>2, <1>6, <1>11, <2>1
  <2>3. Way(book'.out[d], toBook'[d], n) \in Int BY <1>4, <1>6, <1>11, <2>1
  <2> QED BY <1>6, <2>2, <2>3 DEF Purse
<1>19. now' \in Nat BY <1>5, InvFacts
<1>20. \A x \in Deals : x # d => deals'[x] = deals[x] /\ toBook'[x] = toBook[x] BY <1>11, <1>16
<1>21. Aside(book, book', d) /\ deals' \in [Deals -> DealSet] /\ toBook' \in [Deals -> Seq(BookMsgs)]
  BY <1>6, <1>11, <1>16
<1> QED BY <1>17, <1>18, <1>19, <1>20, <1>21, MovesEnd

\* The deal hears that its offer is closed: it has none and may list again.
LEMMA SellClosedKeeps ==
  ASSUME BookInv, NEW d \in Deals, TakeSellClosed(d)
  PROVE  BookInv'
<1> DEFINE q == book.queue
           dl2 == [deals[d] EXCEPT !.posted = FALSE]
<1>1. Pending(d, "closed") /\ book.out[d] # <<>> BY DEF TakeSellClosed, Pending
<1>2. /\ Live(deals[d]) /\ toBook[d] = <<>> /\ Tail(book.out[d]) = <<>>
      /\ Head(book.out[d]) = book.out[d][1]
      /\ NotListed(book, d) /\ NotWaiting(q, d) /\ NoDeal # d
  BY <1>1, AnswerHere
<1>3. DealTakes(d, book.landed) /\ now' = now /\ toBook' = toBook BY DEF TakeSellClosed
<1>4. /\ Aside(book, book', d) /\ book'.out[d] = <<>> /\ book'.handoverBuyer = book.handoverBuyer
      /\ book'.landed = book.landed /\ book'.repaid = book.repaid /\ book'.orders = book.orders
  BY <1>1, <1>2, <1>3, InvFacts, TakesIs
<1>5. deals[d] \in DealSet BY InvFacts
<1>6. dl2 \in DealSet BY <1>5, DealChanges
<1>7. deals' = [deals EXCEPT ![d] = dl2]
  <2>1. deals' = [deals EXCEPT ![d].posted = @ /\ (deals[d].funded \/ ~deals[d].alive)]
    BY DEF TakeSellClosed
  <2>2. (deals[d].posted /\ (deals[d].funded \/ ~deals[d].alive)) = FALSE BY <1>2 DEF Live
  <2> QED BY <2>1, <2>2, Zenon
<1>8. ~dl2.posted /\ ~dl2.failed BY <1>2, <1>5 DEF DealSet, Live
<1> HIDE DEF dl2
<1>9. /\ deals' \in [Deals -> DealSet] /\ \A x \in Deals : x # d => deals'[x] = deals[x]
      /\ deals'[d] = dl2
  BY <1>6, <1>7, DealSets
<1>10. DealOK(book', q, NoDeal, d, deals'[d], toBook'[d])
  <2>1. NotListed(book', d) BY <1>2, <1>4 DEF NotListed
  <2>2. Free(book', q, NoDeal, d, deals'[d], toBook'[d])
    BY <1>2, <1>3, <1>4, <1>8, <1>9, <2>1 DEF Free
  <2> QED BY <2>2 DEF DealOK
<1>11. ASSUME NEW n \in Notes
       PROVE  /\ Purse(book', toBook'[d], d, n) = Purse(book, toBook[d], d, n)
              /\ Way(book'.out[d], toBook'[d], n) \in Int
  <2>1. book.out[d][1].kind # "handover" BY <1>1, <1>2 DEF Pending
  <2>2. Way(book.out[d], toBook[d], n) = 0 BY <1>2, <2>1, WayZero
  <2>3. Way(book'.out[d], toBook'[d], n) = 0 BY <1>2, <1>3, <1>4, WayZero
  <2> QED BY <1>4, <2>2, <2>3 DEF Purse
<1>12. now' \in Nat BY <1>3, InvFacts
<1>13. \A x \in Deals : x # d => deals'[x] = deals[x] /\ toBook'[x] = toBook[x] BY <1>3, <1>9
<1>14. Aside(book, book', d) /\ deals' \in [Deals -> DealSet] /\ toBook' \in [Deals -> Seq(BookMsgs)]
  BY <1>3, <1>4, <1>9, InvFacts
<1> QED BY <1>10, <1>11, <1>12, <1>13, <1>14, MovesEnd

\* A deal with no offer changes its own flags.
LEMMA FreeKeeps ==
  ASSUME BookInv, NEW d \in Deals, NEW dl2 \in DealSet, deals[d].funded \/ ~deals[d].posted,
         ~dl2.posted, dl2.failed = deals[d].failed, deals' = [deals EXCEPT ![d] = dl2],
         BookIdle, toBook' = toBook, now' = now
  PROVE  BookInv'
<1> DEFINE q == book.queue
<1>1. DealOK(book, q, NoDeal, d, deals[d], toBook[d]) BY InvFacts
<1>2. Free(book, q, NoDeal, d, deals[d], toBook[d])
  BY <1>1 DEF DealOK, Sent, Waits, Matched, Lists, Answered, Stuck, Live
<1>3. /\ Aside(book, book', d) /\ book'.out = book.out /\ book'.handoverBuyer = book.handoverBuyer
      /\ book'.landed = book.landed /\ book'.repaid = book.repaid /\ book'.orders = book.orders
  BY IdleIs
<1>4. /\ deals' \in [Deals -> DealSet] /\ \A x \in Deals : x # d => deals'[x] = deals[x]
      /\ deals'[d] = dl2
  BY DealSets
<1>5. DealOK(book', q, NoDeal, d, deals'[d], toBook[d])
  <2>1. Free(book', q, NoDeal, d, deals'[d], toBook[d])
    BY <1>2, <1>3, <1>4 DEF Free, NotListed
  <2> QED BY <2>1 DEF DealOK
<1>6. Ledger(book', q, 0, 0, NoDeal, deals', toBook)
  <2>1. Stored(book) /\ Ledger(book, q, 0, 0, NoDeal, deals, toBook) BY InvFacts
  <2>2. book'.out[d] = book.out[d] BY <1>3
  <2> QED BY <1>3, <1>4, <1>5, <2>1, <2>2, QuietStep
<1>7. now' \in Nat /\ toBook' \in [Deals -> Seq(BookMsgs)] BY InvFacts
<1>8. Ledger(book', q, 0, 0, NoDeal, deals', toBook') BY <1>6
<1> QED BY <1>3, <1>4, <1>7, <1>8, AsideEnds

LEMMA CleanupKeeps ==
  ASSUME BookInv, NEW d \in Deals, CleanupUnopened(d)
  PROVE  BookInv'
<1> DEFINE dl2 == [deals[d] EXCEPT !.funded = FALSE, !.posted = FALSE]
<1>1. deals[d] \in DealSet BY InvFacts
<1>2. dl2 \in DealSet BY <1>1, DealChanges
<1>3. ~dl2.posted /\ dl2.failed = deals[d].failed BY <1>1 DEF DealSet
<1>4. deals' = [deals EXCEPT ![d] = dl2]
  <2>1. deals' = [deals EXCEPT ![d].funded = FALSE, ![d].posted = FALSE] BY DEF CleanupUnopened
  <2>2. d \in DOMAIN deals BY InvFacts
  <2> QED BY <2>1, <2>2
<1>5. deals[d].funded /\ BookIdle /\ toBook' = toBook /\ now' = now BY DEF CleanupUnopened
<1> HIDE DEF dl2
<1> QED BY <1>2, <1>3, <1>4, <1>5, FreeKeeps

LEMMA DiesKeeps ==
  ASSUME BookInv, NEW d \in Deals, DealDies(d)
  PROVE  BookInv'
<1> DEFINE dl2 == [deals[d] EXCEPT !.alive = FALSE]
<1>1. deals[d] \in DealSet BY InvFacts
<1>2. dl2 \in DealSet BY <1>1, DealChanges
<1>3. deals[d].funded \/ ~deals[d].posted BY DEF DealDies
<1>4. Free(book, book.queue, NoDeal, d, deals[d], toBook[d])
  <2>1. DealOK(book, book.queue, NoDeal, d, deals[d], toBook[d]) BY InvFacts
  <2> QED BY <1>3, <2>1 DEF DealOK, Sent, Waits, Matched, Lists, Answered, Stuck, Live
<1>5. ~deals[d].posted BY <1>4 DEF Free
<1>6. ~dl2.posted /\ dl2.failed = deals[d].failed BY <1>1, <1>5 DEF DealSet
<1>7. deals' = [deals EXCEPT ![d] = dl2] BY DEF DealDies
<1>8. BookIdle /\ toBook' = toBook /\ now' = now BY DEF DealDies
<1> HIDE DEF dl2
<1> QED BY <1>2, <1>3, <1>6, <1>7, <1>8, FreeKeeps

LEMMA TimeKeeps ==
  ASSUME BookInv, AdvanceTime
  PROVE  BookInv'
<1>1. /\ Aside(book, book', NoDeal) /\ book'.out = book.out /\ book'.handoverBuyer = book.handoverBuyer
      /\ book'.landed = book.landed /\ book'.repaid = book.repaid /\ book'.orders = book.orders
  BY IdleIs DEF AdvanceTime
<1>2. SameLedger(book, book') BY <1>1 DEF SameLedger, Aside
<1>3. book.requests \in Seq(RequestSet) /\ Ledger(book, book.queue, 0, 0, NoDeal, deals, toBook)
  BY InvFacts DEF Stored, BookShape
<1>4. Ledger(book', book.queue, 0, 0, NoDeal, deals, toBook) BY <1>2, <1>3, LedgerSame
<1>5. deals' = deals /\ toBook' = toBook /\ now' = now + 1 BY DEF AdvanceTime
<1>6. now' \in Nat BY <1>5, InvFacts
<1> QED BY <1>1, <1>4, <1>5, <1>6, InvFacts, AsideEnds

-----------------------------------------------------------------------------
(***************************************************************************)
(* The deals' answers reach the book.                                      *)
(***************************************************************************)
LEMMA TailOfTwo ==
  ASSUME NEW S, NEW s \in Seq(S), Len(s) = 2
  PROVE  Tail(s) = <<s[2]>> /\ Head(s) = s[1] /\ s[2] \in S
<1>1. s # <<>> /\ 2 \in DOMAIN s OBVIOUS
<1>2. s = <<s[1], s[2]>> OBVIOUS
<1>3. \A x, y : Tail(<<x, y>>) = <<y>> OBVIOUS
<1>4. Tail(s) = <<s[2]>> BY <1>2, <1>3
<1>5. Head(s) = s[1] /\ s[2] \in S BY <1>1
<1> QED BY <1>4, <1>5

LEMMA AcceptedKeeps ==
  ASSUME BookInv, NEW d \in Deals, OnHandoverAccepted(d)
  PROVE  BookInv'
<1> DEFINE q == book.queue
           tb == toBook[d]
           tb2 == Tail(tb)
           dl == deals[d]
<1>1. tb # <<>> /\ Head(tb).kind = "accepted" BY DEF OnHandoverAccepted, Arrives
<1>2. tb \in Seq(BookMsgs) /\ dl \in DealSet /\ DealOK(book, q, NoDeal, d, dl, tb) BY InvFacts
<1>3. Head(tb) = tb[1] /\ tb2 \in Seq(BookMsgs) BY <1>1, <1>2
<1>4. toBook' = [toBook EXCEPT ![d] = tb2] BY DEF OnHandoverAccepted, Consume
<1>5. deals' = deals /\ now' = now BY DEF OnHandoverAccepted
<1>6. /\ Aside(book, book', d) /\ book'.out = book.out /\ book'.landed = book.landed
      /\ book'.repaid = book.repaid /\ book'.orders = book.orders
  <2>1. /\ DOMAIN book' = BookFields /\ book'.orders = book.orders /\ book'.queue = book.queue
        /\ book'.nextOrderId = book.nextOrderId /\ book'.requests = book.requests
        /\ book'.trades = <<>> /\ book'.handoverBuyer = [book.handoverBuyer EXCEPT ![d] = NoNote]
        /\ book'.landed = book.landed /\ book'.repaid = book.repaid /\ book'.out = book.out
    BY InvFacts DEF OnHandoverAccepted, BookFields
  <2>2. book'.handoverBuyer \in [Deals -> Notes \cup {NoNote}]
        /\ \A x \in Deals : x # d => book'.handoverBuyer[x] = book.handoverBuyer[x]
    BY <2>1, InvFacts
  <2> QED BY <2>1, <2>2, InvFacts DEF Aside
<1>7. /\ toBook' \in [Deals -> Seq(BookMsgs)] /\ \A x \in Deals : x # d => toBook'[x] = toBook[x]
      /\ toBook'[d] = tb2
  <2> HIDE DEF tb2
  <2> QED BY <1>3, <1>4, MsgsSet
<1>8. \A m \in OfferMsgs : m.kind = "offer" BY DEF OfferMsgs
<1>9. \A m \in Bounced : m.kind = "bounced" BY DEF Bounced
<1>10. Accepted.kind = "accepted" BY DEF Accepted
<1>11. NoDeal # d BY BookAssumption
<1>12. \/ Sent(book, q, NoDeal, d, dl, tb) /\ Len(tb) = 2 /\ tb[2] \in OfferMsgs
       \/ Free(book, q, NoDeal, d, dl, tb) /\ tb = <<Accepted>>
  <2> HIDE DEF tb2
  <2> QED BY <1>1, <1>2, <1>3, <1>8, <1>9, <1>10
          DEF DealOK, Sent, Waits, Matched, Lists, Answered, Stuck, Free
<1>13. /\ DealOK(book', q, NoDeal, d, dl, tb2) /\ book.out[d] = <<>>
       /\ tb2 = <<>> \/ tb2[1].kind = "offer"
  <2>1. CASE Sent(book, q, NoDeal, d, dl, tb) /\ Len(tb) = 2 /\ tb[2] \in OfferMsgs
    <3> DEFINE offer == tb[2]
    <3>1. tb2 = <<offer>> BY <1>2, <2>1, TailOfTwo
    <3>2. Len(tb2) = 1 /\ tb2[1] = offer /\ offer \in OfferMsgs
      <4> HIDE DEF offer, tb2
      <4>1. Len(tb2) = 1 /\ tb2[1] = offer BY <3>1
      <4> QED BY <2>1, <4>1 DEF offer
    <3> HIDE DEF tb2, offer, tb
    <3>3. Sent(book', q, NoDeal, d, dl, tb2)
      BY <1>6, <1>11, <2>1, <3>2 DEF Sent, NotListed
    <3>4. book.out[d] = <<>> BY <2>1 DEF Sent
    <3> QED BY <1>8, <3>2, <3>3, <3>4 DEF DealOK
  <2>2. CASE Free(book, q, NoDeal, d, dl, tb) /\ tb = <<Accepted>>
    <3>1. tb2 = <<>> BY <2>2
    <3> HIDE DEF tb2
    <3>2. Free(book', q, NoDeal, d, dl, tb2) BY <1>6, <1>11, <2>2, <3>1 DEF Free, NotListed
    <3>3. book.out[d] = <<>> BY <2>2 DEF Free
    <3> QED BY <3>1, <3>2, <3>3 DEF DealOK
  <2> QED BY <1>12, <2>1, <2>2
<1> HIDE DEF tb2
<1>14. ASSUME NEW n \in Notes
       PROVE  /\ Purse(book', toBook'[d], d, n) = Purse(book, toBook[d], d, n)
              /\ Way(book'.out[d], toBook'[d], n) \in Int
  <2>1. tb[1].kind # "bounced" BY <1>1, <1>3
  <2>2. Way(book.out[d], toBook[d], n) = 0 BY <1>13, <2>1, WayZero
  <2>3. Way(book'.out[d], tb2, n) = 0 BY <1>6, <1>13, WayZero
  <2> QED BY <1>6, <1>7, <2>2, <2>3 DEF Purse
<1>15. DealOK(book', book.queue, NoDeal, d, deals'[d], toBook'[d]) BY <1>5, <1>7, <1>13
<1>16. now' \in Nat /\ deals' \in [Deals -> DealSet] BY <1>5, InvFacts
<1>17. \A x \in Deals : x # d => deals'[x] = deals[x] /\ toBook'[x] = toBook[x] BY <1>5, <1>7
<1>18. Aside(book, book', d) /\ toBook' \in [Deals -> Seq(BookMsgs)] BY <1>6, <1>7
<1> QED BY <1>14, <1>15, <1>16, <1>17, <1>18, MovesEnd

LEMMA OnBounceKeeps ==
  ASSUME BookInv, NEW d \in Deals, OnBounce(d)
  PROVE  BookInv'
<1> DEFINE q == book.queue
           tb == toBook[d]
           tb2 == Tail(tb)
           dl == deals[d]
           n0 == book.handoverBuyer[d]
           paid == Head(tb).paid
<1>1. tb # <<>> /\ Head(tb).kind = "bounced" BY DEF OnBounce, Arrives
<1>2. tb \in Seq(BookMsgs) /\ dl \in DealSet /\ DealOK(book, q, NoDeal, d, dl, tb) BY InvFacts
<1>3. Head(tb) = tb[1] /\ tb2 \in Seq(BookMsgs) BY <1>1, <1>2
<1>4. toBook' = [toBook EXCEPT ![d] = tb2] BY DEF OnBounce, Consume
<1>5. deals' = deals /\ now' = now BY DEF OnBounce
<1>6. \A m \in OfferMsgs : m.kind = "offer" BY DEF OfferMsgs
<1>7. Accepted.kind = "accepted" BY DEF Accepted
<1>8. Stuck(book, q, NoDeal, d, dl, tb) /\ Len(tb) = 1 /\ tb[1] \in Bounced /\ n0 = tb[1].buyer
  <2> HIDE DEF tb2
  <2>1. \/ Stuck(book, q, NoDeal, d, dl, tb) \/ Sent(book, q, NoDeal, d, dl, tb)
        \/ Free(book, q, NoDeal, d, dl, tb)
    BY <1>1, <1>2 DEF DealOK, Waits, Matched, Lists, Answered
  <2>2. ~Sent(book, q, NoDeal, d, dl, tb) BY <1>1, <1>3, <1>6, <1>7 DEF Sent
  <2>3. ~Free(book, q, NoDeal, d, dl, tb) BY <1>1, <1>3, <1>7 DEF Free
  <2>4. Stuck(book, q, NoDeal, d, dl, tb) BY <2>1, <2>2, <2>3
  <2> QED BY <1>1, <2>4 DEF Stuck
<1>9. tb2 = <<>> BY <1>2, <1>8, TailOfOne
<1>10. n0 \in Notes /\ paid \in Int /\ tb[1].paid = paid BY <1>3, <1>8 DEF Bounced
<1>11. n0 # NoNote BY <1>10, BookAssumption DEF Notes
<1>12. /\ DOMAIN book' = BookFields /\ book'.orders = book.orders /\ book'.queue = book.queue
       /\ book'.nextOrderId = book.nextOrderId /\ book'.requests = book.requests
       /\ book'.trades = <<>> /\ book'.handoverBuyer = [book.handoverBuyer EXCEPT ![d] = NoNote]
       /\ book'.landed = book.landed /\ book'.out = book.out
       /\ book'.repaid = [book.repaid EXCEPT ![n0] = @ + paid]
  <2>1. book' = [book EXCEPT !.handoverBuyer[d] = NoNote, !.trades = <<>>,
                   !.repaid = IF n0 = NoNote THEN @ ELSE [@ EXCEPT ![n0] = book.repaid[n0] + paid]]
    BY DEF OnBounce
  <2> HIDE DEF n0, paid
  <2>2. DOMAIN book = BookFields BY InvFacts
  <2>3. DOMAIN book' = BookFields BY <2>1, <2>2 DEF BookFields
  <2>4. /\ book'.orders = book.orders /\ book'.queue = book.queue
        /\ book'.nextOrderId = book.nextOrderId /\ book'.requests = book.requests
        /\ book'.landed = book.landed /\ book'.out = book.out /\ book'.trades = <<>>
    BY <2>1, <2>2 DEF BookFields
  <2>5. book'.handoverBuyer = [book.handoverBuyer EXCEPT ![d] = NoNote]
    BY <2>1, <2>2 DEF BookFields
  <2>6. book'.repaid = [book.repaid EXCEPT ![n0] = @ + paid]
    BY <1>11, <2>1, <2>2 DEF BookFields
  <2> QED BY <2>3, <2>4, <2>5, <2>6
<1> HIDE DEF tb2, n0, paid
<1>13. /\ Aside(book, book', d) /\ book'.out = book.out /\ book'.landed = book.landed
       /\ book'.orders = book.orders
       /\ \A n \in Notes : book'.repaid[n] = book.repaid[n] + (IF n = n0 THEN paid ELSE 0)
  <2>1. /\ DOMAIN book' = BookFields /\ book'.orders = book.orders /\ book'.queue = book.queue
        /\ book'.nextOrderId = book.nextOrderId /\ book'.requests = book.requests
        /\ book'.trades = <<>> /\ book'.handoverBuyer = [book.handoverBuyer EXCEPT ![d] = NoNote]
        /\ book'.landed = book.landed /\ book'.out = book.out
        /\ book'.repaid = [book.repaid EXCEPT ![n0] = @ + paid]
    BY <1>11, <1>12
  <2>2. book'.handoverBuyer \in [Deals -> Notes \cup {NoNote}]
        /\ \A x \in Deals : x # d => book'.handoverBuyer[x] = book.handoverBuyer[x]
    BY <2>1, InvFacts
  <2>3. book'.repaid \in [Notes -> Int] BY <1>10, <2>1, InvFacts
  <2>4. \A n \in Notes : book'.repaid[n] = book.repaid[n] + (IF n = n0 THEN paid ELSE 0)
    BY <1>10, <2>1, InvFacts
  <2> QED BY <2>1, <2>2, <2>3, <2>4, InvFacts DEF Aside
<1>14. /\ toBook' \in [Deals -> Seq(BookMsgs)] /\ \A x \in Deals : x # d => toBook'[x] = toBook[x]
       /\ toBook'[d] = tb2
  BY <1>3, <1>4, MsgsSet
<1>15. DealOK(book', q, NoDeal, d, dl, tb2)
  <2>1. Stuck(book', q, NoDeal, d, dl, tb2) BY <1>8, <1>9, <1>13 DEF Stuck, NotListed
  <2> QED BY <2>1 DEF DealOK
<1>16. ASSUME NEW n \in Notes
       PROVE  /\ Purse(book', toBook'[d], d, n) = Purse(book, toBook[d], d, n)
              /\ Way(book'.out[d], toBook'[d], n) \in Int
  <2>1. book.out[d] = <<>> BY <1>8 DEF Stuck
  <2>2. Way(book.out[d], tb, n) = IF n = n0 THEN paid ELSE 0
    BY <1>1, <1>3, <1>8, <1>10, <2>1 DEF Way
  <2>3. Way(book'.out[d], tb2, n) = 0 BY <1>9, <1>13, <2>1, WayZero
  <2>4. book.landed[n] \in Int /\ book.repaid[n] \in Int BY InvFacts
  <2>5. book'.repaid[n] = book.repaid[n] + (IF n = n0 THEN paid ELSE 0) /\ book'.landed[n] = book.landed[n]
    BY <1>13
  <2> QED BY <1>10, <1>14, <2>2, <2>3, <2>4, <2>5 DEF Purse
<1>17. DealOK(book', book.queue, NoDeal, d, deals'[d], toBook'[d]) BY <1>5, <1>14, <1>15
<1>18. now' \in Nat /\ deals' \in [Deals -> DealSet] BY <1>5, InvFacts
<1>19. \A x \in Deals : x # d => deals'[x] = deals[x] /\ toBook'[x] = toBook[x] BY <1>5, <1>14
<1>20. Aside(book, book', d) /\ toBook' \in [Deals -> Seq(BookMsgs)] BY <1>13, <1>14
<1> QED BY <1>16, <1>17, <1>18, <1>19, <1>20, MovesEnd

-----------------------------------------------------------------------------
(***************************************************************************)
(* The book's own calls.                                                   *)
(***************************************************************************)
LEMMA CallEnds ==
  ASSUME BookInv, NEW b, Calls(b)
  PROVE  BookInv'
<1>1. CallInv(ProcessHeadCore(b), deals, toBook') BY ProcessHeadKeeps DEF Calls
<1>2. book' = ProcessHeadCore(b) /\ deals' = deals /\ now' = now BY DEF Calls, BookCall
<1>3. CallInv(book', deals', toBook') BY <1>1, <1>2
<1> QED BY <1>2, <1>3, InvFacts DEF BookInv, CallInv, Calls

\* An offer that arrives is the deal's only message, and nothing else stands for it.
LEMMA OfferHere ==
  ASSUME BookInv, NEW d \in Deals, Arrives(d, "offer")
  PROVE  /\ Sent(book, book.queue, NoDeal, d, deals[d], toBook[d])
         /\ Tail(toBook[d]) = <<>> /\ Head(toBook[d]) \in OfferMsgs
         /\ \A n : Way(book.out[d], toBook[d], n) = 0
<1> DEFINE q == book.queue
           tb == toBook[d]
           dl == deals[d]
<1>1. tb # <<>> /\ Head(tb).kind = "offer" BY DEF Arrives
<1>2. tb \in Seq(BookMsgs) /\ DealOK(book, q, NoDeal, d, dl, tb) BY InvFacts
<1>3. Head(tb) = tb[1] BY <1>1, <1>2
<1>4. Accepted.kind = "accepted" BY DEF Accepted
<1>5. \A m \in Bounced : m.kind = "bounced" BY DEF Bounced
<1> HIDE DEF tb
<1>6. Sent(book, q, NoDeal, d, dl, tb) /\ Len(tb) = 1 /\ tb[1] \in OfferMsgs
  <2>1. \/ Stuck(book, q, NoDeal, d, dl, tb) \/ Sent(book, q, NoDeal, d, dl, tb)
        \/ Free(book, q, NoDeal, d, dl, tb)
    BY <1>1, <1>2 DEF DealOK, Waits, Matched, Lists, Answered
  <2>2. ~Stuck(book, q, NoDeal, d, dl, tb) BY <1>1, <1>3, <1>5 DEF Stuck
  <2>3. ~Free(book, q, NoDeal, d, dl, tb) BY <1>1, <1>3, <1>4 DEF Free
  <2> QED BY <1>1, <1>3, <1>4, <2>1, <2>2, <2>3 DEF Sent
<1>7. Tail(tb) = <<>> BY <1>2, <1>6, TailOfOne
<1>8. book.out[d] = <<>> BY <1>6 DEF Sent
<1>9. ASSUME NEW n PROVE Way(book.out[d], tb, n) = 0
  BY <1>1, <1>3, <1>8, WayZero
<1> QED BY <1>3, <1>6, <1>7, <1>9 DEF tb

LEMMA OfferRefused ==
  ASSUME BookInv, NEW d \in Deals, Arrives(d, "offer"), Consume(d),
         book' = [OnSellClosed(book, d) EXCEPT !.trades = <<>>], deals' = deals, now' = now
  PROVE  BookInv'
<1> DEFINE q == book.queue
           msg == [kind |-> "closed"]
<1>1. /\ Sent(book, q, NoDeal, d, deals[d], toBook[d])
      /\ Tail(toBook[d]) = <<>> /\ \A n : Way(book.out[d], toBook[d], n) = 0
  BY OfferHere
<1>2. book.out[d] = <<>> /\ NoDeal # d BY <1>1, BookAssumption DEF Sent
<1>3. /\ toBook' \in [Deals -> Seq(BookMsgs)] /\ \A x \in Deals : x # d => toBook'[x] = toBook[x]
      /\ toBook'[d] = <<>>
  <2>1. toBook' = [toBook EXCEPT ![d] = <<>>] BY <1>1 DEF Consume
  <2>2. <<>> \in Seq(BookMsgs) OBVIOUS
  <2> QED BY <2>1, <2>2, MsgsSet
<1>4. msg \in OutMsgs /\ msg.kind = "closed" BY DEF OutMsgs
<1>5. /\ DOMAIN book' = BookFields /\ book'.orders = book.orders /\ book'.queue = book.queue
      /\ book'.nextOrderId = book.nextOrderId /\ book'.requests = book.requests
      /\ book'.trades = <<>> /\ book'.handoverBuyer = book.handoverBuyer
      /\ book'.landed = book.landed /\ book'.repaid = book.repaid
      /\ book'.out = [book.out EXCEPT ![d] = Append(@, msg)]
  BY InvFacts DEF OnSellClosed, Send, BookFields
<1> HIDE DEF msg
<1>6. book'.out \in [Deals -> Seq(OutMsgs)]
  <2>1. Stored(book) BY InvFacts
  <2> DEFINE out2 == book'.out
  <2>2. out2 = [book.out EXCEPT ![d] = Append(@, msg)] BY <1>5
  <2> HIDE DEF out2
  <2>3. out2 \in [Deals -> Seq(OutMsgs)] BY <1>4, <2>1, <2>2, OutGrows
  <2> QED BY <2>3 DEF out2
<1>7. book'.out[d] = <<msg>> /\ \A x \in Deals : x # d => book'.out[x] = book.out[x]
  <2>1. book'.out[d] = Append(book.out[d], msg) BY <1>5, InvFacts
  <2>2. Append(<<>>, msg) = <<msg>> OBVIOUS
  <2> QED BY <1>2, <1>5, <2>1, <2>2, InvFacts
<1>8. Aside(book, book', d) BY <1>5, <1>6, <1>7, InvFacts DEF Aside
<1> DEFINE out2 == book'.out[d]
<1>9a. out2 = <<msg>> BY <1>7
<1> HIDE DEF out2
<1>9. Len(out2) = 1 /\ out2[1] = msg BY <1>9a
<1>10. DealOK(book', book.queue, NoDeal, d, deals'[d], toBook'[d])
  <2>1. NotListed(book', d) /\ NotWaiting(q, d) /\ Live(deals'[d]) BY <1>1, <1>5 DEF Sent, NotListed
  <2>2. Len(book'.out[d]) = 1 /\ book'.out[d][1].kind # "handover" BY <1>4, <1>9 DEF out2
  <2>3. Answered(book', q, NoDeal, d, deals'[d], toBook'[d])
    BY <1>2, <1>3, <2>1, <2>2 DEF Answered
  <2> QED BY <2>3 DEF DealOK
<1>11. ASSUME NEW n \in Notes
       PROVE  /\ Purse(book', toBook'[d], d, n) = Purse(book, toBook[d], d, n)
              /\ Way(book'.out[d], toBook'[d], n) \in Int
  <2>1. book'.out[d][1].kind # "handover" BY <1>4, <1>9 DEF out2
  <2>2. Way(book'.out[d], toBook'[d], n) = 0 BY <1>3, <2>1, WayZero
  <2> QED BY <1>1, <1>5, <2>2 DEF Purse
<1>12. now' \in Nat /\ deals' \in [Deals -> DealSet] BY InvFacts
<1>13. \A x \in Deals : x # d => deals'[x] = deals[x] /\ toBook'[x] = toBook[x] BY <1>3
<1> QED BY <1>3, <1>8, <1>10, <1>11, <1>12, <1>13, MovesEnd

LEMMA OfferQueued ==
  ASSUME BookInv, NEW d \in Deals, Arrives(d, "offer"), Consume(d), NEW offer,
         offer = Head(toBook[d]), AskTicks[d] >= 2, "MARKET" \notin offer.flags,
         NEW e, e = [Entry("place", Seller) EXCEPT !.flags = offer.flags, !.price = AskPrice[d],
                       !.amount = AskTicks[d], !.deal = d, !.deadline = offer.deadline],
         BookCall(Enqueue(book, e))
  PROVE  Calls(Enqueue(book, e))
<1> DEFINE q == book.queue
<1>1. /\ Sent(book, q, NoDeal, d, deals[d], toBook[d]) /\ offer \in OfferMsgs
      /\ Tail(toBook[d]) = <<>> /\ \A n : Way(book.out[d], toBook[d], n) = 0
  BY OfferHere
<1>2. book.out[d] = <<>> /\ NoDeal # d BY <1>1, BookAssumption DEF Sent
<1>3. /\ toBook' \in [Deals -> Seq(BookMsgs)] /\ \A x \in Deals : x # d => toBook'[x] = toBook[x]
      /\ toBook'[d] = <<>>
  <2>1. toBook' = [toBook EXCEPT ![d] = <<>>] BY <1>1 DEF Consume
  <2>2. <<>> \in Seq(BookMsgs) OBVIOUS
  <2> QED BY <2>1, <2>2, MsgsSet
<1>4. offer.flags \in SellFlags /\ offer.deadline \in Int BY <1>1 DEF OfferMsgs
<1>5. AskPrice[d] \in Nat \ {0} /\ AskTicks[d] \in Nat BY BookAssumption
<1>6. /\ e.type = "place" /\ e.note = Seller /\ e.isBuy = FALSE /\ e.flags = offer.flags
      /\ e.price = AskPrice[d] /\ e.amount = AskTicks[d] /\ e.deal = d /\ e.client = 0
      /\ e.contOrderId = 0 /\ e.escrow = 0
  BY DEF Entry
<1>7. e \in EntrySet
  <2>1. offer.flags \in AllFlags BY <1>4 DEF AllFlags
  <2>2. Seller \in Notes \cup {NoNote} BY DEF Notes
  <2>3. AskPrice[d] \in Nat \cup {MarketPrice} /\ AskTicks[d] \in Int BY <1>5
  <2> DEFINE e0 == Entry("place", Seller)
  <2>4. e0 \in EntrySet BY <2>2, EntryType
  <2> HIDE DEF e0
  <2> DEFINE fl == offer.flags
             dl == offer.deadline
             p == AskPrice[d]
             a == AskTicks[d]
  <2>5. e = [e0 EXCEPT !.flags = fl, !.price = p, !.amount = a, !.deal = d, !.deadline = dl]
    BY DEF e0
  <2>6. fl \in AllFlags /\ p \in Nat \cup {MarketPrice} /\ a \in Int /\ dl \in Int
    BY <1>4, <2>1, <2>3
  <2> HIDE DEF fl, dl, p, a
  <2> DEFINE e1 == [e0 EXCEPT !.flags = fl, !.price = p]
  <2>7. e1 \in EntrySet BY <2>4, <2>6 DEF EntrySet
  <2> DEFINE e2 == [e1 EXCEPT !.amount = a, !.deal = d]
  <2>8. e = [e2 EXCEPT !.deadline = dl] BY <2>5
  <2> HIDE DEF e1
  <2>9. e2 \in EntrySet BY <2>6, <2>7 DEF EntrySet
  <2> HIDE DEF e2
  <2> QED BY <2>6, <2>8, <2>9 DEF EntrySet
<1>8. EntryOK(book, e)
  <2>1. Sides(book, e) BY <1>5, <1>6 DEF Sides
  <2>2. e.note \in Notes BY <1>6 DEF Notes
  <2>3. Taking(book, e) BY <1>5, <1>6, <1>7, <2>1, <2>2 DEF Taking
  <2> QED BY <1>5, <1>6, <2>3 DEF EntryOK
<1> DEFINE b == [book EXCEPT !.trades = <<>>]
<1>9. /\ DOMAIN b = BookFields /\ b.orders = book.orders /\ b.queue = book.queue
      /\ b.nextOrderId = book.nextOrderId /\ b.requests = book.requests
      /\ b.trades = <<>> /\ b.handoverBuyer = book.handoverBuyer
      /\ b.landed = book.landed /\ b.repaid = book.repaid /\ b.out = book.out
  BY InvFacts DEF BookFields
<1> HIDE DEF b
<1>10. Aside(book, b, d) BY <1>9, InvFacts DEF Aside
<1>11. SameLedger(b, book) BY <1>9 DEF SameLedger
<1>12. Ledger(b, q, 0, 0, d, deals, toBook')
  <2>1. DealOK(b, q, d, d, deals[d], toBook'[d])
    <3>1. Matched(b, q, d, d, deals[d], toBook'[d])
      BY <1>1, <1>3, <1>9 DEF Matched, Sent, NotListed
    <3> QED BY <3>1 DEF DealOK
  <2>2. ASSUME NEW n \in Notes
        PROVE  /\ Purse(b, toBook'[d], d, n) = Purse(book, toBook[d], d, n)
               /\ Way(b.out[d], toBook'[d], n) \in Int
    <3>1. Way(b.out[d], toBook'[d], n) = 0 BY <1>2, <1>3, <1>9, WayZero
    <3> QED BY <1>1, <1>9, <3>1 DEF Purse
  <2>3. \A x \in Deals : x # d => deals[x] = deals[x] /\ toBook'[x] = toBook[x] BY <1>3
  <2>4. Stored(book) /\ Ledger(book, q, 0, 0, NoDeal, deals, toBook) BY InvFacts
  <2> QED BY <1>10, <2>1, <2>2, <2>3, <2>4, LedgerMoves
<1>13. Ledger(book, q, 0, 0, d, deals, toBook')
  <2>1. b.requests \in Seq(RequestSet) BY <1>9, InvFacts DEF Stored, BookShape
  <2> QED BY <1>11, <1>12, <2>1, LedgerSame
<1>14. HeldInQueue(e) = 0 BY <1>6 DEF HeldInQueue
<1>15. Ledger(book, book.queue, e.client, HeldInQueue(e), e.deal, deals, toBook')
  BY <1>6, <1>13, <1>14
<1> DEFINE b2 == Enqueue(book, e)
<1>16. CallInv(b2, deals, toBook') BY <1>6, <1>7, <1>8, <1>15, InvFacts, EnqueueKeeps
<1> QED BY <1>3, <1>16 DEF Calls

LEMMA OfferKeeps ==
  ASSUME BookInv, NEW d \in Deals, PlaceSellOffer(d)
  PROVE  BookInv'
<1> DEFINE offer == Head(toBook[d])
           bad   == AskTicks[d] < 2 \/ "MARKET" \in offer.flags \/ BadFlags(offer.flags)
           e     == [Entry("place", Seller) EXCEPT !.flags = offer.flags, !.price = AskPrice[d],
                       !.amount = AskTicks[d], !.deal = d, !.deadline = offer.deadline]
<1>1. Arrives(d, "offer") /\ Consume(d) BY DEF PlaceSellOffer
<1>2. CASE bad \/ Len(book.queue) >= QUEUE_PLACE_LIMIT
  <2>1. book' = [OnSellClosed(book, d) EXCEPT !.trades = <<>>] /\ deals' = deals /\ now' = now
    BY <1>2 DEF PlaceSellOffer
  <2> QED BY <1>1, <2>1, OfferRefused
<1>3. CASE ~(bad \/ Len(book.queue) >= QUEUE_PLACE_LIMIT)
  <2>1. BookCall(Enqueue(book, e)) BY <1>3 DEF PlaceSellOffer
  <2>2. AskTicks[d] \in Nat BY BookAssumption
  <2>3. AskTicks[d] >= 2 /\ "MARKET" \notin offer.flags BY <1>3, <2>2
  <2> DEFINE b == Enqueue(book, e)
  <2>4. Calls(b) BY <1>1, <2>1, <2>3, OfferQueued
  <2> HIDE DEF b
  <2> QED BY <2>4, CallEnds
<1> QED BY <1>2, <1>3

LEMMA BuyCalls ==
  ASSUME BookInv, NEW n \in Buyers, NEW ticks \in BuyTicks, NEW price \in BuyPrices,
         NEW flags \in BuyFlags, NEW life \in Lifetimes, NEW surplus \in Surplus,
         PlaceBuyOrder(n, ticks, price, flags, life, surplus)
  PROVE  \E b, e : /\ Calls(Enqueue(b, e)) /\ Wants(e, ticks, price, flags, surplus)
                   /\ DOMAIN b = BookFields /\ b.orders = book.orders /\ b.queue = book.queue
<1> DEFINE isMarket == "MARKET" \in flags
           cost     == Debit(ticks, price, flags)
           c        == Len(book.requests) + 1
           request  == [ note |-> n, committed |-> cost + surplus, placed |-> 0, rejected |-> 0,
                         removed |-> 0, spent |-> 0, back |-> 0 ]
           stored   == IF isMarket THEN MarketPrice ELSE price
           deadline == IF life = 0 THEN 0 ELSE now + life
           e        == [Entry("place", n) EXCEPT !.isBuy = TRUE, !.flags = flags,
                          !.price = stored, !.amount = ticks,
                          !.escrow = cost + surplus, !.client = c, !.deadline = deadline]
           b2       == [book EXCEPT !.requests = Append(@, request)]
<1>1. BookCall(Enqueue(b2, e)) /\ toBook' = toBook BY DEF PlaceBuyOrder
<1>2. n \in Notes /\ ticks \in Nat /\ price \in Nat \ {0} /\ surplus \in Nat /\ life \in Nat
  BY BookAssumption DEF Notes
<1>3. now \in Nat /\ book.requests \in Seq(RequestSet) BY InvFacts DEF Stored, BookShape
<1>4. cost + surplus \in Int
  <2>1. cost \in Int BY <1>2, DebitType
  <2> HIDE DEF cost
  <2> QED BY <1>2, <2>1
<1>5. c \in Nat \ {0} BY <1>3
<1>6. stored \in Nat \cup {MarketPrice} /\ (~isMarket => stored = price) BY <1>2
<1>7. deadline \in Int BY <1>2, <1>3
<1>8. flags \in AllFlags BY DEF AllFlags
<1> DEFINE money == cost + surplus
<1>9. money \in Int BY <1>4
<1>10. request = [ note |-> n, committed |-> money, placed |-> 0, rejected |-> 0,
                   removed |-> 0, spent |-> 0, back |-> 0 ]
  OBVIOUS
<1>11. e = [Entry("place", n) EXCEPT !.isBuy = TRUE, !.flags = flags,
              !.price = stored, !.amount = ticks,
              !.escrow = money, !.client = c, !.deadline = deadline]
  OBVIOUS
<1> HIDE DEF cost, money, stored, deadline, request, e
<1>12. /\ request \in RequestSet /\ Unanswered(request) /\ request.spent = 0
       /\ request.committed = money /\ request.note = n
       /\ request.committed = request.spent + request.back + request.committed
  BY <1>2, <1>9, <1>10 DEF RequestSet, Unanswered
<1>13. /\ e.type = "place" /\ e.note = n /\ e.isBuy = TRUE /\ e.flags = flags /\ e.price = stored
       /\ e.escrow = money /\ e.client = c /\ e.deal = NoDeal /\ e.contOrderId = 0
       /\ e.amount = ticks /\ e.contScanOrder = 0
  BY <1>11 DEF Entry
<1>14. e \in EntrySet
  <2> DEFINE e0 == Entry("place", n)
  <2>1. e0 \in EntrySet BY <1>2, EntryType
  <2> HIDE DEF e0
  <2>2. e = [e0 EXCEPT !.isBuy = TRUE, !.flags = flags, !.price = stored, !.amount = ticks,
                       !.escrow = money, !.client = c, !.deadline = deadline]
    BY <1>11 DEF e0
  <2>3. c \in Nat /\ ticks \in Int BY <1>2, <1>5
  <2> HIDE DEF c
  <2> QED BY <1>6, <1>7, <1>8, <1>9, <2>1, <2>2, <2>3 DEF EntrySet
<1>15. CallInv(book, deals, toBook) BY InvFacts DEF CallInv
<1>16. /\ Stored(b2) /\ QueueOK(b2) /\ c \in DOMAIN b2.requests /\ b2.requests[c] = request
       /\ Ledger(b2, b2.queue, c, request.committed, NoDeal, deals, toBook)
  BY <1>12, <1>15, RequestJoins
<1>16a. DOMAIN b2 = BookFields /\ b2.orders = book.orders /\ b2.queue = book.queue
  BY InvFacts DEF BookFields
<1> HIDE DEF b2, c
<1>17. EntryOK(b2, e)
  <2>1. Sides(b2, e) BY <1>12, <1>13, <1>16 DEF Sides
  <2>2. Taking(b2, e) BY <1>2, <1>6, <1>13, <1>14, <2>1 DEF Taking
  <2> QED BY <1>13, <2>2 DEF EntryOK
<1>18. HeldInQueue(e) = request.committed BY <1>12, <1>13 DEF HeldInQueue
<1>19. Ledger(b2, b2.queue, e.client, HeldInQueue(e), e.deal, deals, toBook)
  BY <1>13, <1>16, <1>18
<1> DEFINE b3 == Enqueue(b2, e)
<1>20. CallInv(b3, deals, toBook) BY <1>13, <1>14, <1>16, <1>17, <1>19, EnqueueKeeps
<1>21. BookCall(b3) BY <1>1
<1> HIDE DEF b3
<1>22. CallInv(b3, deals, toBook') BY <1>1, <1>20
<1>23. Calls(b3) BY <1>1, <1>21, <1>22, InvFacts DEF Calls
<1>24. Wants(e, ticks, price, flags, surplus) BY <1>6, <1>13 DEF Wants, money, cost
<1> QED BY <1>16a, <1>23, <1>24 DEF b3

LEMMA BuyKeeps ==
  ASSUME BookInv, NEW n \in Buyers, NEW ticks \in BuyTicks, NEW price \in BuyPrices,
         NEW flags \in BuyFlags, NEW life \in Lifetimes, NEW surplus \in Surplus,
         PlaceBuyOrder(n, ticks, price, flags, life, surplus)
  PROVE  BookInv'
BY BuyCalls, CallEnds

\* The calls that queue a removal.
LEMMA RemovalCall ==
  ASSUME BookInv, NEW type \in {"cancel", "cancelAll", "expire"}, NEW note \in Notes \cup {NoNote},
         NEW id \in Nat, NEW e,
         e = Entry(type, note) \/ e = [Entry(type, note) EXCEPT !.target = id],
         BookCall(Enqueue(book, e)), toBook' = toBook
  PROVE  BookInv' /\ Calls(Enqueue(book, e)) /\ e.type = type /\ e.contOrderId = 0
<1> DEFINE b == Enqueue(book, e)
<1>1. CallInv(book, deals, toBook) BY InvFacts DEF CallInv
<1>2. CallInv(b, deals, toBook) BY <1>1, RemovalQueued
<1>3. e.type = type /\ e.contOrderId = 0 BY DEF Entry
<1>4. BookCall(b) OBVIOUS
<1> HIDE DEF b
<1>5. Calls(b) BY <1>2, <1>4, InvFacts DEF Calls
<1>6. BookInv' BY <1>5, CallEnds
<1> QED BY <1>3, <1>5, <1>6 DEF b

LEMMA OrderNumbers == ASSUME BookInv PROVE 1..book.nextOrderId \subseteq Nat
<1>1. book.nextOrderId \in Nat BY InvFacts DEF Stored, BookShape
<1> QED BY <1>1

LEMMA CancelKeeps ==
  ASSUME BookInv, NEW n \in Notes, NEW id \in 1..book.nextOrderId, CancelOrder(n, id)
  PROVE  BookInv'
<1>1. id \in Nat BY OrderNumbers
<1> DEFINE e == [Entry("cancel", n) EXCEPT !.target = id]
<1>2. BookCall(Enqueue(book, e)) /\ toBook' = toBook BY DEF CancelOrder
<1> QED BY <1>1, <1>2, RemovalCall

LEMMA CancelAllKeeps ==
  ASSUME BookInv, NEW n \in Notes, CancelAllOrders(n)
  PROVE  BookInv'
<1> DEFINE e == Entry("cancelAll", n)
<1>1. BookCall(Enqueue(book, e)) /\ toBook' = toBook BY DEF CancelAllOrders
<1>2. 0 \in Nat OBVIOUS
<1> QED BY <1>1, <1>2, RemovalCall

LEMMA ExpireKeeps ==
  ASSUME BookInv, NEW id \in 1..book.nextOrderId, ExpireOrder(id)
  PROVE  BookInv'
<1>1. id \in Nat BY OrderNumbers
<1> DEFINE e == [Entry("expire", NoNote) EXCEPT !.target = id]
<1>2. BookCall(Enqueue(book, e)) /\ toBook' = toBook BY DEF ExpireOrder
<1> QED BY <1>1, <1>2, RemovalCall

LEMMA HeadCalls ==
  ASSUME BookInv, ProcessHead, NEW b, b = [book EXCEPT !.trades = <<>>]
  PROVE  Calls(b) /\ b.orders = book.orders /\ b.queue = book.queue /\ b.trades = <<>>
<1>1. BookCall(b) /\ toBook' = toBook BY DEF ProcessHead
<1>2. /\ DOMAIN b = BookFields /\ b.orders = book.orders /\ b.queue = book.queue
      /\ b.nextOrderId = book.nextOrderId /\ b.requests = book.requests
      /\ b.trades = <<>> /\ b.handoverBuyer = book.handoverBuyer
      /\ b.landed = book.landed /\ b.repaid = book.repaid /\ b.out = book.out
  BY InvFacts DEF BookFields
<1>3. Aside(book, b, NoDeal) BY <1>2, InvFacts DEF Aside
<1>4. Stored(b) /\ QueueOK(b) BY <1>3, InvFacts, AsideStored
<1>5. SameLedger(book, b) BY <1>2 DEF SameLedger
<1>6. book.requests \in Seq(RequestSet) BY InvFacts DEF Stored, BookShape
<1>7. Ledger(b, book.queue, 0, 0, NoDeal, deals, toBook) BY <1>5, <1>6, InvFacts, LedgerSame
<1>8. CallInv(b, deals, toBook') BY <1>1, <1>2, <1>4, <1>7 DEF CallInv
<1> QED BY <1>1, <1>2, <1>8, InvFacts DEF Calls

LEMMA HeadKeeps == ASSUME BookInv, ProcessHead PROVE BookInv'
BY HeadCalls, CallEnds

-----------------------------------------------------------------------------
(***************************************************************************)
(* The invariant.                                                          *)
(***************************************************************************)
LEMMA InitHolds == ASSUME Init PROVE BookInv
<1>1. /\ book.orders = <<>> /\ book.queue = <<>> /\ book.nextOrderId = 1
      /\ book.handoverBuyer = [d \in Deals |-> NoNote] /\ book.out = [d \in Deals |-> <<>>]
      /\ book.requests = <<>> /\ book.repaid = [n \in Notes |-> 0]
      /\ book.landed = [n \in Notes |-> 0] /\ book.trades = <<>> /\ DOMAIN book = BookFields
  BY DEF Init, BookFields
<1>2. /\ now = 0 /\ toBook = [d \in Deals |-> <<>>]
      /\ deals = [d \in Deals |-> [alive |-> TRUE, posted |-> FALSE, funded |-> FALSE,
                                   failed |-> FALSE, offers |-> 0]]
  BY DEF Init
<1>3. DOMAIN <<>> = {} /\ \A S : <<>> \in Seq(S) OBVIOUS
<1>4. Stored(book)
  <2>1. DOMAIN book.orders \subseteq 1..(book.nextOrderId - 1) BY <1>1
  <2>2. book.orders \in [DOMAIN book.orders -> OrderSet] BY <1>1
  <2>3. book.queue \in Seq(EntrySet) /\ book.requests \in Seq(RequestSet) /\ book.trades \in Seq(FillSet)
    BY <1>1, <1>3
  <2>4. book.out \in [Deals -> Seq(OutMsgs)] BY <1>1, <1>3
  <2>5. BookShape(book) BY <1>1, <2>1, <2>2, <2>3, <2>4 DEF BookShape
  <2> QED BY <1>1, <2>5 DEF Stored
<1>5. QueueOK(book) BY <1>1 DEF QueueOK
<1>6. deals \in [Deals -> DealSet] BY <1>2 DEF DealSet
<1>7. toBook \in [Deals -> Seq(BookMsgs)] BY <1>2, <1>3
<1>8. \A c \in DOMAIN book.requests : ClientOK(book, book.queue, 0, 0, c) BY <1>1
<1>9. ASSUME NEW x \in Deals PROVE DealOK(book, book.queue, NoDeal, x, deals[x], toBook[x])
  <2>1. ~deals[x].posted /\ ~deals[x].failed /\ toBook[x] = <<>> /\ book.out[x] = <<>> BY <1>1, <1>2
  <2>2. NotListed(book, x) /\ NotWaiting(book.queue, x) BY <1>1 DEF NotListed, NotWaiting
  <2>3. NoDeal # x BY BookAssumption
  <2>4. Free(book, book.queue, NoDeal, x, deals[x], toBook[x]) BY <2>1, <2>2, <2>3 DEF Free
  <2> QED BY <2>4 DEF DealOK
<1>10. ASSUME NEW n \in Notes PROVE Balanced(book, toBook, n)
  <2>1. RequestsOf(book, n) = {} BY <1>1 DEF RequestsOf
  <2>2. Sum(Spent(book), RequestsOf(book, n)) = 0 BY <2>1, SumEmpty
  <2> DEFINE w == Ways(book, toBook, n)
  <2>3. \A x \in Deals : w[x] = 0 BY <1>1, <1>2, WayZero DEF Ways
  <2> HIDE DEF w
  <2>4. Sum(w, Deals) = 0 BY <2>3, BookAssumption, SumZero
  <2>5. book.landed[n] = 0 /\ book.repaid[n] = 0 BY <1>1
  <2> QED BY <2>2, <2>4, <2>5 DEF Balanced, w
<1>11. Ledger(book, book.queue, 0, 0, NoDeal, deals, toBook) BY <1>8, <1>9, <1>10 DEF Ledger
<1> QED BY <1>2, <1>4, <1>5, <1>6, <1>7, <1>11 DEF BookInv

LEMMA DealStepKeeps ==
  ASSUME BookInv, NEW d \in Deals, DealStep(d)
  PROVE  BookInv'
BY FundKeeps, BounceKeeps, SellClosedKeeps, CleanupKeeps, DiesKeeps DEF DealStep

LEMMA NextKeeps == ASSUME BookInv, [Next]_vars PROVE BookInv'
<1>1. CASE BuyCall BY <1>1, BuyKeeps DEF BuyCall
<1>2. CASE ProcessHead BY <1>2, HeadKeeps
<1>3. ASSUME NEW n \in Notes, CancelAllOrders(n) PROVE BookInv' BY <1>3, CancelAllKeeps
<1>4. ASSUME NEW n \in Notes, NEW id \in 1..book.nextOrderId, CancelOrder(n, id) PROVE BookInv'
  BY <1>4, CancelKeeps
<1>5. ASSUME NEW id \in 1..book.nextOrderId, ExpireOrder(id) PROVE BookInv' BY <1>5, ExpireKeeps
<1>6. ASSUME NEW d \in Deals, OfferCall(d) PROVE BookInv' BY <1>6, PostKeeps DEF OfferCall
<1>7. ASSUME NEW d \in Deals, PlaceSellOffer(d) PROVE BookInv' BY <1>7, OfferKeeps
<1>8. ASSUME NEW d \in Deals, OnHandoverAccepted(d) PROVE BookInv' BY <1>8, AcceptedKeeps
<1>9. ASSUME NEW d \in Deals, OnBounce(d) PROVE BookInv' BY <1>9, OnBounceKeeps
<1>10. ASSUME NEW d \in Awake, DealStep(d) PROVE BookInv'
  <2>1. d \in Deals BY BookAssumption
  <2> QED BY <1>10, <2>1, DealStepKeeps
<1>11. CASE AdvanceTime BY <1>11, TimeKeeps
<1>12. CASE UNCHANGED vars
  <2>1. book' = book /\ deals' = deals /\ toBook' = toBook /\ now' = now BY <1>12 DEF vars
  <2> QED BY <2>1, InvFacts DEF BookInv
<1> QED BY <1>1, <1>2, <1>3, <1>4, <1>5, <1>6, <1>7, <1>8, <1>9, <1>10, <1>11, <1>12 DEF Next

\* Between any two transactions every request and every offer is in exactly one place,
\* with the money and the notices that belong to the place.
THEOREM SpecImpliesBookInv == Spec => []BookInv
<1>1. Init => BookInv BY InitHolds
<1>2. BookInv /\ [Next]_vars => BookInv' BY NextKeeps
<1> QED BY <1>1, <1>2, PTL DEF Spec

-----------------------------------------------------------------------------
(***************************************************************************)
(* What the invariant says in the terms of the model's properties.         *)
(***************************************************************************)
LEMMA SumNone == ASSUME NEW f, DOMAIN f = {} PROVE SumFunction(f) = 0
<1>1. SumFunction(f) = Sum(f, DOMAIN f) BY DEF Sum, SumFunction
<1> QED BY <1>1, SumEmpty

LEMMA SumSingle == ASSUME NEW f, NEW x, DOMAIN f = {x}, f[x] \in Int PROVE SumFunction(f) = f[x]
<1>1. SumFunction(f) = Sum(f, DOMAIN f) BY DEF Sum, SumFunction
<1>2. Sum(f, {x}) = f[x] BY SumOne
<1> QED BY <1>1, <1>2

LEMMA CountNone == ASSUME NEW S, \A x \in S : FALSE PROVE Cardinality(S) = 0
<1>1. S = {} OBVIOUS
<1> QED BY <1>1, FS_EmptySet

LEMMA CountSingle ==
  ASSUME NEW S, NEW x \in S, \A y \in S : y = x
  PROVE  Cardinality(S) = 1
<1>1. S = {x} OBVIOUS
<1> QED BY <1>1, FS_Singleton

LEMMA AccountedOf ==
  ASSUME BookInv, NEW c \in DOMAIN book.requests
  PROVE  LET r == book.requests[c]
         IN  /\ r.committed = r.spent + r.back
                  + SumFunction([k \in Queued(c) |-> HeldInQueue(book.queue[k])])
                  + SumFunction([id \in Resting(c) |-> book.orders[id].escrow])
             /\ r.placed + r.rejected = IF Queued(c) = {} THEN 1 ELSE 0
             /\ r.placed = r.removed + Cardinality(Resting(c))
<1> DEFINE r  == book.requests[c]
           fq == [k \in Queued(c) |-> HeldInQueue(book.queue[k])]
           fo == [id \in Resting(c) |-> book.orders[id].escrow]
<1>1. /\ book.requests \in Seq(RequestSet) /\ book.queue \in Seq(EntrySet)
      /\ book.orders \in [DOMAIN book.orders -> OrderSet]
  BY InvFacts DEF Stored, BookShape
<1>2. r \in RequestSet BY <1>1
<1>3. /\ r.committed \in Int /\ r.spent \in Int /\ r.back \in Int /\ r.placed \in Int
      /\ r.rejected \in Int /\ r.removed \in Int
  BY <1>2 DEF RequestSet
<1>4. ClientOK(book, book.queue, 0, 0, c) BY InvFacts DEF Ledger
<1>5. c # 0 BY <1>1, RequestNumbers
<1>6. NotQueued(book.queue, c) => Queued(c) = {} /\ SumFunction(fq) = 0
  <2> SUFFICES ASSUME NotQueued(book.queue, c) PROVE Queued(c) = {} /\ SumFunction(fq) = 0
    OBVIOUS
  <2>1. Queued(c) = {} BY DEF NotQueued, Queued
  <2>2. DOMAIN fq = {} BY <2>1
  <2> HIDE DEF fq
  <2> QED BY <2>1, <2>2, SumNone
<1>7. NotResting(book, c) => Cardinality(Resting(c)) = 0 /\ SumFunction(fo) = 0
  <2> SUFFICES ASSUME NotResting(book, c)
               PROVE  Cardinality(Resting(c)) = 0 /\ SumFunction(fo) = 0
    OBVIOUS
  <2>1. \A x \in Resting(c) : FALSE BY DEF NotResting, Resting
  <2>2. DOMAIN fo = {} BY <2>1
  <2> HIDE DEF fo
  <2> QED BY <2>1, <2>2, SumNone, CountNone
<1>8. CASE Waiting(book, book.queue, 0, c)
  <2>1. PICK k \in DOMAIN book.queue :
          /\ book.queue[k].client = c /\ \A l \in DOMAIN book.queue : book.queue[l].client = c => l = k
          /\ r.committed = r.spent + r.back + HeldInQueue(book.queue[k])
    BY <1>8 DEF Waiting
  <2>2. Queued(c) = {k} BY <2>1 DEF Queued
  <2>3. DOMAIN fq = {k} /\ fq[k] = HeldInQueue(book.queue[k]) BY <2>2
  <2>4. HeldInQueue(book.queue[k]) \in Int
    <3>1. book.queue[k] \in EntrySet BY <1>1
    <3> QED BY <3>1 DEF HeldInQueue, EntrySet
  <2> HIDE DEF fq
  <2>5. SumFunction(fq) = HeldInQueue(book.queue[k]) BY <2>3, <2>4, SumSingle
  <2>6. Unanswered(r) /\ NotResting(book, c) BY <1>8 DEF Waiting
  <2> QED BY <1>3, <1>7, <2>1, <2>2, <2>4, <2>5, <2>6 DEF Unanswered, fq
<1>9. CASE AtRest(book, book.queue, 0, c)
  <2>1. PICK i \in DOMAIN book.orders :
          /\ book.orders[i].client = c
          /\ \A j \in DOMAIN book.orders : book.orders[j].client = c => j = i
          /\ r.committed = r.spent + r.back + book.orders[i].escrow
    BY <1>9 DEF AtRest
  <2>2. Resting(c) = {i} BY <2>1 DEF Resting
  <2>3. DOMAIN fo = {i} /\ fo[i] = book.orders[i].escrow BY <2>2
  <2>4. book.orders[i].escrow \in Int
    <3>1. book.orders[i] \in OrderSet BY <1>1
    <3> QED BY <3>1 DEF OrderSet
  <2> HIDE DEF fo
  <2>5. SumFunction(fo) = book.orders[i].escrow BY <2>3, <2>4, SumSingle
  <2>6. Cardinality(Resting(c)) = 1 BY <2>2, FS_Singleton
  <2>7. NotQueued(book.queue, c) /\ r.placed = 1 /\ r.rejected = 0 /\ r.removed = 0
    BY <1>9 DEF AtRest
  <2> QED BY <1>3, <1>6, <2>1, <2>4, <2>5, <2>6, <2>7 DEF fo
<1>10. CASE Over(book, book.queue, 0, c)
  <2>1. /\ NotResting(book, c) /\ NotQueued(book.queue, c) /\ r.committed = r.spent + r.back
        /\ r.placed + r.rejected = 1 /\ r.placed = r.removed
    BY <1>10 DEF Over
  <2> HIDE DEF fo, fq
  <2> QED BY <1>3, <1>6, <1>7, <2>1 DEF fo, fq
<1> QED BY <1>4, <1>5, <1>8, <1>9, <1>10 DEF ClientOK, InHand

\* The book's money and notices add up for every request, in every state: what a buyer
\* committed is spent, paid back or still held, and each request is answered once.
THEOREM SpecImpliesRequestsAccounted == Spec => []RequestsAccounted
<1>1. BookInv => RequestsAccounted BY AccountedOf DEF RequestsAccounted
<1> QED BY <1>1, SpecImpliesBookInv, PTL

LEMMA TracesOf ==
  ASSUME BookInv, NEW d \in Deals, ~deals[d].failed
  PROVE  OfferTraces(d) = IF deals[d].alive /\ deals[d].posted THEN 1 ELSE 0
<1> DEFINE A == {k \in DOMAIN toBook[d] : toBook[d][k].kind \in {"offer"}}
           B == {k \in DOMAIN book.out[d] : book.out[d][k].kind \in {"handover", "closed"}}
           C == {k \in DOMAIN book.queue : book.queue[k].deal = d}
           D == {id \in DOMAIN book.orders : book.orders[id].deal = d}
<1>1. OfferTraces(d) = Cardinality(A) + Cardinality(B) + Cardinality(C) + Cardinality(D)
  BY DEF OfferTraces, Count
<1>2. /\ toBook[d] \in Seq(BookMsgs) /\ book.out[d] \in Seq(OutMsgs)
      /\ DealOK(book, book.queue, NoDeal, d, deals[d], toBook[d]) /\ NoDeal # d
  BY InvFacts, BookAssumption
<1>3. toBook[d] = <<>> => Cardinality(A) = 0
  <2>1. toBook[d] = <<>> => \A k \in A : FALSE OBVIOUS
  <2> HIDE DEF A
  <2> QED BY <2>1, CountNone
<1>4. book.out[d] = <<>> => Cardinality(B) = 0
  <2>1. book.out[d] = <<>> => \A k \in B : FALSE OBVIOUS
  <2> HIDE DEF B
  <2> QED BY <2>1, CountNone
<1>5. NotWaiting(book.queue, d) => Cardinality(C) = 0
  <2>1. NotWaiting(book.queue, d) => \A k \in C : FALSE BY DEF NotWaiting
  <2> HIDE DEF C
  <2> QED BY <2>1, CountNone
<1>6. NotListed(book, d) => Cardinality(D) = 0
  <2>1. NotListed(book, d) => \A k \in D : FALSE BY DEF NotListed
  <2> HIDE DEF D
  <2> QED BY <2>1, CountNone
<1>7. CASE Sent(book, book.queue, NoDeal, d, deals[d], toBook[d])
  <2>1. /\ NotListed(book, d) /\ NotWaiting(book.queue, d) /\ book.out[d] = <<>> /\ Live(deals[d])
        /\ \/ Len(toBook[d]) = 1 /\ toBook[d][1] \in OfferMsgs
           \/ Len(toBook[d]) = 2 /\ toBook[d][1] = Accepted /\ toBook[d][2] \in OfferMsgs
    BY <1>7 DEF Sent
  <2>2. \E k \in A : \A l \in A : l = k
    <3>1. CASE Len(toBook[d]) = 1 /\ toBook[d][1] \in OfferMsgs
      <4>1. DOMAIN toBook[d] = {1} BY <1>2, <3>1
      <4>2. toBook[d][1].kind = "offer" BY <3>1 DEF OfferMsgs
      <4> QED BY <4>1, <4>2
    <3>2. CASE Len(toBook[d]) = 2 /\ toBook[d][1] = Accepted /\ toBook[d][2] \in OfferMsgs
      <4>1. DOMAIN toBook[d] = {1, 2} BY <1>2, <3>2
      <4>2. toBook[d][2].kind = "offer" /\ toBook[d][1].kind = "accepted"
        BY <3>2 DEF OfferMsgs, Accepted
      <4> QED BY <4>1, <4>2
    <3> QED BY <2>1, <3>1, <3>2
  <2> HIDE DEF A, B, C, D
  <2>3. Cardinality(A) = 1 BY <2>2, CountSingle
  <2> QED BY <1>1, <1>4, <1>5, <1>6, <2>1, <2>3 DEF Live
<1>8. CASE Waits(book, book.queue, NoDeal, d, deals[d], toBook[d])
  <2>1. /\ NotListed(book, d) /\ book.out[d] = <<>> /\ Live(deals[d]) /\ toBook[d] = <<>>
        /\ \E k \in C : \A l \in C : l = k
    BY <1>8 DEF Waits
  <2> HIDE DEF A, B, C, D
  <2>2. Cardinality(C) = 1 BY <2>1, CountSingle
  <2> QED BY <1>1, <1>3, <1>4, <1>6, <2>1, <2>2 DEF Live
<1>9. CASE Lists(book, book.queue, NoDeal, d, deals[d], toBook[d])
  <2>1. /\ NotWaiting(book.queue, d) /\ book.out[d] = <<>> /\ Live(deals[d]) /\ toBook[d] = <<>>
        /\ \E k \in D : \A l \in D : l = k
    BY <1>9 DEF Lists
  <2> HIDE DEF A, B, C, D
  <2>2. Cardinality(D) = 1 BY <2>1, CountSingle
  <2> QED BY <1>1, <1>3, <1>4, <1>5, <2>1, <2>2 DEF Live
<1>10. CASE Answered(book, book.queue, NoDeal, d, deals[d], toBook[d])
  <2>1. /\ NotListed(book, d) /\ NotWaiting(book.queue, d) /\ Live(deals[d]) /\ toBook[d] = <<>>
        /\ Len(book.out[d]) = 1
    BY <1>10 DEF Answered
  <2>2. DOMAIN book.out[d] = {1} /\ book.out[d][1] \in OutMsgs BY <1>2, <2>1
  <2>3. book.out[d][1].kind \in {"handover", "closed"} BY <2>2 DEF OutMsgs, Handovers
  <2>4. \E k \in B : \A l \in B : l = k BY <2>2, <2>3
  <2> HIDE DEF A, B, C, D
  <2>5. Cardinality(B) = 1 BY <2>4, CountSingle
  <2> QED BY <1>1, <1>3, <1>5, <1>6, <2>1, <2>5 DEF Live
<1>11. CASE Free(book, book.queue, NoDeal, d, deals[d], toBook[d])
  <2>1. /\ NotListed(book, d) /\ NotWaiting(book.queue, d) /\ book.out[d] = <<>>
        /\ ~deals[d].posted /\ (toBook[d] = <<>> \/ toBook[d] = <<Accepted>>)
    BY <1>11 DEF Free
  <2>2. toBook[d] = <<Accepted>> => Cardinality(A) = 0
    <3>1. Accepted.kind # "offer" BY DEF Accepted
    <3>2. toBook[d] = <<Accepted>> => \A k \in A : FALSE BY <3>1
    <3> HIDE DEF A
    <3> QED BY <3>2, CountNone
  <2> HIDE DEF A, B, C, D
  <2> QED BY <1>1, <1>3, <1>4, <1>5, <1>6, <2>1, <2>2
<1> QED BY <1>2, <1>7, <1>8, <1>9, <1>10, <1>11 DEF DealOK, Matched, Stuck

\* A deal's latch tracks the real offer in every state: one offer on its way, queued,
\* resting or just answered while the deal thinks it has one, none otherwise.
THEOREM SpecImpliesLatchTracksOffer == Spec => []LatchTracksOffer
<1>1. BookInv => LatchTracksOffer BY TracesOf DEF LatchTracksOffer
<1> QED BY <1>1, SpecImpliesBookInv, PTL

LEMMA UnderWayIs ==
  ASSUME BookInv, NEW d \in Deals, NEW n \in Notes
  PROVE  UnderWay(d, n) = Way(book.out[d], toBook[d], n)
<1> DEFINE out == book.out[d]
           tb  == toBook[d]
           all == out \o tb
           own == {k \in DOMAIN all : all[k].kind \in {"handover", "bounced"} /\ all[k].buyer = n}
           f   == [k \in own |-> all[k].paid]
<1>1. UnderWay(d, n) = SumFunction(f) BY DEF UnderWay
<1>2. /\ tb \in Seq(BookMsgs) /\ out \in Seq(OutMsgs)
      /\ DealOK(book, book.queue, NoDeal, d, deals[d], tb) /\ NoDeal # d
  BY InvFacts, BookAssumption
<1>3. \/ /\ Len(out) = 1 /\ tb = <<>>
      \/ /\ out = <<>> /\ Len(tb) = 1
      \/ /\ out = <<>> /\ tb = <<>>
      \/ /\ out = <<>> /\ Len(tb) = 2 /\ tb[1] = Accepted /\ tb[2] \in OfferMsgs
  <2>1. Len(<<Accepted>>) = 1 OBVIOUS
  <2> QED BY <1>2, <2>1 DEF DealOK, Sent, Waits, Matched, Lists, Answered, Stuck, Free
<1>4. own = {} => SumFunction(f) = 0
  <2>1. DOMAIN f = own OBVIOUS
  <2> HIDE DEF f, own
  <2> QED BY <2>1, SumNone
<1>5. own = {1} /\ all[1].paid \in Int => SumFunction(f) = all[1].paid
  <2>1. DOMAIN f = own /\ (own = {1} => f[1] = all[1].paid) OBVIOUS
  <2> HIDE DEF f, own, all
  <2> QED BY <2>1, SumSingle
<1> HIDE DEF f
<1>6. CASE Len(out) = 1 /\ tb = <<>>
  <2>1. DOMAIN all = {1} /\ all[1] = out[1] /\ out # <<>> /\ out[1] \in OutMsgs
    <3>2. Len(<<>>) = 0 /\ <<>> \in Seq(OutMsgs) OBVIOUS
    <3>0. out[1] \in OutMsgs BY <1>2, <1>6, TailOfOne
    <3>1. out # <<>>
      <4>1. ASSUME out = <<>> PROVE FALSE
        <5>1. Len(out) = 0 BY <3>2, <4>1, Zenon
        <5> HIDE DEF out
        <5> QED BY <1>6, <5>1
      <4> QED BY <4>1
    <3>3. Len(all) = 1 /\ DOMAIN all = 1..Len(all) BY <1>2, <1>6, <3>2
    <3>4. all[1] = out[1] BY <1>2, <1>6, <3>2
    <3> QED BY <3>0, <3>1, <3>3, <3>4
  <2>2. out[1].kind # "bounced" /\ (out[1].kind = "handover" => out[1].paid \in Int)
    BY <2>1 DEF OutMsgs, Handovers
  <2>3. own = IF out[1].kind = "handover" /\ out[1].buyer = n THEN {1} ELSE {} BY <2>1, <2>2
  <2> HIDE DEF own, all, out, tb
  <2> QED BY <1>1, <1>4, <1>5, <1>6, <2>1, <2>2, <2>3 DEF Way, out, tb
<1>7. CASE out = <<>> /\ Len(tb) = 1
  <2>1. all = tb /\ DOMAIN all = {1} /\ all[1] = tb[1] /\ tb # <<>> /\ tb[1] \in BookMsgs
    <3>1. all = tb BY <1>2, <1>7
    <3> HIDE DEF all, out, tb
    <3>2. Len(tb) = 1 /\ tb \in Seq(BookMsgs) BY <1>2, <1>7
    <3>3. DOMAIN tb = {1} /\ tb # <<>> /\ tb[1] \in BookMsgs BY <3>2
    <3> QED BY <3>1, <3>3
  <2>2. tb[1].kind # "handover" /\ (tb[1].kind = "bounced" => tb[1].paid \in Int)
    BY <2>1 DEF BookMsgs, OfferMsgs, Accepted, Bounced
  <2>3. own = IF tb[1].kind = "bounced" /\ tb[1].buyer = n THEN {1} ELSE {} BY <2>1, <2>2
  <2> HIDE DEF own, all, out, tb
  <2> QED BY <1>1, <1>4, <1>5, <1>7, <2>1, <2>2, <2>3 DEF Way, out, tb
<1>8. CASE out = <<>> /\ tb = <<>>
  <2>1. own = {} BY <1>8
  <2> HIDE DEF own, all, out, tb
  <2> QED BY <1>1, <1>4, <1>8, <2>1 DEF Way, out, tb
<1>9. CASE out = <<>> /\ Len(tb) = 2 /\ tb[1] = Accepted /\ tb[2] \in OfferMsgs
  <2>1. all = tb /\ DOMAIN all = {1, 2} /\ tb # <<>> BY <1>2, <1>9
  <2>2. tb[1].kind = "accepted" /\ tb[2].kind = "offer" BY <1>9 DEF Accepted, OfferMsgs
  <2>3. own = {} BY <2>1, <2>2
  <2> HIDE DEF own, all, out, tb
  <2> QED BY <1>1, <1>4, <1>9, <2>1, <2>2, <2>3 DEF Way, out, tb
<1> QED BY <1>3, <1>6, <1>7, <1>8, <1>9

LEMMA HandoversOf == ASSUME BookInv PROVE HandoversAccounted
<1>1. HandoversFitDeal
  <2> SUFFICES ASSUME NEW d \in Deals, NEW k \in DOMAIN book.out[d],
                      book.out[d][k].kind = "handover"
               PROVE  /\ deals[d].alive /\ ~deals[d].funded
                      /\ FitsDeal(d, book.out[d][k])
    BY DEF HandoversFitDeal, FitsDeal
  <2>1. book.out[d] # <<>> OBVIOUS
  <2>2. /\ Answered(book, book.queue, NoDeal, d, deals[d], toBook[d]) /\ Len(book.out[d]) = 1
        /\ Live(deals[d])
    BY <2>1, AnswerHere
  <2>3. k = 1
    <3>1. book.out[d] \in Seq(OutMsgs) BY InvFacts
    <3> QED BY <2>2, <3>1
  <2> QED BY <2>2, <2>3 DEF Answered, Live
<1>2. ASSUME NEW n \in Notes
      PROVE  SumFunctionOnSet([c \in DOMAIN book.requests |-> book.requests[c].spent],
                              {c \in DOMAIN book.requests : book.requests[c].note = n})
               = book.landed[n] + book.repaid[n] + SumFunction([d \in Deals |-> UnderWay(d, n)])
  <2> DEFINE f == [d \in Deals |-> UnderWay(d, n)]
             g == Ways(book, toBook, n)
  <2>1. Balanced(book, toBook, n) BY InvFacts DEF Ledger
  <2>2. \A d \in Deals : f[d] = g[d] BY UnderWayIs DEF Ways
  <2>3. DOMAIN f = Deals OBVIOUS
  <2> HIDE DEF f, g
  <2>4. SumFunction(f) = Sum(f, Deals) BY <2>3 DEF Sum, SumFunction
  <2>5. Sum(f, Deals) = Sum(g, Deals) BY <2>2, BookAssumption, SumSame
  <2>6. SumFunction(f) = Sum(Ways(book, toBook, n), Deals) BY <2>4, <2>5 DEF g
  <2> QED BY <2>1, <2>6 DEF Balanced, f, Sum, Spent, RequestsOf
<1> QED BY <1>1, <1>2 DEF HandoversAccounted

\* In every state each hand-over under way is one its deal can take, and what each note
\* spent on fills has reached a deal, come back to that note, or is under way.
THEOREM SpecImpliesHandoversAccounted == Spec => []HandoversAccounted
<1>1. BookInv => HandoversAccounted BY HandoversOf
<1> QED BY <1>1, SpecImpliesBookInv, PTL

-----------------------------------------------------------------------------
(***************************************************************************)
(* A whole walk, iteration by iteration.                                   *)
(***************************************************************************)
\* Orders only leave, and the makers to come become fewer.
LEMMA VisitShrinks ==
  ASSUME NEW m, NEW m2, NEW taker, WalkShape(m, taker), VCases(m, m2, taker)
  PROVE  /\ DOMAIN m2.book.orders \in SUBSET DOMAIN m.book.orders
         /\ \/ m2.todo = m.todo /\ (Idle(m) \/ Limit(m))
            \/ m2.todo = m.todo \ {Met(m)} /\ ~Idle(m) /\ ~Limit(m)
         /\ Idle(m) => m2 = m
<1>1. ~Idle(m) => Met(m) \in DOMAIN m.book.orders BY MetOf
<1>2. CASE VDrop(m, m2, taker) \/ VDust(m, m2, taker)
  <2>1. ~Idle(m) /\ ~Limit(m) /\ Counts(m, m2, 1, FALSE) /\ Leaves(m.book, m2.book, Met(m))
    BY <1>2 DEF VDrop, VDust, Settleable
  <2>2. Stored(m.book) BY DEF WalkShape
  <2>3. DOMAIN m2.book.orders = DOMAIN m.book.orders \ {Met(m)} BY <1>1, <2>1, <2>2, LeavesTouches
  <2> QED BY <2>1, <2>3 DEF Counts
<1>3. CASE VFill(m, m2, taker)
  <2>1. /\ ~Idle(m) /\ ~Limit(m) /\ Counts(m, m2, 1, FALSE)
        /\ Fills(m, m2.book, taker, Met(m), Offered(m, taker))
    BY <1>3 DEF VFill, Settleable
  <2>2. Touches(m.book, m2.book, Met(m)) BY <1>1, <2>1, FillsTouches
  <2> QED BY <2>1, <2>2 DEF Counts, Touches
<1>4. CASE Idle(m) /\ m2 = m BY <1>4
<1>5. CASE VLimit(m, m2) BY <1>5 DEF VLimit
<1>6. CASE VPass(m, m2, taker) BY <1>6 DEF VPass, Counts
<1>7. CASE VHalt(m, m2, taker) BY <1>7 DEF VHalt, Counts, Settleable
<1> QED BY <1>2, <1>3, <1>4, <1>5, <1>6, <1>7 DEF VCases

LEMMA MatchSteps ==
  ASSUME NEW b, NEW taker, NEW amount \in Int, NEW escrow \in Int, NEW from,
         Stored(b), Taking(b, taker)
  PROVE  \E w : LET n == Cardinality(Walk(b, taker, from))
                IN  /\ n \in Nat /\ Begins(w[0], b, taker, amount, escrow, from)
                    /\ Steps(w, n, b, taker)
                    /\ w[n] = Match(b, taker, amount, escrow, from)
<1> DEFINE makers == Walk(b, taker, from)
           start == [ book |-> b, todo |-> makers, remaining |-> amount, leftover |-> escrow,
                      matches |-> 0, scanned |-> 0, stopped |-> FALSE, resume |-> 0 ]
           n == Cardinality(makers)
           w == Walked(start, taker)
           G == {k \in Nat : WalkShape(w[k], taker) /\ Later(b, w[k].book)}
<1>1. makers \in SUBSET Crossing(b, taker) BY DEF Walk
<1>2. makers \in SUBSET DOMAIN b.orders BY <1>1 DEF Crossing
<1>3. IsFiniteSet(makers) BY <1>2, BookFinite, FS_Subset DEF Stored
<1>4. Match(b, taker, amount, escrow, from) = w[n] BY DEF Match
<1>5a. Begins(start, b, taker, amount, escrow, from) BY DEF WalkFields, Begins
<1> HIDE DEF makers
<1>5. /\ DOMAIN start = WalkFields /\ start.book = b /\ start.todo = makers
      /\ start.remaining = amount /\ start.leftover = escrow /\ start.matches = 0
      /\ start.scanned = 0 /\ start.stopped = FALSE /\ start.resume = 0
  BY DEF WalkFields
<1> HIDE DEF start
<1>6. n \in Nat /\ w[0] = start /\ \A k \in 1..n : w[k] = Visit(w[k - 1], taker)
  BY <1>3, <1>5, WalkedDef
<1> HIDE DEF w, n
<1>7. WalkShape(start, taker) /\ Later(b, start.book)
  <2>1. WalkShape(start, taker)
    <3>1. start.todo \in SUBSET Crossing(start.book, taker) BY <1>1, <1>5
    <3>2. start.matches \in Nat /\ start.scanned \in Nat /\ start.resume \in Nat
          /\ start.remaining \in Int /\ start.leftover \in Int
      BY <1>5
    <3>3. start.stopped \in BOOLEAN BY <1>5
    <3>4. Stored(start.book) /\ Taking(start.book, taker) BY <1>5, Zenon
    <3> QED BY <1>5, <3>1, <3>2, <3>3, <3>4 DEF WalkShape
  <2>2. Later(b, b) BY DEF Later, Frame, SameNotes, Stored, BookShape
  <2> QED BY <1>5, <2>1, <2>2
<1>8. 0 \in G BY <1>6, <1>7
<1>9. ASSUME NEW k \in 1..n, k - 1 \in G PROVE k \in G
  <2> DEFINE m == w[k - 1]
             m2 == w[k]
  <2>1. WalkShape(m, taker) /\ Later(b, m.book) BY <1>9
  <2>2. m2 = Visit(m, taker) BY <1>6
  <2> HIDE DEF m, m2
  <2>3. VCases(m, m2, taker) BY <2>1, <2>2, VisitDoes
  <2>4. WalkShape(m2, taker) /\ Later(m.book, m2.book) BY <2>1, <2>3, VisitShape, VisitShrinks DEF Later
  <2>5. Later(b, m2.book) BY <2>1, <2>4, LaterTwice
  <2> QED BY <1>6, <2>4, <2>5 DEF m2
<1>10. \A k \in 0..n : k \in G
  <2> HIDE DEF G
  <2> QED BY <1>6, <1>8, <1>9, UpTo
<1>11. \A k \in 1..n : VCases(w[k - 1], w[k], taker)
  <2> SUFFICES ASSUME NEW k \in 1..n PROVE VCases(w[k - 1], w[k], taker) OBVIOUS
  <2> DEFINE m == w[k - 1]
             m2 == w[k]
  <2>0. k - 1 \in 0..n BY <1>6
  <2>1. WalkShape(m, taker) BY <1>10, <2>0
  <2>2. m2 = Visit(m, taker) BY <1>6
  <2> HIDE DEF m, m2
  <2>3. VCases(m, m2, taker) BY <2>1, <2>2, VisitDoes
  <2> QED BY <2>3 DEF m, m2
<1>12. Steps(w, n, b, taker) BY <1>10, <1>11 DEF Steps
<1> QED BY <1>4, <1>5a, <1>6, <1>12 DEF n, makers

LEMMA FinalizeIs ==
  ASSUME NEW b, NEW e, NEW id, NEW remaining \in Int, NEW leftover \in Int, Stored(b), Taking(b, e)
  PROVE  LET b2 == FinalizeTaker(b, e, id, remaining, leftover)
             o  == NewOrder(e, remaining, leftover)
         IN  /\ Frame(b, b2) /\ NoFill(b, b2)
             /\ \/ b2.orders = b.orders
                \/ Stays(e, remaining) /\ Adds(b, b2, id, o)
<1> DEFINE takerOnly == e.flags \cap TAKER_FLAGS # {}
           o == NewOrder(e, remaining, leftover)
           b2 == FinalizeTaker(b, e, id, remaining, leftover)
           rest == InsertIntoBook(b, id, o)
<1>1. DOMAIN b = BookFields /\ b.requests \in Seq(RequestSet) BY DEF Stored, BookShape
<1>2. e.isBuy \in BOOLEAN /\ Sides(b, e) BY DEF Taking, EntrySet
<1>3. e.isBuy => e.client \in DOMAIN b.requests BY <1>2 DEF Sides
<1>4. ~e.isBuy => e.client = 0 BY <1>2 DEF Sides
<1>5. b2 = IF e.isBuy
           THEN IF remaining < 2 \/ takerOnly THEN RejectToNote(b, e.client, leftover) ELSE rest
           ELSE IF remaining = 0 THEN b
           ELSE IF takerOnly THEN OnSellClosed(b, e.deal) ELSE rest
  BY DEF FinalizeTaker, NewOrder
<1>6. Rests(b, rest, id, o)
  <2>1. o.client \in DOMAIN b.requests \cup {0} BY <1>2, <1>3, <1>4 DEF NewOrder
  <2> HIDE DEF o
  <2> QED BY <1>1, <2>1, InsertDoes
<1>7. e.isBuy => Refused(b, RejectToNote(b, e.client, leftover), e.client, leftover)
  BY <1>1, <1>3, RejectDoes
<1>8. Closed(b, OnSellClosed(b, e.deal), e.deal)
  BY <1>1 DEF Closed, OnSellClosed, Send, Frame, NoFill, BookFields
<1>9. Frame(b, b) /\ NoFill(b, b) BY <1>1 DEF Frame, NoFill
<1> HIDE DEF rest, o, b2
<1>10. CASE b2 = rest /\ Stays(e, remaining) BY <1>6, <1>10 DEF Rests, Adds, o, b2
<1>11. CASE b2 = b BY <1>9, <1>11 DEF o, b2
<1>12. CASE e.isBuy /\ b2 = RejectToNote(b, e.client, leftover) BY <1>7, <1>12 DEF Refused, o, b2
<1>13. CASE b2 = OnSellClosed(b, e.deal) BY <1>8, <1>13 DEF Closed, o, b2
<1> QED BY <1>2, <1>5, <1>10, <1>11, <1>12, <1>13 DEF Stays

LEMMA DismissIs ==
  ASSUME NEW b, NEW e, NEW x \in Int, Stored(b), Taking(b, e)
  PROVE  LET b2 == Dismiss(b, e, x)
         IN  Frame(b, b2) /\ NoFill(b, b2) /\ b2.orders = b.orders
<1>1. DOMAIN b = BookFields /\ b.requests \in Seq(RequestSet) BY DEF Stored, BookShape
<1>2. e.isBuy \in BOOLEAN /\ Sides(b, e) BY DEF Taking, EntrySet
<1>3. CASE e.isBuy
  <2>1. e.client \in DOMAIN b.requests BY <1>2, <1>3 DEF Sides
  <2>2. Dismiss(b, e, x) = RejectToNote(b, e.client, x) BY <1>3 DEF Dismiss
  <2>3. Refused(b, RejectToNote(b, e.client, x), e.client, x) BY <1>1, <2>1, RejectDoes
  <2> QED BY <2>2, <2>3 DEF Refused
<1>4. CASE ~e.isBuy
  <2>1. e.client = 0 BY <1>2, <1>4 DEF Sides
  <2>2. Dismiss(b, e, x) = OnSellClosed(b, e.deal) BY <1>4, <2>1 DEF Dismiss, RejectToNote, PayShell, Tell
  <2>3. Closed(b, OnSellClosed(b, e.deal), e.deal)
    BY <1>1 DEF Closed, OnSellClosed, Send, Frame, NoFill, BookFields
  <2> QED BY <2>2, <2>3 DEF Closed
<1> QED BY <1>2, <1>3, <1>4

LEMMA BeforeOnce ==
  ASSUME NEW b, BookShape(b), NEW i \in DOMAIN b.orders, NEW j \in DOMAIN b.orders,
         b.orders[i].isBuy = b.orders[j].isBuy, Before(b, i, j)
  PROVE  ~Before(b, j, i) /\ i # j
<1>1. b.orders[i] \in OrderSet /\ b.orders[j] \in OrderSet /\ i \in Nat /\ j \in Nat BY OrderOf
<1>2. b.orders[i].price \in Nat /\ b.orders[j].price \in Nat BY <1>1 DEF OrderSet
<1> DEFINE p == b.orders[i].price
           q == b.orders[j].price
           s == b.orders[i].isBuy
<1>3. IF p = q THEN i < j ELSE IF s THEN p > q ELSE p < q BY DEF Before
<1>4. Before(b, j, i) <=> (IF q = p THEN j < i ELSE IF s THEN q > p ELSE q < p) BY DEF Before
<1> HIDE DEF p, q, s
<1>5. p \in Nat /\ q \in Nat BY <1>2 DEF p, q
<1> QED BY <1>1, <1>3, <1>4, <1>5

\* A walk that resumes meets the maker it stopped at before any other.
LEMMA MetFrom ==
  ASSUME NEW m, NEW taker, WalkShape(m, taker), ~Idle(m), NEW from \in m.todo,
         \A i \in m.todo : i = from \/ Before(m.book, from, i)
  PROVE  Met(m) = from
<1>1. /\ Met(m) \in m.todo /\ \A j \in m.todo \ {Met(m)} : Before(m.book, Met(m), j) BY MetOf
<1>2. m.todo \in SUBSET Crossing(m.book, taker) /\ BookShape(m.book) /\ taker.isBuy \in BOOLEAN
  BY DEF WalkShape, Stored, Taking, EntrySet
<1>3. \A i \in m.todo : i \in DOMAIN m.book.orders /\ m.book.orders[i].isBuy # taker.isBuy
  BY <1>2 DEF Crossing
<1>4. \A i \in m.todo : m.book.orders[i].isBuy \in BOOLEAN BY <1>2, <1>3, OrderOf DEF OrderSet
<1>5. m.book.orders[from].isBuy = m.book.orders[Met(m)].isBuy BY <1>1, <1>2, <1>3, <1>4
<1>6. ASSUME Met(m) # from PROVE FALSE
  <2>1. Before(m.book, Met(m), from) /\ Before(m.book, from, Met(m)) BY <1>1, <1>6
  <2> QED BY <1>1, <1>2, <1>3, <1>5, <2>1, BeforeOnce
<1> QED BY <1>6

LEMMA WalkFrom ==
  ASSUME NEW b, NEW taker, NEW from \in Crossing(b, taker)
  PROVE  from \in Walk(b, taker, from) /\ \A i \in Walk(b, taker, from) : i = from \/ Before(b, from, i)
BY DEF Walk, Crossing

\* A resumed walk leaves the maker it resumed from behind.
LEMMA ResumeAdvances ==
  ASSUME NEW b, NEW taker, NEW amount \in Int, NEW escrow \in Int, NEW from,
         Stored(b), Taking(b, taker), from \in Crossing(b, taker), amount # 0
  PROVE  LET m == Match(b, taker, amount, escrow, from)
         IN  m.resume # 0 => m.resume # from /\ Before(b, from, m.resume)
<1> DEFINE n == Cardinality(Walk(b, taker, from))
           makers == Walk(b, taker, from)
<1>1. PICK w : /\ n \in Nat /\ Begins(w[0], b, taker, amount, escrow, from)
               /\ Steps(w, n, b, taker) /\ w[n] = Match(b, taker, amount, escrow, from)
  BY MatchSteps
<1>2. from \in makers /\ \A i \in makers : i = from \/ Before(b, from, i) BY WalkFrom
<1>3. n # 0
  <2>1. makers \in SUBSET DOMAIN b.orders BY DEF Walk, Crossing
  <2>2. IsFiniteSet(makers) BY <2>1, BookFinite, FS_Subset DEF Stored
  <2> HIDE DEF makers
  <2> QED BY <1>2, <2>2, FS_EmptySet DEF makers
<1> HIDE DEF n, makers
<1> DEFINE G == {k \in Nat : k = 0 \/ w[k].todo \in SUBSET (makers \ {from})}
<1>4. 0 \in G OBVIOUS
<1>5. ASSUME NEW k \in 1..n, k - 1 \in G PROVE k \in G
  <2> DEFINE m == w[k - 1]
             m2 == w[k]
  <2>0. k \in Nat /\ k - 1 \in 0..n BY <1>1
  <2>1. WalkShape(m, taker) /\ VCases(m, m2, taker) BY <1>1, <2>0 DEF Steps
  <2>2. /\ \/ m2.todo = m.todo /\ (Idle(m) \/ Limit(m))
           \/ m2.todo = m.todo \ {Met(m)} /\ ~Idle(m) /\ ~Limit(m)
    <3> HIDE DEF m, m2
    <3> QED BY <2>1, VisitShrinks
  <2>3. CASE k - 1 = 0
    <3>1. Begins(m, b, taker, amount, escrow, from) BY <1>1, <2>3
    <3> HIDE DEF m
    <3>2. ~Limit(m) BY <3>1, BookAssumption DEF Begins, Limit
    <3>3. ~Idle(m) BY <1>2, <3>1 DEF Begins, Idle, makers
    <3>4. m.todo = makers /\ m.book = b BY <3>1 DEF Begins, makers
    <3>5. Met(m) = from BY <1>2, <2>1, <3>3, <3>4, MetFrom
    <3> QED BY <2>0, <2>2, <3>2, <3>3, <3>4, <3>5
  <2>4. CASE k - 1 # 0
    <3>1. m.todo \in SUBSET (makers \ {from}) BY <1>5, <2>4
    <3>2. m2.todo \in SUBSET (makers \ {from}) BY <2>2, <3>1
    <3> QED BY <2>0, <3>2
  <2> QED BY <2>3, <2>4
<1> HIDE DEF G
<1>6. \A k \in 0..n : k \in G BY <1>1, <1>4, <1>5, UpTo
<1>7. n \in G BY <1>1, <1>6
<1>8. w[n].todo \in SUBSET (makers \ {from}) BY <1>3, <1>7 DEF G
<1>9. w[n].resume # 0 => w[n].resume \in w[n].todo BY <1>1 DEF Steps, WalkShape
<1> QED BY <1>1, <1>2, <1>8, <1>9

LEMMA AdvancesOf ==
  ASSUME BookInv, NEW k \in DOMAIN book.queue, book.queue[k].contOrderId # 0
  PROVE  LET e    == book.queue[k]
             rest == DoPlaceHead(book, e).queue
         IN  /\ k = 1 /\ e.contScanOrder \in DOMAIN book.orders
             /\ \/ \A j \in DOMAIN rest : rest[j].contOrderId = 0
                \/ Ahead(book, e.contScanOrder, rest[1].contScanOrder)
<1> DEFINE e == book.queue[k]
           from == e.contScanOrder
           b2 == DoPlaceHead(book, e)
           rest == b2.queue
<1>1. /\ Stored(book) /\ QueueOK(book) /\ book.queue \in Seq(EntrySet)
      /\ CallInv(book, deals, toBook)
  BY InvFacts DEF Stored, BookShape, CallInv
<1>2. EntryOK(book, e) /\ ContOK(book, e) /\ k = 1 BY <1>1 DEF QueueOK
<1>3. e.type = "place" /\ from \in Crossing(book, e) /\ e.contRemaining # 0
  BY <1>2 DEF EntryOK, ContOK
<1>4. from \in DOMAIN book.orders BY <1>3 DEF Crossing
<1>5. book.queue # <<>> /\ e = Head(book.queue) BY <1>1, <1>2
<1>6. \A j \in DOMAIN Tail(book.queue) : Tail(book.queue)[j].contOrderId = 0
  <2> SUFFICES ASSUME NEW j \in DOMAIN Tail(book.queue)
               PROVE  Tail(book.queue)[j].contOrderId = 0
    OBVIOUS
  <2>1. j + 1 \in DOMAIN book.queue /\ Tail(book.queue)[j] = book.queue[j + 1] /\ j + 1 # 1
    BY <1>1, <1>5
  <2> QED BY <1>1, <2>1 DEF QueueOK
<1>7. CASE b2 = AdvanceHead(Dismiss(book, e, HeldInQueue(e)))
  <2> DEFINE b1 == Dismiss(book, e, HeldInQueue(e))
  <2>1. b1.queue = book.queue /\ DOMAIN b1 = BookFields
    <3>1. HeldInQueue(e) \in Int /\ Taking(book, e) BY <1>1, <1>3, <1>5, ReadyIs
    <3> QED BY <1>1, <3>1, DismissIs DEF Frame
  <2>2. b2 = AdvanceHead(b1) BY <1>7
  <2> HIDE DEF b1, b2
  <2>3. b2.queue = Tail(book.queue) BY <2>1, <2>2 DEF AdvanceHead, BookFields
  <2> QED BY <1>2, <1>4, <1>6, <2>3 DEF b2
<1>8. CASE b2 = DoMatch(book, e)
  <2> DEFINE m == Matching(book, e)
             ready == Ready(book, e)
             b3 == DoMatch(book, e)
  <2>1. /\ HeldInQueue(e) \in Int /\ Volume(e) \in Int /\ Stored(ready) /\ Taking(ready, e)
        /\ SameLedger(book, ready) /\ ready.queue = book.queue
    BY <1>1, <1>3, <1>5, ReadyIs
  <2>2. Volume(e) = e.contRemaining BY DEF Volume
  <2>3. ready = book BY DEF Ready
  <2>4. m = Match(ready, e, Volume(e), HeldInQueue(e), from) BY DEF Matching
  <2>5. m.resume # 0 => m.resume # from /\ Before(book, from, m.resume)
    <3> HIDE DEF m, ready, e
    <3> QED BY <1>3, <2>1, <2>2, <2>3, <2>4, ResumeAdvances
  <2>6. Later(ready, m.book) /\ WalkShape(m, e)
    <3> HIDE DEF m, ready, e
    <3> DEFINE n == Cardinality(Walk(ready, e, from))
    <3>1. PICK w : n \in Nat /\ Steps(w, n, ready, e) /\ w[n] = m BY <2>1, <2>4, MatchSteps
    <3> HIDE DEF n
    <3>2. n \in 0..n BY <3>1
    <3> QED BY <3>1, <3>2 DEF Steps
  <2>7. DOMAIN m.book = BookFields /\ m.book.queue = book.queue BY <2>1, <2>6 DEF Later, Frame
  <2>8. /\ m.resume # 0 => Capped(book, m, b3, e, Number(book, e))
        /\ m.resume = 0 =>
             b3 = AdvanceHead(FinalizeTaker(m.book, e, Number(book, e), m.remaining, m.leftover))
    <3> HIDE DEF m
    <3> QED BY <1>1, <1>5, <2>7, DoMatchDoes DEF m
  <2>9. CASE m.resume # 0
    <3>1. rest = [book.queue EXCEPT ![1] = Continued(e, Number(book, e), m)] BY <1>8, <2>8, <2>9 DEF Capped
    <3>2. rest[1] = Continued(e, Number(book, e), m)
      <4> HIDE DEF m, e, b2
      <4> QED BY <1>2, <3>1
    <3>3. e \in EntrySet BY <1>1
    <3>4. rest[1].contScanOrder = m.resume
      <4> HIDE DEF m, e, b2
      <4> QED BY <3>2, <3>3 DEF Continued, EntrySet
    <3>5. Ahead(book, from, m.resume) BY <2>5, <2>9 DEF Ahead, Before
    <3> QED BY <1>2, <1>4, <3>4, <3>5
  <2>10. CASE m.resume = 0
    <3> DEFINE b1 == FinalizeTaker(m.book, e, Number(book, e), m.remaining, m.leftover)
    <3>1. b1.queue = book.queue /\ DOMAIN b1 = BookFields
      <4>1. Stored(m.book) /\ Taking(m.book, e) /\ m.remaining \in Int /\ m.leftover \in Int
        BY <2>6 DEF WalkShape
      <4> HIDE DEF m, e
      <4>2. Frame(m.book, b1) BY <4>1, FinalizeIs
      <4> HIDE DEF b1
      <4> QED BY <2>7, <4>2 DEF Frame
    <3>2. b2 = AdvanceHead(b1) BY <1>8, <2>8, <2>10
    <3> HIDE DEF b1, b2
    <3>3. b2.queue = Tail(book.queue) BY <3>1, <3>2 DEF AdvanceHead, BookFields
    <3> QED BY <1>2, <1>4, <1>6, <3>3 DEF b2
  <2> QED BY <2>9, <2>10
<1> QED BY <1>7, <1>8 DEF DoPlaceHead

\* Every continuation of a capped request gets further, in every state: it resumes at a
\* resting maker and ends, or stops at a maker behind that one.
THEOREM SpecImpliesWalkAdvances == Spec => []WalkAdvances
<1>1. BookInv => WalkAdvances BY AdvancesOf DEF WalkAdvances
<1> QED BY <1>1, SpecImpliesBookInv, PTL

-----------------------------------------------------------------------------
(***************************************************************************)
(* The order book's terms: price and time, all or nothing, and no two      *)
(* orders at rest that could trade.  First the arithmetic.                 *)
(***************************************************************************)
LEMMA DivBounds ==
  ASSUME NEW x \in Int, NEW u \in Nat \ {0}
  PROVE  x \div u \in Int /\ u * (x \div u) <= x /\ x < u * (x \div u) + u
OBVIOUS

LEMMA DivAtLeast ==
  ASSUME NEW x \in Int, NEW r \in Int, NEW u \in Nat \ {0}, x >= r * u
  PROVE  x \div u >= r
<1> DEFINE y == x \div u
<1>1. y \in Int /\ x < u * y + u BY DivBounds
<1> HIDE DEF y
<1>2. ASSUME y < r PROVE FALSE
  <2>1. r - y - 1 \in Nat BY <1>1, <1>2
  <2>2. (r - y - 1) * u >= 0 BY <2>1, MulNat
  <2>3. (r - y - 1) * u = r * u - u * y - u BY <1>1
  <2> QED BY <1>1, <2>2, <2>3
<1> QED BY <1>1, <1>2 DEF y

LEMMA DivMono ==
  ASSUME NEW x \in Int, NEW y \in Int, NEW u \in Nat \ {0}, x <= y
  PROVE  x \div u <= y \div u
<1> DEFINE r == x \div u
<1>1. r \in Int /\ u * r <= x BY DivBounds
<1> HIDE DEF r
<1>2. r * u = u * r BY <1>1
<1>3. y >= r * u BY <1>1, <1>2
<1>4. y \div u >= r BY <1>1, <1>3, DivAtLeast
<1>5. y \div u \in Int BY DivBounds
<1> QED BY <1>1, <1>4, <1>5 DEF r

LEMMA UnitMono ==
  ASSUME NEW p \in Nat, NEW q \in Nat, p <= q
  PROVE  Unit(p) <= Unit(q)
<1> DEFINE f == PLATFORM_FEE_BPS
           x == p * f
           y == q * f
<1>1. f \in Nat /\ BPS_DENOMINATOR \in Nat \ {0} BY BookAssumption
<1>2. x <= y /\ x \in Nat /\ y \in Nat BY <1>1, MulMono, MulNat
<1>3. TickFee(p) = x \div BPS_DENOMINATOR /\ TickFee(q) = y \div BPS_DENOMINATOR BY DEF TickFee
<1> HIDE DEF x, y
<1>4. x \div BPS_DENOMINATOR <= y \div BPS_DENOMINATOR BY <1>1, <1>2, DivMono
<1>5. TickFee(p) \in Nat /\ TickFee(q) \in Nat BY UnitType
<1> QED BY <1>3, <1>4, <1>5 DEF Unit

\* What is left after a fill still pays for the ticks that are left.
LEMMA StillFunded ==
  ASSUME NEW money \in Int, NEW r \in Int, NEW t \in Int, NEW u \in Nat, NEW v \in Nat,
         0 <= t, t <= r, u <= v, money >= r * v
  PROVE  money - t * u >= (r - t) * v
<1>1. t \in Nat OBVIOUS
<1>2. u * t <= v * t BY <1>1, MulMono
<1>3. (r - t) * v = r * v - t * v OBVIOUS
<1>4. u * t = t * u /\ v * t = t * v OBVIOUS
<1> DEFINE tu == t * u
           tv == t * v
           rv == r * v
<1>5. tu \in Int /\ tv \in Int /\ rv \in Int OBVIOUS
<1>6. tu <= tv /\ (r - t) * v = rv - tv /\ money >= rv BY <1>2, <1>3, <1>4
<1>7. money - tu >= rv - tv
  <2> HIDE DEF tu, tv, rv
  <2> QED BY <1>5, <1>6
<1> QED BY <1>6, <1>7

-----------------------------------------------------------------------------
(***************************************************************************)
(* The size of a trade.                                                    *)
(***************************************************************************)
LEMMA SizeIs ==
  ASSUME NEW taker, NEW o, NEW remaining \in Int, NEW leftover \in Int, taker.isBuy \in BOOLEAN,
         o.amount \in Int, o.escrow \in Int, Unit(Clearing(taker, o)) \in Nat \ {0}
  PROVE  LET t == TradeSize(taker, o, remaining, leftover)
             x == Budget(taker, o, leftover) \div Unit(Clearing(taker, o))
         IN  /\ t \in Int /\ x \in Int /\ t <= remaining /\ t <= o.amount /\ t <= x
             /\ t = Lesser(Lesser(remaining, o.amount), x)
<1> DEFINE u == Unit(Clearing(taker, o))
           y == Budget(taker, o, leftover)
           x == y \div u
<1>1. y \in Int BY DEF Budget
<1>2. TradeSize(taker, o, remaining, leftover) = Lesser(Lesser(remaining, o.amount), x)
  BY DEF TradeSize, Budget
<1> HIDE DEF u, y
<1>3. x \in Int BY <1>1, DivBounds DEF u
<1> HIDE DEF x
<1>4. Lesser(remaining, o.amount) \in Int BY DEF Lesser
<1>5. Lesser(Lesser(remaining, o.amount), x) \in Int BY <1>3, <1>4 DEF Lesser
<1>6. Lesser(Lesser(remaining, o.amount), x) <= x /\ Lesser(Lesser(remaining, o.amount), x) <= Lesser(remaining, o.amount)
  BY <1>3, <1>4 DEF Lesser
<1>7. Lesser(remaining, o.amount) <= remaining /\ Lesser(remaining, o.amount) <= o.amount BY DEF Lesser
<1> QED BY <1>2, <1>3, <1>4, <1>5, <1>6, <1>7 DEF x, y, u

\* A buyer with the money for all he wants is limited by the volumes alone.
LEMMA FundedSize ==
  ASSUME NEW taker, NEW o, NEW remaining \in Int, NEW leftover \in Int, taker.isBuy \in BOOLEAN,
         o.amount \in Int, o.escrow \in Int, Unit(Clearing(taker, o)) \in Nat \ {0},
         \/ Budget(taker, o, leftover) >= remaining * Unit(Clearing(taker, o))
         \/ Budget(taker, o, leftover) >= o.amount * Unit(Clearing(taker, o))
  PROVE  TradeSize(taker, o, remaining, leftover) = Lesser(remaining, o.amount)
<1> DEFINE u == Unit(Clearing(taker, o))
           y == Budget(taker, o, leftover)
           x == y \div u
           z == Lesser(remaining, o.amount)
<1>1. x \in Int /\ TradeSize(taker, o, remaining, leftover) = Lesser(z, x) BY SizeIs
<1>2. y \in Int BY DEF Budget
<1>3. y >= remaining * u \/ y >= o.amount * u OBVIOUS
<1>4. u \in Nat \ {0} OBVIOUS
<1> HIDE DEF u, y
<1>5. x >= remaining \/ x >= o.amount BY <1>2, <1>3, <1>4, DivAtLeast
<1>6. z \in Int /\ z <= remaining /\ z <= o.amount BY DEF Lesser
<1> HIDE DEF x, z
<1>7. z <= x BY <1>1, <1>5, <1>6
<1> QED BY <1>1, <1>6, <1>7 DEF Lesser, z

\* Less volume and less money make no larger trade.
LEMMA SizeMono ==
  ASSUME NEW taker, NEW o, NEW r1 \in Int, NEW r2 \in Int, NEW l1 \in Int, NEW l2 \in Int,
         taker.isBuy \in BOOLEAN, o.amount \in Int, o.escrow \in Int,
         Unit(Clearing(taker, o)) \in Nat \ {0}, r2 <= r1, l2 <= l1
  PROVE  TradeSize(taker, o, r2, l2) <= TradeSize(taker, o, r1, l1)
<1> DEFINE u == Unit(Clearing(taker, o))
           y1 == Budget(taker, o, l1)
           y2 == Budget(taker, o, l2)
           x1 == y1 \div u
           x2 == y2 \div u
<1>1. /\ x1 \in Int /\ TradeSize(taker, o, r1, l1) = Lesser(Lesser(r1, o.amount), x1)
      /\ x2 \in Int /\ TradeSize(taker, o, r2, l2) = Lesser(Lesser(r2, o.amount), x2)
  BY SizeIs
<1>2. y1 \in Int /\ y2 \in Int /\ y2 <= y1 BY DEF Budget
<1>3. u \in Nat \ {0} OBVIOUS
<1> HIDE DEF u, y1, y2
<1>4. x2 <= x1 BY <1>2, <1>3, DivMono
<1> HIDE DEF x1, x2
<1>5. Lesser(Lesser(r2, o.amount), x2) <= Lesser(Lesser(r1, o.amount), x1)
  BY <1>1, <1>4 DEF Lesser
<1> QED BY <1>1, <1>5

LEMMA PassedMono ==
  ASSUME NEW taker, NEW o, NEW r1 \in Int, NEW r2 \in Int, NEW l1 \in Int, NEW l2 \in Int,
         taker.isBuy \in BOOLEAN, o.amount \in Int, o.escrow \in Int,
         Unit(Clearing(taker, o)) \in Nat \ {0}, r2 <= r1, l2 <= l1,
         "AON" \in taker.flags => r2 = r1, Passed(taker, o, r1, l1)
  PROVE  Passed(taker, o, r2, l2)
<1> DEFINE t1 == TradeSize(taker, o, r1, l1)
           t2 == TradeSize(taker, o, r2, l2)
<1>1. t1 \in Int /\ t2 \in Int BY SizeIs
<1>2. t2 <= t1 BY SizeMono
<1> HIDE DEF t1, t2
<1>3. AonForbids(taker, o, r1, t1) => AonForbids(taker, o, r2, t2) BY <1>1, <1>2 DEF AonForbids
<1> QED BY <1>3 DEF Passed, t1, t2

-----------------------------------------------------------------------------
(***************************************************************************)
(* What a removal, a fill and an iteration of the walk do for the terms.   *)
(***************************************************************************)
LEMMA TidyWithout ==
  ASSUME NEW b, NEW b2, NEW i, Tidy(b), b2.orders = Without(b.orders, i)
  PROVE  Tidy(b2)
BY DEF Tidy, Without

\* What is known of a maker the walk meets.
LEMMA MakerFacts ==
  ASSUME NEW m, NEW taker, WalkShape(m, taker), ~Idle(m)
  PROVE  LET o == Maker(m)
             c == Clearing(taker, o)
             u == Unit(c)
         IN  /\ o \in OrderSet /\ taker.isBuy \in BOOLEAN /\ o.isBuy = ~taker.isBuy
             /\ c \in Nat \ {0} /\ u \in Nat \ {0} /\ o.price \in Nat \ {0}
             /\ o.amount \in Int /\ o.escrow \in Int
             /\ "MARKET" \notin taker.flags => taker.price \in Nat \ {0}
             /\ taker.isBuy /\ "MARKET" \notin taker.flags => u <= Unit(taker.price)
             /\ ~taker.isBuy => u <= Unit(o.price)
<1> DEFINE o == Maker(m)
           c == Clearing(taker, o)
<1>1. Met(m) \in m.todo /\ Met(m) \in DOMAIN m.book.orders /\ o.isBuy # taker.isBuy BY MetOf
<1>2. /\ BookShape(m.book) /\ Taking(m.book, taker) /\ m.todo \in SUBSET Crossing(m.book, taker)
  BY DEF WalkShape, Stored
<1>3. o \in OrderSet BY <1>1, <1>2, OrderOf DEF Maker
<1>4. taker.isBuy \in BOOLEAN /\ o.isBuy \in BOOLEAN /\ o.price \in Nat \ {0}
      /\ o.amount \in Int /\ o.escrow \in Int
  BY <1>2, <1>3 DEF Taking, EntrySet, OrderSet
<1>5. /\ "MARKET" \notin taker.flags => taker.price \in Nat \ {0}
      /\ ~taker.isBuy => "MARKET" \notin taker.flags
  BY <1>2 DEF Taking
<1>6. Crosses(taker, o.price) BY <1>1, <1>2 DEF Crossing, Maker
<1>7. c = IF taker.isBuy THEN o.price ELSE taker.price BY DEF Clearing
<1> HIDE DEF o, c
<1>8. c \in Nat \ {0} BY <1>4, <1>5, <1>7
<1>9. Unit(c) \in Nat \ {0} BY <1>8, UnitType
<1>10. taker.isBuy /\ "MARKET" \notin taker.flags => Unit(c) <= Unit(taker.price)
  BY <1>4, <1>5, <1>6, <1>7, UnitMono DEF Crosses
<1>11. ~taker.isBuy => Unit(c) <= Unit(o.price)
  BY <1>4, <1>5, <1>6, <1>7, UnitMono DEF Crosses
<1>12. o.isBuy = ~taker.isBuy BY <1>1, <1>4 DEF o
<1> QED BY <1>3, <1>4, <1>5, <1>8, <1>9, <1>10, <1>11, <1>12 DEF o, c

LEMMA FillFacts ==
  ASSUME NEW m, NEW m2, NEW taker, WalkShape(m, taker), VFill(m, m2, taker)
  PROVE  LET o == Maker(m)
             x == Offered(m, taker)
             buy == Buying(taker, o)
         IN  /\ x \in Int /\ x >= 2 /\ x <= m.remaining /\ x <= o.amount
             /\ DealCompatible(taker, o) /\ ~IsExpired(o.deadline)
             /\ "AON" \in taker.flags => x = m.remaining
             /\ "AON" \in o.flags => x = o.amount
             /\ Cost(taker, o, x) \in Int /\ Cost(taker, o, x) >= 0
             /\ ~IsSub(buy.flags) => Cost(taker, o, x) = x * Unit(Clearing(taker, o))
<1> DEFINE o == Maker(m)
           x == Offered(m, taker)
           c == Clearing(taker, o)
           buy == Buying(taker, o)
<1>1. ~Idle(m) /\ Settleable(m, taker) /\ x >= 2 BY DEF VFill, Settleable
<1>2. x \in Int /\ x <= m.remaining /\ x <= o.amount BY <1>1, OfferedType
<1>3. DealCompatible(taker, o) /\ ~IsExpired(o.deadline) /\ ~AonForbids(taker, o, m.remaining, x)
  BY <1>1 DEF Settleable, Forbids
<1>4. o.amount \in Int /\ c \in Nat \ {0} /\ Unit(c) \in Nat \ {0} BY <1>1, MakerFacts
<1>5. m.remaining \in Int BY DEF WalkShape
<1>6. Cost(taker, o, x) = x * Unit(c) + (IF IsSub(buy.flags) THEN 2 * c ELSE 0) BY DEF Cost, Debit
<1> HIDE DEF o, x, c
<1>7. "AON" \in taker.flags => x = m.remaining BY <1>2, <1>3, <1>5 DEF AonForbids
<1>8. "AON" \in o.flags => x = o.amount BY <1>2, <1>3, <1>4 DEF AonForbids
<1>9. x * Unit(c) \in Nat
  <2>1. x \in Nat BY <1>1, <1>2
  <2> QED BY <1>4, <2>1, MulNat
<1>10. Cost(taker, o, x) \in Int /\ Cost(taker, o, x) >= 0
  <2> DEFINE y == x * Unit(c)
  <2>1. y \in Nat /\ Cost(taker, o, x) = y + (IF IsSub(buy.flags) THEN 2 * c ELSE 0) BY <1>6, <1>9
  <2> HIDE DEF y, buy
  <2> QED BY <1>4, <2>1
<1>11. ~IsSub(buy.flags) => Cost(taker, o, x) = x * Unit(c) BY <1>6, <1>9
<1> QED BY <1>1, <1>2, <1>3, <1>7, <1>8, <1>10, <1>11 DEF o, x, c

\* A bid that shrinks stays solid and apart from every ask.
LEMMA Shrunk ==
  ASSUME NEW o \in OrderSet, NEW x \in Int, NEW u \in Nat, NEW o2, Solid(o), o.isBuy,
         "AON" \notin o.flags, 0 <= x, x < o.amount, u <= Unit(o.price),
         o2 = [o EXCEPT !.escrow = o.escrow - x * u, !.amount = o.amount - x]
  PROVE  Solid(o2) /\ o2.isBuy /\ \A ask \in OrderSet : Apart(o, ask) => Apart(o2, ask)
<1> DEFINE y == x * u
<1>1. o.amount \in Int /\ o.escrow \in Int /\ o.price \in Nat \ {0} BY DEF OrderSet
<1>2. y \in Int OBVIOUS
<1> HIDE DEF y
<1>3. o2 = [o EXCEPT !.escrow = o.escrow - y, !.amount = o.amount - x] BY DEF y
<1>4. /\ o2.amount = o.amount - x /\ o2.escrow = o.escrow - y /\ o2.isBuy = o.isBuy
      /\ o2.price = o.price /\ o2.flags = o.flags
  BY <1>3 DEF OrderSet
<1>5. Unit(o.price) \in Nat BY <1>1, UnitType
<1>6. o.escrow - y >= (o.amount - x) * Unit(o.price)
  <2> DEFINE v == Unit(o.price)
             a == o.amount
             e == o.escrow
  <2>1. e >= a * v BY DEF Solid
  <2>2. v \in Nat /\ a \in Int /\ e \in Int /\ u <= v /\ x <= a BY <1>1, <1>5
  <2> HIDE DEF v, a, e
  <2>3. e - x * u >= (a - x) * v BY <2>1, <2>2, StillFunded
  <2> QED BY <2>3 DEF v, a, e, y
<1>7. o2.amount >= 1 BY <1>1, <1>4
<1>8. Solid(o2) BY <1>4, <1>6, <1>7 DEF Solid
<1>9. ASSUME NEW ask \in OrderSet, Apart(o, ask) PROVE Apart(o2, ask)
  <2>1. ask.amount \in Int BY DEF OrderSet
  <2> DEFINE q == Lesser(o.amount, ask.amount)
             q2 == Lesser(o2.amount, ask.amount)
  <2>2. q \in Int /\ q2 \in Int /\ q2 <= q BY <1>1, <1>4, <2>1 DEF Lesser
  <2> HIDE DEF q, q2
  <2>3. /\ o.price >= ask.price
        /\ "TEE" \in o.flags => "TEE" \in ask.flags
        /\ IsSub(o.flags) <=> IsSub(ask.flags)
        => q < 2 \/ ("AON" \in ask.flags /\ q < ask.amount)
    BY <1>9 DEF Apart, q
  <2>4. /\ o2.price >= ask.price
        /\ "TEE" \in o2.flags => "TEE" \in ask.flags
        /\ IsSub(o2.flags) <=> IsSub(ask.flags)
        => q2 < 2 \/ ("AON" \in ask.flags /\ q2 < ask.amount)
    BY <1>4, <2>1, <2>2, <2>3
  <2> QED BY <2>4 DEF Apart, q2
<1> QED BY <1>4, <1>8, <1>9

LEMMA TidyFill ==
  ASSUME NEW m, NEW m2, NEW taker, WalkShape(m, taker), VFill(m, m2, taker), Tidy(m.book)
  PROVE  Tidy(m2.book)
<1> DEFINE i == Met(m)
           o == Maker(m)
           x == Offered(m, taker)
           b == m.book
           b2 == m2.book
<1>1. Fills(m, b2, taker, i, x) /\ ~Idle(m) BY DEF VFill, Settleable
<1>2. i \in DOMAIN b.orders /\ o = b.orders[i] BY <1>1, MetOf DEF Maker
<1>3. CASE b2.orders = Without(b.orders, i) BY <1>3, TidyWithout
<1>4. CASE ~taker.isBuy /\ o.amount # x /\ BidShrinks(m, b2, taker, i, x)
  <2> DEFINE u == Unit(Clearing(taker, o))
             cost == Cost(taker, o, x)
             o2 == [o EXCEPT !.escrow = o.escrow - cost, !.amount = o.amount - x]
  <2>1. /\ o \in OrderSet /\ o.isBuy /\ u \in Nat /\ u <= Unit(o.price) /\ o.amount \in Int
    BY <1>1, <1>4, MakerFacts
  <2>2. /\ x \in Int /\ x >= 2 /\ x <= o.amount /\ ("AON" \in o.flags => x = o.amount)
        /\ (~IsSub(Buying(taker, o).flags) => cost = x * u)
    BY FillFacts
  <2>3. "AON" \notin o.flags /\ x < o.amount BY <1>4, <2>1, <2>2
  <2>4. Solid(o) BY <1>2 DEF Tidy
  <2>5. ~IsSub(o.flags) BY <2>1, <2>3, <2>4 DEF Solid
  <2>6. cost = x * u BY <1>4, <2>2, <2>5 DEF Buying
  <2>7. b2.orders = [b.orders EXCEPT ![i] = o2]
    BY <1>2, <1>4 DEF BidShrinks
  <2> HIDE DEF cost, u, x, o
  <2>7a. o2 = [o EXCEPT !.escrow = o.escrow - x * u, !.amount = o.amount - x] BY <2>6
  <2> HIDE DEF o2
  <2>7b. 0 <= x BY <2>2
  <2>8. /\ Solid(o2) /\ o2.isBuy /\ \A ask \in OrderSet : Apart(o, ask) => Apart(o2, ask)
    BY <2>1, <2>2, <2>3, <2>4, <2>7a, <2>7b, Shrunk
  <2>9. DOMAIN b2.orders = DOMAIN b.orders /\ b2.orders[i] = o2
        /\ \A j \in DOMAIN b.orders \ {i} : b2.orders[j] = b.orders[j]
    BY <1>2, <2>7
  <2>10. \A j \in DOMAIN b.orders : b.orders[j] \in OrderSet BY OrderOf DEF WalkShape, Stored
  <2> HIDE DEF b, b2, i
  <2>11. ASSUME NEW j \in DOMAIN b2.orders PROVE Solid(b2.orders[j])
    <3>1. CASE j = i BY <2>8, <2>9, <3>1
    <3>2. CASE j # i BY <2>9, <3>2 DEF Tidy, b
    <3> QED BY <3>1, <3>2
  <2>12. ASSUME NEW k \in DOMAIN b2.orders, NEW j \in DOMAIN b2.orders,
                b2.orders[k].isBuy, ~b2.orders[j].isBuy
         PROVE  Apart(b2.orders[k], b2.orders[j])
    <3>1. j # i /\ b2.orders[j] = b.orders[j] /\ b.orders[j] \in OrderSet BY <2>8, <2>9, <2>10, <2>12
    <3>2. CASE k = i
      <4>1. Apart(o, b.orders[j]) BY <1>2, <2>1, <2>9, <2>12, <3>1 DEF Tidy, b
      <4> QED BY <2>8, <2>9, <3>1, <3>2, <4>1
    <3>3. CASE k # i BY <2>9, <2>12, <3>1, <3>3 DEF Tidy, b
    <3> QED BY <3>2, <3>3
  <2>13. Tidy(b2) BY <2>11, <2>12 DEF Tidy
  <2> QED BY <2>13 DEF b2
<1>5. b2.orders = Without(b.orders, i) \/ (~taker.isBuy /\ o.amount # x /\ BidShrinks(m, b2, taker, i, x))
  BY <1>1, <1>2 DEF Fills, AskTaken, BidTaken
<1> QED BY <1>3, <1>4, <1>5

\* The book changes by a maker that leaves, by a fill, or not at all.
LEMMA StepKinds ==
  ASSUME NEW m, NEW m2, NEW taker, WalkShape(m, taker), VCases(m, m2, taker)
  PROVE  \/ m2.book = m.book /\ SameMoney(m, m2)
         \/ /\ ~Idle(m) /\ SameMoney(m, m2) /\ m2.book.orders = Without(m.book.orders, Met(m))
            /\ m2.book.trades = m.book.trades /\ Counts(m, m2, 1, FALSE)
         \/ VFill(m, m2, taker)
<1>1. CASE VDrop(m, m2, taker) \/ VDust(m, m2, taker)
  <2>1. ~Idle(m) /\ Counts(m, m2, 1, FALSE) /\ SameMoney(m, m2) /\ Leaves(m.book, m2.book, Met(m))
    BY <1>1 DEF VDrop, VDust, Settleable
  <2>2. Met(m) \in DOMAIN m.book.orders /\ Stored(m.book) BY <2>1, MetOf DEF WalkShape
  <2> QED BY <2>1, <2>2, LeavesTouches DEF NoFill
<1>2. CASE VFill(m, m2, taker) BY <1>2
<1>3. CASE Idle(m) /\ m2 = m BY <1>3 DEF SameMoney
<1>4. CASE VLimit(m, m2) \/ VPass(m, m2, taker) \/ VHalt(m, m2, taker)
  BY <1>4 DEF VLimit, VPass, VHalt
<1> QED BY <1>1, <1>2, <1>3, <1>4 DEF VCases

LEMMA TidyStep ==
  ASSUME NEW m, NEW m2, NEW taker, WalkShape(m, taker), VCases(m, m2, taker), Tidy(m.book)
  PROVE  Tidy(m2.book)
BY StepKinds, TidyWithout, TidyFill

LEMMA KeptStep ==
  ASSUME NEW m, NEW m2, NEW b, NEW taker, WalkShape(m, taker), VCases(m, m2, taker), Kept(m, b)
  PROVE  Kept(m2, b)
<1>1. CASE m2.book = m.book /\ SameMoney(m, m2) BY <1>1 DEF Kept, SameMoney
<1>2. CASE SameMoney(m, m2) /\ m2.book.orders = Without(m.book.orders, Met(m))
  BY <1>2 DEF Kept, SameMoney, Without
<1>3. CASE VFill(m, m2, taker)
  <2>1. Fills(m, m2.book, taker, Met(m), Offered(m, taker)) /\ ~Idle(m) /\ m.remaining # 0
        /\ (~taker.isBuy => m2.remaining = 0)
    BY <1>3 DEF VFill, Settleable, Idle
  <2>2. Met(m) \in DOMAIN m.book.orders BY <2>1, MetOf
  <2>3. DOMAIN m2.book.orders \in SUBSET DOMAIN m.book.orders BY <2>1, <2>2, FillsTouches DEF Touches
  <2>4. taker.isBuy => m2.book.orders = Without(m.book.orders, Met(m)) BY <2>1 DEF Fills, AskTaken
  <2>5. taker.isBuy \in BOOLEAN BY DEF WalkShape, Taking, EntrySet
  <2> QED BY <2>1, <2>3, <2>4, <2>5 DEF Kept, Without
<1> QED BY <1>1, <1>2, <1>3, StepKinds

LEMMA HaltFunds ==
  ASSUME NEW m, NEW m2, NEW taker, NEW vol, WalkShape(m, taker), VHalt(m, m2, taker), Tidy(m.book),
         Funds(m, taker, vol), "MARKET" \notin taker.flags
  PROVE  m.remaining < 2
<1> DEFINE o == Maker(m)
           u == Unit(Clearing(taker, o))
           r == m.remaining
<1>1. ~Idle(m) /\ taker.isBuy /\ Offered(m, taker) < 2 BY DEF VHalt, Settleable
<1>2. /\ o.isBuy = ~taker.isBuy /\ u \in Nat \ {0} /\ o.amount \in Int /\ o.escrow \in Int
      /\ taker.isBuy \in BOOLEAN
      /\ taker.price \in Nat \ {0} /\ u <= Unit(taker.price)
  BY <1>1, MakerFacts
<1>3. r \in Int /\ m.leftover \in Int /\ r # 0 BY <1>1 DEF WalkShape, Idle
<1>4. r >= 0 /\ m.leftover >= r * Unit(taker.price) BY <1>1, <1>3 DEF Funds
<1>5. o.amount >= 2
  <2>1. Met(m) \in DOMAIN m.book.orders BY <1>1, MetOf
  <2> QED BY <1>1, <1>2, <2>1 DEF Tidy, Solid, Maker
<1>6. m.leftover >= r * u
  <2> DEFINE v == Unit(taker.price)
  <2>1. v \in Nat /\ r \in Nat /\ u <= v /\ u \in Nat BY <1>2, <1>3, <1>4, UnitType
  <2>2. m.leftover >= r * v BY <1>4
  <2> HIDE DEF u, v, r
  <2>3. u * r <= v * r BY <2>1, MulMono
  <2>4. u * r = r * u /\ v * r = r * v /\ r * u \in Int /\ r * v \in Int BY <2>1
  <2> QED BY <1>3, <2>2, <2>3, <2>4
<1>7. Offered(m, taker) = Lesser(r, o.amount)
  <2>1. Budget(taker, o, m.leftover) = m.leftover BY <1>1 DEF Budget
  <2>2. Budget(taker, o, m.leftover) >= r * Unit(Clearing(taker, o)) BY <1>6, <2>1
  <2>3. TradeSize(taker, o, r, m.leftover) = Lesser(r, o.amount)
    <3> HIDE DEF o, r
    <3> QED BY <1>2, <1>3, <2>2, FundedSize
  <2> QED BY <2>3 DEF Offered
<1> QED BY <1>1, <1>2, <1>3, <1>5, <1>7 DEF Lesser

LEMMA FillFunds ==
  ASSUME NEW m, NEW m2, NEW taker, NEW vol, WalkShape(m, taker), VFill(m, m2, taker),
         Suits(taker, vol), Funds(m, taker, vol)
  PROVE  Funds(m2, taker, vol)
<1> DEFINE o == Maker(m)
           u == Unit(Clearing(taker, o))
           x == Offered(m, taker)
           cost == Cost(taker, o, x)
           r == m.remaining
<1>1. ~Idle(m) /\ Counts(m, m2, 1, FALSE)
      /\ m2.leftover = (IF taker.isBuy THEN m.leftover - cost ELSE m.leftover)
      /\ m2.remaining = (IF taker.isBuy THEN r - x ELSE 0)
  BY DEF VFill, Settleable
<1>2. /\ u \in Nat \ {0} /\ taker.isBuy \in BOOLEAN
      /\ "MARKET" \notin taker.flags => taker.price \in Nat \ {0}
      /\ taker.isBuy /\ "MARKET" \notin taker.flags => u <= Unit(taker.price)
  BY <1>1, MakerFacts
<1>3. r \in Int /\ m.leftover \in Int /\ r # 0 /\ r >= 0 BY <1>1 DEF WalkShape, Idle, Funds
<1>4. /\ x \in Int /\ x >= 2 /\ x <= r /\ ("AON" \in taker.flags => x = r)
      /\ (~IsSub(Buying(taker, o).flags) => cost = x * u)
  BY FillFacts
<1>5. ~m2.stopped BY <1>1 DEF Counts
<1>6. CASE ~taker.isBuy BY <1>1, <1>5, <1>6 DEF Funds
<1>7. CASE taker.isBuy
  <2>1. m2.remaining = r - x /\ m2.leftover = m.leftover - cost BY <1>1, <1>7
  <2>2. m2.remaining >= 0 BY <1>3, <1>4, <2>1
  <2>3. "AON" \in taker.flags => m2.remaining = 0 BY <1>3, <1>4, <2>1
  <2>4. ASSUME "MARKET" \notin taker.flags, m2.remaining # 0
        PROVE  m2.leftover >= m2.remaining * Unit(taker.price)
    <3>1. "AON" \notin taker.flags BY <2>3, <2>4
    <3>2. ~IsSub(taker.flags) BY <3>1 DEF Suits
    <3>3. cost = x * u BY <1>4, <1>7, <3>2 DEF Buying
    <3> DEFINE v == Unit(taker.price)
    <3>4. v \in Nat /\ u <= v /\ u \in Nat BY <1>2, <1>7, <2>4, UnitType
    <3>5. m.leftover >= r * v BY <1>3, <1>7, <2>4 DEF Funds
    <3> HIDE DEF u, v, x, r, cost
    <3>6. 0 <= x BY <1>4
    <3>7. m.leftover - x * u >= (r - x) * v BY <1>3, <1>4, <3>4, <3>5, <3>6, StillFunded
    <3> QED BY <2>1, <3>3, <3>7 DEF v
  <2> QED BY <1>5, <1>7, <2>2, <2>3, <2>4 DEF Funds, Whole
<1> QED BY <1>2, <1>6, <1>7

LEMMA FundsStep ==
  ASSUME NEW m, NEW m2, NEW taker, NEW vol, WalkShape(m, taker), VCases(m, m2, taker),
         Suits(taker, vol), Tidy(m.book), Funds(m, taker, vol)
  PROVE  Funds(m2, taker, vol)
<1>1. ASSUME SameMoney(m, m2), ~m2.stopped \/ m2.resume # 0 PROVE Funds(m2, taker, vol)
  BY <1>1 DEF Funds, SameMoney
<1>2. CASE Idle(m) /\ m2 = m BY <1>2
<1>3. CASE VLimit(m, m2)
  <2>1. Met(m) # 0 BY <1>3, MetOf DEF VLimit
  <2> QED BY <1>1, <1>3, <2>1 DEF VLimit
<1>4. CASE VPass(m, m2, taker) \/ VDrop(m, m2, taker) \/ VDust(m, m2, taker)
  BY <1>1, <1>4 DEF VPass, VDrop, VDust, Counts
<1>5. CASE VHalt(m, m2, taker)
  <2>1. taker.isBuy /\ SameMoney(m, m2) BY <1>5 DEF VHalt
  <2>2. "MARKET" \in taker.flags \/ m.remaining < 2 BY <1>5, HaltFunds
  <2> QED BY <2>1, <2>2 DEF Funds, SameMoney
<1>6. CASE VFill(m, m2, taker) BY <1>6, FillFunds
<1> QED BY <1>2, <1>3, <1>4, <1>5, <1>6 DEF VCases

\* A POST_ONLY taker fills nothing.
LEMMA ShyFills ==
  ASSUME NEW m, NEW m2, NEW taker, NEW vol, WalkShape(m, taker), VFill(m, m2, taker),
         Suits(taker, vol), Shy(m, taker, vol, now)
  PROVE  "POST_ONLY" \notin taker.flags
<1> SUFFICES ASSUME "POST_ONLY" \in taker.flags PROVE FALSE OBVIOUS
<1> DEFINE o == Maker(m)
           x == Offered(m, taker)
<1>1. ~Idle(m) BY DEF VFill, Settleable
<1>2. /\ x \in Int /\ x >= 2 /\ x <= m.remaining /\ x <= o.amount
      /\ DealCompatible(taker, o) /\ ~IsExpired(o.deadline)
      /\ ("AON" \in taker.flags => x = m.remaining) /\ ("AON" \in o.flags => x = o.amount)
  BY FillFacts
<1>3. m.remaining = taker.amount BY DEF Shy, Suits
<1>4. Met(m) \in Crossing(m.book, taker) BY <1>1, MetOf DEF WalkShape
<1>5. Unfit(taker, o, now) BY <1>4 DEF Shy, Maker
<1>6. o.amount \in Int /\ m.remaining \in Int BY <1>1, MakerFacts DEF WalkShape
<1> HIDE DEF o, x
<1> QED BY <1>2, <1>3, <1>5, <1>6 DEF Unfit, Expired, IsExpired

LEMMA ShyStep ==
  ASSUME NEW m, NEW m2, NEW taker, NEW vol, WalkShape(m, taker), VCases(m, m2, taker),
         Suits(taker, vol), Shy(m, taker, vol, now)
  PROVE  Shy(m2, taker, vol, now)
<1>1. CASE m2.book = m.book /\ SameMoney(m, m2) BY <1>1 DEF Shy, SameMoney
<1>2. CASE SameMoney(m, m2) /\ m2.book.orders = Without(m.book.orders, Met(m))
  <2>1. \A i \in Crossing(m2.book, taker) :
          i \in Crossing(m.book, taker) /\ m2.book.orders[i] = m.book.orders[i]
    BY <1>2 DEF Crossing, Without
  <2> QED BY <1>2, <2>1 DEF Shy, SameMoney
<1>3. CASE VFill(m, m2, taker) BY <1>3, ShyFills DEF Shy
<1> QED BY <1>1, <1>2, <1>3, StepKinds

\* Whatever the walk meets and leaves at rest it has passed over, for good.
LEMMA LeftoverStep ==
  ASSUME NEW m, NEW m2, NEW taker, NEW vol, WalkShape(m, taker), VCases(m, m2, taker),
         Suits(taker, vol), Funds(m, taker, vol), Leftover(m, taker)
  PROVE  Leftover(m2, taker)
<1>0. m.resume # 0 => m.stopped BY DEF WalkShape
<1>1. ASSUME ~Idle(m) PROVE m.resume = 0 /\ m.remaining # 0 /\ ~m.stopped BY <1>0, <1>1 DEF Idle
<1>2. ASSUME ~Idle(m)
      PROVE  \A i \in Crossing(m.book, taker) \ m.todo :
               Passed(taker, m.book.orders[i], m.remaining, m.leftover)
  BY <1>1, <1>2 DEF Leftover
<1>3. CASE Idle(m) /\ m2 = m BY <1>3
<1>4. CASE VLimit(m, m2)
  <2>1. ~Idle(m) /\ m2.book = m.book /\ SameMoney(m, m2) /\ m2.todo = m.todo /\ m2.resume = Met(m)
    BY <1>4 DEF VLimit
  <2>2. \A j \in m.todo \ {Met(m)} : Before(m.book, Met(m), j) BY <2>1, MetOf
  <2> QED BY <1>2, <2>1, <2>2 DEF Leftover, SameMoney
<1>5. CASE VPass(m, m2, taker)
  <2>1. ~Idle(m) /\ m2.book = m.book /\ SameMoney(m, m2) /\ m2.todo = m.todo \ {Met(m)}
        /\ m2.resume = m.resume
    BY <1>5 DEF VPass, Counts
  <2>2. Passed(taker, m.book.orders[Met(m)], m.remaining, m.leftover)
    BY <1>5 DEF VPass, Passed, Forbids, Offered, Maker
  <2> QED BY <1>1, <1>2, <2>1, <2>2 DEF Leftover, SameMoney
<1>6. CASE VDrop(m, m2, taker) \/ VDust(m, m2, taker)
  <2>1. ~Idle(m) /\ Counts(m, m2, 1, FALSE) /\ SameMoney(m, m2) /\ Leaves(m.book, m2.book, Met(m))
    BY <1>6 DEF VDrop, VDust, Settleable
  <2>2. Met(m) \in DOMAIN m.book.orders /\ Stored(m.book) BY <2>1, MetOf DEF WalkShape
  <2>3. m2.book.orders = Without(m.book.orders, Met(m)) BY <2>1, <2>2, LeavesTouches
  <2>4. m2.todo = m.todo \ {Met(m)} /\ m2.resume = 0 BY <1>1, <2>1 DEF Counts
  <2>5. \A i \in Crossing(m2.book, taker) \ m2.todo :
          i \in Crossing(m.book, taker) \ m.todo /\ m2.book.orders[i] = m.book.orders[i]
    <3>1. \A j \in Crossing(m2.book, taker) :
            j # Met(m) /\ j \in Crossing(m.book, taker) /\ m2.book.orders[j] = m.book.orders[j]
      BY <2>3 DEF Crossing, Without
    <3> QED BY <2>4, <3>1
  <2> QED BY <1>2, <2>1, <2>4, <2>5 DEF Leftover, SameMoney
<1>7. CASE VHalt(m, m2, taker)
  <2>1. ~Idle(m) /\ m2.stopped /\ m2.resume = m.resume BY <1>7 DEF VHalt, Counts, Settleable
  <2> QED BY <1>1, <2>1 DEF Leftover
<1>8. CASE VFill(m, m2, taker)
  <2> DEFINE x == Offered(m, taker)
             o == Maker(m)
             cost == Cost(taker, o, x)
  <2>1. /\ ~Idle(m) /\ Counts(m, m2, 1, FALSE) /\ Fills(m, m2.book, taker, Met(m), x)
        /\ m2.leftover = (IF taker.isBuy THEN m.leftover - cost ELSE m.leftover)
        /\ m2.remaining = (IF taker.isBuy THEN m.remaining - x ELSE 0)
    BY <1>8 DEF VFill, Settleable
  <2>2. m2.resume = 0 /\ m2.todo = m.todo \ {Met(m)} BY <1>1, <2>1 DEF Counts
  <2>3. /\ x \in Int /\ x >= 2 /\ x <= m.remaining /\ ("AON" \in taker.flags => x = m.remaining)
        /\ cost \in Int /\ cost >= 0
    BY <1>8, FillFacts
  <2>4. m.remaining \in Int /\ m.leftover \in Int /\ taker.isBuy \in BOOLEAN /\ BookShape(m.book)
        /\ Taking(m.book, taker)
    BY DEF WalkShape, Taking, EntrySet, Stored
  <2> SUFFICES ASSUME m2.remaining # 0, NEW i \in Crossing(m2.book, taker) \ m2.todo
               PROVE  Passed(taker, m2.book.orders[i], m2.remaining, m2.leftover)
    BY <2>2 DEF Leftover
  <2> HIDE DEF x, cost
  <2>5. taker.isBuy /\ m2.remaining = m.remaining - x /\ m2.leftover = m.leftover - cost
        /\ "AON" \notin taker.flags
    BY <2>1, <2>3, <2>4
  <2>6. m2.book.orders = Without(m.book.orders, Met(m)) BY <2>1, <2>5 DEF Fills, AskTaken
  <2>7. i \in Crossing(m.book, taker) \ m.todo /\ m2.book.orders[i] = m.book.orders[i]
    <3>1. \A j \in Crossing(m2.book, taker) :
            j # Met(m) /\ j \in Crossing(m.book, taker) /\ m2.book.orders[j] = m.book.orders[j]
      BY <2>6 DEF Crossing, Without
    <3> QED BY <2>2, <3>1
  <2> DEFINE y == m.book.orders[i]
  <2>8. Passed(taker, y, m.remaining, m.leftover) BY <1>2, <2>1, <2>7
  <2>9. y \in OrderSet BY <2>4, <2>7, OrderOf DEF Crossing
  <2>10. y.amount \in Int /\ y.escrow \in Int /\ Unit(Clearing(taker, y)) \in Nat \ {0}
    <3>1. y.price \in Nat \ {0} BY <2>9 DEF OrderSet
    <3>2. Clearing(taker, y) = y.price BY <2>5 DEF Clearing
    <3> QED BY <2>9, <3>1, <3>2, UnitType DEF OrderSet
  <2> HIDE DEF y
  <2>11. m2.remaining \in Int /\ m2.leftover \in Int /\ m2.remaining <= m.remaining
         /\ m2.leftover <= m.leftover
    BY <2>3, <2>4, <2>5
  <2>12. Passed(taker, y, m2.remaining, m2.leftover) BY <2>4, <2>5, <2>8, <2>10, <2>11, PassedMono
  <2> QED BY <2>7, <2>12 DEF y
<1> QED BY <1>3, <1>4, <1>5, <1>6, <1>7, <1>8 DEF VCases

\* A trade stays in turn while orders leave.
LEMMA InTurnKept ==
  ASSUME NEW tr, NEW taker, NEW b, NEW b1, NEW b2, InTurn(tr, taker, b, b1),
         DOMAIN b2.orders \in SUBSET DOMAIN b1.orders
  PROVE  InTurn(tr, taker, b, b2)
BY DEF InTurn

\* The fill at hand: nobody before its maker was left out.
LEMMA FillInTurn ==
  ASSUME NEW m, NEW m2, NEW b, NEW taker, WalkShape(m, taker), VFill(m, m2, taker),
         Kept(m, b), Leftover(m, taker), DOMAIN m2.book.orders \in SUBSET DOMAIN m.book.orders
  PROVE  InTurn(FillOf(m, taker, Met(m), Offered(m, taker)), taker, b, m2.book)
<1> DEFINE i == Met(m)
           tr == FillOf(m, taker, i, Offered(m, taker))
<1>1. ~Idle(m) BY DEF VFill, Settleable
<1>2. /\ i \in m.todo /\ i \in DOMAIN m.book.orders
      /\ \A j \in m.todo \ {i} : Before(m.book, i, j)
  BY <1>1, MetOf
<1>3. /\ BookShape(m.book) /\ m.todo \in SUBSET Crossing(m.book, taker) /\ taker.isBuy \in BOOLEAN
  BY DEF WalkShape, Stored, Taking, EntrySet
<1>4. /\ m.remaining # 0 /\ ~m.stopped /\ DOMAIN m.book.orders \in SUBSET DOMAIN b.orders
      /\ \A j \in DOMAIN m.book.orders : m.book.orders[j] = b.orders[j]
  BY <1>1 DEF Idle, Kept
<1>5. tr.taker = taker /\ tr.maker = i /\ tr.before = m.book.orders[i]
      /\ tr.remaining = m.remaining /\ tr.budget = m.leftover
  BY DEF FillOf
<1> HIDE DEF tr
<1>6. i \in Crossing(b, taker) /\ tr.before = b.orders[i] BY <1>2, <1>3, <1>4, <1>5 DEF Crossing
<1>7. ASSUME NEW j \in Crossing(b, taker), j \in DOMAIN m2.book.orders, Before(b, j, i)
      PROVE  Passed(taker, b.orders[j], m.remaining, m.leftover)
  <2>1. j \in DOMAIN m.book.orders /\ m.book.orders[j] = b.orders[j] BY <1>4, <1>7
  <2>2. j \in Crossing(m.book, taker) BY <1>7, <2>1 DEF Crossing
  <2>3. m.book.orders[i].isBuy = m.book.orders[j].isBuy
    <3>1. m.book.orders[i].isBuy # taker.isBuy /\ m.book.orders[j].isBuy # taker.isBuy
      BY <1>2, <1>3, <2>2 DEF Crossing
    <3>2. m.book.orders[i].isBuy \in BOOLEAN /\ m.book.orders[j].isBuy \in BOOLEAN
      BY <1>2, <1>3, <2>1, OrderOf DEF OrderSet
    <3> QED BY <1>3, <3>1, <3>2
  <2>4. Before(m.book, j, i) BY <1>2, <1>4, <1>7, <2>1 DEF Before
  <2>5. ~Before(m.book, i, j) /\ j # i BY <1>2, <1>3, <2>1, <2>3, <2>4, BeforeOnce
  <2>6. j \notin m.todo BY <1>2, <2>5
  <2>7. Passed(taker, m.book.orders[j], m.remaining, m.leftover) BY <1>4, <2>2, <2>6 DEF Leftover
  <2> QED BY <2>1, <2>7
<1>8. InTurn(tr, taker, b, m2.book) BY <1>5, <1>6, <1>7 DEF InTurn
<1> QED BY <1>8 DEF tr

LEMMA FillFit ==
  ASSUME NEW m, NEW m2, NEW taker, NEW vol, WalkShape(m, taker), VFill(m, m2, taker),
         Suits(taker, vol), Funds(m, taker, vol), Shy(m, taker, vol, now),
         ~Expired(taker.deadline, now)
  PROVE  TradeFit(FillOf(m, taker, Met(m), Offered(m, taker)), now)
<1> DEFINE o == Maker(m)
           x == Offered(m, taker)
           tr == FillOf(m, taker, Met(m), x)
<1>1. ~Idle(m) /\ m.remaining # 0 BY DEF VFill, Settleable, Idle
<1>2. tr.taker = taker /\ tr.before = o /\ tr.ticks = x BY DEF FillOf, Maker
<1>3. /\ DealCompatible(taker, o) /\ ~IsExpired(o.deadline)
      /\ ("AON" \in taker.flags => x = m.remaining) /\ ("AON" \in o.flags => x = o.amount)
  BY FillFacts
<1>4. "AON" \in taker.flags => m.remaining = taker.amount BY <1>1 DEF Funds, Suits, Whole
<1>5. taker.isBuy \in BOOLEAN /\ o.isBuy = ~taker.isBuy BY <1>1, MakerFacts
<1>6. "POST_ONLY" \notin taker.flags BY ShyFills
<1> HIDE DEF tr, o, x
<1>7. TradeFit(tr, now) BY <1>2, <1>3, <1>4, <1>5, <1>6 DEF TradeFit, Expired, IsExpired
<1> QED BY <1>7 DEF tr, x

LEMMA TradesStep ==
  ASSUME NEW m, NEW m2, NEW b, NEW taker, NEW vol, WalkShape(m, taker), VCases(m, m2, taker),
         Suits(taker, vol), Funds(m, taker, vol), Shy(m, taker, vol, now), Kept(m, b),
         Leftover(m, taker), ~Expired(taker.deadline, now), Trades(m, taker, b, now)
  PROVE  Trades(m2, taker, b, now)
<1>1. CASE m2.book = m.book BY <1>1 DEF Trades
<1>2. CASE m2.book.orders = Without(m.book.orders, Met(m)) /\ m2.book.trades = m.book.trades
  <2>1. DOMAIN m2.book.orders \in SUBSET DOMAIN m.book.orders BY <1>2 DEF Without
  <2> QED BY <1>2, <2>1, InTurnKept DEF Trades
<1>3. CASE VFill(m, m2, taker)
  <2> DEFINE tr == FillOf(m, taker, Met(m), Offered(m, taker))
             s == m.book.trades
             s2 == m2.book.trades
  <2>1. ~Idle(m) /\ Fills(m, m2.book, taker, Met(m), Offered(m, taker)) BY <1>3 DEF VFill, Settleable
  <2>2. Met(m) \in DOMAIN m.book.orders BY <2>1, MetOf
  <2>3. DOMAIN m2.book.orders \in SUBSET DOMAIN m.book.orders /\ s2 = Append(s, tr)
    <3>1. Touches(m.book, m2.book, Met(m)) /\ Settles(m, m2.book, taker, Met(m), Offered(m, taker))
      BY <2>1, <2>2, FillsTouches
    <3> HIDE DEF tr
    <3>2. s2 = Append(s, tr) BY <3>1 DEF Settles, tr
    <3> QED BY <3>1, <3>2 DEF Touches
  <2>4. s \in Seq(FillSet) BY DEF WalkShape, Stored, BookShape
  <2>5. InTurn(tr, taker, b, m2.book) BY <1>3, <2>3, FillInTurn
  <2>6. TradeFit(tr, now) BY <1>3, FillFit
  <2>7. \A k \in DOMAIN s : TradeFit(s[k], now) /\ InTurn(s[k], taker, b, m2.book)
    BY <2>3, InTurnKept DEF Trades
  <2> HIDE DEF tr
  <2>8. ASSUME NEW k \in DOMAIN s2 PROVE TradeFit(s2[k], now) /\ InTurn(s2[k], taker, b, m2.book)
    <3>1. CASE k \in DOMAIN s
      <4>1. s2[k] = s[k] BY <2>3, <2>4, <3>1
      <4> QED BY <2>7, <3>1, <4>1
    <3>2. CASE k \notin DOMAIN s
      <4>1. s2[k] = tr BY <2>3, <2>4, <3>2
      <4> QED BY <2>5, <2>6, <4>1
    <3> QED BY <3>1, <3>2
  <2> QED BY <2>8 DEF Trades
<1> QED BY <1>1, <1>2, <1>3, StepKinds

LEMMA ToilStep ==
  ASSUME NEW m, NEW m2, NEW taker, WalkShape(m, taker), VCases(m, m2, taker), NEW n \in Nat,
         NEW k \in 1..n, Toil(m, k - 1, n), IsFiniteSet(m.todo)
  PROVE  Toil(m2, k, n) /\ IsFiniteSet(m2.todo)
<1>1. CASE Idle(m)
  <2>1. m2 = m BY <1>1 DEF VCases, VLimit, VPass, VDrop, VHalt, VDust, VFill, Settleable
  <2> QED BY <1>1, <2>1 DEF Toil
<1>2. CASE VLimit(m, m2) BY <1>2 DEF VLimit, Idle, Toil
<1>3. CASE ~Idle(m) /\ m2.todo = m.todo \ {Met(m)}
  <2>1. Met(m) \in m.todo BY <1>3, MetOf
  <2>2. Cardinality(m.todo \ {Met(m)}) = Cardinality(m.todo) - 1 /\ IsFiniteSet(m.todo \ {Met(m)})
    BY <2>1, FS_RemoveElement
  <2>3. Cardinality(m.todo) = n - (k - 1) BY <1>3 DEF Toil
  <2>4. Cardinality(m2.todo) = n - k BY <1>3, <2>2, <2>3
  <2> QED BY <1>3, <2>2, <2>4 DEF Toil
<1>4. Idle(m) \/ VLimit(m, m2) \/ (~Idle(m) /\ m2.todo = m.todo \ {Met(m)})
  BY DEF VCases, VPass, VDrop, VHalt, VDust, VFill, Counts
<1> QED BY <1>1, <1>2, <1>3, <1>4

LEMMA TermsStep ==
  ASSUME NEW m, NEW m2, NEW b, NEW taker, NEW vol, WalkShape(m, taker), VCases(m, m2, taker),
         Suits(taker, vol), ~Expired(taker.deadline, now), Terms(m, taker, b, vol)
  PROVE  Terms(m2, taker, b, vol)
<1> USE DEF Terms
<1>1. Tidy(m2.book) BY TidyStep
<1>2. Kept(m2, b) BY KeptStep
<1>3. Funds(m2, taker, vol) BY FundsStep
<1>4. Shy(m2, taker, vol, now) BY ShyStep
<1>5. Leftover(m2, taker) BY LeftoverStep
<1>6. Trades(m2, taker, b, now) BY TradesStep
<1> QED BY <1>1, <1>2, <1>3, <1>4, <1>5, <1>6

LEMMA TermsBegin ==
  ASSUME NEW m, NEW b, NEW taker, NEW vol, NEW escrow, NEW from, Fresh(b, taker, vol, escrow, from),
         Begins(m, b, taker, vol, escrow, from)
  PROVE  Terms(m, taker, b, vol)
<1>1. /\ m.book = b /\ m.remaining = vol /\ m.leftover = escrow /\ m.todo = Walk(b, taker, from)
      /\ m.stopped = FALSE /\ m.resume = 0
  BY DEF Begins
<1>2. vol \in Int /\ vol >= 1 BY DEF Fresh, Suits
<1>3. Kept(m, b) BY <1>1 DEF Kept
<1>4. Funds(m, taker, vol) BY <1>1, <1>2 DEF Funds, Fresh
<1>5. Shy(m, taker, vol, now) BY <1>1 DEF Shy, Fresh
<1>6. Leftover(m, taker) BY <1>1 DEF Leftover, Fresh
<1>7. Trades(m, taker, b, now)
  <2>1. DOMAIN m.book.trades = {} BY <1>1 DEF Fresh
  <2> QED BY <2>1 DEF Trades
<1> QED BY <1>1, <1>3, <1>4, <1>5, <1>6, <1>7 DEF Terms, Fresh

\* A whole walk keeps the terms and comes to an end.
LEMMA MatchTerms ==
  ASSUME NEW b, NEW taker, NEW vol \in Int, NEW escrow \in Int, NEW from, Stored(b), Taking(b, taker),
         Fresh(b, taker, vol, escrow, from), NEW n, n = Cardinality(Walk(b, taker, from)), n \in Nat,
         NEW w, Begins(w[0], b, taker, vol, escrow, from), Steps(w, n, b, taker)
  PROVE  Terms(w[n], taker, b, vol) /\ Idle(w[n])
<1> DEFINE makers == Walk(b, taker, from)
           G == {k \in Nat : Terms(w[k], taker, b, vol) /\ Toil(w[k], k, n) /\ IsFiniteSet(w[k].todo)}
<1>1. IsFiniteSet(makers)
  <2>1. makers \in SUBSET DOMAIN b.orders BY DEF Walk, Crossing
  <2> QED BY <2>1, BookFinite, FS_Subset DEF Stored
<1>2. 0 \in G
  <2>1. Terms(w[0], taker, b, vol) BY TermsBegin
  <2>2. w[0].todo = makers BY DEF Begins
  <2>3. Toil(w[0], 0, n) BY <2>2 DEF Toil
  <2> QED BY <1>1, <2>1, <2>2, <2>3
<1>3. ASSUME NEW k \in 1..n, k - 1 \in G PROVE k \in G
  <2> DEFINE m == w[k - 1]
             m2 == w[k]
  <2>0. k \in Nat /\ k - 1 \in 0..n OBVIOUS
  <2>1. WalkShape(m, taker) /\ VCases(m, m2, taker) BY <2>0 DEF Steps
  <2>2. Terms(m, taker, b, vol) /\ Toil(m, k - 1, n) /\ IsFiniteSet(m.todo) BY <1>3
  <2> HIDE DEF m, m2
  <2>3. Terms(m2, taker, b, vol) BY <2>1, <2>2, TermsStep DEF Fresh
  <2>4. Toil(m2, k, n) /\ IsFiniteSet(m2.todo) BY <2>1, <2>2, ToilStep
  <2> QED BY <2>0, <2>3, <2>4 DEF m2
<1> HIDE DEF G
<1>4. \A k \in 0..n : k \in G BY <1>2, <1>3, UpTo
<1>5. n \in G BY <1>4
<1>6. Terms(w[n], taker, b, vol) /\ Toil(w[n], n, n) /\ IsFiniteSet(w[n].todo) BY <1>5 DEF G
<1>7. ASSUME ~Idle(w[n]) PROVE FALSE
  <2>1. Cardinality(w[n].todo) = 0 BY <1>6, <1>7 DEF Toil
  <2>2. w[n].todo = {} BY <1>6, <2>1, FS_EmptySet
  <2> QED BY <1>7, <2>2 DEF Idle
<1> QED BY <1>6, <1>7

-----------------------------------------------------------------------------
(***************************************************************************)
(* Fill or kill: the simulated walk foresees the real one.                 *)
(***************************************************************************)
LEMMA ForeseenDef ==
  ASSUME NEW start, NEW b, NEW taker, IsFiniteSet(start.todo)
  PROVE  LET n == Cardinality(start.todo)
             w == Foreseen(start, b, taker)
         IN  /\ n \in Nat
             /\ w[0] = start
             /\ \A k \in 1..n : w[k] = ForeseeVisit(w[k - 1], b, taker)
<1> DEFINE n == Cardinality(start.todo)
           Is(f, j) == f = [k \in 0..j |-> IF k = 0 THEN start ELSE ForeseeVisit(f[k - 1], b, taker)]
           G == {j \in Nat : \E f : Is(f, j)}
<1>1. n \in Nat BY FS_CardinalityType
<1>2. 0 \in G
  <2> DEFINE f == [k \in 0..0 |-> start]
  <2>1. Is(f, 0) OBVIOUS
  <2> QED BY <2>1
<1>3. ASSUME NEW j \in 1..n, j - 1 \in G PROVE j \in G
  <2>1. PICK g : Is(g, j - 1) BY <1>3
  <2> DEFINE f == [k \in 0..j |-> IF k = 0 THEN start ELSE ForeseeVisit(g[k - 1], b, taker)]
  <2>2. \A k \in 0..(j - 1) : f[k] = g[k] BY <2>1
  <2> HIDE DEF f
  <2>2a. \A k \in 1..j : f[k - 1] = g[k - 1] BY <2>2
  <2>3. \A k \in 1..j : ForeseeVisit(f[k - 1], b, taker) = ForeseeVisit(g[k - 1], b, taker) BY <2>2a
  <2>4. f = [k \in 0..j |-> IF k = 0 THEN start ELSE ForeseeVisit(g[k - 1], b, taker)] BY DEF f
  <2>5. \A k \in 0..j : (IF k = 0 THEN start ELSE ForeseeVisit(g[k - 1], b, taker))
                          = (IF k = 0 THEN start ELSE ForeseeVisit(f[k - 1], b, taker)) BY <2>3
  <2>6. [k \in 0..j |-> IF k = 0 THEN start ELSE ForeseeVisit(g[k - 1], b, taker)]
          = [k \in 0..j |-> IF k = 0 THEN start ELSE ForeseeVisit(f[k - 1], b, taker)] BY <2>5
  <2>7. Is(f, j) BY <2>4, <2>6
  <2> QED BY <2>7
<1> HIDE DEF G
<1>4. \A k \in 0..n : k \in G BY <1>1, <1>2, <1>3, UpTo
<1>5. \E f : Is(f, n) BY <1>1, <1>4 DEF G
<1>6. Is(Foreseen(start, b, taker), n) BY <1>5 DEF Foreseen
<1> QED BY <1>1, <1>6

LEMMA ForeseeMakerDoes ==
  ASSUME NEW p, DOMAIN p = PreFields, p.matches \in Nat, NEW taker, NEW o
  PROVE  PCases(p, ForeseeMaker(p, taker, o), taker, o)
<1> DEFINE seen == [p EXCEPT !.scanned = @ + 1]
           trade == Glimpse(p, taker, o)
           q == ForeseeMaker(p, taker, o)
<1>1. q = IF PLimit(p) THEN [p EXCEPT !.verdict = "no"]
          ELSE IF ~DealCompatible(taker, o) THEN seen
          ELSE IF IsExpired(o.deadline) THEN [seen EXCEPT !.matches = @ + 1]
          ELSE IF AonForbids(taker, o, p.remaining, trade) THEN seen
          ELSE IF trade < 2 /\ taker.isBuy THEN [p EXCEPT !.verdict = "no"]
          ELSE IF trade < 2 THEN [seen EXCEPT !.matches = @ + 1]
          ELSE IF taker.isBuy
          THEN [seen EXCEPT !.remaining = @ - trade, !.matches = @ + 1,
                            !.left = @ - trade * Unit(o.price)]
          ELSE [seen EXCEPT !.verdict = IF trade = p.remaining THEN "yes" ELSE "no"]
  BY DEF ForeseeMaker, Glimpse, PLimit
<1> SUFFICES PCases(p, q, taker, o) OBVIOUS
<1> HIDE DEF q, trade
<1>2. ASSUME q = [p EXCEPT !.verdict = "no"] PROVE PCases(p, q, taker, o)
  BY <1>2 DEF PCases, PreFields
<1>3. ASSUME q = seen PROVE Tallies(p, q, 0) /\ Onward(p, q) BY <1>3 DEF Tallies, Onward, PreFields
<1>4. ASSUME q = [seen EXCEPT !.matches = @ + 1] PROVE Tallies(p, q, 1) /\ Onward(p, q)
  BY <1>4 DEF Tallies, Onward, PreFields
<1>5. CASE PLimit(p) BY <1>1, <1>2, <1>5
<1>6. CASE ~PLimit(p) /\ ~DealCompatible(taker, o)
  <2>1. q = seen BY <1>1, <1>6
  <2>2. Tallies(p, q, 0) /\ Onward(p, q) BY <1>3, <2>1
  <2>3. PPass(p, q, taker, o) BY <1>6, <2>2 DEF PPass
  <2>4. DOMAIN q = PreFields BY <2>2 DEF Tallies
  <2> QED BY <1>6, <2>3, <2>4 DEF PCases
<1>7. CASE ~PLimit(p) /\ DealCompatible(taker, o) /\ IsExpired(o.deadline)
  BY <1>1, <1>4, <1>7 DEF PCases, PDrop, Tallies
<1>8. CASE ~PLimit(p) /\ DealCompatible(taker, o) /\ ~IsExpired(o.deadline)
           /\ AonForbids(taker, o, p.remaining, trade)
  BY <1>1, <1>3, <1>8 DEF PCases, PPass, Tallies, trade
<1>9. CASE ~PLimit(p) /\ PMeets(p, taker, o)
  <2>0. DealCompatible(taker, o) /\ ~IsExpired(o.deadline) /\ ~AonForbids(taker, o, p.remaining, trade)
    BY <1>9 DEF PMeets, trade
  <2>1. CASE trade < 2 /\ taker.isBuy BY <1>1, <1>2, <1>9, <2>0, <2>1
  <2>2. CASE trade < 2 /\ ~taker.isBuy
    BY <1>1, <1>4, <1>9, <2>0, <2>2 DEF PCases, PDust, Tallies, trade
  <2>3. CASE ~(trade < 2) /\ taker.isBuy
    <3>1. q = [seen EXCEPT !.remaining = @ - trade, !.matches = @ + 1,
                           !.left = @ - trade * Unit(o.price)]
      BY <1>1, <1>9, <2>0, <2>3
    <3>2. /\ DOMAIN q = PreFields /\ q.todo = p.todo /\ q.scanned = p.scanned + 1
          /\ q.matches = p.matches + 1 /\ q.verdict = p.verdict
          /\ q.remaining = p.remaining - trade /\ q.left = p.left - trade * Unit(o.price)
      BY <3>1 DEF PreFields
    <3> QED BY <1>9, <2>3, <3>2 DEF PCases, PBuys, Tallies, trade
  <2>4. CASE ~(trade < 2) /\ ~taker.isBuy
    <3>1. q = [seen EXCEPT !.verdict = IF trade = p.remaining THEN "yes" ELSE "no"]
      BY <1>1, <1>9, <2>0, <2>4
    <3>2. DOMAIN q = PreFields /\ q.verdict = IF trade = p.remaining THEN "yes" ELSE "no"
      BY <3>1 DEF PreFields
    <3> QED BY <1>9, <2>4, <3>2 DEF PCases, PSells, trade
  <2> QED BY <2>1, <2>2, <2>3, <2>4
<1> QED BY <1>5, <1>6, <1>7, <1>8, <1>9 DEF PMeets, trade

LEMMA TotalNone == Total(<<>>) = 0
<1> DEFINE f == [k \in DOMAIN <<>> |-> <<>>[k].ticks]
<1>1. DOMAIN f = {} OBVIOUS
<1>2. Total(<<>>) = SumFunction(f) BY DEF Total
<1> HIDE DEF f
<1> QED BY <1>1, <1>2, SumNone

LEMMA TotalGrows ==
  ASSUME NEW s \in Seq(FillSet), NEW tr, tr.ticks \in Int
  PROVE  Total(Append(s, tr)) = Total(s) + tr.ticks
<1> DEFINE s2 == Append(s, tr)
           f == [k \in DOMAIN s |-> s[k].ticks]
           g == [k \in DOMAIN s2 |-> s2[k].ticks]
           x == Len(s) + 1
           S == DOMAIN s
<1>1. S = 1..Len(s) /\ Len(s) \in Nat OBVIOUS
<1>2. DOMAIN s2 = S \cup {x} /\ x \notin S /\ s2[x] = tr /\ \A y \in S : s2[y] = s[y] OBVIOUS
<1>3. IsFiniteSet(S) BY <1>1, FS_Interval
<1>4. \A y \in S : s[y].ticks \in Int
  <2>1. \A y \in DOMAIN s : s[y] \in FillSet OBVIOUS
  <2> QED BY <2>1 DEF FillSet
<1> HIDE DEF s2, x, S
<1>5. /\ DOMAIN g = S \cup {x} /\ g[x] = tr.ticks /\ \A y \in S : g[y] \in Int /\ f[y] = g[y]
      /\ DOMAIN f = S
  BY <1>2, <1>4 DEF S
<1>6. Total(s2) = SumFunction(g) /\ Total(s) = SumFunction(f) BY DEF Total
<1> HIDE DEF f, g
<1>7. SumFunction(g) = Sum(g, DOMAIN g) /\ SumFunction(f) = Sum(f, DOMAIN f) BY DEF Sum, SumFunction
<1>8. Sum(g, S \cup {x}) = Sum(f, S) + g[x] BY <1>2, <1>3, <1>5, SumGrow
<1> QED BY <1>5, <1>6, <1>7, <1>8 DEF s2

LEMMA FirstSame ==
  ASSUME NEW m, NEW b, NEW taker, BookShape(b), WalkShape(m, taker), ~Idle(m), Kept(m, b)
  PROVE  First(b, m.todo) = Met(m) /\ b.orders[Met(m)] = Maker(m)
<1> DEFINE S == m.todo
           x == First(b, S)
           y == Met(m)
<1>1. /\ y \in S /\ y \in DOMAIN m.book.orders /\ \A j \in S \ {y} : Before(m.book, y, j) BY MetOf
<1>2. m.remaining # 0 /\ S \in SUBSET Crossing(m.book, taker) /\ taker.isBuy \in BOOLEAN
  BY DEF Idle, WalkShape, Taking, EntrySet
<1>3. \A i \in DOMAIN m.book.orders : i \in DOMAIN b.orders /\ m.book.orders[i] = b.orders[i]
  BY <1>2 DEF Kept
<1>4. \A i \in S : i \in DOMAIN m.book.orders /\ i \in DOMAIN b.orders /\ m.book.orders[i] = b.orders[i]
                   /\ b.orders[i].isBuy # taker.isBuy
  BY <1>2, <1>3 DEF Crossing
<1>5. \A i \in S : b.orders[i].isBuy \in BOOLEAN BY <1>4, OrderOf DEF OrderSet
<1>6. \A i, j \in S : b.orders[i].isBuy = b.orders[j].isBuy BY <1>2, <1>4, <1>5
<1>7. S \in SUBSET DOMAIN b.orders /\ S # {} BY <1>1, <1>4
<1>8. x \in S /\ \A j \in S \ {x} : Before(b, x, j) BY <1>6, <1>7, FirstOf
<1>9. ASSUME x # y PROVE FALSE
  <2>1. Before(b, x, y) /\ Before(m.book, y, x) BY <1>1, <1>8, <1>9
  <2>2. Before(b, y, x) BY <1>1, <1>4, <1>8, <2>1 DEF Before
  <2> HIDE DEF x, y
  <2> QED BY <1>1, <1>4, <1>6, <1>8, <2>1, <2>2, BeforeOnce
<1>10. b.orders[y] = Maker(m) BY <1>1, <1>4 DEF Maker
<1> QED BY <1>9, <1>10

\* The work on one maker, before levels are counted.
LEMMA SimMaker ==
  ASSUME NEW m, NEW m2, NEW taker, NEW p, NEW q, WalkShape(m, taker), VCases(m, m2, taker), ~Idle(m),
         taker.amount \in Int, IsSub(taker.flags) => "AON" \in taker.flags,
         p.verdict = "open", p.todo = m.todo \ {Met(m)}, p.remaining = m.remaining, p.left = m.leftover,
         p.matches = m.matches, p.scanned = m.scanned,
         Total(m.book.trades) = taker.amount - m.remaining,
         ~taker.isBuy => m.remaining = taker.amount, PCases(p, q, taker, Maker(m))
  PROVE  Sim(q, m2, taker)
<1> DEFINE o == Maker(m)
           x == Offered(m, taker)
<1>1. Glimpse(p, taker, o) = x BY DEF Glimpse, Offered
<1>2. PLimit(p) <=> Limit(m) BY DEF PLimit, Limit
<1>3. AonForbids(taker, o, p.remaining, Glimpse(p, taker, o)) <=> Forbids(m, taker)
  BY <1>1 DEF Forbids
<1>4. m.remaining # 0 /\ ~m.stopped BY DEF Idle
<1>5. DOMAIN q = PreFields BY DEF PCases
<1>6. taker.isBuy \in BOOLEAN /\ x \in Int /\ m.remaining \in Int BY OfferedType DEF WalkShape, Taking, EntrySet
<1>7. CASE q.verdict = "no" BY <1>5, <1>7 DEF Sim
<1>8. ASSUME Onward(p, q), SameMoney(m, m2), ~m2.stopped, m2.todo = m.todo \ {Met(m)}, q.todo = p.todo,
             q.matches = m2.matches, q.scanned = m2.scanned, m2.book.trades = m.book.trades
      PROVE  Sim(q, m2, taker)
  <2>1. Alike(q, m2, taker) BY <1>8 DEF Alike, Onward, SameMoney
  <2> QED BY <1>5, <2>1 DEF Sim
<1>9. CASE ~PLimit(p) /\ PPass(p, q, taker, o)
  <2>1. VPass(m, m2, taker)
    BY <1>2, <1>3, <1>9 DEF VCases, PPass, VLimit, VDrop, VHalt, VDust, VFill, Settleable
  <2> QED BY <1>8, <1>9, <2>1 DEF VPass, Counts, PPass, Tallies
<1>10. CASE ~PLimit(p) /\ PDrop(p, q, taker, o)
  <2>1. VDrop(m, m2, taker)
    BY <1>2, <1>3, <1>10 DEF VCases, PDrop, VLimit, VPass, VHalt, VDust, VFill, Settleable
  <2>2. m2.book.trades = m.book.trades
    <3>1. Met(m) \in DOMAIN m.book.orders /\ Stored(m.book) BY MetOf DEF WalkShape
    <3> QED BY <2>1, <3>1, LeavesTouches DEF VDrop, NoFill
  <2> QED BY <1>8, <1>10, <2>1, <2>2 DEF VDrop, Counts, PDrop, Tallies
<1>11. CASE ~PLimit(p) /\ PDust(p, q, taker, o)
  <2>0. Settleable(m, taker) /\ x < 2 /\ ~taker.isBuy
    BY <1>1, <1>2, <1>3, <1>11 DEF PDust, PMeets, Settleable
  <2>1. VDust(m, m2, taker)
    <3>1. ~VLimit(m, m2) /\ ~VPass(m, m2, taker) /\ ~VDrop(m, m2, taker)
      BY <2>0 DEF VLimit, VPass, VDrop, Settleable
    <3>2. ~VHalt(m, m2, taker) BY <2>0 DEF VHalt
    <3>3. VFill(m, m2, taker) => x >= 2 BY DEF VFill
    <3>4. ~(x >= 2)
      <4> HIDE DEF x
      <4> QED BY <1>6, <2>0
    <3> QED BY <3>1, <3>2, <3>3, <3>4 DEF VCases
  <2>2. m2.book.trades = m.book.trades
    <3>1. Met(m) \in DOMAIN m.book.orders /\ Stored(m.book) BY MetOf DEF WalkShape
    <3> QED BY <2>1, <3>1, LeavesTouches DEF VDust, NoFill
  <2> QED BY <1>8, <1>11, <2>1, <2>2 DEF VDust, Counts, PDust, Tallies
<1>12. ASSUME ~PLimit(p), PMeets(p, taker, o), ~(x < 2)
       PROVE  VFill(m, m2, taker) /\ Total(m2.book.trades) = taker.amount - m.remaining + x
              /\ ~m2.stopped
  <2>0. Settleable(m, taker) BY <1>2, <1>3, <1>12 DEF PMeets, Settleable
  <2>1. VFill(m, m2, taker) BY <1>6, <1>12, <2>0 DEF VCases, VLimit, VPass, VDrop, VHalt, VDust, Settleable
  <2> DEFINE tr == FillOf(m, taker, Met(m), x)
             s == m.book.trades
  <2>2. Met(m) \in DOMAIN m.book.orders BY MetOf
  <2>3. Settles(m, m2.book, taker, Met(m), x) BY <2>1, <2>2, FillsTouches DEF VFill
  <2>4. tr.ticks = x BY DEF FillOf
  <2>5. s \in Seq(FillSet) BY DEF WalkShape, Stored, BookShape
  <2> HIDE DEF tr
  <2>6. m2.book.trades = Append(s, tr) BY <2>3 DEF Settles, tr
  <2>7. Total(Append(s, tr)) = Total(s) + tr.ticks BY <1>6, <2>4, <2>5, TotalGrows
  <2>8. ~m2.stopped BY <2>1 DEF VFill, Counts
  <2> QED BY <2>1, <2>4, <2>6, <2>7, <2>8
<1>13. CASE ~PLimit(p) /\ PBuys(p, q, taker, o)
  <2>1. taker.isBuy /\ ~(x < 2) /\ PMeets(p, taker, o) BY <1>1, <1>13 DEF PBuys
  <2>2. VFill(m, m2, taker) /\ Total(m2.book.trades) = taker.amount - m.remaining + x /\ ~m2.stopped
    BY <1>12, <1>13, <2>1
  <2>3. m2.remaining = m.remaining - x /\ m2.leftover = m.leftover - Cost(taker, o, x)
        /\ Counts(m, m2, 1, FALSE)
    BY <2>1, <2>2 DEF VFill
  <2>4. q.remaining = m.remaining - x /\ q.left = m.leftover - x * Unit(o.price) /\ q.verdict = "open"
        /\ Tallies(p, q, 1)
    BY <1>1, <1>13 DEF PBuys
  <2>5. ASSUME m2.remaining # 0 PROVE q.left = m2.leftover
    <3>1. /\ "AON" \in taker.flags => x = m.remaining
          /\ ~IsSub(Buying(taker, o).flags) => Cost(taker, o, x) = x * Unit(Clearing(taker, o))
      BY <2>2, FillFacts
    <3>2. ~IsSub(taker.flags) BY <1>6, <2>3, <2>5, <3>1
    <3>3. Cost(taker, o, x) = x * Unit(o.price) BY <2>1, <3>1, <3>2 DEF Buying, Clearing
    <3> QED BY <2>3, <2>4, <3>3
  <2>6. Total(m2.book.trades) = taker.amount - m2.remaining
    <3> HIDE DEF x
    <3> QED BY <1>6, <2>2, <2>3
  <2>7. Alike(q, m2, taker) BY <2>1, <2>2, <2>3, <2>4, <2>5, <2>6 DEF Alike, Counts, Tallies
  <2> QED BY <1>5, <2>7 DEF Sim
<1>14. CASE ~PLimit(p) /\ PSells(p, q, taker, o)
  <2>1. ~taker.isBuy /\ ~(x < 2) /\ PMeets(p, taker, o) /\ x = m.remaining /\ q.verdict = "yes"
    BY <1>1, <1>14 DEF PSells
  <2>2. VFill(m, m2, taker) /\ Total(m2.book.trades) = taker.amount - m.remaining + x /\ ~m2.stopped
    BY <1>12, <1>14, <2>1
  <2>3. m2.remaining = 0 BY <2>1, <2>2 DEF VFill
  <2>4. Total(m2.book.trades) = taker.amount
    <3> HIDE DEF x
    <3> QED BY <1>6, <2>1, <2>2
  <2>5. Done(m2, taker) BY <2>2, <2>3, <2>4 DEF Done
  <2> QED BY <1>5, <2>1, <2>5 DEF Sim
<1> QED BY <1>7, <1>9, <1>10, <1>11, <1>13, <1>14 DEF PCases

LEMMA SimStep ==
  ASSUME NEW m, NEW m2, NEW b, NEW taker, NEW p, BookShape(b), WalkShape(m, taker),
         VCases(m, m2, taker), Kept(m, b), taker.amount \in Int,
         IsSub(taker.flags) => "AON" \in taker.flags, Sim(p, m, taker)
  PROVE  Sim(ForeseeVisit(p, b, taker), m2, taker)
<1> DEFINE id   == First(b, p.todo)
           p0   == [p EXCEPT !.todo = @ \ {id}]
           q    == ForeseeMaker(p0, taker, b.orders[id])
           left == {i \in q.todo : b.orders[i].price = b.orders[id].price}
           p2   == ForeseeVisit(p, b, taker)
<1>0. DOMAIN p = PreFields BY DEF Sim
<1>1. Idle(m) => m2 = m BY VisitShrinks
<1>2. CASE p.verdict # "open"
  <2>1. p2 = p BY <1>2 DEF ForeseeVisit
  <2>2. p.verdict = "no" \/ (p.verdict = "yes" /\ Done(m, taker)) BY <1>2 DEF Sim, Alike
  <2>3. Done(m, taker) => m2 = m BY <1>1 DEF Done, Idle
  <2> QED BY <1>0, <2>1, <2>2, <2>3 DEF Sim
<1>3. CASE p.verdict = "open"
  <2>0. Alike(p, m, taker) BY <1>3 DEF Sim
  <2>1. CASE Idle(m)
    <3>1. p.todo = {} \/ p.remaining = 0 BY <2>0, <2>1 DEF Alike, Idle
    <3>2. p2 = p BY <3>1 DEF ForeseeVisit
    <3> QED BY <1>1, <2>1, <3>2
  <2>2. CASE ~Idle(m)
    <3>1. id = Met(m) /\ b.orders[id] = Maker(m) BY <2>0, <2>2, FirstSame DEF Alike
    <3>2. /\ DOMAIN p0 = PreFields /\ p0.todo = m.todo \ {Met(m)} /\ p0.remaining = p.remaining
          /\ p0.left = p.left /\ p0.matches = p.matches /\ p0.scanned = p.scanned
          /\ p0.verdict = "open"
      BY <1>0, <1>3, <2>0, <3>1 DEF PreFields, Alike
    <3>3. p.todo # {} /\ p.remaining # 0 BY <2>0, <2>2 DEF Alike, Idle
    <3>4. p2 = IF q.verdict # "open" \/ (left # {} /\ q.remaining # 0) THEN q
               ELSE [q EXCEPT !.walked = @ + 1,
                              !.verdict = IF q.walked + 1 >= MAX_PRECHECK_LEVELS THEN "no" ELSE @]
      BY <1>3, <3>3 DEF ForeseeVisit
    <3>5. p.matches \in Nat BY <2>0 DEF Alike, WalkShape
    <3> HIDE DEF p0, id
    <3>6. PCases(p0, q, taker, Maker(m))
      <4>1. p0.matches \in Nat BY <3>2, <3>5
      <4>2. PCases(p0, ForeseeMaker(p0, taker, Maker(m)), taker, Maker(m))
        BY <3>2, <4>1, ForeseeMakerDoes
      <4> QED BY <3>1, <4>2
    <3> HIDE DEF q
    <3>7. Sim(q, m2, taker)
      <4>1. /\ p0.remaining = m.remaining /\ p0.left = m.leftover /\ p0.matches = m.matches
            /\ p0.scanned = m.scanned /\ Total(m.book.trades) = taker.amount - m.remaining
            /\ ~taker.isBuy => m.remaining = taker.amount
        BY <2>0, <3>2, <3>3 DEF Alike
      <4> QED BY <2>2, <3>2, <3>6, <4>1, SimMaker
    <3> HIDE DEF left, p2
    <3>8. CASE p2 = q BY <3>7, <3>8 DEF p2
    <3>9. CASE p2 # q
      <4>1. q.verdict = "open" /\ DOMAIN q = PreFields /\ Alike(q, m2, taker)
        BY <3>4, <3>7, <3>9 DEF Sim
      <4> DEFINE v == IF q.walked + 1 >= MAX_PRECHECK_LEVELS THEN "no" ELSE q.verdict
      <4>2. p2 = [q EXCEPT !.walked = @ + 1, !.verdict = v] BY <3>4, <3>9
      <4>3. v = "no" \/ v = "open" BY <4>1
      <4> HIDE DEF v
      <4>4. /\ DOMAIN p2 = PreFields /\ p2.verdict = v /\ p2.todo = q.todo
            /\ p2.remaining = q.remaining /\ p2.left = q.left /\ p2.matches = q.matches
            /\ p2.scanned = q.scanned
        BY <4>1, <4>2 DEF PreFields
      <4>5. Sim(p2, m2, taker) BY <4>1, <4>3, <4>4 DEF Sim, Alike
      <4> QED BY <4>5 DEF p2
    <3> QED BY <3>8, <3>9
  <2> QED BY <2>1, <2>2
<1> QED BY <1>2, <1>3

\* A fill-or-kill order that passed the check is filled, and never capped.
LEMMA FokFills ==
  ASSUME NEW b, NEW taker, NEW escrow \in Int, NEW from, Stored(b), Taking(b, taker),
         escrow = taker.escrow, from = 0, taker.amount # 0,
         Fresh(b, taker, taker.amount, escrow, from), FokFullyFillable(b, taker),
         NEW n, n = Cardinality(Walk(b, taker, from)), n \in Nat,
         NEW w, Begins(w[0], b, taker, taker.amount, escrow, from), Steps(w, n, b, taker)
  PROVE  Done(w[n], taker)
<1> DEFINE makers == Crossing(b, taker)
           start  == [ todo |-> makers, remaining |-> taker.amount, left |-> taker.escrow,
                       matches |-> 0, scanned |-> 0, walked |-> 0, verdict |-> "open" ]
           p == Foreseen(start, b, taker)
           G == {k \in Nat : Terms(w[k], taker, b, taker.amount) /\ Sim(p[k], w[k], taker)}
<1>0. BookShape(b) /\ taker.amount \in Int /\ taker.isBuy \in BOOLEAN
      /\ (IsSub(taker.flags) => "AON" \in taker.flags)
  BY DEF Stored, Taking, EntrySet, Fresh, Suits
<1>1. Walk(b, taker, from) = makers
  <2>1. 0 \notin DOMAIN b.orders BY <1>0 DEF BookShape
  <2> QED BY <2>1 DEF Walk
<1>2. IsFiniteSet(makers)
  <2>1. makers \in SUBSET DOMAIN b.orders BY DEF Crossing
  <2> QED BY <1>0, <2>1, BookFinite, FS_Subset
<1>3. n = Cardinality(makers) BY <1>1
<1>4. p[n].verdict = "yes" \/ (p[n].verdict = "open" /\ p[n].remaining = 0)
  BY <1>3 DEF FokFullyFillable
<1> HIDE DEF makers
<1>5. /\ DOMAIN start = PreFields /\ start.todo = makers /\ start.remaining = taker.amount
      /\ start.left = escrow /\ start.matches = 0 /\ start.scanned = 0 /\ start.verdict = "open"
  BY DEF PreFields
<1> HIDE DEF start
<1>6. p[0] = start /\ \A k \in 1..n : p[k] = ForeseeVisit(p[k - 1], b, taker)
  BY <1>2, <1>3, <1>5, ForeseenDef
<1> HIDE DEF p
<1>7. 0 \in G
  <2>1. Terms(w[0], taker, b, taker.amount) BY TermsBegin
  <2>2. /\ w[0].book = b /\ w[0].todo = makers /\ w[0].remaining = taker.amount
        /\ w[0].leftover = escrow /\ w[0].matches = 0 /\ w[0].scanned = 0 /\ w[0].stopped = FALSE
    BY <1>1 DEF Begins
  <2>3. Total(w[0].book.trades) = 0 BY <2>2, TotalNone DEF Fresh
  <2>4. Alike(p[0], w[0], taker) BY <1>0, <1>5, <1>6, <2>2, <2>3 DEF Alike
  <2>5. Sim(p[0], w[0], taker) BY <1>5, <1>6, <2>4 DEF Sim
  <2> QED BY <2>1, <2>5
<1>8. ASSUME NEW k \in 1..n, k - 1 \in G PROVE k \in G
  <2> DEFINE m == w[k - 1]
             m2 == w[k]
             r == p[k - 1]
  <2>0. k \in Nat /\ k - 1 \in 0..n OBVIOUS
  <2>1. WalkShape(m, taker) /\ VCases(m, m2, taker) BY <2>0 DEF Steps
  <2>2. Terms(m, taker, b, taker.amount) /\ Sim(r, m, taker) BY <1>8
  <2>3. p[k] = ForeseeVisit(r, b, taker) BY <1>6
  <2> HIDE DEF m, m2, r
  <2>4. Terms(m2, taker, b, taker.amount) BY <2>1, <2>2, TermsStep DEF Fresh
  <2>5. Kept(m, b) BY <2>2 DEF Terms
  <2>6. Sim(ForeseeVisit(r, b, taker), m2, taker) BY <1>0, <2>1, <2>2, <2>5, SimStep
  <2> QED BY <2>0, <2>3, <2>4, <2>6 DEF m2
<1> HIDE DEF G
<1>9. \A k \in 0..n : k \in G BY <1>7, <1>8, UpTo
<1>10. Sim(p[n], w[n], taker) BY <1>9 DEF G
<1>11. CASE p[n].verdict = "yes" BY <1>10, <1>11 DEF Sim, Alike
<1>12. CASE p[n].verdict = "open" /\ p[n].remaining = 0
  <2>1. Alike(p[n], w[n], taker) BY <1>10, <1>12 DEF Sim
  <2> QED BY <1>0, <1>12, <2>1 DEF Alike, Done
<1> QED BY <1>4, <1>11, <1>12

-----------------------------------------------------------------------------
(***************************************************************************)
(* The walk of the head of the queue.                                      *)
(***************************************************************************)
\* The check of a fill-or-kill order reads nothing but the orders.
LEMMA FokSame ==
  ASSUME NEW b, NEW b2, NEW taker, Stored(b), Stored(b2), b2.orders = b.orders
  PROVE  FokFullyFillable(b2, taker) <=> FokFullyFillable(b, taker)
<1> DEFINE makers == Crossing(b, taker)
           start  == [ todo |-> makers, remaining |-> taker.amount, left |-> taker.escrow,
                       matches |-> 0, scanned |-> 0, walked |-> 0, verdict |-> "open" ]
           n == Cardinality(makers)
           p == Foreseen(start, b, taker)
           p2 == Foreseen(start, b2, taker)
<1>1. Crossing(b2, taker) = makers BY DEF Crossing
<1>2. FokFullyFillable(b, taker) <=> p[n].verdict = "yes" \/ (p[n].verdict = "open" /\ p[n].remaining = 0)
  BY DEF FokFullyFillable
<1>3. FokFullyFillable(b2, taker) <=> p2[n].verdict = "yes" \/ (p2[n].verdict = "open" /\ p2[n].remaining = 0)
  BY <1>1 DEF FokFullyFillable
<1>4. IsFiniteSet(makers)
  <2>1. makers \in SUBSET DOMAIN b.orders BY DEF Crossing
  <2> QED BY <2>1, BookFinite, FS_Subset DEF Stored
<1>5. start.todo = makers OBVIOUS
<1> HIDE DEF makers, start
<1>6. n \in Nat /\ n = Cardinality(start.todo) BY <1>4, <1>5, FS_CardinalityType
<1>7. /\ p[0] = start /\ \A k \in 1..n : p[k] = ForeseeVisit(p[k - 1], b, taker)
      /\ p2[0] = start /\ \A k \in 1..n : p2[k] = ForeseeVisit(p2[k - 1], b2, taker)
  BY <1>4, <1>5, <1>6, ForeseenDef
<1> HIDE DEF p, p2, n
<1>8. ASSUME NEW x PROVE ForeseeVisit(x, b2, taker) = ForeseeVisit(x, b, taker)
  <2> DEFINE id == First(b, x.todo)
  <2>1. First(b2, x.todo) = id BY DEF First, Before
  <2> HIDE DEF id
  <2> QED BY <2>1 DEF ForeseeVisit, id
<1> DEFINE G == {k \in Nat : p2[k] = p[k]}
<1>9. 0 \in G BY <1>7
<1>10. ASSUME NEW k \in 1..n, k - 1 \in G PROVE k \in G
  <2>1. p2[k - 1] = p[k - 1] /\ k \in Nat BY <1>6, <1>10
  <2>2. p2[k] = ForeseeVisit(p[k - 1], b2, taker) BY <1>7, <2>1
  <2>3. p[k] = ForeseeVisit(p[k - 1], b, taker) BY <1>7
  <2>4. p2[k] = p[k] BY <1>8, <2>2, <2>3
  <2> QED BY <2>1, <2>4
<1> HIDE DEF G
<1>11. \A k \in 0..n : k \in G BY <1>6, <1>9, <1>10, UpTo
<1>12. p2[n] = p[n] BY <1>6, <1>11 DEF G
<1> QED BY <1>2, <1>3, <1>12

LEMMA HeadFresh ==
  ASSUME NEW b, NEW dls, NEW tbs, CallInv(b, dls, tbs), b.queue # <<>>,
         NEW e, e = Head(b.queue), e.type = "place", Orderly(b, now), b.trades = <<>>, Ripe(b, e)
  PROVE  Fresh(Ready(b, e), e, Volume(e), HeldInQueue(e), e.contScanOrder)
<1> DEFINE ready == Ready(b, e)
           vol == Volume(e)
           held == HeldInQueue(e)
           from == e.contScanOrder
<1>1. /\ e \in EntrySet /\ vol \in Int /\ SameLedger(b, ready) /\ ready.trades = b.trades
      /\ Stored(ready)
  BY ReadyIs
<1>2. ready.orders = b.orders BY <1>1 DEF SameLedger
<1>3. b.queue \in Seq(EntrySet) BY DEF CallInv, Stored, BookShape
<1>4. Tidy(b) /\ Sound(e) /\ Behind(b, e, now)
  <2>1. 1 \in DOMAIN b.queue /\ b.queue[1] = e BY <1>3
  <2> QED BY <2>1 DEF Orderly
<1> HIDE DEF ready
<1>5. Tidy(ready) BY <1>2, <1>4 DEF Tidy
<1>6. Crossing(ready, e) = Crossing(b, e) BY <1>2 DEF Crossing
<1>7. Walk(ready, e, from) = Walk(b, e, from) BY <1>2 DEF Walk, Crossing, Before
<1>8. e.contOrderId = 0 => from = 0 BY <1>4 DEF Sound
<1>9. ASSUME e.contOrderId = 0 PROVE Walk(b, e, from) = Crossing(b, e)
  <2>1. 0 \notin DOMAIN b.orders BY OrderOf DEF CallInv, Stored
  <2> QED BY <1>8, <1>9, <2>1 DEF Walk
<1>10. ASSUME "POST_ONLY" \in e.flags, NEW i \in Crossing(ready, e)
       PROVE  Unfit(e, ready.orders[i], now)
  <2>1. CASE e.contOrderId = 0
    <3> DEFINE o == b.orders[i]
    <3>1. ~ExecutableCrosses(b, e) BY <1>10, <2>1 DEF Ripe
    <3>2. i \in Crossing(b, e) BY <1>6, <1>10
    <3>3. ~ ( /\ DealCompatible(e, o)
              /\ ~IsExpired(o.deadline)
              /\ "AON" \in e.flags => o.amount >= e.amount
              /\ "AON" \in o.flags => e.amount >= o.amount
              /\ o.amount >= 2 )
      BY <3>1, <3>2 DEF ExecutableCrosses
    <3>4. o.amount \in Int /\ e.amount \in Int
      <4>1. i \in DOMAIN b.orders BY <3>2 DEF Crossing
      <4> QED BY <1>1, <4>1, OrderOf DEF CallInv, Stored, OrderSet, EntrySet
    <3> HIDE DEF o
    <3>5. Unfit(e, o, now) BY <3>3, <3>4 DEF Unfit, IsExpired, Expired
    <3> QED BY <1>2, <3>5 DEF o
  <2>2. CASE e.contOrderId # 0 BY <1>2, <1>4, <1>6, <1>10, <2>2 DEF Behind
  <2> QED BY <2>1, <2>2
<1>11. ASSUME NEW i \in Crossing(ready, e) \ Walk(ready, e, from)
       PROVE  Passed(e, ready.orders[i], vol, held)
  <2>1. e.contOrderId # 0 BY <1>6, <1>7, <1>9, <1>11
  <2>2. Passed(e, b.orders[i], e.contRemaining, e.contLeftover)
    BY <1>4, <1>6, <1>7, <1>11, <2>1 DEF Behind
  <2> QED BY <1>2, <2>1, <2>2 DEF Volume, HeldInQueue
<1>12. Suits(e, vol) BY <1>1, <1>4 DEF Suits, Sound
<1>13. e.isBuy /\ "MARKET" \notin e.flags => held >= vol * Unit(e.price) BY <1>4 DEF Sound
<1> QED BY <1>1, <1>5, <1>10, <1>11, <1>12, <1>13 DEF Fresh, Ripe, ready

LEMMA HeadWalks ==
  ASSUME NEW b, NEW dls, NEW tbs, CallInv(b, dls, tbs), b.queue # <<>>,
         NEW e, e = Head(b.queue), e.type = "place", Orderly(b, now), b.trades = <<>>, Ripe(b, e)
  PROVE  Walks(b, e, Matching(b, e))
<1> DEFINE q == Tail(b.queue)
           ready == Ready(b, e)
           vol == Volume(e)
           held == HeldInQueue(e)
           from == e.contScanOrder
           m == Matching(b, e)
<1>1. /\ e \in EntrySet /\ vol \in Int /\ held \in Int /\ SameLedger(b, ready) /\ Stored(ready)
      /\ Taking(ready, e) /\ (~e.isBuy => vol <= AskTicks[e.deal] /\ vol # 0)
      /\ ready.queue = b.queue
  BY ReadyIs
<1>2. Fresh(ready, e, vol, held, from) BY HeadFresh
<1>3. m = Match(ready, e, vol, held, from) BY DEF Matching
<1>4. e.contOrderId = 0 => vol = e.amount /\ held = e.escrow BY DEF Volume, HeldInQueue
<1>5. Sound(e)
  <2>1. b.queue \in Seq(EntrySet) BY DEF CallInv, Stored, BookShape
  <2>2. 1 \in DOMAIN b.queue /\ b.queue[1] = e BY <2>1
  <2> QED BY <2>2 DEF Orderly
<1>6. "FOK" \in e.flags => e.contOrderId = 0 /\ from = 0 BY <1>5 DEF Sound
<1>7. "FOK" \in e.flags => FokFullyFillable(ready, e)
  <2>1. ready.orders = b.orders BY <1>1 DEF SameLedger
  <2>2. Stored(b) BY DEF CallInv
  <2> HIDE DEF ready
  <2>3. FokFullyFillable(ready, e) <=> FokFullyFillable(b, e) BY <1>1, <2>1, <2>2, FokSame
  <2> QED BY <1>6, <2>3 DEF Ripe
<1>8. Ledger(ready, q, e.client, held, e.deal, dls, tbs)
  <2>1. Ledger(b, q, e.client, held, e.deal, dls, tbs) BY HeadInHand
  <2>2. b.requests \in Seq(RequestSet) BY DEF CallInv, Stored, BookShape
  <2> HIDE DEF q, held, ready
  <2> QED BY <1>1, <2>1, <2>2, LedgerSame
<1>9. e.amount \in Int /\ e.amount # 0 BY <1>1, <1>5 DEF Sound, EntrySet
<1> HIDE DEF q, ready, vol, held, from, m
<1>10. WalkOK(m, e, q, dls, tbs) /\ Later(ready, m.book) BY <1>1, <1>3, <1>8, MatchKeeps
<1> DEFINE n == Cardinality(Walk(ready, e, from))
<1>11. PICK w : /\ n \in Nat /\ Begins(w[0], ready, e, vol, held, from)
                /\ Steps(w, n, ready, e) /\ w[n] = m
  BY <1>1, <1>3, MatchSteps
<1>12. Terms(m, e, ready, vol) /\ Idle(m)
  <2> HIDE DEF n
  <2> QED BY <1>1, <1>2, <1>11, MatchTerms DEF n
<1>13. ASSUME "FOK" \in e.flags PROVE Done(m, e)
  <2>1. vol = e.amount /\ held = e.escrow /\ from = 0 BY <1>4, <1>6, <1>13 DEF vol, held, from
  <2>2. /\ Fresh(ready, e, e.amount, held, from) /\ Begins(w[0], ready, e, e.amount, held, from)
    BY <1>2, <1>11, <2>1
  <2>3. FokFullyFillable(ready, e) BY <1>7, <1>13
  <2> HIDE DEF n
  <2>4. Done(w[n], e) BY <1>1, <1>9, <1>11, <2>1, <2>2, <2>3, FokFills DEF n
  <2> QED BY <1>11, <2>4
<1>14. Suits(e, vol) BY <1>2 DEF Fresh
<1> QED BY <1>5, <1>10, <1>12, <1>13, <1>14 DEF Walks, WalkOK, ready, vol, m

-----------------------------------------------------------------------------
(***************************************************************************)
(* What the walk leaves: a taker that waits on, or one that rests.         *)
(***************************************************************************)
LEMMA ContinuedOrderly ==
  ASSUME NEW b, NEW e \in EntrySet, NEW m, NEW id \in Nat \ {0}, NEW y, NEW b2, Walks(b, e, m),
         m.resume # 0, y = Continued(e, id, m), b2.orders = m.book.orders
  PROVE  Sound(y) /\ Behind(b2, y, now)
<1>1. /\ WalkShape(m, e) /\ Terms(m, e, Ready(b, e), Volume(e)) /\ Suits(e, Volume(e)) /\ Sound(e)
      /\ m.remaining # 0 /\ ("FOK" \in e.flags => Done(m, e))
  BY DEF Walks
<1>2. /\ m.remaining \in Int /\ m.leftover \in Int /\ m.resume \in Nat /\ m.stopped
      /\ m.resume \in m.todo /\ m.todo \in SUBSET Crossing(m.book, e)
  BY <1>1 DEF WalkShape
<1>3. /\ y.flags = e.flags /\ y.isBuy = e.isBuy /\ y.amount = e.amount /\ y.price = e.price
      /\ y.contOrderId = id /\ y.contRemaining = m.remaining /\ y.contLeftover = m.leftover
      /\ y.contScanOrder = m.resume
  BY DEF Continued, EntrySet
<1>4. Volume(y) = m.remaining /\ HeldInQueue(y) = m.leftover BY <1>3 DEF Volume, HeldInQueue
<1>5. /\ Funds(m, e, Volume(e)) /\ Shy(m, e, Volume(e), now) /\ Leftover(m, e) BY <1>1 DEF Terms
<1>6. "FOK" \notin e.flags BY <1>1, <1>2 DEF Done
<1>7. m.remaining >= 1 BY <1>1, <1>2, <1>5 DEF Funds
<1>8. ~e.isBuy \/ "AON" \in e.flags \/ "POST_ONLY" \in e.flags => m.remaining = e.amount
  <2>1. ~e.isBuy \/ "AON" \in e.flags \/ "POST_ONLY" \in e.flags => Volume(e) = e.amount
    BY <1>1 DEF Suits
  <2>2. Whole(e) => m.remaining = Volume(e) BY <1>1, <1>5 DEF Funds
  <2>3. "POST_ONLY" \in e.flags => m.remaining = Volume(e) BY <1>5 DEF Shy
  <2> QED BY <2>1, <2>2, <2>3 DEF Whole
<1>9. e.isBuy /\ "MARKET" \notin e.flags => m.leftover >= m.remaining * Unit(e.price)
  BY <1>1, <1>5 DEF Funds
<1>10. Sound(y)
  <2>1. (IsSub(y.flags) => "AON" \in y.flags) /\ y.amount >= 2 BY <1>1, <1>3 DEF Sound
  <2>2. "POST_ONLY" \in y.flags => y.flags \cap TAKER_FLAGS = {} BY <1>1, <1>3 DEF Sound
  <2>3. y.isBuy /\ "MARKET" \notin y.flags => HeldInQueue(y) >= Volume(y) * Unit(y.price)
    BY <1>3, <1>4, <1>9
  <2>4. ~y.isBuy \/ "AON" \in y.flags \/ "POST_ONLY" \in y.flags => Volume(y) = y.amount
    BY <1>3, <1>4, <1>8
  <2>5. Volume(y) >= 1 BY <1>4, <1>7
  <2> QED BY <1>3, <1>6, <2>1, <2>2, <2>3, <2>4, <2>5 DEF Sound
<1>11. Crossing(b2, y) = Crossing(m.book, e) BY <1>3 DEF Crossing, Crosses
<1>12. ASSUME NEW i \in Crossing(b2, y) \ Walk(b2, y, y.contScanOrder)
       PROVE  Passed(y, b2.orders[i], y.contRemaining, y.contLeftover)
  <2>1. i \in Crossing(m.book, e) BY <1>11
  <2>2. ~(i = m.resume \/ Before(m.book, m.resume, i))
    BY <1>3, <1>11, <1>12 DEF Walk, Before
  <2>3. i \notin m.todo BY <1>5, <2>2 DEF Leftover
  <2>4. Passed(e, m.book.orders[i], m.remaining, m.leftover) BY <1>1, <1>5, <2>1, <2>3 DEF Leftover
  <2> DEFINE o == m.book.orders[i]
  <2>5. TradeSize(y, o, m.remaining, m.leftover) = TradeSize(e, o, m.remaining, m.leftover)
    BY <1>3 DEF TradeSize, Clearing
  <2>6. DealCompatible(y, o) <=> DealCompatible(e, o) BY <1>3 DEF DealCompatible
  <2> HIDE DEF o
  <2>7. Passed(y, o, m.remaining, m.leftover) BY <1>3, <2>4, <2>5, <2>6 DEF Passed, AonForbids, o
  <2> QED BY <1>3, <2>7 DEF o
<1>13. ASSUME "POST_ONLY" \in y.flags, NEW i \in Crossing(b2, y) PROVE Unfit(y, b2.orders[i], now)
  <2>1. i \in Crossing(m.book, e) BY <1>11, <1>13
  <2> DEFINE o == m.book.orders[i]
  <2>2. Unfit(e, o, now) BY <1>3, <1>5, <1>13, <2>1 DEF Shy
  <2>3. DealCompatible(y, o) <=> DealCompatible(e, o) BY <1>3 DEF DealCompatible
  <2> HIDE DEF o
  <2>4. Unfit(y, o, now) BY <1>3, <2>2, <2>3 DEF Unfit
  <2> QED BY <2>4 DEF o
<1> QED BY <1>10, <1>12, <1>13 DEF Behind

\* A taker that rests does so only when nobody at rest could trade with it.
LEMMA NewApart ==
  ASSUME NEW b, NEW e, NEW m, Walks(b, e, m), m.resume = 0, Stays(e, m.remaining),
         NEW o, o = NewOrder(e, m.remaining, m.leftover)
  PROVE  /\ Solid(o)
         /\ \A i \in DOMAIN m.book.orders : LET x == m.book.orders[i] IN
              /\ e.isBuy /\ ~x.isBuy => Apart(o, x)
              /\ ~e.isBuy /\ x.isBuy => Apart(x, o)
<1> DEFINE r == m.remaining
           l == m.leftover
<1>1. /\ WalkShape(m, e) /\ Terms(m, e, Ready(b, e), Volume(e)) /\ Suits(e, Volume(e)) /\ Sound(e)
      /\ Idle(m)
  BY DEF Walks
<1>2. /\ r \in Int /\ l \in Int /\ m.stopped \in BOOLEAN /\ Stored(m.book) /\ Taking(m.book, e)
  BY <1>1 DEF WalkShape
<1>3. /\ Funds(m, e, Volume(e)) /\ Leftover(m, e) /\ Tidy(m.book) BY <1>1 DEF Terms
<1>4. "MARKET" \notin e.flags BY DEF Stays, TAKER_FLAGS
<1>5. /\ e.isBuy \in BOOLEAN /\ e.price \in Nat \ {0} BY <1>2, <1>4 DEF Taking, EntrySet
<1>6. r # 0 /\ r >= 1 BY <1>2, <1>3, <1>5 DEF Stays, Funds
<1>7. ~e.isBuy => r = e.amount
  <2>1. ~e.isBuy => Volume(e) = e.amount BY <1>1 DEF Suits
  <2>2. Whole(e) => r = Volume(e) BY <1>3, <1>6 DEF Funds
  <2> QED BY <2>1, <2>2 DEF Whole
<1>8. e.isBuy => r >= 2 /\ l >= r * Unit(e.price) BY <1>3, <1>4, <1>6 DEF Stays, Funds
<1>9. /\ o.isBuy = e.isBuy /\ o.amount = r /\ o.escrow = l /\ o.price = e.price /\ o.flags = e.flags
  BY DEF NewOrder
<1>10. Solid(o)
  <2>1. e.isBuy => l >= r * Unit(o.price) BY <1>8, <1>9
  <2>2. ~e.isBuy => r >= 2 BY <1>1, <1>7 DEF Sound
  <2> QED BY <1>1, <1>6, <1>9, <2>1, <2>2 DEF Solid, Suits
<1>11. ~m.stopped BY <1>2, <1>3, <1>4, <1>6, <1>8 DEF Funds
<1>12. m.todo = {} BY <1>1, <1>6, <1>11 DEF Idle
<1>13. \A i \in Crossing(m.book, e) : Passed(e, m.book.orders[i], r, l)
  BY <1>3, <1>6, <1>11, <1>12 DEF Leftover
<1>14. ASSUME NEW i \in DOMAIN m.book.orders, m.book.orders[i].isBuy # e.isBuy
       PROVE  LET x == m.book.orders[i] IN (e.isBuy => Apart(o, x)) /\ (~e.isBuy => Apart(x, o))
  <2> DEFINE x == m.book.orders[i]
             u == Unit(Clearing(e, x))
             t == TradeSize(e, x, r, l)
  <2>1. x \in OrderSet /\ Solid(x) BY <1>2, <1>3, OrderOf DEF Stored, Tidy
  <2>2. x.amount \in Int /\ x.escrow \in Int /\ x.price \in Nat \ {0} /\ x.isBuy \in BOOLEAN
    BY <2>1 DEF OrderSet
  <2>3. Clearing(e, x) = IF e.isBuy THEN x.price ELSE e.price BY DEF Clearing
  <2>4. Unit(e.price) \in Nat \ {0} /\ Unit(x.price) \in Nat \ {0} BY <1>5, <2>2, UnitType
  <2>5. u \in Nat \ {0} BY <2>3, <2>4
  <2>6. x.isBuy = ~e.isBuy BY <1>5, <1>14, <2>2
  <2>7. Crosses(e, x.price) => Passed(e, x, r, l) BY <1>13, <1>14 DEF Crossing
  <2> HIDE DEF x, u, t
  <2>8. ASSUME Crosses(e, x.price) PROVE t = Lesser(r, x.amount)
    <3>1. CASE e.isBuy
      <4>1. x.price <= e.price BY <1>4, <2>2, <2>8, <3>1, <1>5 DEF Crosses
      <4>2. Unit(x.price) <= Unit(e.price) BY <1>5, <2>2, <4>1, UnitMono
      <4> DEFINE v == Unit(e.price)
                 z == Unit(x.price)
      <4>3. v \in Nat /\ z \in Nat /\ z <= v BY <2>4, <4>2
      <4>4. l >= r * v BY <1>8, <3>1
      <4>5. u = z BY <2>3, <3>1 DEF u
      <4>5a. r \in Nat BY <1>2, <1>6
      <4> HIDE DEF v, z, r, l
      <4>6. r * z <= r * v BY <4>3, <4>5a, MulMono
      <4>7. l >= r * u BY <1>2, <4>3, <4>4, <4>5, <4>5a, <4>6
      <4>8. Budget(e, x, l) = l BY <3>1 DEF Budget
      <4>9. Budget(e, x, l) >= r * u BY <4>7, <4>8
      <4> QED BY <1>2, <1>5, <2>2, <2>5, <4>9, FundedSize DEF u, t
    <3>2. CASE ~e.isBuy
      <4>1. e.price <= x.price BY <1>4, <2>2, <2>8, <3>2, <1>5 DEF Crosses
      <4>2. Unit(e.price) <= Unit(x.price) BY <1>5, <2>2, <4>1, UnitMono
      <4> DEFINE v == Unit(e.price)
                 z == Unit(x.price)
                 a == x.amount
      <4>3. v \in Nat /\ z \in Nat /\ v <= z BY <2>4, <4>2
      <4>4a. x.isBuy BY <2>6, <3>2
      <4>4b. x.amount >= 1 /\ x.escrow >= x.amount * Unit(x.price) BY <2>1, <4>4a DEF Solid
      <4>4c. x.escrow >= a * z BY <4>4b
      <4>4d. a \in Nat BY <2>2, <4>4b
      <4>5. u = v BY <2>3, <3>2 DEF u
      <4> HIDE DEF v, z, r, l, a
      <4>6. a * v <= a * z BY <4>3, <4>4d, MulMono
      <4>7. x.escrow >= a * u BY <2>2, <4>3, <4>4c, <4>4d, <4>5, <4>6
      <4>8. Budget(e, x, l) = x.escrow BY <3>2 DEF Budget
      <4>9. Budget(e, x, l) >= x.amount * u BY <4>7, <4>8 DEF a
      <4> QED BY <1>2, <1>5, <2>2, <2>5, <4>9, FundedSize DEF u, t
    <3> QED BY <1>5, <3>1, <3>2
  <2>9. ASSUME Crosses(e, x.price), DealCompatible(e, x)
        PROVE  \/ "AON" \in e.flags /\ Lesser(r, x.amount) < r
               \/ "AON" \in x.flags /\ Lesser(r, x.amount) < x.amount
    <3>1. Passed(e, x, r, l) /\ t = Lesser(r, x.amount) BY <2>7, <2>8, <2>9
    <3>2. AonForbids(e, x, r, t) BY <2>9, <3>1 DEF Passed, t
    <3> QED BY <3>1, <3>2 DEF AonForbids
  <2>10. ASSUME e.isBuy PROVE Apart(o, x)
    <3>1. o.price >= x.price => Crosses(e, x.price) BY <1>9, <2>10 DEF Crosses
    <3>2. ("TEE" \in o.flags => "TEE" \in x.flags) /\ (IsSub(o.flags) <=> IsSub(x.flags))
            => DealCompatible(e, x)
      BY <1>9, <2>10 DEF DealCompatible
    <3> QED BY <1>9, <2>9, <3>1, <3>2 DEF Apart
  <2>11. ASSUME ~e.isBuy PROVE Apart(x, o)
    <3>1. x.price >= o.price => Crosses(e, x.price) BY <1>9, <2>11 DEF Crosses
    <3>2. ("TEE" \in x.flags => "TEE" \in o.flags) /\ (IsSub(x.flags) <=> IsSub(o.flags))
            => DealCompatible(e, x)
      BY <1>9, <2>11 DEF DealCompatible
    <3>3. Lesser(x.amount, o.amount) = Lesser(r, x.amount) BY <1>2, <1>9, <2>2 DEF Lesser
    <3> QED BY <1>9, <2>9, <3>1, <3>2, <3>3 DEF Apart
  <2> QED BY <2>10, <2>11 DEF x
<1>15. ASSUME NEW i \in DOMAIN m.book.orders PROVE m.book.orders[i].isBuy \in BOOLEAN
  BY <1>2, OrderOf DEF Stored, OrderSet
<1> QED BY <1>5, <1>10, <1>14, <1>15

LEMMA NoTrades ==
  ASSUME NEW b, NEW b2, b2.trades = <<>>
  PROVE  CallTerms(b, b2)
<1>1. DOMAIN b2.trades = {} OBVIOUS
<1> QED BY <1>1 DEF CallTerms

\* A queue whose head has gone.
LEMMA OrderlyTail ==
  ASSUME NEW b, NEW b2, NEW dls, NEW tbs, CallInv(b, dls, tbs), b.queue # <<>>, Orderly(b, now),
         Tidy(b2), b2.queue = Tail(b.queue)
  PROVE  Orderly(b2, now)
<1>1. b.queue \in Seq(EntrySet) /\ QueueOK(b) BY DEF CallInv, Stored, BookShape
<1>2. ASSUME NEW k \in DOMAIN b2.queue, b2.queue[k].type = "place"
      PROVE  Sound(b2.queue[k]) /\ Behind(b2, b2.queue[k], now)
  <2> DEFINE y == b2.queue[k]
  <2>1. k + 1 \in DOMAIN b.queue /\ y = b.queue[k + 1] /\ k + 1 # 1 BY <1>1, <1>2
  <2>2. y.contOrderId = 0 BY <1>1, <2>1 DEF QueueOK
  <2>3. Sound(y) BY <1>2, <2>1 DEF Orderly
  <2> HIDE DEF y
  <2> QED BY <2>2, <2>3 DEF Behind, y
<1> QED BY <1>2 DEF Orderly

\* The trades of a walk are the trades of its call.
LEMMA WalkTerms ==
  ASSUME NEW b, NEW e, NEW m, NEW id, NEW b2, Walks(b, e, m), Ready(b, e).orders = b.orders,
         id \notin DOMAIN b.orders, b2.trades = m.book.trades,
         DOMAIN b2.orders \in SUBSET (DOMAIN m.book.orders \cup {id})
  PROVE  CallTerms(b, b2)
<1> SUFFICES ASSUME NEW k \in DOMAIN m.book.trades
             PROVE  LET tr == m.book.trades[k] IN
                      /\ TradeFit(tr, now) /\ InTurn(tr, tr.taker, b, b2) /\ Priced(tr.taker)
                      /\ "FOK" \in tr.taker.flags => Total(m.book.trades) = tr.taker.amount
  BY DEF CallTerms
<1> DEFINE tr == m.book.trades[k]
           ready == Ready(b, e)
<1>1. TradeFit(tr, now) /\ InTurn(tr, e, ready, m.book) BY DEF Walks, Terms, Trades
<1>2. "FOK" \in e.flags => Total(m.book.trades) = e.amount BY DEF Walks, Done
<1>3. ready.orders = b.orders OBVIOUS
<1> HIDE DEF tr, ready
<1>4. Crossing(ready, e) = Crossing(b, e) BY <1>3 DEF Crossing
<1>5. Crossing(b, e) \in SUBSET DOMAIN b.orders BY DEF Crossing
<1>6. tr.taker = e BY <1>1 DEF InTurn
<1>7. InTurn(tr, e, b, b2)
  <2>1. tr.maker \in Crossing(b, e) /\ tr.before = b.orders[tr.maker] BY <1>1, <1>3, <1>4 DEF InTurn
  <2>2. ASSUME NEW i \in Crossing(b, e), i \in DOMAIN b2.orders, Before(b, i, tr.maker)
        PROVE  Passed(e, b.orders[i], tr.remaining, tr.budget)
    <3>1. i \in DOMAIN m.book.orders BY <1>5, <2>2
    <3>2. Before(ready, i, tr.maker) BY <1>3, <2>2 DEF Before
    <3> QED BY <1>1, <1>3, <1>4, <2>2, <3>1, <3>2 DEF InTurn
  <2> QED BY <1>6, <2>1, <2>2 DEF InTurn
<1>8. InTurn(tr, tr.taker, b, b2) BY <1>6, <1>7
<1>9. Priced(e) BY DEF Walks, WalkShape, Taking, EntrySet, Priced
<1> QED BY <1>1, <1>2, <1>6, <1>8, <1>9 DEF tr

LEMMA MatchOrderly ==
  ASSUME NEW b, NEW dls, NEW tbs, CallInv(b, dls, tbs), b.queue # <<>>,
         NEW e, e = Head(b.queue), e.type = "place", Orderly(b, now), b.trades = <<>>, Ripe(b, e)
  PROVE  Orderly(DoMatch(b, e), now) /\ CallTerms(b, DoMatch(b, e))
<1> DEFINE m == Matching(b, e)
           b2 == DoMatch(b, e)
           id == Number(b, e)
<1>1. Walks(b, e, m) BY HeadWalks
<1>2. /\ e \in EntrySet /\ SameLedger(b, Ready(b, e)) /\ Ready(b, e).queue = b.queue
      /\ id \in Nat \ {0} /\ id \notin DOMAIN b.orders
  BY ReadyIs
<1>3. Ready(b, e).orders = b.orders BY <1>2 DEF SameLedger
<1>4. b.queue \in Seq(EntrySet) /\ QueueOK(b) BY DEF CallInv, Stored, BookShape
<1>5. /\ DOMAIN m.book = BookFields /\ m.book.queue = b.queue
      /\ DOMAIN m.book.orders \in SUBSET DOMAIN b.orders
  BY <1>1, <1>2, <1>3 DEF Walks, Later, Frame
<1>6. /\ m.resume # 0 => Capped(b, m, b2, e, id)
      /\ m.resume = 0 => b2 = AdvanceHead(FinalizeTaker(m.book, e, id, m.remaining, m.leftover))
  <2> HIDE DEF m
  <2> QED BY <1>4, <1>5, DoMatchDoes DEF m
<1>7. Tidy(m.book) /\ WalkShape(m, e) BY <1>1 DEF Walks, Terms
<1> SUFFICES Orderly(b2, now) /\ CallTerms(b, b2) OBVIOUS
<1> HIDE DEF m, b2, id
<1>8. CASE m.resume # 0
  <2> DEFINE y == Continued(e, id, m)
  <2>1. b2.queue = [b.queue EXCEPT ![1] = y] /\ b2.orders = m.book.orders /\ b2.trades = m.book.trades
    BY <1>6, <1>8 DEF Capped, SameLedger
  <2>2. Tidy(b2) BY <1>7, <2>1 DEF Tidy
  <2>3. Sound(y) /\ Behind(b2, y, now) BY <1>1, <1>2, <1>8, <2>1, ContinuedOrderly
  <2> HIDE DEF y
  <2>4. ASSUME NEW k \in DOMAIN b2.queue, b2.queue[k].type = "place"
        PROVE  Sound(b2.queue[k]) /\ Behind(b2, b2.queue[k], now)
    <3>1. CASE k = 1
      <4>1. b2.queue[k] = y BY <1>4, <2>1, <2>4, <3>1
      <4> QED BY <2>3, <4>1
    <3>2. CASE k # 1
      <4> DEFINE z == b2.queue[k]
      <4>1. k \in DOMAIN b.queue /\ z = b.queue[k] BY <1>4, <2>1, <2>4, <3>2
      <4>2. z.contOrderId = 0 BY <1>4, <3>2, <4>1 DEF QueueOK
      <4>3. Sound(z) BY <2>4, <4>1 DEF Orderly
      <4> HIDE DEF z
      <4> QED BY <4>2, <4>3 DEF Behind, z
    <3> QED BY <3>1, <3>2
  <2>5. Orderly(b2, now) BY <2>2, <2>4 DEF Orderly
  <2>6. CallTerms(b, b2) BY <1>1, <1>2, <1>3, <2>1, WalkTerms
  <2> QED BY <2>5, <2>6
<1>9. CASE m.resume = 0
  <2> DEFINE b1 == FinalizeTaker(m.book, e, id, m.remaining, m.leftover)
             o == NewOrder(e, m.remaining, m.leftover)
  <2>0. Stored(m.book) /\ Taking(m.book, e) /\ m.remaining \in Int /\ m.leftover \in Int
        /\ e.isBuy \in BOOLEAN
    BY <1>7 DEF WalkShape, Taking, EntrySet
  <2>1. /\ Frame(m.book, b1) /\ NoFill(m.book, b1)
        /\ \/ b1.orders = m.book.orders
           \/ Stays(e, m.remaining) /\ Adds(m.book, b1, id, o)
    BY <2>0, FinalizeIs
  <2>2. b2 = AdvanceHead(b1) BY <1>6, <1>9
  <2> HIDE DEF b1
  <2>3. b2.queue = Tail(b.queue) /\ b2.orders = b1.orders /\ b2.trades = m.book.trades
    BY <1>5, <2>1, <2>2 DEF AdvanceHead, Frame, NoFill, BookFields
  <2>4. Tidy(b1)
    <3>1. CASE b1.orders = m.book.orders BY <1>7, <3>1 DEF Tidy
    <3>2. CASE Stays(e, m.remaining) /\ Adds(m.book, b1, id, o)
      <4>1. o.isBuy = e.isBuy BY DEF NewOrder
      <4>2. /\ Solid(o)
            /\ \A i \in DOMAIN m.book.orders : LET x == m.book.orders[i] IN
                 /\ e.isBuy /\ ~x.isBuy => Apart(o, x)
                 /\ ~e.isBuy /\ x.isBuy => Apart(x, o)
        BY <1>1, <1>9, <3>2, NewApart
      <4> HIDE DEF o
      <4>3. /\ DOMAIN b1.orders = DOMAIN m.book.orders \cup {id} /\ b1.orders[id] = o
            /\ id \notin DOMAIN m.book.orders
            /\ \A i \in DOMAIN m.book.orders : b1.orders[i] = m.book.orders[i]
        BY <1>2, <1>5, <3>2 DEF Adds
      <4>4. ASSUME NEW i \in DOMAIN b1.orders PROVE Solid(b1.orders[i])
        BY <1>7, <4>2, <4>3, <4>4 DEF Tidy
      <4>5. ASSUME NEW i \in DOMAIN b1.orders, NEW j \in DOMAIN b1.orders,
                   b1.orders[i].isBuy, ~b1.orders[j].isBuy
            PROVE  Apart(b1.orders[i], b1.orders[j])
        <5>1. CASE i = id
          <6>1. j # id BY <4>5, <5>1
          <6>2. j \in DOMAIN m.book.orders /\ b1.orders[j] = m.book.orders[j] BY <4>3, <6>1
          <6> QED BY <4>1, <4>2, <4>3, <4>5, <5>1, <6>2
        <5>2. CASE i # id
          <6>1. i \in DOMAIN m.book.orders /\ b1.orders[i] = m.book.orders[i] BY <4>3, <5>2
          <6>2. CASE j = id BY <4>1, <4>2, <4>3, <4>5, <6>1, <6>2
          <6>3. CASE j # id
            <7>1. j \in DOMAIN m.book.orders /\ b1.orders[j] = m.book.orders[j] BY <4>3, <6>3
            <7> QED BY <1>7, <4>5, <6>1, <7>1 DEF Tidy
          <6> QED BY <6>2, <6>3
        <5> QED BY <5>1, <5>2
      <4> QED BY <4>4, <4>5 DEF Tidy
    <3> QED BY <2>1, <3>1, <3>2
  <2>5. Tidy(b2) BY <2>3, <2>4 DEF Tidy
  <2>6. Orderly(b2, now) BY <2>3, <2>5, OrderlyTail
  <2>7. DOMAIN b2.orders \in SUBSET (DOMAIN m.book.orders \cup {id}) BY <2>1, <2>3 DEF Adds
  <2>8. CallTerms(b, b2) BY <1>1, <1>2, <1>3, <2>3, <2>7, WalkTerms
  <2> QED BY <2>6, <2>8
<1> QED BY <1>8, <1>9

-----------------------------------------------------------------------------
(***************************************************************************)
(* Every call keeps the books orderly, and so does every other step.       *)
(***************************************************************************)
LEMMA TidyThinned ==
  ASSUME NEW b, NEW b2, Tidy(b), Thinned(b, b2)
  PROVE  Tidy(b2)
BY DEF Tidy, Thinned

\* A queue that is left alone while the head is no order in the making.
LEMMA OrderlyBook ==
  ASSUME NEW b, NEW b2, NEW dls, NEW tbs, CallInv(b, dls, tbs), b.queue # <<>>,
         Head(b.queue).type # "place", Orderly(b, now), Tidy(b2), b2.queue = b.queue
  PROVE  Orderly(b2, now)
<1>1. b.queue \in Seq(EntrySet) /\ QueueOK(b) BY DEF CallInv, Stored, BookShape
<1>2. ASSUME NEW k \in DOMAIN b2.queue, b2.queue[k].type = "place"
      PROVE  Sound(b2.queue[k]) /\ Behind(b2, b2.queue[k], now)
  <2> DEFINE y == b2.queue[k]
  <2>1. k \in DOMAIN b.queue /\ y = b.queue[k] BY <1>2
  <2>2. k # 1 BY <1>1, <1>2, <2>1
  <2>3. y.contOrderId = 0 BY <1>1, <2>1, <2>2 DEF QueueOK
  <2>4. Sound(y) BY <1>2, <2>1 DEF Orderly
  <2> HIDE DEF y
  <2> QED BY <2>3, <2>4 DEF Behind, y
<1> QED BY <1>2 DEF Orderly

\* The head goes, and orders may leave with it.
LEMMA AdvanceOrderly ==
  ASSUME NEW b, NEW b1, NEW dls, NEW tbs, CallInv(b, dls, tbs), b.queue # <<>>, Orderly(b, now),
         b.trades = <<>>, Frame(b, b1), Thinned(b, b1)
  PROVE  Orderly(AdvanceHead(b1), now) /\ CallTerms(b, AdvanceHead(b1))
<1> DEFINE b2 == AdvanceHead(b1)
<1>1. DOMAIN b1 = BookFields /\ b1.queue = b.queue BY DEF Frame
<1>2. b2.queue = Tail(b.queue) /\ b2.orders = b1.orders /\ b2.trades = b1.trades
  BY <1>1 DEF AdvanceHead, BookFields
<1>3. b2.trades = <<>> BY <1>2 DEF Thinned
<1>4. Tidy(b1) BY TidyThinned DEF Orderly
<1> HIDE DEF b2
<1>5. Tidy(b2) BY <1>2, <1>4 DEF Tidy
<1>6. Orderly(b2, now) BY <1>2, <1>5, OrderlyTail
<1>7. CallTerms(b, b2) BY <1>3, NoTrades
<1> QED BY <1>6, <1>7 DEF b2

LEMMA RemovalOrderly ==
  ASSUME NEW b, NEW b1, NEW dls, NEW tbs, CallInv(b, dls, tbs), b.queue # <<>>, Orderly(b, now),
         b.trades = <<>>, b1 = b \/ \E i \in DOMAIN b.orders : Leaves(b, b1, i)
  PROVE  Orderly(AdvanceHead(b1), now) /\ CallTerms(b, AdvanceHead(b1))
<1>1. Stored(b) /\ DOMAIN b = BookFields BY DEF CallInv, Stored, BookShape
<1>2. Frame(b, b1) /\ Thinned(b, b1)
  <2>1. CASE b1 = b BY <1>1, <2>1 DEF Frame, Thinned
  <2>2. CASE \E i \in DOMAIN b.orders : Leaves(b, b1, i)
    <3>1. PICK i \in DOMAIN b.orders : Leaves(b, b1, i) BY <2>2
    <3>2. Frame(b, b1) /\ NoFill(b, b1) /\ b1.orders = Without(b.orders, i) BY <1>1, <3>1, LeavesTouches
    <3> QED BY <3>2 DEF Thinned, NoFill, Without
  <2> QED BY <2>1, <2>2
<1> QED BY <1>2, AdvanceOrderly

LEMMA CancelAllOrderly ==
  ASSUME NEW b, NEW dls, NEW tbs, CallInv(b, dls, tbs), b.queue # <<>>, Orderly(b, now),
         b.trades = <<>>, Head(b.queue).type # "place", NEW note
  PROVE  Orderly(DoCancelAll(b, note), now) /\ CallTerms(b, DoCancelAll(b, note))
<1> DEFINE card == Cardinality(OwnOrders(b, note))
           n == Lesser(card, MAX_CANCEL_PER_CALL)
           done == CancelledFrom(b, note, n)[n]
           q == b.queue
<1>1. Stored(b) /\ Ledger(b, q, 0, 0, NoDeal, dls, tbs) BY DEF CallInv
<1>2. card \in Nat
  <2>1. IsFiniteSet(DOMAIN b.orders) BY <1>1, BookFinite DEF Stored
  <2>2. OwnOrders(b, note) \subseteq DOMAIN b.orders BY DEF OwnOrders
  <2> QED BY <2>1, <2>2, FS_Subset, FS_CardinalityType
<1>3. n \in Nat /\ n <= card
  <2> HIDE DEF card
  <2> QED BY <1>2, BookAssumption DEF Lesser
<1>4. DoCancelAll(b, note) = IF n >= MAX_CANCEL_PER_CALL THEN done ELSE AdvanceHead(done)
  BY DEF DoCancelAll
<1> HIDE DEF n
<1>5. Frame(b, done) /\ Thinned(b, done)
  <2> HIDE DEF q
  <2> QED BY <1>1, <1>3, CancelsKeep
<1> HIDE DEF done
<1>6. Orderly(AdvanceHead(done), now) /\ CallTerms(b, AdvanceHead(done)) BY <1>5, AdvanceOrderly
<1>7. Orderly(done, now)
  <2>1. Tidy(done) BY <1>5, TidyThinned DEF Orderly
  <2>2. done.queue = b.queue BY <1>5 DEF Frame
  <2> QED BY <2>1, <2>2, OrderlyBook
<1>8. CallTerms(b, done) BY <1>5, NoTrades DEF Thinned
<1> QED BY <1>4, <1>6, <1>7, <1>8

LEMMA CallOrderly ==
  ASSUME NEW b, NEW dls, NEW tbs, CallInv(b, dls, tbs), Orderly(b, now), b.trades = <<>>
  PROVE  Orderly(ProcessHeadCore(b), now) /\ CallTerms(b, ProcessHeadCore(b))
<1>0. Stored(b) BY DEF CallInv
<1>1. CASE b.queue = <<>>
  <2>1. ProcessHeadCore(b) = b BY <1>1 DEF ProcessHeadCore
  <2>2. CallTerms(b, b) BY NoTrades
  <2> QED BY <2>1, <2>2
<1>2. CASE b.queue # <<>>
  <2> DEFINE e == Head(b.queue)
  <2>1. e \in EntrySet BY <1>2, HeadInHand
  <2>2. e.type \in {"place", "cancel", "cancelAll", "expire"} BY <2>1 DEF EntrySet
  <2>3. CASE e.type = "cancel"
    <3> DEFINE b1 == DoCancel(b, e.note, e.target)
    <3>1. ProcessHeadCore(b) = AdvanceHead(b1) BY <1>2, <2>3 DEF ProcessHeadCore
    <3>2. b1 = b \/ \E i \in DOMAIN b.orders : Leaves(b, b1, i)
      <4> HIDE DEF e
      <4> QED BY <1>0, CancelledDoes DEF DoCancel
    <3> HIDE DEF b1
    <3> QED BY <1>2, <3>1, <3>2, RemovalOrderly
  <2>4. CASE e.type = "cancelAll"
    <3>1. ProcessHeadCore(b) = DoCancelAll(b, e.note) BY <1>2, <2>4 DEF ProcessHeadCore
    <3> QED BY <1>2, <2>4, <3>1, CancelAllOrderly
  <2>5. CASE e.type = "expire"
    <3> DEFINE b1 == DoExpire(b, e.target)
    <3>1. ProcessHeadCore(b) = AdvanceHead(b1) BY <1>2, <2>5 DEF ProcessHeadCore
    <3>2. b1 = b \/ \E i \in DOMAIN b.orders : Leaves(b, b1, i)
      <4> HIDE DEF e
      <4> QED BY <1>0, ExpiredDoes DEF DoExpire
    <3> HIDE DEF b1
    <3> QED BY <1>2, <3>1, <3>2, RemovalOrderly
  <2>6. CASE e.type = "place"
    <3> DEFINE held == HeldInQueue(e)
               b1 == Dismiss(b, e, held)
    <3>1. ProcessHeadCore(b) = DoPlaceHead(b, e) BY <1>2, <2>6 DEF ProcessHeadCore
    <3>2. held \in Int /\ Taking(b, e) BY <1>2, <2>6, ReadyIs
    <3>3. Frame(b, b1) /\ Thinned(b, b1)
      <4> HIDE DEF held
      <4>1. Frame(b, b1) /\ NoFill(b, b1) /\ b1.orders = b.orders BY <1>0, <3>2, DismissIs
      <4> QED BY <4>1 DEF Thinned, NoFill
    <3>4. DoPlaceHead(b, e) = AdvanceHead(b1) \/ (Ripe(b, e) /\ DoPlaceHead(b, e) = DoMatch(b, e))
      BY DEF DoPlaceHead, Ripe, Expired
    <3>5. CASE DoPlaceHead(b, e) = AdvanceHead(b1)
      <4> HIDE DEF b1
      <4>1. Orderly(AdvanceHead(b1), now) /\ CallTerms(b, AdvanceHead(b1)) BY <1>2, <3>3, AdvanceOrderly
      <4> QED BY <3>1, <3>5, <4>1
    <3>6. CASE Ripe(b, e) /\ DoPlaceHead(b, e) = DoMatch(b, e)
      <4>1. Orderly(DoMatch(b, e), now) /\ CallTerms(b, DoMatch(b, e)) BY <1>2, <2>6, <3>6, MatchOrderly
      <4> QED BY <3>1, <3>6, <4>1
    <3> QED BY <3>4, <3>5, <3>6
  <2> QED BY <2>2, <2>3, <2>4, <2>5, <2>6
<1> QED BY <1>1, <1>2

\* The books of two states with the same orders, apart from time.
LEMMA BehindSame ==
  ASSUME NEW b, NEW b2, NEW e, NEW t, b2.orders = b.orders, Behind(b, e, t)
  PROVE  Behind(b2, e, t)
<1>1. Crossing(b2, e) = Crossing(b, e) BY DEF Crossing
<1>2. Walk(b2, e, e.contScanOrder) = Walk(b, e, e.contScanOrder) BY DEF Walk, Crossing, Before
<1> QED BY <1>1, <1>2 DEF Behind

LEMMA OrderlySame ==
  ASSUME NEW b, NEW b2, NEW t, b2.orders = b.orders, b2.queue = b.queue, Orderly(b, t)
  PROVE  Orderly(b2, t)
<1>1. Tidy(b2) BY DEF Orderly, Tidy
<1> QED BY <1>1, BehindSame DEF Orderly

\* A new entry joins the queue.
LEMMA OrderlyJoins ==
  ASSUME NEW b, NEW e, NEW t, DOMAIN b = BookFields, b.queue \in Seq(EntrySet), Orderly(b, t),
         e.contOrderId = 0, e.type = "place" => Sound(e)
  PROVE  /\ Orderly(Enqueue(b, e), t) /\ Enqueue(b, e).trades = <<>>
         /\ Enqueue(b, e).orders = b.orders
<1> DEFINE b2 == Enqueue(b, e)
<1>1. b2.queue = Append(b.queue, e) /\ b2.orders = b.orders /\ b2.trades = <<>>
  BY DEF Enqueue, BookFields
<1> HIDE DEF b2
<1>2. Tidy(b2) BY <1>1 DEF Orderly, Tidy
<1>3. ASSUME NEW k \in DOMAIN b2.queue, b2.queue[k].type = "place"
      PROVE  Sound(b2.queue[k]) /\ Behind(b2, b2.queue[k], t)
  <2> DEFINE y == b2.queue[k]
  <2>1. CASE k \in DOMAIN b.queue
    <3>1. y = b.queue[k] BY <1>1, <2>1
    <3>2. Sound(y) /\ Behind(b, y, t) BY <1>3, <2>1, <3>1 DEF Orderly
    <3> HIDE DEF y
    <3>3. Behind(b2, y, t) BY <1>1, <3>2, BehindSame
    <3> QED BY <3>2, <3>3 DEF y
  <2>2. CASE k \notin DOMAIN b.queue
    <3>1. y = e
      <4>1. b.queue \in Seq(EntrySet) /\ k \in DOMAIN Append(b.queue, e) /\ y = Append(b.queue, e)[k]
        BY <1>1, <1>3
      <4> HIDE DEF y
      <4> QED BY <2>2, <4>1
    <3>2. Sound(e) BY <1>3, <3>1
    <3> HIDE DEF y
    <3> QED BY <3>1, <3>2 DEF Behind, y
  <2> QED BY <2>1, <2>2
<1>4. Orderly(b2, t) BY <1>2, <1>3 DEF Orderly
<1> QED BY <1>1, <1>4 DEF b2

\* An order that has expired stays expired.
LEMMA OrderlyLater ==
  ASSUME NEW b, Stored(b), NEW t \in Nat, NEW t2 \in Nat, t <= t2, Orderly(b, t)
  PROVE  Orderly(b, t2)
<1>1. ASSUME NEW e, NEW i \in Crossing(b, e), Unfit(e, b.orders[i], t) PROVE Unfit(e, b.orders[i], t2)
  <2> DEFINE d == b.orders[i].deadline
  <2>1. i \in DOMAIN b.orders BY DEF Crossing
  <2>2. d \in Int BY <2>1, OrderOf DEF Stored, OrderSet
  <2>3. Expired(d, t) => Expired(d, t2)
    <3> HIDE DEF d
    <3> QED BY <2>2 DEF Expired
  <2> QED BY <1>1, <2>3 DEF Unfit
<1>2. ASSUME NEW e, Behind(b, e, t) PROVE Behind(b, e, t2) BY <1>1, <1>2 DEF Behind
<1> QED BY <1>2 DEF Orderly

LEMMA CallDoes ==
  ASSUME BookInv, NEW b, Calls(b), Orderly(b, now), b.trades = <<>>, b.orders = book.orders
  PROVE  StepOK
<1> DEFINE b2 == ProcessHeadCore(b)
<1>1. Orderly(b2, now) /\ CallTerms(b, b2) BY CallOrderly DEF Calls
<1>2. book' = b2 /\ now' = now BY DEF Calls, BookCall
<1> HIDE DEF b2
<1>3. CallTerms(book, b2)
  <2>1. ASSUME NEW taker PROVE Crossing(b, taker) = Crossing(book, taker) BY DEF Crossing
  <2>2. ASSUME NEW tr, InTurn(tr, tr.taker, b, b2) PROVE InTurn(tr, tr.taker, book, b2)
    <3> DEFINE x == tr.taker
    <3>1. Crossing(b, x) = Crossing(book, x) BY <2>1
    <3> HIDE DEF x
    <3>2. InTurn(tr, x, b, b2) BY <2>2 DEF x
    <3>3. InTurn(tr, x, book, b2) BY <3>1, <3>2 DEF InTurn, Before
    <3> QED BY <3>3 DEF x
  <2> QED BY <1>1, <2>2 DEF CallTerms
<1> QED BY <1>1, <1>2, <1>3 DEF StepOK

LEMMA QuietDoes ==
  ASSUME BookInv, Orderly(book, now), book'.orders = book.orders, book'.queue = book.queue,
         book'.trades = <<>>, now' = now
  PROVE  StepOK
<1> DEFINE b2 == book'
<1>1. b2.orders = book.orders /\ b2.queue = book.queue /\ b2.trades = <<>> OBVIOUS
<1> HIDE DEF b2
<1>2. Orderly(b2, now) BY <1>1, OrderlySame
<1> QED BY <1>1, <1>2 DEF StepOK, b2

LEMMA TimeDoes ==
  ASSUME BookInv, Orderly(book, now), AdvanceTime
  PROVE  StepOK
<1> DEFINE b2 == book'
           t2 == now'
<1>1. b2.orders = book.orders /\ b2.queue = book.queue /\ b2.trades = <<>>
  BY InvFacts DEF AdvanceTime, BookIdle, BookFields
<1>2. t2 = now + 1 /\ now \in Nat /\ Stored(book) BY InvFacts DEF AdvanceTime
<1> HIDE DEF b2, t2
<1>3. t2 \in Nat /\ now <= t2 BY <1>2
<1>4. Orderly(book, t2) BY <1>2, <1>3, OrderlyLater
<1>5. Orderly(b2, t2) BY <1>1, <1>4, OrderlySame
<1> QED BY <1>1, <1>5 DEF StepOK, b2, t2

LEMMA BuyDoes ==
  ASSUME BookInv, Orderly(book, now), NEW n \in Buyers, NEW ticks \in BuyTicks,
         NEW price \in BuyPrices, NEW flags \in BuyFlags, NEW life \in Lifetimes,
         NEW surplus \in Surplus, PlaceBuyOrder(n, ticks, price, flags, life, surplus)
  PROVE  StepOK
<1>1. PICK b, e : /\ Calls(Enqueue(b, e)) /\ Wants(e, ticks, price, flags, surplus)
                  /\ DOMAIN b = BookFields /\ b.orders = book.orders /\ b.queue = book.queue
  BY BuyCalls
<1>2. ticks \in Nat /\ price \in Nat \ {0} /\ surplus \in Nat BY BookAssumption
<1>3. ticks >= 2 /\ ~BadFlags(flags) BY DEF PlaceBuyOrder
<1>4. Volume(e) = ticks /\ HeldInQueue(e) = e.escrow BY <1>1 DEF Wants, Volume, HeldInQueue
<1>5. ASSUME "MARKET" \notin flags PROVE HeldInQueue(e) >= Volume(e) * Unit(e.price)
  <2> DEFINE u == Unit(price)
             x == ticks * u
             bond == IF IsSub(flags) THEN 2 * price ELSE 0
  <2>1. u \in Nat BY <1>2, UnitType
  <2> HIDE DEF u
  <2>2. x \in Nat BY <1>2, <2>1, MulNat
  <2>3. bond \in Nat BY <1>2
  <2>4. Debit(ticks, price, flags) = x + bond BY DEF Debit, u
  <2>5. e.escrow = x + bond + surplus /\ e.price = price BY <1>1, <1>5, <2>4 DEF Wants
  <2>6. Volume(e) * Unit(e.price) = x BY <1>4, <2>5 DEF u
  <2> HIDE DEF x, bond
  <2>7. x + bond + surplus >= x BY <1>2, <2>2, <2>3
  <2> QED BY <1>4, <2>5, <2>6, <2>7
<1>6. Sound(e)
  <2>1. (IsSub(flags) => "AON" \in flags) /\ ("POST_ONLY" \in flags => flags \cap TAKER_FLAGS = {})
    BY <1>3 DEF BadFlags
  <2> QED BY <1>1, <1>2, <1>3, <1>4, <1>5, <2>1 DEF Sound, Wants
<1>7. book.queue \in Seq(EntrySet) BY InvFacts DEF Stored, BookShape
<1>8. Orderly(b, now) BY <1>1, OrderlySame
<1> DEFINE b2 == Enqueue(b, e)
<1>9. Orderly(b2, now) /\ b2.trades = <<>> /\ b2.orders = b.orders
  BY <1>1, <1>6, <1>7, <1>8, OrderlyJoins DEF Wants
<1>10. Calls(b2) BY <1>1
<1> HIDE DEF b2
<1> QED BY <1>1, <1>9, <1>10, CallDoes

LEMMA RemovalDoes ==
  ASSUME BookInv, Orderly(book, now), NEW type \in {"cancel", "cancelAll", "expire"},
         NEW note \in Notes \cup {NoNote}, NEW id \in Nat, NEW e,
         e = Entry(type, note) \/ e = [Entry(type, note) EXCEPT !.target = id],
         BookCall(Enqueue(book, e)), toBook' = toBook
  PROVE  StepOK
<1> DEFINE b2 == Enqueue(book, e)
<1>1. Calls(b2) /\ e.type = type /\ e.contOrderId = 0 BY RemovalCall
<1>2. book.queue \in Seq(EntrySet) /\ DOMAIN book = BookFields BY InvFacts DEF Stored, BookShape
<1>3. Orderly(b2, now) /\ b2.trades = <<>> /\ b2.orders = book.orders BY <1>1, <1>2, OrderlyJoins
<1> HIDE DEF b2
<1> QED BY <1>1, <1>3, CallDoes

LEMMA OfferDoes ==
  ASSUME BookInv, Orderly(book, now), NEW d \in Deals, PlaceSellOffer(d)
  PROVE  StepOK
<1> DEFINE offer == Head(toBook[d])
           bad   == AskTicks[d] < 2 \/ "MARKET" \in offer.flags \/ BadFlags(offer.flags)
           e     == [Entry("place", Seller) EXCEPT !.flags = offer.flags, !.price = AskPrice[d],
                       !.amount = AskTicks[d], !.deal = d, !.deadline = offer.deadline]
<1>1. Arrives(d, "offer") /\ Consume(d) BY DEF PlaceSellOffer
<1>2. CASE bad \/ Len(book.queue) >= QUEUE_PLACE_LIMIT
  <2>1. book' = [OnSellClosed(book, d) EXCEPT !.trades = <<>>] /\ now' = now
    BY <1>2 DEF PlaceSellOffer
  <2>2. book'.orders = book.orders /\ book'.queue = book.queue /\ book'.trades = <<>>
    BY <2>1, InvFacts DEF OnSellClosed, Send, BookFields
  <2> QED BY <2>1, <2>2, QuietDoes
<1>3. CASE ~(bad \/ Len(book.queue) >= QUEUE_PLACE_LIMIT)
  <2>1. BookCall(Enqueue(book, e)) BY <1>3 DEF PlaceSellOffer
  <2>2. AskTicks[d] \in Nat BY BookAssumption
  <2>3. AskTicks[d] >= 2 /\ "MARKET" \notin offer.flags /\ ~BadFlags(offer.flags) BY <1>3, <2>2
  <2> DEFINE b2 == Enqueue(book, e)
  <2>4. Calls(b2) BY <1>1, <2>1, <2>3, OfferQueued
  <2>5. /\ e.type = "place" /\ e.isBuy = FALSE /\ e.flags = offer.flags /\ e.amount = AskTicks[d]
        /\ e.contOrderId = 0 /\ e.contScanOrder = 0
    BY DEF Entry
  <2> HIDE DEF e, offer
  <2>6. Volume(e) = AskTicks[d] BY <2>5 DEF Volume
  <2>7. /\ IsSub(offer.flags) => "AON" \in offer.flags
        /\ "POST_ONLY" \in offer.flags => offer.flags \cap TAKER_FLAGS = {}
    BY <2>3 DEF BadFlags
  <2>8. Sound(e) BY <2>2, <2>3, <2>5, <2>6, <2>7 DEF Sound
  <2>9. book.queue \in Seq(EntrySet) /\ DOMAIN book = BookFields BY InvFacts DEF Stored, BookShape
  <2>10. Orderly(b2, now) /\ b2.trades = <<>> /\ b2.orders = book.orders
    BY <2>5, <2>8, <2>9, OrderlyJoins
  <2> HIDE DEF b2
  <2> QED BY <2>4, <2>10, CallDoes
<1> QED BY <1>2, <1>3

LEMMA HeadDoes ==
  ASSUME BookInv, Orderly(book, now), ProcessHead
  PROVE  StepOK
<1> DEFINE b == [book EXCEPT !.trades = <<>>]
<1>1. Calls(b) /\ b.orders = book.orders /\ b.queue = book.queue /\ b.trades = <<>> BY HeadCalls
<1> HIDE DEF b
<1>2. Orderly(b, now) BY <1>1, OrderlySame
<1> QED BY <1>1, <1>2, CallDoes

\* The steps of the deals, and the book's steps that match nothing.
LEMMA OthersDo ==
  ASSUME BookInv, Orderly(book, now), NEW d \in Deals,
         OfferCall(d) \/ OnHandoverAccepted(d) \/ OnBounce(d) \/ DealStep(d)
  PROVE  StepOK
<1>1. BookIdle => book'.orders = book.orders /\ book'.queue = book.queue /\ book'.trades = <<>>
  BY InvFacts DEF BookIdle, BookFields
<1>2. ASSUME NEW ledger, DealTakes(d, ledger)
      PROVE  book'.orders = book.orders /\ book'.queue = book.queue /\ book'.trades = <<>>
  BY <1>2, InvFacts DEF DealTakes, BookFields
<1>3. CASE OfferCall(d) BY <1>1, <1>3, QuietDoes DEF OfferCall, PostFromNote
<1>4. CASE OnHandoverAccepted(d)
  <2>1. book'.orders = book.orders /\ book'.queue = book.queue /\ book'.trades = <<>> /\ now' = now
    BY <1>4, InvFacts DEF OnHandoverAccepted, BookFields
  <2> QED BY <2>1, QuietDoes
<1>5. CASE OnBounce(d)
  <2>1. book'.orders = book.orders /\ book'.queue = book.queue /\ book'.trades = <<>> /\ now' = now
    BY <1>5, InvFacts DEF OnBounce, BookFields
  <2> QED BY <2>1, QuietDoes
<1>6. CASE FundFromOrderBook(d) BY <1>2, <1>6, QuietDoes DEF FundFromOrderBook
<1>7. CASE BounceHandover(d) BY <1>2, <1>7, QuietDoes DEF BounceHandover
<1>8. CASE TakeSellClosed(d) BY <1>2, <1>8, QuietDoes DEF TakeSellClosed
<1>9. CASE CleanupUnopened(d) BY <1>1, <1>9, QuietDoes DEF CleanupUnopened
<1>10. CASE DealDies(d) BY <1>1, <1>10, QuietDoes DEF DealDies
<1> QED BY <1>3, <1>4, <1>5, <1>6, <1>7, <1>8, <1>9, <1>10 DEF DealStep

LEMMA NextDoes == ASSUME BookInv, Orderly(book, now), Next PROVE StepOK
<1>1. CASE BuyCall BY <1>1, BuyDoes DEF BuyCall
<1>2. CASE ProcessHead BY <1>2, HeadDoes
<1>3. ASSUME NEW n \in Notes, CancelAllOrders(n) PROVE StepOK
  <2> DEFINE e == Entry("cancelAll", n)
  <2>1. BookCall(Enqueue(book, e)) /\ toBook' = toBook BY <1>3 DEF CancelAllOrders
  <2>2. 0 \in Nat OBVIOUS
  <2> QED BY <2>1, <2>2, RemovalDoes
<1>4. ASSUME NEW n \in Notes, NEW id \in 1..book.nextOrderId, CancelOrder(n, id) PROVE StepOK
  <2>1. id \in Nat BY OrderNumbers
  <2> DEFINE e == [Entry("cancel", n) EXCEPT !.target = id]
  <2>2. BookCall(Enqueue(book, e)) /\ toBook' = toBook BY <1>4 DEF CancelOrder
  <2> QED BY <2>1, <2>2, RemovalDoes
<1>5. ASSUME NEW id \in 1..book.nextOrderId, ExpireOrder(id) PROVE StepOK
  <2>1. id \in Nat BY OrderNumbers
  <2> DEFINE e == [Entry("expire", NoNote) EXCEPT !.target = id]
  <2>2. BookCall(Enqueue(book, e)) /\ toBook' = toBook BY <1>5 DEF ExpireOrder
  <2> QED BY <2>1, <2>2, RemovalDoes
<1>6. ASSUME NEW d \in Deals, PlaceSellOffer(d) PROVE StepOK BY <1>6, OfferDoes
<1>7. ASSUME NEW d \in Deals, OfferCall(d) \/ OnHandoverAccepted(d) \/ OnBounce(d) PROVE StepOK
  BY <1>7, OthersDo
<1>8. ASSUME NEW d \in Awake, DealStep(d) PROVE StepOK
  <2>1. d \in Deals BY BookAssumption
  <2> QED BY <1>8, <2>1, OthersDo
<1>9. CASE AdvanceTime BY <1>9, TimeDoes
<1> QED BY <1>1, <1>2, <1>3, <1>4, <1>5, <1>6, <1>7, <1>8, <1>9 DEF Next

-----------------------------------------------------------------------------
(***************************************************************************)
(* The theorems.                                                           *)
(***************************************************************************)
LEMMA TermsInit == ASSUME Init PROVE TermsInv
<1>1. book.orders = <<>> /\ book.queue = <<>> /\ book.trades = <<>> BY DEF Init
<1>2. DOMAIN book.orders = {} /\ DOMAIN book.queue = {} /\ DOMAIN book.trades = {} BY <1>1
<1>3. Orderly(book, now) BY <1>2 DEF Orderly, Tidy
<1>4. FillsOnTerms BY <1>2 DEF FillsOnTerms
<1> QED BY <1>3, <1>4 DEF TermsInv

LEMMA TermsNext == ASSUME BookInv, TermsInv, [Next]_vars PROVE TermsInv'
<1>1. CASE Next
  <2>1. Orderly(book, now) BY DEF TermsInv
  <2>2. StepOK BY <1>1, <2>1, NextDoes
  <2>3. Orderly(book, now)' BY <2>2 DEF StepOK
  <2>4. FillsOnTerms'
    <3>1. CASE book'.trades = <<>>
      <4>1. DOMAIN book'.trades = {} BY <3>1
      <4> QED BY <4>1 DEF FillsOnTerms
    <3>2. CASE now' = now /\ CallTerms(book, book')
      <4> SUFFICES ASSUME NEW k \in DOMAIN book'.trades
                   PROVE  LET t   == book'.trades[k]
                              bid == IF t.taker.isBuy THEN t.taker ELSE t.before
                              ask == IF t.taker.isBuy THEN t.before ELSE t.taker
                          IN  /\ ~IsExpired(bid.deadline) /\ ~IsExpired(ask.deadline)
                              /\ "TEE" \in bid.flags => "TEE" \in ask.flags
                              /\ "AON" \in t.taker.flags => t.ticks = t.taker.amount
                              /\ "AON" \in t.before.flags => t.ticks = t.before.amount
                              /\ "FOK" \in t.taker.flags => Total(book'.trades) = t.taker.amount
                              /\ "POST_ONLY" \notin t.taker.flags
        BY <3>2 DEF FillsOnTerms, IsExpired
      <4> DEFINE t == book'.trades[k]
      <4>1. TradeFit(t, now) /\ ("FOK" \in t.taker.flags => Total(book'.trades) = t.taker.amount)
        BY <3>2 DEF CallTerms
      <4> HIDE DEF t
      <4>2. ~IsExpired(t.taker.deadline) /\ ~IsExpired(t.before.deadline)
        BY <4>1 DEF TradeFit, Expired, IsExpired
      <4>3. DealCompatible(t.taker, t.before) BY <4>1 DEF TradeFit
      <4>4. LET bid == IF t.taker.isBuy THEN t.taker ELSE t.before
                ask == IF t.taker.isBuy THEN t.before ELSE t.taker
            IN  "TEE" \in bid.flags => "TEE" \in ask.flags
        BY <4>3 DEF DealCompatible
      <4> QED BY <4>1, <4>2, <4>4 DEF TradeFit, t
    <3> QED BY <2>2, <3>1, <3>2 DEF StepOK
  <2> QED BY <2>3, <2>4 DEF TermsInv
<1>2. CASE UNCHANGED vars
  <2>1. book' = book /\ now' = now BY <1>2 DEF vars
  <2>2. Orderly(book, now)' BY <2>1 DEF TermsInv
  <2>3. FillsOnTerms' BY <2>1 DEF TermsInv, FillsOnTerms, IsExpired
  <2> QED BY <2>2, <2>3 DEF TermsInv
<1> QED BY <1>1, <1>2

\* The second invariant of the order book holds in every state: the orders at rest can
\* be paid and cannot trade with each other, every order that waits is sound and a
\* capped one has passed over only what it could not trade with, and the fills of the
\* last call are on the terms of both their orders.
THEOREM SpecImpliesTermsInv == Spec => []TermsInv
<1>1. Init => TermsInv BY TermsInit
<1>2. BookInv /\ TermsInv /\ [Next]_vars => TermsInv' BY TermsNext
<1> QED BY <1>1, <1>2, SpecImpliesBookInv, PTL DEF Spec

LEMMA ApartOf == ASSUME Tidy(book) PROVE NoExecutableCross
BY DEF Tidy, Apart, NoExecutableCross

\* Two orders that could trade with each other never rest together, in any state,
\* whatever the work limits of the matching skipped, capped and resumed.
THEOREM SpecImpliesNoExecutableCross == Spec => []NoExecutableCross
<1>1. TermsInv => NoExecutableCross BY ApartOf DEF TermsInv, Orderly
<1> QED BY <1>1, SpecImpliesTermsInv, PTL

\* Every fill, in every state, is on the terms of both its orders: deadlines, TEE,
\* all-or-none, fill-or-kill in one transaction, and post-only.
THEOREM SpecImpliesFillsOnTerms == Spec => []FillsOnTerms
<1>1. TermsInv => FillsOnTerms BY DEF TermsInv
<1> QED BY <1>1, SpecImpliesTermsInv, PTL

LEMMA InTurnOf == ASSUME BookInv, TermsInv, Next PROVE FilledInTurn
<1>1. StepOK BY NextDoes DEF TermsInv
<1>2. CASE book'.trades = <<>>
  <2>1. DOMAIN book'.trades = {} BY <1>2
  <2> QED BY <2>1 DEF FilledInTurn
<1>3. CASE CallTerms(book, book')
  <2> SUFFICES ASSUME NEW k \in DOMAIN book'.trades,
                      NEW i \in (DOMAIN book.orders) \cap (DOMAIN book'.orders)
               PROVE  LET t == book'.trades[k]
                          o == book.orders[i]
                          p == IF o.isBuy THEN t.taker.price ELSE o.price
                          q == Lesser(Lesser(t.remaining, o.amount),
                                      (IF o.isBuy THEN o.escrow ELSE t.budget) \div Unit(p))
                      IN  /\ o = book'.orders[i] /\ i # t.maker
                          /\ o.isBuy = t.before.isBuy /\ Ahead(book, i, t.maker)
                          => \/ ~DealCompatible(t.taker, o)
                             \/ "AON" \in t.taker.flags /\ q < t.remaining
                             \/ "AON" \in o.flags /\ q < o.amount
    BY DEF FilledInTurn
  <2> DEFINE t == book'.trades[k]
             o == book.orders[i]
             x == t.taker
             b2 == book'
             q == Lesser(Lesser(t.remaining, o.amount),
                         (IF o.isBuy THEN o.escrow ELSE t.budget)
                           \div Unit(IF o.isBuy THEN x.price ELSE o.price))
  <2>1. TradeFit(t, now) /\ InTurn(t, x, book, b2) BY <1>3 DEF CallTerms
  <2>2. i \in DOMAIN book.orders /\ i \in DOMAIN b2.orders OBVIOUS
  <2> SUFFICES ASSUME o.isBuy = t.before.isBuy, Ahead(book, i, t.maker)
               PROVE  \/ ~DealCompatible(x, o)
                      \/ "AON" \in x.flags /\ q < t.remaining
                      \/ "AON" \in o.flags /\ q < o.amount
    OBVIOUS
  <2> DEFINE j == t.maker
             y == book.orders[j]
  <2>3. j \in Crossing(book, x) /\ t.before = y BY <2>1 DEF InTurn
  <2>4. Ahead(book, i, j) OBVIOUS
  <2> HIDE DEF t, x, b2, j
  <2>5. j \in DOMAIN book.orders /\ y.isBuy # x.isBuy /\ Crosses(x, y.price) BY <2>3 DEF Crossing
  <2>6. BookShape(book) BY InvFacts DEF Stored
  <2>7. o \in OrderSet /\ y \in OrderSet BY <2>2, <2>5, <2>6, OrderOf
  <2>8. o.price \in Nat /\ y.price \in Nat /\ o.isBuy \in BOOLEAN /\ y.isBuy \in BOOLEAN
    BY <2>7 DEF OrderSet
  <2>9. o.isBuy = y.isBuy /\ o.isBuy # x.isBuy BY <2>3, <2>5
  <2>10. Priced(x) BY <1>3 DEF CallTerms, x, t
  <2>11. x.isBuy = ~o.isBuy BY <2>8, <2>9, <2>10 DEF Priced
  <2> HIDE DEF o, y
  <2>12. IF o.price = y.price THEN i < j ELSE IF o.isBuy THEN o.price > y.price ELSE o.price < y.price
    BY <2>4 DEF Ahead, o, y
  <2>13. Crosses(x, o.price)
    <3>1. CASE "MARKET" \in x.flags BY <3>1 DEF Crosses
    <3>2. CASE "MARKET" \notin x.flags
      <4>1. x.price \in Nat BY <2>10, <3>2 DEF Priced
      <4>2. IF x.isBuy THEN x.price >= y.price ELSE y.price >= x.price BY <2>5, <3>2 DEF Crosses
      <4>3. IF x.isBuy THEN x.price >= o.price ELSE o.price >= x.price
        <5>1. o.isBuy => o.price >= y.price BY <2>8, <2>12
        <5>2. ~o.isBuy => o.price <= y.price BY <2>8, <2>12
        <5>3. CASE x.isBuy
          <6>1. ~o.isBuy BY <2>8, <2>11, <5>3
          <6> QED BY <2>8, <4>1, <4>2, <5>2, <5>3, <6>1
        <5>4. CASE ~x.isBuy
          <6>1. o.isBuy BY <2>8, <2>11, <5>4
          <6> QED BY <2>8, <4>1, <4>2, <5>1, <5>4, <6>1
        <5> QED BY <5>3, <5>4
      <4> QED BY <4>3 DEF Crosses
    <3> QED BY <3>1, <3>2
  <2>14. i \in Crossing(book, x) BY <2>2, <2>9, <2>13 DEF Crossing, o
  <2>15. Before(book, i, j) BY <2>4 DEF Ahead, Before
  <2>16. Passed(x, o, t.remaining, t.budget) BY <2>1, <2>2, <2>14, <2>15 DEF InTurn, o, j
  <2>17. TradeSize(x, o, t.remaining, t.budget) = q BY <2>8, <2>11 DEF TradeSize, Clearing
  <2> HIDE DEF q
  <2> QED BY <2>16, <2>17 DEF Passed, AonForbids
<1> QED BY <1>1, <1>2, <1>3 DEF StepOK

\* Price, then time: no fill of any step passes over a better placed maker that rests
\* before and after the step, unchanged, and could have served the taker.
THEOREM SpecImpliesPriceTimePriority == Spec => PriceTimePriority
<1>1. BookInv /\ TermsInv /\ [Next]_vars => [FilledInTurn]_vars BY InTurnOf
<1> QED BY <1>1, SpecImpliesBookInv, SpecImpliesTermsInv, PTL DEF Spec, PriceTimePriority
=============================================================================
