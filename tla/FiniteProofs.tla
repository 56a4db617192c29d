----------------------------- MODULE FiniteProofs -----------------------------
(***************************************************************************)
(* Facts about finite sets that the proofs about the tables share: one     *)
(* of finitely many is the least; induction over an interval and over a    *)
(* finite set, for a set of what is good instead of a predicate; and sums. *)
(* SumOf is the sum of the community modules, with a function for what is  *)
(* added up.                                                               *)
(***************************************************************************)
EXTENDS Integers, FiniteSetsExt, Functions, FiniteSetTheorems, WellFoundedInduction, TLAPS

-----------------------------------------------------------------------------
(***************************************************************************)
(* The least and the greatest.                                             *)
(***************************************************************************)
\* Of finitely many things, one has the least number.
LEMMA FiniteHasLeast ==
    ASSUME NEW S, IsFiniteSet(S), S # {}, NEW f, \A x \in S : f[x] \in Int
    PROVE  \E x \in S : \A y \in S : f[x] <= f[y]
<1> DEFINE Down(x) == {y \in S : f[y] <= f[x]}
           T == {Down(x) : x \in S}
<1>1. IsFiniteSet(S) /\ \A U \in SUBSET S : IsFiniteSet(U)
  BY FS_Subset
<1>2. T \subseteq FiniteSubsetsOf(S) /\ T # {}
  BY <1>1 DEF FiniteSubsetsOf
<1>3. IsWellFoundedOn(StrictSubsetOrdering(S), FiniteSubsetsOf(S))
  BY FS_StrictSubsetOrderingWellFounded
<1>4. \E U \in T : \A V \in T : <<V, U>> \notin StrictSubsetOrdering(S)
  <2> HIDE DEF T
  <2> QED BY <1>2, <1>3, WFMin
<1>5. PICK x \in S : \A y \in S : <<Down(y), Down(x)>> \notin StrictSubsetOrdering(S)
  BY <1>4
<1>6. ASSUME NEW y \in S, f[y] < f[x]
      PROVE  FALSE
  <2>1. Down(y) \subseteq Down(x) /\ x \in Down(x) /\ x \notin Down(y)
    BY <1>6
  <2>2. Down(y) \in SUBSET S /\ Down(x) \in SUBSET S /\ Down(y) # Down(x)
    BY <2>1
  <2> HIDE DEF Down
  <2>3. <<Down(y), Down(x)>> \in StrictSubsetOrdering(S)
    BY <2>1, <2>2 DEF StrictSubsetOrdering
  <2> QED BY <2>3, <1>5
<1> QED BY <1>6

LEMMA FiniteHasGreatest ==
    ASSUME NEW S, IsFiniteSet(S), S # {}, NEW f, \A x \in S : f[x] \in Int
    PROVE  \E x \in S : \A y \in S : f[y] <= f[x]
<1> DEFINE g == [x \in S |-> 0 - f[x]]
<1>1. \A x \in S : g[x] = 0 - f[x] /\ g[x] \in Int
  OBVIOUS
<1> HIDE DEF g
<1>2. PICK x \in S : \A y \in S : g[x] <= g[y]
  BY <1>1, FiniteHasLeast
<1>3. ASSUME NEW y \in S
      PROVE  f[y] <= f[x]
  BY <1>1, <1>2
<1> QED BY <1>3

LEMMA FiniteInts ==
    ASSUME NEW S, IsFiniteSet(S), S # {}, S \subseteq Int
    PROVE  /\ \E x \in S : \A y \in S : x <= y
           /\ \E x \in S : \A y \in S : y <= x
<1> DEFINE f == [x \in S |-> x]
<1>1. \A x \in S : f[x] = x /\ f[x] \in Int
  OBVIOUS
<1> HIDE DEF f
<1>2. PICK x \in S : \A y \in S : f[x] <= f[y]
  BY <1>1, FiniteHasLeast
<1>3. PICK z \in S : \A y \in S : f[y] <= f[z]
  BY <1>1, FiniteHasGreatest
<1> QED BY <1>1, <1>2, <1>3

-----------------------------------------------------------------------------
(***************************************************************************)
(* Induction.                                                              *)
(***************************************************************************)
LEMMA IntervalInduction ==
    ASSUME NEW m \in Int, NEW n \in Int, NEW P, m \in P,
           \A k \in m + 1 .. n : k - 1 \in P => k \in P
    PROVE  m .. n \subseteq P
<1> DEFINE Bad == (m .. n) \ P
<1>1. IsFiniteSet(Bad) /\ Bad \subseteq Int
  <2>1. IsFiniteSet(m .. n)
    BY FS_Interval
  <2> QED BY <2>1, FS_Subset
<1>2. ASSUME Bad # {}
      PROVE  FALSE
  <2>1. PICK k \in Bad : \A j \in Bad : k <= j
    <3> HIDE DEF Bad
    <3> QED BY <1>1, <1>2, FiniteInts
  <2>2. k \in m + 1 .. n /\ k - 1 \in m .. n
    BY <2>1
  <2>3. k - 1 \in P
    BY <2>1, <2>2
  <2> QED BY <2>1, <2>2, <2>3
<1> QED BY <1>2

LEMMA FiniteInduction ==
    ASSUME NEW S, IsFiniteSet(S), NEW P, {} \in P,
           \A T \in SUBSET S : \A x \in T : T \ {x} \in P => T \in P
    PROVE  S \in P
<1> DEFINE n == Cardinality(S)
           Q == {k \in 0 .. n : \A T \in SUBSET S : Cardinality(T) = k => T \in P}
<1>1. n \in Nat /\ \A T \in SUBSET S : IsFiniteSet(T) /\ Cardinality(T) \in 0 .. n
  <2>1. n \in Nat
    BY FS_CardinalityType
  <2>2. ASSUME NEW T \in SUBSET S
        PROVE  IsFiniteSet(T) /\ Cardinality(T) \in 0 .. n
    <3>1. IsFiniteSet(T) /\ Cardinality(T) <= n
      BY FS_Subset
    <3> QED BY <2>1, <3>1, FS_CardinalityType
  <2> QED BY <2>1, <2>2
<1> HIDE DEF n
<1>2. 0 \in Q
  <2>1. ASSUME NEW T \in SUBSET S, Cardinality(T) = 0
        PROVE  T \in P
    BY <1>1, <2>1, FS_EmptySet
  <2> QED BY <1>1, <2>1
<1>3. ASSUME NEW k \in 1 .. n, k - 1 \in Q
      PROVE  k \in Q
  <2>1. ASSUME NEW T \in SUBSET S, Cardinality(T) = k
        PROVE  T \in P
    <3>1. IsFiniteSet(T) /\ T # {}
      BY <1>1, <2>1, FS_EmptySet
    <3>2. PICK x \in T : TRUE
      BY <3>1
    <3>3. Cardinality(T \ {x}) = k - 1
      BY <2>1, <3>1, FS_RemoveElement
    <3>4. T \ {x} \in P
      BY <1>3, <3>3
    <3> QED BY <3>4
  <2> QED BY <1>1, <2>1
<1>4. n \in Q
  <2> HIDE DEF Q
  <2>1. 0 .. n \subseteq Q
    BY <1>1, <1>2, <1>3, IntervalInduction
  <2> QED BY <1>1, <2>1
<1> QED BY <1>4 DEF n

-----------------------------------------------------------------------------
(***************************************************************************)
(* Sums.  A sum is the last value of a function on the subsets, which adds *)
(* one element after the other.                                            *)
(***************************************************************************)
SumOf(f, S) == MapThenSumSet(LAMBDA x : f[x], S)

Any(s) == CHOOSE x \in s : TRUE

AddsUp(g, f, S) ==
    g = [s \in SUBSET S |-> IF s = {} THEN 0 ELSE f[Any(s)] + g[s \ {Any(s)}]]

LEMMA AddingUpEnds ==
    ASSUME NEW S, IsFiniteSet(S), NEW f
    PROVE  \E g : AddsUp(g, f, S)
<1> DEFINE n == Cardinality(S)
           Upto(k) == {s \in SUBSET S : Cardinality(s) <= k}
           Good(g, k) == g = [s \in Upto(k) |->
                                IF s = {} THEN 0 ELSE f[Any(s)] + g[s \ {Any(s)}]]
           P == {k \in 0 .. n : \E g : Good(g, k)}
<1>1. n \in Nat /\ \A s \in SUBSET S : IsFiniteSet(s) /\ Cardinality(s) \in 0 .. n
  <2>1. n \in Nat
    BY FS_CardinalityType
  <2>2. ASSUME NEW s \in SUBSET S
        PROVE  IsFiniteSet(s) /\ Cardinality(s) \in 0 .. n
    <3>1. IsFiniteSet(s) /\ Cardinality(s) <= n
      BY FS_Subset
    <3> QED BY <2>1, <3>1, FS_CardinalityType
  <2> QED BY <2>1, <2>2
<1> HIDE DEF n
<1>2. \A s \in SUBSET S : s # {} => Any(s) \in s
  BY DEF Any
<1>3. \A s \in SUBSET S : s # {} => /\ s \ {Any(s)} \in SUBSET S
                                    /\ Cardinality(s \ {Any(s)}) = Cardinality(s) - 1
  BY <1>1, <1>2, FS_RemoveElement
<1>4. 0 \in P
  <2> DEFINE g == [s \in Upto(0) |-> 0]
  <2>1. \A s \in Upto(0) : s = {}
    BY <1>1, FS_EmptySet
  <2>2. g = [s \in Upto(0) |-> g[s]] /\ \A s \in Upto(0) : g[s] = 0
    OBVIOUS
  <2> HIDE DEF g, Upto
  <2>3. Good(g, 0)
    BY <2>1, <2>2
  <2> QED BY <1>1, <2>3
<1>5. ASSUME NEW k \in 1 .. n, k - 1 \in P
      PROVE  k \in P
  <2>1. PICK g : Good(g, k - 1)
    BY <1>5
  <2> DEFINE h == [s \in Upto(k) |-> IF Cardinality(s) <= k - 1 THEN g[s]
                                     ELSE f[Any(s)] + g[s \ {Any(s)}]]
  <2>2. ASSUME NEW s \in Upto(k)
        PROVE  h[s] = IF s = {} THEN 0 ELSE f[Any(s)] + h[s \ {Any(s)}]
    <3>1. s \in SUBSET S /\ Cardinality(s) \in 0 .. n /\ Cardinality(s) <= k
      BY <1>1
    <3>2. CASE s = {}
      <4>1. Cardinality(s) <= k - 1 /\ s \in Upto(k - 1)
        BY <3>2, FS_EmptySet
      <4>2. g[s] = 0
        <5> HIDE DEF Upto
        <5> QED BY <2>1, <3>2, <4>1
      <4> QED BY <3>2, <4>1, <4>2
    <3>3. CASE s # {}
      <4>1. /\ s \ {Any(s)} \in Upto(k) /\ s \ {Any(s)} \in Upto(k - 1)
            /\ Cardinality(s \ {Any(s)}) <= k - 1
        BY <1>1, <1>3, <3>1, <3>3
      <4>2. h[s \ {Any(s)}] = g[s \ {Any(s)}]
        BY <4>1
      <4>3. CASE Cardinality(s) <= k - 1
        <5>1. s \in Upto(k - 1)
          BY <3>1, <4>3
        <5>2. g[s] = f[Any(s)] + g[s \ {Any(s)}]
          <6> HIDE DEF Upto
          <6> QED BY <2>1, <3>3, <5>1
        <5>3. h[s] = g[s]
          BY <4>3
        <5> HIDE DEF h
        <5> QED BY <3>3, <4>2, <5>2, <5>3
      <4>4. CASE ~(Cardinality(s) <= k - 1)
        <5>1. h[s] = f[Any(s)] + g[s \ {Any(s)}]
          BY <4>4
        <5> HIDE DEF h
        <5> QED BY <3>3, <4>2, <5>1
      <4> QED BY <4>3, <4>4
    <3> QED BY <3>2, <3>3
  <2>3. DOMAIN h = Upto(k) /\ h = [s \in Upto(k) |-> h[s]]
    OBVIOUS
  <2> HIDE DEF h, Upto
  <2>4. Good(h, k)
    BY <2>2, <2>3
  <2> QED BY <2>4
<1>6. n \in P
  <2> HIDE DEF P
  <2>1. 0 .. n \subseteq P
    BY <1>1, <1>4, <1>5, IntervalInduction
  <2> QED BY <1>1, <2>1
<1>7. PICK g : Good(g, n)
  BY <1>6
<1>8. Upto(n) = SUBSET S
  BY <1>1
<1> HIDE DEF Upto
<1> QED BY <1>7, <1>8 DEF AddsUp

\* Whatever is taken out first.
Sums(g, f, S) ==
    /\ g[{}] = 0
    /\ \A s \in SUBSET S : g[s] \in Int /\ \A x \in s : g[s] = f[x] + g[s \ {x}]

LEMMA AnyOneFirst ==
    ASSUME NEW S, IsFiniteSet(S), NEW f, \A x \in S : f[x] \in Int, NEW g, AddsUp(g, f, S)
    PROVE  Sums(g, f, S)
<1> DEFINE n == Cardinality(S)
           Right(s) == g[s] \in Int /\ \A x \in s : g[s] = f[x] + g[s \ {x}]
           P == {k \in 0 .. n : \A s \in SUBSET S : Cardinality(s) <= k => Right(s)}
<1>1. n \in Nat /\ \A s \in SUBSET S : IsFiniteSet(s) /\ Cardinality(s) \in 0 .. n
  <2>1. n \in Nat
    BY FS_CardinalityType
  <2>2. ASSUME NEW s \in SUBSET S
        PROVE  IsFiniteSet(s) /\ Cardinality(s) \in 0 .. n
    <3>1. IsFiniteSet(s) /\ Cardinality(s) <= n
      BY FS_Subset
    <3> QED BY <2>1, <3>1, FS_CardinalityType
  <2> QED BY <2>1, <2>2
<1> HIDE DEF n
<1>2. g[{}] = 0 /\ \A s \in SUBSET S : s # {} => g[s] = f[Any(s)] + g[s \ {Any(s)}]
  BY DEF AddsUp
<1>3. \A s \in SUBSET S : s # {} => Any(s) \in s
  BY DEF Any
<1>4. \A s \in SUBSET S : \A x \in s : s \ {x} \in SUBSET S /\ Cardinality(s \ {x}) = Cardinality(s) - 1
  BY <1>1, FS_RemoveElement
<1>5. Right({})
  BY <1>2
<1>6. 0 \in P
  BY <1>1, <1>5, FS_EmptySet
<1>7. ASSUME NEW k \in 1 .. n, k - 1 \in P
      PROVE  k \in P
  <2>1. ASSUME NEW s \in SUBSET S, Cardinality(s) <= k
        PROVE  Right(s)
    <3>1. CASE s = {}
      BY <1>5, <3>1
    <3>2. CASE s # {}
      <4> DEFINE c == Any(s)
      <4>1. c \in s /\ g[s] = f[c] + g[s \ {c}]
        BY <1>2, <1>3, <3>2
      <4> HIDE DEF c
      <4>2. \A x \in s : Right(s \ {x})
        BY <1>1, <1>4, <1>7, <2>1
      <4>3. g[s] \in Int
        BY <4>1, <4>2
      <4>4. ASSUME NEW x \in s, x # c
            PROVE  g[s] = f[x] + g[s \ {x}]
        <5>1. g[s \ {c}] = f[x] + g[(s \ {c}) \ {x}] /\ g[s \ {x}] = f[c] + g[(s \ {x}) \ {c}]
          BY <4>1, <4>2, <4>4
        <5>2. (s \ {c}) \ {x} = (s \ {x}) \ {c} /\ (s \ {c}) \ {x} \in SUBSET S
          OBVIOUS
        <5>3. g[(s \ {c}) \ {x}] \in Int
          <6>1. Right((s \ {c}) \ {x})
            <7>1. Cardinality((s \ {c}) \ {x}) <= k - 1
              BY <1>1, <1>4, <2>1, <4>1, <4>4
            <7> QED BY <1>7, <5>2, <7>1
          <6> QED BY <6>1
        <5>4. f[x] \in Int /\ f[c] \in Int
          BY <4>1
        <5> DEFINE r == g[(s \ {c}) \ {x}]
        <5>5. r \in Int /\ g[s \ {c}] = f[x] + r /\ g[s \ {x}] = f[c] + r
          BY <5>1, <5>2, <5>3
        <5> HIDE DEF r
        <5> QED BY <4>1, <5>4, <5>5
      <4> QED BY <4>1, <4>3, <4>4
    <3> QED BY <3>1, <3>2
  <2> HIDE DEF Right
  <2> QED BY <1>1, <2>1
<1>8. n \in P
  <2> HIDE DEF P
  <2>1. 0 .. n \subseteq P
    BY <1>1, <1>6, <1>7, IntervalInduction
  <2> QED BY <1>1, <2>1
<1>9. \A s \in SUBSET S : Right(s)
  <2> HIDE DEF Right
  <2> QED BY <1>1, <1>8
<1> QED BY <1>2, <1>9 DEF Sums

LEMMA SumsAgree ==
    ASSUME NEW S, IsFiniteSet(S), NEW f, NEW g, Sums(g, f, S),
           NEW T, NEW e, NEW h, Sums(h, e, T),
           NEW s \in SUBSET (S \cap T), \A x \in s : f[x] = e[x]
    PROVE  g[s] = h[s]
<1> DEFINE P == {u \in SUBSET s : g[u] = h[u]}
<1>1. /\ g[{}] = 0 /\ h[{}] = 0
      /\ \A u \in SUBSET S : g[u] \in Int /\ \A x \in u : g[u] = f[x] + g[u \ {x}]
      /\ \A u \in SUBSET T : h[u] \in Int /\ \A x \in u : h[u] = e[x] + h[u \ {x}]
  BY DEF Sums
<1>2. {} \in P
  BY <1>1
<1>3. ASSUME NEW u \in SUBSET s, NEW x \in u, u \ {x} \in P
      PROVE  u \in P
  <2>1. u \in SUBSET S /\ u \in SUBSET T
    OBVIOUS
  <2>2. g[u] = f[x] + g[u \ {x}] /\ h[u] = e[x] + h[u \ {x}]
    BY <1>1, <2>1
  <2>3. g[u \ {x}] = h[u \ {x}] /\ f[x] = e[x]
    BY <1>3
  <2> QED BY <2>2, <2>3
<1>4. IsFiniteSet(s)
  BY FS_Subset
<1>5. s \in P
  <2> HIDE DEF P
  <2> QED BY <1>2, <1>3, <1>4, FiniteInduction
<1> QED BY <1>5

LEMMA SumIsTheEnd ==
    ASSUME NEW S, IsFiniteSet(S), NEW f, \A x \in S : f[x] \in Int, NEW g, AddsUp(g, f, S)
    PROVE  SumOf(f, S) = g[S]
<1> DEFINE h == CHOOSE g_1 : AddsUp(g_1, f, S)
<1>1. SumOf(f, S) = h[S]
  BY Zenon DEF SumOf, MapThenSumSet, MapThenFoldSet, AddsUp, Any
<1>2. AddsUp(h, f, S)
  BY AddingUpEnds
<1> HIDE DEF h
<1>3. S \in SUBSET (S \cap S)
  OBVIOUS
<1>4. h[S] = g[S]
  BY <1>2, <1>3, SumsAgree, AnyOneFirst
<1> QED BY <1>1, <1>4

\* Of the same things.
LEMMA SumSame ==
    ASSUME NEW S, IsFiniteSet(S), NEW f, NEW e, \A x \in S : f[x] \in Int /\ f[x] = e[x]
    PROVE  SumOf(f, S) = SumOf(e, S)
<1>1. PICK g : AddsUp(g, f, S)
  BY AddingUpEnds
<1>2. PICK h : AddsUp(h, e, S)
  BY AddingUpEnds
<1>3. g[S] = h[S]
  <2>1. S \in SUBSET (S \cap S) /\ \A x \in S : e[x] \in Int
    OBVIOUS
  <2>2. Sums(g, f, S) /\ Sums(h, e, S)
    BY <1>1, <1>2, <2>1, AnyOneFirst
  <2> QED BY <2>1, <2>2, SumsAgree
<1> QED BY <1>1, <1>2, <1>3, SumIsTheEnd

LEMMA SumTakes ==
    ASSUME NEW S, IsFiniteSet(S), NEW f, \A x \in S : f[x] \in Int
    PROVE  /\ SumOf(f, {}) = 0 /\ SumOf(f, S) \in Int
           /\ \A x \in S : SumOf(f, S) = f[x] + SumOf(f, S \ {x})
<1>1. PICK g : AddsUp(g, f, S)
  BY AddingUpEnds
<1>2. Sums(g, f, S)
  BY <1>1, AnyOneFirst
<1>3. ASSUME NEW s \in SUBSET S
      PROVE  SumOf(f, s) = g[s]
  <2>1. IsFiniteSet(s) /\ \A x \in s : f[x] \in Int
    BY FS_Subset
  <2>2. PICK h : AddsUp(h, f, s)
    BY <2>1, AddingUpEnds
  <2>3. s \in SUBSET (s \cap S)
    OBVIOUS
  <2>4. Sums(h, f, s)
    BY <2>1, <2>2, AnyOneFirst
  <2>5. h[s] = g[s]
    BY <1>2, <2>1, <2>3, <2>4, SumsAgree
  <2> QED BY <2>1, <2>2, <2>5, SumIsTheEnd
<1> QED BY <1>2, <1>3 DEF Sums

\* Sums of one function over subsets of one finite set.
LEMMA SumUnion ==
    ASSUME NEW S, IsFiniteSet(S), NEW T, IsFiniteSet(T), S \cap T = {},
           NEW f, \A x \in S \cup T : f[x] \in Int
    PROVE  SumOf(f, S \cup T) = SumOf(f, S) + SumOf(f, T)
<1> DEFINE P == {u \in SUBSET T : SumOf(f, S \cup u) = SumOf(f, S) + SumOf(f, u)}
<1>1. SumOf(f, S) \in Int /\ SumOf(f, {}) = 0
  BY SumTakes
<1>2. S \cup {} = S
  OBVIOUS
<1>3. {} \in P
  BY <1>1, <1>2
<1>4. ASSUME NEW u \in SUBSET T, NEW x \in u, u \ {x} \in P
      PROVE  u \in P
  <2>1. IsFiniteSet(u) /\ IsFiniteSet(S \cup u)
    BY FS_Subset, FS_Union
  <2>2. SumOf(f, u) \in Int /\ SumOf(f, u) = f[x] + SumOf(f, u \ {x})
    BY <2>1, SumTakes
  <2>3. SumOf(f, S \cup u) = f[x] + SumOf(f, (S \cup u) \ {x})
    <3>1. \A y \in S \cup u : f[y] \in Int
      OBVIOUS
    <3> QED BY <2>1, <3>1, SumTakes
  <2>4. (S \cup u) \ {x} = S \cup (u \ {x})
    OBVIOUS
  <2>5. IsFiniteSet(u \ {x}) /\ \A y \in u \ {x} : f[y] \in Int
    BY <2>1, FS_RemoveElement
  <2>6. SumOf(f, u \ {x}) \in Int /\ f[x] \in Int
    BY <2>5, SumTakes
  <2>7. SumOf(f, S \cup (u \ {x})) = SumOf(f, S) + SumOf(f, u \ {x})
    BY <1>4
  <2>8. SumOf(f, S \cup u) = SumOf(f, S) + SumOf(f, u)
    <3> DEFINE a == SumOf(f, S)
               b == SumOf(f, u \ {x})
               c == SumOf(f, u)
               all == SumOf(f, S \cup u)
    <3>1. all = f[x] + (a + b) /\ c = f[x] + b
      BY <2>2, <2>3, <2>4, <2>7
    <3>2. a \in Int /\ b \in Int /\ f[x] \in Int
      BY <1>1, <2>6
    <3> HIDE DEF P, a, b, c, all
    <3>3. all = a + c
      BY <3>1, <3>2
    <3> QED BY <3>3 DEF a, c, all
  <2> QED BY <2>8
<1>5. T \in P
  <2> HIDE DEF P
  <2> QED BY <1>3, <1>4, FiniteInduction
<1> QED BY <1>5

\* Less of fewer things.
LEMMA SumAtMost ==
    ASSUME NEW T, IsFiniteSet(T), NEW S \in SUBSET T, NEW f, NEW e,
           \A x \in S : f[x] \in Int /\ f[x] <= e[x],
           \A x \in T : e[x] \in Int, \A x \in T \ S : 0 <= e[x]
    PROVE  SumOf(f, S) <= SumOf(e, T)
<1> DEFINE P == {u \in SUBSET T : SumOf(f, S \cap u) <= SumOf(e, u)}
<1>1. ASSUME NEW u \in SUBSET T
      PROVE  /\ IsFiniteSet(u) /\ IsFiniteSet(S \cap u)
             /\ SumOf(f, S \cap u) \in Int /\ SumOf(e, u) \in Int
             /\ \A x \in S \cap u : SumOf(f, S \cap u) = f[x] + SumOf(f, (S \cap u) \ {x})
             /\ \A x \in u : SumOf(e, u) = e[x] + SumOf(e, u \ {x})
  <2>1. IsFiniteSet(u) /\ S \cap u \in SUBSET T
    BY FS_Subset
  <2>2. IsFiniteSet(S \cap u)
    BY <2>1, FS_Subset
  <2> QED BY <2>1, <2>2, SumTakes
<1>2. SumOf(f, {}) = 0 /\ SumOf(e, {}) = 0
  BY SumTakes, FS_EmptySet
<1>3. {} \in P
  <2>1. S \cap {} = {}
    OBVIOUS
  <2> QED BY <1>2, <2>1
<1>4. ASSUME NEW u \in SUBSET T, NEW x \in u, u \ {x} \in P
      PROVE  u \in P
  <2>1. SumOf(f, S \cap (u \ {x})) <= SumOf(e, u \ {x})
    BY <1>4
  <2>2. /\ SumOf(f, S \cap u) \in Int /\ SumOf(e, u) \in Int /\ SumOf(e, u) = e[x] + SumOf(e, u \ {x})
        /\ SumOf(f, S \cap (u \ {x})) \in Int /\ SumOf(e, u \ {x}) \in Int /\ e[x] \in Int
    <3>1. u \ {x} \in SUBSET T
      OBVIOUS
    <3> QED BY <1>1, <3>1
  <2>3. CASE x \in S
    <3>1. (S \cap u) \ {x} = S \cap (u \ {x})
      OBVIOUS
    <3>2. SumOf(f, S \cap u) = f[x] + SumOf(f, S \cap (u \ {x}))
      <4>1. x \in S \cap u
        BY <2>3
      <4>2. SumOf(f, S \cap u) = f[x] + SumOf(f, (S \cap u) \ {x})
        BY <1>1, <4>1
      <4> QED BY <3>1, <4>2
    <3>3. f[x] \in Int /\ f[x] <= e[x]
      BY <2>3
    <3> QED BY <2>1, <2>2, <3>2, <3>3
  <2>4. CASE x \notin S
    <3>1. S \cap u = S \cap (u \ {x}) /\ 0 <= e[x]
      BY <2>4
    <3> QED BY <2>1, <2>2, <3>1
  <2> QED BY <2>3, <2>4
<1>5. T \in P
  <2> HIDE DEF P
  <2> QED BY <1>3, <1>4, FiniteInduction
<1>6. S \cap T = S
  OBVIOUS
<1> QED BY <1>5, <1>6

\* What two things add up to.
LEMMA SumPlus ==
    ASSUME NEW S, IsFiniteSet(S), NEW f, NEW e, NEW h,
           \A x \in S : e[x] \in Int /\ h[x] \in Int /\ f[x] = e[x] + h[x]
    PROVE  SumOf(f, S) = SumOf(e, S) + SumOf(h, S)
<1> DEFINE P == {u \in SUBSET S : SumOf(f, u) = SumOf(e, u) + SumOf(h, u)}
<1>1. ASSUME NEW u \in SUBSET S
      PROVE  /\ SumOf(e, u) \in Int /\ SumOf(h, u) \in Int
             /\ \A x \in u : /\ SumOf(f, u) = f[x] + SumOf(f, u \ {x})
                             /\ SumOf(e, u) = e[x] + SumOf(e, u \ {x})
                             /\ SumOf(h, u) = h[x] + SumOf(h, u \ {x})
  <2>1. IsFiniteSet(u) /\ \A x \in u : f[x] \in Int /\ e[x] \in Int /\ h[x] \in Int
    BY FS_Subset
  <2> QED BY <2>1, SumTakes
<1>2. SumOf(f, {}) = 0 /\ SumOf(e, {}) = 0 /\ SumOf(h, {}) = 0
  BY SumTakes, FS_EmptySet
<1>3. {} \in P
  BY <1>2
<1>4. ASSUME NEW u \in SUBSET S, NEW x \in u, u \ {x} \in P
      PROVE  u \in P
  <2> DEFINE rest == u \ {x}
             a == SumOf(e, rest)
             b == SumOf(h, rest)
  <2>1. rest \in SUBSET S /\ SumOf(f, rest) = a + b
    BY <1>4
  <2>2. a \in Int /\ b \in Int
    BY <1>1, <2>1
  <2>3. SumOf(f, u) = f[x] + SumOf(f, rest) /\ SumOf(e, u) = e[x] + a /\ SumOf(h, u) = h[x] + b
    BY <1>1
  <2>4. f[x] = e[x] + h[x] /\ e[x] \in Int /\ h[x] \in Int
    OBVIOUS
  <2> HIDE DEF P, a, b, rest
  <2>5. SumOf(f, u) = SumOf(e, u) + SumOf(h, u)
    BY <2>1, <2>2, <2>3, <2>4
  <2> QED BY <2>5 DEF P
<1>5. S \in P
  <2> HIDE DEF P
  <2> QED BY <1>3, <1>4, FiniteInduction
<1> QED BY <1>5

\* The same times over.
LEMMA SumTimes ==
    ASSUME NEW S, IsFiniteSet(S), NEW f, NEW e, NEW c \in Int,
           \A x \in S : e[x] \in Int /\ f[x] = e[x] * c
    PROVE  SumOf(f, S) = SumOf(e, S) * c
<1> DEFINE P == {u \in SUBSET S : SumOf(f, u) = SumOf(e, u) * c}
<1>1. \A x \in S : f[x] \in Int
  OBVIOUS
<1>2. SumOf(f, {}) = 0 /\ SumOf(e, {}) = 0
  BY SumTakes, FS_EmptySet
<1>3. {} \in P
  BY <1>2
<1>4. ASSUME NEW u \in SUBSET S, NEW x \in u, u \ {x} \in P
      PROVE  u \in P
  <2> DEFINE rest == u \ {x}
             a == SumOf(e, rest)
  <2>1. IsFiniteSet(u) /\ IsFiniteSet(rest)
    BY FS_Subset
  <2>2. SumOf(f, rest) = a * c
    BY <1>4
  <2>3. /\ a \in Int
        /\ SumOf(f, u) = f[x] + SumOf(f, rest) /\ SumOf(e, u) = e[x] + a
    <3>1. \A y \in u : f[y] \in Int /\ e[y] \in Int
      BY <1>1
    <3> QED BY <2>1, <3>1, SumTakes
  <2>4. f[x] = e[x] * c /\ e[x] \in Int
    OBVIOUS
  <2> HIDE DEF P, a, rest
  <2>5. e[x] * c + a * c = (e[x] + a) * c
    BY <2>3, <2>4
  <2>6. SumOf(f, u) = SumOf(e, u) * c
    BY <2>2, <2>3, <2>4, <2>5
  <2> QED BY <2>6 DEF P
<1>5. S \in P
  <2> HIDE DEF P
  <2> QED BY <1>3, <1>4, FiniteInduction
<1> QED BY <1>5

\* A sum by headings.
LEMMA SumByKey ==
    ASSUME NEW S, IsFiniteSet(S), NEW f, \A x \in S : f[x] \in Int,
           NEW K, IsFiniteSet(K), NEW key, \A x \in S : key[x] \in K,
           NEW g, \A k \in K : g[k] = SumOf(f, {x \in S : key[x] = k})
    PROVE  SumOf(g, K) = SumOf(f, S)
<1> DEFINE Under(u) == {x \in S : key[x] \in u}
           P == {u \in SUBSET K : SumOf(g, u) = SumOf(f, Under(u))}
<1>1. \A u : IsFiniteSet(Under(u)) /\ \A x \in Under(u) : f[x] \in Int
  <2>1. \A u : Under(u) \subseteq S
    OBVIOUS
  <2> QED BY <2>1, FS_Subset
<1>2. \A k \in K : g[k] \in Int
  <2>1. ASSUME NEW k \in K PROVE g[k] \in Int
    <3>1. {x \in S : key[x] = k} = Under({k})
      OBVIOUS
    <3>2. SumOf(f, Under({k})) \in Int
      <4> HIDE DEF Under
      <4> QED BY <1>1, SumTakes
    <3> QED BY <3>1, <3>2
  <2> QED BY <2>1
<1>3. {} \in P
  <2>1. Under({}) = {}
    OBVIOUS
  <2>2. SumOf(g, {}) = 0 /\ SumOf(f, {}) = 0
    BY SumTakes, FS_EmptySet
  <2> QED BY <2>1, <2>2
<1>4. ASSUME NEW u \in SUBSET K, NEW k \in u, u \ {k} \in P
      PROVE  u \in P
  <2> DEFINE rest == u \ {k}
  <2>1. Under(u) = Under({k}) \cup Under(rest) /\ Under({k}) \cap Under(rest) = {}
    OBVIOUS
  <2>2. SumOf(g, rest) = SumOf(f, Under(rest))
    BY <1>4
  <2>3. g[k] = SumOf(f, Under({k}))
    <3>1. {x \in S : key[x] = k} = Under({k})
      OBVIOUS
    <3> QED BY <3>1
  <2>4. SumOf(g, u) = g[k] + SumOf(g, rest)
    <3>1. IsFiniteSet(u) /\ \A j \in u : g[j] \in Int
      BY <1>2, FS_Subset
    <3> QED BY <3>1, SumTakes
  <2> HIDE DEF P, Under, rest
  <2>5. SumOf(f, Under(u)) = SumOf(f, Under({k})) + SumOf(f, Under(rest))
    <3>1. \A x \in Under({k}) \cup Under(rest) : f[x] \in Int
      BY <1>1
    <3>2. SumOf(f, Under({k}) \cup Under(rest)) = SumOf(f, Under({k})) + SumOf(f, Under(rest))
      BY <1>1, <2>1, <3>1, SumUnion
    <3> QED BY <2>1, <3>2
  <2> QED BY <2>2, <2>3, <2>4, <2>5 DEF P
<1>5. K \in P
  <2> HIDE DEF P
  <2> QED BY <1>3, <1>4, FiniteInduction
<1>6. Under(K) = S
  OBVIOUS
<1> QED BY <1>5, <1>6

\* A cardinality is a sum of ones.
LEMMA SumOfOnes ==
    ASSUME NEW S, IsFiniteSet(S), NEW f, \A x \in S : f[x] = 1
    PROVE  SumOf(f, S) = Cardinality(S)
<1> DEFINE P == {u \in SUBSET S : SumOf(f, u) = Cardinality(u)}
<1>1. {} \in P
  BY SumTakes, FS_EmptySet
<1>2. ASSUME NEW u \in SUBSET S, NEW x \in u, u \ {x} \in P
      PROVE  u \in P
  <2>1. IsFiniteSet(u) /\ \A y \in u : f[y] \in Int
    BY FS_Subset
  <2>2. SumOf(f, u) = 1 + SumOf(f, u \ {x})
    <3>1. SumOf(f, u) = f[x] + SumOf(f, u \ {x})
      BY <2>1, SumTakes
    <3> QED BY <3>1
  <2>3. Cardinality(u \ {x}) = Cardinality(u) - 1 /\ Cardinality(u) \in Nat
    BY <2>1, FS_RemoveElement, FS_CardinalityType
  <2> QED BY <1>2, <2>2, <2>3
<1>3. S \in P
  <2> HIDE DEF P
  <2> QED BY <1>1, <1>2, FiniteInduction
<1> QED BY <1>3

\* Finitely many things have finitely many keys.
LEMMA KeysAreFinite ==
    ASSUME NEW S, IsFiniteSet(S), NEW key, NEW K, K = {key[x] : x \in S}
    PROVE  IsFiniteSet(K) /\ \A x \in S : key[x] \in K
<1> DEFINE Image(u) == {key[x] : x \in u}
           P == {u \in SUBSET S : IsFiniteSet(Image(u))}
<1>1. {} \in P
  <2>1. Image({}) = {}
    OBVIOUS
  <2> QED BY <2>1, FS_EmptySet
<1>2. ASSUME NEW u \in SUBSET S, NEW x \in u, u \ {x} \in P
      PROVE  u \in P
  <2>1. Image(u) = Image(u \ {x}) \cup {key[x]}
    OBVIOUS
  <2>2. IsFiniteSet(Image(u \ {x}))
    BY <1>2
  <2> HIDE DEF Image
  <2>3. IsFiniteSet(Image(u \ {x}) \cup {key[x]})
    BY <2>2, FS_AddElement
  <2> QED BY <2>1, <2>3
<1>3. S \in P
  <2> HIDE DEF P
  <2> QED BY <1>1, <1>2, FiniteInduction
<1> QED BY <1>3

\* What has none of it adds nothing.
LEMMA SumOfSome ==
    ASSUME NEW S, IsFiniteSet(S), NEW T \in SUBSET S, NEW f,
           \A x \in S : f[x] \in Int, \A x \in S \ T : f[x] = 0
    PROVE  SumOf(f, S) = SumOf(f, T)
<1> DEFINE rest == S \ T
<1>1. /\ S = T \cup rest /\ T \cap rest = {} /\ IsFiniteSet(T) /\ IsFiniteSet(rest)
      /\ \A x \in rest : f[x] \in Int /\ f[x] = f[x] * 0
  BY FS_Subset
<1> HIDE DEF rest
<1>2. SumOf(f, rest) = SumOf(f, rest) * 0
  BY <1>1, SumTimes
<1>3. SumOf(f, T \cup rest) = SumOf(f, T) + SumOf(f, rest)
  BY <1>1, SumUnion
<1>4. SumOf(f, T) \in Int /\ SumOf(f, rest) \in Int
  BY <1>1, SumTakes
<1> QED BY <1>1, <1>2, <1>3, <1>4

\* Nothing negative adds up to nothing negative.
LEMMA SumIsNatural ==
    ASSUME NEW S, IsFiniteSet(S), NEW f, \A x \in S : f[x] \in Int /\ 0 <= f[x]
    PROVE  SumOf(f, S) \in Nat
<1>1. SumOf(f, S) \in Int /\ SumOf(f, {}) = 0
  BY SumTakes
<1>2. SumOf(f, {}) <= SumOf(f, S)
  BY SumAtMost
<1> QED BY <1>1, <1>2

\* The differences from one to the next add up to that of the last and the first.
LEMMA SumOfSteps ==
    ASSUME NEW n \in Int, 1 <= n, NEW f, \A k \in 1 .. n : f[k] \in Int,
           NEW e, \A k \in 2 .. n : e[k] = f[k] - f[k - 1]
    PROVE  SumOf(e, 2 .. n) = f[n] - f[1]
<1> DEFINE P == {k \in 1 .. n : SumOf(e, 2 .. k) = f[k] - f[1]}
<1>1. \A k \in 2 .. n : e[k] \in Int
  OBVIOUS
<1>2. 1 \in P
  <2>1. 2 .. 1 = {} /\ 1 \in 1 .. n /\ f[1] \in Int
    OBVIOUS
  <2>2. SumOf(e, {}) = 0
    BY SumTakes, FS_EmptySet
  <2> QED BY <2>1, <2>2
<1>3. ASSUME NEW k \in 1 + 1 .. n, k - 1 \in P
      PROVE  k \in P
  <2>1. k \in 2 .. k /\ (2 .. k) \ {k} = 2 .. k - 1 /\ 2 .. k \subseteq 2 .. n /\ k \in 1 .. n
    OBVIOUS
  <2>2. IsFiniteSet(2 .. k)
    BY FS_Interval
  <2>3. \A j \in 2 .. k : e[j] \in Int
    BY <1>1, <2>1
  <2>4. SumOf(e, 2 .. k) = e[k] + SumOf(e, 2 .. k - 1)
    <3> DEFINE T == 2 .. k
    <3>1. IsFiniteSet(T) /\ k \in T /\ \A j \in T : e[j] \in Int
      BY <2>1, <2>2, <2>3
    <3>2. T \ {k} = 2 .. k - 1
      BY <2>1
    <3> HIDE DEF T
    <3>3. SumOf(e, T) = e[k] + SumOf(e, T \ {k})
      BY <3>1, SumTakes
    <3> QED BY <3>2, <3>3 DEF T
  <2>5. SumOf(e, 2 .. k - 1) = f[k - 1] - f[1] /\ e[k] = f[k] - f[k - 1]
    BY <1>3, <2>1
  <2>6. f[k] \in Int /\ f[k - 1] \in Int /\ f[1] \in Int
    BY <2>1
  <2> QED BY <2>1, <2>4, <2>5, <2>6
<1>4. 1 .. n \subseteq P
  <2> HIDE DEF P
  <2> QED BY <1>2, <1>3, IntervalInduction
<1>5. n \in P
  BY <1>4
<1> QED BY <1>5

\* The sum of a function's values, as the community modules have it.
LEMMA SumFrom ==
    ASSUME NEW S, IsFiniteSet(S), NEW f, DOMAIN f = S, NEW e,
           \A x \in S : f[x] \in Int /\ f[x] = e[x]
    PROVE  SumFunction(f) = SumOf(e, S)
<1>1. SumFunction(f) = SumOf(f, S)
  BY Zenon DEF SumFunction, SumFunctionOnSet, FoldFunctionOnSet, SumOf, MapThenSumSet, MapThenFoldSet
<1> QED BY <1>1, SumSame

\* So do the values of a function, of which each adds up what is under one heading.
LEMMA GroupsAddUp ==
    ASSUME NEW S, IsFiniteSet(S), NEW f, \A x \in S : f[x] \in Int,
           NEW K, IsFiniteSet(K), NEW key, \A x \in S : key[x] \in K,
           NEW g, DOMAIN g = K, \A k \in K : g[k] = SumOf(f, {x \in S : key[x] = k})
    PROVE  SumFunction(g) = SumOf(f, S)
<1>1. \A k \in K : g[k] \in Int
  <2>1. ASSUME NEW k \in K PROVE SumOf(f, {x \in S : key[x] = k}) \in Int
    <3> DEFINE T == {x \in S : key[x] = k}
    <3>1. IsFiniteSet(T) /\ \A x \in T : f[x] \in Int
      <4>1. T \subseteq S
        OBVIOUS
      <4> QED BY <4>1, FS_Subset
    <3> HIDE DEF T
    <3>2. SumOf(f, T) \in Int
      BY <3>1, SumTakes
    <3> QED BY <3>2 DEF T
  <2> QED BY <2>1
<1>2. SumFunction(g) = SumOf(g, K)
  BY <1>1, SumFrom
<1> QED BY <1>2, SumByKey

(***************************************************************************)
(* A chain of steps within a set: as long as each step stays in it, the    *)
(* recursion that makes them defines a function.                           *)
(***************************************************************************)
Chained(g, m, n, S, start, f) ==
    /\ g \in [m .. n -> S] /\ g[m] = start
    /\ \A k \in m + 1 .. n : g[k] = f[k][g[k - 1]]

StaysIn(S, f, m, n) == \A k \in m + 1 .. n : \A t \in S : f[k][t] \in S

LEMMA ChainRuns ==
    ASSUME NEW m \in Int, NEW n \in Int, m <= n, NEW S, NEW start \in S, NEW f, StaysIn(S, f, m, n)
    PROVE  \E g : Chained(g, m, n, S, start, f)
<1> DEFINE Runs(g, k) == /\ g \in [m .. k -> S] /\ g[m] = start
                         /\ \A j \in m + 1 .. k : g[j] = f[j][g[j - 1]]
           P == {k \in m .. n : \E g : Runs(g, k)}
<1>1. m \in P
  <2> DEFINE g == [j \in m .. m |-> start]
  <2>1. g \in [m .. m -> S] /\ g[m] = start /\ m + 1 .. m = {}
    OBVIOUS
  <2> HIDE DEF g
  <2>2. Runs(g, m)
    BY <2>1
  <2>3. m \in m .. n
    OBVIOUS
  <2> HIDE DEF Runs
  <2> QED BY <2>2, <2>3
<1>2. ASSUME NEW k \in m + 1 .. n, k - 1 \in P
      PROVE  k \in P
  <2>1. PICK g : Runs(g, k - 1)
    BY <1>2
  <2> DEFINE h == [j \in m .. k |-> IF j = k THEN f[k][g[k - 1]] ELSE g[j]]
  <2>2. k - 1 \in m .. k - 1 /\ g[k - 1] \in S
    BY <2>1
  <2>3. f[k][g[k - 1]] \in S
    BY <2>2 DEF StaysIn
  <2>4. \A j \in m .. k : h[j] \in S
    <3>1. ASSUME NEW j \in m .. k, j # k
          PROVE  j \in m .. k - 1
      BY <3>1
    <3> QED BY <2>1, <2>3, <3>1
  <2>5. h[m] = start
    BY <2>1
  <2>6. ASSUME NEW j \in m + 1 .. k
        PROVE  h[j] = f[j][h[j - 1]]
    <3>1. j \in m .. k /\ j - 1 \in m .. k /\ j - 1 # k /\ (j = k \/ j \in m + 1 .. k - 1)
      OBVIOUS
    <3> QED BY <2>1, <3>1
  <2>7. h \in [m .. k -> S]
    BY <2>4
  <2> HIDE DEF h
  <2>8. Runs(h, k)
    BY <2>5, <2>6, <2>7
  <2>9. k \in m .. n
    OBVIOUS
  <2> HIDE DEF Runs
  <2> QED BY <2>8, <2>9
<1>3. n \in P
  <2> HIDE DEF P
  <2> QED BY <1>1, <1>2, IntervalInduction
<1> QED BY <1>3 DEF Chained
===============================================================================
