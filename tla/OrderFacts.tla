----------------------------- MODULE OrderFacts ------------------------------
(***************************************************************************)
(* Facts about numbers and finite orders that several proofs rest on: the  *)
(* least number of a set, which stands in for induction, and sorting by    *)
(* the number of elements before each.                                     *)
(***************************************************************************)
EXTENDS Integers, FiniteSetsExt, FiniteSetTheorems, WellFoundedInduction, TLAPS

LEMMA LeastNumber ==
  ASSUME NEW T \in SUBSET Nat, T # {}
  PROVE  \E x \in T : \A y \in T : x <= y
<1> DEFINE UpTo(x) == 0 .. x
           U == {UpTo(x) : x \in T}
<1>1. U \subseteq FiniteSubsetsOf(Nat) /\ U # {}
  <2>1. ASSUME NEW x \in T
        PROVE  IsFiniteSet(UpTo(x)) /\ UpTo(x) \in SUBSET Nat
    BY FS_Interval
  <2> QED BY <2>1 DEF FiniteSubsetsOf
<1>2. PICK s \in U : \A r \in U : ~ (<<r, s>> \in StrictSubsetOrdering(Nat))
  BY <1>1, FS_StrictSubsetOrderingWellFounded, WFMin
<1>3. PICK x \in T : s = 0 .. x
  OBVIOUS
<1>4. \A y \in T : x <= y
  <2> SUFFICES ASSUME NEW y \in T, y < x
               PROVE  FALSE
    OBVIOUS
  <2>1. UpTo(y) \in U /\ UpTo(y) \subseteq UpTo(x) /\ UpTo(y) # UpTo(x)
    <3>1. x \in UpTo(x) /\ x \notin UpTo(y)
      BY DEF UpTo
    <3> QED BY <3>1
  <2>2. UpTo(y) \in SUBSET Nat /\ s \in SUBSET Nat
    BY <1>3
  <2> QED BY <1>2, <1>3, <2>1, <2>2 DEF StrictSubsetOrdering
<1> QED BY <1>4

LEMMA MinOfTwo ==
  ASSUME NEW a \in Nat, NEW b \in Nat
  PROVE  Min({a, b}) = IF a <= b THEN a ELSE b
<1> DEFINE m == IF a <= b THEN a ELSE b
<1>1. m \in {a, b} /\ \A y \in {a, b} : m <= y
  OBVIOUS
<1>2. \A x \in {a, b} : (\A y \in {a, b} : x <= y) => x = m
  OBVIOUS
<1> QED BY <1>1, <1>2 DEF Min

LEMMA MinOfNumbers ==
  ASSUME NEW T \in SUBSET Nat, T # {}
  PROVE  Min(T) \in T /\ \A y \in T : Min(T) <= y
BY LeastNumber DEF Min

LEMMA MaxOfTwo ==
  ASSUME NEW a \in Int, NEW b \in Int
  PROVE  Max({a, b}) = IF a >= b THEN a ELSE b
<1> DEFINE m == IF a >= b THEN a ELSE b
<1>1. m \in {a, b} /\ \A y \in {a, b} : m >= y
  OBVIOUS
<1>2. \A x \in {a, b} : (\A y \in {a, b} : x >= y) => x = m
  OBVIOUS
<1> QED BY <1>1, <1>2 DEF Max

LEMMA MaxOfNumbers ==
  ASSUME NEW n \in Nat, NEW T \in SUBSET (0 .. n), T # {}
  PROVE  Max(T) \in T /\ \A y \in T : Max(T) >= y
<1> DEFINE U == {n - x : x \in T}
<1>1. U \in SUBSET Nat /\ U # {}
  <2>1. \A x \in T : n - x \in Nat
    OBVIOUS
  <2>2. PICK x \in T : TRUE
    OBVIOUS
  <2> QED BY <2>1, <2>2
<1>2. PICK u \in U : \A v \in U : u <= v
  BY <1>1, LeastNumber
<1>3. n - u \in T /\ \A y \in T : n - u >= y
  <2>1. PICK x \in T : u = n - x
    OBVIOUS
  <2>2. \A y \in T : n - y \in U
    OBVIOUS
  <2>3. \A y \in T : u <= n - y
    BY <1>2, <2>2
  <2> QED BY <2>1, <2>3
<1> QED BY <1>3 DEF Max

-----------------------------------------------------------------------------
\* R orders S strictly.
Orders(R, S) ==
  /\ \A s \in S : <<s, s>> \notin R
  /\ \A s, t \in S : s # t => <<s, t>> \in R \/ <<t, s>> \in R
  /\ \A s, t, u \in S : <<s, t>> \in R /\ <<t, u>> \in R => <<s, u>> \in R

ElementsBefore(R, S, s) == {t \in S : <<t, s>> \in R}

\* How many elements are before one tells where it is.
LEMMA RankIncreases ==
  ASSUME NEW S, IsFiniteSet(S), NEW R, Orders(R, S), NEW s \in S, NEW t \in S, <<s, t>> \in R
  PROVE  Cardinality(ElementsBefore(R, S, s)) < Cardinality(ElementsBefore(R, S, t))
<1>1. ElementsBefore(R, S, s) \subseteq ElementsBefore(R, S, t) /\ ElementsBefore(R, S, t) \subseteq S
  BY DEF ElementsBefore, Orders
<1>2. s \in ElementsBefore(R, S, t) /\ s \notin ElementsBefore(R, S, s)
  BY DEF ElementsBefore, Orders
<1>3. IsFiniteSet(ElementsBefore(R, S, t)) /\ IsFiniteSet(ElementsBefore(R, S, s))
  BY <1>1, FS_Subset
<1>4. /\ Cardinality(ElementsBefore(R, S, s)) <= Cardinality(ElementsBefore(R, S, t))
      /\ Cardinality(ElementsBefore(R, S, s)) # Cardinality(ElementsBefore(R, S, t))
  BY <1>1, <1>2, <1>3, FS_Subset
<1>5. Cardinality(ElementsBefore(R, S, s)) \in Nat /\ Cardinality(ElementsBefore(R, S, t)) \in Nat
  BY <1>3, FS_CardinalityType
<1> QED BY <1>4, <1>5

LEMMA RankRange ==
  ASSUME NEW S, IsFiniteSet(S), NEW R, Orders(R, S), NEW s \in S
  PROVE  Cardinality(ElementsBefore(R, S, s)) \in 0 .. Cardinality(S) - 1
<1>1. ElementsBefore(R, S, s) \subseteq S /\ s \notin ElementsBefore(R, S, s)
  BY DEF ElementsBefore, Orders
<1>2. /\ IsFiniteSet(ElementsBefore(R, S, s))
      /\ Cardinality(ElementsBefore(R, S, s)) <= Cardinality(S)
      /\ Cardinality(ElementsBefore(R, S, s)) # Cardinality(S)
  BY <1>1, FS_Subset
<1>3. Cardinality(S) \in Nat /\ Cardinality(ElementsBefore(R, S, s)) \in Nat
  BY <1>2, FS_CardinalityType
<1> QED BY <1>2, <1>3

\* No two elements are in one place, and there is one in every place.
LEMMA RankBijection ==
  ASSUME NEW S, IsFiniteSet(S), NEW R, Orders(R, S)
  PROVE  [s \in S |-> Cardinality(ElementsBefore(R, S, s))] \in Bijection(S, 0 .. Cardinality(S) - 1)
<1> DEFINE n == Cardinality(S)
           rank == [s \in S |-> Cardinality(ElementsBefore(R, S, s))]
           T == {rank[s] : s \in S}
<1>1. n \in Nat
  BY FS_CardinalityType
<1>2. rank \in [S -> 0 .. n - 1] /\ T \subseteq 0 .. n - 1
  BY RankRange
<1>3. \A s, t \in S : s # t => rank[s] # rank[t]
  <2> SUFFICES ASSUME NEW s \in S, NEW t \in S, s # t
               PROVE  rank[s] # rank[t]
    OBVIOUS
  <2>1. /\ rank[s] \in Int /\ rank[t] \in Int
        /\ rank[s] = Cardinality(ElementsBefore(R, S, s)) /\ rank[t] = Cardinality(ElementsBefore(R, S, t))
    BY <1>2
  <2>2. rank[s] < rank[t] \/ rank[t] < rank[s]
    BY <2>1, RankIncreases DEF Orders
  <2> QED BY <2>1, <2>2
<1>4. ExistsBijection(S, T)
  <2>1. rank \in Bijection(S, T)
    BY <1>3 DEF Bijection, Injection, Surjection, IsInjective
  <2> QED BY <2>1 DEF ExistsBijection
<1>5. Cardinality(T) = n /\ IsFiniteSet(T)
  BY <1>4, FS_Bijection
<1>6. IsFiniteSet(0 .. n - 1) /\ Cardinality(0 .. n - 1) = n
  <2> HIDE DEF n
  <2>1. n - 1 \in Int /\ (IF 0 > n - 1 THEN 0 ELSE (n - 1) - 0 + 1) = n
    BY <1>1
  <2> QED BY <2>1, FS_Interval
<1>7. T = 0 .. n - 1
  <2> HIDE DEF T, n
  <2> QED BY <1>2, <1>5, <1>6, FS_Subset
<1> QED BY <1>2, <1>3, <1>7 DEF Bijection, Injection, Surjection, IsInjective

LEMMA RankOnto ==
  ASSUME NEW S, IsFiniteSet(S), NEW R, Orders(R, S), NEW i \in 1 .. Cardinality(S)
  PROVE  \E s \in S : Cardinality(ElementsBefore(R, S, s)) = i - 1
<1> DEFINE rank == [s \in S |-> Cardinality(ElementsBefore(R, S, s))]
<1>1. i - 1 \in 0 .. Cardinality(S) - 1
  BY FS_CardinalityType
<1>2. rank \in Bijection(S, 0 .. Cardinality(S) - 1)
  BY RankBijection
<1>3. \E s \in S : rank[s] = i - 1
  <2> HIDE DEF rank
  <2> QED BY <1>1, <1>2 DEF Bijection, Surjection
<1> QED BY <1>3

\* q has each element of S in the place of its rank.
RankedBy(q, R, S) ==
  /\ DOMAIN q = 1 .. Cardinality(S)
  /\ \A i \in DOMAIN q : q[i] \in S /\ Cardinality(ElementsBefore(R, S, q[i])) = i - 1

\* q has the elements of S in order, each once.
Lists(q, R, S) ==
  /\ \A s \in S : \E i \in DOMAIN q : q[i] = s
  /\ \A i, j \in DOMAIN q : i < j => <<q[i], q[j]>> \in R
  /\ \A i, j \in DOMAIN q : i # j => q[i] # q[j]

LEMMA RankedLists ==
  ASSUME NEW S, IsFiniteSet(S), NEW R, Orders(R, S), NEW q, RankedBy(q, R, S)
  PROVE  Lists(q, R, S)
<1>0. /\ DOMAIN q = 1 .. Cardinality(S)
      /\ \A i \in DOMAIN q : q[i] \in S /\ Cardinality(ElementsBefore(R, S, q[i])) = i - 1
  BY DEF RankedBy
<1>1. Cardinality(S) \in Nat
  BY FS_CardinalityType
<1>2. ASSUME NEW s \in S
      PROVE  \E i \in DOMAIN q : q[i] = s
  <2> DEFINE k == Cardinality(ElementsBefore(R, S, s))
  <2>1. k \in 0 .. Cardinality(S) - 1
    BY <1>2, RankRange
  <2>2. k + 1 \in DOMAIN q /\ (k + 1) - 1 = k
    BY <1>0, <1>1, <2>1
  <2>3. q[k + 1] \in S /\ Cardinality(ElementsBefore(R, S, q[k + 1])) = k
    BY <1>0, <2>2
  <2>4. q[k + 1] # s => k < k
    <3> SUFFICES ASSUME q[k + 1] # s
                 PROVE  k < k
      OBVIOUS
    <3>1. <<q[k + 1], s>> \in R \/ <<s, q[k + 1]>> \in R
      BY <1>2, <2>3 DEF Orders
    <3> QED BY <1>2, <2>3, <3>1, RankIncreases
  <2> QED BY <2>1, <2>2, <2>4
<1>3. ASSUME NEW i \in DOMAIN q, NEW j \in DOMAIN q, i < j
      PROVE  <<q[i], q[j]>> \in R /\ q[i] # q[j]
  <2>1. /\ q[i] \in S /\ Cardinality(ElementsBefore(R, S, q[i])) = i - 1
        /\ q[j] \in S /\ Cardinality(ElementsBefore(R, S, q[j])) = j - 1
    BY <1>0, <1>3
  <2>2. i - 1 < j - 1 /\ ~ j - 1 < i - 1 /\ i - 1 # j - 1
    BY <1>0, <1>1, <1>3
  <2>3. q[i] # q[j]
    BY <2>1, <2>2
  <2>4. ~ <<q[j], q[i]>> \in R
    BY <2>1, <2>2, RankIncreases
  <2> QED BY <2>1, <2>3, <2>4 DEF Orders
<1>4. ASSUME NEW i \in DOMAIN q, NEW j \in DOMAIN q, i # j
      PROVE  q[i] # q[j]
  <2>1. i < j \/ j < i
    BY <1>0, <1>1, <1>4
  <2> QED BY <1>3, <1>4, <2>1
<1> QED BY <1>2, <1>3, <1>4 DEF Lists

\* There is a first one.
LEMMA FirstElement ==
  ASSUME NEW S, IsFiniteSet(S), S # {}, NEW R, Orders(R, S)
  PROVE  \E s \in S : \A t \in S \ {s} : <<s, t>> \in R
<1>1. Cardinality(S) \in Nat /\ Cardinality(S) # 0
  BY FS_CardinalityType, FS_EmptySet
<1>2. PICK s \in S : Cardinality(ElementsBefore(R, S, s)) = 0
  <2>1. 1 \in 1 .. Cardinality(S) /\ 1 - 1 = 0
    BY <1>1
  <2> QED BY <2>1, RankOnto
<1>3. ElementsBefore(R, S, s) = {}
  <2>1. ElementsBefore(R, S, s) \subseteq S
    BY DEF ElementsBefore
  <2> QED BY <1>2, <2>1, FS_Subset, FS_EmptySet
<1>4. \A t \in S \ {s} : <<s, t>> \in R
  BY <1>3 DEF ElementsBefore, Orders
<1> QED BY <1>4

\* Some element has the largest value.
LEMMA LargestValue ==
  ASSUME NEW S \in SUBSET Int, IsFiniteSet(S), S # {}, NEW f \in [S -> Int]
  PROVE  \E s \in S : \A t \in S : f[t] <= f[s]
<1> DEFINE R == {p \in S \X S : f[p[1]] < f[p[2]] \/ (f[p[1]] = f[p[2]] /\ p[1] < p[2])}
<1>1. \A s, t \in S : <<s, t>> \in R <=> f[s] < f[t] \/ (f[s] = f[t] /\ s < t)
  OBVIOUS
<1>2. \A s \in S : s \in Int /\ f[s] \in Int
  OBVIOUS
<1> HIDE DEF R
<1>3. Orders(R, S)
  BY <1>1, <1>2 DEF Orders
<1>4. Cardinality(S) \in Nat /\ Cardinality(S) # 0
  BY FS_CardinalityType, FS_EmptySet
<1>5. PICK s \in S : Cardinality(ElementsBefore(R, S, s)) = Cardinality(S) - 1
  <2>1. Cardinality(S) \in 1 .. Cardinality(S)
    BY <1>4
  <2> QED BY <1>3, <2>1, RankOnto
<1>6. ASSUME NEW t \in S
      PROVE  f[t] <= f[s]
  <2>1. ~ <<s, t>> \in R
    <3>1. Cardinality(ElementsBefore(R, S, t)) \in 0 .. Cardinality(S) - 1
      BY <1>3, <1>6, RankRange
    <3> QED BY <1>3, <1>4, <1>5, <1>6, <3>1, RankIncreases
  <2> QED BY <1>1, <1>2, <1>6, <2>1
<1> QED BY <1>6

LEMMA MaxOfFinite ==
  ASSUME NEW S \in SUBSET Int, IsFiniteSet(S), S # {}
  PROVE  Max(S) \in S /\ \A y \in S : Max(S) >= y
<1> DEFINE f == [s \in S |-> s]
<1>1. f \in [S -> Int]
  OBVIOUS
<1>2. PICK s \in S : \A t \in S : f[t] <= f[s]
  <2> HIDE DEF f
  <2> QED BY <1>1, LargestValue
<1>3. \A t \in S : s >= t
  BY <1>2
<1> QED BY <1>3 DEF Max

=============================================================================
