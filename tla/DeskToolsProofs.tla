--------------------------- MODULE DeskToolsProofs ---------------------------
(***************************************************************************)
(* What the computations of DeskTools return, for every input.             *)
(***************************************************************************)
EXTENDS DeskTools, OrderFacts, SequenceTheorems

-----------------------------------------------------------------------------
\* Evidence.

LEMMA CompositeType ==
  ASSUME NEW e, e.time \in Int, NEW move \in Int, NEW window \in Nat
  PROVE  Composite(e, move, window) \in Int
<1>1. Magnitude(move - e.time) \in Int
  BY DEF Magnitude
<1>2. window * Day - Magnitude(move - e.time) \in Int
  BY <1>1 DEF Day
<1>3. Proximity(move, e.time, window) \in Int
  <2> DEFINE n == window * Day - Magnitude(move - e.time)
  <2>1. n \in Int
    BY <1>2
  <2> HIDE DEF n
  <2>2. Max({0, n}) \in Int
    BY <2>1, MaxOfTwo
  <2> QED BY <2>2 DEF Proximity, n
<1>4. Relevance(e.type) \in Int /\ Novelty(e.type) \in Int
  BY DEF Relevance, Novelty
<1> HIDE DEF Day
<1> DEFINE p == Proximity(move, e.time, window)
           r == Relevance(e.type)
           v == Novelty(e.type)
<1>5. p * r * v \in Int
  <2>1. p \in Int /\ r \in Int /\ v \in Int
    BY <1>3, <1>4
  <2> HIDE DEF p, r, v
  <2> QED BY <2>1
<1> QED BY <1>5 DEF Composite

AreEvents(events) ==
  /\ IsFiniteSet(events)
  /\ \A e \in events : e.id \in Int /\ e.time \in Int
  /\ \A e, f \in events : e.id = f.id => e = f

InRange(events, start, end) == {e \in events : start <= e.time /\ e.time <= end}

\* q has the elements of S, each once.
ListsOnce(q, S) ==
  /\ DOMAIN q = 1 .. Cardinality(S)
  /\ \A i \in DOMAIN q : q[i] \in S
  /\ \A e \in S : \E i \in DOMAIN q : q[i] = e
  /\ \A i, j \in DOMAIN q : i # j => q[i] # q[j]

\* The query returns each event of its range once.
LEMMA EventsBetweenListed ==
  ASSUME NEW events, AreEvents(events), NEW start \in Int, NEW end \in Int
  PROVE  /\ IsFiniteSet(InRange(events, start, end))
         /\ ListsOnce(EventsBetween(events, start, end), InRange(events, start, end))
<1> DEFINE S == InRange(events, start, end)
           q == EventsBetween(events, start, end)
           Earlier(e, f) == e.time < f.time \/ (e.time = f.time /\ e.id < f.id)
           R == {p \in S \X S : Earlier(p[1], p[2])}
           Rank(e) == Cardinality({f \in S : Earlier(f, e)})
<1>1. IsFiniteSet(S)
  BY FS_Subset DEF AreEvents, InRange
<1>2. \A e, f \in S : <<e, f>> \in R <=> Earlier(e, f)
  OBVIOUS
<1>3. Orders(R, S)
  <2>1. \A e \in S : e.time \in Int /\ e.id \in Int
    BY DEF AreEvents, InRange
  <2>2. \A e, f \in S : e.id = f.id => e = f
    BY DEF AreEvents, InRange
  <2> HIDE DEF S, R
  <2> QED BY <1>2, <2>1, <2>2 DEF Orders
<1>4. ASSUME NEW e \in S
      PROVE  Cardinality(ElementsBefore(R, S, e)) = Rank(e)
  <2>1. ElementsBefore(R, S, e) = {f \in S : Earlier(f, e)}
    <3> HIDE DEF S, R
    <3> QED BY <1>2 DEF ElementsBefore
  <2> QED BY <2>1
<1>5. q = [i \in 1 .. Cardinality(S) |-> CHOOSE e \in S : Rank(e) = i - 1]
  BY DEF EventsBetween, Sorted, InRange
<1>6. ASSUME NEW i \in 1 .. Cardinality(S)
      PROVE  q[i] \in S /\ Cardinality(ElementsBefore(R, S, q[i])) = i - 1
  <2>1. \E e \in S : Rank(e) = i - 1
    <3>1. \E e \in S : Cardinality(ElementsBefore(R, S, e)) = i - 1
      <4> HIDE DEF S, R
      <4> QED BY <1>1, <1>3, <1>6, RankOnto
    <3> QED BY <1>4, <3>1
  <2>2. q[i] \in S /\ Rank(q[i]) = i - 1
    <3> HIDE DEF S, Rank, q
    <3> QED BY <1>5, <1>6, <2>1
  <2> QED BY <1>4, <2>2
<1>7. DOMAIN q = 1 .. Cardinality(S)
  BY <1>5
<1>8. Lists(q, R, S)
  <2> HIDE DEF S, R, q, Rank
  <2>1. RankedBy(q, R, S)
    BY <1>6, <1>7 DEF RankedBy
  <2> QED BY <1>1, <1>3, <2>1, RankedLists
<1> QED BY <1>1, <1>6, <1>7, <1>8 DEF Lists, ListsOnce

Nearby(events, n, move, window) ==
  {i \in 1 .. n : /\ move - events[i].time >= - Day
                  /\ move - events[i].time <= window * Day}

BestFirst(found, move, window) ==
  /\ \A k \in DOMAIN found : found[k].strength = Strength(found[k].event, move, window)
  /\ \A k, l \in DOMAIN found : k < l =>
       Composite(found[k].event, move, window) >= Composite(found[l].event, move, window)

FindsAll(found, events, near) ==
  /\ IsFiniteSet(near) /\ DOMAIN found = 1 .. Cardinality(near) /\ Len(found) = Cardinality(near)
  /\ \A k \in DOMAIN found : \E i \in near : found[k].event = events[i]
  /\ \A i \in near : \E k \in DOMAIN found : found[k].event = events[i]

\* Each event of the list that is near the move is found once, best first.
LEMMA CorrelateFinds ==
  ASSUME NEW move \in Int, NEW window \in Nat, NEW n \in Nat, NEW events, DOMAIN events = 1 .. n,
         \A i \in 1 .. n : events[i].time \in Int
  PROVE  /\ FindsAll(Correlate(move, events, window), events, Nearby(events, n, move, window))
         /\ BestFirst(Correlate(move, events, window), move, window)
<1> DEFINE near == Nearby(events, n, move, window)
           C(i) == Composite(events[i], move, window)
           Earlier(i, j) == \/ C(i) > C(j)
                            \/ C(i) = C(j) /\ events[i].time > events[j].time
                            \/ C(i) = C(j) /\ events[i].time = events[j].time /\ i < j
           R == {p \in near \X near : Earlier(p[1], p[2])}
           Rank(i) == Cardinality({j \in near : Earlier(j, i)})
           order == [k \in 1 .. Cardinality(near) |-> CHOOSE i \in near : Rank(i) = k - 1]
           found == Correlate(move, events, window)
<1>1. IsFiniteSet(near) /\ near \subseteq 1 .. n
  <2>1. IsFiniteSet(1 .. n)
    BY FS_Interval
  <2>2. near \subseteq 1 .. n
    BY DEF Nearby
  <2> HIDE DEF near
  <2> QED BY <2>1, <2>2, FS_Subset
<1>2. \A i, j \in near : <<i, j>> \in R <=> Earlier(i, j)
  OBVIOUS
<1>3. Orders(R, near)
  <2>1. \A i \in near : i \in Int /\ C(i) \in Int /\ events[i].time \in Int
    BY <1>1, CompositeType
  <2> DEFINE t == [i \in near |-> events[i].time]
             c == [i \in near |-> C(i)]
  <2>2. \A i, j \in near : Earlier(i, j) <=> \/ c[i] > c[j]
                                             \/ c[i] = c[j] /\ t[i] > t[j]
                                             \/ c[i] = c[j] /\ t[i] = t[j] /\ i < j
    OBVIOUS
  <2>3. \A i \in near : i \in Int /\ c[i] \in Int /\ t[i] \in Int
    BY <2>1
  <2> HIDE DEF near, R, C, t, c, Earlier
  <2> QED BY <1>2, <2>2, <2>3 DEF Orders
<1>4. ASSUME NEW i \in near
      PROVE  Cardinality(ElementsBefore(R, near, i)) = Rank(i)
  <2>1. ElementsBefore(R, near, i) = {j \in near : Earlier(j, i)}
    <3> HIDE DEF near, R, Earlier
    <3> QED BY <1>2, <1>4 DEF ElementsBefore
  <2> QED BY <2>1
<1>5. found = [k \in 1 .. Cardinality(near) |->
                 [event |-> events[order[k]], strength |-> Strength(events[order[k]], move, window)]]
  BY DEF Correlate, Sorted, Nearby
<1>6. ASSUME NEW k \in 1 .. Cardinality(near)
      PROVE  order[k] \in near /\ Cardinality(ElementsBefore(R, near, order[k])) = k - 1
  <2>1. \E i \in near : Rank(i) = k - 1
    <3>1. \E i \in near : Cardinality(ElementsBefore(R, near, i)) = k - 1
      <4> HIDE DEF near, R
      <4> QED BY <1>1, <1>3, <1>6, RankOnto
    <3> QED BY <1>4, <3>1
  <2>2. order[k] \in near /\ Rank(order[k]) = k - 1
    <3> HIDE DEF near, Rank
    <3> QED BY <1>6, <2>1
  <2> QED BY <1>4, <2>2
<1>7. DOMAIN order = 1 .. Cardinality(near)
  OBVIOUS
<1>8. Lists(order, R, near)
  <2> HIDE DEF near, R, order, Rank
  <2>1. RankedBy(order, R, near)
    BY <1>6, <1>7 DEF RankedBy
  <2> QED BY <1>1, <1>3, <2>1, RankedLists
<1>9. ASSUME NEW k \in DOMAIN order, NEW l \in DOMAIN order, k < l
      PROVE  C(order[k]) >= C(order[l])
  <2>1. order[k] \in near /\ order[l] \in near /\ <<order[k], order[l]>> \in R
    BY <1>6, <1>7, <1>8, <1>9 DEF Lists
  <2>2. Earlier(order[k], order[l])
    <3> HIDE DEF near, R, order, Earlier
    <3> QED BY <1>2, <2>1
  <2>3. C(order[k]) \in Int /\ C(order[l]) \in Int
    BY <1>1, <2>1, CompositeType
  <2> HIDE DEF near, R, order, C
  <2> QED BY <2>2, <2>3
<1> HIDE DEF near, order, found
<1>10. DOMAIN found = 1 .. Cardinality(near) /\ Len(found) = Cardinality(near)
  <2>1. Cardinality(near) \in Nat
    BY <1>1, FS_CardinalityType
  <2> QED BY <1>5, <2>1
<1>11. \A k \in DOMAIN found :
         /\ found[k].event = events[order[k]]
         /\ found[k].strength = Strength(found[k].event, move, window)
  BY <1>5
<1>12. \A k \in DOMAIN found : \E i \in near : found[k].event = events[i]
  BY <1>6, <1>10, <1>11
<1>13. \A i \in near : \E k \in DOMAIN found : found[k].event = events[i]
  BY <1>7, <1>8, <1>10, <1>11 DEF Lists
<1>14. \A k, l \in DOMAIN found : k < l =>
         Composite(found[k].event, move, window) >= Composite(found[l].event, move, window)
  BY <1>7, <1>9, <1>10, <1>11
<1> QED BY <1>1, <1>10, <1>11, <1>12, <1>13, <1>14 DEF near, found, FindsAll, BestFirst

\* The move detected is one of the largest of its days.
LEMMA DetectMoveIsLargest ==
  ASSUME NEW bars \in Seq([close : Nat, volume : Nat, time : Int]), NEW lookback \in Nat
  PROVE  LET i == DetectMove(bars, lookback)
         IN  \/ i = None
             \/ /\ i \in MoveDays(bars, lookback) /\ i \in 1 .. Len(bars) /\ i # None
                /\ \A j \in MoveDays(bars, lookback) :
                     Magnitude(Move(bars, j)) <= Magnitude(Move(bars, i))
<1> DEFINE days == MoveDays(bars, lookback)
           size == [i \in days |-> Magnitude(Move(bars, i))]
           largest == {i \in days : \A j \in days : size[j] <= size[i]}
           n == Len(bars)
<1>1. n \in Nat /\ \A i \in 1 .. n : bars[i].close \in Nat
  <2>1. \A i \in 1 .. n : bars[i] \in [close : Nat, volume : Nat, time : Int]
    BY ElementOfSeq
  <2> QED BY <2>1, LenProperties
<1>2. days \subseteq 2 .. n /\ IsFiniteSet(days)
  <2> DEFINE first == Max({2, n - lookback + 1})
  <2>1. first \in Int /\ first >= 2
    <3>1. n - lookback + 1 \in Int
      BY <1>1
    <3> QED BY <3>1, MaxOfTwo
  <2>2. days \subseteq first .. n
    BY DEF MoveDays
  <2> HIDE DEF first, days, n
  <2>3. days \subseteq 2 .. n
    BY <1>1, <2>1, <2>2
  <2>4. IsFiniteSet(2 .. n)
    BY <1>1, FS_Interval
  <2> QED BY <2>3, <2>4, FS_Subset
<1>3. size \in [days -> Int]
  <2>1. ASSUME NEW i \in days
        PROVE  Magnitude(Move(bars, i)) \in Int
    <3>1. i \in 1 .. n /\ i - 1 \in 1 .. n
      <4>1. i \in 2 .. n
        BY <1>2, <2>1
      <4> HIDE DEF n
      <4> QED BY <1>1, <4>1
    <3>2. Move(bars, i) # None
      BY DEF MoveDays
    <3>3. Move(bars, i) \in Int
      <4> DEFINE x == bars[i].close
                 y == bars[i - 1].close
      <4>1. x \in Nat /\ y \in Nat
        BY <1>1, <3>1
      <4>2. y # 0
        BY <3>2 DEF Move, PctChange
      <4>3. Move(bars, i) = (100 * (x - y)) \div y
        BY <4>2 DEF Move, PctChange
      <4> HIDE DEF x, y
      <4>4. 100 * (x - y) \in Int
        BY <4>1
      <4> QED BY <4>1, <4>2, <4>3, <4>4
    <3> QED BY <3>3 DEF Magnitude
  <2> QED BY <2>1
<1>4. CASE days = {}
  BY <1>4 DEF DetectMove
<1>5. CASE days # {}
  <2>1. days \in SUBSET Int /\ days \in SUBSET Nat
    BY <1>1, <1>2
  <2>2. largest # {}
    <3> HIDE DEF days, size
    <3>1. \E i \in days : \A j \in days : size[j] <= size[i]
      BY <1>2, <1>3, <1>5, <2>1, LargestValue
    <3> QED BY <3>1
  <2>3. Min(largest) \in largest
    <3>1. largest \in SUBSET Nat
      BY <2>1
    <3> HIDE DEF largest
    <3> QED BY <2>2, <3>1, MinOfNumbers
  <2>4. largest = {i \in days : \A j \in days : Magnitude(Move(bars, j)) <= Magnitude(Move(bars, i))}
    OBVIOUS
  <2>5. DetectMove(bars, lookback) = Min(largest)
    BY <1>5, <2>4 DEF DetectMove
  <2>6. Min(largest) \in days /\ \A j \in days :
          Magnitude(Move(bars, j)) <= Magnitude(Move(bars, Min(largest)))
    BY <2>3
  <2>7. Min(largest) \in 1 .. n /\ Min(largest) # None
    BY <1>1, <1>2, <2>6, NoneIsNoNumber
  <2> QED BY <2>5, <2>6, <2>7
<1> QED BY <1>4, <1>5

Inside(events, at, window) == {e \in events : at - e.time >= - Day /\ at - e.time <= window * Day}

\* The evidence found for a move is the events of its window, best first.
LEMMA EvidenceFound ==
  ASSUME NEW events, AreEvents(events), NEW at \in Int, NEW window \in Nat
  PROVE  LET found == Correlate(at, EventsForMove(events, at, window), window)
         IN  /\ {found[k].event : k \in DOMAIN found} = Inside(events, at, window)
             /\ Len(found) = Cardinality(Inside(events, at, window))
             /\ BestFirst(found, at, window)
<1> DEFINE inside == Inside(events, at, window)
           start == at - (window + 1) * Day
           end == at + Day
           S == InRange(events, start, end)
           q == EventsBetween(events, start, end)
           n == Cardinality(S)
           near == Nearby(q, n, at, window)
           found == Correlate(at, q, window)
<1>1. start \in Int /\ end \in Int
  BY DEF Day
<1>2. /\ IsFiniteSet(S) /\ DOMAIN q = 1 .. n
      /\ \A i \in 1 .. n : q[i] \in S
      /\ \A e \in S : \E i \in 1 .. n : q[i] = e
      /\ \A i, j \in 1 .. n : i # j => q[i] # q[j]
  <2>1. IsFiniteSet(S) /\ ListsOnce(q, S)
    <3> HIDE DEF start, end
    <3> QED BY <1>1, EventsBetweenListed
  <2> QED BY <2>1 DEF ListsOnce
<1>3. n \in Nat
  BY <1>2, FS_CardinalityType
<1>4. \A i \in 1 .. n : q[i].time \in Int
  BY <1>2 DEF AreEvents, InRange
<1>5. FindsAll(found, q, near) /\ BestFirst(found, at, window)
  <2> HIDE DEF n, q
  <2> QED BY <1>2, <1>3, <1>4, CorrelateFinds
<1>6. inside \subseteq S
  BY DEF Day, AreEvents, InRange, Inside
<1>7. \A e \in inside : \E i \in near : q[i] = e
  <2> SUFFICES ASSUME NEW e \in inside
               PROVE  \E i \in near : q[i] = e
    OBVIOUS
  <2>1. PICK i \in 1 .. n : q[i] = e
    BY <1>2, <1>6
  <2>2. at - e.time >= - Day /\ at - e.time <= window * Day
    BY DEF Inside
  <2>3. i \in near
    BY <2>1, <2>2 DEF Nearby
  <2> QED BY <2>1, <2>3
<1>8. \A i \in near : q[i] \in inside
  BY <1>2 DEF InRange, Inside, Nearby
<1>9. \A i, j \in near : i # j => q[i] # q[j]
  BY <1>2 DEF Nearby
<1> HIDE DEF near, inside, q, found, S, n
<1>10. Cardinality(inside) = Cardinality(near) /\ Cardinality(near) \in Nat
  <2> DEFINE f == [i \in near |-> q[i]]
  <2>1. f \in Bijection(near, inside)
    BY <1>7, <1>8, <1>9 DEF Bijection, Injection, Surjection, IsInjective
  <2>2. ExistsBijection(near, inside)
    BY <2>1 DEF ExistsBijection
  <2> QED BY <1>5, <2>2, FS_Bijection, FS_CardinalityType DEF FindsAll
<1>11. {found[k].event : k \in DOMAIN found} = inside
  BY <1>5, <1>7, <1>8 DEF FindsAll
<1>12. found = Correlate(at, EventsForMove(events, at, window), window)
  BY DEF found, q, EventsForMove
<1> QED BY <1>5, <1>10, <1>11, <1>12 DEF inside, FindsAll

LEMMA GoodExplanations ==
  ASSUME NEW x, IsExplainCall(x)
  PROVE  GoodExplanation(x, ExplainMove(x.bars, x.events, x.lookback, x.window))
<1> DEFINE m == DetectMove(x.bars, x.lookback)
           at == x.bars[m].time
           answer == ExplainMove(x.bars, x.events, x.lookback, x.window)
           found == Correlate(at, EventsForMove(x.events, at, x.window), x.window)
           inside == Inside(x.events, at, x.window)
           strengths == {found[k].strength : k \in DOMAIN found}
<1>1. CASE m = None
  BY <1>1 DEF ExplainMove, GoodExplanation
<1>2. CASE m # None
  <2>1. /\ m \in MoveDays(x.bars, x.lookback) /\ m \in 1 .. Len(x.bars)
        /\ \A j \in MoveDays(x.bars, x.lookback) :
             Magnitude(Move(x.bars, j)) <= Magnitude(Move(x.bars, m))
    BY <1>2, DetectMoveIsLargest DEF IsExplainCall
  <2>2. at \in Int
    <3>1. x.bars[m] \in [close : Nat, volume : Nat, time : Int]
      BY <2>1, ElementOfSeq DEF IsExplainCall
    <3> QED BY <3>1
  <2>3. /\ {found[k].event : k \in DOMAIN found} = inside
        /\ Len(found) = Cardinality(inside) /\ BestFirst(found, at, x.window)
    <3> DEFINE events == x.events
               window == x.window
    <3>1. AreEvents(events) /\ window \in Nat
      BY DEF IsExplainCall, AreEvents
    <3>2. LET list == Correlate(at, EventsForMove(events, at, window), window)
          IN  /\ {list[k].event : k \in DOMAIN list} = Inside(events, at, window)
              /\ Len(list) = Cardinality(Inside(events, at, window))
              /\ BestFirst(list, at, window)
      <4> HIDE DEF events, window, at
      <4> QED BY <2>2, <3>1, EvidenceFound
    <3> QED BY <3>2
  <2>4. /\ answer.move = m /\ answer.catalysts = found
        /\ answer.causal = Max({0} \cup strengths)
    BY <1>2 DEF ExplainMove
  <2>5. strengths \subseteq 1 .. 3
    <3>1. \A k \in DOMAIN found : found[k].strength \in 1 .. 3
      <4>1. \A e : Strength(e, at, x.window) \in 1 .. 3
        BY DEF Strength
      <4> HIDE DEF found
      <4> QED BY <2>3, <4>1 DEF BestFirst
    <3> QED BY <3>1
  <2>6. /\ Max({0} \cup strengths) \in {0} \cup strengths
        /\ \A y \in {0} \cup strengths : Max({0} \cup strengths) >= y
    <3>1. {0} \cup strengths \in SUBSET (0 .. 3) /\ {0} \cup strengths # {}
      BY <2>5
    <3> HIDE DEF strengths
    <3> QED BY <3>1, MaxOfNumbers
  <2>7. /\ \A k \in DOMAIN found : answer.causal >= found[k].strength
        /\ answer.causal # 0 => \E k \in DOMAIN found : answer.causal = found[k].strength
    BY <2>4, <2>6
  <2>8. GoodExplanation(x, answer)
    <3>1. inside = Admissible(x, at)
      BY DEF Inside, Admissible
    <3>2. Evidence(x, at) \subseteq inside
      <4>1. \A e \in x.events : e.time \in Int
        BY DEF IsExplainCall
      <4>2. ASSUME NEW t \in Int, at - t > - Day
            PROVE  at - t >= - Day
        <5> HIDE DEF at
        <5> QED BY <2>2, <4>2 DEF Day
      <4> HIDE DEF at
      <4> QED BY <4>1, <4>2 DEF Evidence, Inside
    <3> HIDE DEF m, answer, found, strengths, inside
    <3> QED BY <1>2, <2>1, <2>3, <2>4, <2>7, <3>1, <3>2 DEF GoodExplanation, BestFirst
  <2> QED BY <2>8
<1> QED BY <1>1, <1>2

-----------------------------------------------------------------------------
\* Fundamentals.

AnnualTags(facts, c) ==
  FirstWithData(Tags[c], {facts[i].tag : i \in {j \in DOMAIN facts : facts[j].fp = "FY"}})

\* by has the values of the years of a tag, each as it was filed last.
AnnualValues(by, full, tags) ==
  /\ by = [p \in DOMAIN by |-> by[p]]
  /\ DOMAIN by = {f.period : f \in {g \in full : g.tag \in tags}}
  /\ \A p \in DOMAIN by :
       \E f \in full : f.tag \in tags /\ f.period = p /\ FiledLast(f, full) /\ by[p] = f.value

\* Facts of these tags that were filed last agree on the value.
Settled(full, tags) ==
  \A f, g \in full : (/\ f.tag \in tags /\ g.tag \in tags /\ f.period = g.period
                      /\ FiledLast(f, full) /\ FiledLast(g, full)) => f.value = g.value

LEMMA SameAnnualValues ==
  ASSUME NEW full, NEW tags, NEW by, NEW also, Settled(full, tags),
         AnnualValues(by, full, tags), AnnualValues(also, full, tags)
  PROVE  by = also
<1>1. DOMAIN by = DOMAIN also
  BY DEF AnnualValues
<1>2. ASSUME NEW p \in DOMAIN by
      PROVE  by[p] = also[p]
  <2>1. PICK f \in full : f.tag \in tags /\ f.period = p /\ FiledLast(f, full) /\ by[p] = f.value
    BY <1>2 DEF AnnualValues
  <2>2. PICK g \in full : g.tag \in tags /\ g.period = p /\ FiledLast(g, full) /\ also[p] = g.value
    BY <1>1, <1>2 DEF AnnualValues
  <2> QED BY <2>1, <2>2 DEF Settled
<1>3. by = [p \in DOMAIN by |-> by[p]] /\ also = [p \in DOMAIN also |-> also[p]]
  BY DEF AnnualValues
<1> QED BY <1>1, <1>2, <1>3

LEMMA OneTagWithData ==
  ASSUME NEW c \in Concepts, NEW tags
  PROVE  LET first == FirstWithData(Tags[c], tags)
         IN  /\ first = {} \/ \E t \in tags : first = {t} /\ t \in Range(Tags[c])
             /\ first = {} => \A t \in tags : t \notin Range(Tags[c])
<1> DEFINE usable == {k \in DOMAIN Tags[c] : Tags[c][k] \in tags}
<1>1. usable \in SUBSET Nat
  <2>1. Tags[c] \in Seq(Range(Tags[c]))
    BY StatementConstants
  <2>2. DOMAIN Tags[c] = 1 .. Len(Tags[c])
    BY <2>1, LenProperties
  <2> QED BY <2>2
<1>2. CASE usable = {}
  <2>1. \A t \in tags : t \notin Range(Tags[c])
    BY <1>2 DEF Range
  <2> QED BY <1>2, <2>1 DEF FirstWithData
<1>3. CASE usable # {}
  <2>1. Min(usable) \in usable
    <3> HIDE DEF usable
    <3> QED BY <1>1, <1>3, MinOfNumbers
  <2>2. FirstWithData(Tags[c], tags) = {Tags[c][Min(usable)]}
    BY <1>3 DEF FirstWithData
  <2>3. Tags[c][Min(usable)] \in tags /\ Tags[c][Min(usable)] \in Range(Tags[c])
    BY <2>1 DEF Range
  <2> QED BY <2>2, <2>3
<1> QED BY <1>2, <1>3

LEMMA AtMostOneTag ==
  ASSUME NEW c \in Concepts, NEW tags
  PROVE  \A s, t \in FirstWithData(Tags[c], tags) : s = t
<1>1. FirstWithData(Tags[c], tags) = {} \/ \E t : FirstWithData(Tags[c], tags) = {t}
  BY OneTagWithData
<1> QED BY <1>1

LEMMA FactListFacts ==
  ASSUME NEW facts, IsFactList(facts)
  PROVE  /\ Len(facts) \in Nat /\ DOMAIN facts = 1 .. Len(facts)
         /\ IsFiniteSet(DOMAIN facts)
         /\ Range(facts) = {facts[i] : i \in DOMAIN facts}
<1>1. Len(facts) \in Nat /\ DOMAIN facts = 1 .. Len(facts)
  BY LenProperties DEF IsFactList
<1>2. IsFiniteSet(1 .. Len(facts))
  BY <1>1, FS_Interval
<1> QED BY <1>1, <1>2 DEF Range

\* Of the versions of a year there is a last one.
LEMMA LatestVersionExists ==
  ASSUME NEW facts, IsFactList(facts), NEW tag, NEW i \in DOMAIN facts,
         facts[i].tag = tag, facts[i].fp = "FY"
  PROVE  \E k \in LatestVersions(facts, tag) : facts[k].period = facts[i].period
<1> DEFINE S == {j \in DOMAIN facts : /\ facts[j].tag = tag /\ facts[j].fp = "FY"
                                      /\ facts[j].period = facts[i].period}
           Later(j, k) == \/ facts[j].filed > facts[k].filed
                          \/ facts[j].filed = facts[k].filed /\ j < k
           R == {p \in S \X S : Later(p[1], p[2])}
<1>1. IsFiniteSet(S) /\ S # {}
  BY FactListFacts, FS_Subset
<1>2. \A j \in S : j \in Int /\ facts[j].filed \in Int
  BY FactListFacts DEF IsFactList
<1>3. \A j, k \in S : <<j, k>> \in R <=> Later(j, k)
  OBVIOUS
<1>4. Orders(R, S)
  <2> HIDE DEF S, R
  <2> QED BY <1>2, <1>3 DEF Orders
<1>5. PICK k \in S : \A j \in S \ {k} : <<k, j>> \in R
  <2> HIDE DEF S, R
  <2> QED BY <1>1, <1>4, FirstElement
<1>6. /\ k \in DOMAIN facts /\ facts[k].tag = tag /\ facts[k].fp = "FY"
      /\ facts[k].period = facts[i].period
  OBVIOUS
<1>7. ASSUME NEW j \in DOMAIN facts, facts[j].tag = tag, facts[j].fp = "FY", j # k,
             facts[j].period = facts[k].period
      PROVE  Later(k, j)
  <2>1. j \in S \ {k}
    BY <1>6, <1>7
  <2> HIDE DEF S, R
  <2> QED BY <1>3, <1>5, <2>1
<1> HIDE DEF S, R
<1>8. k \in LatestVersions(facts, tag)
  BY <1>6, <1>7 DEF LatestVersions
<1> QED BY <1>6, <1>8

LEMMA AnnualByPeriodValues ==
  ASSUME NEW facts, IsFactList(facts), NEW c \in Concepts
  PROVE  AnnualValues(AnnualByPeriod(facts, c), FullYear(facts), AnnualTags(facts, c))
<1> DEFINE full == FullYear(facts)
           tags == AnnualTags(facts, c)
           by == AnnualByPeriod(facts, c)
           chosen == UNION {LatestVersions(facts, tag) : tag \in tags}
<1>1. by = [p \in {facts[i].period : i \in chosen} |->
              facts[CHOOSE i \in chosen : facts[i].period = p].value]
  BY DEF AnnualByPeriod, AnnualTags
<1>2. tags = {} \/ \E t : tags = {t}
  BY OneTagWithData DEF AnnualTags
<1>3. ASSUME NEW i \in chosen
      PROVE  /\ i \in DOMAIN facts /\ facts[i] \in full /\ facts[i].tag \in tags
             /\ \A j \in DOMAIN facts \ {i} :
                  facts[j] \in full /\ facts[j].tag = facts[i].tag /\ facts[j].period = facts[i].period
                    => \/ facts[i].filed > facts[j].filed
                       \/ facts[i].filed = facts[j].filed /\ i < j
  BY <1>3, FactListFacts DEF LatestVersions, FullYear
<1>4. \A i, j \in chosen : facts[i].period = facts[j].period => i = j
  <2> SUFFICES ASSUME NEW i \in chosen, NEW j \in chosen, facts[i].period = facts[j].period, i # j
               PROVE  FALSE
    OBVIOUS
  <2>1. facts[i].tag = facts[j].tag
    BY <1>2, <1>3
  <2>2. i \in Int /\ j \in Int /\ facts[i].filed \in Int /\ facts[j].filed \in Int
    BY <1>3, FactListFacts DEF IsFactList
  <2>3. /\ facts[i].filed > facts[j].filed \/ (facts[i].filed = facts[j].filed /\ i < j)
        /\ facts[j].filed > facts[i].filed \/ (facts[j].filed = facts[i].filed /\ j < i)
    BY <1>3, <2>1
  <2> QED BY <2>2, <2>3
<1>5. ASSUME NEW i \in chosen
      PROVE  FiledLast(facts[i], full)
  <2>1. \A g \in full : \E j \in DOMAIN facts : g = facts[j]
    BY FactListFacts DEF FullYear
  <2>2. \A j \in DOMAIN facts : facts[j].filed \in Int
    BY DEF IsFactList
  <2> HIDE DEF full, chosen
  <2> QED BY <1>3, <1>5, <2>1, <2>2 DEF FiledLast
<1>6. ASSUME NEW f \in full, f.tag \in tags
      PROVE  \E i \in chosen : facts[i].period = f.period /\ facts[i].tag = f.tag
  <2>1. PICK j \in DOMAIN facts : f = facts[j] /\ facts[j].fp = "FY"
    BY FactListFacts DEF FullYear
  <2>2. PICK i \in LatestVersions(facts, f.tag) : facts[i].period = f.period
    BY <2>1, LatestVersionExists
  <2>3. i \in chosen /\ facts[i].tag = f.tag
    BY <1>6, <2>2 DEF LatestVersions
  <2> QED BY <2>2, <2>3
<1>7. DOMAIN by = {facts[i].period : i \in chosen}
  BY <1>1
<1>8. \A i \in chosen : by[facts[i].period] = facts[i].value
  <2> SUFFICES ASSUME NEW i \in chosen
               PROVE  by[facts[i].period] = facts[i].value
    OBVIOUS
  <2> DEFINE k == CHOOSE k \in chosen : facts[k].period = facts[i].period
  <2>1. k \in chosen /\ facts[k].period = facts[i].period
    <3> HIDE DEF chosen
    <3> QED OBVIOUS
  <2>2. k = i
    BY <1>4, <2>1
  <2>3. by[facts[i].period] = facts[k].value
    <3> HIDE DEF chosen
    <3> QED BY <1>1
  <2> QED BY <2>2, <2>3
<1>9. DOMAIN by = {f.period : f \in {g \in full : g.tag \in tags}}
  <2> HIDE DEF chosen, full, tags
  <2> QED BY <1>3, <1>6, <1>7
<1>10. ASSUME NEW p \in DOMAIN by
       PROVE  \E f \in full : f.tag \in tags /\ f.period = p /\ FiledLast(f, full) /\ by[p] = f.value
  <2>1. PICK i \in chosen : facts[i].period = p
    BY <1>7, <1>10
  <2>2. /\ facts[i] \in full /\ facts[i].tag \in tags /\ FiledLast(facts[i], full)
        /\ by[p] = facts[i].value
    BY <1>3, <1>5, <1>8, <2>1
  <2> QED BY <2>1, <2>2
<1>11. by = [p \in DOMAIN by |-> by[p]]
  BY <1>1
<1> QED BY <1>9, <1>10, <1>11 DEF AnnualValues

LEMMA UntiedIsSettled ==
  ASSUME NEW facts, IsFactList(facts), Untied(facts), NEW c \in Concepts
  PROVE  Settled(FullYear(facts), AnnualTags(facts, c))
<1> DEFINE full == FullYear(facts)
           tags == AnnualTags(facts, c)
<1>1. \A s, t \in tags : s = t
  <2> DEFINE data == {facts[i].tag : i \in {j \in DOMAIN facts : facts[j].fp = "FY"}}
  <2> HIDE DEF data
  <2>1. \A s, t \in FirstWithData(Tags[c], data) : s = t
    BY AtMostOneTag
  <2> QED BY <2>1 DEF AnnualTags, data
<1>2. \A f \in full : f \in Range(facts) /\ f.filed \in Int
  <2>1. \A f \in full : \E i \in DOMAIN facts : f = facts[i]
    BY FactListFacts DEF FullYear
  <2> QED BY <2>1 DEF FullYear, IsFactList
<1>3. ASSUME NEW f \in full, NEW g \in full, f.tag = g.tag, f.period = g.period,
             FiledLast(f, full), FiledLast(g, full)
      PROVE  f.value = g.value
  <2>1. f.filed <= g.filed /\ g.filed <= f.filed
    BY <1>3 DEF FiledLast
  <2>2. f.filed = g.filed
    BY <1>2, <2>1
  <2> QED BY <1>2, <1>3, <2>2 DEF Untied
<1> QED BY <1>1, <1>3 DEF Settled

InstantTags(facts, c) == FirstWithData(Tags[c], {facts[i].tag : i \in DOMAIN facts})

\* f is the last version of the latest period of its tag.
Newest(f, all) ==
  \A g \in all : g.tag = f.tag => g.period < f.period \/ (g.period = f.period /\ g.filed <= f.filed)

InstantValue(v, all, tags) ==
  /\ tags = {} => v = None
  /\ tags # {} => \E f \in all : f.tag \in tags /\ Newest(f, all) /\ v = f.value

LEMMA LatestInstantValue ==
  ASSUME NEW facts, IsFactList(facts), NEW c \in Concepts
  PROVE  InstantValue(LatestInstant(facts, c), Range(facts), InstantTags(facts, c))
<1> DEFINE all == Range(facts)
           tags == InstantTags(facts, c)
           Newer(i, j) == \/ facts[i].period > facts[j].period
                          \/ /\ facts[i].period = facts[j].period
                             /\ \/ facts[i].filed > facts[j].filed
                                \/ facts[i].filed = facts[j].filed /\ i < j
           Of(tag) == {i \in DOMAIN facts : facts[i].tag = tag}
           BestOf(tag) == {i \in Of(tag) : \A j \in Of(tag) \ {i} : Newer(i, j)}
           best == UNION {BestOf(tag) : tag \in tags}
           v == LatestInstant(facts, c)
<1>1. v = IF best = {} THEN None ELSE facts[Max(best)].value
  BY DEF LatestInstant, InstantTags
<1>2. tags = {} \/ \E t : tags = {t} /\ \E i \in DOMAIN facts : facts[i].tag = t
  <2> DEFINE data == {facts[i].tag : i \in DOMAIN facts}
  <2>1. tags = {} \/ \E t \in data : tags = {t}
    <3> HIDE DEF data
    <3>1. FirstWithData(Tags[c], data) = {} \/ \E t \in data : FirstWithData(Tags[c], data) = {t}
      BY OneTagWithData
    <3> QED BY <3>1 DEF InstantTags, data
  <2>2. \A t \in data : \E i \in DOMAIN facts : facts[i].tag = t
    OBVIOUS
  <2> QED BY <2>1, <2>2
<1>3. CASE tags = {}
  <2>1. best = {}
    BY <1>3
  <2> QED BY <1>1, <1>3, <2>1 DEF InstantValue
<1>4. ASSUME NEW t, tags = {t}, \E i \in DOMAIN facts : facts[i].tag = t
      PROVE  InstantValue(v, all, tags)
  <2> DEFINE S == Of(t)
             R == {p \in S \X S : Newer(p[1], p[2])}
  <2>1. IsFiniteSet(S) /\ S # {}
    BY <1>4, FactListFacts, FS_Subset
  <2>2. \A j \in S : j \in Int /\ facts[j].filed \in Int /\ facts[j].period \in Int
    BY FactListFacts DEF IsFactList
  <2>3. \A j, k \in S : <<j, k>> \in R <=> Newer(j, k)
    OBVIOUS
  <2>4. Orders(R, S)
    <3> HIDE DEF S, R
    <3> QED BY <2>2, <2>3 DEF Orders
  <2>5. PICK k \in S : \A j \in S \ {k} : <<k, j>> \in R
    <3> HIDE DEF S, R
    <3> QED BY <2>1, <2>4, FirstElement
  <2>6. \A j \in S \ {k} : Newer(k, j)
    <3> HIDE DEF S, R
    <3> QED BY <2>3, <2>5
  <2>7. best = {k}
    <3>1. k \in BestOf(t)
      BY <2>6
    <3>2. \A i \in BestOf(t) : i = k
      <4> SUFFICES ASSUME NEW i \in BestOf(t), i # k
                   PROVE  FALSE
        OBVIOUS
      <4>1. i \in S /\ Newer(i, k) /\ Newer(k, i)
        BY <2>6
      <4> HIDE DEF S
      <4> QED BY <2>2, <4>1
    <3> HIDE DEF BestOf
    <3> QED BY <1>4, <3>1, <3>2
  <2>8. Max({k}) = k
    <3>1. k \in Int
      BY <2>2
    <3> QED BY <3>1 DEF Max
  <2>9. v = facts[k].value
    BY <1>1, <2>7, <2>8
  <2>10. facts[k] \in all /\ facts[k].tag = t
    BY FactListFacts
  <2>11. Newest(facts[k], all)
    <3>1. \A j \in DOMAIN facts : facts[j].tag = t =>
            \/ facts[j].period < facts[k].period
            \/ facts[j].period = facts[k].period /\ facts[j].filed <= facts[k].filed
      <4> SUFFICES ASSUME NEW j \in S
                   PROVE  \/ facts[j].period < facts[k].period
                          \/ facts[j].period = facts[k].period /\ facts[j].filed <= facts[k].filed
        OBVIOUS
      <4> HIDE DEF S
      <4> QED BY <2>2, <2>6
    <3> QED BY <2>10, <3>1, FactListFacts DEF Newest
  <2> HIDE DEF v, all, tags
  <2> QED BY <1>4, <2>9, <2>10, <2>11 DEF InstantValue
<1> QED BY <1>2, <1>3, <1>4

\* The newest facts of a tag agree.
LEMMA NewestAgree ==
  ASSUME NEW facts, IsFactList(facts), Untied(facts), NEW f \in Range(facts), NEW g \in Range(facts),
         f.tag = g.tag, Newest(f, Range(facts)), Newest(g, Range(facts))
  PROVE  f.value = g.value
<1>1. /\ f.period \in Int /\ f.filed \in Int
      /\ g.period \in Int /\ g.filed \in Int
  <2>1. \E i, j \in DOMAIN facts : f = facts[i] /\ g = facts[j]
    BY FactListFacts
  <2> QED BY <2>1 DEF IsFactList
<1>2. f.period = g.period /\ f.filed = g.filed
  BY <1>1 DEF Newest
<1> QED BY <1>2 DEF Untied

\* The order of the facts makes no difference, if those of one day agree.
LEMMA ReversedFacts ==
  ASSUME NEW facts, IsFactList(facts), Untied(facts)
  PROVE  /\ IsFactList(Reverse(facts)) /\ Range(Reverse(facts)) = Range(facts)
         /\ \A c \in Concepts : /\ AnnualByPeriod(Reverse(facts), c) = AnnualByPeriod(facts, c)
                               /\ LatestInstant(Reverse(facts), c) = LatestInstant(facts, c)
<1> DEFINE n == Len(facts)
           rev == Reverse(facts)
<1>1. n \in Nat /\ DOMAIN facts = 1 .. n
  BY FactListFacts
<1>2. /\ rev = [i \in 1 .. n |-> facts[n - i + 1]]
      /\ DOMAIN rev = 1 .. n /\ \A i \in 1 .. n : rev[i] = facts[n - i + 1]
  BY DEF Reverse
<1>3. \A i \in 1 .. n : n - i + 1 \in 1 .. n /\ n - (n - i + 1) + 1 = i
  <2> HIDE DEF n
  <2> QED BY <1>1
<1> HIDE DEF n
<1>4. \A i \in 1 .. n : \E j \in 1 .. n : facts[i] = rev[j]
  <2> SUFFICES ASSUME NEW i \in 1 .. n
               PROVE  \E j \in 1 .. n : facts[i] = rev[j]
    OBVIOUS
  <2>1. rev[n - i + 1] = facts[i]
    BY <1>2, <1>3
  <2> QED BY <1>3, <2>1
<1>5. \A i \in 1 .. n : \E j \in 1 .. n : rev[i] = facts[j]
  BY <1>2, <1>3
<1>6. Range(rev) = Range(facts)
  <2>1. Range(rev) = {rev[i] : i \in 1 .. n} /\ Range(facts) = {facts[i] : i \in 1 .. n}
    BY <1>1, <1>2 DEF Range
  <2> HIDE DEF rev
  <2> QED BY <1>4, <1>5, <2>1
<1>7. IsFactList(rev)
  <2>1. rev \in Seq(Range(rev))
    <3>1. rev \in [1 .. n -> Range(rev)]
      BY <1>2 DEF Range
    <3> QED BY <1>1, <3>1, SeqDef
  <2>2. \A i \in DOMAIN rev : /\ rev[i].period \in Int /\ rev[i].filed \in Int
                             /\ rev[i].value \in Int
    BY <1>1, <1>2, <1>5 DEF IsFactList
  <2> QED BY <2>1, <2>2 DEF IsFactList
<1> HIDE DEF rev
<1>8. FullYear(rev) = FullYear(facts)
  BY <1>6 DEF FullYear
<1>9. ASSUME NEW c \in Concepts
      PROVE  /\ AnnualByPeriod(rev, c) = AnnualByPeriod(facts, c)
             /\ LatestInstant(rev, c) = LatestInstant(facts, c)
  <2>1. AnnualTags(rev, c) = AnnualTags(facts, c) /\ InstantTags(rev, c) = InstantTags(facts, c)
    <3>1. {rev[i].tag : i \in {j \in DOMAIN rev : rev[j].fp = "FY"}}
            = {facts[i].tag : i \in {j \in DOMAIN facts : facts[j].fp = "FY"}}
      <4>1. \A i \in DOMAIN rev : \E j \in DOMAIN facts : rev[i] = facts[j]
        BY <1>1, <1>2, <1>5
      <4>2. \A j \in DOMAIN facts : \E i \in DOMAIN rev : facts[j] = rev[i]
        BY <1>1, <1>2, <1>4
      <4> QED BY <4>1, <4>2
    <3>2. {rev[i].tag : i \in DOMAIN rev} = {facts[i].tag : i \in DOMAIN facts}
      <4>1. \A i \in DOMAIN rev : \E j \in DOMAIN facts : rev[i] = facts[j]
        BY <1>1, <1>2, <1>5
      <4>2. \A j \in DOMAIN facts : \E i \in DOMAIN rev : facts[j] = rev[i]
        BY <1>1, <1>2, <1>4
      <4> QED BY <4>1, <4>2
    <3> QED BY <3>1, <3>2 DEF AnnualTags, InstantTags
  <2>2. AnnualByPeriod(rev, c) = AnnualByPeriod(facts, c)
    <3>1. /\ AnnualValues(AnnualByPeriod(rev, c), FullYear(facts), AnnualTags(facts, c))
          /\ AnnualValues(AnnualByPeriod(facts, c), FullYear(facts), AnnualTags(facts, c))
      BY <1>7, <1>8, <2>1, AnnualByPeriodValues
    <3> QED BY <3>1, UntiedIsSettled, SameAnnualValues
  <2>3. LatestInstant(rev, c) = LatestInstant(facts, c)
    <3> DEFINE tags == InstantTags(facts, c)
               all == Range(facts)
    <3>1. /\ InstantValue(LatestInstant(rev, c), all, tags)
          /\ InstantValue(LatestInstant(facts, c), all, tags)
      BY <1>6, <1>7, <2>1, LatestInstantValue
    <3>2. \A s, t \in tags : s = t
      <4> DEFINE data == {facts[i].tag : i \in DOMAIN facts}
      <4> HIDE DEF data
      <4>1. \A s, t \in FirstWithData(Tags[c], data) : s = t
        BY AtMostOneTag
      <4> QED BY <4>1 DEF InstantTags, data
    <3>3. CASE tags = {}
      BY <3>1, <3>3 DEF InstantValue
    <3>4. CASE tags # {}
      <4> HIDE DEF tags
      <4>1. PICK f \in all : f.tag \in tags /\ Newest(f, all) /\ LatestInstant(rev, c) = f.value
        BY <3>1, <3>4 DEF InstantValue
      <4>2. PICK g \in all : g.tag \in tags /\ Newest(g, all) /\ LatestInstant(facts, c) = g.value
        BY <3>1, <3>4 DEF InstantValue
      <4>3. f.tag = g.tag
        BY <3>2, <4>1, <4>2
      <4> QED BY <4>1, <4>2, <4>3, NewestAgree
    <3> QED BY <3>3, <3>4
  <2> QED BY <2>2, <2>3
<1> QED BY <1>6, <1>7, <1>9 DEF rev

LEMMA YearsFromEnd ==
  ASSUME NEW by, DOMAIN by \in SUBSET Int, IsFiniteSet(DOMAIN by)
  PROVE  /\ YearFromEnd(by, 0) = IF DOMAIN by = {} THEN None ELSE by[Max(DOMAIN by)]
         /\ Cardinality(DOMAIN by) < 2 => YearFromEnd(by, 1) = None
<1> DEFINE D == DOMAIN by
           After(p) == {q \in D : q > p}
           Back(k) == {p \in D : Cardinality(After(p)) = k}
<1>1. \A k : YearFromEnd(by, k) = IF Back(k) = {} THEN None ELSE by[Max(Back(k))]
  BY DEF YearFromEnd
<1>2. \A p \in D : After(p) \subseteq D \ {p} /\ IsFiniteSet(After(p))
  BY FS_Subset
<1>3. CASE D = {}
  BY <1>1, <1>3
<1>4. ASSUME D # {}
      PROVE  YearFromEnd(by, 0) = by[Max(D)]
  <2>1. Max(D) \in D /\ \A q \in D : Max(D) >= q
    <3>1. D \in SUBSET Int /\ IsFiniteSet(D)
      OBVIOUS
    <3> HIDE DEF D
    <3> QED BY <1>4, <3>1, MaxOfFinite
  <2>2. After(Max(D)) = {}
    BY <2>1
  <2>3. ASSUME NEW p \in D, p # Max(D)
        PROVE  After(p) # {}
    <3>1. p \in Int /\ Max(D) \in Int
      BY <2>1, <2>3
    <3>2. Max(D) > p
      BY <2>1, <2>3, <3>1
    <3> QED BY <2>1, <3>2
  <2>4. Back(0) = {Max(D)}
    <3> HIDE DEF After
    <3> QED BY <1>2, <2>1, <2>2, <2>3, FS_EmptySet
  <2>5. Max({Max(D)}) = Max(D)
    <3> DEFINE m == Max(D)
    <3>1. m \in Int
      BY <2>1
    <3> HIDE DEF m
    <3>2. Max({m}) = m
      BY <3>1 DEF Max
    <3> QED BY <3>2 DEF m
  <2> HIDE DEF Back
  <2> QED BY <1>1, <2>4, <2>5
<1>5. ASSUME Cardinality(D) < 2
      PROVE  Back(1) = {}
  <2> SUFFICES ASSUME NEW p \in D, Cardinality(After(p)) = 1
               PROVE  FALSE
    OBVIOUS
  <2> HIDE DEF D, After
  <2>1. IsFiniteSet(D \ {p}) /\ Cardinality(D \ {p}) = Cardinality(D) - 1
    BY FS_RemoveElement DEF D
  <2>2. 1 <= Cardinality(D) - 1
    BY <1>2, <2>1, FS_Subset
  <2>3. Cardinality(D) \in Nat
    BY FS_CardinalityType DEF D
  <2> QED BY <1>5, <2>2, <2>3
<1> HIDE DEF Back
<1> QED BY <1>1, <1>3, <1>4, <1>5

LEMMA AnnualYears ==
  ASSUME NEW facts, IsFactList(facts), NEW c \in Concepts
  PROVE  LET by == AnnualByPeriod(facts, c)
         IN  /\ DOMAIN by \in SUBSET Int /\ IsFiniteSet(DOMAIN by)
             /\ \A p \in DOMAIN by : by[p] \in Int
<1> DEFINE by == AnnualByPeriod(facts, c)
           periods == [i \in DOMAIN facts |-> facts[i].period]
           D == {periods[i] : i \in DOMAIN facts}
<1>1. AnnualValues(by, FullYear(facts), AnnualTags(facts, c))
  BY AnnualByPeriodValues
<1>2. \A f \in FullYear(facts) : \E i \in DOMAIN facts : f = facts[i]
  BY FactListFacts DEF FullYear
<1>3. \A f \in FullYear(facts) : f.period \in Int /\ f.value \in Int /\ f.period \in D
  BY <1>2 DEF IsFactList
<1>4. IsFiniteSet(D)
  <2>1. periods \in Surjection(DOMAIN facts, D)
    BY DEF Surjection
  <2>2. IsFiniteSet(DOMAIN facts)
    BY FactListFacts
  <2> QED BY <2>1, <2>2, FS_Surjection
<1>5. DOMAIN by \subseteq D /\ DOMAIN by \in SUBSET Int
  <2> HIDE DEF by, D
  <2> QED BY <1>1, <1>3 DEF AnnualValues
<1>6. IsFiniteSet(DOMAIN by)
  BY <1>4, <1>5, FS_Subset
<1>7. ASSUME NEW p \in DOMAIN by
      PROVE  by[p] \in Int
  <2>1. PICK f \in FullYear(facts) :
          f.tag \in AnnualTags(facts, c) /\ f.period = p /\ by[p] = f.value
    BY <1>1, <1>7 DEF AnnualValues
  <2> QED BY <1>3, <2>1
<1> QED BY <1>5, <1>6, <1>7

\* The years of a concept are those of the tag chosen, and more if another tag has them.
LEMMA ChosenYears ==
  ASSUME NEW facts, IsFactList(facts), NEW c \in Concepts
  PROVE  LET full == FullYear(facts)
             by == AnnualByPeriod(facts, c)
         IN  /\ AnnualTags(facts, c) = FirstWithData(Tags[c], {f.tag : f \in full})
             /\ AnnualTags(facts, c) \subseteq Range(Tags[c])
             /\ DOMAIN by \subseteq Years(full, c) /\ IsFiniteSet(Years(full, c))
             /\ DOMAIN by = {} => Years(full, c) = {}
             /\ OneTagWins(full, c) => DOMAIN by = Years(full, c)
<1> DEFINE full == FullYear(facts)
           by == AnnualByPeriod(facts, c)
           tags == AnnualTags(facts, c)
           data == {f.tag : f \in full}
           periods == [i \in DOMAIN facts |-> facts[i].period]
           D == {periods[i] : i \in DOMAIN facts}
<1>1. tags = FirstWithData(Tags[c], data)
  <2>1. {facts[i].tag : i \in {j \in DOMAIN facts : facts[j].fp = "FY"}} = {f.tag : f \in full}
    BY FactListFacts DEF FullYear
  <2> QED BY <2>1 DEF AnnualTags
<1>2. /\ tags = {} \/ \E t \in data : tags = {t} /\ t \in Range(Tags[c])
      /\ tags = {} => \A t \in data : t \notin Range(Tags[c])
  <2> HIDE DEF data
  <2> QED BY <1>1, OneTagWithData
<1>3. DOMAIN by = {f.period : f \in {g \in full : g.tag \in tags}}
  BY AnnualByPeriodValues DEF AnnualValues
<1>4. tags \subseteq Range(Tags[c])
  BY <1>2
<1>5. DOMAIN by \subseteq Years(full, c)
  BY <1>3, <1>4 DEF Years, Candidates
<1>6. IsFiniteSet(Years(full, c))
  <2>1. periods \in Surjection(DOMAIN facts, D)
    BY DEF Surjection
  <2>2. IsFiniteSet(D)
    BY <2>1, FactListFacts, FS_Surjection
  <2>3. Years(full, c) \subseteq D
    BY FactListFacts DEF FullYear, Years, Candidates
  <2> QED BY <2>2, <2>3, FS_Subset
<1>7. ASSUME NEW p \in Years(full, c)
      PROVE  DOMAIN by # {}
  <2>1. PICK f \in full : f.tag \in Range(Tags[c])
    BY <1>7 DEF Years, Candidates
  <2>2. tags # {}
    BY <1>2, <2>1
  <2>3. PICK g \in full : g.tag \in tags
    BY <1>2, <2>2
  <2> QED BY <1>3, <2>3
<1>8. ASSUME OneTagWins(full, c), NEW p \in Years(full, c)
      PROVE  p \in DOMAIN by
  <2> DEFINE inYear == {f.tag : f \in {g \in full : g.period = p}}
  <2>1. PICK f \in full : f.tag \in Range(Tags[c]) /\ f.period = p
    BY <1>8 DEF Years, Candidates
  <2>2. f.tag \in inYear
    BY <2>1
  <2>3. WinningTag(full, c, p) = FirstWithData(Tags[c], inYear)
    BY DEF WinningTag
  <2>4. \E t \in inYear : WinningTag(full, c, p) = {t}
    <3> HIDE DEF inYear
    <3> QED BY <2>1, <2>2, <2>3, OneTagWithData
  <2>5. WinningTag(full, c, p) = tags
    BY <1>1, <1>8 DEF OneTagWins
  <2>6. PICK g \in full : g.period = p /\ g.tag \in tags
    BY <2>4, <2>5
  <2> QED BY <1>3, <2>6
<1> QED BY <1>1, <1>4, <1>5, <1>6, <1>7, <1>8

\* Where one tag wins, what is reported of a year is what its versions filed last say.
LEMMA ReportedByTheTag ==
  ASSUME NEW facts, IsFactList(facts), NEW c \in Concepts, OneTagWins(FullYear(facts), c), NEW p
  PROVE  LET full == FullYear(facts)
             by == AnnualByPeriod(facts, c)
         IN  /\ p \in DOMAIN by => by[p] \in Reported(full, c, p)
             /\ Reported(full, c, p) # {} => p \in DOMAIN by
<1> DEFINE full == FullYear(facts)
           by == AnnualByPeriod(facts, c)
           tags == AnnualTags(facts, c)
<1>1. DOMAIN by = Years(full, c) /\ tags = FirstWithData(Tags[c], {f.tag : f \in full})
  BY ChosenYears
<1>2. ASSUME p \in DOMAIN by
      PROVE  by[p] \in Reported(full, c, p)
  <2>1. PICK f \in full : f.tag \in tags /\ f.period = p /\ FiledLast(f, full) /\ by[p] = f.value
    <3>1. AnnualValues(by, full, tags)
      BY AnnualByPeriodValues
    <3> HIDE DEF by, full, tags
    <3> QED BY <1>2, <3>1 DEF AnnualValues
  <2>2. WinningTag(full, c, p) = tags
    BY <1>1, <1>2 DEF OneTagWins
  <2> QED BY <2>1, <2>2 DEF Reported
<1>3. ASSUME Reported(full, c, p) # {}
      PROVE  p \in DOMAIN by
  <2> DEFINE inYear == {f.tag : f \in {g \in full : g.period = p}}
  <2>1. PICK f \in full : f.tag \in FirstWithData(Tags[c], inYear) /\ f.period = p
    BY <1>3 DEF Reported, WinningTag
  <2>2. f.tag \in Range(Tags[c])
    <3> HIDE DEF inYear
    <3> QED BY <2>1, OneTagWithData
  <2>3. p \in Years(full, c)
    BY <2>1, <2>2 DEF Years, Candidates
  <2> QED BY <1>1, <2>3
<1> QED BY <1>2, <1>3

\* The metrics follow from the latest versions and align with the revenue year.
LEMMA GoodMetrics ==
  ASSUME NEW facts, IsFactList(facts)
  PROVE  GoodFundamentals(facts, ComputeFundamentals(facts, 20))
<1> DEFINE answer == ComputeFundamentals(facts, 20)
           revenues == AnnualByPeriod(facts, "revenue")
           incomes == AnnualByPeriod(facts, "operating_income")
           full == FullYear(facts)
           D == DOMAIN revenues
           years == Years(full, "revenue")
<1>1. Untied(facts) => answer = ComputeFundamentals(Reverse(facts), 20)
  <2> SUFFICES ASSUME Untied(facts)
               PROVE  answer = ComputeFundamentals(Reverse(facts), 20)
    OBVIOUS
  <2> DEFINE rev == Reverse(facts)
  <2>1. \A c \in Concepts : /\ AnnualByPeriod(rev, c) = AnnualByPeriod(facts, c)
                           /\ LatestInstant(rev, c) = LatestInstant(facts, c)
    BY ReversedFacts
  <2> HIDE DEF rev
  <2>2. /\ [c \in Concepts |-> AnnualByPeriod(rev, c)] = [c \in Concepts |-> AnnualByPeriod(facts, c)]
        /\ [c \in Concepts |-> LatestInstant(rev, c)] = [c \in Concepts |-> LatestInstant(facts, c)]
    BY <2>1
  <2>3. ComputeFundamentals(facts, 20) = ComputeFundamentals(rev, 20)
    BY <2>2 DEF ComputeFundamentals
  <2> QED BY <2>3 DEF rev
<1>2. "revenue" \in Concepts /\ "operating_income" \in Concepts
  BY DEF Concepts
<1>3. /\ D \in SUBSET Int /\ IsFiniteSet(D)
      /\ \A p \in D : revenues[p] \in Int
  BY <1>2, AnnualYears
<1>4. /\ answer.metrics.revenue = YearFromEnd(revenues, 0)
      /\ answer.metrics.revenue_growth_yoy
           = Growth(YearFromEnd(revenues, 0), YearFromEnd(revenues, 1))
      /\ answer.metrics.operating_margin = Ratio(Aligned(incomes, D), YearFromEnd(revenues, 0))
  BY <1>2 DEF ComputeFundamentals, MetricsOf
<1>5. /\ D \subseteq years /\ IsFiniteSet(years) /\ (D = {} => years = {})
      /\ OneTagWins(full, "revenue") => D = years
  BY <1>2, ChosenYears
<1>6. ASSUME NEW p \in D
      PROVE  \E f \in Candidates(full, "revenue") : FiledLast(f, full) /\ revenues[p] = f.value
  <2>1. AnnualTags(facts, "revenue") \subseteq Range(Tags["revenue"])
    BY <1>2, ChosenYears
  <2>2. PICK f \in full : /\ f.tag \in AnnualTags(facts, "revenue") /\ FiledLast(f, full)
                          /\ revenues[p] = f.value
    <3>1. AnnualValues(revenues, full, AnnualTags(facts, "revenue"))
      BY <1>2, AnnualByPeriodValues
    <3> HIDE DEF revenues, full
    <3> QED BY <1>6, <3>1 DEF AnnualValues, D
  <2> QED BY <2>1, <2>2 DEF Candidates
<1>7. ASSUME OneTagWins(full, "revenue"), NEW p \in D
      PROVE  revenues[p] \in Reported(full, "revenue", p)
  BY <1>2, <1>7, ReportedByTheTag
<1>8. ASSUME NEW p, OneTagWins(full, "operating_income"), Reported(full, "operating_income", p) # {}
      PROVE  p \in DOMAIN incomes /\ incomes[p] \in Reported(full, "operating_income", p)
  BY <1>2, <1>8, ReportedByTheTag
<1> HIDE DEF answer, revenues, incomes, full, years
<1>9. /\ YearFromEnd(revenues, 0) = IF D = {} THEN None ELSE revenues[Max(D)]
      /\ Cardinality(D) < 2 => YearFromEnd(revenues, 1) = None
  BY <1>3, YearsFromEnd
<1> HIDE DEF D
<1>10. D # {} => Max(D) \in D
  BY <1>3, MaxOfFinite
<1>11. years = {} <=> answer.metrics.revenue = None
  BY <1>3, <1>4, <1>5, <1>9, <1>10, NoneIsNoNumber
<1>12. Cardinality(years) < 2 => answer.metrics.revenue_growth_yoy = None
  <2>1. Cardinality(D) <= Cardinality(years) /\ Cardinality(years) \in Nat /\ Cardinality(D) \in Nat
    BY <1>5, FS_Subset, FS_CardinalityType
  <2>2. Cardinality(years) < 2 => Cardinality(D) < 2
    BY <2>1
  <2> QED BY <1>4, <1>9, <2>2 DEF Growth
<1>13. years # {} => \E f \in Candidates(full, "revenue") :
                       FiledLast(f, full) /\ answer.metrics.revenue = f.value
  BY <1>4, <1>5, <1>6, <1>9, <1>10
<1>14. ASSUME years # {}, OneTagWins(full, "revenue")
       PROVE  answer.metrics.revenue \in Reported(full, "revenue", Max(years))
  BY <1>4, <1>5, <1>7, <1>9, <1>10, <1>14
<1>15. ASSUME years # {}, OneTagWins(full, "revenue"), OneTagWins(full, "operating_income"),
              Reported(full, "operating_income", Max(years)) # {}
       PROVE  \E v \in Reported(full, "operating_income", Max(years)) :
                answer.metrics.operating_margin = Ratio(v, answer.metrics.revenue)
  <2>1. D = years
    BY <1>5, <1>15
  <2>2. /\ Max(years) \in DOMAIN incomes
        /\ incomes[Max(years)] \in Reported(full, "operating_income", Max(years))
    BY <1>8, <1>15
  <2>3. Aligned(incomes, D) = incomes[Max(years)]
    BY <1>15, <2>1, <2>2 DEF Aligned
  <2> QED BY <1>4, <2>2, <2>3
<1>16. GoodFundamentals(facts, answer)
  BY <1>1, <1>11, <1>12, <1>13, <1>14, <1>15 DEF GoodFundamentals, full, years
<1> QED BY <1>16 DEF answer

-----------------------------------------------------------------------------
\* Rules.

\* f and g say the same of the metrics of W.
SameOn(W, f, g) ==
  \A m \in W : /\ m \in DOMAIN f <=> m \in DOMAIN g
               /\ m \in DOMAIN f => f[m] = g[m]

LEMMA OverlaySameOn ==
  ASSUME NEW W, NEW f1, NEW g1, NEW f2, NEW g2, SameOn(W, f1, g1), SameOn(W, f2, g2)
  PROVE  SameOn(W, Overlay(f1, f2), Overlay(g1, g2))
<1>1. /\ DOMAIN Overlay(f1, f2) = DOMAIN f1 \cup DOMAIN f2
      /\ DOMAIN Overlay(g1, g2) = DOMAIN g1 \cup DOMAIN g2
  BY DEF Overlay
<1>2. ASSUME NEW m \in W, m \in DOMAIN Overlay(f1, f2)
      PROVE  Overlay(f1, f2)[m] = Overlay(g1, g2)[m]
  <2>1. Overlay(f1, f2)[m] = IF m \in DOMAIN f1 THEN f1[m] ELSE f2[m]
    BY <1>2 DEF Overlay
  <2>2. m \in DOMAIN Overlay(g1, g2)
    BY <1>1, <1>2 DEF SameOn
  <2>3. Overlay(g1, g2)[m] = IF m \in DOMAIN g1 THEN g1[m] ELSE g2[m]
    BY <2>2 DEF Overlay
  <2> QED BY <1>1, <1>2, <2>1, <2>3 DEF SameOn
<1> QED BY <1>1, <1>2 DEF SameOn

\* A rule tells no difference between values that agree on its own metrics.
LEMMA VerdictSameOn ==
  ASSUME NEW rule, NEW f, NEW g, DOMAIN f = DOMAIN g,
         \A s \in DOMAIN f : SameOn(ReferencedMetrics(rule), f[s], g[s])
  PROVE  Verdict(rule, f) = Verdict(rule, g)
<1>1. ASSUME NEW s \in DOMAIN f
      PROVE  EvaluateRule(rule, f[s]) <=> EvaluateRule(rule, g[s])
  <2>1. ASSUME NEW c \in rule.all \cup rule.any
        PROVE  Passes(c, f[s]) <=> Passes(c, g[s])
    <3>1. c.metric \in ReferencedMetrics(rule)
      BY DEF ReferencedMetrics
    <3>2. /\ c.metric \in DOMAIN f[s] <=> c.metric \in DOMAIN g[s]
          /\ c.metric \in DOMAIN f[s] => f[s][c.metric] = g[s][c.metric]
      BY <1>1, <3>1 DEF SameOn
    <3> QED BY <3>2 DEF Passes
  <2> QED BY <2>1 DEF EvaluateRule
<1>2. ASSUME NEW s \in DOMAIN f
      PROVE  EvaluatedMetrics(rule, f[s]) = EvaluatedMetrics(rule, g[s])
  <2> DEFINE W == ReferencedMetrics(rule)
  <2>1. SameOn(W, f[s], g[s])
    BY <1>2
  <2> HIDE DEF W
  <2>2. W \cap DOMAIN f[s] = W \cap DOMAIN g[s]
    BY <2>1 DEF SameOn
  <2>3. \A m \in W \cap DOMAIN f[s] : f[s][m] = g[s][m]
    BY <2>1 DEF SameOn
  <2>4. Restrict(f[s], W \cap DOMAIN f[s]) = Restrict(g[s], W \cap DOMAIN g[s])
    BY <2>2, <2>3 DEF Restrict
  <2> QED BY <2>4 DEF EvaluatedMetrics, W
<1>3. {s \in DOMAIN f : EvaluateRule(rule, f[s])} = {s \in DOMAIN g : EvaluateRule(rule, g[s])}
  BY <1>1
<1>4. [s \in DOMAIN f |-> EvaluatedMetrics(rule, f[s])] = [s \in DOMAIN g |-> EvaluatedMetrics(rule, g[s])]
  BY <1>2
<1> QED BY <1>3, <1>4 DEF Verdict

\* All the values that the sources have of a symbol.
AllValues(world, s) ==
  Overlay(TrendValues(world, s),
          Overlay(ScoresFor(world, s, DOMAIN ScoreNames),
                  [filings_24h |-> world.filings[s]]))

\* What is resolved agrees with the sources on whatever was wanted.
LEMMA ResolvedSameOn ==
  ASSUME NEW world, NEW wanted, NEW W \in SUBSET wanted, NEW s \in DOMAIN world.tapes
  PROVE  SameOn(W, ResolveMetrics(world, wanted)[s], AllValues(world, s))
<1> DEFINE trend == IF wanted \cap TrendMetrics # {} THEN TrendValues(world, s) ELSE << >>
           filed == IF "filings_24h" \in wanted THEN [filings_24h |-> world.filings[s]] ELSE << >>
           research == ResearchValues(world, s, wanted)
           all == [filings_24h |-> world.filings[s]]
           scores == ScoresFor(world, s, DOMAIN ScoreNames)
<1>1. ResolveMetrics(world, wanted)[s] = Overlay(trend, Overlay(research, filed))
  BY DEF ResolveMetrics
<1>2. SameOn(W, trend, TrendValues(world, s))
  <2>1. DOMAIN TrendValues(world, s) \subseteq TrendMetrics
    BY DEF TrendValues, ValuesIn, TrendMetrics
  <2>2. CASE wanted \cap TrendMetrics # {}
    BY <2>2 DEF SameOn
  <2>3. CASE wanted \cap TrendMetrics = {}
    <3>1. DOMAIN trend = {}
      BY <2>3
    <3> QED BY <2>1, <2>3, <3>1 DEF SameOn
  <2> QED BY <2>2, <2>3
<1>3. SameOn(W, filed, all)
  <2>1. CASE "filings_24h" \in wanted
    BY <2>1 DEF SameOn
  <2>2. CASE "filings_24h" \notin wanted
    <3>1. DOMAIN filed = {} /\ DOMAIN all = {"filings_24h"}
      BY <2>2
    <3> QED BY <2>2, <3>1 DEF SameOn
  <2> QED BY <2>1, <2>2
<1>4. SameOn(W, research, scores)
  <2> DEFINE V == (wanted \cap DOMAIN ScoreNames) \cup
                  {m \in DOMAIN ScoreNames :
                     ScoreNames[m] \in {ProfileOf[ScoreNames[k]] : k \in wanted \cap DOMAIN ScoreNames}}
             Known(m) == s \in DOMAIN world.research[ProfileOf[ScoreNames[m]]]
  <2>1. research = [m \in {k \in V : Known(k)} |-> world.research[ProfileOf[ScoreNames[m]]][s]]
    BY DEF ResearchValues, ScoresFor
  <2>2. scores = [m \in {k \in DOMAIN ScoreNames : Known(k)} |->
                    world.research[ProfileOf[ScoreNames[m]]][s]]
    BY DEF ScoresFor
  <2>3. V \subseteq DOMAIN ScoreNames /\ \A m \in W : m \in DOMAIN ScoreNames => m \in V
    OBVIOUS
  <2> HIDE DEF V, research, scores
  <2> QED BY <2>1, <2>2, <2>3 DEF SameOn
<1>5. SameOn(W, Overlay(trend, Overlay(research, filed)),
             Overlay(TrendValues(world, s), Overlay(scores, all)))
  <2> HIDE DEF trend, filed, research, all, scores
  <2>1. SameOn(W, Overlay(research, filed), Overlay(scores, all))
    BY <1>3, <1>4, OverlaySameOn
  <2> QED BY <1>2, <2>1, OverlaySameOn
<1> QED BY <1>1, <1>5 DEF AllValues

\* A verdict is the one on all the values, of which it keeps those it used.
LEMMA GoodRules ==
  ASSUME NEW x
  PROVE  GoodRule(x, Verdict(x.rule, ResolveMetrics(x.world, ReferencedMetrics(x.rule))))
<1> DEFINE rule == x.rule
           wanted == ReferencedMetrics(rule)
           every == TrendMetrics \cup DOMAIN ScoreNames \cup {"filings_24h"}
           values == ResolveMetrics(x.world, wanted)
           all == [s \in DOMAIN x.world.tapes |-> AllValues(x.world, s)]
           most == ResolveMetrics(x.world, every)
<1>1. /\ DOMAIN values = DOMAIN x.world.tapes /\ DOMAIN all = DOMAIN x.world.tapes
      /\ DOMAIN most = DOMAIN x.world.tapes
  BY DEF ResolveMetrics
<1>2. Verdict(rule, values) = Verdict(rule, all)
  <2>1. \A s \in DOMAIN values : SameOn(ReferencedMetrics(rule), values[s], all[s])
    BY <1>1, ResolvedSameOn
  <2> HIDE DEF values, all, rule
  <2> QED BY <1>1, <2>1, VerdictSameOn
<1>3. Verdict(rule, most) = Verdict(rule, all)
  <2>1. ASSUME NEW s \in DOMAIN x.world.tapes
        PROVE  SameOn(wanted, most[s], all[s])
    <3>1. SameOn(wanted \cap every, most[s], all[s])
      BY ResolvedSameOn
    <3>2. DOMAIN all[s] \subseteq every
      <4>1. DOMAIN TrendValues(x.world, s) \subseteq TrendMetrics
        BY DEF TrendValues, ValuesIn, TrendMetrics
      <4>2. DOMAIN ScoresFor(x.world, s, DOMAIN ScoreNames) \subseteq DOMAIN ScoreNames
        BY DEF ScoresFor
      <4>3. all[s] = AllValues(x.world, s)
        OBVIOUS
      <4> QED BY <4>1, <4>2, <4>3 DEF AllValues, Overlay
    <3>3. DOMAIN most[s] \subseteq every
      <4>1. DOMAIN TrendValues(x.world, s) \subseteq TrendMetrics
        BY DEF TrendValues, ValuesIn, TrendMetrics
      <4>2. DOMAIN ResearchValues(x.world, s, every) \subseteq DOMAIN ScoreNames
        BY DEF ResearchValues, ScoresFor
      <4>3. most[s] = Overlay(IF every \cap TrendMetrics # {} THEN TrendValues(x.world, s) ELSE << >>,
                        Overlay(ResearchValues(x.world, s, every),
                          IF "filings_24h" \in every THEN [filings_24h |-> x.world.filings[s]] ELSE << >>))
        BY DEF ResolveMetrics
      <4>4. every \cap TrendMetrics # {} /\ "filings_24h" \in every
        BY DEF TrendMetrics
      <4> QED BY <4>1, <4>2, <4>3, <4>4 DEF Overlay
    <3> QED BY <3>1, <3>2, <3>3 DEF SameOn
  <2> HIDE DEF most, all, rule
  <2> QED BY <1>1, <2>1, VerdictSameOn
<1>4. \A s \in Verdict(rule, values).holds : \A c \in rule.all :
        c.metric \in DOMAIN Verdict(rule, values).used[s]
  <2>1. SUFFICES ASSUME NEW s \in DOMAIN values, EvaluateRule(rule, values[s]), NEW c \in rule.all
                 PROVE  c.metric \in DOMAIN EvaluatedMetrics(rule, values[s])
    BY DEF Verdict
  <2>2. c.metric \in DOMAIN values[s]
    BY <2>1 DEF EvaluateRule, Passes
  <2>3. c.metric \in ReferencedMetrics(rule)
    BY DEF ReferencedMetrics
  <2> QED BY <2>2, <2>3 DEF EvaluatedMetrics, Restrict
<1> QED BY <1>2, <1>3, <1>4 DEF GoodRule, AllValues

-----------------------------------------------------------------------------
\* The backtest.

LEMMA SortedNumbers ==
  ASSUME NEW S \in SUBSET Int, IsFiniteSet(S)
  PROVE  Sorted(S, LAMBDA c, d : c < d) \in [1 .. Cardinality(S) -> S]
<1> DEFINE q == Sorted(S, LAMBDA c, d : c < d)
           R == {p \in S \X S : p[1] < p[2]}
           Rank(s) == Cardinality({t \in S : t < s})
<1>1. \A s, t \in S : <<s, t>> \in R <=> s < t
  OBVIOUS
<1>2. Orders(R, S)
  <2> HIDE DEF R
  <2> QED BY <1>1 DEF Orders
<1>3. \A s \in S : Cardinality(ElementsBefore(R, S, s)) = Rank(s)
  <2> SUFFICES ASSUME NEW s \in S
               PROVE  Cardinality(ElementsBefore(R, S, s)) = Rank(s)
    OBVIOUS
  <2>1. ElementsBefore(R, S, s) = {t \in S : t < s}
    <3> HIDE DEF R
    <3> QED BY <1>1 DEF ElementsBefore
  <2> QED BY <2>1
<1>4. q = [i \in 1 .. Cardinality(S) |-> CHOOSE s \in S : Rank(s) = i - 1]
  BY DEF Sorted
<1>5. ASSUME NEW i \in 1 .. Cardinality(S)
      PROVE  q[i] \in S
  <2>1. \E s \in S : Rank(s) = i - 1
    <3> HIDE DEF R, Rank, q
    <3>1. \E s \in S : Cardinality(ElementsBefore(R, S, s)) = i - 1
      BY <1>2, <1>5, RankOnto
    <3> QED BY <1>3, <3>1
  <2> HIDE DEF Rank, q
  <2> QED BY <1>4, <1>5, <2>1
<1> HIDE DEF Rank
<1> QED BY <1>4, <1>5

LEMMA KeptElements ==
  ASSUME NEW q, NEW places \in SUBSET Int, IsFiniteSet(places)
  PROVE  Kept(q, places) \in Seq({q[i] : i \in places})
<1> DEFINE order == Sorted(places, LAMBDA i, j : i < j)
           m == Cardinality(places)
<1>1. order \in [1 .. m -> places]
  BY SortedNumbers
<1>2. Kept(q, places) = [k \in 1 .. m |-> q[order[k]]]
  BY DEF Kept
<1>3. m \in Nat
  BY FS_CardinalityType
<1> HIDE DEF order, m
<1>4. Kept(q, places) \in [1 .. m -> {q[i] : i \in places}]
  BY <1>1, <1>2
<1> QED BY <1>3, <1>4, SeqDef

LEMMA FirstOfType ==
  ASSUME NEW S, NEW q \in Seq(S), NEW n \in Nat
  PROVE  FirstOf(q, n) \in Seq(S)
<1> DEFINE l == Min({n, Len(q)})
<1>1. Len(q) \in Nat
  BY LenProperties
<1>2. l \in Nat /\ l <= Len(q)
  <2>1. l = IF n <= Len(q) THEN n ELSE Len(q)
    BY <1>1, MinOfTwo
  <2> HIDE DEF l
  <2> QED BY <1>1, <2>1
<1>3. \A i \in 1 .. l : q[i] \in S
  <2> HIDE DEF l
  <2> QED BY <1>1, <1>2, ElementOfSeq
<1>4. SubSeq(q, 1, l) \in Seq(S)
  <2> HIDE DEF l
  <2> QED BY <1>2, <1>3, SubSeqProperties
<1> QED BY <1>4 DEF FirstOf

LEMMA ZScoreRange ==
  ASSUME NEW raw, NEW s \in DOMAIN raw
  PROVE  ZScores(raw)[s] \in - WinsorZ .. WinsorZ
<1>0. WinsorZ \in Nat
  BY DEF WinsorZ, ZUnit
<1>1. ASSUME NEW dev, NEW spread
      PROVE  /\ ZSize(dev, spread) \in - WinsorZ .. WinsorZ
             /\ - ZSize(dev, spread) \in - WinsorZ .. WinsorZ
  <2> DEFINE fits == {r \in 1 .. WinsorZ : Square(r) * spread <= Square(ZUnit * dev)}
  <2>1. fits \in SUBSET (1 .. WinsorZ)
    OBVIOUS
  <2>2. ZSize(dev, spread) = Cardinality(fits)
    BY DEF ZSize
  <2> HIDE DEF fits
  <2>3. IsFiniteSet(1 .. WinsorZ) /\ Cardinality(1 .. WinsorZ) <= WinsorZ
    BY <1>0, FS_Interval
  <2>4. IsFiniteSet(fits) /\ Cardinality(fits) <= Cardinality(1 .. WinsorZ)
    BY <2>1, <2>3, FS_Subset
  <2>5. Cardinality(fits) \in Nat /\ Cardinality(1 .. WinsorZ) \in Nat
    BY <2>3, <2>4, FS_CardinalityType
  <2> QED BY <1>0, <2>2, <2>3, <2>4, <2>5
<1> DEFINE S == Present(raw)
           spread == Spread(raw, S)
           Z(t) == LET dev == Deviation(raw, S, t)
                   IN  IF dev < 0 THEN - ZSize(dev, spread) ELSE ZSize(dev, spread)
<1>2. ZScores(raw) = [t \in DOMAIN raw |->
                        IF t \notin S \/ Cardinality(S) < 2 \/ spread = 0 THEN 0 ELSE Z(t)]
  BY DEF ZScores
<1>3. Z(s) \in - WinsorZ .. WinsorZ
  BY <1>1
<1>4. 0 \in - WinsorZ .. WinsorZ
  BY <1>0
<1> HIDE DEF S, spread, Z
<1> QED BY <1>2, <1>3, <1>4

\* The pairs of symbols of which the first is ranked above the second.
AheadPairs(score, S) == {p \in S \X S : Ahead(score, p[1], p[2])}

\* The order of the ranks has every symbol once, no one before a better one.
LEMMA RankOrderLists ==
  ASSUME NEW S \in SUBSET Int, IsFiniteSet(S), NEW score \in [S -> Int]
  PROVE  /\ DOMAIN RankOrder(score) = 1 .. Cardinality(S)
         /\ \A i \in 1 .. Cardinality(S) : RankOrder(score)[i] \in S
         /\ Lists(RankOrder(score), AheadPairs(score, S), S)
<1> DEFINE order == RankOrder(score)
           R == AheadPairs(score, S)
           Rank(s) == Cardinality({t \in S : Ahead(score, t, s)})
<1>1. \A s, t \in S : <<s, t>> \in R <=> Ahead(score, s, t)
  BY DEF AheadPairs
<1>2. Orders(R, S)
  <2>1. \A s \in S : s \in Int /\ score[s] \in Int
    OBVIOUS
  <2> HIDE DEF R
  <2> QED BY <1>1, <2>1 DEF Orders, Ahead
<1>3. \A s \in S : Cardinality(ElementsBefore(R, S, s)) = Rank(s)
  <2> SUFFICES ASSUME NEW s \in S
               PROVE  Cardinality(ElementsBefore(R, S, s)) = Rank(s)
    OBVIOUS
  <2>1. ElementsBefore(R, S, s) = {t \in S : Ahead(score, t, s)}
    <3> HIDE DEF R
    <3> QED BY <1>1 DEF ElementsBefore
  <2> QED BY <2>1
<1>4. order = [i \in 1 .. Cardinality(S) |-> CHOOSE s \in S : Rank(s) = i - 1]
  <2>1. DOMAIN score = S
    OBVIOUS
  <2> QED BY <2>1 DEF RankOrder, Sorted
<1>5. ASSUME NEW i \in 1 .. Cardinality(S)
      PROVE  order[i] \in S /\ Rank(order[i]) = i - 1
  <2>1. \E s \in S : Rank(s) = i - 1
    <3> HIDE DEF R, Rank
    <3>1. \E s \in S : Cardinality(ElementsBefore(R, S, s)) = i - 1
      BY <1>2, <1>5, RankOnto
    <3> QED BY <1>3, <3>1
  <2> HIDE DEF Rank, order
  <2> QED BY <1>4, <1>5, <2>1
<1> HIDE DEF Rank, order, R
<1>6. DOMAIN order = 1 .. Cardinality(S)
  BY <1>4
<1>7. RankedBy(order, R, S)
  BY <1>3, <1>5, <1>6 DEF RankedBy
<1>8. Lists(order, R, S)
  BY <1>2, <1>7, RankedLists
<1> QED BY <1>5, <1>6, <1>8 DEF order, R

LEMMA MissingScoresNothing ==
  ASSUME NEW raw, NEW s \in DOMAIN raw, raw[s] = None
  PROVE  ZScores(raw)[s] = 0
<1> DEFINE S == Present(raw)
           spread == Spread(raw, S)
           Z(t) == LET dev == Deviation(raw, S, t)
                   IN  IF dev < 0 THEN - ZSize(dev, spread) ELSE ZSize(dev, spread)
<1>1. ZScores(raw) = [t \in DOMAIN raw |->
                        IF t \notin S \/ Cardinality(S) < 2 \/ spread = 0 THEN 0 ELSE Z(t)]
  BY DEF ZScores
<1>2. s \notin S
  BY DEF Present
<1> HIDE DEF S, spread, Z
<1> QED BY <1>1, <1>2

\* Every result is of a symbol with features, and a factor it lacks counts as 0.
ResultsOf(features, results) ==
  \A i \in DOMAIN results :
    /\ results[i].symbol \in DOMAIN features
    /\ \A f \in DOMAIN TrendWeights :
         FactorRaw(features[results[i].symbol])[f] = None => results[i].z[f] = 0

\* The results are those of the symbols by rank.
RankedBest(results, features, score) ==
  /\ score \in [DOMAIN features -> Int]
  /\ results = [i \in 1 .. Cardinality(DOMAIN features) |-> results[i]]
  /\ \A i \in 1 .. Cardinality(DOMAIN features) :
       /\ RankOrder(score)[i] \in DOMAIN features
       /\ results[i].symbol = RankOrder(score)[i]
       /\ results[i].score = score[RankOrder(score)[i]]
       /\ results[i].percentile = Percentile(score, RankOrder(score)[i])

LEMMA UniverseResults ==
  ASSUME NEW features, DOMAIN features \in SUBSET Int, IsFiniteSet(DOMAIN features)
  PROVE  /\ \E score : RankedBest(ScoreUniverse(features), features, score)
         /\ ResultsOf(features, ScoreUniverse(features))
<1> DEFINE S == DOMAIN features
           z == [f \in DOMAIN TrendWeights |-> ZScores([s \in S |-> FactorRaw(features[s])[f]])]
           score == [s \in S |-> WeightedSum([f \in DOMAIN TrendWeights |-> z[f][s]])]
           Result(s) == [symbol |-> s, score |-> score[s], confidence |-> features[s].confidence,
                         z |-> [f \in DOMAIN TrendWeights |-> z[f][s]],
                         reasons |-> Reasons([f \in DOMAIN TrendWeights |-> z[f][s]]),
                         risk_flags |-> RiskFlags(features[s]),
                         percentile |-> Percentile(score, s)]
           order == RankOrder(score)
           results == ScoreUniverse(features)
<1>0. S \in SUBSET Int /\ IsFiniteSet(S)
  OBVIOUS
<1>1. results = [i \in 1 .. Cardinality(S) |-> Result(order[i])]
  BY DEF ScoreUniverse
<1>2. score \in [S -> Int]
  <2>1. ASSUME NEW s \in S
        PROVE  WeightedSum([f \in DOMAIN TrendWeights |-> z[f][s]]) \in Int
    <3> DEFINE of == [f \in DOMAIN TrendWeights |-> z[f][s]]
    <3>1. \A f \in DOMAIN TrendWeights : z[f][s] \in Int
      <4> SUFFICES ASSUME NEW f \in DOMAIN TrendWeights
                   PROVE  z[f][s] \in Int
        OBVIOUS
      <4> DEFINE raw == [t \in S |-> FactorRaw(features[t])[f]]
      <4>1. s \in DOMAIN raw
        OBVIOUS
      <4>2. z[f] = ZScores(raw)
        OBVIOUS
      <4> HIDE DEF raw, z
      <4>3. \A v \in - WinsorZ .. WinsorZ : v \in Int
        OBVIOUS
      <4> QED BY <4>1, <4>2, <4>3, ZScoreRange
    <3>2. {"momentum", "volume", "relative_strength", "acceleration"} = DOMAIN TrendWeights
      BY DEF TrendWeights
    <3> HIDE DEF z
    <3>3. of \in [{"momentum", "volume", "relative_strength", "acceleration"} -> Int]
      BY <3>1, <3>2
    <3> HIDE DEF of
    <3>4. /\ of.momentum \in Int /\ of.volume \in Int
          /\ of.relative_strength \in Int /\ of.acceleration \in Int
      BY <3>3
    <3>5. WeightedSum(of) \in Int
      BY <3>4 DEF WeightedSum, TrendWeights
    <3> QED BY <3>5 DEF of
  <2> HIDE DEF z
  <2> QED BY <2>1
<1>3. \A s \in S : \A f \in DOMAIN TrendWeights :
        FactorRaw(features[s])[f] = None => Result(s).z[f] = 0
  <2> SUFFICES ASSUME NEW s \in S, NEW f \in DOMAIN TrendWeights,
                      FactorRaw(features[s])[f] = None
               PROVE  Result(s).z[f] = 0
    OBVIOUS
  <2> DEFINE raw == [t \in S |-> FactorRaw(features[t])[f]]
  <2>1. s \in DOMAIN raw /\ raw[s] = None
    OBVIOUS
  <2>2. z[f] = ZScores(raw)
    OBVIOUS
  <2>3. Result(s).z[f] = z[f][s]
    OBVIOUS
  <2> HIDE DEF raw, z, Result
  <2> QED BY <2>1, <2>2, <2>3, MissingScoresNothing
<1>4. \A s \in S : /\ Result(s).symbol = s /\ Result(s).score = score[s]
                   /\ Result(s).percentile = Percentile(score, s)
  OBVIOUS
<1> HIDE DEF z, score, Result
<1>5. \A i \in 1 .. Cardinality(S) : order[i] \in S
  <2> HIDE DEF S
  <2> QED BY <1>0, <1>2, RankOrderLists
<1> HIDE DEF order
<1>6. \A i \in 1 .. Cardinality(S) : results[i] = Result(order[i])
  BY <1>1
<1>7. results = [i \in 1 .. Cardinality(S) |-> results[i]] /\ DOMAIN results = 1 .. Cardinality(S)
  BY <1>1
<1> HIDE DEF results, S
<1>8. \A i \in 1 .. Cardinality(S) : /\ results[i].symbol = order[i]
                                     /\ results[i].score = score[order[i]]
                                     /\ results[i].percentile = Percentile(score, order[i])
  BY <1>4, <1>5, <1>6
<1>9. ResultsOf(features, results)
  BY <1>3, <1>4, <1>5, <1>6, <1>7 DEF ResultsOf, S
<1> QED BY <1>2, <1>5, <1>7, <1>8, <1>9 DEF RankedBest, results, order, S

\* The results are of the symbols scored, each with an integer for its score.
Scored(results, S, score) ==
  /\ score \in [S -> Int]
  /\ \A i \in DOMAIN results : results[i].symbol \in S /\ results[i].score = score[results[i].symbol]

LEMMA ScoreUniverseScores ==
  ASSUME NEW features, DOMAIN features \in SUBSET Int, IsFiniteSet(DOMAIN features)
  PROVE  /\ \E score : Scored(ScoreUniverse(features), DOMAIN features, score)
         /\ DOMAIN ScoreUniverse(features) = 1 .. Cardinality(DOMAIN features)
<1>1. PICK score : RankedBest(ScoreUniverse(features), features, score)
  BY UniverseResults
<1>2. DOMAIN ScoreUniverse(features) = 1 .. Cardinality(DOMAIN features)
  <2> DEFINE results == ScoreUniverse(features)
             n == Cardinality(DOMAIN features)
  <2>1. results = [i \in 1 .. n |-> results[i]]
    BY <1>1 DEF RankedBest
  <2> HIDE DEF results, n
  <2>2. DOMAIN results = 1 .. n
    BY <2>1
  <2> QED BY <2>2 DEF results, n
<1>3. Scored(ScoreUniverse(features), DOMAIN features, score)
  BY <1>1, <1>2 DEF RankedBest, Scored
<1> QED BY <1>2, <1>3

\* The scores of a date are integers, of some of the symbols with a history.
LEMMA TrendScoresType ==
  ASSUME NEW histories, NEW benchmark, NEW date,
         DOMAIN histories \in SUBSET Int, IsFiniteSet(DOMAIN histories)
  PROVE  \E D \in SUBSET DOMAIN histories : TrendScores(histories, benchmark, date) \in [D -> Int]
<1> DEFINE tapes == [s \in DOMAIN histories |-> TapeAsOf(histories[s], date, 180)]
           bench == TapeAsOf(benchmark, date, 180).bars
           features == AllFeatures(tapes, bench)
           eligible == Restrict(features, {s \in DOMAIN tapes : PassesGates(features[s])})
           all == ScoreUniverse(eligible)
           n == Cardinality(DOMAIN tapes)
           places == {i \in DOMAIN all : all[i].confidence >= 0}
           kept == Kept(all, places)
           results == FirstOf(kept, n)
<1>1. DOMAIN tapes = DOMAIN histories /\ DOMAIN features = DOMAIN tapes
  BY DEF AllFeatures
<1>2. n \in Nat
  BY <1>1, FS_CardinalityType
<1>3. DOMAIN eligible \in SUBSET DOMAIN histories
  BY <1>1 DEF Restrict
<1>4. DOMAIN eligible \in SUBSET Int /\ IsFiniteSet(DOMAIN eligible)
  <2> HIDE DEF eligible
  <2> QED BY <1>3, FS_Subset
<1>5. /\ \E score : Scored(all, DOMAIN eligible, score)
      /\ DOMAIN all = 1 .. Cardinality(DOMAIN eligible)
  <2> HIDE DEF eligible
  <2> QED BY <1>4, ScoreUniverseScores
<1> HIDE DEF eligible
<1>6. places \in SUBSET Int /\ IsFiniteSet(places)
  <2> HIDE DEF all
  <2>1. Cardinality(DOMAIN eligible) \in Nat
    BY <1>4, FS_CardinalityType
  <2>2. places \in SUBSET DOMAIN all /\ IsFiniteSet(DOMAIN all) /\ DOMAIN all \in SUBSET Int
    BY <1>5, <2>1, FS_Interval
  <2> HIDE DEF places
  <2> QED BY <2>2, FS_Subset
<1>7. results \in Seq({all[i] : i \in places})
  <2> HIDE DEF all, places, n
  <2>1. kept \in Seq({all[i] : i \in places})
    BY <1>6, KeptElements
  <2> HIDE DEF kept
  <2> QED BY <1>2, <2>1, FirstOfType
<1>8. TrendScores(histories, benchmark, date) = ScoresOf(results)
  BY DEF TrendScores, Scan, Shown, ScoreEligible, eligible
<1>9. \A k \in DOMAIN results : \E i \in DOMAIN all : results[k] = all[i]
  <2>1. {all[i] : i \in places} \subseteq {all[i] : i \in DOMAIN all}
    OBVIOUS
  <2> HIDE DEF results, all, places
  <2>2. \A k \in DOMAIN results : results[k] \in {all[i] : i \in places}
    BY <1>7, LenProperties, ElementOfSeq
  <2> QED BY <2>1, <2>2
<1>10. PICK score : Scored(all, DOMAIN eligible, score)
  BY <1>5
<1> HIDE DEF all, results
<1>11. \A k \in DOMAIN results : /\ results[k].symbol \in DOMAIN eligible
                                 /\ results[k].score = score[results[k].symbol]
  BY <1>9, <1>10 DEF Scored
<1>12. score \in [DOMAIN eligible -> Int]
  BY <1>10 DEF Scored
<1> DEFINE D == {results[i].symbol : i \in DOMAIN results}
<1>13. D \in SUBSET DOMAIN histories
  BY <1>3, <1>11
<1>14. \A s \in D : (CHOOSE r \in Range(results) : r.symbol = s).score \in Int
  <2> SUFFICES ASSUME NEW s \in D
               PROVE  (CHOOSE r \in Range(results) : r.symbol = s).score \in Int
    OBVIOUS
  <2>1. \E r \in Range(results) : r.symbol = s
    BY DEF Range
  <2>2. PICK r \in Range(results) : r = (CHOOSE t \in Range(results) : t.symbol = s)
    BY <2>1
  <2>3. r.score \in Int
    BY <1>11, <1>12 DEF Range
  <2> QED BY <2>2, <2>3
<1>15. ScoresOf(results) \in [D -> Int]
  <2> HIDE DEF D
  <2>1. ScoresOf(results) = [s \in D |-> (CHOOSE r \in Range(results) : r.symbol = s).score]
    BY DEF ScoresOf, D
  <2> QED BY <1>14, <2>1
<1> HIDE DEF D
<1> QED BY <1>8, <1>13, <1>15

LEMMA Quotient ==
  ASSUME NEW a \in Int, NEW d \in Nat \ {0}
  PROVE  a \div d \in Int /\ d * (a \div d) <= a /\ a < d * (a \div d) + d
OBVIOUS

LEMMA ProductOrder ==
  ASSUME NEW a \in Int, NEW b \in Int, NEW d \in Nat \ {0}
  PROVE  /\ a <= b => a * d <= b * d
         /\ a < b => a * d + d <= b * d
         /\ a * d < b * d => a < b
         /\ a * d <= b * d => a <= b
OBVIOUS

LEMMA PythonSliceType ==
  ASSUME NEW S, NEW q \in Seq(S), NEW first \in Nat, NEW last \in Int
  PROVE  PythonSlice(q, first, last) \in Seq(S)
<1> DEFINE end == IF last < 0 THEN Len(q) + last ELSE Min({last, Len(q)})
<1>1. Len(q) \in Nat
  BY LenProperties
<1>2. end \in Int /\ end <= Len(q)
  <2>1. CASE last < 0
    BY <1>1, <2>1
  <2>2. CASE last >= 0
    <3>1. last \in Nat /\ ~ last < 0
      BY <2>2
    <3>2. Min({last, Len(q)}) = IF last <= Len(q) THEN last ELSE Len(q)
      BY <1>1, <3>1, MinOfTwo
    <3> QED BY <1>1, <3>1, <3>2
  <2> QED BY <2>1, <2>2
<1> HIDE DEF end
<1>3. \A i \in first + 1 .. end : q[i] \in S
  BY <1>1, <1>2, ElementOfSeq
<1>4. SubSeq(q, first + 1, end) \in Seq(S)
  BY <1>2, <1>3, SubSeqProperties
<1> QED BY <1>4 DEF PythonSlice, end

LEMMA EveryOfType ==
  ASSUME NEW S, NEW q \in Seq(S), NEW every \in Nat \ {0}
  PROVE  EveryOf(q, every) \in Seq(S)
<1> DEFINE l == Len(q)
           m == (l + every - 1) \div every
<1>1. l \in Nat
  BY LenProperties
<1>2. m \in Int /\ every * m <= l + every - 1
  <2>1. l + every - 1 \in Int
    BY <1>1
  <2> HIDE DEF l
  <2> QED BY <2>1, Quotient
<1>3. m >= 0
  <2>1. l + every - 1 < every * m + every
    <3>1. l + every - 1 \in Int
      BY <1>1
    <3> HIDE DEF l
    <3> QED BY <3>1, Quotient
  <2> HIDE DEF m, l
  <2>2. 0 * every < (m + 1) * every
    BY <1>1, <1>2, <2>1
  <2>3. 0 < m + 1
    BY <1>2, <2>2, ProductOrder
  <2> QED BY <1>2, <2>3
<1> HIDE DEF m
<1>4. ASSUME NEW k \in 1 .. m
      PROVE  q[(k - 1) * every + 1] \in S
  <2>1. k * every <= m * every
    BY <1>2, <1>4, ProductOrder
  <2>2. (k - 1) * every >= 0
    <3>1. 0 * every <= (k - 1) * every
      BY <1>4, ProductOrder
    <3> QED BY <3>1
  <2>3. (k - 1) * every + 1 \in 1 .. Len(q)
    <3>1. (k - 1) * every = k * every - every
      OBVIOUS
    <3>2. m * every = every * m
      BY <1>2
    <3>3. (k - 1) * every \in Int
      OBVIOUS
    <3> QED BY <1>1, <1>2, <2>1, <2>2, <3>1, <3>2, <3>3 DEF l
  <2> QED BY <2>3, ElementOfSeq
<1>5. EveryOf(q, every) = [k \in 1 .. m |-> q[(k - 1) * every + 1]]
  BY DEF EveryOf, m, l
<1>6. EveryOf(q, every) \in [1 .. m -> S]
  BY <1>4, <1>5
<1>7. m \in Nat
  BY <1>2, <1>3
<1> QED BY <1>6, <1>7, SeqDef

LEMMA RebalanceDatesType ==
  ASSUME NEW histories, NEW benchmark, NEW every \in Nat \ {0}, NEW warmup \in Nat, NEW horizon \in Nat,
         IsFiniteSet(DOMAIN histories),
         \A s \in DOMAIN histories :
           DOMAIN histories[s] \in SUBSET Int /\ IsFiniteSet(DOMAIN histories[s]),
         DOMAIN benchmark \in SUBSET Int, IsFiniteSet(DOMAIN benchmark)
  PROVE  RebalanceDates(histories, benchmark, every, warmup, horizon) \in Seq(Int)
<1> DEFINE all == UNION {DOMAIN histories[s] : s \in DOMAIN histories}
           days == IF DOMAIN benchmark # {} THEN DOMAIN benchmark ELSE all
           calendar == Sorted(days, LAMBDA c, d : c < d)
<1>1. IsFiniteSet(all) /\ all \in SUBSET Int
  <2> DEFINE f == [s \in DOMAIN histories |-> DOMAIN histories[s]]
             T == {DOMAIN histories[s] : s \in DOMAIN histories}
  <2>1. f \in Surjection(DOMAIN histories, T)
    BY DEF Surjection
  <2>2. IsFiniteSet(T)
    <3> HIDE DEF f, T
    <3> QED BY <2>1, FS_Surjection
  <2>3. \A t \in T : IsFiniteSet(t) /\ t \in SUBSET Int
    OBVIOUS
  <2>4. all = UNION T
    OBVIOUS
  <2> HIDE DEF T, all
  <2> QED BY <2>2, <2>3, <2>4, FS_UNION
<1>2. days \in SUBSET Int /\ IsFiniteSet(days)
  BY <1>1
<1> HIDE DEF days, all
<1>3. calendar \in Seq(Int)
  <2>1. calendar \in [1 .. Cardinality(days) -> days]
    BY <1>2, SortedNumbers
  <2>2. Cardinality(days) \in Nat
    BY <1>2, FS_CardinalityType
  <2> HIDE DEF calendar
  <2>3. calendar \in [1 .. Cardinality(days) -> Int]
    BY <1>2, <2>1
  <2> QED BY <2>2, <2>3, SeqDef
<1> HIDE DEF calendar
<1>4. Len(calendar) - horizon \in Int
  BY <1>3, LenProperties
<1>5. EveryOf(PythonSlice(calendar, warmup, Len(calendar) - horizon), every) \in Seq(Int)
  BY <1>3, <1>4, PythonSliceType, EveryOfType
<1> QED BY <1>5 DEF RebalanceDates, days, all, calendar

\* The first of N places whose bucket of n is b or higher.
FirstPlace(b, N, n) == (b * N + n - 1) \div n

LEMMA FirstPlaceFacts ==
  ASSUME NEW b \in Nat, NEW N \in Nat, NEW n \in Nat \ {0}
  PROVE  /\ FirstPlace(b, N, n) \in Int
         /\ FirstPlace(b, N, n) * n >= b * N
         /\ FirstPlace(b, N, n) * n <= b * N + n - 1
         /\ \A p \in Int : p * n >= b * N <=> p >= FirstPlace(b, N, n)
<1> DEFINE first == FirstPlace(b, N, n)
           a == b * N + n - 1
<1>1. a \in Int /\ b * N \in Int
  OBVIOUS
<1>2. first \in Int /\ n * first <= a /\ a < n * first + n
  <2> HIDE DEF a
  <2>1. a \div n \in Int /\ n * (a \div n) <= a /\ a < n * (a \div n) + n
    BY <1>1, Quotient
  <2> QED BY <2>1 DEF FirstPlace, a
<1> HIDE DEF first
<1>3. first * n = n * first
  BY <1>2
<1>4. first * n \in Int
  BY <1>2
<1>5. first * n >= b * N /\ first * n <= b * N + n - 1
  BY <1>1, <1>2, <1>3, <1>4
<1>6. ASSUME NEW p \in Int
      PROVE  p * n >= b * N <=> p >= first
  <2>1. p >= first => p * n >= first * n
    BY <1>2, ProductOrder
  <2>2. p < first => p * n + n <= first * n
    BY <1>2, ProductOrder
  <2>3. p * n \in Int
    OBVIOUS
  <2> QED BY <1>1, <1>2, <1>4, <1>5, <2>1, <2>2, <2>3
<1> QED BY <1>2, <1>5, <1>6 DEF first

\* The symbols in a bucket.
InBucket(bucket, D, b) == {s \in D : bucket[s] = b}

\* The size of a bucket differs from N / n by less than one.
LEMMA BucketSizes ==
  ASSUME NEW N \in Nat, NEW n \in Nat \ {0}, N >= n, NEW b \in 0 .. n - 1,
         NEW place, NEW D, place \in Bijection(D, 0 .. N - 1), IsFiniteSet(D),
         NEW bucket, \A s \in D : bucket[s] = (place[s] * n) \div N
  PROVE  LET c == Cardinality(InBucket(bucket, D, b))
         IN  c \in Nat /\ c * n >= N - n + 1 /\ c * n <= N + n - 1
<1> DEFINE lo == FirstPlace(b, N, n)
           hi == FirstPlace(b + 1, N, n)
           names == InBucket(bucket, D, b)
<1>0. N \in Nat \ {0} /\ b \in Nat /\ b + 1 \in Nat
  OBVIOUS
<1>1. /\ lo \in Int /\ lo * n >= b * N /\ lo * n <= b * N + n - 1
      /\ \A p \in Int : p * n >= b * N <=> p >= lo
  BY <1>0, FirstPlaceFacts
<1>2. /\ hi \in Int /\ hi * n >= (b + 1) * N /\ hi * n <= (b + 1) * N + n - 1
      /\ \A p \in Int : p * n >= (b + 1) * N <=> p >= hi
  BY <1>0, FirstPlaceFacts
<1> HIDE DEF lo, hi
<1>3. (b + 1) * N = b * N + N /\ b * N \in Int
  BY <1>0
<1>4. ASSUME NEW p \in Int
      PROVE  (p * n) \div N = b <=> p \in lo .. hi - 1
  <2> DEFINE x == p * n
             q == x \div N
  <2>1. x \in Int
    OBVIOUS
  <2>2. q \in Int /\ N * q <= x /\ x < N * q + N
    <3> HIDE DEF x
    <3> QED BY <1>0, <2>1, Quotient
  <2> HIDE DEF q
  <2>3. q * N = N * q /\ q * N \in Int
    BY <2>2
  <2>4. q = b <=> x >= b * N /\ x < (b + 1) * N
    <3>1. q = b => x >= b * N /\ x < (b + 1) * N
      <4> HIDE DEF x
      <4> QED BY <1>0, <1>3, <2>1, <2>2, <2>3
    <3>2. ASSUME x >= b * N, x < (b + 1) * N
          PROVE  q = b
      <4>1. b * N < (q + 1) * N
        <5>1. (q + 1) * N = q * N + N
          BY <1>0, <2>2
        <5> HIDE DEF x
        <5> QED BY <1>0, <1>3, <2>1, <2>2, <2>3, <3>2, <5>1
      <4>2. q * N < (b + 1) * N
        <5> HIDE DEF x
        <5> QED BY <1>0, <1>3, <2>1, <2>2, <2>3, <3>2
      <4>3. b < q + 1 /\ q < b + 1
        BY <1>0, <2>2, <4>1, <4>2, ProductOrder
      <4> QED BY <1>0, <2>2, <4>3
    <3> QED BY <3>1, <3>2
  <2>5. x >= b * N <=> p >= lo
    BY <1>1
  <2>6. x < (b + 1) * N <=> p < hi
    <3>1. x >= (b + 1) * N <=> p >= hi
      BY <1>2
    <3>2. (b + 1) * N \in Int
      BY <1>0
    <3> HIDE DEF x
    <3> QED BY <1>2, <2>1, <3>1, <3>2
  <2> HIDE DEF x
  <2>7. q = b <=> p \in lo .. hi - 1
    BY <1>1, <1>2, <2>4, <2>5, <2>6
  <2> QED BY <2>7 DEF q, x
<1>5. lo .. hi - 1 \subseteq 0 .. N - 1
  <2>1. lo >= 0
    <3>1. -1 * n < 0 /\ 0 <= b * N
      BY <1>0
    <3>2. -1 * n < lo * n
      <4>1. lo * n \in Int
        BY <1>1
      <4> QED BY <1>1, <1>3, <3>1, <4>1
    <3>3. -1 < lo
      BY <1>1, <3>2, ProductOrder
    <3> QED BY <1>1, <3>3
  <2>2. hi <= N
    <3>1. (b + 1) * N <= n * N
      BY <1>0, ProductOrder
    <3>2. N * n = n * N /\ N * n \in Int
      OBVIOUS
    <3>3. N * n >= (b + 1) * N
      BY <3>1, <3>2
    <3> QED BY <1>0, <1>2, <3>3
  <2> QED BY <1>1, <1>2, <2>1, <2>2
<1>6. \A s \in D : s \in names <=> place[s] \in lo .. hi - 1
  <2> SUFFICES ASSUME NEW s \in D
               PROVE  s \in names <=> place[s] \in lo .. hi - 1
    OBVIOUS
  <2>1. place[s] \in Int
    BY DEF Bijection, Injection
  <2> QED BY <1>4, <2>1 DEF InBucket
<1>7. Cardinality(names) = Cardinality(lo .. hi - 1)
  <2> DEFINE f == [s \in names |-> place[s]]
  <2>1. names \subseteq D
    BY DEF InBucket
  <2> HIDE DEF names
  <2>2. place \in [D -> 0 .. N - 1]
    BY DEF Bijection, Injection
  <2>3. \A s, t \in D : place[s] = place[t] => s = t
    BY DEF Bijection, Injection, IsInjective
  <2>4. \A p \in 0 .. N - 1 : \E s \in D : place[s] = p
    BY DEF Bijection, Surjection
  <2>5. f \in [names -> lo .. hi - 1]
    BY <1>6, <2>1
  <2>6. \A p \in lo .. hi - 1 : \E s \in names : f[s] = p
    BY <1>5, <1>6, <2>1, <2>4
  <2>7. f \in Bijection(names, lo .. hi - 1)
    <3>1. \A s, t \in names : f[s] = f[t] => s = t
      BY <2>1, <2>3
    <3> QED BY <2>5, <2>6, <3>1 DEF Bijection, Injection, Surjection, IsInjective
  <2>8. ExistsBijection(names, lo .. hi - 1)
    BY <2>7 DEF ExistsBijection
  <2>9. IsFiniteSet(names)
    BY <2>1, FS_Subset
  <2> HIDE DEF f
  <2> QED BY <2>8, <2>9, FS_Bijection
<1> DEFINE c == hi - lo
<1>8. c * n = hi * n - lo * n /\ hi * n \in Int /\ lo * n \in Int
  BY <1>1, <1>2
<1>9. c * n >= N - n + 1 /\ c * n <= N + n - 1
  <2>1. (b + 1) * N \in Int
    BY <1>0
  <2> HIDE DEF c
  <2> QED BY <1>1, <1>2, <1>3, <1>8, <2>1
<1>10. c \in Nat
  <2>1. c \in Int
    BY <1>1, <1>2
  <2> HIDE DEF c
  <2>2. 0 * n < c * n
    <3>1. c * n \in Int
      BY <2>1
    <3> QED BY <1>9, <3>1
  <2>3. 0 < c
    BY <2>1, <2>2, ProductOrder
  <2> QED BY <2>1, <2>3
<1>11. Cardinality(lo .. hi - 1) = c
  <2>1. hi - 1 \in Int
    BY <1>2
  <2>2. Cardinality(lo .. hi - 1) = IF lo > hi - 1 THEN 0 ELSE (hi - 1) - lo + 1
    BY <1>1, <2>1, FS_Interval
  <2> QED BY <1>1, <1>2, <1>10, <2>2
<1> HIDE DEF c, names
<1> QED BY <1>7, <1>9, <1>10, <1>11 DEF names

GoodBuckets(bucket, score, n) ==
  /\ \A b, c \in 0 .. n - 1 :
       /\ Cardinality(InBucket(bucket, DOMAIN score, b)) > 0
       /\ Cardinality(InBucket(bucket, DOMAIN score, b))
            <= Cardinality(InBucket(bucket, DOMAIN score, c)) + 1
  /\ \A s, t \in DOMAIN score : bucket[s] < bucket[t] => score[s] <= score[t]

\* Buckets of symbols by score are of equal size, but for one, and ordered.
LEMMA AssignedBuckets ==
  ASSUME NEW D, D \in SUBSET Int, IsFiniteSet(D), NEW score \in [D -> Int],
         NEW n \in Nat \ {0}, Cardinality(D) >= n
  PROVE  /\ GoodBuckets(AssignBuckets(score, n), score, n)
         /\ DOMAIN AssignBuckets(score, n) = D
<1> DEFINE N == Cardinality(D)
           Lower(t, s) == score[t] < score[s] \/ (score[t] = score[s] /\ t < s)
           R == {p \in D \X D : Lower(p[1], p[2])}
           Place(s) == Cardinality({t \in D : Lower(t, s)})
           place == [s \in D |-> Cardinality(ElementsBefore(R, D, s))]
           bucket == AssignBuckets(score, n)
<1>1. N \in Nat /\ N >= n
  BY FS_CardinalityType
<1>2. \A s, t \in D : <<s, t>> \in R <=> Lower(s, t)
  OBVIOUS
<1> HIDE DEF R
<1>3. Orders(R, D)
  BY <1>2 DEF Orders
<1>4. \A s \in D : place[s] = Place(s)
  <2> SUFFICES ASSUME NEW s \in D
               PROVE  Cardinality(ElementsBefore(R, D, s)) = Place(s)
    OBVIOUS
  <2>1. ElementsBefore(R, D, s) = {t \in D : Lower(t, s)}
    BY <1>2 DEF ElementsBefore
  <2> QED BY <2>1
<1>5. place \in [D -> 0 .. N - 1]
  BY <1>3, RankRange
<1>6. \A s, t \in D : <<s, t>> \in R => place[s] < place[t]
  BY <1>3, RankIncreases
<1>7. place \in Bijection(D, 0 .. N - 1)
  BY <1>3, RankBijection
<1> HIDE DEF place
<1>8. bucket = [s \in D |-> Min({n - 1, (Place(s) * n) \div N})]
  <2>1. DOMAIN score = D
    OBVIOUS
  <2> QED BY <2>1 DEF AssignBuckets
<1> HIDE DEF Place, bucket, N
<1>9. ASSUME NEW s \in D
      PROVE  bucket[s] = (place[s] * n) \div N /\ bucket[s] \in Nat
  <2> DEFINE x == place[s] * n
             q == x \div N
  <2>1. place[s] \in 0 .. N - 1 /\ N \in Nat \ {0}
    BY <1>1, <1>5
  <2>2. x \in Int /\ 0 <= x /\ x <= N * n - n
    <3>1. 0 * n <= place[s] * n /\ place[s] * n + n <= N * n
      BY <2>1, ProductOrder
    <3>2. N * n \in Int /\ place[s] * n \in Int
      BY <2>1
    <3> QED BY <3>1, <3>2
  <2>3. q \in Int /\ N * q <= x /\ x < N * q + N
    <3> HIDE DEF x
    <3> QED BY <2>1, <2>2, Quotient
  <2> HIDE DEF q, x
  <2>4. q * N = N * q /\ q * N \in Int /\ n * N = N * n /\ N * n \in Int /\ (q + 1) * N = q * N + N
    BY <2>1, <2>3
  <2>5. q * N < n * N
    BY <2>1, <2>2, <2>3, <2>4
  <2>6. q < n
    BY <2>1, <2>3, <2>5, ProductOrder
  <2>7. 0 * N < (q + 1) * N
    BY <2>1, <2>2, <2>3, <2>4
  <2>8. 0 < q + 1
    BY <2>1, <2>3, <2>7, ProductOrder
  <2>9. Min({n - 1, q}) = q /\ q \in Nat
    <3>1. n - 1 \in Nat /\ q \in Nat /\ n - 1 >= q
      BY <2>3, <2>6, <2>8
    <3>2. Min({n - 1, q}) = IF n - 1 <= q THEN n - 1 ELSE q
      BY <3>1, MinOfTwo
    <3> QED BY <3>1, <3>2
  <2>10. bucket[s] = Min({n - 1, q})
    BY <1>4, <1>8 DEF q, x
  <2> QED BY <2>9, <2>10 DEF q, x
<1>10. ASSUME NEW b \in 0 .. n - 1
       PROVE  LET c == Cardinality(InBucket(bucket, D, b))
              IN  c \in Nat /\ c * n >= N - n + 1 /\ c * n <= N + n - 1
  BY <1>1, <1>7, <1>9, BucketSizes
<1>11. ASSUME NEW b \in 0 .. n - 1, NEW c \in 0 .. n - 1
       PROVE  /\ Cardinality(InBucket(bucket, D, b)) > 0
              /\ Cardinality(InBucket(bucket, D, b)) <= Cardinality(InBucket(bucket, D, c)) + 1
  <2> DEFINE x == Cardinality(InBucket(bucket, D, b))
             y == Cardinality(InBucket(bucket, D, c))
  <2>1. x \in Nat /\ x * n >= N - n + 1 /\ x * n <= N + n - 1
    BY <1>10
  <2>2. y \in Nat /\ y * n >= N - n + 1 /\ y * n <= N + n - 1
    BY <1>10
  <2> HIDE DEF x, y
  <2>3. x * n \in Int /\ y * n \in Int /\ (y + 2) * n = y * n + 2 * n
    BY <2>1, <2>2
  <2>4. 0 * n < x * n
    BY <1>1, <2>1, <2>3
  <2>5. x * n < (y + 2) * n
    BY <1>1, <2>1, <2>2, <2>3
  <2>6. 0 < x /\ x < y + 2
    BY <2>1, <2>2, <2>4, <2>5, ProductOrder
  <2>7. x > 0 /\ x <= y + 1
    BY <2>1, <2>2, <2>6
  <2> QED BY <2>7 DEF x, y
<1>12. ASSUME NEW s \in D, NEW t \in D, bucket[s] < bucket[t]
       PROVE  score[s] <= score[t]
  <2>1. SUFFICES ASSUME score[t] < score[s]
                 PROVE  FALSE
    OBVIOUS
  <2>2. place[t] < place[s]
    BY <1>2, <1>6, <2>1
  <2>3. place[s] \in Int /\ place[t] \in Int
    BY <1>5
  <2>4. place[t] * n <= place[s] * n
    BY <2>2, <2>3, ProductOrder
  <2> DEFINE u == place[t] * n
             v == place[s] * n
  <2>5. u \in Int /\ v \in Int /\ u <= v
    BY <2>3, <2>4
  <2>6. bucket[t] = u \div N /\ bucket[s] = v \div N
    BY <1>9
  <2> HIDE DEF u, v
  <2>7. N \in Nat \ {0}
    BY <1>1
  <2>8. N * bucket[t] <= u /\ v < N * bucket[s] + N
    BY <2>5, <2>6, <2>7, Quotient
  <2>9. bucket[t] \in Int /\ bucket[s] \in Int
    BY <1>9
  <2>10. (bucket[s] + 1) * N <= bucket[t] * N
    BY <1>12, <2>7, <2>9, ProductOrder
  <2>11. /\ (bucket[s] + 1) * N = N * bucket[s] + N /\ bucket[t] * N = N * bucket[t]
         /\ N * bucket[s] \in Int /\ N * bucket[t] \in Int
    BY <2>7, <2>9
  <2> QED BY <2>5, <2>7, <2>8, <2>10, <2>11
<1>13. DOMAIN bucket = D /\ DOMAIN score = D
  BY <1>8
<1> QED BY <1>11, <1>12, <1>13 DEF GoodBuckets, bucket

\* A return has a price up to the date and `horizon` bars later.
LEMMA ForwardReturnHasRoom ==
  ASSUME NEW history, DOMAIN history \in SUBSET Int, IsFiniteSet(DOMAIN history),
         NEW date \in Int, NEW horizon \in Nat, ForwardReturn(history, date, horizon) # None
  PROVE  /\ Cardinality({d \in DOMAIN history : d > date}) >= horizon
         /\ \E d \in DOMAIN history : d <= date
<1> DEFINE D == DOMAIN history
           before == {d \in D : d <= date}
           after == {d \in D : d > date}
           i == Cardinality(before)
<1>1. DatesOf(history) \in [1 .. Cardinality(D) -> D]
  BY SortedNumbers DEF DatesOf
<1>2. Cardinality(D) \in Nat
  BY FS_CardinalityType
<1>3. Len(DatesOf(history)) = Cardinality(D)
  <2> DEFINE k == Cardinality(D)
             l == Len(DatesOf(history))
  <2> HIDE DEF D
  <2>1. DatesOf(history) \in Seq(D)
    BY <1>1, <1>2, SeqDef
  <2>2. DOMAIN DatesOf(history) = 1 .. l /\ l \in Nat
    BY <2>1, LenProperties
  <2>3. DOMAIN DatesOf(history) = 1 .. k /\ k \in Nat
    BY <1>1, <1>2
  <2> HIDE DEF k, l
  <2>4. Cardinality(1 .. k) = k /\ Cardinality(1 .. l) = l
    BY <2>2, <2>3, FS_Interval
  <2>5. k = l
    BY <2>2, <2>3, <2>4
  <2> QED BY <2>5 DEF k, l
<1>4. i # 0 /\ ~ i + horizon > Len(DatesOf(history))
  BY DEF ForwardReturn
<1>5. IsFiniteSet(before) /\ i \in Nat
  BY FS_Subset, FS_CardinalityType
<1>6. after = D \ before /\ D \cap before = before
  OBVIOUS
<1>7. Cardinality(after) = Cardinality(D) - i
  <2> HIDE DEF after, before
  <2>1. IsFiniteSet(D)
    OBVIOUS
  <2> HIDE DEF D
  <2> QED BY <1>6, <2>1, FS_Difference
<1>8. before # {}
  <2> HIDE DEF before
  <2> QED BY <1>4, FS_EmptySet
<1>9. Cardinality(after) >= horizon
  <2> HIDE DEF after, D, i
  <2> QED BY <1>2, <1>3, <1>4, <1>5, <1>7
<1> QED BY <1>8, <1>9

LEMMA RebalancesAreGood ==
  ASSUME NEW x, IsBacktestCall(x), NEW date \in Int,
         NEW D \in SUBSET DOMAIN x.histories, NEW scores \in [D -> Int],
         RebalanceOn(x.histories, date, scores, x.horizon, x.buckets) # None
  PROVE  GoodRebalance(x, RebalanceOn(x.histories, date, scores, x.horizon, x.buckets))
<1> DEFINE n == x.buckets
           all == [s \in D |-> ForwardReturn(x.histories[s], date, x.horizon)]
           P == Present(all)
           returns == ForwardReturns(x.histories, scores, date, x.horizon)
           score == Restrict(scores, P)
           bucket == AssignBuckets(score, n)
           r == Rebalance(date, score, returns, n)
<1>1. n \in Nat \ {0} /\ x.horizon \in Nat
  BY DEF IsBacktestCall
<1>2. P \in SUBSET D /\ \A s \in P : ForwardReturn(x.histories[s], date, x.horizon) # None
  BY DEF Present
<1>3. returns = Restrict(all, P) /\ DOMAIN returns = P
  BY DEF ForwardReturns, Restrict
<1>4. P \in SUBSET Int /\ IsFiniteSet(P)
  <2> HIDE DEF P
  <2> QED BY <1>2, FS_Subset DEF IsBacktestCall
<1>5. score \in [P -> Int]
  <2> HIDE DEF P
  <2> QED BY <1>2 DEF Restrict
<1> HIDE DEF P, score
<1>6. /\ Cardinality(P) >= n
      /\ RebalanceOn(x.histories, date, scores, x.horizon, n) = r
  <2>1. RebalanceOn(x.histories, date, scores, x.horizon, n)
          = IF Cardinality(P) < n THEN None ELSE Rebalance(date, Restrict(scores, P), returns, n)
    <3> HIDE DEF returns
    <3> QED BY <1>3 DEF RebalanceOn, RebalanceIfEnough, returns
  <2>2. Cardinality(P) \in Nat
    BY <1>4, FS_CardinalityType
  <2>3. ~ Cardinality(P) < n
    BY <2>1
  <2> QED BY <1>1, <2>1, <2>2, <2>3 DEF score
<1>7. GoodBuckets(bucket, score, n) /\ DOMAIN bucket = P /\ DOMAIN score = P
  BY <1>1, <1>4, <1>5, <1>6, AssignedBuckets
<1>8. /\ r.date = date /\ r.scores = score /\ r.bucket = bucket
      /\ \A b \in 0 .. n - 1 : r.buckets[b].count = Cardinality(InBucket(bucket, P, b))
  <2> HIDE DEF returns, n
  <2>1. r.date = date /\ r.scores = score /\ r.bucket = bucket
    BY DEF Rebalance
  <2>2. \A b \in 0 .. n - 1 : r.buckets[b].count = Cardinality({s \in DOMAIN bucket : bucket[s] = b})
    BY DEF Rebalance
  <2> QED BY <1>7, <2>1, <2>2 DEF InBucket
<1>9. \A s \in P : /\ Cardinality({d \in DOMAIN x.histories[s] : d > date}) >= x.horizon
                   /\ \E d \in DOMAIN x.histories[s] : d <= date
  <2> SUFFICES ASSUME NEW s \in P
               PROVE  /\ Cardinality({d \in DOMAIN x.histories[s] : d > date}) >= x.horizon
                      /\ \E d \in DOMAIN x.histories[s] : d <= date
    OBVIOUS
  <2>1. DOMAIN x.histories[s] \in SUBSET Int /\ IsFiniteSet(DOMAIN x.histories[s])
    BY <1>2 DEF IsBacktestCall
  <2> QED BY <1>1, <1>2, <2>1, ForwardReturnHasRoom
<1> HIDE DEF bucket, r
<1>10. GoodRebalance(x, r)
  BY <1>7, <1>8, <1>9 DEF GoodRebalance, GoodBuckets, n
<1> QED BY <1>6, <1>10

LEMMA GoodBacktests ==
  ASSUME NEW x, IsBacktestCall(x)
  PROVE  GoodBacktest(x, Report(x.histories, x.bench, x.every, x.warmup, x.horizon, x.buckets))
<1> DEFINE answer == Report(x.histories, x.bench, x.every, x.warmup, x.horizon, x.buckets)
           dates == RebalanceDates(x.histories, x.bench, x.every, x.warmup, x.horizon)
           Round(k) == RebalanceOn(x.histories, dates[k],
                                   TrendScores(x.histories, x.bench, dates[k]), x.horizon, x.buckets)
           rounds == [k \in DOMAIN dates |-> Round(k)]
           places == Present(rounds)
           kept == Kept(rounds, places)
<1>1. answer.rebalances = kept
  BY DEF Report, Summary, Rebalances
<1>2. dates \in Seq(Int)
  BY RebalanceDatesType DEF IsBacktestCall
<1> HIDE DEF dates, answer
<1>3. DOMAIN dates = 1 .. Len(dates) /\ Len(dates) \in Nat /\ \A k \in DOMAIN dates : dates[k] \in Int
  BY <1>2, LenProperties, ElementOfSeq
<1>4. places \in SUBSET DOMAIN dates /\ \A k \in places : rounds[k] # None /\ rounds[k] = Round(k)
  <2> HIDE DEF Round
  <2> QED BY DEF Present
<1>5. places \in SUBSET Int /\ IsFiniteSet(places)
  <2>1. IsFiniteSet(DOMAIN dates) /\ DOMAIN dates \in SUBSET Int
    BY <1>3, FS_Interval
  <2> HIDE DEF places
  <2> QED BY <1>4, <2>1, FS_Subset
<1>6. ASSUME NEW k \in places
      PROVE  GoodRebalance(x, rounds[k])
  <2>1. dates[k] \in Int
    BY <1>3, <1>4
  <2>2. PICK D \in SUBSET DOMAIN x.histories : TrendScores(x.histories, x.bench, dates[k]) \in [D -> Int]
    BY TrendScoresType DEF IsBacktestCall
  <2>3. Round(k) # None
    BY <1>4
  <2>4. GoodRebalance(x, Round(k))
    BY <2>1, <2>2, <2>3, RebalancesAreGood
  <2> HIDE DEF Round, rounds, places
  <2> QED BY <1>4, <2>4
<1> HIDE DEF rounds, places
<1>7. kept \in Seq({rounds[k] : k \in places})
  BY <1>5, KeptElements
<1> HIDE DEF kept
<1>8. \A i \in DOMAIN kept : \E k \in places : kept[i] = rounds[k]
  BY <1>7, LenProperties, ElementOfSeq
<1>9. GoodBacktest(x, answer)
  BY <1>1, <1>6, <1>8 DEF GoodBacktest
<1> QED BY <1>9 DEF answer

-----------------------------------------------------------------------------
\* Conversations.

IsSequence(q) == q \in Seq(Range(q))

LEMMA Listed ==
  ASSUME NEW n \in Nat, NEW q, q = [i \in 1 .. n |-> q[i]]
  PROVE  IsSequence(q) /\ Len(q) = n
<1>1. q \in [1 .. n -> Range(q)]
  <2>1. DOMAIN q = 1 .. n
    OBVIOUS
  <2>2. \A i \in 1 .. n : q[i] \in Range(q)
    BY <2>1 DEF Range
  <2> QED BY <2>2
<1>2. q \in Seq(Range(q))
  BY <1>1, SeqDef
<1>3. Len(q) \in Nat /\ DOMAIN q = 1 .. Len(q)
  BY <1>2, LenProperties
<1>4. 1 .. n = 1 .. Len(q)
  BY <1>1, <1>3
<1>5. Len(q) = n
  <2>1. \A m \in Nat : 1 .. n = 1 .. m => m = n
    <3> SUFFICES ASSUME NEW m \in Nat, 1 .. n = 1 .. m
                 PROVE  m = n
      OBVIOUS
    <3>1. n >= 1 => n \in 1 .. m
      OBVIOUS
    <3>2. m >= 1 => m \in 1 .. n
      OBVIOUS
    <3> QED BY <3>1, <3>2
  <2> QED BY <1>3, <1>4, <2>1
<1> QED BY <1>2, <1>5 DEF IsSequence

LEMMA Counted ==
  ASSUME NEW q, IsSequence(q)
  PROVE  Len(q) \in Nat /\ DOMAIN q = 1 .. Len(q) /\ q = [i \in 1 .. Len(q) |-> q[i]]
<1>1. Len(q) \in Nat /\ q \in [1 .. Len(q) -> Range(q)] /\ DOMAIN q = 1 .. Len(q)
  BY LenProperties DEF IsSequence
<1> QED BY <1>1

LEMMA Joined ==
  ASSUME NEW p, NEW q, IsSequence(p), IsSequence(q)
  PROVE  /\ IsSequence(p \o q)
         /\ Len(p) \in Nat /\ Len(q) \in Nat /\ Len(p \o q) = Len(p) + Len(q)
         /\ DOMAIN (p \o q) = 1 .. Len(p) + Len(q)
         /\ \A i \in 1 .. Len(p) : (p \o q)[i] = p[i]
         /\ \A i \in 1 .. Len(q) : (p \o q)[Len(p) + i] = q[i]
<1> DEFINE S == Range(p) \cup Range(q)
           r == p \o q
<1>1. p \in Seq(S) /\ q \in Seq(S)
  BY SeqMonotonic DEF IsSequence
<1>2. Len(p) \in Nat /\ Len(q) \in Nat
  BY <1>1, LenProperties
<1>3. /\ r \in Seq(S) /\ Len(r) = Len(p) + Len(q)
      /\ \A i \in 1 .. Len(p) + Len(q) :
           r[i] = IF i <= Len(p) THEN p[i] ELSE q[i - Len(p)]
  <2> HIDE DEF S
  <2> QED BY <1>1, ConcatProperties
<1> HIDE DEF S, r
<1>4. r = [i \in 1 .. Len(p) + Len(q) |-> r[i]]
  BY <1>3, LenProperties
<1>5. IsSequence(r)
  BY <1>2, <1>4, Listed
<1>6. \A i \in 1 .. Len(p) : r[i] = p[i]
  BY <1>2, <1>3
<1>7. \A i \in 1 .. Len(q) : r[Len(p) + i] = q[i]
  <2> SUFFICES ASSUME NEW i \in 1 .. Len(q)
               PROVE  r[Len(p) + i] = q[i]
    OBVIOUS
  <2>1. /\ Len(p) + i \in 1 .. Len(p) + Len(q)
        /\ ~ Len(p) + i <= Len(p) /\ (Len(p) + i) - Len(p) = i
    BY <1>2
  <2> QED BY <1>3, <2>1
<1>8. DOMAIN r = 1 .. Len(p) + Len(q)
  BY <1>4
<1> QED BY <1>2, <1>3, <1>5, <1>6, <1>7, <1>8 DEF r

\* Message a is of the model, and u is the user's: the replies to a's calls, or
\* a question.
Asks(u) == u.role = "user" /\ u.text = TRUE /\ u.calls = << >> /\ u.results = << >>

Says(a) ==
  /\ a.role = "assistant" /\ a.text \in BOOLEAN /\ a.results = << >>
  /\ IsSequence(a.calls) /\ (a.text \/ a.calls # << >>)

Replies(u, a) ==
  /\ u.role = "user" /\ u.text = FALSE /\ u.calls = << >> /\ u.results # << >>
  /\ IsSequence(u.results) /\ Len(u.results) = Len(a.calls)
  /\ \A i \in 1 .. Len(a.calls) : u.results[i].call_id = a.calls[i].id

Exchange(a, u) == Says(a) /\ (IF a.calls = << >> THEN Asks(u) ELSE Replies(u, a))

\* A question, and n exchanges after it.
Talk(q, n) ==
  /\ n \in Nat /\ IsSequence(q) /\ Len(q) = 2 * n + 1
  /\ Asks(q[1])
  /\ \A j \in 1 .. n : Exchange(q[2 * j], q[2 * j + 1])

LEMMA PairIsSequence ==
  ASSUME NEW a, NEW u
  PROVE  IsSequence(<<a, u>>) /\ Len(<<a, u>>) = 2
<1>1. <<a, u>> = [i \in 1 .. 2 |-> <<a, u>>[i]]
  OBVIOUS
<1> QED BY <1>1, Listed

LEMMA TalkGoesOn ==
  ASSUME NEW q, NEW n, Talk(q, n), NEW a, NEW u, Exchange(a, u)
  PROVE  Talk(q \o <<a, u>>, n + 1)
<1> DEFINE r == q \o <<a, u>>
<1>0. n \in Nat /\ IsSequence(q) /\ Len(q) = 2 * n + 1
  BY DEF Talk
<1>1. IsSequence(<<a, u>>) /\ Len(<<a, u>>) = 2
  BY PairIsSequence
<1>2. /\ IsSequence(r) /\ Len(r) = Len(q) + 2
      /\ \A i \in 1 .. Len(q) : r[i] = q[i]
      /\ \A i \in 1 .. 2 : r[Len(q) + i] = <<a, u>>[i]
  BY <1>0, <1>1, Joined
<1>3. r[2 * (n + 1)] = a /\ r[2 * (n + 1) + 1] = u
  <2>1. r[Len(q) + 1] = a /\ r[Len(q) + 2] = u
    BY <1>2
  <2>2. 2 * (n + 1) = Len(q) + 1 /\ 2 * (n + 1) + 1 = Len(q) + 2
    BY <1>0
  <2> QED BY <2>1, <2>2
<1>4. ASSUME NEW j \in 1 .. n
      PROVE  r[2 * j] = q[2 * j] /\ r[2 * j + 1] = q[2 * j + 1]
  <2>1. 2 * j \in 1 .. Len(q) /\ 2 * j + 1 \in 1 .. Len(q)
    BY <1>0
  <2> QED BY <1>2, <2>1
<1>5. r[1] = q[1]
  BY <1>0, <1>2
<1> HIDE DEF r
<1>6. ASSUME NEW j \in 1 .. n + 1
      PROVE  Exchange(r[2 * j], r[2 * j + 1])
  <2>1. CASE j = n + 1
    BY <1>3, <2>1
  <2>2. CASE j # n + 1
    <3>1. j \in 1 .. n
      BY <1>0, <2>2
    <3> QED BY <1>4, <3>1 DEF Talk
  <2> QED BY <2>1, <2>2
<1>7. n + 1 \in Nat /\ Len(r) = 2 * (n + 1) + 1
  BY <1>0, <1>2
<1>8. Asks(r[1])
  BY <1>5 DEF Talk
<1>9. Talk(r, n + 1)
  BY <1>2, <1>6, <1>7, <1>8 DEF Talk
<1> QED BY <1>9 DEF r

\* The messages of a run are a talk.
IsRun(run) == "messages" \in DOMAIN run /\ \E n : Talk(run.messages, n)

IsResponse(response) ==
  /\ IsSequence(response.calls) /\ response.text \in BOOLEAN
  /\ response.grounded \/ response.text

LEMMA StartedIsRun == IsRun(Started)
<1>1. <<UserText>> = [i \in 1 .. 1 |-> <<UserText>>[i]]
  OBVIOUS
<1>2. IsSequence(<<UserText>>) /\ Len(<<UserText>>) = 1
  BY <1>1, Listed
<1>3. Asks(<<UserText>>[1])
  BY DEF Asks, UserText
<1>4. Talk(<<UserText>>, 0)
  BY <1>2, <1>3 DEF Talk
<1> QED BY <1>4 DEF IsRun, Started

LEMMA RunContinues ==
  ASSUME NEW run, IsRun(run), NEW a, NEW u, Exchange(a, u)
  PROVE  IsRun(Continues(run, <<a, u>>))
<1> DEFINE next == Continues(run, <<a, u>>)
<1>1. PICK n : Talk(run.messages, n)
  BY DEF IsRun
<1>2. Talk(run.messages \o <<a, u>>, n + 1)
  BY <1>1, TalkGoesOn
<1>3. "messages" \in DOMAIN next /\ next.messages = run.messages \o <<a, u>>
  BY DEF IsRun, Continues
<1> HIDE DEF next
<1>4. IsRun(next)
  BY <1>2, <1>3 DEF IsRun
<1> QED BY <1>4 DEF next

LEMMA AnswerExchange ==
  ASSUME NEW text, text = TRUE
  PROVE  Exchange(Assistant(text, << >>), UserText)
<1>1. IsSequence(<< >>)
  BY EmptySeq DEF IsSequence
<1> QED BY <1>1 DEF Exchange, Says, Asks, Assistant, UserText

LEMMA CallsExchange ==
  ASSUME NEW response, IsResponse(response), response.calls # << >>
  PROVE  LET calls == ParseCalls(response.calls)
         IN  Exchange(Assistant(response.text, calls), Answers(Execute(calls)))
<1> DEFINE raw == response.calls
           calls == ParseCalls(raw)
           results == Execute(calls)
           n == Len(raw)
<1>1. n \in Nat /\ DOMAIN raw = 1 .. n /\ raw = [i \in 1 .. n |-> raw[i]]
  BY Counted DEF IsResponse
<1>2. calls = [i \in 1 .. n |-> ParseCall(raw[i])]
  BY <1>1 DEF ParseCalls
<1>3. calls = [i \in 1 .. n |-> calls[i]] /\ DOMAIN calls = 1 .. n
  <2> HIDE DEF calls, n
  <2> QED BY <1>2
<1>4. IsSequence(calls) /\ Len(calls) = n
  <2> HIDE DEF calls, n
  <2> QED BY <1>1, <1>3, Listed
<1> HIDE DEF calls
<1>5. results = [i \in 1 .. n |-> [call_id |-> calls[i].id, refused |-> calls[i].tool \notin Permitted]]
  BY <1>3 DEF Execute
<1>6. /\ results = [i \in 1 .. n |-> results[i]]
      /\ \A i \in 1 .. n : results[i].call_id = calls[i].id
  <2> HIDE DEF results, n
  <2> QED BY <1>5
<1> HIDE DEF results
<1>7. IsSequence(results) /\ Len(results) = n
  <2> HIDE DEF n
  <2> QED BY <1>1, <1>6, Listed
<1>8. n # 0
  <2>1. n = 0 => raw = << >>
    <3>1. IsSequence(raw)
      BY DEF IsResponse
    <3> QED BY <3>1, EmptySeq DEF IsSequence
  <2> QED BY <2>1
<1>9. calls # << >> /\ results # << >>
  <2>1. Len(<< >>) = 0
    BY EmptySeq
  <2> QED BY <1>4, <1>7, <1>8, <2>1
<1> HIDE DEF n
<1>10. Says(Assistant(response.text, calls))
  BY <1>4, <1>9 DEF Says, Assistant, IsResponse
<1>11. Replies(Answers(results), Assistant(response.text, calls))
  BY <1>4, <1>6, <1>7, <1>9 DEF Replies, Answers, Assistant
<1>12. Assistant(response.text, calls).calls = calls
  BY DEF Assistant
<1> QED BY <1>9, <1>10, <1>11, <1>12 DEF Exchange, calls, results

LEMMA TurnKeepsRun ==
  ASSUME NEW run, IsRun(run), NEW response, IsResponse(response)
  PROVE  IsRun(Turn(run, response))
<1>1. IsRun(Ends(run))
  BY DEF IsRun, Ends
<1>2. CASE response.calls = << >> /\ ~ response.grounded
  <2> DEFINE next == Continues(run, <<Assistant(response.text, << >>), UserText>>)
  <2>1. response.text = TRUE
    BY <1>2 DEF IsResponse
  <2>2. IsRun(next)
    BY <2>1, AnswerExchange, RunContinues
  <2> HIDE DEF next
  <2>3. IsRun([next EXCEPT !.retries = @ - 1])
    BY <2>2 DEF IsRun
  <2>4. IsRun(OnAnswer(run, response))
    BY <1>1, <2>3 DEF OnAnswer, next
  <2> QED BY <1>2, <2>4 DEF Turn
<1>3. CASE response.calls = << >> /\ response.grounded
  BY <1>1, <1>3 DEF Turn, OnAnswer
<1>4. CASE response.calls # << >>
  <2>1. IsRun(OnCalls(run, response))
    BY <1>4, CallsExchange, RunContinues DEF OnCalls
  <2> QED BY <1>4, <2>1 DEF Turn
<1> QED BY <1>2, <1>3, <1>4

\* The loop of a run, up to its n-th turn.
RunsTo(g, script, n) ==
  g = [k \in 0 .. n |-> IF k = 0 THEN Started ELSE Turn(g[k - 1], script[k])]

LEMMA RunsExist ==
  ASSUME NEW script
  PROVE  \A n \in Nat : \E g : RunsTo(g, script, n)
<1> DEFINE T == {n \in Nat : ~ \E g : RunsTo(g, script, n)}
<1>1. SUFFICES ASSUME T # {}
               PROVE  FALSE
  OBVIOUS
<1>2. PICK x \in T : \A y \in T : x <= y
  <2>1. T \in SUBSET Nat
    OBVIOUS
  <2> HIDE DEF T
  <2> QED BY <1>1, <2>1, LeastNumber
<1>3. x \in Nat /\ ~ \E g : RunsTo(g, script, x)
  OBVIOUS
<1>4. x # 0
  <2> DEFINE g == [k \in 0 .. 0 |-> Started]
  <2>1. g = [k \in 0 .. 0 |-> IF k = 0 THEN Started ELSE Turn(g[k - 1], script[k])]
    OBVIOUS
  <2> HIDE DEF g
  <2>2. RunsTo(g, script, 0)
    BY <2>1 DEF RunsTo
  <2> QED BY <1>3, <2>2
<1>5. PICK g : RunsTo(g, script, x - 1)
  <2>1. x - 1 \in Nat /\ ~ x <= x - 1
    BY <1>3, <1>4
  <2> QED BY <1>2, <2>1
<1> DEFINE h == [k \in 0 .. x |-> IF k = x THEN Turn(g[x - 1], script[x]) ELSE g[k]]
<1>6. ASSUME NEW k \in 0 .. x
      PROVE  h[k] = IF k = 0 THEN Started ELSE Turn(h[k - 1], script[k])
  <2>1. CASE k = x
    <3>1. x - 1 \in 0 .. x /\ x - 1 # x
      BY <1>3, <1>4
    <3> QED BY <1>4, <2>1, <3>1
  <2>2. CASE k # x
    <3>1. k \in 0 .. x - 1 /\ (k # 0 => k - 1 \in 0 .. x /\ k - 1 # x)
      BY <1>3, <2>2
    <3>2. g[k] = IF k = 0 THEN Started ELSE Turn(g[k - 1], script[k])
      BY <1>5, <3>1 DEF RunsTo
    <3> QED BY <2>2, <3>1, <3>2
  <2> QED BY <2>1, <2>2
<1>7. h = [k \in 0 .. x |-> h[k]]
  OBVIOUS
<1> HIDE DEF h
<1>8. RunsTo(h, script, x)
  BY <1>6, <1>7 DEF RunsTo
<1> QED BY <1>3, <1>8

LEMMA RunFollows ==
  ASSUME NEW script, Len(script) \in Nat
  PROVE  \E g : RunsTo(g, script, Len(script)) /\ RunScript(script) = g[Len(script)]
<1> DEFINE g == CHOOSE g : RunsTo(g, script, Len(script))
<1>1. RunsTo(g, script, Len(script))
  BY RunsExist
<1>2. RunScript(script) = g[Len(script)]
  BY DEF RunScript, RunsTo
<1> QED BY <1>1, <1>2

LEMMA ScriptRuns ==
  ASSUME NEW script, IsScript(script)
  PROVE  IsRun(RunScript(script))
<1> DEFINE n == Len(script)
<1>1. n \in Nat /\ DOMAIN script = 1 .. n
  BY LenProperties DEF IsScript
<1>2. \A k \in 1 .. n : IsResponse(script[k])
  BY <1>1 DEF IsScript, IsResponse, IsSequence
<1>3. PICK g : RunsTo(g, script, n) /\ RunScript(script) = g[n]
  BY <1>1, RunFollows
<1> HIDE DEF n
<1> DEFINE T == {k \in 0 .. n : ~ IsRun(g[k])}
<1>4. ASSUME T # {}
      PROVE  FALSE
  <2>1. PICK x \in T : \A y \in T : x <= y
    <3>1. T \in SUBSET Nat
      BY <1>1
    <3> HIDE DEF T
    <3> QED BY <1>4, <3>1, LeastNumber
  <2>2. x \in 0 .. n /\ ~ IsRun(g[x])
    OBVIOUS
  <2>3. x # 0
    <3>1. x = 0 => g[x] = Started
      BY <1>1, <1>3, <2>2 DEF RunsTo
    <3> QED BY <2>2, <3>1, StartedIsRun
  <2>4. x - 1 \in 0 .. n /\ ~ x <= x - 1 /\ x \in 1 .. n
    BY <1>1, <2>2, <2>3
  <2>5. IsRun(g[x - 1])
    BY <2>1, <2>4
  <2>6. g[x] = Turn(g[x - 1], script[x])
    BY <1>3, <2>2, <2>3 DEF RunsTo
  <2> QED BY <1>2, <2>2, <2>4, <2>5, <2>6, TurnKeepsRun
<1>5. IsRun(g[n])
  BY <1>1, <1>4
<1> QED BY <1>3, <1>5

-----------------------------------------------------------------------------
\* What a talk is like at its k-th message.
LEMMA TalkPlaces ==
  ASSUME NEW q, NEW n, Talk(q, n)
  PROVE  /\ Len(q) \in Nat /\ DOMAIN q = 1 .. Len(q)
         /\ \A k \in 1 .. Len(q) :
              \/ k = 1
              \/ \E j \in 1 .. n : k = 2 * j \/ k = 2 * j + 1
<1>1. n \in Nat /\ Len(q) = 2 * n + 1 /\ DOMAIN q = 1 .. Len(q)
  BY Counted DEF Talk
<1>2. ASSUME NEW k \in 1 .. 2 * n + 1, k # 1
      PROVE  \E j \in 1 .. n : k = 2 * j \/ k = 2 * j + 1
  <2>1. k \div 2 \in 1 .. n /\ (k = 2 * (k \div 2) \/ k = 2 * (k \div 2) + 1)
    BY <1>1, <1>2
  <2> QED BY <2>1
<1> QED BY <1>1, <1>2

LEMMA BlocksOfAsks ==
  ASSUME NEW m, m.text = TRUE \/ m.calls # << >> \/ m.results # << >>,
         m.text \in BOOLEAN, IsSequence(m.calls), IsSequence(m.results)
  PROVE  Blocks(m) # << >>
<1> DEFINE text == IF m.text THEN <<[type |-> "text", id |-> NoId]>> ELSE << >>
           uses == [i \in DOMAIN m.calls |-> [type |-> "tool_use", id |-> m.calls[i].id]]
           replies == [i \in DOMAIN m.results |-> [type |-> "tool_result", id |-> m.results[i].call_id]]
<1>1. /\ Len(m.calls) \in Nat /\ DOMAIN m.calls = 1 .. Len(m.calls)
      /\ Len(m.results) \in Nat /\ DOMAIN m.results = 1 .. Len(m.results)
  BY Counted
<1>2. IsSequence(text) /\ Len(text) = IF m.text = TRUE THEN 1 ELSE 0
  <2>1. CASE m.text = TRUE
    <3>1. <<[type |-> "text", id |-> NoId]>> = [i \in 1 .. 1 |-> <<[type |-> "text", id |-> NoId]>>[i]]
      OBVIOUS
    <3> QED BY <2>1, <3>1, Listed
  <2>2. CASE m.text = FALSE
    <3>1. IsSequence(<< >>) /\ Len(<< >>) = 0
      BY EmptySeq DEF IsSequence
    <3> QED BY <2>2, <3>1
  <2> QED BY <2>1, <2>2
<1>3. uses = [i \in 1 .. Len(m.calls) |-> uses[i]]
  BY <1>1
<1>4. replies = [i \in 1 .. Len(m.results) |-> replies[i]]
  BY <1>1
<1>5. Blocks(m) = (text \o uses) \o replies
  BY DEF Blocks
<1> HIDE DEF text, uses, replies
<1>6. /\ IsSequence(uses) /\ Len(uses) = Len(m.calls)
      /\ IsSequence(replies) /\ Len(replies) = Len(m.results)
  BY <1>1, <1>3, <1>4, Listed
<1>7. IsSequence(text \o uses) /\ Len(text \o uses) = Len(text) + Len(uses)
  BY <1>2, <1>6, Joined
<1>8. Len(Blocks(m)) = Len(text) + Len(uses) + Len(replies)
  <2> DEFINE both == text \o uses
  <2>1. IsSequence(both) /\ Len(both) = Len(text) + Len(uses) /\ Blocks(m) = both \o replies
    BY <1>5, <1>7
  <2> HIDE DEF both
  <2>2. Len(both \o replies) = Len(both) + Len(replies)
    BY <1>6, <2>1, Joined
  <2> QED BY <2>1, <2>2
<1>9. Len(text) + Len(uses) + Len(replies) # 0
  <2>1. \A s : IsSequence(s) /\ s # << >> => Len(s) # 0
    BY EmptySeq DEF IsSequence
  <2>2. m.calls # << >> => Len(m.calls) # 0
    BY <2>1
  <2>3. m.results # << >> => Len(m.results) # 0
    BY <2>1
  <2>4. Len(text) \in Nat /\ Len(uses) \in Nat /\ Len(replies) \in Nat
    BY <1>1, <1>2, <1>6
  <2>5. Len(text) # 0 \/ Len(uses) # 0 \/ Len(replies) # 0
    BY <1>2, <1>6, <2>2, <2>3
  <2> QED BY <2>4, <2>5
<1> QED BY <1>8, <1>9, EmptySeq

\* The messages for one API are none of them empty, and alternate.
LEMMA TalkEncoded ==
  ASSUME NEW q, NEW n, Talk(q, n), NEW k \in DOMAIN EncodeAnthropic(q)
  PROVE  /\ EncodeAnthropic(q)[k].content # << >>
         /\ EncodeAnthropic(q)[k].role = IF k % 2 = 1 THEN "user" ELSE "assistant"
<1>1. /\ k \in 1 .. Len(q) /\ n \in Nat
      /\ EncodeAnthropic(q)[k].role = q[k].role
      /\ EncodeAnthropic(q)[k].content = Blocks(q[k])
  BY TalkPlaces DEF EncodeAnthropic, Talk
<1>2. IsSequence(<< >>)
  BY EmptySeq DEF IsSequence
<1>3. ASSUME NEW m, Asks(m)
      PROVE  m.role = "user" /\ Blocks(m) # << >>
  BY <1>2, <1>3, BlocksOfAsks DEF Asks
<1>4. ASSUME NEW a, NEW u, Exchange(a, u)
      PROVE  /\ a.role = "assistant" /\ Blocks(a) # << >>
             /\ u.role = "user" /\ Blocks(u) # << >>
  <2>1. a.role = "assistant" /\ Blocks(a) # << >>
    BY <1>2, <1>4, BlocksOfAsks DEF Exchange, Says
  <2>2. CASE Asks(u)
    BY <1>3, <2>1, <2>2
  <2>3. CASE Replies(u, a)
    <3>1. u.role = "user" /\ Blocks(u) # << >>
      BY <1>2, <2>3, BlocksOfAsks DEF Replies
    <3> QED BY <2>1, <3>1
  <2> QED BY <1>4, <2>2, <2>3 DEF Exchange
<1>5. CASE k = 1
  <2>1. Asks(q[1])
    BY DEF Talk
  <2>2. k % 2 = 1
    BY <1>5
  <2> QED BY <1>1, <1>3, <1>5, <2>1, <2>2
<1>6. CASE \E j \in 1 .. n : k = 2 * j \/ k = 2 * j + 1
  <2>1. PICK j \in 1 .. n : k = 2 * j \/ k = 2 * j + 1
    BY <1>6
  <2>2. Exchange(q[2 * j], q[2 * j + 1])
    BY DEF Talk
  <2>3. (2 * j) % 2 = 0 /\ (2 * j + 1) % 2 = 1
    BY <1>1
  <2>4. CASE k = 2 * j
    BY <1>1, <1>4, <2>2, <2>3, <2>4
  <2>5. CASE k = 2 * j + 1
    BY <1>1, <1>4, <2>2, <2>3, <2>5
  <2> QED BY <2>1, <2>4, <2>5
<1>7. k = 1 \/ \E j \in 1 .. n : k = 2 * j \/ k = 2 * j + 1
  <2>1. k \in 1 .. Len(q)
    BY <1>1
  <2>2. \A i \in 1 .. Len(q) : i = 1 \/ \E j \in 1 .. n : i = 2 * j \/ i = 2 * j + 1
    BY TalkPlaces, Zenon
  <2> QED BY <2>1, <2>2, Zenon
<1> QED BY <1>5, <1>6, <1>7

\* The calls of a message are answered by the next one, in order.
LEMMA TalkAnswers ==
  ASSUME NEW q, NEW n, Talk(q, n), NEW k \in DOMAIN q, q[k].calls # << >>
  PROVE  /\ k < Len(q)
         /\ [i \in DOMAIN q[k + 1].results |-> q[k + 1].results[i].call_id]
              = [i \in DOMAIN q[k].calls |-> q[k].calls[i].id]
<1>1. n \in Nat /\ Len(q) = 2 * n + 1 /\ k \in 1 .. Len(q)
  BY TalkPlaces DEF Talk
<1>2. k # 1
  BY DEF Talk, Asks
<1>3. PICK j \in 1 .. n : k = 2 * j \/ k = 2 * j + 1
  <2>1. \A h \in 1 .. Len(q) : h = 1 \/ \E j \in 1 .. n : h = 2 * j \/ h = 2 * j + 1
    BY TalkPlaces
  <2> QED BY <1>1, <1>2, <2>1
<1>4. Exchange(q[2 * j], q[2 * j + 1])
  BY DEF Talk
<1>5. k = 2 * j
  BY <1>3, <1>4 DEF Exchange, Asks, Replies
<1> DEFINE a == q[k]
           u == q[k + 1]
<1>6. Replies(u, a) /\ IsSequence(a.calls)
  BY <1>4, <1>5 DEF Exchange, Says
<1> HIDE DEF a, u
<1>7. /\ DOMAIN u.results = 1 .. Len(a.calls) /\ DOMAIN a.calls = 1 .. Len(a.calls)
      /\ \A i \in 1 .. Len(a.calls) : u.results[i].call_id = a.calls[i].id
  BY <1>6, Counted DEF Replies
<1>8. [i \in DOMAIN u.results |-> u.results[i].call_id] = [i \in DOMAIN a.calls |-> a.calls[i].id]
  BY <1>7
<1>9. k < Len(q)
  BY <1>1, <1>5
<1> QED BY <1>8, <1>9 DEF a, u

-----------------------------------------------------------------------------
\* For the other API: the p-th message of e is the reply to the call that its
\* place after the last message of the model says.
ToolAnswered(e, p) ==
  \E a \in 1 .. p - 1 : /\ e[a].role = "assistant"
                        /\ \A i \in a + 1 .. p : e[i].role = "tool"
                        /\ e[p].ids = <<e[a].ids[p - a]>>

Served(e) == IsSequence(e) /\ \A p \in 1 .. Len(e) : e[p].role = "tool" => ToolAnswered(e, p)

LEMMA ServedGrows ==
  ASSUME NEW e, NEW q, Served(e), IsSequence(q),
         \A i \in 1 .. Len(q) : q[i].role = "tool" => ToolAnswered(e \o q, Len(e) + i)
  PROVE  Served(e \o q)
<1> DEFINE r == e \o q
<1>1. /\ IsSequence(r) /\ Len(e) \in Nat /\ Len(q) \in Nat
      /\ Len(r) = Len(e) + Len(q)
      /\ \A i \in 1 .. Len(e) : r[i] = e[i]
      /\ \A i \in 1 .. Len(q) : r[Len(e) + i] = q[i]
  BY Joined DEF Served
<1>2. \A i \in 1 .. Len(q) : q[i].role = "tool" => ToolAnswered(r, Len(e) + i)
  OBVIOUS
<1> HIDE DEF r
<1>3. ASSUME NEW p \in 1 .. Len(r), r[p].role = "tool"
      PROVE  ToolAnswered(r, p)
  <2>1. CASE p <= Len(e)
    <3>1. p \in 1 .. Len(e) /\ e[p].role = "tool"
      BY <1>1, <1>3, <2>1
    <3>2. PICK a \in 1 .. p - 1 : /\ e[a].role = "assistant"
                                  /\ \A i \in a + 1 .. p : e[i].role = "tool"
                                  /\ e[p].ids = <<e[a].ids[p - a]>>
      BY <3>1 DEF Served, ToolAnswered
    <3>3. r[a] = e[a] /\ r[p] = e[p] /\ \A i \in a + 1 .. p : r[i] = e[i]
      BY <1>1, <3>1
    <3>4. \A i \in a + 1 .. p : r[i].role = "tool"
      BY <3>2, <3>3
    <3> QED BY <3>2, <3>3, <3>4 DEF ToolAnswered
  <2>2. CASE ~ p <= Len(e)
    <3>1. p - Len(e) \in 1 .. Len(q) /\ Len(e) + (p - Len(e)) = p
      BY <1>1, <2>2
    <3>2. r[p] = q[p - Len(e)]
      BY <1>1, <3>1
    <3> QED BY <1>2, <1>3, <3>1, <3>2
  <2> QED BY <2>1, <2>2
<1>4. Served(r)
  BY <1>1, <1>3 DEF Served
<1> QED BY <1>4 DEF r

LEMMA ServedOneMore ==
  ASSUME NEW e, Served(e), NEW x, x.role # "tool"
  PROVE  /\ Served(e \o <<x>>)
         /\ Len(e \o <<x>>) = Len(e) + 1
         /\ (e \o <<x>>)[Len(e) + 1] = x
<1>1. <<x>> = [i \in 1 .. 1 |-> <<x>>[i]] /\ <<x>>[1] = x
  OBVIOUS
<1>2. IsSequence(<<x>>) /\ Len(<<x>>) = 1
  BY <1>1, Listed
<1>3. Served(e \o <<x>>)
  BY <1>1, <1>2, ServedGrows
<1>4. /\ Len(e \o <<x>>) = Len(e) + Len(<<x>>)
      /\ \A i \in 1 .. Len(<<x>>) : (e \o <<x>>)[Len(e) + i] = <<x>>[i]
  BY <1>2, Joined DEF Served
<1> QED BY <1>1, <1>2, <1>3, <1>4

LEMMA ServedReplies ==
  ASSUME NEW e, Served(e), Len(e) >= 1, e[Len(e)].role = "assistant",
         NEW q, IsSequence(q),
         \A i \in 1 .. Len(q) : q[i].role = "tool" /\ q[i].ids = <<e[Len(e)].ids[i]>>
  PROVE  Served(e \o q)
<1> DEFINE r == e \o q
           a == Len(e)
<1>1. /\ a \in Nat /\ Len(q) \in Nat
      /\ \A i \in 1 .. a : r[i] = e[i]
      /\ \A i \in 1 .. Len(q) : r[a + i] = q[i]
  BY Joined DEF Served
<1> HIDE DEF r
<1>2. ASSUME NEW i \in 1 .. Len(q)
      PROVE  ToolAnswered(r, a + i)
  <2>1. a \in 1 .. (a + i) - 1 /\ (a + i) - a = i /\ a \in 1 .. a
    BY <1>1
  <2>2. r[a].role = "assistant" /\ r[a + i].ids = <<r[a].ids[(a + i) - a]>>
    BY <1>1, <1>2, <2>1
  <2>3. ASSUME NEW h \in a + 1 .. a + i
        PROVE  r[h].role = "tool"
    <3>1. h - a \in 1 .. Len(q) /\ a + (h - a) = h
      BY <1>1, <1>2
    <3>2. r[h] = q[h - a]
      BY <1>1, <3>1
    <3> QED BY <3>1, <3>2
  <2> HIDE DEF a
  <2> QED BY <2>1, <2>2, <2>3 DEF ToolAnswered
<1> QED BY <1>2, ServedGrows DEF r

LEMMA ToolMessagesOf ==
  ASSUME NEW m, IsSequence(m.results)
  PROVE  /\ IsSequence(ToolMessages(m)) /\ Len(ToolMessages(m)) = Len(m.results)
         /\ \A i \in 1 .. Len(m.results) :
              /\ ToolMessages(m)[i].role = "tool"
              /\ ToolMessages(m)[i].ids = <<m.results[i].call_id>>
         /\ m.results = << >> => ToolMessages(m) = << >>
<1> DEFINE t == ToolMessages(m)
           n == Len(m.results)
<1>1. n \in Nat /\ DOMAIN m.results = 1 .. n
  BY Counted
<1> HIDE DEF n
<1>2. t = [i \in 1 .. n |-> [role |-> "tool", text |-> TRUE, ids |-> <<m.results[i].call_id>>]]
  BY <1>1 DEF ToolMessages
<1>3. /\ t = [i \in 1 .. n |-> t[i]]
      /\ \A i \in 1 .. n : t[i].role = "tool" /\ t[i].ids = <<m.results[i].call_id>>
  <2> HIDE DEF t
  <2> QED BY <1>2
<1> HIDE DEF t
<1>4. IsSequence(t) /\ Len(t) = n
  BY <1>1, <1>3, Listed
<1>5. m.results = << >> => t = << >>
  <2>1. m.results = << >> => n = 0
    BY EmptySeq DEF n
  <2> QED BY <1>4, <2>1, EmptySeq DEF IsSequence
<1> QED BY <1>3, <1>4, <1>5 DEF t, n

LEMMA AddNothing ==
  ASSUME NEW q, IsSequence(q)
  PROVE  q \o << >> = q /\ << >> \o q = q
BY ConcatEmptySeq DEF IsSequence

\* What is sent of one message.
Sent(m) == ToolMessages(m) \o OwnMessage(m)

LEMMA SingleIsSequence ==
  ASSUME NEW x
  PROVE  IsSequence(<<x>>)
<1>1. <<x>> = [i \in 1 .. 1 |-> <<x>>[i]]
  OBVIOUS
<1> QED BY <1>1, Listed

LEMMA AskServed ==
  ASSUME NEW e, Served(e), NEW u, Asks(u)
  PROVE  Served(e \o Sent(u))
<1> DEFINE x == [role |-> "user", text |-> TRUE, ids |-> << >>]
<1>1. IsSequence(u.results)
  BY EmptySeq DEF IsSequence, Asks
<1>2. ToolMessages(u) = << >>
  BY <1>1, ToolMessagesOf DEF Asks
<1>3. OwnMessage(u) = <<x>>
  BY DEF OwnMessage, Asks
<1>4. x.role # "tool"
  OBVIOUS
<1> HIDE DEF x
<1>5. Sent(u) = <<x>>
  BY <1>2, <1>3, SingleIsSequence, AddNothing DEF Sent
<1> QED BY <1>4, <1>5, ServedOneMore

LEMMA ExchangeServed ==
  ASSUME NEW e, Served(e), NEW a, NEW u, Exchange(a, u)
  PROVE  Served((e \o Sent(a)) \o Sent(u))
<1> DEFINE ids == [i \in DOMAIN a.calls |-> a.calls[i].id]
           x == [role |-> "assistant", text |-> a.text, ids |-> ids]
           f == e \o Sent(a)
<1>1. IsSequence(a.results) /\ IsSequence(a.calls)
  BY EmptySeq DEF IsSequence, Exchange, Says
<1>2. ToolMessages(a) = << >>
  BY <1>1, ToolMessagesOf DEF Exchange, Says
<1>3. OwnMessage(a) = <<x>>
  BY DEF OwnMessage, Exchange, Says
<1>4. x.role = "assistant" /\ x.ids = ids
  OBVIOUS
<1>5. \A i \in 1 .. Len(a.calls) : ids[i] = a.calls[i].id
  BY <1>1, Counted
<1> HIDE DEF x, ids
<1>6. Sent(a) = <<x>>
  BY <1>2, <1>3, SingleIsSequence, AddNothing DEF Sent
<1>7. Served(f) /\ Len(f) = Len(e) + 1 /\ f[Len(e) + 1] = x
  BY <1>4, <1>6, ServedOneMore
<1>8. Len(e) \in Nat
  BY Counted DEF Served
<1> HIDE DEF f
<1>9. Len(f) >= 1 /\ f[Len(f)] = x
  BY <1>7, <1>8
<1>10. CASE Asks(u)
  <2>1. Served(f \o Sent(u))
    BY <1>7, <1>10, AskServed
  <2> QED BY <2>1 DEF f
<1>11. CASE Replies(u, a)
  <2> DEFINE q == ToolMessages(u)
  <2>1. IsSequence(u.results) /\ Len(u.results) = Len(a.calls)
    BY <1>11 DEF Replies
  <2>2. /\ IsSequence(q) /\ Len(q) = Len(a.calls)
        /\ \A i \in 1 .. Len(a.calls) : q[i].role = "tool" /\ q[i].ids = <<u.results[i].call_id>>
    BY <2>1, ToolMessagesOf
  <2>3. OwnMessage(u) = << >>
    BY <1>11 DEF Replies, OwnMessage
  <2> HIDE DEF q
  <2>4. Sent(u) = q
    BY <2>2, <2>3, AddNothing DEF Sent, q
  <2>5. \A i \in 1 .. Len(q) : q[i].role = "tool" /\ q[i].ids = <<f[Len(f)].ids[i]>>
    BY <1>4, <1>5, <1>9, <1>11, <2>2 DEF Replies
  <2>6. Served(f \o q)
    BY <1>4, <1>7, <1>9, <2>2, <2>5, ServedReplies
  <2> QED BY <2>4, <2>6 DEF f
<1> QED BY <1>10, <1>11 DEF Exchange

\* The loop over the messages, up to the n-th.
SystemMessage == [role |-> "system", text |-> TRUE, ids |-> << >>]

\* With what is sent of one more message.
SentAfter(e, m) == e \o Sent(m)

SendsTo(g, q, n) ==
  g = [k \in 0 .. n |-> IF k = 0 THEN <<SystemMessage>> ELSE SentAfter(g[k - 1], q[k])]

LEMMA SendsExist ==
  ASSUME NEW q
  PROVE  \A n \in Nat : \E g : SendsTo(g, q, n)
<1> DEFINE T == {n \in Nat : ~ \E g : SendsTo(g, q, n)}
<1>1. SUFFICES ASSUME T # {}
               PROVE  FALSE
  OBVIOUS
<1>2. PICK x \in T : \A y \in T : x <= y
  <2>1. T \in SUBSET Nat
    OBVIOUS
  <2> HIDE DEF T
  <2> QED BY <1>1, <2>1, LeastNumber
<1>3. x \in Nat /\ ~ \E g : SendsTo(g, q, x)
  OBVIOUS
<1>4. x # 0
  <2> DEFINE g == [k \in 0 .. 0 |-> <<SystemMessage>>]
  <2>1. g = [k \in 0 .. 0 |-> IF k = 0 THEN <<SystemMessage>> ELSE SentAfter(g[k - 1], q[k])]
    OBVIOUS
  <2> HIDE DEF g
  <2>2. SendsTo(g, q, 0)
    BY <2>1 DEF SendsTo
  <2> QED BY <1>3, <2>2
<1>5. PICK g : SendsTo(g, q, x - 1)
  <2>1. x - 1 \in Nat /\ ~ x <= x - 1
    BY <1>3, <1>4
  <2> QED BY <1>2, <2>1
<1> DEFINE h == [k \in 0 .. x |-> IF k = x THEN SentAfter(g[x - 1], q[x]) ELSE g[k]]
<1>6. ASSUME NEW k \in 0 .. x
      PROVE  h[k] = IF k = 0 THEN <<SystemMessage>> ELSE SentAfter(h[k - 1], q[k])
  <2>1. CASE k = x
    <3>1. x - 1 \in 0 .. x /\ x - 1 # x
      BY <1>3, <1>4
    <3>2. h[x] = SentAfter(g[x - 1], q[x]) /\ h[x - 1] = g[x - 1]
      BY <1>3, <3>1
    <3> QED BY <1>4, <2>1, <3>2
  <2>2. CASE k # x
    <3>1. k \in 0 .. x - 1 /\ (k # 0 => k - 1 \in 0 .. x /\ k - 1 # x)
      BY <1>3, <2>2
    <3>2. g[k] = IF k = 0 THEN <<SystemMessage>> ELSE SentAfter(g[k - 1], q[k])
      BY <1>5, <3>1 DEF SendsTo
    <3>3. h[k] = g[k] /\ (k # 0 => h[k - 1] = g[k - 1])
      BY <2>2, <3>1
    <3> QED BY <3>2, <3>3
  <2> QED BY <2>1, <2>2
<1>7. h = [k \in 0 .. x |-> h[k]]
  OBVIOUS
<1> HIDE DEF h
<1>8. SendsTo(h, q, x)
  BY <1>6, <1>7 DEF SendsTo
<1> QED BY <1>3, <1>8

LEMMA SendFollows ==
  ASSUME NEW q, Len(q) \in Nat
  PROVE  \E g : SendsTo(g, q, Len(q)) /\ EncodeOpenAI(q) = g[Len(q)]
<1> DEFINE g == CHOOSE g : SendsTo(g, q, Len(q))
<1>1. SendsTo(g, q, Len(q))
  BY SendsExist
<1>2. EncodeOpenAI(q) = g[Len(q)]
  BY DEF EncodeOpenAI, SendsTo, SentAfter, Sent, SystemMessage
<1> QED BY <1>1, <1>2

LEMMA TalkServed ==
  ASSUME NEW q, NEW n, Talk(q, n)
  PROVE  Served(EncodeOpenAI(q))
<1>1. n \in Nat /\ Len(q) = 2 * n + 1 /\ Len(q) \in Nat
  BY DEF Talk
<1>2. PICK g : SendsTo(g, q, 2 * n + 1) /\ EncodeOpenAI(q) = g[2 * n + 1]
  BY <1>1, SendFollows
<1>3. \A k \in 0 .. 2 * n + 1 : g[k] = IF k = 0 THEN <<SystemMessage>> ELSE SentAfter(g[k - 1], q[k])
  BY <1>2 DEF SendsTo
<1>4. Served(g[1])
  <2>1. g[1] = <<SystemMessage>> \o Sent(q[1])
    <3>1. 1 \in 0 .. 2 * n + 1 /\ 0 \in 0 .. 2 * n + 1 /\ 1 - 1 = 0 /\ 1 # 0
      BY <1>1
    <3>2. g[0] = <<SystemMessage>>
      BY <1>3, <3>1
    <3>3. g[1] = SentAfter(g[1 - 1], q[1])
      BY <1>3, <3>1
    <3> QED BY <3>1, <3>2, <3>3 DEF SentAfter
  <2>2. Served(<<SystemMessage>>)
    <3>1. Len(<<SystemMessage>>) = 1 /\ <<SystemMessage>>[1].role # "tool"
      BY DEF SystemMessage
    <3> QED BY <3>1, SingleIsSequence DEF Served
  <2>3. Asks(q[1])
    BY DEF Talk
  <2> QED BY <2>1, <2>2, <2>3, AskServed
<1> DEFINE T == {j \in 0 .. n : ~ Served(g[2 * j + 1])}
<1>5. ASSUME T # {}
      PROVE  FALSE
  <2>1. PICK x \in T : \A y \in T : x <= y
    <3>1. T \in SUBSET Nat
      BY <1>1
    <3> HIDE DEF T
    <3> QED BY <1>5, <3>1, LeastNumber
  <2>2. x \in 0 .. n /\ ~ Served(g[2 * x + 1])
    OBVIOUS
  <2>3. x # 0
    BY <1>4, <2>2
  <2>4. x - 1 \in 0 .. n /\ ~ x <= x - 1 /\ x \in 1 .. n
    BY <1>1, <2>2, <2>3
  <2>5. Served(g[2 * (x - 1) + 1])
    BY <2>1, <2>4
  <2>6. /\ 2 * x \in 0 .. 2 * n + 1 /\ 2 * x # 0 /\ 2 * x - 1 = 2 * (x - 1) + 1
        /\ 2 * x + 1 \in 0 .. 2 * n + 1 /\ 2 * x + 1 # 0 /\ (2 * x + 1) - 1 = 2 * x
    BY <1>1, <2>4
  <2>7. g[2 * x] = SentAfter(g[2 * (x - 1) + 1], q[2 * x])
    BY <1>3, <2>6
  <2>8. g[2 * x + 1] = SentAfter(g[2 * x], q[2 * x + 1])
    BY <1>3, <2>6
  <2>9. Exchange(q[2 * x], q[2 * x + 1])
    BY <2>4 DEF Talk
  <2>10. Served((g[2 * (x - 1) + 1] \o Sent(q[2 * x])) \o Sent(q[2 * x + 1]))
    BY <2>5, <2>9, ExchangeServed
  <2> QED BY <2>2, <2>7, <2>8, <2>10 DEF SentAfter
<1>6. Served(g[2 * n + 1])
  <2>1. n \in 0 .. n
    BY <1>1
  <2>2. n \notin T
    <3> HIDE DEF T
    <3> QED BY <1>5
  <2> QED BY <2>1, <2>2
<1> QED BY <1>2, <1>6

\* The last message of the model before the p-th.
LEMMA LastAsked ==
  ASSUME NEW e, NEW p \in Nat, ToolAnswered(e, p)
  PROVE  LET asked == Max({i \in 1 .. p - 1 : e[i].role = "assistant"})
         IN  /\ \A i \in asked + 1 .. p : e[i].role = "tool"
             /\ e[p].ids = <<e[asked].ids[p - asked]>>
<1> DEFINE S == {i \in 1 .. p - 1 : e[i].role = "assistant"}
<1>1. PICK a \in 1 .. p - 1 : /\ e[a].role = "assistant"
                              /\ \A i \in a + 1 .. p : e[i].role = "tool"
                              /\ e[p].ids = <<e[a].ids[p - a]>>
  BY DEF ToolAnswered
<1>2. a \in S /\ S \in SUBSET (0 .. p)
  BY <1>1
<1>3. \A i \in S : ~ i \in a + 1 .. p
  BY <1>1
<1>4. \A i \in S : i \in 1 .. p - 1
  OBVIOUS
<1> DEFINE asked == Max(S)
<1>5. asked \in S /\ asked >= a
  <2> HIDE DEF S
  <2> QED BY <1>2, MaxOfNumbers
<1>6. asked = a
  <2> HIDE DEF asked, S
  <2> QED BY <1>3, <1>4, <1>5
<1> HIDE DEF asked
<1>7. /\ \A i \in asked + 1 .. p : e[i].role = "tool"
      /\ e[p].ids = <<e[asked].ids[p - asked]>>
  BY <1>1, <1>6
<1> QED BY <1>7 DEF asked

\* What an agent's run leaves is a conversation both APIs accept.
LEMMA GoodConversations ==
  ASSUME NEW script, IsScript(script)
  PROVE  GoodConversation(RunScript(script).messages)
<1> DEFINE q == RunScript(script).messages
<1>1. PICK n : Talk(q, n)
  BY ScriptRuns DEF IsRun
<1> HIDE DEF q
<1>2. \A k \in DOMAIN EncodeAnthropic(q) :
        /\ EncodeAnthropic(q)[k].content # << >>
        /\ EncodeAnthropic(q)[k].role = IF k % 2 = 1 THEN "user" ELSE "assistant"
  BY <1>1, TalkEncoded
<1>3. \A k \in DOMAIN q : q[k].calls # << >> =>
        /\ k < Len(q)
        /\ [i \in DOMAIN q[k + 1].results |-> q[k + 1].results[i].call_id]
             = [i \in DOMAIN q[k].calls |-> q[k].calls[i].id]
  BY <1>1, TalkAnswers
<1> DEFINE e == EncodeOpenAI(q)
<1>4. Served(e)
  BY <1>1, TalkServed
<1>5. ASSUME NEW k \in DOMAIN e, e[k].role = "tool"
      PROVE  LET asked == Max({i \in 1 .. k - 1 : e[i].role = "assistant"})
             IN  /\ \A i \in asked + 1 .. k : e[i].role = "tool"
                 /\ e[k].ids = <<e[asked].ids[k - asked]>>
  <2> HIDE DEF e
  <2>1. k \in Nat /\ k \in 1 .. Len(e)
    BY <1>4, Counted DEF Served
  <2>2. ToolAnswered(e, k)
    BY <1>4, <1>5, <2>1 DEF Served
  <2> QED BY <2>1, <2>2, LastAsked
<1>6. GoodConversation(q)
  BY <1>2, <1>3, <1>5 DEF GoodConversation
<1> QED BY <1>6 DEF q

-----------------------------------------------------------------------------
\* The scans and rankings.

Lower(score, S, s) == {t \in S : score[t] < score[s]}

\* How many symbols score lower tells how a score compares with another one.
LEMMA LowerIncreases ==
  ASSUME NEW S, IsFiniteSet(S), NEW score \in [S -> Int], NEW s \in S, NEW t \in S
  PROVE  /\ Cardinality(Lower(score, S, s)) \in 0 .. Cardinality(S) - 1
         /\ score[s] = score[t] =>
              Cardinality(Lower(score, S, s)) = Cardinality(Lower(score, S, t))
         /\ score[s] < score[t] =>
              Cardinality(Lower(score, S, s)) < Cardinality(Lower(score, S, t))
<1>1. \A x \in S : /\ IsFiniteSet(Lower(score, S, x))
                   /\ Cardinality(Lower(score, S, x)) \in 0 .. Cardinality(S) - 1
  <2> SUFFICES ASSUME NEW x \in S
               PROVE  /\ IsFiniteSet(Lower(score, S, x))
                      /\ Cardinality(Lower(score, S, x)) \in 0 .. Cardinality(S) - 1
    OBVIOUS
  <2>1. Lower(score, S, x) \in SUBSET S /\ x \notin Lower(score, S, x)
    BY DEF Lower
  <2>2. /\ IsFiniteSet(Lower(score, S, x))
        /\ Cardinality(Lower(score, S, x)) <= Cardinality(S)
        /\ Cardinality(Lower(score, S, x)) # Cardinality(S)
    BY <2>1, FS_Subset
  <2>3. Cardinality(S) \in Nat /\ Cardinality(Lower(score, S, x)) \in Nat
    BY <2>2, FS_CardinalityType
  <2> QED BY <2>2, <2>3
<1>2. ASSUME score[s] = score[t]
      PROVE  Lower(score, S, s) = Lower(score, S, t)
  BY <1>2 DEF Lower
<1>3. ASSUME score[s] < score[t]
      PROVE  Cardinality(Lower(score, S, s)) < Cardinality(Lower(score, S, t))
  <2>1. /\ Lower(score, S, s) \in SUBSET Lower(score, S, t)
        /\ s \in Lower(score, S, t) /\ s \notin Lower(score, S, s)
    <3>1. \A x \in S : score[x] \in Int
      OBVIOUS
    <3> QED BY <1>3, <3>1 DEF Lower
  <2>2. /\ Cardinality(Lower(score, S, s)) <= Cardinality(Lower(score, S, t))
        /\ Cardinality(Lower(score, S, s)) # Cardinality(Lower(score, S, t))
    BY <1>1, <2>1, FS_Subset
  <2> QED BY <1>1, <2>2
<1> QED BY <1>1, <1>2, <1>3

LEMMA QuotientOrder ==
  ASSUME NEW a \in Int, NEW b \in Int, NEW d \in Nat \ {0}
  PROVE  /\ a <= b => a \div d <= b \div d
         /\ a + d <= b => a \div d < b \div d
<1>1. /\ a \div d \in Int /\ d * (a \div d) <= a /\ a < d * (a \div d) + d
      /\ b \div d \in Int /\ d * (b \div d) <= b /\ b < d * (b \div d) + d
  BY Quotient
<1> DEFINE p == a \div d
           q == b \div d
<1>2. p \in Int /\ q \in Int
  BY <1>1
<1> HIDE DEF p, q
<1>3. a <= b => p <= q
  <2> SUFFICES ASSUME a <= b, q < p
               PROVE  FALSE
    BY <1>2
  <2>1. q * d + d <= p * d
    BY <1>2, ProductOrder
  <2>2. q * d = d * q /\ p * d = d * p /\ q * d \in Int /\ p * d \in Int
    BY <1>2
  <2> QED BY <1>1, <2>1, <2>2 DEF p, q
<1>4. a + d <= b => p < q
  <2> SUFFICES ASSUME a + d <= b, q <= p
               PROVE  FALSE
    BY <1>2
  <2>1. q * d <= p * d
    BY <1>2, ProductOrder
  <2>2. q * d = d * q /\ p * d = d * p /\ q * d \in Int /\ p * d \in Int
    BY <1>2
  <2> QED BY <1>1, <2>1, <2>2 DEF p, q
<1> QED BY <1>3, <1>4 DEF p, q

\* In the order of the ranks scores and percentiles tell the same, for as many
\* symbols as the decimals of a percentile can tell apart.
LEMMA RanksOf ==
  ASSUME NEW S \in SUBSET Int, IsFiniteSet(S), Cardinality(S) <= 100 * PercentUnit + 1,
         NEW score \in [S -> Int],
         NEW results, results = [i \in 1 .. Cardinality(S) |-> results[i]],
         \A i \in 1 .. Cardinality(S) :
           /\ results[i].score = score[RankOrder(score)[i]]
           /\ results[i].percentile = Percentile(score, RankOrder(score)[i])
  PROVE  RanksAgree(results)
<1> DEFINE n == Cardinality(S)
           order == RankOrder(score)
           Below(s) == Cardinality(Lower(score, S, s))
           Best == 100 * PercentUnit
<1>0. Best \in Nat \ {0}
  BY DEF PercentUnit
<1>1. n \in Nat /\ Len(results) = n
  <2>1. n \in Nat
    BY FS_CardinalityType
  <2> QED BY <2>1, Listed
<1>2. /\ \A i \in 1 .. n : order[i] \in S
      /\ \A s \in S : \E i \in 1 .. n : order[i] = s
      /\ \A i, j \in 1 .. n : i < j => score[order[i]] >= score[order[j]]
  <2>1. /\ DOMAIN order = 1 .. n /\ \A i \in 1 .. n : order[i] \in S
        /\ Lists(order, AheadPairs(score, S), S)
    BY RankOrderLists
  <2>2. \A s, t \in S : <<s, t>> \in AheadPairs(score, S) => score[s] >= score[t]
    <3>1. \A s \in S : score[s] \in Int
      OBVIOUS
    <3> QED BY <3>1 DEF AheadPairs, Ahead
  <2> HIDE DEF order, n
  <2> QED BY <2>1, <2>2 DEF Lists
<1>3. /\ \A s \in S : Below(s) \in 0 .. n - 1 /\ score[s] \in Int
      /\ \A s, t \in S : score[s] = score[t] => Below(s) = Below(t)
      /\ \A s, t \in S : score[s] < score[t] => Below(s) < Below(t)
  BY LowerIncreases
<1>4. \A s \in S : Percentile(score, s) =
        IF n > 1 THEN (Best * Below(s)) \div (n - 1) ELSE Best
  BY DEF Percentile, Lower
<1>5. n > 1 => n - 1 \in Nat \ {0} /\ n - 1 <= Best
  <2>1. n <= Best + 1
    OBVIOUS
  <2> HIDE DEF Best, n
  <2> QED BY <1>0, <1>1, <2>1
<1>6. \A i \in 1 .. n : /\ results[i].score = score[order[i]]
                        /\ results[i].percentile = Percentile(score, order[i])
  OBVIOUS
<1> HIDE DEF order, n, Below, Best
<1>7. ASSUME NEW s \in S, NEW t \in S, n > 1
      PROVE  /\ Percentile(score, s) \in Int
             /\ score[s] = score[t] => Percentile(score, s) = Percentile(score, t)
             /\ score[s] < score[t] => Percentile(score, s) < Percentile(score, t)
  <2>1. Below(s) \in Int /\ Below(t) \in Int /\ n - 1 \in Nat \ {0} /\ n - 1 <= Best
    BY <1>1, <1>3, <1>5, <1>7
  <2>2. /\ Percentile(score, s) = (Best * Below(s)) \div (n - 1)
        /\ Percentile(score, t) = (Best * Below(t)) \div (n - 1)
    BY <1>4, <1>7
  <2>3. (Best * Below(s)) \div (n - 1) \in Int
    <3> DEFINE part == Best * Below(s)
               others == n - 1
    <3>1. part \in Int /\ others \in Nat \ {0}
      BY <1>0, <2>1
    <3> HIDE DEF part, others
    <3> QED BY <3>1, Quotient DEF part, others
  <2>4. score[s] < score[t] => Best * Below(s) + (n - 1) <= Best * Below(t)
    <3>1. Below(s) < Below(t) => Below(s) * Best + Best <= Below(t) * Best
      BY <1>0, <2>1, ProductOrder
    <3>2. \A x \in Int : x * Best = Best * x /\ Best * x \in Int
      BY <1>0
    <3> QED BY <1>0, <1>3, <2>1, <3>1, <3>2
  <2>5. Best * Below(s) \in Int /\ Best * Below(t) \in Int
    BY <1>0, <2>1
  <2>6. score[s] < score[t] => (Best * Below(s)) \div (n - 1) < (Best * Below(t)) \div (n - 1)
    BY <2>1, <2>4, <2>5, QuotientOrder
  <2> QED BY <1>3, <2>2, <2>3, <2>6
<1>8. ASSUME NEW i \in 1 .. n, NEW j \in 1 .. n, i < j
      PROVE  /\ results[i].score >= results[j].score
             /\ results[i].score = results[j].score <=> results[i].percentile = results[j].percentile
             /\ results[i].percentile >= results[j].percentile
  <2> DEFINE s == order[i]
             t == order[j]
  <2>1. n > 1 /\ s \in S /\ t \in S /\ score[s] >= score[t]
    BY <1>1, <1>2, <1>8
  <2>2. /\ results[i].score = score[s] /\ results[i].percentile = Percentile(score, s)
        /\ results[j].score = score[t] /\ results[j].percentile = Percentile(score, t)
    BY <1>6
  <2> HIDE DEF s, t
  <2>3. /\ score[s] \in Int /\ score[t] \in Int
        /\ Percentile(score, s) \in Int /\ Percentile(score, t) \in Int
        /\ score[s] = score[t] => Percentile(score, s) = Percentile(score, t)
        /\ score[t] < score[s] => Percentile(score, t) < Percentile(score, s)
    BY <1>3, <1>7, <2>1
  <2> QED BY <2>1, <2>2, <2>3
<1>9. ASSUME n > 1
      PROVE  results[n].percentile = 0
  <2> DEFINE s == order[n]
  <2>1. n \in 1 .. n /\ s \in S
    BY <1>1, <1>2, <1>9
  <2>2. Lower(score, S, s) = {}
    <3>1. ASSUME NEW t \in S
          PROVE  score[t] >= score[s]
      <4>1. PICK i \in 1 .. n : order[i] = t
        BY <1>2
      <4>2. i = n \/ i < n
        BY <1>1
      <4>3. score[t] \in Int
        BY <1>3
      <4> QED BY <1>2, <2>1, <4>1, <4>2, <4>3
    <3>2. \A t \in S : score[t] \in Int
      BY <1>3
    <3> HIDE DEF s
    <3> QED BY <2>1, <3>1, <3>2 DEF Lower
  <2> HIDE DEF s
  <2>3. Below(s) = 0
    BY <2>2, FS_EmptySet DEF Below
  <2>4. results[n].percentile = (Best * 0) \div (n - 1)
    BY <1>4, <1>6, <1>9, <2>1, <2>3 DEF s
  <2>5. \A d \in Nat \ {0} : (Best * 0) \div d = 0
    BY <1>0
  <2> QED BY <1>5, <1>9, <2>4, <2>5
<1>10. ASSUME n = 1 \/ (n > 1 /\ results[1].score > results[2].score)
       PROVE  results[1].percentile = Best
  <2> DEFINE s == order[1]
  <2>1. 1 \in 1 .. n /\ s \in S
    BY <1>1, <1>2, <1>10
  <2>2. results[1].percentile = Percentile(score, s)
    BY <1>6, <2>1
  <2>3. CASE n = 1
    <3> HIDE DEF s
    <3> QED BY <1>4, <2>1, <2>2, <2>3
  <2>4. CASE n > 1 /\ results[1].score > results[2].score
    <3>1. ASSUME NEW t \in S, t # s
          PROVE  score[t] < score[s]
      <4>1. PICK i \in 1 .. n : order[i] = t
        BY <1>2
      <4>2. i # 1
        BY <3>1, <4>1
      <4>3. 2 \in 1 .. n /\ (i = 2 \/ 2 < i)
        BY <1>1, <2>4, <4>2
      <4>4. score[order[2]] >= score[t]
        <5>1. score[t] \in Int
          BY <1>3
        <5> QED BY <1>2, <4>1, <4>3, <5>1
      <4>5. score[s] > score[order[2]]
        BY <1>6, <2>1, <2>4, <4>3
      <4>6. score[s] \in Int /\ score[t] \in Int /\ score[order[2]] \in Int
        BY <1>2, <1>3, <2>1, <4>3
      <4> QED BY <4>4, <4>5, <4>6
    <3> HIDE DEF s
    <3>2. Lower(score, S, s) = S \ {s}
      <4>1. score[s] \in Int
        BY <1>3, <2>1
      <4> QED BY <3>1, <4>1 DEF Lower
    <3>3. Below(s) = n - 1
      BY <2>1, <3>2, FS_RemoveElement DEF Below, n
    <3>4. results[1].percentile = (Best * (n - 1)) \div (n - 1)
      BY <1>4, <2>1, <2>2, <2>4, <3>3
    <3>5. \A d \in Nat \ {0} : (Best * d) \div d = Best
      <4> SUFFICES ASSUME NEW d \in Nat \ {0}
                   PROVE  (Best * d) \div d = Best
        OBVIOUS
      <4> DEFINE q == (Best * d) \div d
      <4>1. q \in Int /\ d * q <= Best * d /\ Best * d < d * q + d
        <5> DEFINE product == Best * d
        <5>1. product \in Int
          BY <1>0
        <5> HIDE DEF product
        <5> QED BY <5>1, Quotient DEF product
      <4> HIDE DEF q
      <4>2. q * d <= Best * d /\ Best * d < q * d + d
        BY <1>0, <4>1
      <4>3. q <= Best /\ ~ q < Best
        BY <1>0, <4>1, <4>2, ProductOrder
      <4> QED BY <1>0, <4>1, <4>3 DEF q
    <3> QED BY <1>5, <2>4, <3>4, <3>5
  <2> QED BY <1>10, <2>3, <2>4
<1> QED BY <1>1, <1>8, <1>9, <1>10 DEF RanksAgree, Best

LEMMA UniverseScored ==
  ASSUME NEW features, IsUniverse(DOMAIN features)
  PROVE  /\ IsSequence(ScoreUniverse(features))
         /\ RanksAgree(ScoreUniverse(features))
         /\ ResultsOf(features, ScoreUniverse(features))
<1> DEFINE S == DOMAIN features
           results == ScoreUniverse(features)
<1>1. S \in SUBSET Int /\ IsFiniteSet(S) /\ Cardinality(S) <= 100 * PercentUnit + 1
  BY DEF IsUniverse
<1>2. PICK score : RankedBest(results, features, score)
  BY <1>1, UniverseResults
<1>3. ResultsOf(features, results)
  BY <1>1, UniverseResults
<1>4. /\ score \in [S -> Int]
      /\ results = [i \in 1 .. Cardinality(S) |-> results[i]]
      /\ \A i \in 1 .. Cardinality(S) :
           /\ results[i].score = score[RankOrder(score)[i]]
           /\ results[i].percentile = Percentile(score, RankOrder(score)[i])
  BY <1>2 DEF RankedBest
<1> HIDE DEF results, S
<1>5. IsSequence(results)
  <2>1. Cardinality(S) \in Nat
    BY <1>1, FS_CardinalityType
  <2> QED BY <1>4, <2>1, Listed
<1>6. RanksAgree(results)
  BY <1>1, <1>4, RanksOf
<1> QED BY <1>3, <1>5, <1>6 DEF results

IsPlace(places, i, k) == i \in places /\ Cardinality({j \in places : j < i}) = k - 1

\* The k-th of the elements kept is the one of k - 1 kept before it.
LEMMA KeptInOrder ==
  ASSUME NEW q, NEW places \in SUBSET Int, IsFiniteSet(places)
  PROVE  /\ IsSequence(Kept(q, places))
         /\ Len(Kept(q, places)) = Cardinality(places)
         /\ \A k \in 1 .. Cardinality(places) :
              \E i \in places : IsPlace(places, i, k) /\ Kept(q, places)[k] = q[i]
<1> DEFINE order == Sorted(places, LAMBDA i, j : i < j)
           m == Cardinality(places)
           R == {p \in places \X places : p[1] < p[2]}
           Rank(s) == Cardinality({t \in places : t < s})
<1>1. \A s, t \in places : <<s, t>> \in R <=> s < t
  OBVIOUS
<1>2. Orders(R, places)
  <2> HIDE DEF R
  <2> QED BY <1>1 DEF Orders
<1>3. \A s \in places : Cardinality(ElementsBefore(R, places, s)) = Rank(s)
  <2> SUFFICES ASSUME NEW s \in places
               PROVE  Cardinality(ElementsBefore(R, places, s)) = Rank(s)
    OBVIOUS
  <2>1. ElementsBefore(R, places, s) = {t \in places : t < s}
    <3> HIDE DEF R
    <3> QED BY <1>1 DEF ElementsBefore
  <2> QED BY <2>1
<1>4. order = [i \in 1 .. m |-> CHOOSE s \in places : Rank(s) = i - 1]
  BY DEF Sorted
<1>5. ASSUME NEW i \in 1 .. m
      PROVE  order[i] \in places /\ Rank(order[i]) = i - 1
  <2>1. \E s \in places : Rank(s) = i - 1
    <3>1. \E s \in places : Cardinality(ElementsBefore(R, places, s)) = i - 1
      <4> HIDE DEF R
      <4> QED BY <1>2, <1>5, RankOnto
    <3> HIDE DEF R, Rank
    <3> QED BY <1>3, <3>1
  <2> HIDE DEF Rank, order
  <2> QED BY <1>4, <1>5, <2>1
<1>6. Kept(q, places) = [k \in 1 .. m |-> q[order[k]]]
  BY DEF Kept
<1>7. m \in Nat
  BY FS_CardinalityType
<1> HIDE DEF order
<1>8. IsSequence(Kept(q, places)) /\ Len(Kept(q, places)) = m
  <2> DEFINE kept == Kept(q, places)
  <2>1. kept = [k \in 1 .. m |-> kept[k]]
    <3> HIDE DEF m
    <3> QED BY <1>6
  <2> HIDE DEF kept, m
  <2>2. IsSequence(kept) /\ Len(kept) = m
    BY <1>7, <2>1, Listed
  <2> QED BY <2>2 DEF kept
<1>9. \A k \in 1 .. m : /\ order[k] \in places /\ Kept(q, places)[k] = q[order[k]]
                        /\ IsPlace(places, order[k], k)
  BY <1>5, <1>6 DEF IsPlace
<1> QED BY <1>8, <1>9

\* The first elements of a sequence.
LEMMA FirstOfElements ==
  ASSUME NEW q, IsSequence(q), NEW n \in Nat
  PROVE  /\ Len(FirstOf(q, n)) = Min({n, Len(q)})
         /\ DOMAIN FirstOf(q, n) = 1 .. Min({n, Len(q)})
         /\ Min({n, Len(q)}) \in Nat /\ Min({n, Len(q)}) <= Len(q)
         /\ \A k \in DOMAIN FirstOf(q, n) : FirstOf(q, n)[k] = q[k]
<1> DEFINE l == Min({n, Len(q)})
<1>1. Len(q) \in Nat
  BY Counted
<1>2. l \in Nat /\ l <= Len(q)
  <2>1. l = IF n <= Len(q) THEN n ELSE Len(q)
    BY <1>1, MinOfTwo
  <2> HIDE DEF l
  <2> QED BY <1>1, <2>1
<1>3. \A i \in 1 .. l : q[i] \in Range(q)
  <2> HIDE DEF l
  <2>1. DOMAIN q = 1 .. Len(q)
    BY Counted
  <2> QED BY <1>1, <1>2, <2>1 DEF Range
<1>4. /\ SubSeq(q, 1, l) \in Seq(Range(q)) /\ Len(SubSeq(q, 1, l)) = l
      /\ \A i \in 1 .. l : SubSeq(q, 1, l)[i] = q[i]
  <2> HIDE DEF l
  <2>1. (IF 1 <= l THEN l - 1 + 1 ELSE 0) = l
    BY <1>2
  <2>2. \A i \in 1 .. l : 1 + i - 1 = i
    BY <1>2
  <2> QED BY <1>2, <1>3, <2>1, <2>2, SubSeqProperties
<1>5. DOMAIN SubSeq(q, 1, l) = 1 .. l
  <2> HIDE DEF l
  <2> QED BY <1>4, LenProperties
<1> QED BY <1>2, <1>4, <1>5 DEF FirstOf

LEMMA SelectionShown ==
  ASSUME NEW x, x.limit \in Nat, NEW all, IsSequence(all)
  PROVE  IsSelection(x, Shown(all, x.confidence, x.limit), all)
<1> DEFINE enough == {i \in DOMAIN all : all[i].confidence >= x.confidence}
           kept == Kept(all, enough)
           answer == FirstOf(kept, x.limit)
<1>1. enough \in SUBSET Int /\ IsFiniteSet(enough)
  <2>1. DOMAIN all = 1 .. Len(all) /\ Len(all) \in Nat
    BY Counted
  <2>2. enough \in SUBSET (1 .. Len(all)) /\ IsFiniteSet(1 .. Len(all)) /\ 1 .. Len(all) \in SUBSET Int
    BY <2>1, FS_Interval
  <2> HIDE DEF enough
  <2> QED BY <2>2, FS_Subset
<1>2. Shown(all, x.confidence, x.limit) = answer
  BY DEF Shown
<1> HIDE DEF enough
<1>3. /\ IsSequence(kept) /\ Len(kept) = Cardinality(enough)
      /\ \A k \in 1 .. Cardinality(enough) :
           \E i \in enough : IsPlace(enough, i, k) /\ kept[k] = all[i]
  BY <1>1, KeptInOrder
<1> HIDE DEF kept
<1>4. /\ Len(answer) = Min({x.limit, Len(kept)})
      /\ DOMAIN answer = 1 .. Min({x.limit, Len(kept)})
      /\ Min({x.limit, Len(kept)}) \in Nat /\ Min({x.limit, Len(kept)}) <= Len(kept)
      /\ \A k \in DOMAIN answer : answer[k] = kept[k]
  BY <1>3, FirstOfElements
<1> HIDE DEF answer
<1>5. Cardinality(enough) \in Nat
  BY <1>1, FS_CardinalityType
<1>6. \A k \in DOMAIN answer : k \in 1 .. Cardinality(enough)
  BY <1>3, <1>4, <1>5
<1>7. \A k \in DOMAIN answer : \E i \in enough :
        answer[k] = all[i] /\ IsPlace(enough, i, k)
  BY <1>3, <1>4, <1>6
<1>8. Len(answer) = Min({x.limit, Cardinality(enough)})
  BY <1>3, <1>4
<1> QED BY <1>2, <1>7, <1>8 DEF IsSelection, IsPlace, enough

LEMMA GoodScans ==
  ASSUME NEW x, IsScanCall(x)
  PROVE  GoodScan(x, Scan(x.tapes, x.bench, x.confidence, x.limit))
<1> DEFINE fit == {s \in DOMAIN x.tapes : PassesGates(ComputeFeatures(x.tapes[s], x.bench))}
           features == [s \in fit |-> ComputeFeatures(x.tapes[s], x.bench)]
           all == ScoreUniverse(features)
           tapes == Restrict(x.tapes, fit)
<1>1. ScoreEligible(x.tapes, x.bench) = all
  <2> DEFINE every == AllFeatures(x.tapes, x.bench)
  <2>1. every = [s \in DOMAIN x.tapes |-> ComputeFeatures(x.tapes[s], x.bench)]
    BY DEF AllFeatures
  <2>2. {s \in DOMAIN x.tapes : PassesGates(every[s])} = fit
    BY <2>1
  <2>3. Restrict(every, fit) = features
    <3>1. \A s \in fit : every[s] = ComputeFeatures(x.tapes[s], x.bench)
      BY <2>1
    <3> HIDE DEF every, fit
    <3> QED BY <3>1 DEF Restrict
  <2> HIDE DEF fit, features
  <2> QED BY <2>2, <2>3 DEF ScoreEligible
<1>2. ScoreEligible(tapes, x.bench) = all
  <2> DEFINE every == AllFeatures(tapes, x.bench)
  <2>1. DOMAIN tapes = fit /\ \A s \in fit : tapes[s] = x.tapes[s]
    BY DEF Restrict
  <2>2. every = [s \in DOMAIN tapes |-> ComputeFeatures(tapes[s], x.bench)]
    BY DEF AllFeatures
  <2>3. every = features
    <3> HIDE DEF tapes, fit, every
    <3> QED BY <2>1, <2>2
  <2>4. \A s \in fit : PassesGates(features[s])
    OBVIOUS
  <2>5. {s \in DOMAIN tapes : PassesGates(every[s])} = fit
    <3> HIDE DEF tapes, fit, every, features
    <3> QED BY <2>1, <2>3, <2>4
  <2>6. Restrict(every, fit) = features
    <3>1. features = [s \in fit |-> features[s]]
      OBVIOUS
    <3> HIDE DEF tapes, fit, every, features
    <3> QED BY <2>3, <3>1 DEF Restrict
  <2> HIDE DEF tapes, fit, features
  <2> QED BY <2>5, <2>6 DEF ScoreEligible
<1>3. IsUniverse(DOMAIN features)
  <2>1. fit \in SUBSET DOMAIN x.tapes /\ DOMAIN features = fit
    OBVIOUS
  <2> HIDE DEF fit, features
  <2>2. /\ DOMAIN x.tapes \in SUBSET Int /\ IsFiniteSet(DOMAIN x.tapes)
        /\ Cardinality(DOMAIN x.tapes) <= 100 * PercentUnit + 1
    BY DEF IsScanCall, IsUniverse
  <2>3. IsFiniteSet(fit) /\ Cardinality(fit) <= Cardinality(DOMAIN x.tapes)
    BY <2>1, <2>2, FS_Subset
  <2>4. Cardinality(fit) \in Nat /\ Cardinality(DOMAIN x.tapes) \in Nat /\ 100 * PercentUnit + 1 \in Nat
    BY <2>2, <2>3, FS_CardinalityType DEF PercentUnit
  <2>5. Cardinality(fit) <= 100 * PercentUnit + 1
    BY <2>2, <2>3, <2>4
  <2> QED BY <2>1, <2>2, <2>3, <2>5 DEF IsUniverse
<1>4. \A s \in fit : features[s] = ComputeFeatures(x.tapes[s], x.bench)
  OBVIOUS
<1>5. DOMAIN features = fit
  OBVIOUS
<1> HIDE DEF features, tapes
<1>6. ResultsOf(features, all) /\ IsSequence(all) /\ RanksAgree(all)
  BY <1>3, UniverseScored
<1> HIDE DEF all, fit
<1>7. IsSelection(x, Scan(x.tapes, x.bench, x.confidence, x.limit), all)
  <2>1. x.limit \in Nat
    BY DEF IsScanCall
  <2> QED BY <1>1, <1>6, <2>1, SelectionShown DEF Scan
<1>8. MissingIsNeutral(x, all)
  BY <1>4, <1>5, <1>6 DEF ResultsOf, MissingIsNeutral
<1> QED BY <1>2, <1>6, <1>7, <1>8 DEF GoodScan, fit, tapes

\* Totals.

\* g sums up f over the finite sets of at most n elements of S.
SetsUpTo(S, n) == {T \in SUBSET S : Cardinality(T) <= n}
Pick(T) == CHOOSE x \in T : TRUE
SumTo(g, f, S, n) ==
  g = [T \in SetsUpTo(S, n) |-> IF T = {} THEN 0 ELSE f[Pick(T)] + g[T \ {Pick(T)}]]

LEMMA PickRemoves ==
  ASSUME NEW S, IsFiniteSet(S), NEW T \in SUBSET S, T # {}
  PROVE  /\ Pick(T) \in T /\ IsFiniteSet(T)
         /\ T \ {Pick(T)} \in SUBSET S
         /\ Cardinality(T) \in Nat /\ Cardinality(T \ {Pick(T)}) \in Nat
         /\ Cardinality(T) = Cardinality(T \ {Pick(T)}) + 1
<1>1. IsFiniteSet(T) /\ Pick(T) \in T
  BY FS_Subset DEF Pick
<1>2. /\ IsFiniteSet(T \ {Pick(T)})
      /\ Cardinality(T \ {Pick(T)}) = Cardinality(T) - 1
  BY <1>1, FS_RemoveElement
<1>3. Cardinality(T) \in Nat /\ Cardinality(T \ {Pick(T)}) \in Nat
  BY <1>1, <1>2, FS_CardinalityType
<1> QED BY <1>1, <1>2, <1>3

LEMMA SumsExist ==
  ASSUME NEW S, IsFiniteSet(S), NEW f, NEW n \in Nat
  PROVE  \E g : SumTo(g, f, S, n)
<1> DEFINE T == {m \in Nat : ~ \E g : SumTo(g, f, S, m)}
<1>1. SUFFICES ASSUME T # {}
               PROVE  FALSE
  OBVIOUS
<1>2. PICK m \in T : \A k \in T : m <= k
  <2>1. T \in SUBSET Nat
    OBVIOUS
  <2> HIDE DEF T
  <2> QED BY <1>1, <2>1, LeastNumber
<1>3. m \in Nat /\ ~ \E g : SumTo(g, f, S, m)
  OBVIOUS
<1>4. CASE m = 0
  <2> DEFINE g == [U \in SetsUpTo(S, m) |-> 0]
  <2>1. \A U \in SetsUpTo(S, m) : U = {}
    <3> SUFFICES ASSUME NEW U \in SetsUpTo(S, m)
                 PROVE  U = {}
      OBVIOUS
    <3>1. U \in SUBSET S /\ Cardinality(U) <= 0
      BY <1>4 DEF SetsUpTo
    <3>2. IsFiniteSet(U) /\ Cardinality(U) \in Nat
      BY <3>1, FS_Subset, FS_CardinalityType
    <3> QED BY <3>1, <3>2, FS_EmptySet
  <2>2. SumTo(g, f, S, m)
    BY <2>1 DEF SumTo
  <2> QED BY <1>3, <2>2
<1>5. CASE m # 0
  <2>1. m - 1 \in Nat /\ m - 1 \notin T
    <3>1. m - 1 \in Nat /\ ~ m <= m - 1
      BY <1>3, <1>5
    <3> HIDE DEF T
    <3> QED BY <1>2, <3>1
  <2>2. PICK h : SumTo(h, f, S, m - 1)
    BY <2>1
  <2> DEFINE g == [U \in SetsUpTo(S, m) |->
                     IF U = {} THEN 0 ELSE f[Pick(U)] + h[U \ {Pick(U)}]]
  <2>3. \A U \in SetsUpTo(S, m - 1) :
          h[U] = IF U = {} THEN 0 ELSE f[Pick(U)] + h[U \ {Pick(U)}]
    BY <2>2 DEF SumTo
  <2>4. \A U \in SetsUpTo(S, m - 1) : U \in SetsUpTo(S, m)
    <3> SUFFICES ASSUME NEW U \in SetsUpTo(S, m - 1)
                 PROVE  U \in SetsUpTo(S, m)
      OBVIOUS
    <3>1. U \in SUBSET S /\ Cardinality(U) <= m - 1
      BY DEF SetsUpTo
    <3>2. Cardinality(U) \in Nat
      BY <3>1, FS_Subset, FS_CardinalityType
    <3>3. Cardinality(U) <= m
      BY <1>3, <3>1, <3>2
    <3> QED BY <3>1, <3>3 DEF SetsUpTo
  <2>5. \A U \in SetsUpTo(S, m - 1) : g[U] = h[U]
    BY <2>3, <2>4
  <2>6. \A U \in SetsUpTo(S, m) : U # {} => U \ {Pick(U)} \in SetsUpTo(S, m - 1)
    <3> SUFFICES ASSUME NEW U \in SetsUpTo(S, m), U # {}
                 PROVE  U \ {Pick(U)} \in SetsUpTo(S, m - 1)
      OBVIOUS
    <3>1. U \in SUBSET S /\ Cardinality(U) <= m
      BY DEF SetsUpTo
    <3>2. /\ U \ {Pick(U)} \in SUBSET S
          /\ Cardinality(U) \in Nat /\ Cardinality(U \ {Pick(U)}) \in Nat
          /\ Cardinality(U) = Cardinality(U \ {Pick(U)}) + 1
      BY <3>1, PickRemoves
    <3>3. Cardinality(U \ {Pick(U)}) <= m - 1
      BY <1>3, <3>1, <3>2
    <3> QED BY <3>2, <3>3 DEF SetsUpTo
  <2>7. g = [U \in SetsUpTo(S, m) |->
               IF U = {} THEN 0 ELSE f[Pick(U)] + h[U \ {Pick(U)}]]
    OBVIOUS
  <2> HIDE DEF g
  <2>8. g = [U \in SetsUpTo(S, m) |->
               IF U = {} THEN 0 ELSE f[Pick(U)] + g[U \ {Pick(U)}]]
    <3>1. \A U \in SetsUpTo(S, m) :
            (IF U = {} THEN 0 ELSE f[Pick(U)] + h[U \ {Pick(U)}])
              = (IF U = {} THEN 0 ELSE f[Pick(U)] + g[U \ {Pick(U)}])
      BY <2>5, <2>6
    <3> QED BY <2>7, <3>1
  <2>9. SumTo(g, f, S, m)
    BY <2>8 DEF SumTo
  <2> QED BY <1>3, <2>9
<1> QED BY <1>4, <1>5

\* A total is that of one element and that of the others.
Sums(g, f, S) ==
  /\ g[{}] = 0
  /\ \A T \in SUBSET S : T # {} => g[T] = f[Pick(T)] + g[T \ {Pick(T)}]

LEMMA TotalSums ==
  ASSUME NEW S, IsFiniteSet(S), NEW f
  PROVE  \E g : Sums(g, f, S) /\ Total(f, S) = g[S]
<1> DEFINE Iter(g) == g = [T \in SUBSET S |-> IF T = {} THEN 0
                                              ELSE LET x == Pick(T) IN f[x] + g[T \ {x}]]
           iter == CHOOSE g : Iter(g)
<1>1. Total(f, S) = iter[S]
  BY DEF Total, MapThenSumSet, MapThenFoldSet, Pick
<1>2. \E g : Iter(g)
  <2>1. Cardinality(S) \in Nat
    BY FS_CardinalityType
  <2>2. SetsUpTo(S, Cardinality(S)) = SUBSET S
    BY FS_Subset DEF SetsUpTo
  <2>3. PICK g : SumTo(g, f, S, Cardinality(S))
    BY <2>1, SumsExist
  <2>4. Iter(g)
    BY <2>2, <2>3 DEF SumTo
  <2> QED BY <2>4
<1>3. Iter(iter)
  <2> HIDE DEF Iter
  <2> QED BY <1>2
<1> HIDE DEF iter
<1>4. Sums(iter, f, S)
  BY <1>3 DEF Sums
<1> QED BY <1>1, <1>4

\* What holds of no elements, and of some when it holds without one of them.
LEMMA SubsetsOneByOne ==
  ASSUME NEW S, IsFiniteSet(S), NEW G, {} \in G,
         \A T \in SUBSET S : T # {} /\ T \ {Pick(T)} \in G => T \in G
  PROVE  \A T \in SUBSET S : T \in G
<1> DEFINE Sizes == {n \in Nat : \E T \in SUBSET S : Cardinality(T) = n /\ T \notin G}
<1>1. SUFFICES ASSUME NEW T \in SUBSET S, T \notin G
               PROVE  FALSE
  OBVIOUS
<1>2. Cardinality(T) \in Nat
  BY FS_Subset, FS_CardinalityType
<1>3. Sizes \in SUBSET Nat /\ Sizes # {}
  BY <1>1, <1>2
<1>4. PICK n \in Sizes : \A m \in Sizes : n <= m
  <2> HIDE DEF Sizes
  <2> QED BY <1>3, LeastNumber
<1>5. PICK U \in SUBSET S : Cardinality(U) = n /\ U \notin G
  OBVIOUS
<1>6. U # {}
  BY <1>5
<1>7. /\ U \ {Pick(U)} \in SUBSET S
      /\ Cardinality(U) \in Nat /\ Cardinality(U \ {Pick(U)}) \in Nat
      /\ Cardinality(U) = Cardinality(U \ {Pick(U)}) + 1
  BY <1>6, PickRemoves
<1>8. U \ {Pick(U)} \notin G
  BY <1>5, <1>6
<1>9. Cardinality(U \ {Pick(U)}) \in Sizes
  BY <1>7, <1>8
<1>10. n <= Cardinality(U \ {Pick(U)})
  <2> HIDE DEF Sizes
  <2> QED BY <1>4, <1>9
<1> QED BY <1>5, <1>7, <1>10

\* Larger elements have a larger total.
LEMMA SumsCompared ==
  ASSUME NEW S, IsFiniteSet(S), NEW f, NEW h,
         \A x \in S : f[x] \in Int /\ h[x] \in Int /\ f[x] <= h[x],
         NEW g, Sums(g, f, S), NEW k, Sums(k, h, S), NEW a
  PROVE  \A T \in SUBSET S :
           /\ g[T] \in Int /\ k[T] \in Int /\ g[T] <= k[T]
           /\ a \in T /\ f[a] < h[a] => g[T] < k[T]
           /\ (\A x \in S : 0 <= f[x]) => 0 <= g[T]
<1> DEFINE Good(T) == /\ g[T] \in Int /\ k[T] \in Int /\ g[T] <= k[T]
                      /\ a \in T /\ f[a] < h[a] => g[T] < k[T]
                      /\ (\A x \in S : 0 <= f[x]) => 0 <= g[T]
           G == {T \in SUBSET S : Good(T)}
<1>1. {} \in G
  BY DEF Sums
<1>2. ASSUME NEW T \in SUBSET S, T # {}, T \ {Pick(T)} \in G
      PROVE  T \in G
  <2> DEFINE x == Pick(T)
             rest == T \ {Pick(T)}
  <2>1. x \in T /\ x \in S
    BY <1>2, PickRemoves
  <2>2. g[T] = f[x] + g[rest] /\ k[T] = h[x] + k[rest]
    BY <1>2 DEF Sums
  <2>3. Good(rest)
    BY <1>2
  <2>4. f[x] \in Int /\ h[x] \in Int /\ f[x] <= h[x]
    BY <2>1
  <2>5. a \in T => a = x \/ a \in rest
    OBVIOUS
  <2> HIDE DEF x, rest
  <2>6. g[T] \in Int /\ k[T] \in Int /\ g[T] <= k[T]
    BY <2>2, <2>3, <2>4
  <2>7. ASSUME a \in T, f[a] < h[a]
        PROVE  g[T] < k[T]
    <3>1. CASE a = x
      BY <2>2, <2>3, <2>4, <2>7, <3>1
    <3>2. CASE a \in rest
      BY <2>2, <2>3, <2>4, <2>7, <3>2
    <3> QED BY <2>5, <2>7, <3>1, <3>2
  <2>8. ASSUME \A y \in S : 0 <= f[y]
        PROVE  0 <= g[T]
    BY <2>1, <2>2, <2>3, <2>4, <2>8
  <2> QED BY <2>6, <2>7, <2>8
<1>3. \A T \in SUBSET S : T \in G
  <2> HIDE DEF G
  <2> QED BY <1>1, <1>2, SubsetsOneByOne
<1> QED BY <1>3

LEMMA TotalsCompared ==
  ASSUME NEW S, IsFiniteSet(S), NEW f, NEW h,
         \A x \in S : f[x] \in Int /\ h[x] \in Int /\ f[x] <= h[x]
  PROVE  /\ Total(f, S) \in Int /\ Total(h, S) \in Int /\ Total(f, S) <= Total(h, S)
         /\ (\E a \in S : f[a] < h[a]) => Total(f, S) < Total(h, S)
         /\ (\A x \in S : 0 <= f[x]) => 0 <= Total(f, S)
<1>1. PICK g : Sums(g, f, S) /\ Total(f, S) = g[S]
  BY TotalSums
<1>2. PICK k : Sums(k, h, S) /\ Total(h, S) = k[S]
  BY TotalSums
<1>3. \A a : /\ g[S] \in Int /\ k[S] \in Int /\ g[S] <= k[S]
             /\ a \in S /\ f[a] < h[a] => g[S] < k[S]
             /\ (\A x \in S : 0 <= f[x]) => 0 <= g[S]
  BY <1>1, <1>2, SumsCompared
<1> QED BY <1>1, <1>2, <1>3

\* A total of z-scores, and their average.
LEMMA TotalOfScores ==
  ASSUME NEW S, IsFiniteSet(S), NEW f \in [S -> - WinsorZ .. WinsorZ]
  PROVE  /\ Total(f, S) \in Int
         /\ - WinsorZ * Cardinality(S) <= Total(f, S)
         /\ Total(f, S) <= WinsorZ * Cardinality(S)
<1> DEFINE Good(g, T) == /\ g[T] \in Int
                         /\ -60 * Cardinality(T) <= g[T] /\ g[T] <= 60 * Cardinality(T)
<1>0. WinsorZ = 60
  BY DEF WinsorZ, ZUnit
<1>1. PICK g : Sums(g, f, S) /\ Total(f, S) = g[S]
  BY TotalSums
<1> DEFINE G == {T \in SUBSET S : Good(g, T)}
<1>2. {} \in G
  BY <1>1, FS_EmptySet DEF Sums
<1>3. ASSUME NEW T \in SUBSET S, T # {}, T \ {Pick(T)} \in G
      PROVE  T \in G
  <2> DEFINE x == Pick(T)
             rest == T \ {Pick(T)}
  <2>1. /\ x \in T /\ Cardinality(T) \in Nat /\ Cardinality(rest) \in Nat
        /\ Cardinality(T) = Cardinality(rest) + 1
    BY <1>3, PickRemoves
  <2>2. g[T] = f[x] + g[rest]
    BY <1>1, <1>3 DEF Sums
  <2>3. Good(g, rest)
    BY <1>3
  <2>4. f[x] \in -60 .. 60
    BY <1>0, <2>1
  <2> HIDE DEF x, rest
  <2> QED BY <2>1, <2>2, <2>3, <2>4
<1>4. \A T \in SUBSET S : T \in G
  <2> HIDE DEF G
  <2> QED BY <1>2, <1>3, SubsetsOneByOne
<1>5. Good(g, S)
  BY <1>4
<1> QED BY <1>0, <1>1, <1>5

\* Research scores.

LEMMA ThreeAreFinite ==
  ASSUME NEW a, NEW b, NEW c
  PROVE  IsFiniteSet({a, b, c})
<1>1. IsFiniteSet({a})
  BY FS_Singleton
<1>2. IsFiniteSet({a} \cup {b})
  BY <1>1, FS_AddElement
<1>3. IsFiniteSet(({a} \cup {b}) \cup {c})
  BY <1>2, FS_AddElement
<1>4. {a, b, c} = ({a} \cup {b}) \cup {c}
  OBVIOUS
<1> QED BY <1>3, <1>4

LEMMA FactorsAreFinite == IsFiniteSet(Factors)
<1>1. IsFiniteSet({"growth", "quality", "valuation"})
  BY ThreeAreFinite
<1>2. IsFiniteSet({"growth", "quality", "valuation"} \cup {"momentum"})
  BY <1>1, FS_AddElement
<1>3. IsFiniteSet(({"growth", "quality", "valuation"} \cup {"momentum"}) \cup {"financial_strength"})
  BY <1>2, FS_AddElement
<1>4. Factors = ({"growth", "quality", "valuation"} \cup {"momentum"}) \cup {"financial_strength"}
  BY DEF Factors, FactorMetrics
<1> QED BY <1>3, <1>4

\* A factor has some metrics, of which more is better or worse.
LEMMA MetricsOfFactor ==
  ASSUME NEW f \in Factors
  PROVE  /\ IsFiniteSet(DOMAIN FactorMetrics[f])
         /\ \A m \in DOMAIN FactorMetrics[f] : FactorMetrics[f][m] \in {-1, 1}
<1>1. /\ FactorMetrics["growth"] = [revenue_growth_yoy |-> 1, eps_growth_yoy |-> 1]
      /\ FactorMetrics["quality"] = [gross_margin |-> 1, operating_margin |-> 1, roe |-> 1]
      /\ FactorMetrics["valuation"] = [pe |-> -1, ev_to_sales |-> -1]
      /\ FactorMetrics["momentum"] = [momentum_6m |-> 1]
      /\ FactorMetrics["financial_strength"] = [debt_to_equity |-> -1]
  BY DEF FactorMetrics
<1>2. f \in {"growth", "quality", "valuation", "momentum", "financial_strength"}
  BY DEF Factors, FactorMetrics
<1>3. ASSUME NEW a, NEW b, NEW c, DOMAIN FactorMetrics[f] = {a, b, c}
      PROVE  IsFiniteSet(DOMAIN FactorMetrics[f])
  <2>1. IsFiniteSet({a, b, c})
    BY ThreeAreFinite
  <2> QED BY <1>3, <2>1, Zenon
<1>4. CASE f = "growth"
  <2>1. /\ DOMAIN FactorMetrics[f] = {"revenue_growth_yoy", "eps_growth_yoy", "eps_growth_yoy"}
        /\ \A m \in DOMAIN FactorMetrics[f] : FactorMetrics[f][m] \in {-1, 1}
    BY <1>1, <1>4
  <2> QED BY <1>3, <2>1
<1>5. CASE f = "quality"
  <2>1. /\ DOMAIN FactorMetrics[f] = {"gross_margin", "operating_margin", "roe"}
        /\ \A m \in DOMAIN FactorMetrics[f] : FactorMetrics[f][m] \in {-1, 1}
    BY <1>1, <1>5
  <2> QED BY <1>3, <2>1
<1>6. CASE f = "valuation"
  <2>1. /\ DOMAIN FactorMetrics[f] = {"pe", "ev_to_sales", "ev_to_sales"}
        /\ \A m \in DOMAIN FactorMetrics[f] : FactorMetrics[f][m] \in {-1, 1}
    BY <1>1, <1>6
  <2> QED BY <1>3, <2>1
<1>7. CASE f = "momentum"
  <2>1. /\ DOMAIN FactorMetrics[f] = {"momentum_6m", "momentum_6m", "momentum_6m"}
        /\ \A m \in DOMAIN FactorMetrics[f] : FactorMetrics[f][m] \in {-1, 1}
    BY <1>1, <1>7
  <2> QED BY <1>3, <2>1
<1>8. CASE f = "financial_strength"
  <2>1. /\ DOMAIN FactorMetrics[f] = {"debt_to_equity", "debt_to_equity", "debt_to_equity"}
        /\ \A m \in DOMAIN FactorMetrics[f] : FactorMetrics[f][m] \in {-1, 1}
    BY <1>1, <1>8
  <2> QED BY <1>3, <2>1
<1> QED BY <1>2, <1>4, <1>5, <1>6, <1>7, <1>8

LEMMA FactorZRange ==
  ASSUME NEW x, NEW metrics, IsFiniteSet(DOMAIN metrics), NEW z, NEW s,
         \A m \in DOMAIN metrics : metrics[m] \in {-1, 1} /\ z[m][s] \in - WinsorZ .. WinsorZ
  PROVE  FactorZ(x, metrics, z, s) \in -6 * WinsorZ .. 6 * WinsorZ
<1> DEFINE there == {m \in DOMAIN metrics : x.metrics[m] # None}
           signed == [m \in there |-> metrics[m] * z[m][s]]
           sum == Total(signed, there)
           n == Cardinality(there)
<1>0. WinsorZ \in Nat
  BY DEF WinsorZ, ZUnit
<1>1. IsFiniteSet(there) /\ there \in SUBSET DOMAIN metrics
  <2>1. there \in SUBSET DOMAIN metrics
    OBVIOUS
  <2> HIDE DEF there
  <2> QED BY <2>1, FS_Subset
<1>2. FactorZ(x, metrics, z, s) = IF there = {} THEN 0 ELSE (6 * sum) \div n
  BY DEF FactorZ
<1> HIDE DEF there
<1>3. signed \in [there -> - WinsorZ .. WinsorZ]
  <2>1. \A v \in - WinsorZ .. WinsorZ : 1 * v \in - WinsorZ .. WinsorZ /\ -1 * v \in - WinsorZ .. WinsorZ
    BY <1>0
  <2> QED BY <1>1, <2>1
<1> HIDE DEF signed
<1>4. sum \in Int /\ - WinsorZ * n <= sum /\ sum <= WinsorZ * n
  BY <1>1, <1>3, TotalOfScores
<1>5. n \in Nat /\ (there # {} => n # 0)
  BY <1>1, FS_CardinalityType, FS_EmptySet
<1> HIDE DEF sum, n
<1>6. CASE there = {}
  BY <1>0, <1>2, <1>6
<1>7. CASE there # {}
  <2> DEFINE q == (6 * sum) \div n
  <2>1. n \in Nat \ {0}
    BY <1>5, <1>7
  <2>2. q \in Int /\ n * q <= 6 * sum /\ 6 * sum < n * q + n
    <3> DEFINE six == 6 * sum
    <3>1. six \in Int
      BY <1>4
    <3> HIDE DEF six
    <3> QED BY <2>1, <3>1, Quotient DEF six
  <2> HIDE DEF q
  <2> DEFINE top == 6 * WinsorZ
             bottom == -6 * WinsorZ
  <2>3. top \in Int /\ bottom \in Int
    BY <1>0
  <2>4. 6 * sum <= top * n /\ bottom * n <= 6 * sum
    BY <1>0, <1>4, <2>1 DEF WinsorZ, ZUnit
  <2> HIDE DEF top, bottom
  <2>5. q * n = n * q /\ q * n \in Int /\ top * n \in Int /\ bottom * n \in Int
    BY <2>1, <2>2, <2>3
  <2>6. q * n <= top * n
    BY <1>4, <2>2, <2>4, <2>5
  <2>7. q <= top
    BY <2>1, <2>2, <2>3, <2>6, ProductOrder
  <2>8. ~ q < bottom
    <3>1. q < bottom => q * n + n <= bottom * n
      BY <2>1, <2>2, <2>3, ProductOrder
    <3> QED BY <1>4, <2>1, <2>2, <2>4, <2>5, <3>1
  <2>9. FactorZ(x, metrics, z, s) = q
    BY <1>2, <1>7 DEF q
  <2> QED BY <2>2, <2>3, <2>7, <2>8, <2>9 DEF top, bottom
<1> QED BY <1>6, <1>7

LEMMA ClampType ==
  ASSUME NEW x \in Int, NEW low \in Int, NEW high \in Int
  PROVE  Clamp(x, low, high) \in Int
<1>1. Min({x, high}) \in Int
  <2> DEFINE m == IF x <= high THEN x ELSE high
  <2>1. m \in {x, high} /\ \A y \in {x, high} : m <= y
    OBVIOUS
  <2>2. Min({x, high}) \in {x, high}
    BY <2>1 DEF Min
  <2> QED BY <2>2
<1>2. Max({low, Min({x, high})}) = IF low >= Min({x, high}) THEN low ELSE Min({x, high})
  <2> DEFINE m == Min({x, high})
  <2> HIDE DEF m
  <2>1. Max({low, m}) = IF low >= m THEN low ELSE m
    BY <1>1, MaxOfTwo DEF m
  <2> QED BY <2>1 DEF m
<1> QED BY <1>1, <1>2 DEF Clamp

\* A part of a number is at most the number.
LEMMA PartOf ==
  ASSUME NEW a \in Nat, NEW c \in Int, NEW w \in Nat \ {0}, c <= w
  PROVE  (a * c) \div w <= a
<1> DEFINE product == a * c
           q == product \div w
<1>1. product \in Int /\ product <= a * w
  <2>1. a = 0 \/ a \in Nat \ {0}
    OBVIOUS
  <2>2. CASE a = 0
    BY <2>2
  <2>3. CASE a \in Nat \ {0}
    <3>1. c * a <= w * a
      BY <2>3, ProductOrder
    <3> QED BY <3>1
  <2> QED BY <2>1, <2>2, <2>3
<1> HIDE DEF product
<1>2. q \in Int /\ w * q <= product
  BY <1>1, Quotient
<1> HIDE DEF q
<1>3. q * w <= a * w
  <2>1. q * w = w * q /\ w * q \in Int /\ a * w \in Int
    BY <1>2
  <2> QED BY <1>1, <1>2, <2>1
<1>4. q <= a
  BY <1>2, <1>3, ProductOrder
<1> QED BY <1>4 DEF q, product

\* The results are of all the symbols, each with no more confidence than its data.
Researched(inputs, results) ==
  /\ {results[i].symbol : i \in DOMAIN results} = DOMAIN inputs
  /\ \A i \in DOMAIN results : results[i].confidence <= inputs[results[i].symbol].data_confidence

LEMMA WeightsTotal ==
  ASSUME NEW weights \in [Factors -> Nat], \E f \in Factors : weights[f] > 0
  PROVE  Total(weights, Factors) \in Nat \ {0}
<1> DEFINE none == [f \in Factors |-> 0]
<1>1. \A f \in Factors : none[f] \in Int /\ weights[f] \in Int /\ none[f] <= weights[f]
  OBVIOUS
<1>2. \E f \in Factors : none[f] < weights[f]
  OBVIOUS
<1>3. \A f \in Factors : 0 <= none[f]
  OBVIOUS
<1> HIDE DEF none
<1>4. /\ Total(none, Factors) \in Int /\ Total(weights, Factors) \in Int
      /\ Total(none, Factors) < Total(weights, Factors) /\ 0 <= Total(none, Factors)
  BY <1>1, <1>2, <1>3, FactorsAreFinite, TotalsCompared
<1> QED BY <1>4

LEMMA TotalType ==
  ASSUME NEW S, IsFiniteSet(S), NEW f, \A x \in S : f[x] \in Int
  PROVE  Total(f, S) \in Int
<1>1. \A x \in S : f[x] <= f[x]
  OBVIOUS
<1> QED BY <1>1, TotalsCompared

LEMMA ResearchScored ==
  ASSUME NEW inputs, IsRankCall(inputs), NEW profile, IsProfile(profile)
  PROVE  /\ Researched(inputs, ScoreResearch(inputs, profile))
         /\ RanksAgree(ScoreResearch(inputs, profile))
<1> DEFINE S == DOMAIN inputs
           names == UNION {DOMAIN FactorMetrics[f] : f \in Factors}
           z == [m \in names |-> ZScores([s \in S |-> inputs[s].metrics[m]])]
           factor_z == [s \in S |-> [f \in Factors |-> FactorZ(inputs[s], FactorMetrics[f], z, s)]]
           Weighted(s) == Total([f \in Factors |-> profile.weights[f] * Squash(factor_z[s][f])], Factors)
           Penalty(s) == Total(profile.penalties, PenaltiesOf(inputs[s], profile))
           score == [s \in S |-> Clamp(Weighted(s) - 100 * Penalty(s), 0, 10000)]
           Coverage(s) == Total([f \in Factors |-> IF Covered(inputs[s], f) THEN profile.weights[f] ELSE 0],
                                Factors)
           Result(s) == [symbol |-> s, score |-> score[s],
                         confidence |-> (inputs[s].data_confidence * Coverage(s))
                                         \div Total(profile.weights, Factors),
                         factor_z |-> factor_z[s],
                         penalties |-> PenaltiesOf(inputs[s], profile),
                         positive |-> {f \in Factors : 4 * factor_z[s][f] >= 3 * FactorUnit},
                         negative |-> {f \in Factors : 4 * factor_z[s][f] <= -3 * FactorUnit},
                         percentile |-> Percentile(score, s)]
           Share(s) == (inputs[s].data_confidence * Coverage(s)) \div Total(profile.weights, Factors)
           order == RankOrder(score)
           results == ScoreResearch(inputs, profile)
<1>0. /\ S \in SUBSET Int /\ IsFiniteSet(S) /\ Cardinality(S) <= 100 * PercentUnit + 1
      /\ \A s \in S : inputs[s].data_confidence \in Nat
  BY DEF IsRankCall, IsUniverse
<1>1. results = [i \in 1 .. Cardinality(S) |-> Result(order[i])]
  BY DEF ScoreResearch
<1>2. \A s \in S : /\ Result(s).symbol = s /\ Result(s).score = score[s]
                   /\ Result(s).percentile = Percentile(score, s)
                   /\ Result(s).confidence = Share(s)
  OBVIOUS
<1> HIDE DEF Result
<1>3. /\ profile.weights \in [Factors -> Nat] /\ \E f \in Factors : profile.weights[f] > 0
      /\ profile.penalties
           \in [{"extreme_volatility", "extreme_short_term_move", "leverage"} -> Nat]
  BY DEF IsProfile
<1>4. \A s \in S, f \in Factors : factor_z[s][f] \in -6 * WinsorZ .. 6 * WinsorZ
  <2> SUFFICES ASSUME NEW s \in S, NEW f \in Factors
               PROVE  factor_z[s][f] \in -6 * WinsorZ .. 6 * WinsorZ
    OBVIOUS
  <2>1. factor_z[s][f] = FactorZ(inputs[s], FactorMetrics[f], z, s)
    OBVIOUS
  <2>2. \A m \in DOMAIN FactorMetrics[f] : z[m][s] \in - WinsorZ .. WinsorZ
    <3> SUFFICES ASSUME NEW m \in DOMAIN FactorMetrics[f]
                 PROVE  z[m][s] \in - WinsorZ .. WinsorZ
      OBVIOUS
    <3> DEFINE raw == [t \in S |-> inputs[t].metrics[m]]
    <3>1. m \in names
      OBVIOUS
    <3> HIDE DEF names
    <3>2. z[m] = ZScores(raw)
      BY <3>1
    <3>3. s \in DOMAIN raw
      OBVIOUS
    <3> HIDE DEF raw, z
    <3> QED BY <3>2, <3>3, ZScoreRange
  <2> HIDE DEF z, factor_z
  <2>3. FactorZ(inputs[s], FactorMetrics[f], z, s) \in -6 * WinsorZ .. 6 * WinsorZ
    BY <2>2, MetricsOfFactor, FactorZRange
  <2> QED BY <2>1, <2>3
<1> HIDE DEF factor_z
<1>5. \A s \in S : Weighted(s) \in Int
  <2> SUFFICES ASSUME NEW s \in S
               PROVE  Weighted(s) \in Int
    OBVIOUS
  <2> DEFINE terms == [f \in Factors |-> profile.weights[f] * Squash(factor_z[s][f])]
  <2>1. \A f \in Factors : terms[f] \in Int
    <3>1. \A f \in Factors : profile.weights[f] \in Nat /\ Squash(factor_z[s][f]) \in Nat
      BY <1>3, <1>4, SquashConstants
    <3> QED BY <3>1
  <2>2. Weighted(s) = Total(terms, Factors)
    OBVIOUS
  <2> HIDE DEF terms
  <2> QED BY <2>1, <2>2, FactorsAreFinite, TotalType
<1>6. \A s \in S : Penalty(s) \in Int
  <2> SUFFICES ASSUME NEW s \in S
               PROVE  Penalty(s) \in Int
    OBVIOUS
  <2> DEFINE K == PenaltiesOf(inputs[s], profile)
  <2>1. K \in SUBSET {"extreme_volatility", "extreme_short_term_move", "leverage"}
    BY <1>3 DEF PenaltiesOf
  <2>2. IsFiniteSet(K)
    BY <2>1, ThreeAreFinite, FS_Subset
  <2>3. \A k \in K : profile.penalties[k] \in Int
    BY <1>3, <2>1
  <2> HIDE DEF K
  <2>4. Total(profile.penalties, K) \in Int
    BY <2>2, <2>3, TotalType
  <2> QED BY <2>4 DEF K
<1>7. \A s \in S : Coverage(s) \in Int /\ Coverage(s) <= Total(profile.weights, Factors)
  <2> SUFFICES ASSUME NEW s \in S
               PROVE  Coverage(s) \in Int /\ Coverage(s) <= Total(profile.weights, Factors)
    OBVIOUS
  <2> DEFINE covered == [f \in Factors |-> IF Covered(inputs[s], f) THEN profile.weights[f] ELSE 0]
  <2>1. \A f \in Factors : /\ covered[f] \in Int /\ profile.weights[f] \in Int
                           /\ covered[f] <= profile.weights[f]
    BY <1>3
  <2>2. Coverage(s) = Total(covered, Factors)
    OBVIOUS
  <2> HIDE DEF covered
  <2> QED BY <2>1, <2>2, FactorsAreFinite, TotalsCompared
<1> HIDE DEF Weighted, Penalty, Coverage
<1>8. score \in [S -> Int]
  <2>1. ASSUME NEW s \in S
        PROVE  Clamp(Weighted(s) - 100 * Penalty(s), 0, 10000) \in Int
    <3> DEFINE total == Weighted(s) - 100 * Penalty(s)
    <3>1. total \in Int
      BY <1>5, <1>6
    <3> HIDE DEF total
    <3>2. Clamp(total, 0, 10000) \in Int
      BY <3>1, ClampType
    <3> QED BY <3>2 DEF total
  <2> QED BY <2>1
<1>9. \A s \in S : Result(s).confidence <= inputs[s].data_confidence
  <2> SUFFICES ASSUME NEW s \in S
               PROVE  Result(s).confidence <= inputs[s].data_confidence
    OBVIOUS
  <2>1. Total(profile.weights, Factors) \in Nat \ {0}
    BY <1>3, WeightsTotal
  <2> DEFINE own == inputs[s].data_confidence
             part == Coverage(s)
             whole == Total(profile.weights, Factors)
  <2>2. own \in Nat /\ part \in Int /\ whole \in Nat \ {0} /\ part <= whole
    BY <1>0, <1>7, <2>1
  <2>3. Share(s) = (own * part) \div whole
    OBVIOUS
  <2> HIDE DEF own, part, whole
  <2>4. (own * part) \div whole <= own
    BY <2>2, PartOf
  <2> HIDE DEF Share, score, S
  <2>5. Result(s).confidence = Share(s)
    BY <1>2
  <2> QED BY <2>3, <2>4, <2>5 DEF own
<1> HIDE DEF score
<1>10. /\ DOMAIN order = 1 .. Cardinality(S)
       /\ \A i \in 1 .. Cardinality(S) : order[i] \in S
       /\ \A s \in S : \E i \in 1 .. Cardinality(S) : order[i] = s
  <2>1. /\ DOMAIN order = 1 .. Cardinality(S)
        /\ \A i \in 1 .. Cardinality(S) : order[i] \in S
        /\ Lists(order, AheadPairs(score, S), S)
    BY <1>0, <1>8, RankOrderLists
  <2> QED BY <2>1 DEF Lists
<1> HIDE DEF order
<1>11. /\ results = [i \in 1 .. Cardinality(S) |-> results[i]] /\ DOMAIN results = 1 .. Cardinality(S)
       /\ \A i \in 1 .. Cardinality(S) : results[i] = Result(order[i])
  BY <1>1
<1> HIDE DEF results, S
<1>12. RanksAgree(results)
  <2>1. \A i \in 1 .. Cardinality(S) : /\ results[i].score = score[order[i]]
                                       /\ results[i].percentile = Percentile(score, order[i])
    BY <1>2, <1>10, <1>11
  <2> QED BY <1>0, <1>8, <1>11, <2>1, RanksOf DEF order
<1>13. \A i \in DOMAIN results : results[i].symbol = order[i] /\ order[i] \in S
  BY <1>2, <1>10, <1>11
<1>14. {results[i].symbol : i \in DOMAIN results} = S
  BY <1>10, <1>11, <1>13
<1>15. \A i \in DOMAIN results : results[i].confidence <= inputs[results[i].symbol].data_confidence
  BY <1>9, <1>11, <1>13
<1> QED BY <1>12, <1>14, <1>15 DEF Researched, results, S

LEMMA GoodRanks ==
  ASSUME NEW x, IsRankCall(x)
  PROVE  GoodRank(x, RankResearch(x, Profile))
<1> DEFINE fit == {s \in DOMAIN x : PassesResearchGates(x[s], Profile)}
           inputs == Restrict(x, fit)
<1>1. RankResearch(x, Profile) = ScoreResearch(inputs, Profile)
  BY DEF RankResearch
<1>2. fit \in SUBSET DOMAIN x /\ \A s \in fit : PassesResearchGates(x[s], Profile)
  OBVIOUS
<1> HIDE DEF fit
<1>3. DOMAIN inputs = fit /\ \A s \in fit : inputs[s] = x[s]
  BY DEF Restrict
<1>4. RankResearch(inputs, Profile) = ScoreResearch(inputs, Profile)
  <2>1. {s \in DOMAIN inputs : PassesResearchGates(inputs[s], Profile)} = fit
    <3> HIDE DEF inputs
    <3> QED BY <1>2, <1>3
  <2>2. Restrict(inputs, fit) = inputs
    <3>1. inputs = [s \in fit |-> inputs[s]]
      BY DEF Restrict
    <3> HIDE DEF inputs
    <3> QED BY <3>1 DEF Restrict
  <2> HIDE DEF inputs
  <2> QED BY <2>1, <2>2 DEF RankResearch
<1> HIDE DEF inputs
<1>5. IsRankCall(inputs)
  <2>1. /\ DOMAIN x \in SUBSET Int /\ IsFiniteSet(DOMAIN x)
        /\ Cardinality(DOMAIN x) <= 100 * PercentUnit + 1
        /\ \A s \in DOMAIN x : x[s].data_confidence \in Nat
    BY DEF IsRankCall, IsUniverse
  <2>2. IsFiniteSet(fit) /\ Cardinality(fit) <= Cardinality(DOMAIN x)
    BY <1>2, <2>1, FS_Subset
  <2>3. Cardinality(fit) \in Nat /\ Cardinality(DOMAIN x) \in Nat /\ 100 * PercentUnit + 1 \in Nat
    BY <2>1, <2>2, FS_CardinalityType DEF PercentUnit
  <2>4. Cardinality(fit) <= 100 * PercentUnit + 1
    BY <2>1, <2>2, <2>3
  <2> QED BY <1>2, <1>3, <2>1, <2>2, <2>4 DEF IsRankCall, IsUniverse
<1>6. /\ Researched(inputs, ScoreResearch(inputs, Profile))
      /\ RanksAgree(ScoreResearch(inputs, Profile))
  BY <1>5, ResearchScored, DeskConstants
<1> DEFINE answer == ScoreResearch(inputs, Profile)
<1> HIDE DEF answer
<1>7. /\ {answer[i].symbol : i \in DOMAIN answer} = fit
      /\ \A i \in DOMAIN answer : answer[i].confidence <= x[answer[i].symbol].data_confidence
  BY <1>3, <1>6 DEF Researched, answer
<1>8. RanksAgree(answer) /\ answer = RankResearch(Restrict(x, fit), Profile)
  BY <1>4, <1>6 DEF answer, inputs
<1> QED BY <1>1, <1>7, <1>8 DEF GoodRank, fit, answer

==============================================================================
