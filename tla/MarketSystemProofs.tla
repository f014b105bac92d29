-------------------------- MODULE MarketSystemProofs --------------------------
(***************************************************************************)
(* Proofs about MarketSystem, for any universe, any jobs and loads, and    *)
(* any number of sessions and splits.  IInv is inductive: what a snapshot  *)
(* was computed from is a part of the stored bars, and bars are only added.*)
(***************************************************************************)
EXTENDS MarketSystem, SequenceTheorems, TLAPS

USE DEF Sessions, Symbols

-----------------------------------------------------------------------------
\* Inserting keeps what was there and adds the new rows for new keys.
LEMMA InsertKeeps ==
  ASSUME NEW table, NEW rows
  PROVE  /\ DOMAIN InsertNew(table, rows) = DOMAIN table \cup DOMAIN rows
         /\ Keeps(table, InsertNew(table, rows))
         /\ \A k \in DOMAIN rows \ DOMAIN table : InsertNew(table, rows)[k] = rows[k]
  BY DEF InsertNew, Keeps

LEMMA InsertSeries ==
  ASSUME NEW x, NEW y, IsSeries(x), IsSeries(y)
  PROVE  IsSeries(InsertNew(x, y))
  BY DEF InsertNew, IsSeries

LEMMA KeepsTransitive ==
  ASSUME NEW x, NEW y, NEW z, Keeps(x, y), Keeps(y, z)
  PROVE  Keeps(x, z)
  BY DEF Keeps

\* A series cut at a session is a series, and part of the one it was cut from.
LEMMA UpToPart ==
  ASSUME NEW x, IsSeries(x), NEW t \in Nat
  PROVE  /\ IsSeries(UpTo(t, x))
         /\ DOMAIN UpTo(t, x) \subseteq 1 .. t
         /\ Keeps(UpTo(t, x), x)
         /\ \A u \in DOMAIN x : u <= t => u \in DOMAIN UpTo(t, x)
  BY DEF UpTo, Restrict, IsSeries, Keeps

\* Honest features stay honest while bars are only added.
LEMMA HonestStays ==
  ASSUME NEW s \in Stocks, NEW x, NEW t, Honest(s, x, t),
         Keeps(bars[s], bars'[s]), Keeps(bars[Benchmark], bars'[Benchmark])
  PROVE  Honest(s, x, t)'
  BY KeepsTransitive DEF Honest, LooksBack, StillStored

LEMMA HonestSame ==
  ASSUME bars' = bars
  PROVE  /\ \A s, x, t : Honest(s, x, t)' <=> Honest(s, x, t)
         /\ \A x, t : AllHonest(x, t)' <=> AllHonest(x, t)
         /\ StoredSessions' = StoredSessions
  BY DEF Honest, LooksBack, StillStored, AllHonest, Keeps, StoredSessions

-----------------------------------------------------------------------------
LEMMA Initially == Init => IInv
<1> SUFFICES ASSUME Init PROVE IInv
  OBVIOUS
<1> USE DEF Init, DataInit, WorkerInit, CacheInit
<1>1. TypeOK
  BY MarketConstants, EmptySeq
     DEF TypeOK, DataTypeOK, WorkerTypeOK, CacheTypeOK, IsSeries, IsCrossSection, NoHistories
<1>3. CycleInv
  BY DEF CycleInv, AllHonest, Keeps, NoHistories, Nothing
<1>4. TableInv
  BY DEF TableInv, ScoreHasFeatures
<1>5. RankInv
  BY DEF RankInv, EntriesMatchRank, Nothing
<1> QED BY <1>1, <1>3, <1>4, <1>5 DEF IInv

\* A job goes on or ends.
LEMMA JobMoves ==
  ASSUME DataTypeOK, NEW j \in Jobs, NEW rest \in Seq(Symbols), GoesOnWith(j, rest)
  PROVE  load' \in [Jobs -> Seq(Symbols)] /\ span' \in [Jobs -> SUBSET Sessions]
BY DEF DataTypeOK, GoesOnWith

\* The market and the loads: bars are only added.
LEMMA DataStep ==
  ASSUME IInv, DataNext
  PROVE  DataTypeOK' /\ \A s \in Symbols : Keeps(bars[s], bars'[s])
<1> DEFINE Added == DataTypeOK' /\ \A s \in Symbols : Keeps(bars[s], bars'[s])
<1>0. DataTypeOK
  BY DEF IInv, TypeOK
<1>1. ASSUME bars' = bars
      PROVE  \A s \in Symbols : Keeps(bars[s], bars'[s])
  BY <1>1 DEF Keeps
<1>2. CASE SessionCloses
  BY <1>0, <1>1, <1>2, MarketConstants DEF SessionCloses, DataTypeOK
<1>3. ASSUME NEW s \in Symbols, Split(s)
      PROVE  Added
  BY <1>0, <1>1, <1>3 DEF Split, DataTypeOK
<1>4. ASSUME NEW j \in Jobs, StartBackfill(j)
      PROVE  Added
  <2>1. LoadOrder \in Seq(Symbols)
    <3>1. StockOrder \in Seq(Symbols) /\ <<Benchmark>> \in Seq(Symbols)
      BY MarketConstants
    <3> QED BY <3>1, ConcatProperties DEF LoadOrder
  <2>2. load' \in [Jobs -> Seq(Symbols)] /\ span' \in [Jobs -> SUBSET Sessions]
    BY <1>0, <1>4, <2>1 DEF StartBackfill, DataTypeOK
  <2> QED BY <1>0, <1>1, <1>4, <2>2 DEF StartBackfill, DataTypeOK
<1>5. ASSUME NEW j \in Jobs, BackfillFails(j)
      PROVE  Added
  <2>1. load' \in [Jobs -> Seq(Symbols)] /\ span' \in [Jobs -> SUBSET Sessions]
    BY <1>0, <1>5, EmptySeq, JobMoves DEF BackfillFails
  <2> QED BY <1>0, <1>1, <1>5, <2>1 DEF BackfillFails, DataTypeOK
<1>6. ASSUME NEW j \in Jobs, LoadSymbol(j)
      PROVE  Added
  <2>1. PICK last \in 0 .. session :
          bars' = [bars EXCEPT ![Head(load[j])] =
                     InsertNew(@, Fetched(Head(load[j]), span[j], last))]
    BY <1>6 DEF LoadSymbol
  <2> DEFINE s == Head(load[j])
             rows == Fetched(s, span[j], last)
  <2>2. s \in Symbols /\ Tail(load[j]) \in Seq(Symbols)
    BY <1>0, <1>6, HeadTailProperties DEF LoadSymbol, DataTypeOK
  <2>3. load' \in [Jobs -> Seq(Symbols)] /\ span' \in [Jobs -> SUBSET Sessions]
    BY <1>0, <1>6, <2>2, JobMoves DEF LoadSymbol
  <2>4. IsSeries(rows)
    BY <1>0, <2>2 DEF Fetched, IsSeries, DataTypeOK
  <2> HIDE DEF rows
  <2>5. /\ DOMAIN bars' = Symbols
        /\ \A x \in Symbols : x # s => bars'[x] = bars[x]
        /\ bars'[s] = InsertNew(bars[s], rows)
    BY <1>0, <2>1, <2>2 DEF DataTypeOK, rows
  <2> HIDE DEF s
  <2>6. IsSeries(bars'[s]) /\ Keeps(bars[s], bars'[s])
    <3>1. IsSeries(bars[s])
      BY <1>0, <2>2 DEF DataTypeOK
    <3>2. IsSeries(InsertNew(bars[s], rows)) /\ Keeps(bars[s], InsertNew(bars[s], rows))
      BY <2>4, <3>1, InsertSeries, InsertKeeps
    <3> QED BY <2>5, <3>2
  <2>7. \A x \in Symbols : IsSeries(bars'[x]) /\ Keeps(bars[x], bars'[x])
    BY <1>0, <2>5, <2>6 DEF DataTypeOK, Keeps
  <2> QED BY <1>0, <1>6, <2>3, <2>5, <2>7 DEF LoadSymbol, DataTypeOK
<1> QED BY <1>2, <1>3, <1>4, <1>5, <1>6 DEF DataNext

\* Adding bars disturbs nothing that was computed from them.
LEMMA DataStepInv ==
  ASSUME IInv, DataNext, UNCHANGED <<workerVars, cacheVars, faults>>
  PROVE  IInv'
<1> USE DEF IInv, workerVars, cycleVars, tableVars, cacheVars
<1>1. /\ DataTypeOK'
      /\ \A s \in Symbols : Keeps(bars[s], bars'[s])
  BY DataStep
<1>2. TypeOK'
  BY <1>1 DEF TypeOK, WorkerTypeOK, CacheTypeOK
<1>3. \A s \in Stocks : \A x, t : Honest(s, x, t) => Honest(s, x, t)'
  BY <1>1, HonestStays
<1>4. \A x, t : IsCrossSection(x) /\ AllHonest(x, t) => AllHonest(x, t)'
  BY <1>3 DEF AllHonest, IsCrossSection
<1>5. CycleInv'
  <2>1. \A s \in Stocks : Keeps(histories[s], bars'[s])
    BY <1>1, KeepsTransitive DEF CycleInv
  <2>2. AllHonest(features, asOf)'
    BY <1>4 DEF CycleInv, TypeOK, WorkerTypeOK
  <2>3. StoredSessions \subseteq StoredSessions'
    BY <1>1 DEF StoredSessions, Keeps
  <2> QED BY <2>1, <2>2, <2>3 DEF CycleInv
<1>6. TableInv'
  <2>1. \A k \in DOMAIN featureRows : k[1] \in Stocks
    BY DEF TypeOK, WorkerTypeOK
  <2>2. \A k \in DOMAIN featureRows : Honest(k[1], featureRows[k], k[2])'
    BY <1>3, <2>1 DEF TableInv
  <2>3. \A k \in DOMAIN scoreRows : AllHonest(scoreRows[k], k[2])'
    BY <1>4 DEF TableInv, TypeOK, WorkerTypeOK
  <2> QED BY <2>2, <2>3 DEF TableInv, ScoreHasFeatures
<1>7. RankInv'
  <2>1. \A s \in DOMAIN latest : AllHonest(latest[s].results, latest[s].asOf)'
    BY <1>4 DEF RankInv, TypeOK, CacheTypeOK, IsPublication
  <2>2. StoredSessions \subseteq StoredSessions'
    BY <1>1 DEF StoredSessions, Keeps
  <2> QED BY <2>1, <2>2 DEF RankInv, EntriesMatchRank
<1> QED BY <1>1, <1>2, <1>5, <1>6, <1>7

-----------------------------------------------------------------------------
LEMMA WorkerKeepsData ==
  ASSUME IInv, UNCHANGED dataVars
  PROVE  DataTypeOK'
  BY DEF IInv, TypeOK, DataTypeOK, dataVars

\* A step of the cycle that only moves its own variables along.
LEMMA CycleOnly ==
  ASSUME IInv, UNCHANGED <<dataVars, faults, tableVars, cacheVars>>,
         pc' \in {"idle", "histories", "benchmark", "save_features"},
         pc' = "idle" <=> asOf' = 0,
         asOf' \in Sessions \cup {0},
         pc' # "idle" => asOf' \in StoredSessions /\ asOf' >= rank.asOf,
         DOMAIN histories' = Stocks,
         \A s \in Stocks : /\ IsSeries(histories'[s])
                           /\ DOMAIN histories'[s] \subseteq 1 .. asOf'
                           /\ Keeps(histories'[s], bars[s]),
         IsCrossSection(features'), AllHonest(features', asOf')
  PROVE  IInv'
<1> USE DEF IInv, dataVars, tableVars, cacheVars
<1>1. bars' = bars
  OBVIOUS
<1>2. /\ \A s, x, t : Honest(s, x, t)' <=> Honest(s, x, t)
      /\ \A x, t : AllHonest(x, t)' <=> AllHonest(x, t)
      /\ StoredSessions' = StoredSessions
  BY <1>1, HonestSame
<1>3. TypeOK'
  BY WorkerKeepsData DEF TypeOK, WorkerTypeOK, CacheTypeOK
<1>5. CycleInv'
  BY <1>1, <1>2 DEF CycleInv
<1>6. TableInv'
  BY <1>2 DEF TableInv, ScoreHasFeatures
<1>7. RankInv'
  BY <1>2 DEF RankInv, EntriesMatchRank
<1> QED BY <1>3, <1>5, <1>6, <1>7

LEMMA StartCycleStep ==
  ASSUME IInv, StartCycle, UNCHANGED <<dataVars, faults, cacheVars>>
  PROVE  IInv'
<1> USE DEF IInv, StartCycle
<1>1. PICK t \in Newest(StoredSessions) : asOf' = t
  OBVIOUS
<1>2. t \in StoredSessions /\ \A u \in StoredSessions : u <= t
  BY DEF Newest
<1>3. t \in Sessions
  <2>1. \A s \in Symbols : DOMAIN bars[s] \subseteq Sessions
    BY DEF TypeOK, DataTypeOK, IsSeries
  <2> QED BY <1>2, <2>1 DEF StoredSessions
<1>4. t >= rank.asOf
  <2>1. rank = Nothing \/ rank.asOf \in StoredSessions
    BY DEF RankInv
  <2>2. rank = Nothing => rank.asOf = 0
    BY DEF Nothing
  <2>3. t \in Nat
    BY <1>3, MarketConstants
  <2> HIDE DEF IInv, StartCycle
  <2>4. CASE rank = Nothing
    BY <2>2, <2>3, <2>4
  <2>5. CASE rank.asOf \in StoredSessions
    <3>1. rank.asOf <= t
      BY <1>2, <2>5
    <3>2. rank.asOf \in Sessions
      <4>1. \A s \in Symbols : DOMAIN bars[s] \subseteq Sessions
        BY DEF IInv, TypeOK, DataTypeOK, IsSeries
      <4> QED BY <2>5, <4>1 DEF StoredSessions
    <3> QED BY <2>3, <3>1, <3>2, MarketConstants
  <2> QED BY <2>1, <2>4, <2>5
<1>5. asOf = 0 /\ 1 .. 0 \subseteq 1 .. t
  BY <1>3, MarketConstants DEF CycleInv
<1>6. \A s \in Stocks : /\ IsSeries(histories[s])
                        /\ DOMAIN histories[s] \subseteq 1 .. t
                        /\ Keeps(histories[s], bars[s])
  BY <1>5 DEF CycleInv, TypeOK, WorkerTypeOK
<1>7. AllHonest(features, t)
  BY <1>5 DEF CycleInv, AllHonest, Honest, LooksBack, StillStored
<1> QED
  BY <1>1, <1>2, <1>3, <1>4, <1>6, <1>7, CycleOnly, MarketConstants DEF TypeOK, WorkerTypeOK

LEMMA ReadHistoriesStep ==
  ASSUME IInv, ReadHistories, UNCHANGED <<dataVars, faults, cacheVars>>
  PROVE  IInv'
<1> USE DEF IInv, ReadHistories
<1>1. asOf \in Sessions \cap StoredSessions /\ asOf # 0 /\ asOf >= rank.asOf
  BY DEF CycleInv, TypeOK, WorkerTypeOK
<1>2. ASSUME NEW s \in Stocks
      PROVE  /\ IsSeries(histories'[s])
             /\ DOMAIN histories'[s] \subseteq 1 .. asOf
             /\ Keeps(histories'[s], bars[s])
  <2>1. histories'[s] = UpTo(asOf, bars[s])
    OBVIOUS
  <2>2. IsSeries(bars[s]) /\ asOf \in Nat
    BY <1>1, MarketConstants DEF TypeOK, DataTypeOK
  <2> QED BY <2>1, <2>2, UpToPart
<1>3. IsCrossSection(features) /\ AllHonest(features, asOf)
  BY DEF CycleInv, TypeOK, WorkerTypeOK
<1> QED BY <1>1, <1>2, <1>3, CycleOnly

LEMMA ReadBenchmarkStep ==
  ASSUME IInv, ReadBenchmark, UNCHANGED <<dataVars, faults, cacheVars>>
  PROVE  IInv'
<1> USE DEF IInv, ReadBenchmark
<1> DEFINE bench == UpTo(asOf, bars[Benchmark])
<1>1. asOf \in Sessions \cap StoredSessions /\ asOf # 0 /\ asOf >= rank.asOf /\ asOf \in Nat
  BY MarketConstants DEF CycleInv, TypeOK, WorkerTypeOK
<1>2. /\ IsSeries(bench)
      /\ DOMAIN bench \subseteq 1 .. asOf
      /\ Keeps(bench, bars[Benchmark])
  BY <1>1, UpToPart DEF TypeOK, DataTypeOK
<1>3. \A s \in Stocks : /\ IsSeries(NoHistories[s])
                        /\ DOMAIN NoHistories[s] \subseteq 1 .. asOf
                        /\ Keeps(NoHistories[s], bars[s])
  BY DEF NoHistories, IsSeries, Keeps
<1> HIDE DEF bench
<1>4. /\ DOMAIN features' \subseteq Stocks
      /\ \A s \in DOMAIN features' :
           features'[s] = [own |-> histories[s], bench |-> bench]
  BY DEF FeaturesOf, bench
<1> HIDE DEF IInv, ReadBenchmark
<1>5. ASSUME NEW s \in DOMAIN features'
      PROVE  /\ s \in Stocks /\ DOMAIN features'[s] = {"own", "bench"}
             /\ features'[s].own = histories[s] /\ features'[s].bench = bench
  <2>1. s \in Stocks /\ features'[s] = [own |-> histories[s], bench |-> bench]
    BY <1>4
  <2> QED BY <2>1
<1>6. IsCrossSection(features')
  BY <1>2, <1>4, <1>5 DEF IInv, IsCrossSection, IsSnapshot, TypeOK, WorkerTypeOK
<1>7. AllHonest(features', asOf)
  <2> SUFFICES ASSUME NEW s \in DOMAIN features'
               PROVE  Honest(s, features'[s], asOf)
    BY DEF AllHonest
  <2>1. s \in Stocks /\ features'[s].own = histories[s] /\ features'[s].bench = bench
    BY <1>5
  <2>2. DOMAIN histories[s] \subseteq 1 .. asOf /\ Keeps(histories[s], bars[s])
    BY <2>1 DEF IInv, CycleInv
  <2> QED BY <1>2, <2>1, <2>2 DEF Honest, LooksBack, StillStored
<1>8. DOMAIN NoHistories = Stocks
  BY DEF NoHistories
<1> QED BY <1>1, <1>3, <1>7, <1>8, <1>6, CycleOnly DEF ReadBenchmark

LEMMA SaveFeaturesStep ==
  ASSUME IInv, SaveFeatures, UNCHANGED <<dataVars, faults, cacheVars>>
  PROVE  IInv'
<1> DEFINE rows == [k \in (DOMAIN features) \X {asOf} |-> features[k[1]]]
<1>1. bars' = bars /\ asOf \in Sessions
  BY DEF IInv, CycleInv, TypeOK, WorkerTypeOK, SaveFeatures, dataVars
<1>2. /\ \A s, x, t : Honest(s, x, t)' <=> Honest(s, x, t)
      /\ \A x, t : AllHonest(x, t)' <=> AllHonest(x, t)
      /\ StoredSessions' = StoredSessions
  BY <1>1, HonestSame
<1>3. \A k \in DOMAIN rows :
        /\ k \in Stocks \X Sessions
        /\ IsSnapshot(rows[k]) /\ Honest(k[1], rows[k], k[2])
  BY <1>1 DEF IInv, CycleInv, TypeOK, WorkerTypeOK, IsCrossSection, AllHonest
<1>4. \A s \in DOMAIN features : <<s, asOf>> \in DOMAIN rows
  OBVIOUS
<1> HIDE DEF rows
<1>5. /\ DOMAIN featureRows' = DOMAIN featureRows \cup DOMAIN rows
      /\ Keeps(featureRows, featureRows')
      /\ \A k \in DOMAIN rows \ DOMAIN featureRows : featureRows'[k] = rows[k]
  <2>1. featureRows' = InsertNew(featureRows, rows)
    BY DEF SaveFeatures, rows
  <2>2. /\ DOMAIN InsertNew(featureRows, rows) = DOMAIN featureRows \cup DOMAIN rows
        /\ Keeps(featureRows, InsertNew(featureRows, rows))
        /\ \A k \in DOMAIN rows \ DOMAIN featureRows : InsertNew(featureRows, rows)[k] = rows[k]
    BY InsertKeeps
  <2> QED BY <2>1, <2>2 DEF Keeps
<1>6. \A k \in DOMAIN featureRows' :
        /\ k \in Stocks \X Sessions
        /\ IsSnapshot(featureRows'[k]) /\ Honest(k[1], featureRows'[k], k[2])
  BY <1>3, <1>5 DEF IInv, TableInv, TypeOK, WorkerTypeOK, Keeps
<1>7. TypeOK'
  BY <1>6, WorkerKeepsData
     DEF IInv, TypeOK, WorkerTypeOK, CacheTypeOK, SaveFeatures, cacheVars
<1>9. CycleInv'
  BY <1>1, <1>2, <1>4, <1>5 DEF IInv, CycleInv, SaveFeatures, cacheVars
<1>10. TableInv'
  BY <1>2, <1>5, <1>6 DEF IInv, TableInv, ScoreHasFeatures, SaveFeatures
<1>11. RankInv'
  BY <1>2 DEF IInv, RankInv, EntriesMatchRank, SaveFeatures, cacheVars
<1> QED BY <1>7, <1>9, <1>10, <1>11 DEF IInv

LEMMA SaveScoresStep ==
  ASSUME IInv, SaveScores, UNCHANGED <<dataVars, faults, cacheVars>>
  PROVE  IInv'
<1> DEFINE rows == [k \in (DOMAIN features) \X {asOf} |-> features]
<1>1. bars' = bars /\ asOf \in Sessions
  BY DEF IInv, CycleInv, TypeOK, WorkerTypeOK, SaveScores, dataVars
<1>2. /\ \A s, x, t : Honest(s, x, t)' <=> Honest(s, x, t)
      /\ \A x, t : AllHonest(x, t)' <=> AllHonest(x, t)
      /\ StoredSessions' = StoredSessions
  BY <1>1, HonestSame
<1>3. \A k \in DOMAIN rows :
        /\ k \in Stocks \X Sessions
        /\ IsCrossSection(rows[k]) /\ AllHonest(rows[k], k[2])
        /\ k \in DOMAIN featureRows
        /\ \A s \in DOMAIN rows[k] : <<s, k[2]>> \in DOMAIN featureRows
  <2> SUFFICES ASSUME NEW s \in DOMAIN features, NEW k, k = <<s, asOf>>
               PROVE  /\ k \in Stocks \X Sessions
                      /\ IsCrossSection(features) /\ AllHonest(features, k[2])
                      /\ k \in DOMAIN featureRows
                      /\ \A x \in DOMAIN features : <<x, k[2]>> \in DOMAIN featureRows
    OBVIOUS
  <2> QED
    BY <1>1 DEF IInv, CycleInv, TypeOK, WorkerTypeOK, IsCrossSection, SaveScores
<1>4. \A s \in DOMAIN features : <<s, asOf>> \in DOMAIN rows
  OBVIOUS
<1> HIDE DEF rows
<1>5. /\ DOMAIN scoreRows' = DOMAIN scoreRows \cup DOMAIN rows
      /\ Keeps(scoreRows, scoreRows')
      /\ \A k \in DOMAIN rows \ DOMAIN scoreRows : scoreRows'[k] = rows[k]
  <2>1. scoreRows' = InsertNew(scoreRows, rows)
    BY DEF SaveScores, rows
  <2>2. /\ DOMAIN InsertNew(scoreRows, rows) = DOMAIN scoreRows \cup DOMAIN rows
        /\ Keeps(scoreRows, InsertNew(scoreRows, rows))
        /\ \A k \in DOMAIN rows \ DOMAIN scoreRows : InsertNew(scoreRows, rows)[k] = rows[k]
    BY InsertKeeps
  <2> QED BY <2>1, <2>2 DEF Keeps
<1>6. \A k \in DOMAIN scoreRows' :
        /\ k \in Stocks \X Sessions
        /\ IsCrossSection(scoreRows'[k]) /\ AllHonest(scoreRows'[k], k[2])
        /\ k \in DOMAIN featureRows
        /\ \A s \in DOMAIN scoreRows'[k] : <<s, k[2]>> \in DOMAIN featureRows
  BY <1>3, <1>5 DEF IInv, TableInv, ScoreHasFeatures, TypeOK, WorkerTypeOK, Keeps
<1>7. TypeOK'
  BY <1>6, WorkerKeepsData
     DEF IInv, TypeOK, WorkerTypeOK, CacheTypeOK, SaveScores, cacheVars
<1>9. CycleInv'
  BY <1>1, <1>2, <1>4, <1>5 DEF IInv, CycleInv, SaveScores, cacheVars
<1>10. TableInv'
  BY <1>2, <1>6 DEF IInv, TableInv, ScoreHasFeatures, SaveScores
<1>11. RankInv'
  BY <1>2, <1>5 DEF IInv, RankInv, EntriesMatchRank, SaveScores, cacheVars
<1> QED BY <1>7, <1>9, <1>10, <1>11 DEF IInv

\* Dropping the cycle's variables and keeping the tables.
LEMMA EndCycleInv ==
  ASSUME IInv, EndCycle, UNCHANGED <<dataVars, faults>>, CacheTypeOK', RankInv'
  PROVE  IInv'
<1>1. bars' = bars
  BY DEF dataVars
<1>2. /\ \A s, x, t : Honest(s, x, t)' <=> Honest(s, x, t)
      /\ \A x, t : AllHonest(x, t)' <=> AllHonest(x, t)
  BY <1>1, HonestSame
<1>3. TypeOK'
  BY WorkerKeepsData
     DEF IInv, TypeOK, WorkerTypeOK, EndCycle, tableVars, IsCrossSection, NoHistories, IsSeries
<1>4. CycleInv'
  BY DEF EndCycle, CycleInv, AllHonest, NoHistories, Keeps
<1>5. TableInv'
  BY <1>2 DEF IInv, TableInv, ScoreHasFeatures, EndCycle, tableVars
<1> QED BY <1>3, <1>4, <1>5, WorkerKeepsData DEF IInv

LEMMA CycleFailsStep ==
  ASSUME IInv, CycleFails, UNCHANGED <<dataVars, faults>>
  PROVE  IInv'
<1>1. \A x, t : AllHonest(x, t)' <=> AllHonest(x, t)
  BY HonestSame DEF dataVars
<1>2. CacheTypeOK' /\ RankInv'
  BY <1>1, HonestSame
     DEF IInv, TypeOK, CacheTypeOK, CycleFails, EndCycle, cacheVars, tableVars, RankInv,
         EntriesMatchRank, dataVars
<1> QED BY <1>2, EndCycleInv DEF CycleFails

LEMMA PublishStep ==
  ASSUME IInv, Publish, UNCHANGED <<dataVars, faults>>
  PROVE  IInv'
<1> DEFINE p == [asOf |-> asOf, results |-> features]
<1>1. /\ \A x, t : AllHonest(x, t)' <=> AllHonest(x, t)
      /\ StoredSessions' = StoredSessions
  BY HonestSame DEF dataVars
<1>2. /\ asOf \in Sessions \cap StoredSessions /\ asOf >= rank.asOf
      /\ IsPublication(p) /\ p.asOf = asOf /\ p.results = features
      /\ AllHonest(features, asOf)
      /\ \A s \in DOMAIN features : s \in Stocks /\ <<s, asOf>> \in DOMAIN scoreRows
  BY DEF IInv, CycleInv, TypeOK, WorkerTypeOK, IsPublication, IsCrossSection, Publish
<1> HIDE DEF p
<1>3. PublishRank(p) /\ EndCycle /\ scoreRows' = scoreRows
  BY DEF Publish, EndCycle, tableVars, p
<1>4. CASE UNCHANGED cacheVars
  <2>1. CacheTypeOK' /\ RankInv'
    BY <1>1, <1>3, <1>4
       DEF IInv, TypeOK, CacheTypeOK, cacheVars, RankInv, EntriesMatchRank
  <2> QED BY <1>3, <2>1, EndCycleInv
<1>5. CASE /\ rank' = p
           /\ latest' = [s \in DOMAIN latest \cup DOMAIN features |->
                           IF s \in DOMAIN features THEN p ELSE latest[s]]
           /\ asked' = asked
  <2>1. /\ DOMAIN latest' = DOMAIN latest \cup DOMAIN features
        /\ \A s \in DOMAIN features : latest'[s] = p
        /\ \A s \in DOMAIN latest \ DOMAIN features : latest'[s] = latest[s]
    BY <1>5
  <2>2. CacheTypeOK'
    BY <1>2, <1>5, <2>1 DEF IInv, TypeOK, CacheTypeOK
  <2>3. rank.asOf \in Int /\ asOf \in Int /\ \A s \in DOMAIN latest : latest[s].asOf \in Int
    BY <1>2, MarketConstants DEF IInv, TypeOK, CacheTypeOK, IsPublication, Nothing
  <2>4. \A s \in DOMAIN latest' :
          /\ latest'[s].asOf <= asOf
          /\ AllHonest(latest'[s].results, latest'[s].asOf)
          /\ <<s, latest'[s].asOf>> \in DOMAIN scoreRows
    <3> SUFFICES ASSUME NEW s \in DOMAIN latest'
                 PROVE  /\ latest'[s].asOf <= asOf
                        /\ AllHonest(latest'[s].results, latest'[s].asOf)
                        /\ <<s, latest'[s].asOf>> \in DOMAIN scoreRows
      OBVIOUS
    <3>1. CASE s \in DOMAIN features
      BY <1>2, <2>1, <2>3, <3>1
    <3>2. CASE s \in DOMAIN latest \ DOMAIN features
      BY <1>2, <2>1, <2>3, <3>2 DEF IInv, RankInv, EntriesMatchRank
    <3> QED BY <2>1, <3>1, <3>2
  <2>5. \A s \in DOMAIN rank'.results : s \in DOMAIN latest' /\ latest'[s].asOf >= rank'.asOf
    BY <1>2, <1>5, <2>1, <2>3
  <2>6. \A s \in DOMAIN asked.results : s \in DOMAIN latest' /\ latest'[s].asOf >= asked.asOf
    <3> SUFFICES ASSUME NEW s \in DOMAIN asked.results
                 PROVE  s \in DOMAIN latest' /\ latest'[s].asOf >= asked.asOf
      OBVIOUS
    <3>1. s \in DOMAIN latest /\ latest[s].asOf >= asked.asOf /\ latest[s].asOf <= rank.asOf
      BY DEF IInv, RankInv, EntriesMatchRank
    <3>2. asked.asOf \in Int
      BY MarketConstants DEF IInv, TypeOK, CacheTypeOK, IsPublication, Nothing
    <3> QED BY <1>2, <2>1, <2>3, <3>1, <3>2
  <2>7. RankInv'
    BY <1>1, <1>2, <1>3, <1>5, <2>4, <2>5, <2>6 DEF RankInv, EntriesMatchRank
  <2> QED BY <1>3, <2>2, <2>7, EndCycleInv
<1> QED BY <1>2, <1>3, <1>4, <1>5 DEF PublishRank, cacheVars

LEMMA QueryStep ==
  ASSUME IInv, Query, UNCHANGED <<dataVars, faults>>
  PROVE  IInv'
<1> USE DEF IInv, workerVars, cycleVars, tableVars
<1>1. /\ bars' = bars /\ rank' = rank /\ latest' = latest
      /\ asked' = rank \/ asked' = Nothing
      /\ UNCHANGED workerVars
  BY DEF Query, ReadRank, ReadEntries, dataVars
<1>2. /\ \A s, x, t : Honest(s, x, t)' <=> Honest(s, x, t)
      /\ \A x, t : AllHonest(x, t)' <=> AllHonest(x, t)
      /\ StoredSessions' = StoredSessions
  BY <1>1, HonestSame
<1>3. TypeOK'
  BY <1>1, WorkerKeepsData DEF TypeOK, WorkerTypeOK, CacheTypeOK
<1>4. CycleInv'
  BY <1>1, <1>2 DEF CycleInv
<1>5. TableInv'
  BY <1>1, <1>2 DEF TableInv, ScoreHasFeatures
<1>6. RankInv'
  BY <1>1, <1>2 DEF RankInv, EntriesMatchRank, Nothing
<1> QED BY <1>3, <1>4, <1>5, <1>6, WorkerKeepsData

LEMMA StutterInv ==
  ASSUME IInv, UNCHANGED <<dataVars, workerVars, cacheVars>>, faults' \in BOOLEAN
  PROVE  IInv'
<1> USE DEF IInv, workerVars, cycleVars, tableVars, cacheVars
<1>1. /\ \A s, x, t : Honest(s, x, t)' <=> Honest(s, x, t)
      /\ \A x, t : AllHonest(x, t)' <=> AllHonest(x, t)
      /\ StoredSessions' = StoredSessions
  BY HonestSame DEF dataVars
<1>2. TypeOK'
  BY WorkerKeepsData DEF TypeOK, WorkerTypeOK, CacheTypeOK
<1>3. CycleInv'
  BY <1>1 DEF CycleInv, dataVars
<1>4. TableInv'
  BY <1>1 DEF TableInv, ScoreHasFeatures
<1>5. RankInv'
  BY <1>1 DEF RankInv, EntriesMatchRank
<1> QED BY <1>2, <1>3, <1>4, <1>5, WorkerKeepsData

\* IInv is inductive.
LEMMA Inductive ==
  ASSUME IInv, [Next]_vars
  PROVE  IInv'
<1>1. CASE DataNext /\ UNCHANGED <<workerVars, cacheVars, faults>>
  BY <1>1, DataStepInv
<1>2. CASE CycleRuns
  <2>7. CASE NoBarsYet /\ UNCHANGED cacheVars
    BY <1>2, <2>7, StutterInv DEF CycleRuns, NoBarsYet, IInv, TypeOK
  <2>1. CASE StartCycle /\ UNCHANGED cacheVars
    BY <1>2, <2>1, StartCycleStep DEF CycleRuns
  <2>2. CASE ReadHistories /\ UNCHANGED cacheVars
    BY <1>2, <2>2, ReadHistoriesStep DEF CycleRuns
  <2>3. CASE ReadBenchmark /\ UNCHANGED cacheVars
    BY <1>2, <2>3, ReadBenchmarkStep DEF CycleRuns
  <2>4. CASE SaveFeatures /\ UNCHANGED cacheVars
    BY <1>2, <2>4, SaveFeaturesStep DEF CycleRuns
  <2>5. CASE SaveScores /\ UNCHANGED cacheVars
    BY <1>2, <2>5, SaveScoresStep DEF CycleRuns
  <2>6. CASE Publish
    BY <1>2, <2>6, PublishStep DEF CycleRuns
  <2> QED BY <1>2, <2>1, <2>2, <2>3, <2>4, <2>5, <2>6, <2>7 DEF CycleRuns, CycleStep
<1>3. CASE faults /\ CycleFails /\ UNCHANGED <<dataVars, faults>>
  BY <1>3, CycleFailsStep
<1>4. CASE Query /\ UNCHANGED <<dataVars, faults>>
  BY <1>4, QueryStep
<1>5. CASE FaultsEnd
  BY <1>5, StutterInv DEF FaultsEnd
<1>6. CASE UNCHANGED vars
  BY <1>6, StutterInv DEF vars, IInv, TypeOK
<1> QED BY <1>1, <1>2, <1>3, <1>4, <1>5, <1>6 DEF Next

-----------------------------------------------------------------------------
\* IInv holds throughout; the theorems below read their properties off it.
THEOREM Invariance == Spec => []IInv
BY Initially, Inductive, PTL DEF Spec

\* Every variable of the market pipeline always holds a value of its kind.
THEOREM TypeCorrect == Spec => []TypeOK
<1>1. IInv => TypeOK
  BY DEF IInv
<1> QED BY <1>1, Invariance, PTL

\* Nothing stored or published for a session was computed from a later bar.
THEOREM NothingLooksAhead == Spec => []NoLookAhead
<1>1. IInv => NoLookAhead
  BY DEF IInv, TableInv, RankInv, AllHonest, Honest, EverySnapshot, NoLookAhead
<1> QED BY <1>1, Invariance, PTL

\* The bars behind every stored or published number are in market_bar for good.
THEOREM InputsAreKept == Spec => []InputsStillStored
<1>1. IInv => InputsStillStored
  BY DEF IInv, TableInv, RankInv, AllHonest, Honest, EverySnapshot, InputsStillStored
<1> QED BY <1>1, Invariance, PTL

\* Every stored score has the features of its whole cross-section on record.
THEOREM ScoresHaveFeatures == Spec => []ScoreHasFeatures
<1>1. IInv => ScoreHasFeatures
  BY DEF IInv, TableInv
<1> QED BY <1>1, Invariance, PTL

\* A reader of the ranking finds entries that are no older and have stored scores.
THEOREM EntriesFollowRank == Spec => []EntriesMatchRank
<1>1. IInv => EntriesMatchRank
  BY DEF IInv, RankInv
<1> QED BY <1>1, Invariance, PTL

\* Ranks and entries only move forward in time.
THEOREM RanksMoveForward == Spec => RankNeverGoesBack
<1> DEFINE Forward == /\ rank'.asOf >= rank.asOf
                      /\ \A s \in DOMAIN latest \cap DOMAIN latest' :
                           latest'[s].asOf >= latest[s].asOf
<1>1. ASSUME IInv, [Next]_vars PROVE Forward \/ UNCHANGED vars
  <2>1. /\ rank.asOf \in Int /\ asOf \in Int
        /\ \A s \in DOMAIN latest : latest[s].asOf \in Int /\ latest[s].asOf <= rank.asOf
    BY <1>1, MarketConstants
       DEF IInv, TypeOK, WorkerTypeOK, CacheTypeOK, IsPublication, Nothing, RankInv
  <2>2. CASE rank' = rank /\ latest' = latest
    BY <2>1, <2>2
  <2>3. CASE Publish /\ ~UNCHANGED cacheVars
    <3>1. asOf >= rank.asOf
      BY <1>1, <2>3 DEF IInv, CycleInv, Publish
    <3>2. /\ rank'.asOf = asOf
          /\ \A s \in DOMAIN latest : latest'[s].asOf = asOf \/ latest'[s] = latest[s]
      BY <2>3 DEF Publish, PublishRank
    <3> QED BY <2>1, <3>1, <3>2
  <2>4. (rank' = rank /\ latest' = latest) \/ (Publish /\ ~UNCHANGED cacheVars)
    BY <1>1 DEF Next, CycleRuns, CycleStep, CycleFails, Query, ReadRank, ReadEntries,
                FaultsEnd, cacheVars, vars
  <2> QED BY <2>2, <2>3, <2>4
<1> QED BY <1>1, Invariance, PTL DEF Spec, RankNeverGoesBack

=============================================================================
