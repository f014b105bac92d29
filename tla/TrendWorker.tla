----------------------------- MODULE TrendWorker -----------------------------
(***************************************************************************)
(* The market worker's trend cycle: MarketWorker.run, run_scoring_cycle    *)
(* and TrendService.scan, one action per query, insert or publication.     *)
(*                                                                         *)
(* Numbers are abstracted to what they were computed from: the features of *)
(* a symbol are the series they summarise, and a score, being relative to  *)
(* the other eligible symbols, is the features of all of them.             *)
(***************************************************************************)
EXTENDS MarketData, RankCache, FiniteSets

CONSTANTS
  MinHistory,  \* min_history_days
  Investable   \* Investable[s]: the sessions at whose close s passes the price and volume gates

ASSUME WorkerConstants ==
  /\ MinHistory \in Nat \ {0}
  /\ Investable \in [Stocks -> SUBSET Sessions]

VARIABLES
  pc,           \* what the worker does next
  asOf,         \* the session being scored
  histories,    \* the series the scan has read
  features,     \* the features of the eligible symbols
  featureRows,  \* feature_snapshot: (symbol, session) -> features
  scoreRows     \* trend_score: (symbol, session) -> what it was scored from

cycleVars == <<pc, asOf, histories, features>>
tableVars == <<featureRows, scoreRows>>
workerVars == <<cycleVars, tableVars>>

NoHistories == [s \in Stocks |-> << >>]

WorkerInit ==
  /\ pc = "idle" /\ asOf = 0 /\ histories = NoHistories /\ features = << >>
  /\ featureRows = << >>
  /\ scoreRows = << >>

Newest(T) == {t \in T : \A u \in T : u <= t}
StoredSessions == UNION {DOMAIN bars[s] : s \in Symbols}

\* Mutant: the newest bar of some symbol.
StartCycleAtSomeSymbol ==
  /\ pc = "idle"
  /\ \E s \in Symbols : \E t \in Newest(DOMAIN bars[s]) : asOf' = t
  /\ pc' = "histories"
  /\ UNCHANGED <<histories, features, tableVars>>

\* Without bars there is nothing to score, and the worker waits.
NoBarsYet ==
  /\ pc = "idle"
  /\ StoredSessions = {}
  /\ UNCHANGED workerVars

\* latest_bar_ts.
StartCycle ==
  /\ pc = "idle"
  /\ \E t \in Newest(StoredSessions) : asOf' = t
  /\ pc' = "histories"
  /\ UNCHANGED <<histories, features, tableVars>>

\* ts <= as_of.
UpTo(t, series) == Restrict(series, {u \in DOMAIN series : u <= t})

\* Mutant: no upper bound on ts.
ReadHistoriesUnbounded ==
  /\ pc = "histories"
  /\ histories' = [s \in Stocks |-> bars[s]]
  /\ pc' = "benchmark"
  /\ UNCHANGED <<asOf, features, tableVars>>

\* The universe leaves out the benchmark, which a second query reads.
ReadHistories ==
  /\ pc = "histories"
  /\ histories' = [s \in Stocks |-> UpTo(asOf, bars[s])]
  /\ pc' = "benchmark"
  /\ UNCHANGED <<asOf, features, tableVars>>

\* The gates look at how many bars there are and at the last of them, however
\* old it is.
Eligible(s, own) ==
  /\ Cardinality(DOMAIN own) >= MinHistory
  /\ Newest(DOMAIN own) \subseteq Investable[s]

FeaturesOf(own, bench) ==
  [s \in {x \in Stocks : Eligible(x, own[x])} |-> [own |-> own[s], bench |-> bench]]

\* Mutant: the benchmark is scored like a stock.
ReadBenchmarkAsStock ==
  /\ pc = "benchmark"
  /\ LET bench == UpTo(asOf, bars[Benchmark])
     IN  features' = InsertNew(FeaturesOf(histories, bench),
                       [s \in {Benchmark} |-> [own |-> bench, bench |-> bench]])
  /\ histories' = NoHistories
  /\ pc' = "save_features"
  /\ UNCHANGED <<asOf, tableVars>>

ReadBenchmark ==
  /\ pc = "benchmark"
  /\ features' = FeaturesOf(histories, UpTo(asOf, bars[Benchmark]))
  /\ histories' = NoHistories
  /\ pc' = "save_features"
  /\ UNCHANGED <<asOf, tableVars>>

\* Mutant: a failed insert is logged and passed over.
SaveFeaturesBestEffort ==
  /\ pc = "save_features"
  /\ featureRows' \in
       {featureRows,
        InsertNew(featureRows, [k \in (DOMAIN features) \X {asOf} |-> features[k[1]]])}
  /\ pc' = "save_scores"
  /\ UNCHANGED <<asOf, histories, features, scoreRows>>

SaveFeatures ==
  /\ pc = "save_features"
  /\ featureRows' = InsertNew(featureRows,
                      [k \in (DOMAIN features) \X {asOf} |-> features[k[1]]])
  /\ pc' = "save_scores"
  /\ UNCHANGED <<asOf, histories, features, scoreRows>>

SaveScores ==
  /\ pc = "save_scores"
  /\ scoreRows' = InsertNew(scoreRows, [k \in (DOMAIN features) \X {asOf} |-> features])
  /\ pc' = "publish"
  /\ UNCHANGED <<asOf, histories, features, featureRows>>

EndCycle ==
  /\ pc' = "idle" /\ asOf' = 0 /\ histories' = NoHistories /\ features' = << >>
  /\ UNCHANGED tableVars

Publish ==
  /\ pc = "publish"
  /\ PublishRank([asOf |-> asOf, results |-> features])
  /\ EndCycle

\* A query raises and the worker waits for the next cycle, or it is restarted.
CycleFails ==
  /\ pc # "idle"
  /\ EndCycle
  /\ UNCHANGED cacheVars

CycleStep ==
  \/ /\ NoBarsYet \/ StartCycle \/ ReadHistories \/ ReadBenchmark \/ SaveFeatures \/ SaveScores
     /\ UNCHANGED cacheVars
  \/ Publish

Query == (ReadRank \/ ReadEntries) /\ UNCHANGED workerVars

IsSnapshot(x) ==
  DOMAIN x = {"own", "bench"} /\ IsSeries(x.own) /\ IsSeries(x.bench)

IsCrossSection(x) ==
  DOMAIN x \subseteq Stocks /\ \A s \in DOMAIN x : IsSnapshot(x[s])

IsPublication(x) ==
  /\ DOMAIN x = {"asOf", "results"}
  /\ x.asOf \in Sessions
  /\ IsCrossSection(x.results)

CacheTypeOK ==
  /\ rank = Nothing \/ IsPublication(rank)
  /\ asked = Nothing \/ IsPublication(asked)
  /\ DOMAIN latest \subseteq Stocks /\ \A s \in DOMAIN latest : IsPublication(latest[s])

WorkerTypeOK ==
  /\ pc \in {"idle", "histories", "benchmark", "save_features", "save_scores", "publish"}
  /\ asOf \in Sessions \cup {0}
  /\ DOMAIN histories = Stocks /\ \A s \in Stocks : IsSeries(histories[s])
  /\ IsCrossSection(features)
  /\ DOMAIN featureRows \subseteq Stocks \X Sessions
  /\ \A k \in DOMAIN featureRows : IsSnapshot(featureRows[k])
  /\ DOMAIN scoreRows \subseteq Stocks \X Sessions
  /\ \A k \in DOMAIN scoreRows : IsCrossSection(scoreRows[k])

=============================================================================
