---------------------------- MODULE MarketSystem -----------------------------
(***************************************************************************)
(* The market pipeline as deployed: the market, the jobs that load bars,   *)
(* the worker that scores them and publishes ranks, and a reader of the    *)
(* ranks (scan_trending_stocks).                                           *)
(***************************************************************************)
EXTENDS TrendWorker

VARIABLE faults  \* whether queries and inserts of the worker may still fail

vars == <<dataVars, workerVars, cacheVars, faults>>

Init == DataInit /\ WorkerInit /\ CacheInit /\ faults = TRUE

CycleRuns == CycleStep /\ UNCHANGED <<dataVars, faults>>

FaultsEnd == faults /\ faults' = FALSE /\ UNCHANGED <<dataVars, workerVars, cacheVars>>

Next ==
  \/ DataNext /\ UNCHANGED <<workerVars, cacheVars, faults>>
  \/ CycleRuns
  \/ faults /\ CycleFails /\ UNCHANGED <<dataVars, faults>>
  \/ Query /\ UNCHANGED <<dataVars, faults>>
  \/ FaultsEnd

Spec == Init /\ [][Next]_vars

\* The worker's loop never ends: each cycle runs on and another one follows.
FairSpec == Spec /\ WF_vars(CycleRuns)

-----------------------------------------------------------------------------
\* Every variable holds a value of its kind.
TypeOK == DataTypeOK /\ WorkerTypeOK /\ CacheTypeOK /\ faults \in BOOLEAN

\* P(s, snapshot, t) for the features of s behind every stored row and every
\* published result of a session t.
EverySnapshot(P(_, _, _)) ==
  /\ \A k \in DOMAIN featureRows : P(k[1], featureRows[k], k[2])
  /\ \A k \in DOMAIN scoreRows : \A s \in DOMAIN scoreRows[k] :
       P(s, scoreRows[k][s], k[2])
  /\ \A s \in DOMAIN latest : \A x \in DOMAIN latest[s].results :
       P(x, latest[s].results[x], latest[s].asOf)

\* Features, scores and ranks of a session use no bar of a later one, although
\* a load may insert later bars between the worker's queries ("backtests stay
\* honest", 0001_initial.sql; get_daily_history's ts <= as_of).
LooksBack(s, snapshot, t) ==
  DOMAIN snapshot.own \subseteq 1 .. t /\ DOMAIN snapshot.bench \subseteq 1 .. t

NoLookAhead == EverySnapshot(LooksBack)

\* The table or series `later` still holds everything in `earlier`.
Keeps(earlier, later) ==
  /\ DOMAIN earlier \subseteq DOMAIN later
  /\ \A u \in DOMAIN earlier : later[u] = earlier[u]

\* What a stored or published number was computed from is still in market_bar,
\* bar by bar, whatever was loaded since ("never overwritten", 0001_initial.sql).
StillStored(s, snapshot, t) ==
  Keeps(snapshot.own, bars[s]) /\ Keeps(snapshot.bench, bars[Benchmark])

InputsStillStored == EverySnapshot(StillStored)

\* A stored score has the features of its symbol and of every symbol it was
\* compared with on record, also when the cycle stopped half-way ("Persist
\* feature inputs first", TrendService.scan).
ScoreHasFeatures ==
  \A k \in DOMAIN scoreRows :
    /\ k \in DOMAIN featureRows
    /\ \A s \in DOMAIN scoreRows[k] : <<s, k[2]>> \in DOMAIN featureRows

\* Whoever reads the ranking finds an entry for each symbol on it, never older
\* than the ranking, although the worker publishes between the two reads, and
\* each entry has a stored score (top's ZREVRANGE and MGET).
EntriesMatchRank ==
  /\ \A s \in DOMAIN asked.results :
       s \in DOMAIN latest /\ latest[s].asOf >= asked.asOf
  /\ \A s \in DOMAIN latest : <<s, latest[s].asOf>> \in DOMAIN scoreRows

\* Ranks and entries never go back to an earlier session, across failed cycles
\* and restarts (latest_bar_ts and publish).
RankNeverGoesBack ==
  [][/\ rank'.asOf >= rank.asOf
     /\ \A s \in DOMAIN latest \cap DOMAIN latest' : latest'[s].asOf >= latest[s].asOf]_vars

\* Features of s for session t as every property wants them.
Honest(s, snapshot, t) ==
  /\ LooksBack(s, snapshot, t)
  /\ StillStored(s, snapshot, t)

AllHonest(crossSection, t) ==
  \A s \in DOMAIN crossSection : Honest(s, crossSection[s], t)

CycleInv ==
  /\ pc = "idle" <=> asOf = 0
  /\ pc # "idle" => asOf \in StoredSessions /\ asOf >= rank.asOf
  /\ \A s \in Stocks :
       DOMAIN histories[s] \subseteq 1 .. asOf /\ Keeps(histories[s], bars[s])
  /\ AllHonest(features, asOf)
  /\ pc \in {"save_scores", "publish"} =>
       \A s \in DOMAIN features : <<s, asOf>> \in DOMAIN featureRows
  /\ pc = "publish" => \A s \in DOMAIN features : <<s, asOf>> \in DOMAIN scoreRows

TableInv ==
  /\ \A k \in DOMAIN featureRows : Honest(k[1], featureRows[k], k[2])
  /\ \A k \in DOMAIN scoreRows : AllHonest(scoreRows[k], k[2])
  /\ ScoreHasFeatures

RankInv ==
  /\ rank = Nothing \/ rank.asOf \in StoredSessions
  /\ \A s \in DOMAIN latest :
       latest[s].asOf <= rank.asOf /\ AllHonest(latest[s].results, latest[s].asOf)
  /\ \A s \in DOMAIN rank.results : s \in DOMAIN latest /\ latest[s].asOf >= rank.asOf
  /\ EntriesMatchRank

\* The inductive invariant behind the theorems of MarketSystemProofs.
IInv == TypeOK /\ CycleInv /\ TableInv /\ RankInv

\* The ranking is what scoring all stored bars gives.
RankIsCurrent ==
  \A t \in Newest(StoredSessions) :
    LET all == FeaturesOf(bars, bars[Benchmark])
    IN  DOMAIN all # {} => rank = [asOf |-> t, results |-> all]

\* When cycles stop failing, the ranking catches up with the stored bars, also
\* when it was first made from a load that was half done (MarketWorker.run).
RankCatchesUp == <>~faults => <>[]RankIsCurrent

\* "Persist feature inputs first so every stored score is reconstructable."
\* (TrendService.scan): scoring the stored features of a session gives the
\* stored scores.
StoredFeatures(t) ==
  [s \in {x \in Stocks : <<x, t>> \in DOMAIN featureRows} |-> featureRows[<<s, t>>]]

Reconstructable == \A k \in DOMAIN scoreRows : scoreRows[k] = StoredFeatures(k[2])

\* "Ingests provider-adjusted bars" (backfill.py): the bars of a symbol are
\* adjusted for the same splits, so that returns between them mean something.
OneAdjustmentBasis ==
  \A s \in Symbols : \A t, u \in DOMAIN bars[s] : bars[s][t] = bars[s][u]

=============================================================================
