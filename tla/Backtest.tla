------------------------------ MODULE Backtest -------------------------------
(***************************************************************************)
(* The walk-forward backtest of the trend score (backtest/, over the       *)
(* in-memory bar repository): rebalance dates, scores from the bars up to  *)
(* each, returns after it, buckets and their statistics.                   *)
(*                                                                         *)
(* A history maps dates, which are numbers of days, to bars.  Returns are  *)
(* in percent, means are cut to integers, a rank correlation is the        *)
(* triple of covariance and variances of the doubled ranks.                *)
(***************************************************************************)
EXTENDS TrendScan

DatesOf(history) == Sorted(DOMAIN history, LAMBDA c, d : c < d)

\* get_daily_history: the last lookback bars up to the date.
TapeAsOf(history, date, lookback) ==
  LET dates == LastOf(DatesOf(Restrict(history, {d \in DOMAIN history : d <= date})), lookback)
  IN  Tape([i \in 1 .. Len(dates) |-> history[dates[i]]],
           IF dates = << >> THEN 0 ELSE date - Last(dates))

\* The symbol's bars `horizon` bars after the last one up to the date.
ForwardReturn(history, date, horizon) ==
  LET dates == DatesOf(history)
      i == Cardinality({d \in DOMAIN history : d <= date})
  IN  IF i = 0 \/ i + horizon > Len(dates) THEN None
      ELSE PctChange(history[dates[i + horizon]].close, history[dates[i]].close)

\* Python's q[first : last], where a negative last counts from the end.
PythonSlice(q, first, last) ==
  SubSeq(q, first + 1, IF last < 0 THEN Len(q) + last ELSE Min({last, Len(q)}))

EveryOf(q, every) == [k \in 1 .. (Len(q) + every - 1) \div every |-> q[(k - 1) * every + 1]]

RebalanceDates(histories, benchmark, every, warmup, horizon) ==
  LET days == IF DOMAIN benchmark # {} THEN DOMAIN benchmark
              ELSE UNION {DOMAIN histories[s] : s \in DOMAIN histories}
      calendar == Sorted(days, LAMBDA c, d : c < d)
  IN  EveryOf(PythonSlice(calendar, warmup, Len(calendar) - horizon), every)

ScoresOf(results) ==
  [s \in {results[i].symbol : i \in DOMAIN results} |->
     (CHOOSE r \in Range(results) : r.symbol = s).score]

\* trend_score_fn: the scan of the whole universe on that date.
TrendScores(histories, benchmark, date) ==
  LET lookback == 180
      tapes == [s \in DOMAIN histories |-> TapeAsOf(histories[s], date, lookback)]
  IN  ScoresOf(Scan(tapes, TapeAsOf(benchmark, date, lookback).bars, 0, Cardinality(DOMAIN tapes)))

\* Doubled 1-based ranks, ties sharing their average.
DoubledRank(v, s) ==
  2 * Cardinality({t \in DOMAIN v : v[t] < v[s]}) + Cardinality({t \in DOMAIN v : v[t] = v[s]}) + 1

Spearman(x, y) ==
  LET S == DOMAIN x
      rx == [s \in S |-> DoubledRank(x, s)]
      ry == [s \in S |-> DoubledRank(y, s)]
      Cov(a, b) == MapThenSumSet(LAMBDA s : Deviation(a, S, s) * Deviation(b, S, s), S)
  IN  IF Cardinality(S) < 2 \/ Cov(rx, rx) = 0 \/ Cov(ry, ry) = 0 THEN None
      ELSE <<Cov(rx, ry), Cov(rx, rx), Cov(ry, ry)>>

\* Equal-count quantiles by (score, symbol), 0 the lowest.
AssignBuckets(score, n) ==
  LET Place(s) == Cardinality({t \in DOMAIN score :
                                 score[t] < score[s] \/ (score[t] = score[s] /\ t < s)})
  IN  [s \in DOMAIN score |-> Min({n - 1, (Place(s) * n) \div Cardinality(DOMAIN score)})]

MeanOf(values) ==
  IF DOMAIN values = {} THEN 0
  ELSE Total(values, DOMAIN values) \div Cardinality(DOMAIN values)

\* Mutant: the return to the last bar when there is no later one.
ForwardReturnsClamped(histories, scores, date, horizon) ==
  LET Room(s) == Cardinality({d \in DOMAIN histories[s] : d > date})
      all == [s \in DOMAIN scores |-> ForwardReturn(histories[s], date, Min({horizon, Room(s)}))]
  IN  Restrict(all, Present(all))

\* The symbols scored on the date that have a return after it.
ForwardReturns(histories, scores, date, horizon) ==
  LET all == [s \in DOMAIN scores |-> ForwardReturn(histories[s], date, horizon)]
  IN  Restrict(all, Present(all))

Rebalance(date, score, returns, n) ==
  LET bucket == AssignBuckets(score, n)
      Names(b) == {s \in DOMAIN bucket : bucket[s] = b}
      stats == [b \in 0 .. n - 1 |->
                  [count |-> Cardinality(Names(b)),
                   mean |-> MeanOf(Restrict(returns, Names(b)))]]
  IN  [date |-> date, scores |-> score, buckets |-> stats, bucket |-> bucket,
       top_minus_bottom |-> stats[n - 1].mean - stats[0].mean,
       rank_ic |-> Spearman(score, returns), top |-> Names(n - 1)]

\* None when there are fewer returns than buckets.
RebalanceIfEnough(date, scores, returns, n) ==
  IF Cardinality(DOMAIN returns) < n THEN None
  ELSE Rebalance(date, Restrict(scores, DOMAIN returns), returns, n)

RebalanceOn(histories, date, scores, horizon, n) ==
  RebalanceIfEnough(date, scores, ForwardReturns(histories, scores, date, horizon), n)

Rebalances(histories, benchmark, every, warmup, horizon, n) ==
  LET dates == RebalanceDates(histories, benchmark, every, warmup, horizon)
      rounds == [k \in DOMAIN dates |->
        RebalanceOn(histories, dates[k], TrendScores(histories, benchmark, dates[k]), horizon, n)]
  IN  Kept(rounds, Present(rounds))

\* The share of the top bucket that was not in the one before.
Turnover(r, previous) ==
  (100 * Cardinality(r.top \ previous.top)) \div Cardinality(r.top)

\* Without the mean rank correlation and the coverage.
Summary(rounds, n) ==
  LET I == DOMAIN rounds
      OrNone(values) == IF DOMAIN values = {} THEN None ELSE MeanOf(values)
  IN  [rebalances |-> rounds,
       bucket_means |-> [b \in 0 .. n - 1 |->
                           MeanOf([i \in I |-> rounds[i].buckets[b].mean])],
       top_minus_bottom |-> OrNone([i \in I |-> rounds[i].top_minus_bottom]),
       hit_rate |-> OrNone([i \in I |-> IF rounds[i].top_minus_bottom > 0 THEN 100 ELSE 0]),
       turnover |-> OrNone([i \in I \ {1} |-> Turnover(rounds[i], rounds[i - 1])])]

Report(histories, benchmark, every, warmup, horizon, n) ==
  Summary(Rebalances(histories, benchmark, every, warmup, horizon, n), n)

=============================================================================
