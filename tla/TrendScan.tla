------------------------------ MODULE TrendScan ------------------------------
(***************************************************************************)
(* The trend scan over given histories: compute_features, evaluate_gates,  *)
(* score_universe and TrendService.scan                                    *)
(* (domain/features, domain/trend).  TrendWorker has the scan's queries    *)
(* and writes.                                                             *)
(*                                                                         *)
(* A tape is a symbol's history up to as_of: its bars and the age of the   *)
(* last one in days.  Returns are in percent and other fractions in        *)
(* hundredths, cut to integers; the squashed score is represented by the   *)
(* weighted sum it increases with.                                         *)
(***************************************************************************)
EXTENDS CrossSection, TLC

CONSTANTS
  MinHistoryDays, MinPrice, MinDollarVolume  \* TrendGateConfig

Bar(open, close, volume) == [open |-> open, close |-> close, volume |-> volume]
Tape(bars, age) == [bars |-> bars, age |-> age]

FirstOf(seq, n) == SubSeq(seq, 1, Min({n, Len(seq)}))
LastOf(seq, n) == SubSeq(seq, IF Len(seq) > n THEN Len(seq) - n + 1 ELSE 1, Len(seq))
Clamp(x, low, high) == Max({low, Min({x, high})})

PctChange(newer, older) == IF older = 0 THEN None ELSE (100 * (newer - older)) \div older

\* The change over the last `days` bars.
Return(bars, days) ==
  LET n == Len(bars)
  IN  IF n > days THEN PctChange(bars[n].close, bars[n - days].close) ELSE None

\* Twice the median.
TwiceMedian(values) ==
  LET sorted == SortSeq(values, <)
      n == Len(sorted)
  IN  sorted[(n + 1) \div 2] + sorted[n \div 2 + 1]

DollarVolumes(bars) == [i \in 1 .. Len(bars) |-> bars[i].close * bars[i].volume]

\* The volumes the latest one is compared with: the trading days among the 20 before it.
Baseline(bars) ==
  LET before == LastOf(Front(bars), 20)
  IN  SelectSeq([i \in 1 .. Len(before) |-> before[i].volume], LAMBDA v : v > 0)

\* In tenths.
VolumeRatio(bars) ==
  IF Baseline(bars) = << >> THEN None
  ELSE (20 * Last(bars).volume) \div TwiceMedian(Baseline(bars))

DailyReturns(bars) ==
  SelectSeq([i \in 1 .. Len(bars) - 1 |-> PctChange(bars[i + 1].close, bars[i].close)],
            LAMBDA r : r # None)

\* The square of the standard deviation of the last 20 daily returns.
RealizedVariance(bars) ==
  LET r == LastOf(DailyReturns(bars), 20)
  IN  IF Len(r) < 2 THEN None
      ELSE Spread(r, DOMAIN r) \div Square(Len(r))

Minus(x, y) == IF x = None \/ y = None THEN None ELSE x - y

FreshnessFactor(age) ==
  IF age <= 1 THEN 100 ELSE IF age >= 10 THEN 40 ELSE 100 - (60 * (age - 1)) \div 9

BaselineFactor(bars) ==
  IF VolumeRatio(bars) = None THEN 100 ELSE Clamp(5 * Len(Baseline(bars)), 60, 100)

FeaturesWithBars(bars, age, bench) ==
  LET return1d == Return(bars, 1)
      return5d == Return(bars, 5)
      intraday == PctChange(Last(bars).close, Last(bars).open)
      strength == Minus(return1d, Return(bench, 1))
      ratio == VolumeRatio(bars)
      factors == <<return1d, return5d, intraday, strength, ratio>>
      completeness == 20 * Cardinality({i \in 1 .. 5 : factors[i] # None})
      history == Clamp((100 * Len(bars)) \div 120, 50, 100)
      benchmark == IF Return(bench, 1) = None THEN 70 ELSE 100
      Percent(x, y) == (x * y) \div 100
  IN  [n_days |-> Len(bars), last_price |-> Last(bars).close,
       dollar_volume |-> TwiceMedian(LastOf(DollarVolumes(bars), 20)) \div 2,
       return_1d |-> return1d, return_5d |-> return5d, intraday |-> intraday,
       relative_strength |-> strength, volume_ratio |-> ratio,
       variance |-> RealizedVariance(bars),
       confidence |-> FoldLeft(Percent, 100,
          <<completeness, history, benchmark, FreshnessFactor(age), BaselineFactor(bars)>>)]

NoFeatures ==
  [n_days |-> 0, last_price |-> 0, dollar_volume |-> None, return_1d |-> None,
   return_5d |-> None, intraday |-> None, relative_strength |-> None,
   volume_ratio |-> None, variance |-> None, confidence |-> 0]

\* The benchmark's bars are empty when it has none.
ComputeFeatures(tape, bench) ==
  IF tape.bars = << >> THEN NoFeatures ELSE FeaturesWithBars(tape.bars, tape.age, bench)

\* Tapes are those of active symbols: the gate of the others is left out.
PassesGates(fs) ==
  /\ fs.n_days >= MinHistoryDays
  /\ fs.last_price >= MinPrice
  /\ fs.dollar_volume # None /\ fs.dollar_volume >= MinDollarVolume
  /\ fs.return_1d # None /\ fs.volume_ratio # None

MomentumRaw(fs) ==
  IF fs.return_5d = None THEN fs.return_1d
  ELSE IF fs.return_1d = None THEN fs.return_5d
  ELSE (6 * fs.return_1d + 4 * fs.return_5d) \div 10

TrendWeights == [momentum |-> 35, volume |-> 30, relative_strength |-> 25, acceleration |-> 10]

WeightedSum(z) ==
    TrendWeights.momentum * z.momentum + TrendWeights.volume * z.volume
  + TrendWeights.relative_strength * z.relative_strength
  + TrendWeights.acceleration * z.acceleration

FactorRaw(fs) ==
  [momentum |-> MomentumRaw(fs), volume |-> fs.volume_ratio,
   relative_strength |-> fs.relative_strength, acceleration |-> fs.intraday]

Reasons(z) ==
     {r \in {"ABNORMAL_VOLUME"} : 2 * z.volume >= 3 * ZUnit}
  \cup {r \in {"BELOW_AVERAGE_VOLUME"} : 2 * z.volume <= -3 * ZUnit}
  \cup {r \in {"STRONG_RELATIVE_STRENGTH"} : z.relative_strength >= ZUnit}
  \cup {r \in {"WEAK_RELATIVE_STRENGTH"} : z.relative_strength <= - ZUnit}
  \cup {r \in {"STRONG_MOMENTUM"} : z.momentum >= ZUnit}
  \cup {r \in {"NEGATIVE_MOMENTUM"} : z.momentum <= - ZUnit}
  \cup {r \in {"INTRADAY_BREAKOUT"} : z.acceleration >= ZUnit}

AtLeast(x, bound) == x # None /\ x >= bound

RiskFlags(fs) ==
     {r \in {"EXTENDED_SHORT_TERM_MOVE"} : fs.return_1d # None /\ fs.return_1d \notin -14 .. 14}
  \cup {r \in {"HIGH_VOLATILITY"} : AtLeast(fs.variance, Square(5))}

\* score_universe, best first.
ScoreUniverse(features) ==
  LET S == DOMAIN features
      z == [f \in DOMAIN TrendWeights |-> ZScores([s \in S |-> FactorRaw(features[s])[f]])]
      score == [s \in S |-> WeightedSum([f \in DOMAIN TrendWeights |-> z[f][s]])]
      Result(s) == [symbol |-> s, score |-> score[s], confidence |-> features[s].confidence,
                    z |-> [f \in DOMAIN TrendWeights |-> z[f][s]],
                    reasons |-> Reasons([f \in DOMAIN TrendWeights |-> z[f][s]]),
                    risk_flags |-> RiskFlags(features[s]),
                    percentile |-> Percentile(score, s)]
  IN  [i \in 1 .. Cardinality(S) |-> Result(RankOrder(score)[i])]

AllFeatures(tapes, bench) == [s \in DOMAIN tapes |-> ComputeFeatures(tapes[s], bench)]

\* Mutant: gates after scoring.
ScoreEligibleLate(tapes, bench) ==
  SelectSeq(ScoreUniverse(AllFeatures(tapes, bench)),
            LAMBDA r : PassesGates(AllFeatures(tapes, bench)[r.symbol]))

ScoreEligible(tapes, bench) ==
  LET features == AllFeatures(tapes, bench)
  IN  ScoreUniverse(Restrict(features, {s \in DOMAIN tapes : PassesGates(features[s])}))

Shown(results, minConfidence, limit) ==
  FirstOf(Kept(results, {i \in DOMAIN results : results[i].confidence >= minConfidence}), limit)

Scan(tapes, bench, minConfidence, limit) ==
  Shown(ScoreEligible(tapes, bench), minConfidence, limit)

=============================================================================
