---------------------------- MODULE ResearchScore ----------------------------
(***************************************************************************)
(* Research scores over given inputs: score_research and the gates of a    *)
(* strategy profile (domain/research/engine.py, gates.py).                 *)
(*                                                                         *)
(* The inputs of a symbol are its metrics, integers or None, with its      *)
(* price, volume, variance and last return; data_confidence is in percent. *)
(* Factor z-scores are in 1/120 (the average of up to three twentieths).   *)
(***************************************************************************)
EXTENDS TrendScan

CONSTANT Squash(_)  \* sigmoid, in percent: of a factor z-score, increasing

ASSUME SquashConstants == \A z \in -6 * WinsorZ .. 6 * WinsorZ : Squash(z) \in Nat

FactorMetrics ==
  [growth |-> [revenue_growth_yoy |-> 1, eps_growth_yoy |-> 1],
   quality |-> [gross_margin |-> 1, operating_margin |-> 1, roe |-> 1],
   valuation |-> [pe |-> -1, ev_to_sales |-> -1],
   momentum |-> [momentum_6m |-> 1],
   financial_strength |-> [debt_to_equity |-> -1]]

Factors == DOMAIN FactorMetrics
FactorUnit == 6 * ZUnit

\* The change over the last 126 bars, or over all there are.
Momentum6m(bars) ==
  IF Len(bars) < 2 THEN None
  ELSE PctChange(Last(bars).close, bars[IF Len(bars) > 126 THEN Len(bars) - 126 ELSE 1].close)

\* StrategyProfile: gates, weights by factor, penalties in points, thresholds.
IsProfile(p) ==
  /\ {p.min_price, p.min_volume, p.min_confidence} \subseteq Nat
  /\ p.min_growth \in Int \cup {None}
  /\ p.weights \in [Factors -> Nat]
  /\ \E f \in Factors : p.weights[f] > 0
  /\ {p.penalties, p.thresholds} \subseteq
       [{"extreme_volatility", "extreme_short_term_move", "leverage"} -> Nat]

PassesResearchGates(x, profile) ==
  /\ AtLeast(x.price, profile.min_price)
  /\ AtLeast(x.dollar_volume, profile.min_volume)
  /\ x.data_confidence >= profile.min_confidence
  /\ profile.min_growth # None => AtLeast(x.metrics.revenue_growth_yoy, profile.min_growth)

PenaltiesOf(x, profile) ==
  LET p == profile.penalties
      th == profile.thresholds
  IN  {k \in DOMAIN p :
         /\ p[k] # 0
         /\ \/ k = "extreme_volatility" /\ AtLeast(x.variance, Square(th[k]))
            \/ /\ k = "extreme_short_term_move"
               /\ x.return_1d # None
               /\ \/ x.return_1d >= th[k]
                  \/ x.return_1d <= - th[k]
            \/ k = "leverage" /\ AtLeast(x.metrics.debt_to_equity, th[k])}

\* The average over the metrics that are there; 0 without any.
FactorZ(x, metrics, z, s) ==
  LET there == {m \in DOMAIN metrics : x.metrics[m] # None}
  IN  IF there = {} THEN 0
      ELSE (6 * Total([m \in there |-> metrics[m] * z[m][s]], there)) \div Cardinality(there)

Covered(x, f) == \E m \in DOMAIN FactorMetrics[f] : x.metrics[m] # None

ScoreResearch(inputs, profile) ==
  LET S == DOMAIN inputs
      names == UNION {DOMAIN FactorMetrics[f] : f \in Factors}
      z == [m \in names |-> ZScores([s \in S |-> inputs[s].metrics[m]])]
      factor_z == [s \in S |-> [f \in Factors |-> FactorZ(inputs[s], FactorMetrics[f], z, s)]]
      Weighted(s) == Total([f \in Factors |-> profile.weights[f] * Squash(factor_z[s][f])], Factors)
      Penalty(s) == Total(profile.penalties, PenaltiesOf(inputs[s], profile))
      score == [s \in S |-> Clamp(Weighted(s) - 100 * Penalty(s), 0, 10000)]
      Coverage(s) == Total([f \in Factors |-> IF Covered(inputs[s], f) THEN profile.weights[f] ELSE 0],
                           Factors)
      Result(s) == [symbol |-> s, score |-> score[s],
                    confidence |-> (inputs[s].data_confidence * Coverage(s))
                                    \div Total(profile.weights, Factors),
                    factor_z |-> factor_z[s],
                    penalties |-> PenaltiesOf(inputs[s], profile),
                    positive |-> {f \in Factors : 4 * factor_z[s][f] >= 3 * FactorUnit},
                    negative |-> {f \in Factors : 4 * factor_z[s][f] <= -3 * FactorUnit},
                    percentile |-> Percentile(score, s)]
  IN  [i \in 1 .. Cardinality(S) |-> Result(RankOrder(score)[i])]

\* rank and compare: gates first, then the cross-section of what passes.
RankResearch(inputs, profile) ==
  ScoreResearch(Restrict(inputs, {s \in DOMAIN inputs : PassesResearchGates(inputs[s], profile)}),
                profile)

=============================================================================
