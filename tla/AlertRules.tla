----------------------------- MODULE AlertRules ------------------------------
(***************************************************************************)
(* What an alert rule sees and whether it holds: MetricResolver.resolve    *)
(* and evaluate_rule (domain/alerts/resolver.py, evaluator.py), which      *)
(* AlertEngine leaves open.  A rule is [all, any], sets of [metric, op,    *)
(* value] conditions.  A world holds what the resolver's sources would     *)
(* answer: tapes and benchmark for the scan of the rule's own symbols,     *)
(* research scores by profile, filings of the last day.                    *)
(***************************************************************************)
EXTENDS TrendScan, Overlays

CONSTANTS
  ScoreNames,  \* the research_score:<name> metrics -> the name
  ProfileOf    \* get_strategy: the name of a profile, or its id, -> its id

TrendMetrics == {"trend_score", "trend_confidence", "volume_ratio", "return_1d_pct",
                 "rank_percentile"}

Holds(op, x, y) ==
  CASE op = ">=" -> x >= y
    [] op = "<=" -> x <= y
    [] op = ">" -> x > y
    [] op = "<" -> x < y
    [] op = "==" -> x = y
    [] op = "!=" -> x # y

\* A condition on a missing metric does not hold, whatever its operator.
Passes(c, metrics) == c.metric \in DOMAIN metrics /\ Holds(c.op, metrics[c.metric], c.value)

EvaluateRule(rule, metrics) ==
  /\ rule.all \cup rule.any # {}
  /\ \A c \in rule.all : Passes(c, metrics)
  /\ rule.any # {} => \E c \in rule.any : Passes(c, metrics)

ReferencedMetrics(rule) == {c.metric : c \in rule.all \cup rule.any}
EvaluatedMetrics(rule, metrics) == Restrict(metrics, ReferencedMetrics(rule) \cap DOMAIN metrics)

\* What the results of a scan say of a symbol; nothing if it is not among them.
ValuesIn(results, s, features) ==
  LET own == {i \in DOMAIN results : results[i].symbol = s}
      r == results[Max(own)]
  IN  IF own = {} THEN << >>
      ELSE [trend_score |-> r.score, trend_confidence |-> r.confidence,
            rank_percentile |-> r.percentile, volume_ratio |-> features.volume_ratio,
            return_1d_pct |-> features.return_1d]

\* From a scan of the rule's own symbols.
TrendValues(world, s) ==
  ValuesIn(Scan(world.tapes, world.bench, 0, Cardinality(DOMAIN world.tapes)), s,
           ComputeFeatures(world.tapes[s], world.bench))

ScoresFor(world, s, metrics) ==
  LET there == {m \in metrics : s \in DOMAIN world.research[ProfileOf[ScoreNames[m]]]}
  IN  [m \in there |-> world.research[ProfileOf[ScoreNames[m]]][s]]

\* Mutant: only under the profile's id.
ResearchValuesById(world, s, wanted) ==
  LET ids == {ProfileOf[ScoreNames[m]] : m \in wanted \cap DOMAIN ScoreNames}
  IN  ScoresFor(world, s, {m \in DOMAIN ScoreNames : ScoreNames[m] \in ids})

\* Under the name the rule uses, and under the profile's id.
ResearchValues(world, s, wanted) ==
  LET used == wanted \cap DOMAIN ScoreNames
      ids == {ProfileOf[ScoreNames[m]] : m \in used}
  IN  ScoresFor(world, s, used \cup {m \in DOMAIN ScoreNames : ScoreNames[m] \in ids})

\* Only what the rule refers to is computed.
ResolveMetrics(world, wanted) ==
  LET Trend(s) == IF wanted \cap TrendMetrics # {} THEN TrendValues(world, s) ELSE << >>
      Filed(s) == IF "filings_24h" \in wanted THEN [filings_24h |-> world.filings[s]] ELSE << >>
  IN  [s \in DOMAIN world.tapes |->
         Overlay(Trend(s), Overlay(ResearchValues(world, s, wanted), Filed(s)))]

\* The symbols a rule holds for, and the values it used.
Verdict(rule, values) ==
  [holds |-> {s \in DOMAIN values : EvaluateRule(rule, values[s])},
   used |-> [s \in DOMAIN values |-> EvaluatedMetrics(rule, values[s])]]

=============================================================================
