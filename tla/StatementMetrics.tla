-------------------------- MODULE StatementMetrics ---------------------------
(***************************************************************************)
(* From a company's XBRL facts to the metrics research scores compare:     *)
(* domain/research/normalize.py.  A fact is [tag, fp, period, filed,       *)
(* value]; tags are model values, of which Tags[concept] lists the         *)
(* candidates in order of preference.  Ratios are in percent, cut to       *)
(* integers.                                                               *)
(***************************************************************************)
EXTENDS CrossSection

CONSTANT Tags  \* concept -> candidate tags (domain/research/tags.py)

Concepts ==
  {"revenue", "cost_of_revenue", "net_income", "eps", "gross_profit", "operating_income",
   "equity", "debt", "cash", "shares"}

ASSUME StatementConstants == \A c \in Concepts : Tags[c] \in Seq(Range(Tags[c]))

\* Mutant: the version seen last wins.
LatestVersionsAsSeen(facts, tag) ==
  LET full == {i \in DOMAIN facts : facts[i].tag = tag /\ facts[i].fp = "FY"}
  IN  {i \in full : \A j \in full : facts[j].period = facts[i].period => j <= i}

\* The full-year facts of a tag, of each period the one filed last; of two
\* filed on one day the one that comes first.
LatestVersions(facts, tag) ==
  LET full == {i \in DOMAIN facts : facts[i].tag = tag /\ facts[i].fp = "FY"}
      Later(i, j) == \/ facts[i].filed > facts[j].filed
                     \/ facts[i].filed = facts[j].filed /\ i < j
  IN  {i \in full : \A j \in full \ {i} : facts[j].period = facts[i].period => Later(i, j)}

\* The first candidate among the tags with data, and its values by period.
FirstWithData(candidates, tags) ==
  LET usable == {k \in DOMAIN candidates : candidates[k] \in tags}
  IN  IF usable = {} THEN {} ELSE {candidates[Min(usable)]}

AnnualByPeriod(facts, concept) ==
  LET annual == {facts[i].tag : i \in {j \in DOMAIN facts : facts[j].fp = "FY"}}
      chosen == UNION {LatestVersions(facts, tag) : tag \in FirstWithData(Tags[concept], annual)}
  IN  [p \in {facts[i].period : i \in chosen} |->
         facts[CHOOSE i \in chosen : facts[i].period = p].value]

\* A value by its place from the end of the years that have one, 0 the last.
YearFromEnd(byPeriod, k) ==
  LET years == {p \in DOMAIN byPeriod : Cardinality({q \in DOMAIN byPeriod : q > p}) = k}
  IN  IF years = {} THEN None ELSE byPeriod[Max(years)]

\* The balance-sheet value of the latest period, in its latest version.
LatestInstant(facts, concept) ==
  LET Of(tag) == {i \in DOMAIN facts : facts[i].tag = tag}
      Newer(i, j) == \/ facts[i].period > facts[j].period
                     \/ /\ facts[i].period = facts[j].period
                        /\ \/ facts[i].filed > facts[j].filed
                           \/ facts[i].filed = facts[j].filed /\ i < j
      tags == {facts[i].tag : i \in DOMAIN facts}
      best == UNION {{i \in Of(tag) : \A j \in Of(tag) \ {i} : Newer(i, j)} :
                       tag \in FirstWithData(Tags[concept], tags)}
  IN  IF best = {} THEN None ELSE facts[Max(best)].value

\* The numerator of the latest revenue year, else of its own latest year.
Aligned(byPeriod, revenueYears) ==
  IF revenueYears # {} /\ Max(revenueYears) \in DOMAIN byPeriod
  THEN byPeriod[Max(revenueYears)]
  ELSE YearFromEnd(byPeriod, 0)

Growth(current, prior) ==
  IF current = None \/ prior \in {None, 0} THEN None
  ELSE (100 * (current - prior)) \div prior
Ratio(num, den) == IF num = None \/ den \in {None, 0} THEN None ELSE (100 * num) \div den
OrZero(x) == IF x = None THEN 0 ELSE x

\* Revenue less cost of revenue of the same year, when gross profit is untagged.
DerivedGross(revenue, cost) ==
  IF DOMAIN revenue # {} /\ Max(DOMAIN revenue) \in DOMAIN cost
  THEN revenue[Max(DOMAIN revenue)] - cost[Max(DOMAIN revenue)]
  ELSE None

\* From the annual values and the latest balance sheet of each concept.
MetricsOf(annual, instant, price) ==
  LET revenue == YearFromEnd(annual["revenue"], 0)
      eps == YearFromEnd(annual["eps"], 0)
      Numerator(concept) == Aligned(annual[concept], DOMAIN annual["revenue"])
      gross == IF Numerator("gross_profit") # None THEN Numerator("gross_profit")
               ELSE DerivedGross(annual["revenue"], annual["cost_of_revenue"])
      shares == instant["shares"]
      cap == IF None \in {price, shares} \/ shares = 0 THEN None ELSE price * shares
  IN  [revenue |-> revenue,
       revenue_growth_yoy |-> Growth(revenue, YearFromEnd(annual["revenue"], 1)),
       eps |-> eps,
       eps_growth_yoy |-> Growth(eps, YearFromEnd(annual["eps"], 1)),
       gross_margin |-> Ratio(gross, revenue),
       operating_margin |-> Ratio(Numerator("operating_income"), revenue),
       roe |-> Ratio(Numerator("net_income"), instant["equity"]),
       debt_to_equity |-> Ratio(instant["debt"], instant["equity"]),
       pe |-> IF price = None \/ eps = None THEN None
              ELSE IF eps <= 0 THEN None
              ELSE price \div eps,
       ev_to_sales |-> IF cap = None THEN None
                       ELSE Ratio(cap + OrZero(instant["debt"]) - OrZero(instant["cash"]), revenue)]

ComputeFundamentals(facts, price) ==
  LET m == MetricsOf([c \in Concepts |-> AnnualByPeriod(facts, c)],
                     [c \in Concepts |-> LatestInstant(facts, c)], price)
      keys == {"revenue", "revenue_growth_yoy", "eps", "gross_margin", "roe"}
  IN  [metrics |-> m,
       data_confidence |-> 20 * Cardinality({k \in keys : m[k] # None})]

=============================================================================
