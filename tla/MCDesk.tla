------------------------------- MODULE MCDesk --------------------------------
(***************************************************************************)
(* A small instance of Desk.  System: two containers and two migrations;   *)
(* the company a restates its first filing on the second day, the company  *)
(* unlisted is unknown to SEC, one of three configured strategies does not *)
(* exist, and growth does not accept the restated figures.                 *)
(* Tools: pools of inputs with the cases that are easily got wrong.        *)
(***************************************************************************)
EXTENDS Desk

CONSTANTS m1, m2, a, unlisted, period, value, typo, growth, revenueTag, oldRevenueTag, incomeTag, otherTag

MCCompanies == <<unlisted, a>>
Filing(day) == [company |-> a, period |-> period, filed |-> day]
MCFilings == {Filing(0), Filing(1)}
MCSubmissions == {}
MCStrategies == <<value, typo, growth>>
MCGates == [s \in Known |-> IF s = value THEN {{Filing(0)}, {Filing(1)}} ELSE {{Filing(0)}}]

\* An increasing function between the ends of the sigmoid.
MCSquash(z) == 50 + (z * 45) \div 360

\* Tapes: rising, falling, too short for five days, without volume before the
\* last day (not eligible, and with a move that would shift every average),
\* one bar, none.
Steady(n, close, volume) == [i \in 1 .. n |-> Bar(10, close, volume)]
Rising == Tape(Steady(6, 10, 8) \o <<Bar(10, 12, 16)>>, 1)
Falling == Tape(Steady(6, 10, 8) \o <<Bar(10, 8, 4)>>, 3)
Short == Tape(<<Bar(0, 10, 8), Bar(0, 12, 8)>>, 12)
NoVolume == Tape(Steady(6, 10, 0) \o <<Bar(10, 40, 16)>>, 0)
OneBar == Tape(<<Bar(10, 10, 8)>>, 0)
NoBars == Tape(<< >>, 0)
Tapes == {Rising, Falling, Short, NoVolume}
Benches == {<< >>, Steady(2, 10, 8)}

ScanPool ==
  {[tapes |-> t, bench |-> b, confidence |-> l[1], limit |-> l[2]] :
     t \in [1 .. 3 -> Tapes \cup {OneBar, NoBars}], b \in Benches, l \in {<<0, 2>>, <<40, 9>>}}

Metrics(g, m) ==
  [revenue_growth_yoy |-> g, eps_growth_yoy |-> None, gross_margin |-> m, operating_margin |-> m,
   roe |-> None, pe |-> 20, ev_to_sales |-> None, momentum_6m |-> g, debt_to_equity |-> m]
Inputs(price, variance, confidence, metrics) ==
  [price |-> price, dollar_volume |-> 90, variance |-> variance, return_1d |-> -15,
   data_confidence |-> confidence, metrics |-> metrics]
RankPool ==
  [1 .. 3 -> {Inputs(10, None, 100, Metrics(20, 40)), Inputs(10, 30, 80, Metrics(40, 10)),
              Inputs(10, 30, 80, Metrics(10, None)), Inputs(10, None, 80, Metrics(None, 40)),
              Inputs(None, None, 100, Metrics(90, 90))}]
MCProfile ==
  [min_price |-> 3, min_volume |-> 20, min_growth |-> 5, min_confidence |-> 80,
   weights |-> [growth |-> 40, quality |-> 20, valuation |-> 20, momentum |-> 10,
                financial_strength |-> 10],
   penalties |-> [extreme_volatility |-> 5, extreme_short_term_move |-> 3, leverage |-> 0],
   thresholds |-> [extreme_volatility |-> 5, extreme_short_term_move |-> 15, leverage |-> 2]]

MCTags ==
  [revenue |-> <<revenueTag, oldRevenueTag>>, cost_of_revenue |-> <<otherTag>>, eps |-> <<otherTag>>,
   gross_profit |-> << >>, operating_income |-> <<incomeTag>>, net_income |-> <<incomeTag>>,
   equity |-> <<otherTag>>, debt |-> << >>, cash |-> << >>, shares |-> <<otherTag>>]
Fact(tag, fp, year, filed, v) ==
  [tag |-> tag, fp |-> fp, period |-> year, filed |-> filed, value |-> v]
Facts ==
  {Fact(revenueTag, "FY", 1, 1, 100), Fact(revenueTag, "FY", 1, 2, 80),
   Fact(revenueTag, "FY", 1, 2, 25), Fact(revenueTag, "FY", 2, 2, 90),
   Fact(revenueTag, "Q1", 2, 3, 30), Fact(oldRevenueTag, "FY", 2, 2, 70),
   Fact(incomeTag, "FY", 1, 1, 20), Fact(incomeTag, "FY", 2, 2, 40), Fact(otherTag, "FY", 1, 1, 5)}
FactPool == UNION {SetToSeqs(S) : S \in {T \in SUBSET Facts : Cardinality(T) <= 4}}

Event(id, type, time) == [id |-> id, type |-> type, time |-> time]
TimedBars(closes) == [i \in DOMAIN closes |-> [close |-> closes[i], volume |-> 8, time |-> 2 * i]]
ExplainPool ==
  {[bars |-> TimedBars(c), events |-> e, lookback |-> l, window |-> w] :
     c \in {<< >>, <<10>>, <<0, 10>>, <<10, 10, 12, 12>>, <<10, 12, 12, 6>>, <<10, 15, 15, 18>>},
     e \in SUBSET {Event(1, "FILING_8K", 1), Event(2, "NEWS", 6), Event(3, "FILING_10Q", 7),
                   Event(4, "FILING_8K", 9), Event(5, "SPLIT", 4), Event(6, "FILING_8K", 6)},
     l \in {1, 9}, w \in {1, 3}}

\* Histories by date, one of them with a gap and one that ends early.
Days7 == 1 .. 7
History(D, slope) == [d \in D |-> Bar(10, 10 + slope * (d % 3), 8)]
BacktestPool ==
  {[histories |-> h, bench |-> k[4], every |-> k[1], warmup |-> 1, horizon |-> k[2],
    buckets |-> k[3]] :
     h \in [1 .. 3 -> {History(Days7, 0), History(Days7, 5), History(Days7 \ {3, 4}, -2),
                       History(1 .. 4, 10)}],
     k \in {<<1, 1, 3, << >> >>, <<2, 3, 2, History(1 .. 6, 0)>>, <<1, 9, 2, << >> >>}}

Condition(m, op, v) == [metric |-> m, op |-> op, value |-> v]
MCScoreNames == [m \in {"research_score:GARP", "research_score:garp"} |->
                   IF m = "research_score:GARP" THEN "GARP" ELSE "garp"]
MCProfileOf == [n \in {"GARP", "garp"} |-> "garp"]
Conditions ==
  {Condition("trend_score", ">", 0), Condition("rank_percentile", "<=", 50 * PercentUnit),
   Condition("research_score:GARP", ">=", 60), Condition("research_score:garp", "!=", 60),
   Condition("filings_24h", "==", 0)}
RulePool ==
  {[rule |-> [all |-> l, any |-> y],
    world |-> [tapes |-> t, bench |-> << >>, research |-> [garp |-> r],
               filings |-> [s \in 1 .. 2 |-> s - 1]]] :
     l \in {S \in SUBSET Conditions : Cardinality(S) <= 2},
     y \in {S \in SUBSET Conditions : Cardinality(S) <= 1},
     t \in [1 .. 2 -> {Rising, NoVolume}], r \in {<<60>>, <<70, 60>>}}

\* Responses: an answer with or without support, and calls, one of them of a
\* tool that is not permitted, with the model's ids or without.
Call(id, tool) == [id |-> id, tool |-> tool]
Response(text, calls, grounded) == [text |-> text, calls |-> calls, grounded |-> grounded]
Responses ==
  {Response(FALSE, << >>, TRUE), Response(TRUE, << >>, FALSE),
   Response(FALSE, <<Call("1", "read")>>, TRUE),
   Response(TRUE, <<Call("1", "write"), Call("2", "read")>>, TRUE),
   Response(FALSE, <<Call(NoId, "read"), Call(NoId, "write")>>, TRUE)}
AgentPool == UNION {[1 .. n -> Responses] : n \in 0 .. 4}

MCPool ==
  [scan |-> ScanPool, rank |-> RankPool, fundamentals |-> FactPool, explain |-> ExplainPool,
   backtest |-> BacktestPool, rule |-> RulePool, agent |-> AgentPool]

=============================================================================
