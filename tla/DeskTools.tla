----------------------------- MODULE DeskTools -------------------------------
(***************************************************************************)
(* The computations behind the read tools, the alert rules, the backtest   *)
(* and the agent's conversation, as calls: each takes some inputs of the   *)
(* pools below and returns its answer.  They keep no state of their own.   *)
(***************************************************************************)
EXTENDS ResearchScore, StatementMetrics, Catalysts, Backtest, AlertRules, Conversation

CONSTANTS
  Pool,   \* tool -> the inputs it is called with
  Profile \* the strategy profile of the research calls

\* The history of a symbol and its stored events, which differ in their id.
IsExplainCall(x) ==
  /\ x.bars \in Seq([close : Nat, volume : Nat, time : Int])
  /\ IsFiniteSet(x.events)
  /\ \A e \in x.events : e.id \in Int /\ e.time \in Int
  /\ \A e, f \in x.events : e.id = f.id => e = f
  /\ x.lookback \in Nat /\ x.window \in Nat \ {0}

\* As many symbols as the decimals of a percentile can tell apart.
IsUniverse(symbols) ==
  /\ symbols \in SUBSET Int /\ IsFiniteSet(symbols)
  /\ Cardinality(symbols) <= 100 * PercentUnit + 1

IsScanCall(x) == IsUniverse(DOMAIN x.tapes) /\ x.limit \in Nat

IsRankCall(x) ==
  IsUniverse(DOMAIN x) /\ \A s \in DOMAIN x : x[s].data_confidence \in Nat

\* Facts of a company.
IsFactList(facts) ==
  /\ facts \in Seq(Range(facts))
  /\ \A i \in DOMAIN facts : /\ facts[i].period \in Int /\ facts[i].filed \in Int
                             /\ facts[i].value \in Int

\* Histories by symbol, and the benchmark's, between any dates.
IsBacktestCall(x) ==
  /\ DOMAIN x.histories \in SUBSET Int /\ IsFiniteSet(DOMAIN x.histories)
  /\ \A s \in DOMAIN x.histories :
       DOMAIN x.histories[s] \in SUBSET Int /\ IsFiniteSet(DOMAIN x.histories[s])
  /\ DOMAIN x.bench \in SUBSET Int /\ IsFiniteSet(DOMAIN x.bench)
  /\ x.every \in Nat \ {0} /\ x.warmup \in Nat /\ x.horizon \in Nat /\ x.buckets \in Nat \ {0}

\* Responses of a model; a text with nothing in it passes the grounding check.
IsScript(script) ==
  /\ script \in Seq(Range(script))
  /\ \A i \in DOMAIN script :
       /\ script[i].calls \in Seq(Range(script[i].calls))
       /\ script[i].text \in BOOLEAN
       /\ script[i].grounded \/ script[i].text

ASSUME DeskConstants ==
  /\ IsProfile(Profile)
  /\ \A x \in Pool["scan"] : IsScanCall(x)
  /\ \A x \in Pool["rank"] : IsRankCall(x)
  /\ \A x \in Pool["fundamentals"] : IsFactList(x)
  /\ \A x \in Pool["explain"] : IsExplainCall(x)
  /\ \A x \in Pool["backtest"] : IsBacktestCall(x)
  /\ \A x \in Pool["agent"] : IsScript(x)

VARIABLE call  \* the call being served: its tool and input, then its answer too

NoCall == [tool |-> "none"]

CallInit == call = NoCall

Ask(tool) ==
  /\ call = NoCall
  /\ \E x \in Pool[tool] : call' = [tool |-> tool, input |-> x]

Asked(tool) == call.tool = tool /\ "answer" \notin DOMAIN call
Answer(tool, F(_)) ==
  /\ Asked(tool)
  /\ call' = [tool |-> tool, input |-> call.input, answer |-> F(call.input)]

\* scan_trending_stocks
AnswerScan == Answer("scan", LAMBDA x : Scan(x.tapes, x.bench, x.confidence, x.limit))

\* find_research_candidates, compare_stocks
AnswerRank == Answer("rank", LAMBDA x : RankResearch(x, Profile))

AnswerFundamentals == Answer("fundamentals", LAMBDA x : ComputeFundamentals(x, 20))

AnswerExplainMove ==
  Answer("explain", LAMBDA x : ExplainMove(x.bars, x.events, x.lookback, x.window))

AnswerBacktest ==
  Answer("backtest", LAMBDA x :
    Report(x.histories, x.bench, x.every, x.warmup, x.horizon, x.buckets))

\* One rule of an alert cycle.
AnswerRule ==
  Answer("rule", LAMBDA x :
    Verdict(x.rule, ResolveMetrics(x.world, ReferencedMetrics(x.rule))))

AnswerAgent == Answer("agent", LAMBDA x : RunScript(x).messages)

AnswerReturned == "answer" \in DOMAIN call /\ call' = NoCall

ToolNext ==
  \/ \E tool \in DOMAIN Pool : Ask(tool)
  \/ AnswerScan \/ AnswerRank \/ AnswerFundamentals \/ AnswerExplainMove
  \/ AnswerBacktest \/ AnswerRule \/ AnswerAgent
  \/ AnswerReturned

Answered(tool, Good(_, _)) ==
  call.tool = tool /\ "answer" \in DOMAIN call => Good(call.input, call.answer)

\* Results are best first and their percentiles tell the same: equal exactly
\* for equal scores, 0 for the lowest, 100 for a best one that is alone.
RanksAgree(results) ==
  LET n == Len(results)
  IN  /\ \A i, j \in 1 .. n : i < j =>
           /\ results[i].score >= results[j].score
           /\ results[i].score = results[j].score <=> results[i].percentile = results[j].percentile
           /\ results[i].percentile >= results[j].percentile
      /\ n > 1 => results[n].percentile = 0
      /\ (n = 1 \/ (n > 1 /\ results[1].score > results[2].score)) =>
           results[1].percentile = 100 * PercentUnit

\* The first results, as many as the limit allows, of those with enough confidence.
IsSelection(x, answer, all) ==
  LET enough == {i \in DOMAIN all : all[i].confidence >= x.confidence}
  IN  /\ Len(answer) = Min({x.limit, Cardinality(enough)})
      /\ \A k \in DOMAIN answer : \E i \in enough :
           answer[k] = all[i] /\ Cardinality({j \in enough : j < i}) = k - 1

MissingIsNeutral(x, all) ==
  \A i \in DOMAIN all : \A f \in DOMAIN TrendWeights :
    FactorRaw(ComputeFeatures(x.tapes[all[i].symbol], x.bench))[f] = None => all[i].z[f] = 0

GoodScan(x, answer) ==
  LET fit == {s \in DOMAIN x.tapes : PassesGates(ComputeFeatures(x.tapes[s], x.bench))}
      all == ScoreEligible(Restrict(x.tapes, fit), x.bench)
  IN  IsSelection(x, answer, all) /\ RanksAgree(all) /\ MissingIsNeutral(x, all)

GoodRank(x, answer) ==
  LET fit == {s \in DOMAIN x : PassesResearchGates(x[s], Profile)}
  IN  /\ {answer[i].symbol : i \in DOMAIN answer} = fit
      /\ answer = RankResearch(Restrict(x, fit), Profile)
      /\ RanksAgree(answer)
      /\ \A i \in DOMAIN answer : answer[i].confidence <= x[answer[i].symbol].data_confidence

\* What is said about a symbol depends on the eligible symbols only, and not on
\* a limit or a confidence filter; ranks and percentiles agree, also with ties,
\* with one symbol and without any spread; a missing factor is neutral
\* (trend/scoring.py:133-179, trend/service.py:64-130, research/engine.py:72-139).
ScoresAreCrossSectional == Answered("scan", GoodScan) /\ Answered("rank", GoodRank)

\* No two facts filed on one day differ on one period of a tag.  The table's
\* index admits such: the quarters of a 10-K are marked FY too.
Untied(facts) ==
  \A f, g \in Range(facts) :
    f.tag = g.tag /\ f.period = g.period /\ f.filed = g.filed => f.value = g.value

FullYear(facts) == {f \in Range(facts) : f.fp = "FY"}

\* f was filed last of those of its tag and period.
FiledLast(f, full) == \A g \in full : g.tag = f.tag /\ g.period = f.period => g.filed <= f.filed

Candidates(full, concept) == {f \in full : f.tag \in Range(Tags[concept])}
Years(full, concept) == {f.period : f \in Candidates(full, concept)}

\* "The first with data for a period wins" (tags.py:1-2).
WinningTag(full, concept, p) ==
  FirstWithData(Tags[concept], {f.tag : f \in {g \in full : g.period = p}})

Reported(full, concept, p) ==
  {f.value : f \in {g \in full : /\ g.tag \in WinningTag(full, concept, p)
                                 /\ g.period = p /\ FiledLast(g, full)}}

\* One tag wins in all years, so that it makes no difference whether the tag is
\* chosen for a period (tags.py) or once for all of them (normalize.py:24-33).
OneTagWins(full, concept) ==
  \A p \in Years(full, concept) :
    WinningTag(full, concept, p) = FirstWithData(Tags[concept], {f.tag : f \in full})

GoodFundamentals(facts, answer) ==
  LET full == FullYear(facts)
      years == Years(full, "revenue")
  IN  /\ Untied(facts) => answer = ComputeFundamentals(Reverse(facts), 20)
      /\ years = {} <=> answer.metrics.revenue = None
      /\ years # {} =>
           \E f \in Candidates(full, "revenue") :
             FiledLast(f, full) /\ answer.metrics.revenue = f.value
      /\ years # {} /\ OneTagWins(full, "revenue") =>
           /\ answer.metrics.revenue \in Reported(full, "revenue", Max(years))
           /\ (/\ OneTagWins(full, "operating_income")
               /\ Reported(full, "operating_income", Max(years)) # {})
              => \E v \in Reported(full, "operating_income", Max(years)) :
                   answer.metrics.operating_margin = Ratio(v, answer.metrics.revenue)
      /\ Cardinality(years) < 2 => answer.metrics.revenue_growth_yoy = None

\* The revenue is never a version that a later filing replaced, in whatever order
\* the facts arrive; the order does not matter unless facts filed on one day
\* differ.  Where one tag wins in all years, the revenue is that of the latest
\* year, and the margin divides the income of the same year by it when it was
\* reported.  Where the preferred tag lacks a year that another one has, tags.py
\* and the code disagree on the year, and it is left open (normalize.py:18-34,
\* 80-103).
NormalizedFromLatestFilings == Answered("fundamentals", GoodFundamentals)

\* The events an explanation has to give: from `window` days before the move to
\* less than a day after it, the tolerance for its own day; and those it may give.
Evidence(x, at) ==
  {e \in x.events : at - e.time > - Day /\ at - e.time <= x.window * Day}
Admissible(x, at) ==
  {e \in x.events : at - e.time >= - Day /\ at - e.time <= x.window * Day}

GoodExplanation(x, answer) ==
  LET found == answer.catalysts
      at == x.bars[answer.move].time
      given == {found[k].event : k \in DOMAIN found}
  IN  IF answer.move = None THEN found = << >> /\ answer.causal = 0
      ELSE /\ \A i \in MoveDays(x.bars, x.lookback) :
                Magnitude(Move(x.bars, i)) <= Magnitude(Move(x.bars, answer.move))
           /\ Evidence(x, at) \subseteq given /\ given \subseteq Admissible(x, at)
           /\ Len(found) = Cardinality(given)
           /\ \A i, j \in DOMAIN found : i < j =>
                Composite(found[i].event, at, x.window) >= Composite(found[j].event, at, x.window)
           /\ \A k \in DOMAIN found : answer.causal >= found[k].strength
           /\ answer.causal # 0 => \E k \in DOMAIN found : answer.causal = found[k].strength

\* The evidence for the largest move is every stored event from `window` days
\* before it to less than a day after it, each once and best first, though a
\* query and a filter with bounds of their own pick them; the causal confidence
\* is that of the strongest, and none without evidence.  An event exactly one
\* day after the move is left open: correlator.py:66-67 excludes events after
\* the move but for "a small same-day tolerance", the filter keeps this one and
\* its note says "1 day(s) after the move" (catalysts/service.py:76-87,
\* correlator.py:49-55, 68-96).
EvidenceIsTheWindow == Answered("explain", GoodExplanation)

GoodRebalance(x, r) ==
  LET n == x.buckets
  IN  /\ \A b, c \in 0 .. n - 1 : /\ r.buckets[b].count > 0
                                  /\ r.buckets[b].count <= r.buckets[c].count + 1
      /\ \A s, t \in DOMAIN r.scores : r.bucket[s] < r.bucket[t] => r.scores[s] <= r.scores[t]
      /\ \A s \in DOMAIN r.scores :
           /\ Cardinality({d \in DOMAIN x.histories[s] : d > r.date}) >= x.horizon
           /\ \E d \in DOMAIN x.histories[s] : d <= r.date

GoodBacktest(x, answer) ==
  \A i \in DOMAIN answer.rebalances : GoodRebalance(x, answer.rebalances[i])

\* Every rebalance reported compares buckets that are not empty, differ by at
\* most one in size and are ordered by score, of symbols that have a price
\* `horizon` bars later: also at the ends of the calendar, with a horizon
\* longer than it, gaps in a series, ties, and fewer symbols than buckets
\* (backtest/core.py:43-77, metrics.py:45-53, runner.py:28-72).
BucketsAreComparable == Answered("backtest", GoodBacktest)

GoodRule(x, answer) ==
  LET Values(s) == Overlay(TrendValues(x.world, s),
                           Overlay(ScoresFor(x.world, s, DOMAIN ScoreNames),
                                   [filings_24h |-> x.world.filings[s]]))
  IN  /\ answer = Verdict(x.rule, [s \in DOMAIN x.world.tapes |-> Values(s)])
      /\ answer = Verdict(x.rule, ResolveMetrics(x.world,
                     TrendMetrics \cup DOMAIN ScoreNames \cup {"filings_24h"}))
      /\ \A s \in answer.holds : \A c \in x.rule.all : c.metric \in DOMAIN answer.used[s]

\* Computing only what a rule refers to changes nothing: it holds for a symbol
\* exactly if it holds on all the values the sources have, a profile being
\* meant by its name or its id, and a missing value makes a condition fail;
\* the values kept for audit are those it used (resolver.py:36-71,
\* evaluator.py:21-39).
RulesSeeTheirMetrics == Answered("rule", GoodRule)

GoodConversation(messages) ==
  LET CallIds(m) == [i \in DOMAIN m.calls |-> m.calls[i].id]
      ResultIds(m) == [i \in DOMAIN m.results |-> m.results[i].call_id]
      encoded == EncodeAnthropic(messages)
      openai == EncodeOpenAI(messages)
      Unanswered(k) == {i \in 1 .. k - 1 : openai[i].role = "assistant"}
  IN  /\ \A k \in DOMAIN encoded :
           /\ encoded[k].content # << >>
           /\ encoded[k].role = IF k % 2 = 1 THEN "user" ELSE "assistant"
      /\ \A k \in DOMAIN messages : messages[k].calls # << >> =>
           k < Len(messages) /\ ResultIds(messages[k + 1]) = CallIds(messages[k])
      /\ \A k \in DOMAIN openai : openai[k].role = "tool" =>
           LET asked == Max(Unanswered(k))
           IN  /\ \A i \in asked + 1 .. k : openai[i].role = "tool"
               /\ openai[k].ids = <<openai[asked].ids[k - asked]>>

\* Whatever the model answers and whichever of its calls are refused, the
\* messages of its next turn are ones both APIs accept: roles alternate, none
\* is empty, and every tool call is answered, in order, by the message after it
\* (runner.py:117-181, llm.py:111-131, 186-205).
ConversationsAreAnswered == Answered("agent", LAMBDA x, answer : GoodConversation(answer))

=============================================================================
