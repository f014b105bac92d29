----------------------------- MODULE DeskProofs ------------------------------
(***************************************************************************)
(* What ResearchSystemProofs shows of the system holds beside the calls of *)
(* the tools.                                                              *)
(***************************************************************************)
EXTENDS Desk, DeskToolsProofs, ResearchSystemProofs

LEMMA DeskImplementsSystem == Spec => SystemSpec
<1>1. Init => SystemInit
  BY DEF Init
<1>2. [Next]_vars => [SystemNext]_systemVars
  BY DEF Next, vars
<1> QED BY <1>1, <1>2, PTL DEF Spec, SystemSpec

LEMMA DeskSystemInvariant == Spec => []SystemInv
BY DeskImplementsSystem, SystemInvariant, PTL

CallOK ==
  /\ call.tool \in {"none"} \cup DOMAIN Pool
  /\ call.tool \in {"scan", "rank", "explain", "fundamentals", "backtest", "agent"}
       => call.input \in Pool[call.tool]

\* An answer belongs to the tool that was asked, with an input of its pool.
LEMMA ToolNextOK ==
  ASSUME CallOK, ToolNext
  PROVE  CallOK'
<1>1. ASSUME NEW tool \in DOMAIN Pool, Ask(tool)
      PROVE  CallOK'
  BY <1>1 DEF Ask, CallOK
<1>2. CASE AnswerScan
  BY <1>2 DEF AnswerScan, Answer, Asked, CallOK
<1>3. CASE AnswerRank
  BY <1>3 DEF AnswerRank, Answer, Asked, CallOK
<1>4. CASE AnswerFundamentals
  BY <1>4 DEF AnswerFundamentals, Answer, Asked, CallOK
<1>5. CASE AnswerExplainMove
  BY <1>5 DEF AnswerExplainMove, Answer, Asked, CallOK
<1>6. CASE AnswerBacktest
  BY <1>6 DEF AnswerBacktest, Answer, Asked, CallOK
<1>7. CASE AnswerRule
  BY <1>7 DEF AnswerRule, Answer, Asked, CallOK
<1>8. CASE AnswerAgent
  BY <1>8 DEF AnswerAgent, Answer, Asked, CallOK
<1>9. CASE AnswerReturned
  BY <1>9 DEF AnswerReturned, NoCall, CallOK
<1> QED BY <1>1, <1>2, <1>3, <1>4, <1>5, <1>6, <1>7, <1>8, <1>9 DEF ToolNext

LEMMA CallInvariant == Spec => []CallOK
<1>1. Init => CallOK
  BY DEF Init, CallInit, NoCall, CallOK
<1>2. CallOK /\ [Next]_vars => CallOK'
  BY ToolNextOK DEF Next, vars, CallOK
<1> QED BY <1>1, <1>2, PTL DEF Spec

-----------------------------------------------------------------------------
\* The tables and processes stay well typed: in particular whatever is stored
\* of a company is of a kind that SEC published, and whatever a cycle ranks is a
\* strategy that exists (fundamentals_backfill.py, research_scoring.py).
THEOREM DeskTypeCorrect == Spec => []TypeOK
<1>1. SystemInv /\ CallOK => TypeOK
  BY DEF SystemInv, DeployInv, LoadsInv, WorkerInv, CallOK, TypeOK
<1> QED BY <1>1, DeskSystemInvariant, CallInvariant, PTL

\* For any number of containers and migrations.
THEOREM DeskMigrationsOnce == Spec => []MigrationsOnce
<1>1. SystemInv => MigrationsOnce
  BY DEF SystemInv, DeployInv, ServicesMayStart, MigrationsOnce
<1> QED BY <1>1, DeskSystemInvariant, PTL

\* For any companies and filings, also of companies SEC does not know.
THEOREM DeskCompletedLoadIsComplete == Spec => []CompletedLoadIsComplete
<1>1. SystemInv => CompletedLoadIsComplete
  BY LoadsInvPromises DEF SystemInv
<1> QED BY <1>1, DeskSystemInvariant, PTL

\* For any companies, wherever the first step failed and whatever it left behind.
THEOREM DeskSecStepsAreTried == Spec => []SecStepsAreTried
<1>1. SystemInv => SecStepsAreTried
  BY LoadsInvPromises DEF SystemInv
<1> QED BY <1>1, DeskSystemInvariant, PTL

\* For any filings and restatements, in whatever order they become known.
THEOREM DeskPointInTime == Spec => []PointInTime
<1>1. SystemInv => PointInTime
  BY DEF SystemInv, WorkerInv
<1> QED BY <1>1, DeskSystemInvariant, PTL

\* For any list of configured strategies, of which some may not exist.
THEOREM DeskHourlyClockMeansRanked == Spec => []HourlyClockMeansRanked
<1>1. SystemInv => HourlyClockMeansRanked
  BY DEF SystemInv, WorkerInv
<1> QED BY <1>1, DeskSystemInvariant, PTL

-----------------------------------------------------------------------------
\* After any step of a call an answer is a good one: only its own tool gives it.
LEMMA AnswersAreGood ==
  ASSUME CallOK, ToolNext
  PROVE  /\ RulesSeeTheirMetrics' /\ EvidenceIsTheWindow'
         /\ NormalizedFromLatestFilings' /\ BucketsAreComparable'
         /\ ConversationsAreAnswered' /\ ScoresAreCrossSectional'
<1>1. ASSUME "answer" \in DOMAIN call'
      PROVE  /\ call'.tool = "rule" => GoodRule(call'.input, call'.answer)
             /\ call'.tool = "explain" => GoodExplanation(call'.input, call'.answer)
             /\ call'.tool = "fundamentals" => GoodFundamentals(call'.input, call'.answer)
             /\ call'.tool = "backtest" => GoodBacktest(call'.input, call'.answer)
             /\ call'.tool = "agent" => GoodConversation(call'.answer)
             /\ call'.tool = "scan" => GoodScan(call'.input, call'.answer)
             /\ call'.tool = "rank" => GoodRank(call'.input, call'.answer)
  <2>1. CASE AnswerRule
    <3> DEFINE F(x) == Verdict(x.rule, ResolveMetrics(x.world, ReferencedMetrics(x.rule)))
    <3>1. call' = [tool |-> "rule", input |-> call.input, answer |-> F(call.input)]
      BY <2>1 DEF AnswerRule, Answer
    <3>2. GoodRule(call.input, F(call.input))
      BY GoodRules
    <3> HIDE DEF F
    <3> QED BY <3>1, <3>2
  <2>2. CASE AnswerExplainMove
    <3> DEFINE F(x) == ExplainMove(x.bars, x.events, x.lookback, x.window)
    <3>1. call' = [tool |-> "explain", input |-> call.input, answer |-> F(call.input)]
      BY <2>2 DEF AnswerExplainMove, Answer
    <3>2. GoodExplanation(call.input, F(call.input))
      BY <2>2, GoodExplanations, DeskConstants DEF AnswerExplainMove, Answer, Asked, CallOK
    <3> HIDE DEF F
    <3> QED BY <3>1, <3>2
  <2>3. CASE AnswerFundamentals
    <3> DEFINE F(x) == ComputeFundamentals(x, 20)
    <3>1. call' = [tool |-> "fundamentals", input |-> call.input, answer |-> F(call.input)]
      BY <2>3 DEF AnswerFundamentals, Answer
    <3>2. GoodFundamentals(call.input, F(call.input))
      BY <2>3, GoodMetrics, DeskConstants DEF AnswerFundamentals, Answer, Asked, CallOK
    <3> HIDE DEF F
    <3> QED BY <3>1, <3>2
  <2>4. CASE AnswerBacktest
    <3> DEFINE F(x) == Report(x.histories, x.bench, x.every, x.warmup, x.horizon, x.buckets)
    <3>1. call' = [tool |-> "backtest", input |-> call.input, answer |-> F(call.input)]
      BY <2>4 DEF AnswerBacktest, Answer
    <3>2. GoodBacktest(call.input, F(call.input))
      BY <2>4, GoodBacktests, DeskConstants DEF AnswerBacktest, Answer, Asked, CallOK
    <3> HIDE DEF F
    <3> QED BY <3>1, <3>2
  <2>5. CASE AnswerAgent
    <3> DEFINE F(x) == RunScript(x).messages
    <3>1. call' = [tool |-> "agent", input |-> call.input, answer |-> F(call.input)]
      BY <2>5 DEF AnswerAgent, Answer
    <3>2. GoodConversation(F(call.input))
      BY <2>5, GoodConversations, DeskConstants DEF AnswerAgent, Answer, Asked, CallOK
    <3> HIDE DEF F
    <3> QED BY <3>1, <3>2
  <2>6. CASE AnswerScan
    <3> DEFINE F(x) == Scan(x.tapes, x.bench, x.confidence, x.limit)
    <3>1. call' = [tool |-> "scan", input |-> call.input, answer |-> F(call.input)]
      BY <2>6 DEF AnswerScan, Answer
    <3>2. GoodScan(call.input, F(call.input))
      BY <2>6, GoodScans, DeskConstants DEF AnswerScan, Answer, Asked, CallOK
    <3> HIDE DEF F
    <3> QED BY <3>1, <3>2
  <2>7. CASE AnswerRank
    <3> DEFINE F(x) == RankResearch(x, Profile)
    <3>1. call' = [tool |-> "rank", input |-> call.input, answer |-> F(call.input)]
      BY <2>7 DEF AnswerRank, Answer
    <3>2. GoodRank(call.input, F(call.input))
      BY <2>7, GoodRanks, DeskConstants DEF AnswerRank, Answer, Asked, CallOK
    <3> HIDE DEF F
    <3> QED BY <3>1, <3>2
  <2>8. ASSUME NEW tool \in DOMAIN Pool, Ask(tool)
        PROVE  FALSE
    BY <1>1, <2>8 DEF Ask
  <2>9. CASE AnswerReturned
    BY <1>1, <2>9 DEF AnswerReturned, NoCall
  <2> QED BY <2>1, <2>2, <2>3, <2>4, <2>5, <2>6, <2>7, <2>8, <2>9 DEF ToolNext
<1>2. RulesSeeTheirMetrics'
  BY <1>1 DEF RulesSeeTheirMetrics, Answered
<1>3. EvidenceIsTheWindow'
  BY <1>1 DEF EvidenceIsTheWindow, Answered
<1>4. NormalizedFromLatestFilings'
  BY <1>1 DEF NormalizedFromLatestFilings, Answered
<1>5. BucketsAreComparable'
  BY <1>1 DEF BucketsAreComparable, Answered
<1>6. ConversationsAreAnswered'
  BY <1>1 DEF ConversationsAreAnswered, Answered
<1>7. ScoresAreCrossSectional'
  BY <1>1 DEF ScoresAreCrossSectional, Answered
<1> QED BY <1>2, <1>3, <1>4, <1>5, <1>6, <1>7

\* For any rule, any tapes, research scores and filings, and any names of the
\* profiles.
THEOREM DeskRulesSeeTheirMetrics == Spec => []RulesSeeTheirMetrics
<1>1. Init => RulesSeeTheirMetrics
  BY DEF Init, CallInit, NoCall, RulesSeeTheirMetrics, Answered
<1>2. CallOK /\ RulesSeeTheirMetrics /\ [Next]_vars => RulesSeeTheirMetrics'
  BY AnswersAreGood DEF Next, vars, RulesSeeTheirMetrics, Answered
<1> QED BY <1>1, <1>2, CallInvariant, PTL DEF Spec

\* For any history, any finite set of events, and any lookback and window.
THEOREM DeskEvidenceIsTheWindow == Spec => []EvidenceIsTheWindow
<1>1. Init => EvidenceIsTheWindow
  BY DEF Init, CallInit, NoCall, EvidenceIsTheWindow, Answered
<1>2. CallOK /\ EvidenceIsTheWindow /\ [Next]_vars => EvidenceIsTheWindow'
  BY AnswersAreGood DEF Next, vars, EvidenceIsTheWindow, Answered
<1> QED BY <1>1, <1>2, CallInvariant, PTL DEF Spec

\* For any facts of a company in any order, and any lists of candidate tags.
THEOREM DeskNormalizedFromLatestFilings == Spec => []NormalizedFromLatestFilings
<1>1. Init => NormalizedFromLatestFilings
  BY DEF Init, CallInit, NoCall, NormalizedFromLatestFilings, Answered
<1>2. CallOK /\ NormalizedFromLatestFilings /\ [Next]_vars => NormalizedFromLatestFilings'
  BY AnswersAreGood DEF Next, vars, NormalizedFromLatestFilings, Answered
<1> QED BY <1>1, <1>2, CallInvariant, PTL DEF Spec

\* For any histories, with any gaps, and any spacing, horizon and number of buckets.
THEOREM DeskBucketsAreComparable == Spec => []BucketsAreComparable
<1>1. Init => BucketsAreComparable
  BY DEF Init, CallInit, NoCall, BucketsAreComparable, Answered
<1>2. CallOK /\ BucketsAreComparable /\ [Next]_vars => BucketsAreComparable'
  BY AnswersAreGood DEF Next, vars, BucketsAreComparable, Answered
<1> QED BY <1>1, <1>2, CallInvariant, PTL DEF Spec

\* For any responses of the model, permitted tools, number of turns and retries.
THEOREM DeskConversationsAreAnswered == Spec => []ConversationsAreAnswered
<1>1. Init => ConversationsAreAnswered
  BY DEF Init, CallInit, NoCall, ConversationsAreAnswered, Answered
<1>2. CallOK /\ ConversationsAreAnswered /\ [Next]_vars => ConversationsAreAnswered'
  BY AnswersAreGood DEF Next, vars, ConversationsAreAnswered, Answered
<1> QED BY <1>1, <1>2, CallInvariant, PTL DEF Spec

\* For any tapes, benchmark, limit and confidence, and for any inputs and gates,
\* weights and penalties of a profile: of up to a million symbols, which is as
\* many as a percentile of four decimals can rank.
THEOREM DeskScoresAreCrossSectional == Spec => []ScoresAreCrossSectional
<1>1. Init => ScoresAreCrossSectional
  BY DEF Init, CallInit, NoCall, ScoresAreCrossSectional, Answered
<1>2. CallOK /\ ScoresAreCrossSectional /\ [Next]_vars => ScoresAreCrossSectional'
  BY AnswersAreGood DEF Next, vars, ScoresAreCrossSectional, Answered
<1> QED BY <1>1, <1>2, CallInvariant, PTL DEF Spec

==============================================================================
