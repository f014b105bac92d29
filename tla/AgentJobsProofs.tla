--------------------------- MODULE AgentJobsProofs ---------------------------
(***************************************************************************)
(* Proofs about AgentJobs, for any budgets, caps and costs.                *)
(***************************************************************************)
EXTENDS AgentJobs, FiniteSetTheorems, SequenceTheorems, TLAPS

\* Turns beyond the token budget are paid for by grounding retries; an answer
\* and what the check said of it go together.
RunInv ==
  /\ result.steps <= MaxSteps
  /\ phase = "list" => result = Fresh
  /\ phase = "llm" => result.steps < MaxSteps
  /\ overspent + retriesLeft <= GroundingRetries
  /\ phase = "llm" /\ Spent => overspent + retriesLeft < GroundingRetries
  /\ result.stop = "answered" =>
       \/ result.grounding = "ok" /\ result.answer \in {"blank", "grounded"}
       \/ result.grounding = "failed"

\* A run goes on exactly in the loop over the candidates, whose window reaches
\* back an hour or more from the start of each run.
ControlInv ==
  /\ phase = "off" <=> job # "runs"
  /\ job = "budget" => since <= now - Hour
  /\ job = "runs" =>
       /\ left \in 1 .. MaxPerHour
       /\ startedAt <= now /\ since <= startedAt - Hour

\* A log with no entry younger than the one after it, none from after the given
\* time, and never more entries in an hour than the cap.
Kept(log, time) ==
  /\ log \in Seq(Nat)
  /\ \A i \in 1 .. Len(log) : log[i] <= time
  /\ \A i, j \in 1 .. Len(log) : i <= j => log[i] <= log[j]
  /\ HourlyCap(log)

\* Room for n more entries: those that must have left the window by then left
\* it before the given time.
Room(log, n, from) ==
  \A i \in 1 .. Len(log) : i <= Len(log) - (MaxPerHour - n) => log[i] < from

\* The budget is looked up once: there is room for every run that is left.
LogInv ==
  /\ Kept(runLog, now)
  /\ job = "runs" =>
       /\ \A i \in 1 .. Len(runLog) : runLog[i] <= startedAt
       /\ Room(runLog, left, since)

IInv == TypeOK /\ RunInv /\ ControlInv /\ LogInv /\ NotesAreGrounded

-----------------------------------------------------------------------------
\* The run.
LEMMA BeginsInv ==
  ASSUME NEW at \in {"off", "list"}, Begins(at)
  PROVE  RunnerTypeOK' /\ RunInv' /\ phase' = at
<1>1. Fresh \in Result
  BY DEF Fresh, Result
<1>2. /\ phase' = at /\ result' = Fresh /\ retriesLeft' = GroundingRetries
      /\ toolCalls' = 0 /\ failed' = FALSE /\ overspent' = 0
  BY DEF Begins
<1>3. RunnerTypeOK'
  <2>1. failed' \in BOOLEAN /\ result' \in Result
    BY <1>1, <1>2
  <2>2. /\ retriesLeft' \in 0 .. GroundingRetries /\ toolCalls' \in 0 .. MaxToolCalls
        /\ overspent' \in Nat
    BY <1>2, RunnerConstants
  <2>3. phase' \in {"off", "list", "llm", "tools", "save"}
    BY <1>2
  <2> QED BY <2>1, <2>2, <2>3 DEF RunnerTypeOK
<1>4. Fresh.steps = 0 /\ Fresh.stop # "answered"
  BY DEF Fresh
<1>5. RunInv'
  BY <1>2, <1>4, RunnerConstants DEF RunInv
<1> QED BY <1>2, <1>3, <1>5

\* What the model's response does, whatever it says.
LEMMA RespondsFacts ==
  ASSUME RunnerTypeOK, RunInv, NEW cost \in TurnTokens,
         NEW answer \in Texts \cup {"none", "placeholder"},
         NEW stop \in {"max_steps", "answered", "token_budget"},
         NEW grounding \in {"unchecked", "ok", "failed"},
         Responds(cost, answer, stop, grounding)
  PROVE  /\ phase = "llm"
         /\ result' \in Result
         /\ result'.steps = result.steps + 1 /\ result'.steps <= MaxSteps
         /\ result'.answer = answer /\ result'.stop = stop
         /\ result'.grounding = grounding
         /\ overspent' \in Nat /\ overspent' + retriesLeft <= GroundingRetries
         /\ failed' = failed
<1>1. /\ phase = "llm" /\ failed' = failed
      /\ result' = [answer |-> answer, stop |-> stop, grounding |-> grounding,
                    steps |-> result.steps + 1, tokens |-> result.tokens + cost]
      /\ overspent' = IF Spent THEN overspent + 1 ELSE overspent
  BY DEF Responds
<1>2. result.steps \in Nat /\ result.tokens \in Nat /\ cost \in Nat
  BY RunnerConstants DEF RunnerTypeOK, Result
<1>3. result' \in Result
  BY <1>1, <1>2 DEF Result
<1>4. result'.steps <= MaxSteps
  BY <1>1, <1>2, RunnerConstants DEF RunInv
<1>5. overspent' \in Nat /\ overspent' + retriesLeft <= GroundingRetries
  BY <1>1, RunnerConstants DEF RunInv, RunnerTypeOK
<1> QED BY <1>1, <1>3, <1>4, <1>5

\* The arithmetic of a retry.
LEMMA OneRetryLess ==
  \A spent, remaining \in Nat : \A most \in Nat :
    remaining > 0 /\ remaining <= most /\ spent + remaining <= most =>
      /\ remaining - 1 \in 0 .. most
      /\ spent + (remaining - 1) < most /\ spent + (remaining - 1) <= most
  OBVIOUS

\* Every step of a run keeps the run's invariants, and no step ends it.
LEMMA RunnerStepInv ==
  ASSUME RunnerTypeOK, RunInv, RunnerStep
  PROVE  RunnerTypeOK' /\ RunInv' /\ phase' # "off" /\ phase # "off"
<1>0. result.steps \in Nat /\ result.tokens \in Nat /\ MaxSteps \in Nat
  BY RunnerConstants DEF RunnerTypeOK, Result
<1>1. CASE ListTools
  <2>1. Fresh.steps = 0 /\ Fresh.tokens = 0 /\ Fresh.stop # "answered"
    BY DEF Fresh
  <2>2. ~Spent' /\ result' = Fresh /\ result = Fresh /\ phase' = "llm"
    BY <1>1, <2>1, RunnerConstants DEF ListTools, Spent, RunInv
  <2> QED BY <1>1, <2>1, <2>2, RunnerConstants DEF ListTools, RunInv, RunnerTypeOK
<1>2. ASSUME NEW cost \in TurnTokens, NEW n \in 1 .. MaxToolCalls, AsksForTools(cost, n)
      PROVE  RunnerTypeOK' /\ RunInv' /\ phase' # "off" /\ phase # "off"
  <2>1. /\ Responds(cost, result.answer, result.stop, result.grounding)
        /\ toolCalls' = n /\ phase' = "tools" /\ retriesLeft' = retriesLeft
    BY <1>2 DEF AsksForTools
  <2>2. /\ result.answer \in Texts \cup {"none", "placeholder"}
        /\ result.stop \in {"max_steps", "answered", "token_budget"}
        /\ result.grounding \in {"unchecked", "ok", "failed"}
    BY DEF RunnerTypeOK, Result
  <2>3. /\ result' \in Result /\ result'.steps <= MaxSteps /\ phase = "llm"
        /\ result'.answer = result.answer /\ result'.stop = result.stop
        /\ result'.grounding = result.grounding
        /\ overspent' \in Nat /\ overspent' + retriesLeft <= GroundingRetries
        /\ failed' = failed
    BY <2>1, <2>2, RespondsFacts
  <2>4. RunnerTypeOK'
    BY <2>1, <2>3, RunnerConstants DEF RunnerTypeOK
  <2>5. RunInv'
    BY <2>1, <2>3 DEF RunInv
  <2> QED BY <2>1, <2>3, <2>4, <2>5
<1>3. ASSUME NEW cost \in TurnTokens, NEW text \in Texts, AnswersForGood(cost, text)
      PROVE  RunnerTypeOK' /\ RunInv' /\ phase' # "off" /\ phase # "off"
  <2> DEFINE checked == IF text = "ungrounded" THEN "failed" ELSE "ok"
  <2>1. /\ Responds(cost, text, "answered", checked)
        /\ phase' = "save" /\ retriesLeft' = retriesLeft /\ toolCalls' = toolCalls
    BY <1>3 DEF AnswersForGood
  <2>2. checked \in {"unchecked", "ok", "failed"}
    OBVIOUS
  <2>3. \/ checked = "ok" /\ text \in {"blank", "grounded"}
        \/ checked = "failed"
    BY DEF Texts
  <2> HIDE DEF checked
  <2>4. /\ result' \in Result /\ result'.steps <= MaxSteps /\ phase = "llm"
        /\ result'.answer = text /\ result'.grounding = checked
        /\ overspent' \in Nat /\ overspent' + retriesLeft <= GroundingRetries
        /\ failed' = failed
    BY <2>1, <2>2, RespondsFacts
  <2>5. RunnerTypeOK'
    BY <2>1, <2>4 DEF RunnerTypeOK
  <2>6. RunInv'
    BY <2>1, <2>3, <2>4 DEF RunInv
  <2> QED BY <2>1, <2>4, <2>5, <2>6
<1>4. ASSUME NEW cost \in TurnTokens, AnswerSentBack(cost)
      PROVE  RunnerTypeOK' /\ RunInv' /\ phase' # "off" /\ phase # "off"
  <2>1. /\ Responds(cost, "ungrounded", "answered", "failed")
        /\ retriesLeft > 0 /\ retriesLeft' = retriesLeft - 1
        /\ phase' = phase /\ toolCalls' = toolCalls /\ result.steps + 1 # MaxSteps
    BY <1>4 DEF AnswerSentBack
  <2>2. /\ result' \in Result /\ result'.steps <= MaxSteps /\ phase = "llm"
        /\ result'.steps = result.steps + 1 /\ result'.grounding = "failed"
        /\ overspent' \in Nat /\ overspent' + retriesLeft <= GroundingRetries
        /\ failed' = failed
    BY <2>1, RespondsFacts DEF Texts
  <2>3. /\ retriesLeft' \in 0 .. GroundingRetries
        /\ overspent' + retriesLeft' < GroundingRetries
        /\ overspent' + retriesLeft' <= GroundingRetries
    <3> DEFINE spent == overspent'
    <3>1. /\ retriesLeft \in Nat /\ retriesLeft <= GroundingRetries
          /\ GroundingRetries \in Nat /\ retriesLeft > 0
      BY <2>1, RunnerConstants DEF RunnerTypeOK
    <3>2. spent \in Nat /\ spent + retriesLeft <= GroundingRetries
      BY <2>2
    <3> HIDE DEF spent
    <3>3. /\ retriesLeft - 1 \in 0 .. GroundingRetries
          /\ spent + (retriesLeft - 1) < GroundingRetries
          /\ spent + (retriesLeft - 1) <= GroundingRetries
      BY <3>1, <3>2, OneRetryLess
    <3>4. /\ retriesLeft' \in 0 .. GroundingRetries
          /\ spent + retriesLeft' < GroundingRetries
          /\ spent + retriesLeft' <= GroundingRetries
      BY <2>1, <3>3
    <3> QED BY <3>4 DEF spent
  <2>4. RunnerTypeOK'
    BY <2>1, <2>2, <2>3 DEF RunnerTypeOK
  <2>5. result'.steps < MaxSteps
    BY <1>0, <2>1, <2>2
  <2>6. RunInv'
    <3>1. phase' = "llm" /\ result'.grounding = "failed"
      BY <2>1, <2>2
    <3>2. result'.steps <= MaxSteps
      BY <2>2
    <3>3. overspent' + retriesLeft' <= GroundingRetries
      BY <2>3
    <3> QED BY <2>3, <2>5, <3>1, <3>2, <3>3 DEF RunInv
  <2> QED BY <2>1, <2>2, <2>4, <2>6
<1>5. CASE CallTool
  <2>1. /\ phase = "tools" /\ toolCalls' = toolCalls - 1 /\ toolCalls > 1
        /\ phase' = phase /\ result' = result /\ retriesLeft' = retriesLeft
        /\ failed' = failed /\ overspent' = overspent
    BY <1>5 DEF CallTool
  <2>2. RunnerTypeOK'
    BY <2>1, RunnerConstants DEF RunnerTypeOK
  <2>3. RunInv'
    BY <2>1 DEF RunInv
  <2> QED BY <2>1, <2>2, <2>3
<1>6. CASE GoesOn
  <2>1. ~Spent'
    BY <1>6 DEF GoesOn, Spent
  <2> QED BY <1>6, <2>1, RunnerConstants DEF GoesOn, RunnerTypeOK, RunInv
<1>7. CASE RunsOutOfBudget
  <2>1. /\ phase = "tools" /\ phase' = "save" /\ toolCalls' = 0
        /\ UNCHANGED <<retriesLeft, failed, overspent>>
        /\ result' = [result EXCEPT !.stop = IF Spent THEN "token_budget" ELSE @,
                                    !.answer = IF @ = "none" THEN "placeholder" ELSE @]
    BY <1>7 DEF RunsOutOfBudget
  <2>2. /\ result' \in Result /\ result'.steps = result.steps
        /\ result'.grounding = result.grounding
        /\ result'.stop = "answered" => result.stop = "answered"
        /\ result.answer \in {"blank", "grounded"} => result'.answer = result.answer
    BY <2>1 DEF RunnerTypeOK, Result
  <2>3. RunnerTypeOK'
    BY <2>1, <2>2, RunnerConstants DEF RunnerTypeOK
  <2>4. RunInv'
    BY <2>1, <2>2 DEF RunInv
  <2> QED BY <2>1, <2>3, <2>4
<1>8. CASE RunRaises
  BY <1>8 DEF RunRaises, RunnerTypeOK, RunInv
<1> QED BY <1>1, <1>2, <1>3, <1>4, <1>5, <1>6, <1>7, <1>8 DEF RunnerStep

-----------------------------------------------------------------------------
\* The log.
LEMMA MinOfThree ==
  ASSUME NEW a \in Int, NEW b \in Int, NEW c \in Int
  PROVE  /\ Min({a, b, c}) \in {a, b, c}
         /\ Min({a, b, c}) <= a /\ Min({a, b, c}) <= b /\ Min({a, b, c}) <= c
<1> DEFINE S == {a, b, c}
<1>1. \E x \in S : \A y \in S : x <= y
  <2>1. CASE a <= b /\ a <= c
    BY <2>1
  <2>2. CASE b <= a /\ b <= c
    BY <2>2
  <2>3. CASE c <= a /\ c <= b
    BY <2>3
  <2> QED BY <2>1, <2>2, <2>3
<1>2. Min(S) \in S /\ \A y \in S : Min(S) <= y
  BY <1>1 DEF Min
<1> QED BY <1>2

\* A start that joins a log with room for it takes no more than its place.
LEMMA AppendKept ==
  ASSUME NEW log, NEW time \in Nat, NEW at \in Nat, NEW from \in Int,
         NEW n \in 1 .. MaxPerHour,
         Kept(log, time), at <= time, from <= at - Hour,
         \A i \in 1 .. Len(log) : log[i] <= at,
         Room(log, n, from)
  PROVE  Kept(Append(log, at), time) /\ Room(Append(log, at), n - 1, from)
<1> DEFINE new == Append(log, at)
           k == Len(log)
<1>1. /\ log \in Seq(Nat) /\ k \in Nat
      /\ \A i \in 1 .. k : log[i] \in Nat /\ log[i] <= at
  BY LenProperties, ElementOfSeq DEF Kept
<1>2. /\ new \in Seq(Nat) /\ Len(new) = k + 1 /\ DOMAIN new = 1 .. k + 1
      /\ \A i \in 1 .. k : new[i] = log[i]
      /\ new[k + 1] = at
  BY <1>1, AppendProperties, LenProperties
<1>3. MaxPerHour \in Nat \ {0} /\ Hour \in Nat /\ n \in Nat
  BY JobConstants
<1>4. \A i \in 1 .. k : i <= k - (MaxPerHour - n) => log[i] < from
  BY DEF Room
<1>5. DOMAIN log = 1 .. k /\ HourlyCap(log)
  BY <1>1, LenProperties DEF Kept
<1>6. \A i, j \in 1 .. k : i <= j => log[i] <= log[j]
  BY DEF Kept
<1> HIDE DEF new, k
<1>7. \A i \in 1 .. k + 1 : i \in 1 .. k \/ i = k + 1
  BY <1>1
<1>8. \A i \in 1 .. k + 1 : new[i] \in Nat /\ new[i] <= at
  <2> SUFFICES ASSUME NEW i \in 1 .. k + 1 PROVE new[i] \in Nat /\ new[i] <= at
    OBVIOUS
  <2>1. CASE i \in 1 .. k
    BY <2>1, <1>1, <1>2
  <2>2. CASE i = k + 1
    BY <2>2, <1>2
  <2> QED BY <2>1, <2>2, <1>7
<1>9. \A i \in 1 .. k + 1 : new[i] <= time
  <2> SUFFICES ASSUME NEW i \in 1 .. k + 1 PROVE new[i] <= time
    OBVIOUS
  <2> QED BY <1>8
<1>10. \A i, j \in 1 .. k + 1 : i <= j => new[i] <= new[j]
  <2> SUFFICES ASSUME NEW i \in 1 .. k + 1, NEW j \in 1 .. k + 1, i <= j
               PROVE  new[i] <= new[j]
    OBVIOUS
  <2>1. CASE j = k + 1
    BY <2>1, <1>2, <1>8
  <2>2. CASE j \in 1 .. k
    <3>1. i \in 1 .. k
      BY <2>2, <1>1
    <3> QED BY <2>2, <3>1, <1>2, <1>6
  <2> QED BY <2>1, <2>2, <1>7
<1>11. HourlyCap(new)
  <2> SUFFICES ASSUME NEW i \in 1 .. k + 1, i + MaxPerHour \in 1 .. k + 1
               PROVE  new[i + MaxPerHour] - new[i] > Hour
    BY <1>2 DEF HourlyCap
  <2>0. i \in Nat /\ i \in 1 .. k
    BY <1>1, <1>3
  <2>1. CASE i + MaxPerHour \in 1 .. k
    <3>1. log[i + MaxPerHour] - log[i] > Hour
      BY <2>0, <2>1, <1>5 DEF HourlyCap
    <3> QED BY <2>0, <2>1, <3>1, <1>2
  <2>2. CASE i + MaxPerHour = k + 1
    <3>1. i <= k - (MaxPerHour - n)
      BY <2>0, <2>2, <1>1, <1>3
    <3>2. log[i] < from /\ log[i] \in Nat
      BY <2>0, <3>1, <1>1, <1>4
    <3>3. at - log[i] > Hour
      BY <3>2, <1>3
    <3> QED BY <2>0, <2>2, <3>3, <1>2
  <2> QED BY <2>1, <2>2, <1>7
<1>12. Room(new, n - 1, from)
  <2> SUFFICES ASSUME NEW i \in 1 .. k + 1, i <= k + 1 - (MaxPerHour - (n - 1))
               PROVE  new[i] < from
    BY <1>1, <1>2, <1>3 DEF Room
  <2>1. i <= k - (MaxPerHour - n)
    BY <1>1, <1>3
  <2>2. i \in 1 .. k
    BY <2>1, <1>1, <1>3
  <2> QED BY <2>1, <2>2, <1>2, <1>4
<1>13. Kept(new, time)
  BY <1>2, <1>9, <1>10, <1>11 DEF Kept
<1> QED BY <1>12, <1>13 DEF new

\* What the budget counts among the newest entries of a log is all of the log
\* that is in the window, unless it is the whole cap.
LEMMA CountLeavesRoom ==
  ASSUME NEW log, NEW time \in Nat, NEW from \in Int, Kept(log, time),
         NEW used,
         used = Cardinality({i \in {i \in DOMAIN log : i > Len(log) - MaxPerHour} :
                               log[i] >= from}),
         NEW n \in 1 .. MaxPerHour, n <= MaxPerHour - used
  PROVE  Room(log, n, from)
<1> DEFINE k == Len(log)
           Counted == {i \in {i \in DOMAIN log : i > k - MaxPerHour} : log[i] >= from}
<1>1. /\ log \in Seq(Nat) /\ k \in Nat /\ DOMAIN log = 1 .. k
      /\ \A i \in 1 .. k : log[i] \in Nat
      /\ \A i, j \in 1 .. k : i <= j => log[i] <= log[j]
  BY LenProperties, ElementOfSeq DEF Kept
<1>2. IsFiniteSet(1 .. k) /\ Counted \subseteq 1 .. k
  BY <1>1, FS_Interval
<1>3. used = Cardinality(Counted) /\ IsFiniteSet(Counted)
  BY <1>2, FS_Subset
<1>4. used \in Nat /\ MaxPerHour \in Nat /\ n \in Nat /\ used < MaxPerHour
  BY <1>3, FS_CardinalityType, JobConstants
<1> SUFFICES ASSUME NEW i \in 1 .. k, i <= k - (MaxPerHour - n), ~(log[i] < from)
             PROVE  FALSE
  BY DEF Room
<1>5. i <= k - used
  BY <1>1, <1>4
<1>6. (k - used) .. k \subseteq Counted
  <2> SUFFICES ASSUME NEW j \in (k - used) .. k PROVE j \in Counted
    OBVIOUS
  <2>0. /\ j \in Int /\ i \in Nat /\ 1 <= i /\ k - used <= j /\ j <= k
        /\ k \in Nat /\ used \in Nat /\ MaxPerHour \in Nat /\ used < MaxPerHour
        /\ i <= k - used
    BY <1>1, <1>4, <1>5
  <2>1. j \in 1 .. k /\ i <= j /\ j > k - MaxPerHour
    <3> HIDE DEF k
    <3> QED BY <2>0
  <2>2. log[i] <= log[j] /\ log[i] \in Nat /\ log[j] \in Nat
    BY <1>1, <2>1
  <2>3. log[j] >= from
    BY <2>2
  <2> QED BY <1>1, <2>1, <2>3
<1> HIDE DEF Counted, k
<1>7. Cardinality((k - used) .. k) = used + 1
  <2>1. k - used \in Int /\ k \in Int /\ k - used <= k
    BY <1>1, <1>4
  <2>2. Cardinality((k - used) .. k) = k - (k - used) + 1
    BY <2>1, FS_Interval
  <2> QED BY <2>2, <1>1, <1>4
<1>8. Cardinality((k - used) .. k) <= Cardinality(Counted)
  BY <1>3, <1>6, FS_Subset
<1> QED BY <1>3, <1>4, <1>7, <1>8

-----------------------------------------------------------------------------
\* The job.

\* The current run may be put on record at any time.
LEMMA RecordedKept ==
  ASSUME IInv, job = "runs"
  PROVE  Kept(Recorded, now) /\ Room(Recorded, left - 1, since)
<1>1. now \in Nat /\ startedAt \in Nat /\ since \in Int
  BY JobConstants DEF IInv, TypeOK
<1>2. left \in 1 .. MaxPerHour /\ startedAt <= now /\ since <= startedAt - Hour
  BY DEF IInv, ControlInv
<1>3. /\ Kept(runLog, now) /\ Room(runLog, left, since)
      /\ \A i \in 1 .. Len(runLog) : runLog[i] <= startedAt
  BY DEF IInv, LogInv
<1> QED BY <1>1, <1>2, <1>3, AppendKept DEF Recorded

\* A cancelled run leaves the log in order, with or without its row.
LEMMA CancelledKept ==
  ASSUME IInv, Cancelled
  PROVE  Kept(runLog', now)
<1>1. CASE phase = "save"
  <2>1. job = "runs"
    BY <1>1 DEF IInv, ControlInv
  <2>2. runLog' = Recorded \/ runLog' = runLog
    BY <1>1 DEF Cancelled
  <2> QED BY <2>1, <2>2, RecordedKept DEF IInv, LogInv
<1>2. CASE phase # "save"
  <2>1. runLog' = runLog
    BY <1>2 DEF Cancelled
  <2> QED BY <2>1 DEF IInv, LogInv
<1> QED BY <1>1, <1>2

\* Leaving the investigation, on whatever path.
LEMMA LeavesInv ==
  ASSUME IInv, NEW to \in {"idle", "send"}, NEW written \in SUBSET {"grounded"},
         Leaves(to, written), Kept(runLog', now), now' = now, starts' = starts,
         restarts' \in Nat
  PROVE  IInv'
<1>1. /\ job' = to /\ candidates' = 0 /\ since' = 0 /\ left' = 0 /\ startedAt' = 0
      /\ notes' = written /\ Begins("off")
  BY DEF Leaves, NoRun
<1>2. RunnerTypeOK' /\ RunInv' /\ phase' = "off"
  BY <1>1, BeginsInv
<1>3. runLog' \in Seq(Nat) /\ starts' \in Seq(Nat) /\ now' \in 0 .. MaxClock
  BY DEF Kept, IInv, TypeOK
<1>4. TypeOK'
  <2>1. left' \in 0 .. MaxPerCycle /\ candidates' \in 0 .. MaxCandidates
    BY <1>1, JobConstants
  <2>2. startedAt' \in Nat /\ since' \in Int /\ notes' \subseteq Texts \cup {"none", "placeholder"}
    BY <1>1 DEF Texts
  <2> QED BY <1>1, <1>2, <1>3, <2>1, <2>2 DEF TypeOK, InvestigationPhases
<1>5. ControlInv' /\ LogInv' /\ NotesAreGrounded'
  BY <1>1, <1>2 DEF ControlInv, LogInv, NotesAreGrounded
<1> QED BY <1>2, <1>4, <1>5 DEF IInv

\* Going on to the next run, or to the end of the investigation.
LEMMA NextRunInv ==
  ASSUME IInv, NEW n \in 0 .. MaxPerCycle, left' = n, NextRun(n), n <= MaxPerHour,
         Kept(runLog', now), n > 0 => Room(runLog', n, since), since <= now - Hour,
         now' = now, candidates' = candidates, since' = since,
         notes' \subseteq {"grounded"}, starts' = starts, restarts' = restarts
  PROVE  IInv'
<1>1. n \in Nat /\ now \in Nat /\ Hour \in Nat /\ MaxPerHour \in Nat /\ since \in Int
  BY JobConstants DEF IInv, TypeOK
<1>2. /\ runLog' \in Seq(Nat) /\ starts' \in Seq(Nat) /\ now' \in 0 .. MaxClock
      /\ candidates' \in 0 .. MaxCandidates /\ since' \in Int /\ restarts' \in Nat
      /\ left' \in 0 .. MaxPerCycle
      /\ notes' \subseteq Texts \cup {"none", "placeholder"} /\ NotesAreGrounded'
  BY DEF Kept, IInv, TypeOK, Texts, NotesAreGrounded
<1>3. CASE n = 0
  <2>1. Begins("off") /\ job' = "teardown" /\ startedAt' = 0
    BY <1>1, <1>3 DEF NextRun, NoRun
  <2>2. RunnerTypeOK' /\ RunInv' /\ phase' = "off"
    BY <2>1, BeginsInv
  <2>3. TypeOK'
    BY <1>2, <2>1, <2>2 DEF TypeOK, InvestigationPhases
  <2>4. ControlInv' /\ LogInv'
    BY <2>1, <2>2 DEF ControlInv, LogInv
  <2> QED BY <1>2, <2>2, <2>3, <2>4 DEF IInv
<1>4. CASE n > 0
  <2>1. Begins("list") /\ job' = "runs" /\ startedAt' = now
    BY <1>1, <1>4 DEF NextRun, StartRun
  <2>2. RunnerTypeOK' /\ RunInv' /\ phase' = "list"
    BY <2>1, BeginsInv
  <2>3. TypeOK'
    BY <1>1, <1>2, <2>1, <2>2 DEF TypeOK, InvestigationPhases
  <2>4. ControlInv'
    BY <1>1, <1>4, <2>1, <2>2 DEF ControlInv
  <2>5. LogInv'
    <3>1. \A i \in 1 .. Len(runLog') : runLog'[i] <= startedAt'
      BY <2>1 DEF Kept
    <3>2. Room(runLog', left', since')
      BY <1>4
    <3> QED BY <3>1, <3>2 DEF LogInv
  <2> QED BY <1>2, <2>2, <2>3, <2>4, <2>5 DEF IInv
<1> QED BY <1>1, <1>3, <1>4

\* What the budget leaves fits the cycle, the hour and the log.
LEMMA BudgetFits ==
  ASSUME IInv, NEW n, n = Min({candidates, MaxPerCycle, MaxPerHour - Used})
  PROVE  /\ n \in 0 .. MaxPerCycle /\ n <= MaxPerHour
         /\ n > 0 => Room(runLog, n, since)
<1> DEFINE k == Len(runLog)
           Counted == {i \in NewestRuns : runLog[i] >= since}
<1>1. /\ runLog \in Seq(Nat) /\ k \in Nat /\ DOMAIN runLog = 1 .. k
      /\ MaxPerHour \in Nat /\ MaxPerCycle \in Nat /\ candidates \in Nat
      /\ now \in Nat /\ since \in Int /\ Kept(runLog, now)
  BY LenProperties, JobConstants DEF IInv, TypeOK, LogInv
<1>2. NewestRuns \subseteq (k - MaxPerHour + 1) .. k
  <2> SUFFICES ASSUME NEW i \in 1 .. k, i > k - MaxPerHour
               PROVE  i \in (k - MaxPerHour + 1) .. k
    BY <1>1 DEF NewestRuns
  <2> HIDE DEF k
  <2> QED BY <1>1
<1>3. IsFiniteSet(NewestRuns) /\ Cardinality(NewestRuns) <= MaxPerHour
  <2> DEFINE window == (k - MaxPerHour + 1) .. k
  <2>1. k - MaxPerHour + 1 \in Int /\ k \in Int
    BY <1>1
  <2>2. IsFiniteSet(window) /\
        Cardinality(window) = IF k - MaxPerHour + 1 > k THEN 0 ELSE k - (k - MaxPerHour + 1) + 1
    BY <2>1, FS_Interval
  <2>3. Cardinality(window) = MaxPerHour
    BY <2>2, <1>1
  <2>4. IsFiniteSet(window) /\ NewestRuns \in SUBSET window
    BY <1>2, <2>2
  <2> HIDE DEF window
  <2>5. IsFiniteSet(NewestRuns) /\ Cardinality(NewestRuns) <= Cardinality(window)
    BY <2>4, FS_Subset
  <2> QED BY <2>3, <2>5
<1>4. Used \in 0 .. MaxPerHour
  <2>1. IsFiniteSet(Counted) /\ Cardinality(Counted) <= Cardinality(NewestRuns)
    BY <1>3, FS_Subset
  <2>2. Cardinality(Counted) \in Nat /\ Cardinality(NewestRuns) \in Nat
    BY <1>3, <2>1, FS_CardinalityType
  <2>3. Used = Cardinality(Counted)
    BY DEF Used
  <2> HIDE DEF Counted
  <2> QED BY <1>1, <1>3, <2>1, <2>2, <2>3
<1> DEFINE room == MaxPerHour - Used
<1>5. room \in Nat /\ room <= MaxPerHour
  BY <1>1, <1>4
<1> HIDE DEF room
<1>6. n \in {candidates, MaxPerCycle, room} /\ n <= MaxPerCycle /\ n <= room
  <2>1. n = Min({candidates, MaxPerCycle, room})
    BY DEF room
  <2>2. candidates \in Int /\ MaxPerCycle \in Int /\ room \in Int
    BY <1>1, <1>5
  <2>3. /\ Min({candidates, MaxPerCycle, room}) \in {candidates, MaxPerCycle, room}
        /\ Min({candidates, MaxPerCycle, room}) <= MaxPerCycle
        /\ Min({candidates, MaxPerCycle, room}) <= room
    BY <2>2, MinOfThree
  <2> QED BY <2>1, <2>3
<1>7. n \in Nat /\ n <= MaxPerHour
  BY <1>1, <1>5, <1>6
<1>8. ASSUME n > 0 PROVE Room(runLog, n, since)
  <2>1. n \in 1 .. MaxPerHour
    BY <1>7, <1>8
  <2>2. n <= MaxPerHour - Used
    BY <1>6 DEF room
  <2> QED BY <1>1, <2>1, <2>2, CountLeavesRoom DEF Used, NewestRuns
<1> QED BY <1>1, <1>6, <1>7, <1>8

-----------------------------------------------------------------------------
\* The invariant.
LEMMA InitInv == Init => IInv
<1> SUFFICES ASSUME Init PROVE IInv
  OBVIOUS
<1>1. Fresh \in Result /\ Fresh.steps = 0 /\ Fresh.stop = "max_steps"
  BY DEF Fresh, Result
<1>2. RunnerTypeOK
  <2>1. /\ phase = "off" /\ result = Fresh /\ retriesLeft = GroundingRetries
        /\ toolCalls = 0 /\ failed = FALSE /\ overspent = 0
    BY DEF Init, RunnerInit
  <2>2. retriesLeft \in 0 .. GroundingRetries /\ toolCalls \in 0 .. MaxToolCalls
    BY <2>1, RunnerConstants
  <2>3. failed \in BOOLEAN /\ result \in Result
    BY <1>1, <2>1
  <2> QED BY <2>1, <2>2, <2>3 DEF RunnerTypeOK
<1>3. RunInv
  BY <1>1, RunnerConstants DEF Init, RunnerInit, RunInv
<1>4. runLog = << >> /\ Len(runLog) = 0 /\ DOMAIN runLog = {} /\ runLog \in Seq(Nat)
  BY DEF Init
<1>5. TypeOK
  BY <1>2, <1>4, JobConstants DEF Init, TypeOK
<1>6. ControlInv /\ NotesAreGrounded
  BY DEF Init, RunnerInit, ControlInv, NotesAreGrounded
<1>7. Kept(runLog, now)
  BY <1>4 DEF Kept, HourlyCap
<1>8. LogInv
  BY <1>7 DEF Init, LogInv
<1> QED BY <1>2, <1>3, <1>5, <1>6, <1>8 DEF IInv

LEMMA StepInv == IInv /\ [Next]_vars => IInv'
<1> SUFFICES ASSUME IInv, [Next]_vars PROVE IInv'
  OBVIOUS
<1>0. /\ TypeOK /\ RunnerTypeOK /\ RunInv /\ ControlInv /\ LogInv /\ NotesAreGrounded
      /\ Kept(runLog, now) /\ restarts \in Nat /\ notes \subseteq {"grounded"}
  BY DEF IInv, TypeOK, LogInv, NotesAreGrounded
<1>1. ASSUME NEW n \in 0 .. MaxCandidates, AlertsFire(n) PROVE IInv'
  <2>1. /\ job = "idle" /\ job' = "setup" /\ candidates' = n
        /\ UNCHANGED <<runnerVars, now, since, left, startedAt, notes, runLog, starts, restarts>>
    BY <1>1 DEF AlertsFire
  <2>2. RunnerTypeOK' /\ RunInv'
    BY <1>0, <2>1 DEF RunnerTypeOK, RunInv, Spent, runnerVars
  <2>3. TypeOK'
    BY <1>0, <2>1, <2>2 DEF TypeOK, InvestigationPhases
  <2>4. ControlInv' /\ LogInv' /\ NotesAreGrounded'
    BY <1>0, <2>1 DEF ControlInv, LogInv, NotesAreGrounded, runnerVars
  <2> QED BY <2>2, <2>3, <2>4 DEF IInv
<1>2. CASE Connect
  <2>1. /\ job = "setup" /\ job' = IF candidates = 0 THEN "teardown" ELSE "budget"
        /\ since' = IF candidates = 0 THEN since ELSE now - Hour
        /\ UNCHANGED <<runnerVars, now, candidates, left, startedAt, notes, runLog, starts, restarts>>
    BY <1>2 DEF Connect
  <2>2. RunnerTypeOK' /\ RunInv'
    BY <1>0, <2>1 DEF RunnerTypeOK, RunInv, Spent, runnerVars
  <2>3. TypeOK'
    BY <1>0, <2>1, <2>2, JobConstants DEF TypeOK, InvestigationPhases
  <2>4. ControlInv'
    BY <1>0, <2>1, JobConstants DEF ControlInv, TypeOK, runnerVars
  <2>5. LogInv' /\ NotesAreGrounded'
    BY <1>0, <2>1 DEF LogInv, NotesAreGrounded
  <2> QED BY <2>2, <2>3, <2>4, <2>5 DEF IInv
<1>3. CASE ConnectRaises
  BY <1>0, <1>3, LeavesInv DEF ConnectRaises
<1>4. CASE LookUpBudget
  <2> DEFINE n == Min({candidates, MaxPerCycle, MaxPerHour - Used})
  <2>1. /\ job = "budget" /\ left' = n /\ NextRun(left')
        /\ UNCHANGED <<now, candidates, since, notes, runLog, starts, restarts>>
    BY <1>4 DEF LookUpBudget
  <2>2. /\ n \in 0 .. MaxPerCycle /\ n <= MaxPerHour
        /\ n > 0 => Room(runLog, n, since)
    BY BudgetFits
  <2> HIDE DEF n
  <2>3. NextRun(n) /\ since <= now - Hour
    BY <1>0, <2>1 DEF ControlInv
  <2> QED BY <1>0, <2>1, <2>2, <2>3, NextRunInv
<1>5. CASE BudgetRaises
  <2>1. /\ job = "budget" /\ job' = "teardown" /\ notes' = {}
        /\ UNCHANGED <<runnerVars, now, candidates, since, left, startedAt, runLog, starts, restarts>>
    BY <1>5 DEF BudgetRaises
  <2>2. RunnerTypeOK' /\ RunInv'
    BY <1>0, <2>1 DEF RunnerTypeOK, RunInv, Spent, runnerVars
  <2>3. TypeOK'
    BY <1>0, <2>1, <2>2 DEF TypeOK, InvestigationPhases
  <2>4. ControlInv' /\ LogInv' /\ NotesAreGrounded'
    BY <1>0, <2>1 DEF ControlInv, LogInv, NotesAreGrounded, runnerVars
  <2> QED BY <2>2, <2>3, <2>4 DEF IInv
<1>6. CASE RunnerRuns
  <2>1. /\ job = "runs" /\ RunnerStep
        /\ UNCHANGED <<now, job, candidates, since, left, startedAt, notes, runLog, restarts>>
        /\ starts' = starts \/ starts' = Append(starts, startedAt)
    BY <1>6 DEF RunnerRuns, jobVars
  <2>2. RunnerTypeOK' /\ RunInv' /\ phase' # "off" /\ phase # "off"
    BY <1>0, <2>1, RunnerStepInv
  <2>3. starts' \in Seq(Nat)
    <3>1. starts \in Seq(Nat) /\ startedAt \in Nat
      BY <1>0 DEF TypeOK
    <3>2. Append(starts, startedAt) \in Seq(Nat)
      BY <3>1, AppendProperties
    <3> QED BY <2>1, <3>1, <3>2
  <2>4. TypeOK'
    BY <1>0, <2>1, <2>2, <2>3 DEF TypeOK
  <2>5. ControlInv' /\ LogInv' /\ NotesAreGrounded'
    BY <1>0, <2>1, <2>2 DEF ControlInv, LogInv, NotesAreGrounded
  <2> QED BY <2>2, <2>4, <2>5 DEF IInv
<1>7. CASE RunEnds
  <2> DEFINE n == left - 1
  <2>1. /\ job = "runs" /\ phase = "save" /\ left' = n /\ NextRun(left')
        /\ runLog' = Recorded \/ runLog' = runLog
        /\ notes' = notes \cup Note
        /\ UNCHANGED <<now, candidates, since, starts, restarts>>
    BY <1>7 DEF RunEnds
  <2>2. /\ left \in 1 .. MaxPerHour /\ left \in 0 .. MaxPerCycle
        /\ startedAt <= now /\ since <= startedAt - Hour
        /\ now \in Nat /\ startedAt \in Nat /\ since \in Int /\ Hour \in Nat
        /\ MaxPerHour \in Nat /\ MaxPerCycle \in Nat
    BY <1>0, <2>1, JobConstants DEF ControlInv, TypeOK
  <2>3. n \in 0 .. MaxPerCycle /\ n <= MaxPerHour /\ since <= now - Hour
    BY <2>2
  <2>4. notes' \subseteq {"grounded"}
    <3>1. Note \subseteq {"grounded"}
      <4> SUFFICES ASSUME result.stop = "answered", result.grounding # "failed",
                          result.answer # "blank"
                   PROVE  result.answer = "grounded"
        BY DEF Note
      <4> QED BY <1>0 DEF RunInv
    <3> QED BY <1>0, <2>1, <3>1
  <2>5. Kept(runLog', now) /\ Room(runLog', n, since)
    <3>1. Kept(Recorded, now) /\ Room(Recorded, left - 1, since)
      BY <2>1, RecordedKept
    <3>2. Room(runLog, left, since)
      BY <1>0, <2>1 DEF LogInv
    <3>3. Room(runLog, n, since)
      <4>1. Len(runLog) \in Nat
        BY <1>0, LenProperties DEF TypeOK
      <4> SUFFICES ASSUME NEW i \in 1 .. Len(runLog), i <= Len(runLog) - (MaxPerHour - (left - 1))
                   PROVE  i <= Len(runLog) - (MaxPerHour - left)
        BY <3>2 DEF Room
      <4> QED BY <2>2, <4>1
    <3> QED BY <1>0, <2>1, <3>1, <3>3
  <2> HIDE DEF n
  <2>6. NextRun(n)
    BY <2>1
  <2> QED BY <2>1, <2>3, <2>4, <2>5, <2>6, NextRunInv
<1>8. CASE TearDown
  <2>1. PICK written \in {notes, {}} : Leaves("send", written)
    BY <1>8 DEF TearDown
  <2>2. now' = now /\ runLog' = runLog /\ starts' = starts /\ restarts' = restarts
    BY <1>8 DEF TearDown
  <2> QED BY <1>0, <2>1, <2>2, LeavesInv
<1>9. CASE TimesOut
  BY <1>0, <1>9, CancelledKept, LeavesInv DEF TimesOut
<1>10. CASE Send
  BY <1>0, <1>10, LeavesInv DEF Send
<1>11. CASE SchedulerRestarts
  <2>1. /\ restarts' \in Nat /\ Cancelled /\ Leaves("idle", {})
        /\ now' = now /\ starts' = starts
    BY <1>0, <1>11 DEF SchedulerRestarts
  <2> QED BY <2>1, CancelledKept, LeavesInv
<1>12. CASE TimePasses
  <2>1. /\ now < MaxClock /\ now' = now + 1
        /\ UNCHANGED <<runnerVars, jobVars, runLog, starts, restarts>>
    BY <1>12 DEF TimePasses
  <2>2. RunnerTypeOK' /\ RunInv'
    BY <1>0, <2>1 DEF RunnerTypeOK, RunInv, Spent, runnerVars
  <2>3. now \in Nat /\ now' \in 0 .. MaxClock /\ Hour \in Nat
    BY <1>0, <2>1, JobConstants DEF TypeOK
  <2>4. TypeOK'
    BY <1>0, <2>1, <2>2, <2>3 DEF TypeOK, jobVars
  <2>5. ControlInv'
    BY <1>0, <2>1, <2>3 DEF ControlInv, TypeOK, jobVars, runnerVars
  <2>6. Kept(runLog, now')
    <3>1. \A i \in 1 .. Len(runLog) : runLog[i] <= now + 1
      <4> SUFFICES ASSUME NEW i \in 1 .. Len(runLog) PROVE runLog[i] <= now + 1
        OBVIOUS
      <4>1. runLog[i] <= now /\ runLog[i] \in Nat
        BY <1>0, ElementOfSeq DEF Kept
      <4> QED BY <2>3, <4>1
    <3> QED BY <1>0, <2>1, <3>1 DEF Kept
  <2>7. LogInv' /\ NotesAreGrounded'
    BY <1>0, <2>1, <2>6 DEF LogInv, NotesAreGrounded, jobVars
  <2> QED BY <2>2, <2>4, <2>5, <2>7 DEF IInv
<1>13. CASE UNCHANGED vars
  <2>1. UNCHANGED <<runnerVars, now, job, candidates, since, left, startedAt, notes,
                    runLog, starts, restarts>>
    BY <1>13 DEF vars, jobVars
  <2>2. RunnerTypeOK' /\ RunInv'
    BY <1>0, <2>1 DEF RunnerTypeOK, RunInv, Spent, runnerVars
  <2>3. TypeOK'
    BY <1>0, <2>1, <2>2 DEF TypeOK
  <2>4. ControlInv' /\ LogInv' /\ NotesAreGrounded'
    BY <1>0, <2>1 DEF ControlInv, LogInv, NotesAreGrounded, runnerVars
  <2> QED BY <2>2, <2>3, <2>4 DEF IInv
<1> QED BY <1>1, <1>2, <1>3, <1>4, <1>5, <1>6, <1>7, <1>8, <1>9, <1>10, <1>11, <1>12,
           <1>13 DEF Next

LEMMA Invariance == Spec => []IInv
  BY InitInv, StepInv, PTL DEF Spec

-----------------------------------------------------------------------------
\* Every variable keeps to its type.
THEOREM TypeCorrect == Spec => []TypeOK
<1>1. IInv => TypeOK
  BY DEF IInv
<1> QED BY Invariance, <1>1, PTL

\* A run asks for at most grounding_retries turns beyond its tokens, and for at
\* most max_steps in all, whatever the model answers and costs.
THEOREM RunsAreBounded == Spec => []RunIsBounded
<1>1. IInv => RunIsBounded
  <2> SUFFICES ASSUME IInv PROVE RunIsBounded
    OBVIOUS
  <2>1. /\ overspent \in Nat /\ retriesLeft \in Nat /\ GroundingRetries \in Nat
        /\ overspent + retriesLeft <= GroundingRetries /\ result.steps <= MaxSteps
    BY RunnerConstants DEF IInv, TypeOK, RunnerTypeOK, RunInv
  <2> QED BY <2>1 DEF RunIsBounded
<1> QED BY Invariance, <1>1, PTL

\* Of the investigations on record no more than the cap start in any hour,
\* across cycles, cancellations and restarts.
THEOREM RecordedSpendHolds == Spec => []RecordedSpendIsCapped
<1>1. IInv => RecordedSpendIsCapped
  BY DEF IInv, LogInv, Kept, RecordedSpendIsCapped
<1> QED BY Invariance, <1>1, PTL

\* No note has failed the grounding check.
THEOREM NotesPassTheCheck == Spec => []NotesAreGrounded
<1>1. IInv => NotesAreGrounded
  BY DEF IInv
<1> QED BY Invariance, <1>1, PTL

=============================================================================
