------------------------------ MODULE AgentJobs ------------------------------
(***************************************************************************)
(* The notes an agent writes for fired alerts, before they are delivered:  *)
(* evaluate_alerts (apps/scheduler/__main__.py), investigate_alerts        *)
(* (apps/scheduler/alert_agent_job.py) and AlertInvestigator               *)
(* (agent/alert_investigator.py) around the runs of AgentRunner.  There    *)
(* is one alert job at a time.  Its investigation, which may wait for a    *)
(* model, is cancelled by a timeout at whatever await it has reached.      *)
(*                                                                         *)
(* Here the clock does not go back: an hour of a clock that is set back    *)
(* has no cap to speak of.                                                 *)
(***************************************************************************)
EXTENDS AgentRunner, Sequences, FiniteSetsExt

CONSTANTS
  MaxPerHour,     \* agent_alert_max_per_hour
  MaxPerCycle,    \* agent_alert_max_per_cycle
  Hour,
  MaxCandidates,  \* bound: symbols with an alert of sufficient severity
  MaxClock,       \* bound: the last reading of the clock
  MaxRestarts,    \* bound: restarts of the scheduler
  MaxStarts       \* bound: how many starts the history remembers

ASSUME JobConstants ==
  /\ MaxPerHour \in Nat \ {0}
  /\ MaxPerCycle \in Nat \ {0}
  /\ Hour \in Nat
  /\ MaxCandidates \in Nat
  /\ MaxClock \in Nat
  /\ MaxRestarts \in Nat
  /\ MaxStarts \in Nat

VARIABLES
  now,        \* the wall clock
  job,        \* where the alert job is
  candidates, \* alerted symbols of sufficient severity
  since,      \* what the budget counts as the start of the last hour
  left,       \* investigations the cycle has yet to finish
  startedAt,  \* the start of the current run
  notes,      \* the notes written so far
  runLog,     \* agent_run: the start of each investigation, as inserted
  starts,     \* history: the start of each that asked the model, recorded or not
  restarts    \* history: restarts of the scheduler

jobVars == <<job, candidates, since, left, startedAt, notes>>
vars == <<runnerVars, now, jobVars, runLog, starts, restarts>>

InvestigationPhases == {"setup", "budget", "runs", "teardown"}

TypeOK ==
  /\ RunnerTypeOK
  /\ now \in 0 .. MaxClock
  /\ job \in InvestigationPhases \cup {"idle", "send"}
  /\ candidates \in 0 .. MaxCandidates
  /\ since \in Int
  /\ left \in 0 .. MaxPerCycle
  /\ startedAt \in Nat
  /\ notes \subseteq Texts \cup {"none", "placeholder"}
  /\ runLog \in Seq(Nat)
  /\ starts \in Seq(Nat)
  /\ restarts \in Nat

Init ==
  /\ RunnerInit
  /\ now = 0
  /\ job = "idle" /\ candidates = 0 /\ since = 0 /\ left = 0 /\ startedAt = 0
  /\ notes = {}
  /\ runLog = << >>
  /\ starts = << >>
  /\ restarts = 0

\* The job goes on at the given place, its investigation being over.
Leaves(to, written) ==
  /\ job' = to
  /\ candidates' = 0 /\ since' = 0 /\ left' = 0 /\ startedAt' = 0
  /\ notes' = written
  /\ NoRun

\* AlertEngine has fired; n symbols are above the severity floor.
AlertsFire(n) ==
  /\ job = "idle"
  /\ job' = "setup"
  /\ candidates' = n
  /\ UNCHANGED <<runnerVars, now, since, left, startedAt, notes, runLog, starts, restarts>>

\* resources.connect succeeds; with a candidate the budget is looked up next.
Connect ==
  /\ job = "setup"
  /\ job' = IF candidates = 0 THEN "teardown" ELSE "budget"
  /\ since' = IF candidates = 0 THEN since ELSE now - Hour
  /\ UNCHANGED <<runnerVars, now, candidates, left, startedAt, notes, runLog, starts, restarts>>

\* connect raises, outside the job's try.
ConnectRaises ==
  /\ job = "setup"
  /\ Leaves("send", {})
  /\ UNCHANGED <<now, runLog, starts, restarts>>

\* With n more investigations to make, start one or be done.
NextRun(n) ==
  \/ /\ n = 0
     /\ NoRun
     /\ job' = "teardown"
     /\ startedAt' = 0
  \/ /\ n > 0
     /\ StartRun
     /\ job' = "runs"
     /\ startedAt' = now

\* list_runs(limit = max_per_hour): the rows that started last, which are those
\* inserted last, for investigations follow one another.
NewestRuns == {i \in DOMAIN runLog : i > Len(runLog) - MaxPerHour}

\* Mutant: a run that started exactly an hour ago does not count.
UsedAfter == Cardinality({i \in NewestRuns : runLog[i] > since})

\* started_at >= since.
Used == Cardinality({i \in NewestRuns : runLog[i] >= since})

\* Mutant: the cap per cycle is not applied.
LookUpBudgetOfHour ==
  /\ job = "budget"
  /\ left' = Min({candidates, MaxPerHour - Used})
  /\ NextRun(left')
  /\ UNCHANGED <<now, candidates, since, notes, runLog, starts, restarts>>

\* _budget, and the slice of candidates.
LookUpBudget ==
  /\ job = "budget"
  /\ left' = Min({candidates, MaxPerCycle, MaxPerHour - Used})
  /\ NextRun(left')
  /\ UNCHANGED <<now, candidates, since, notes, runLog, starts, restarts>>

RunnerRuns ==
  /\ job = "runs"
  /\ RunnerStep
  /\ starts' = IF phase = "list" /\ phase' = "llm" /\ Len(starts) < MaxStarts
                 THEN Append(starts, startedAt)
                 ELSE starts
  /\ UNCHANGED <<now, jobVars, runLog, restarts>>

Recorded == Append(runLog, startedAt)

\* Mutant: the stop reason is not looked at.
NoteOfAnyRun ==
  IF ~failed /\ result.grounding # "failed" /\ result.answer # "blank"
    THEN {result.answer}
    ELSE {}

\* What investigate keeps of a run: a grounded answer with text.
Note ==
  IF ~failed /\ result.stop = "answered" /\ result.grounding # "failed"
             /\ result.answer # "blank"
    THEN {result.answer}
    ELSE {}

\* The run is recorded, or save_run raises (logged), and the next one starts.
RunEnds ==
  /\ job = "runs" /\ phase = "save"
  /\ runLog' \in {Recorded, runLog}
  /\ notes' = notes \cup Note
  /\ left' = left - 1
  /\ NextRun(left')
  /\ UNCHANGED <<now, candidates, since, starts, restarts>>

\* The query of the budget raises, which ends the investigation.
BudgetRaises ==
  /\ job = "budget"
  /\ job' = "teardown"
  /\ notes' = {}
  /\ UNCHANGED <<runnerVars, now, candidates, since, left, startedAt, runLog, starts, restarts>>

\* The clients are closed; an exception there loses the notes.
TearDown ==
  /\ job = "teardown"
  /\ \E written \in {notes, {}} : Leaves("send", written)
  /\ UNCHANGED <<now, runLog, starts, restarts>>

\* A run that is cancelled while its row is being inserted may leave the row.
Cancelled ==
  runLog' \in IF phase = "save" THEN {Recorded, runLog} ELSE {runLog}

\* Mutant: cancelled only between two awaits of a run.
TimesOutBetweenRuns ==
  /\ job \in InvestigationPhases /\ phase = "off"
  /\ Cancelled
  /\ Leaves("send", {})
  /\ UNCHANGED <<now, starts, restarts>>

\* wait_for's timeout: the plain alert is sent.
TimesOut ==
  /\ job \in InvestigationPhases
  /\ Cancelled
  /\ Leaves("send", {})
  /\ UNCHANGED <<now, starts, restarts>>

\* notifier.send, which may raise: the job ends in any case.
Send ==
  /\ job = "send"
  /\ Leaves("idle", {})
  /\ UNCHANGED <<now, runLog, starts, restarts>>

SchedulerRestarts ==
  /\ job # "idle"
  /\ restarts < MaxRestarts
  /\ restarts' = restarts + 1
  /\ Cancelled
  /\ Leaves("idle", {})
  /\ UNCHANGED <<now, starts>>

TimePasses ==
  /\ now < MaxClock
  /\ now' = now + 1
  /\ UNCHANGED <<runnerVars, jobVars, runLog, starts, restarts>>

Next ==
  \/ \E n \in 0 .. MaxCandidates : AlertsFire(n)
  \/ Connect \/ ConnectRaises
  \/ LookUpBudget \/ BudgetRaises
  \/ RunnerRuns \/ RunEnds
  \/ TearDown \/ TimesOut \/ Send
  \/ SchedulerRestarts
  \/ TimePasses

Spec == Init /\ [][Next]_vars

\* The event loop's timer fires; nothing obliges the model or a tool to answer.
FairSpec == Spec /\ WF_vars(TimesOut)

-----------------------------------------------------------------------------
\* At most MaxPerHour of the times lie in any hour, both ends included.
HourlyCap(times) ==
  \A i \in DOMAIN times :
    i + MaxPerHour \in DOMAIN times => times[i + MaxPerHour] - times[i] > Hour

\* Investigations on record keep to the hourly cap, although the budget is
\* looked up once per cycle, before runs that take any time, across cycles that
\* are cut off and restarts (_budget and investigate).
RecordedSpendIsCapped == HourlyCap(runLog)

\* Every note is an answer that passed the grounding check, whatever came before
\* it in its run: never a superseded answer, never the text of a run that ran
\* out of budget (investigate's conditions on the result).
NotesAreGrounded == notes \subseteq {"grounded"}

\* Fired alerts get to the notifier, whatever becomes of their investigation and
\* even if the model never answers, unless the scheduler restarts ("every
\* failure degrades to no note", alert_investigator.py).
AlertsReachTheNotifier ==
  \A n \in 0 .. MaxRestarts :
    (job \in InvestigationPhases /\ restarts = n) ~> (job = "send" \/ restarts > n)

\* "Spend is capped per hour and per cycle" (alert_investigator.py): also that
\* of investigations that were cancelled before they were recorded.
SpendIsCapped == HourlyCap(starts)

=============================================================================
