# Sentinel Vantage in TLA+

A verification project for the Sentinel Vantage research assistant
(`src/sentinel_vantage`): TLA+ modules for the parts whose behaviour depends on
interleaving, time, failures and restarts, TLC runs that check them on small
instances, and TLAPS proofs of what matters most for every instance.

## 1. The system

Three long-running processes share one Postgres database and one Redis server
(`deploy/docker-compose.yml` starts one container of each):

* the **MCP server** answers tool calls of an LLM client and edits alert rules
  and watchlists;
* the **scheduler** evaluates alert rules every five minutes, loads new bars
  once a day and sends a daily brief;
* the **market worker** scores the universe every minute, persists features and
  scores and publishes ranks to Redis.

Each is one asyncio process: code runs without interruption between two awaits,
and every database or Redis call is an await.  Nothing uses an explicit
transaction or a lock, except the rate limiter.  A model therefore has one
action per await (or per stretch of code between two), and every SQL statement
and every Redis `MULTI` is one atomic step.

### Inventory

| Component (source) | State | Operations | Interacts with | What is hard | Correct when |
|---|---|---|---|---|---|
| Alert tables (`storage/alert_repos.py`) | `alert_rule`, `watchlist`, `alert_event` rows | upsert, delete, list active, recent events | tools and evaluator | upserts bring deleted rows back | see the two next rows |
| Alert tools (`apps/mcp_server/server.py` 191-339) | what a call has read and not yet written | create/update/delete watchlist, create/disable/delete rule | alert tables | read, await, write without a lock | a retired rule stays silent; a deletion is final (it is not) |
| Alert engine (`domain/alerts`) | one cycle's listing, rule, symbols, events | `run_once` | tables, metric resolver | listing goes stale during the cycle; an exception ends it half-way | cooldown between events; no firing symbol missed; every active rule evaluated |
| Scheduler (`apps/scheduler`) | the running job | alert job, daily backfill, brief | engine, notifier, provider | restart between save and send | nothing is sent twice; what fired is sent (it is not always) |
| Rate limiter (`core/ratelimit.py`) | permits of the window, lock, sleeper | `acquire` | provider | lock held across a sleep, cancellation, early timers | the rolling window holds; nobody sleeps too long; the lock is never stranded |
| Polygon client (`providers/market_data/polygon.py`) | attempt, delay | `_get` with backoff | limiter, API | retries against pacing | a permit per attempt; the backoff schedule |
| Backfill (`apps/market_worker/backfill.py`, `apps/bootstrap.py`) | `market_bar` rows, position in the symbol list | fetch and store per symbol; skip when any bar exists | provider, worker | two jobs may overlap; scoring while one is half done; a crash leaves a partial load that is never completed | bars are never lost or rewritten |
| Market worker and trend service (`apps/market_worker`, `domain/trend`) | a cycle's as-of, histories, features, results | scan, persist features, persist scores, publish | bars, snapshots, rank cache | bars change under a scan; crash between the writes | no look-ahead; a score has its features; ranks never go back in time and end up current |
| Rank caches (`storage/rank_cache.py`, `research_rank_cache.py`) | ranked set, latest results | publish, top, latest | worker, query tools | two reads that are not atomic | a reader never sees a result that was not published |
| Deployment (`storage/migrate.py`, `apps/seed.py`) | applied versions, securities | migrate, seed | all services wait for it | two starters at once, a crash between two files | each file applied once, in order, before the services start |
| Bootstrap and SEC loads (`apps/bootstrap.py`, `fundamentals_backfill.py`, `events_backfill.py`) | facts, events, company links | first load, load a company | worker, tools, SEC | loads that stop half-way, a failed step before another one | a load that ends is complete; the second step does not depend on the first |
| Research cycle (`research_scoring.py`, `domain/research/service.py`) | hourly clock, strategy scores, published ranks | `run_research_cycle`, `rank` | worker, SEC loads, cache | facts inserted while they are read, a strategy that raises | point-in-time facts; every strategy tried; ranks end up current |
| Research computations (`normalize.py`, `engine.py`, `gates.py`) | none (pure) | metrics, scores | research cycle and tools | restated facts, missing periods, ties | latest version of each year; gates before scores |
| Catalysts (`domain/catalysts`) | none (reads events) | `explain_move` | filing events | a query and a filter with windows of their own | the evidence is every event of the window, best first |
| Agent (`agent/runner.py`, `alert_investigator.py`, `brief.py`) | turns, tool calls, token use, hourly budget | run, record, investigate | LLM, tools, scheduler | timeouts in the middle of a run, budgets counted after the fact | bounded turns; the spend is capped |
| Backtest (`backtest/`) | none (pure) | walk-forward, metrics | bars | boundary sizes | no look-ahead, metrics well defined |
| Features, gates, scoring (`domain/features`, `domain/trend/scoring.py`) | none (pure) | features, z-scores, percentiles | trend service | one or no symbol, ties | percentile and z-score bounds |
| Alert metrics and conditions (`domain/alerts/resolver.py`, `evaluator.py`) | none (pure) | resolve, evaluate | alert engine, scan, caches | only what a rule refers to is computed; names and ids of profiles | the same verdict as on all the values |
| Health, freshness, envelope (`core/`) | none | report | server | - | - |
| LLM backends (`agent/llm.py`) | none | encode a conversation | agent | refused and failed calls, retries | a conversation the APIs accept |
| News and SEC clients | none of ours | HTTP | loaders | external | - |


## 2. Plan

Order of work, most important behaviour first.  The modules of the table are
written and checked; what their parts leave out is in section 8.

| # | Part | Modules | Abstract specification | Questions | Theorems |
|---|---|---|---|---|---|
| 1 | Alerts: tables, tools, evaluator, delivery | `AlertStore` <- `AlertTools`, `AlertEngine` <- `AlertSystem`; `MCAlertSystem`, `AlertSystemProofs` | `AlertPromise` | cooldown, missed rules, retirement, delivery, deletion | types, all safety properties, refinement |
| 2 | Pacing and retries | `RateLimiter` <- `PolygonClient`; `MCPolygonClient`, `PolygonClientProofs` | `RateLimiter` is the one of `PolygonClient` | window, sleep, lock, backoff schedule | types, window, sleep, lock, backoff schedule, permits, refinement |
| 3 | Market pipeline: backfill, worker, rank cache | `MarketData`, `RankCache` <- `TrendWorker` <- `MarketSystem`; `MCMarketSystem`, `MarketSystemProofs` | - | look-ahead, consistency of the tables, ranks | types, all safety properties |
| 4 | Agent: runner, alert investigator, brief job | `AgentRunner` <- `AgentJobs`; `AgentJobsProofs` | - | bounded runs, spend caps with cancelled runs and restarts, grounded notes; left: the brief job, resources of a job closed on every path | types, all safety properties |
| 5 | Bootstrap, seeding, migrations, SEC loads | `Deployment`, `FilingLoads`; `ResearchSystemProofs` (with 6) | - | two starters, a crash between two steps, loads that stop half-way | types, all safety properties |
| 6 | Research cycle | `FilingLoads`, `Overlays` <- `ResearchWorker` <- `ResearchSystem`; `ResearchSystemProofs` | - | restated facts, loads under a cycle, strategies and publications that raise | types, all safety properties |
| 7 | Computations on numbers: features, gates, scores, XBRL metrics, catalysts, backtest | `CrossSection` <- `TrendScan` <- `ResearchScore`, `Catalysts`, `Backtest`; `StatementMetrics`; `OrderFacts`, `DeskToolsProofs` | definitions | boundary sizes, ties, missing values, windows | evidence, metrics, buckets, cross-sectional scores |
| 8 | Rules and conversations | `AlertRules`, `Conversation`; all of 7 and 8 <- `DeskTools`; with 5 and 6 <- `Desk`; `MCDesk`, `DeskProofs` | a rule on all values | partial metrics, refused calls | partial metrics, conversations |

An arrow points from a module to those that extend it.  The system modules
compose: `AlertSystem` interleaves tools, evaluator and clock; `PolygonClient`
calls the actions of `RateLimiter` inside its own; `MarketSystem` interleaves
the market, the loading job, the worker and a reader; `AgentJobs` runs the loop of
`AgentRunner` inside the alert job; `ResearchSystem` interleaves the containers
that deploy, the loads and the research half of the worker.

## 3. What the modules say

Common conventions.  A Postgres statement and a Redis `MULTI ... EXEC` are one
atomic step; so is an `executemany`, which asyncpg runs in an implicit
transaction.  A local variable of a coroutine exists only while it runs and has
a neutral value otherwise, so that states that behave alike are equal.  A
definition whose comment calls it a mutant, or describes a wrong variant, and
which stands right before the definition it varies (such as
`CooldownSinceLate`), is a bug the properties have been tested against; no
specification uses it.

### Alerts

`AlertStore` holds the tables.  Rules and watchlists get uuid4 ids, so an id is
created once; what it is created as is a constant (`RuleDef`, `ListDef`) because
no tool edits a rule.  `Upsert` and `Delete` are the SQL statements; rows
removed can be written again.  `RecentFor` is the cooldown query, which has a lower and no
upper end.  `ClockMoves` lets the wall clock jump either way: all stamps come
from `datetime.now(UTC)`.

`AlertTools` has an action per tool, and two for `update_watchlist` and
`disable_alert_rule`, which read, await and write.  `calls` is what the calls
in flight have read.  `CallFails` ends one of them at its await.  The
description of `disable_alert_rule` says "(reversible)" (`server.py:326`), but
no tool makes a rule active again; the model has none either.  The description
of `update_watchlist` says "symbols de-duplicated" (`server.py:301`).  The code
drops the symbols to add that the row has already; a list created with a symbol
twice keeps it twice (`server.py:306-310`), and of two edits that overlap one is
lost.  No property promises either.

`AlertEngine` follows `AlertEngine.run_once` await by await:

| Action | Code |
|---|---|
| `StartCycle` | `datetime.now`, `list_active` |
| `TakeRule` | next rule of the listing, `_symbols_for` |
| `Resolve`, `ResolveRaises` | `resolver.resolve` |
| `EvaluateSymbol` | `evaluate`, `recent_for` |
| `SaveEvent` | `add_event` |
| `EndCycle`, `Deliver`, `DeliveryFails` | `evaluate_alerts` around it |
| `CycleRaises`, `SchedulerRestarts` | an exception at any await; the process ends |

Which symbols satisfy a rule is chosen freely (`Resolve(H)`): the evaluator of
conditions is a pure function, which `AlertRules` models by itself.  Each `TakeRule`
and each `EvaluateSymbol` merges the code up to the next await that reads or
writes shared state.

`AlertPromise` is what all this amounts to for a user: rules are armed and
retired for good, armed rules fire, and never twice within their cooldown.
`ImplementsPromise` maps `armed` to the rules that are active or in a running
cycle and `retired` to the other rules ever created.

### Pacing and retries

`RateLimiter` is `acquire()`: `Acquire` takes or queues for the `asyncio.Lock`,
`Grant` is the branch with room in the window, `Sleep` the other one, and
`WakeUp` ends the sleep, possibly `Resolution` early as event loop timers may.
`Cancel` covers the cancellation of a waiter, of the sleeper and of a task that
was handed the lock and has not run.  `granted` is a history variable: the deque
`times` forgets permits that have aged out, the properties must not.

`PolygonClient` is `_get`: a permit per attempt, a request, an answer after any
time, and a backoff that doubles up to `Cap` or follows `Retry-After` up to it.  The
backoff is an `asyncio.sleep` like the limiter's, so `Retry` may come `Resolution`
early too.  `trail`
is a history of the attempts of the current call.  The limiter paces *permits*.
A task may take a while between its permit and its request (`SendRequest`), so
the properties speak of permits and of one permit per request, not of the times
at which requests arrive.

### Market pipeline

`MarketData` is the market (`SessionCloses`, `Split`), the table `market_bar` and
the jobs that load it: the scheduler's, and `sv-backfill` or `sv-bootstrap` by
hand, which may overlap.  `StartBackfill` fixes the days asked for, which end today,
and the list (benchmark first); today is the session that closed last or already
the next one.  `LoadSymbol` is a round of the loop: the provider answers with the
bars it has by then of those days, up to any closed session or none at all, and the loop
goes on whatever it gets.  So the benchmark, which is asked for first, may end on an
older session than the stocks; no property says it does not.
`BackfillFails` is an exception or a stop: the symbols that are left are not loaded.
Fetching and inserting one symbol is one step: a split in between is one that comes
after the insertion, and the newest session the provider had is free.  What this leaves
out is that of two jobs that overlap, the one that asked before a split inserts last;
the only statement that tells such bars apart is the one `market_splits` violates.
A bar of a session
that is still open, which would be stored as it is and never replaced, is not modelled.
A bar is its adjustment basis, the number of splits
known to the provider when it was fetched; this is what tells a bar from the
same bar fetched later.  `InsertNew` is `ON CONFLICT DO NOTHING`.

`RankCache` is `publish` and `top`: one `MULTI`, nothing at all for an empty
result, and a reader that fetches the ranking and then the entries.

`TrendWorker` is one action per query of `run_scoring_cycle` and
`TrendService.scan`.  A number is represented by what it was computed from: the
features of a symbol are the two series they summarise, and a score, which is
relative to the other symbols, is the features of the whole cross-section.
A property about such a value is one about every number computed from it.  The
gates are the number of bars (`MinHistory`) and everything that depends on the
last bar alone (`Investable`); how old that bar is does not matter to the code
either.  Without any bar the worker waits (`NoBarsYet`).  One query reads the
histories of the universe and a second one the benchmark, which the universe leaves out; a load can insert bars between the
two.  The lookback limit of these queries, longer than the bars modelled, and
the universe and `is_active` queries, whose tables no process modelled here
changes, are left out.

`MarketSystem` adds the reader and `faults`: `FaultsEnd` marks the moment after
which no query of the worker fails, which is the premise of `RankCatchesUp`.

### Agent

`AgentRunner` is one run of the loop, an action per await: `ListTools`, a turn of
the model (`AsksForTools`, `AnswersForGood`, `AnswerSentBack`), a tool call
(`CallTool`, and `GoesOn` or `RunsOutOfBudget` for the last one of a turn), or an
exception (`RunRaises`).  The model is free to do anything at any cost in tokens.
An answer is "blank", "grounded" or "ungrounded": whether it has text and
whether `check_grounding` accepts it.  An ungrounded answer that goes back to the
model stays in the result, as it does in the code, until another one replaces it.
Which tools are called, and what they return, does not change the course of the
loop (a tool that fails or is refused gives a result like any other) and is left
to `Conversation`.

`AgentJobs` is the alert job from the moment that rules have fired to the call of
the notifier:

| Action | Code |
|---|---|
| `AlertsFire` | `evaluate_alerts` calls the investigation under `wait_for` |
| `Connect`, `ConnectRaises` | `investigate_alerts` up to its `try` |
| `LookUpBudget`, `BudgetRaises` | `_budget` and the slice of the candidates |
| `RunnerRuns` | a step of the run |
| `RunEnds` | `_record`, the condition on the result, the next candidate |
| `TearDown` | the `finally` of `investigate_alerts` |
| `TimesOut` | the timeout, at whatever await the investigation has reached |
| `Send` | the notifier |
| `SchedulerRestarts` | the process ends |

A run that is cut off while its row is being inserted may or may not leave it.
Opening and closing the clients of a job is one step each: what a failure
between two of them leaves open is not modelled, and closing them is assumed to
end.  The clock does not go back here; with a clock that is set back no cap per
hour can be stated.  Deliveries of the brief are runs of another kind, which the
budget does not count.

### Deployment, loads and the research cycle

`Deployment` is `sv-migrate && sv-seed` in any number of containers.  The set of
applied versions is read once (`StartMigrator`); a file and the insertion of its
version are one transaction (`ApplyPending`), which the primary key of
`schema_migrations` rolls back for the second of two containers, so its guard is
that the version is not recorded yet, and `MigratorFails` covers the exception.
`Seed` is the one upsert, and ends the container well.

`FilingLoads` has the two SEC jobs, company by company, and the bootstrap:

| Action | Code |
|---|---|
| `StartJob` | `sv-fundamentals`, `sv-events`; nothing without a user agent |
| `SkipUnregistered` | `continue` for a company SEC's map does not have |
| `FetchDocument`, `FetchNothing` | `set_cik`, the provider's answer |
| `SaveDocument` | `save_facts` or `save_events`, `DO NOTHING` for what is there |
| `FinishJob`, `JobFails` | the end of the loop; an exception or a stop |
| `StartBootstrap`, `LoadHistory`, `HistoryLoaded` | `_already_loaded`, the bars of each company |
| `NextSecStep`, `BootstrapDone`, `BootstrapFails` | the two SEC steps, each in a `try` of its own |

A filing is a record of company, period and day.  A later one for the same
period restates it.  What a filing reports does not change, so the record
stands for its facts.  `LoadHistory` stores what the provider has of a company, up
to all of it or nothing: `store_bars` accepts an empty answer (`backfill.py:21`)
and the load goes on, so a bootstrap that is done need not have every company's
bars.  What the bootstrap does promise is that both SEC steps are started
(`SecStepsAreTried`).  `DailyBackfill` reaches any of the companies; it is one step
here because `MarketData` has it in full.

`ResearchWorker` is `MarketWorker.run` where research is due:
`WakeUp` picks the newest session, `UnknownStrategy` is the exception of
`get_strategy`, `ReadPrices` and `ReadCompany` are the queries of
`ResearchService.rank`, one company after another, `SaveResearchScores` and
`PublishResearch` the writes, and `CycleEnds` sets the hourly clock.
`RankRaises` is an exception within the `try` of a strategy; `CycleStops` is one
outside it, or a restart.  As in `TrendWorker`, a number is represented by what it
was computed from: a company's fundamentals by the filings that count on the day
of the session, a score by the fundamentals of all companies that pass the
gates.  Price and volume gates are taken to be passed by a company with bars.

### Computations

These modules are functions of the code's inputs on small integers.  Ratios are
whole percents, a percentile has the four decimals the code rounds it to, and a
z-score is a whole number of twentieths, cut towards zero; the
thresholds the code compares z-scores with (1, 1.5, 0.75 of an average) are
whole numbers of these units.  What is cut can make two unequal numbers equal,
which the properties treat as ties.

| Module | Code | Abstracted |
|---|---|---|
| `CrossSection` | `core/stats.py` | square roots: `ZSize` counts the twentieths whose square is not beyond |
| `TrendScan` | `domain/features`, `gates.py`, `scoring.py`, the rest of `TrendService.scan` | the sigmoid of the score, which keeps the order |
| `ResearchScore` | `engine.py`, `gates.py` of `domain/research` | the sigmoid is the parameter `Squash`; profiles are records |
| `StatementMetrics` | `normalize.py` | tags are model values in the order of `tags.py` |
| `Catalysts` | `domain/catalysts` | notes and titles; times in half days |
| `Backtest` | `backtest/`, the in-memory bar repository | a rank correlation is a covariance and two variances |
| `AlertRules` | `resolver.py`, `evaluator.py` | the sources' answers are given |
| `Conversation` | messages of `runner.py`, encoders of `llm.py` | a text is empty or not |

`DeskTools` calls them: `Ask` picks the input of a call from its pool, an
`Answer...` action computes its result, `AnswerReturned` ends it.  Properties of an
answer compare it with a definition that does not follow the code's path, such as
the scan of the eligible symbols alone, the facts reversed, or the rule on all
metrics.  `Desk` puts the tools beside `ResearchSystem`.  They share no state with it
(they are given what the queries return), so calls are made in its initial
state only.

## 4. Runs

| Run | Instance | Shows |
|---|---|---|
| `alert_safety` | rules 2 (lists one symbol twice) and 3 (follows a watchlist), one call in flight, clock 0..1, two events | type invariant; `CooldownSeparation`, `FiringSymbolsAreOnRecord`, `NotifiedAtMostOnce`, `RetiredRulesStaySilent`, `ImplementsPromise` |
| `alert_liveness` | rules 1 (cannot be evaluated), 2 and 3, created and deleted freely, clock 0..1 | `ActiveRulesAreEvaluated`: also a rule behind another that can be evaluated is not starved |
| `alert_unsound_rule` (violation) | rules 1 and 2 | one bad rule starves those after it |
| `alert_delivery` (violation) | rules 2 and 4 | an exception after a save loses the message |
| `alert_deletion` (violation) | as `alert_safety` | a deleted rule or watchlist comes back |
| `http` | three tasks, limit 2 in 2 units, clock 0..3, two retries, a cap of 2, a `Retry-After` of 3 or none, timers one unit early (the backoff's too) | `WindowRespected`, `NoNeedlessSleep`, `LockIsNeverStranded`, `BackoffSchedule`, `EveryRequestHasAPermit` |
| `market` | two sessions, benchmark and two stocks, one split, two jobs that may overlap, of one and two days, and two loads | `NoLookAhead`, `InputsStillStored`, `ScoreHasFeatures`, `EntriesMatchRank`, `RankNeverGoesBack`, `RankCatchesUp` |
| `market_reconstruct` (violation) | as `market` | stored scores and stored features of a session belong to different cycles |
| `market_splits` (violation) | as `market` | bars of one symbol on two adjustment bases |
| `agent` | three candidates, two investigations per cycle and three per hour, clock 0..2 with an hour of 1; four turns, one retry, turns that cost 0 or 1 of one token; one restart | type invariant, with it the cap per cycle; `RunIsBounded`, `RecordedSpendIsCapped`, `NotesAreGrounded`, `AlertsReachTheNotifier` |
| `agent_cap` (violation) | one investigation per cycle, two per hour, the shortest of runs | runs that time out are not counted |
| `desk` | two containers and two migrations; the companies `unlisted`, unknown to SEC, and `a`, which restates a period on the second of two days; three strategies, one of which does not exist; pools of inputs for the tools | `MigrationsOnce`, `SecStepsAreTried`, `CompletedLoadIsComplete`, `PointInTime`, `HourlyClockMeansRanked`, `RanksCatchUp`; `ScoresAreCrossSectional`, `NormalizedFromLatestFilings`, `EvidenceIsTheWindow`, `BucketsAreComparable`, `RulesSeeTheirMetrics`, `ConversationsAreAnswered` |

Bounds, and why they are enough:

* `MaxNow` = 1 and cooldowns 0 and 1: an event can be as old as the cooldown and
  no older, or older by one (rule 2), and the clock can be set back.  Zero is a cooldown
  a user may store; it still separates two events of one cycle.
* `FewEvents` stops behaviours after `MaxEvents` = 2 events are on record: the
  properties compare two events.  It is a state constraint of the safety run
  only; the liveness runs need none, as every (rule, symbol) can fire at most
  once per reading of the clock there.
* One slot in `Calls`: a single pending write already meets every other tool,
  which are atomic, and every await of the evaluator.  Two pending writes of a
  watchlist overwrite each other's edit (an update can be lost), about which no
  property says anything.  `alert_liveness` has no slot:
  a late write never makes a rule active, and rules come and go without it.
* `http`: three tasks for a limit of two, so that one sleeps and one queues
  behind it; three clock units contain one whole window and a half;
  the second backoff reaches the cap, and a `Retry-After` of 3 is beyond it;
  `MaxClock` bounds the clock, not the number of permits.  Tasks
  are interchangeable, and the run has no liveness property, so symmetry is sound.
* `market`: two sessions suffice for a newer and an older bar; a stock listed in
  session 2 changes the cross-section between cycles, one that splits and drops
  below a gate in session 2 leaves it.  `MinHistory` = 1 stands for 60: the gate
  is only ever compared with a count.  `LoadDays` are 1 for the daily job and 2, all
  sessions, for the load by hand; `MaxLoads` = 2 lets the two jobs overlap,
  and one of them run twice.
* `agent`: an hour of one clock unit has both ends, and three readings of the
  clock contain an hour that has passed.  Two investigations per cycle with three
  per hour make a budget that is used up half-way through a cycle.  One token
  and costs of 0 and 1 let every turn be the one that uses the tokens up; four turns are
  enough for a retry, tools after it, and another answer.
* `MaxStarts` bounds the history of starts, which only `agent_cap` looks at; it is
  0 (no history) in `agent`.
* `desk`, system: two containers meet in every order of two files.  `unlisted`
  comes first in the list, so that what happens to it can cut `a` off.  A day
  after the first is enough for a restatement, which one strategy accepts and
  the other one's gates refuse, so that a cross-section becomes empty.
  `a` has facts and no events, so that both ways a company's load can go are taken.  `typo` stands between
  the two strategies that exist.  Loads and the worker start when both containers
  are done, and the daily load only while no other job runs: the former share no state with
  the latter, and overlapping bar loads are in the run `market`.
* `desk`, tools: three symbols have ties, a middle and, when gates fail, every smaller number.
  The tapes include one too short for the five-day return, one bar, none, and
  one without any volume; the rows of facts are all sequences of up to four out of nine
  facts, with a restatement, another value filed the same day, a second tag that has a year
  the first one may lack, a quarter and an instant; the events lie
  on both edges of the window and outside it; the horizons of the backtest are
  shorter and longer than its calendar; a conversation has up to four turns out
  of five kinds.

No run disables the deadlock check.

## 5. Fairness

`AlertSystem!FairSpec` and `MarketSystem!FairSpec` have weak fairness of one
process each: the interval trigger starts the alert job again and again and the
worker loops for ever, and an event loop runs a coroutine whose await is done.
Nothing is assumed of clients, of the loading job, of the clock or of the
market.  For alerts, `HealthyNext` also leaves out random failures and restarts:
if every cycle failed, no rule would ever be evaluated.  That costs no
generality, since after the last failure the job is idle with the tables it has
left.  For the market, failures stay in the specification and
`RankCatchesUp` has their end as its premise.  `AgentJobs!FairSpec` has weak fairness of
the timeout and of nothing else: the model, the tools and the database need
never answer, and the alert is sent all the same.  A restart excuses it, since
the fired events are then only in the table.  `ResearchSystem!SystemFairness` has weak fairness of the worker, a loop that
never returns, and of the passing of an hour; loads, which people start and which
may stop at any company, need not do anything.  `RanksCatchUp` has the end of the
worker's own failures as its premise, and failures of loads are not among these.
`RankIsCurrent` says nothing when
no stock is eligible: `publish` then returns early and the old ranking stays.

## 6. Proofs

Each `*Proofs` module proves its theorems for all values of the constants, from
the named assumptions on them, which TLC evaluates on every run
of a module that declares them.

* `StoreConstants`, `ToolConstants`, `LimiterConstants`, `ClientConstants`,
  `MarketConstants`, `WorkerConstants`, `RunnerConstants`, `JobConstants`,
  `DeploymentConstants`, `LoadConstants`, `ResearchConstants`,
  `StatementConstants` and `NoneIsNoNumber` say what kind of values the constants are, that
  `None` is not an id and not a number, and that a limit is positive.
* `DeskConstants` is about the inputs of the tools, whose pools are a constant.
  `IsExplainCall`: stored events differ in their id, and the window is positive
  (`server.py` never passes another than the default).  `IsBacktestCall`: the numbers of
  buckets and of bars between rebalances are positive, and each history is finite.
  `IsFactList` assumes nothing of how facts relate: the unique index
  (`0002_fundamentals.sql`) has the unit and the start of the period too, so two
  facts of a tag, an end of period and a day can differ (a quarter that a 10-K marks
  FY, say), and which one counts is a matter of the order of the rows.  The property itself
  says what is left then: order does not matter if there are no such facts (`Untied`), and
  in any order the revenue is one that was filed last for its tag and period.
  `IsUniverse`, in `IsScanCall` and `IsRankCall`: a scan or ranking is of at most
  1,000,001 symbols.  With more, two neighbours with different scores could share a
  percentile, which has four decimals.  `SquashConstants`: the sigmoid, in percent, is a
  natural number for every z-score within the cap of winsorizing.
  `IsScript`: a response that fails the grounding check has a text (there is nothing to find in an
  empty one).

* **`AlertSystemProofs`.**  `IInv` is inductive.  The cooldown is decided in
  `EvaluateSymbol` but the event is written in `SaveEvent`, after an await; that
  the window is still free then (`ControlInv`) holds because only the evaluator
  writes events, and needs to be part of the invariant.  `BatchInv` says that
  what the running cycle has saved was not sent yet; with it, `NotifiedAtMostOnce`
  is preserved by `Deliver`.  From `IInv` follow the invariants,
  `RetiredRulesStaySilent` and, with the same case split over `Next`, the
  refinement of `AlertPromise`.
* **`PolygonClientProofs`.**  Every step of the client is a step of the limiter
  or leaves it alone, so the limiter's theorems hold of the client.  `LInv`
  relates the deque to the history of permits: the deque is the end of the
  history (`LogInv`), what it has dropped has left the window (`ForgottenInv`),
  and a sleeper waits for its first entry (`SleepInv`), with the lock.  A grant with fewer than
  `Limit` entries left then lies a window after the permit `Limit` places before.
* **`MarketSystemProofs`.**  All properties of stored numbers are one statement
  about the snapshots behind them (`Honest`).  It is stable because bars are
  only ever added (`Keeps`); a cycle establishes it because it reads up to
  `asOf`, whatever the loads have inserted since.  `RankInv` and the bound of `asOf` from below by the
  ranking give the order of publications.
* **`AgentJobsProofs`.**  The budget is looked up once, before runs that take any
  time and are recorded as they end.  What makes it last is `Room`: the rows
  that would be an hour's quota before the last of the runs that are left had
  left the window when the budget was looked up, and each run uses up one place
  (`AppendKept`).  `CountLeavesRoom` shows that the count of the newest
  `MaxPerHour` rows, which is all the query returns, suffices; it needs the log to
  be in order, which `Kept` states and which holds because investigations do not
  overlap.  In `RunInv` every turn beyond the token budget is paid for by a
  retry, and an answer goes together with what the check said of it.

* **`PolygonClientProofs`, the client.**  `ClientInv` is about the trail of the
  current call (`CallOK`): each attempt keeps the schedule with the one before, and the
  delay in hand is the doubled one that fits the number of attempts, or the cap.  The doubling is a
  recursive function; that it exists, and what it is, is shown with the least
  number at which a claim would fail, since induction has an operator as a
  parameter.  A task that begins to send uses a new permit, and one that sends gives its
  own up (`SendingCount`), which keeps the count of permits.  That the calls inside
  `acquire()` are those that hold the lock or wait for it (`CallsLock`), with the limiter's
  invariant, gives `LockIsUsable`.
* **`ResearchSystemProofs`.**  `SystemInv` joins three invariants.  `DeployInv`: a
  migrating container has every version that is not on record among those it has
  still to apply, so that files are recorded in order and all of them are once a
  container is seeding.  A container that read the records early also has versions
  that another one has applied by now, and its transaction must fail.  `LoadsInv`: the companies that are no longer in `left`
  are unknown to SEC or linked and stored up to `since`, for the load by itself
  and for the step of a bootstrap.  `WorkerInv`: the section being read, like every
  score stored or published, is `Honest` for its day, which is not in
  the future; and the strategies no longer in `todo` were published or raised or do
  not exist, which is what the hourly clock must mean when the cycle ends.
  Inserting facts under a running cycle does not disturb
  it, because what a filing says on a day does not change when later ones arrive.
* **`DeskProofs`** carries these theorems over to `Desk`, and adds that an answer belongs to
  the tool asked and to an input of its pool (`CallOK`).  What an answer
  is like is shown in **`DeskToolsProofs`**, for all inputs: `GoodExplanations`
  (what the query selects and the filter keeps is the window of the
  largest move, sorted), `GoodMetrics` (the latest version of a year is one filed last; if facts
  are untied there is one, and the facts reversed have the same; a tag that wins in
  every year wins in the latest), `GoodRules` (values that agree on the metrics a rule refers
  to give one verdict; a profile's name and id overlay the same score)
  and `GoodBacktests` (a place in the order by score and symbol is a bijection
  to 0 .. N-1, so bucket b has the places from N*b/n up to N*(b+1)/n; rebalance dates
  come from the calendar, and a symbol without a bar `horizon` later has no return),
  `GoodScans` and `GoodRanks` (`RanksOf`: how many score lower is the same for equal scores
  and more for a better one, and a division by at most a million keeps them apart; what
  does not pass the gates is not an argument of the scores; `TotalsCompared`: a sum is
  compared term by term, so the weights of the factors that are covered are at most those of all),
  and `GoodConversations` (the messages are a question and then exchanges, `Talk`; an
  encoding of each exchange leaves every tool message `k` places after the message of the
  model whose `k`-th call it answers, `Served`).  The loops of `Conversation`, and the
  sum over a set, are recursive functions, handled like `Doubling`.
* **`OrderFacts`** has the facts on finite orders that these need: the least
  number, least and greatest of a finite set, and the rank of an element, which puts a finite set in order without recursion
  (`RankedLists`).

Model-checked only: liveness (`ActiveRulesAreEvaluated`, `RankCatchesUp`,
`AlertsReachTheNotifier`, `RanksCatchUp`), which with `ENABLED` is beyond the prover.
Statements that need induction over data, and RECURSIVE operators,
cannot be proved with the provers at hand; no module that theorems are about
declares any.

## 7. Disagreements between code and documentation

Each has a violation run and an entry under `findings` in `PROJECT.json`.

1. *A rule that cannot be evaluated stops the rules after it.*  An unknown
   research strategy raises in `resolve`, `run_once` has no handler per rule,
   and `list_active` returns the rules in the same order every time.
   `list_alert_rules` is described as listing the rules "the scheduler is
   evaluating".
2. *Saved events are not always sent.*  An exception after `add_event` ends the
   cycle without the notifier, and the cooldown suppresses the event afterwards.
3. *A deletion can be undone* by the upsert of a `disable_alert_rule` or
   `update_watchlist` that read the row before.
4. *Not every stored score can be reconstructed.*  While a load is half done,
   cycles for the same session store snapshots of some symbols; later ones are
   computed from more bars, and `DO NOTHING` keeps whichever came first, row by row.
5. *Stored bars are not all adjusted.*  After a split the provider restates the
   history, but stored bars stay as they are.
6. *The hourly cap is not a cap on spend.*  The module `alert_investigator.py` says "Spend is
   capped per hour and per cycle", but the cap counts recorded runs, and a run
   that the timeout cancels leaves no row.  The cap on what is recorded does hold
   (`RecordedSpendIsCapped`).

## 8. Not modelled

The brief job, and of the alert job the clients it opens and closes.  Health and
freshness reports, the tools that list stored rows, the history queries
of the tools and the composition of the brief only read.  In the backtest, the
loop over the research score (the same loop with another scoring function), mean rank
correlation and coverage.  Of Polygon's client, parsing and the
websocket stream.  News and SEC clients (external answers, no state of their
own), command line entry points, configuration, in-memory repositories other
than that of bars, wording of messages.

Behaviour met while modelling that no run shows as a disagreement, mostly because
no text of the repository calls it right or wrong:

* a bootstrap that stops half-way leaves bars, and the next one skips
  (`bootstrap.py:35`); only `SV_BOOTSTRAP_FORCE` completes the load;
* the metrics of an alert rule are relative to the rule's own symbols, so a rule
  of one symbol always has percentile 100 (`resolver.py:45`);
* a strategy without any eligible company keeps the ranks published before
  (`research_rank_cache.py:27`), and `DO NOTHING` keeps the strategy scores of a session's
  first cycle while the published ranks of the same session are replaced;
* the preferred tag that has any data is taken for all years (`normalize.py:24-33`), while
  `tags.py:1-2` says "the first with data for a period wins": a company that changed
  tags is left with the years of the preferred one.  `NormalizedFromLatestFilings`
  claims the latest year only where both readings agree (`OneTagWins`);
* an event one day to the instant after a move is still evidence, with the note
  "1 day(s) after the move", while the comment speaks of "a small same-day tolerance"
  (`correlator.py:66-68`).  Such a single instant is left open in `EvidenceIsTheWindow`: it
  may be evidence or not;
* full-year facts are keyed by the end of their period alone (`normalize.py`),
  and two versions filed on one day are told apart by their order only;
* a call without an id gets the tool's name (`llm.py:258`), so two such calls of one
  tool share an id; `ConversationsAreAnswered` compares ids in order and holds.

The calls of the lifecycle of the processes (`SIGTERM`
handlers, connection pools) are part of "the process stops".
