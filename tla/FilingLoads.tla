---------------------------- MODULE FilingLoads ------------------------------
(***************************************************************************)
(* What the worker, the tools and the agent know about companies besides   *)
(* prices: SEC facts and filing events, the jobs that load them            *)
(* (apps/market_worker/fundamentals_backfill.py and events_backfill.py),   *)
(* and the first load of an empty database (apps/bootstrap.py).            *)
(*                                                                         *)
(* A filing stands for its facts or for its event: of one company, about   *)
(* one period, filed on one day; a later filing may restate a period.  SEC *)
(* publishes a filing from its day on.  One job runs at a time.            *)
(***************************************************************************)
EXTENDS Integers, Sequences, Functions

CONSTANTS
  Companies,     \* active_symbols(), in the order of the seed list
  Registered,    \* the companies in SEC's ticker map
  Filings,       \* [company, period, filed] records that companyfacts will show
  Submissions,   \* such records that submissions will show
  MaxDay,        \* bound: the last day
  HasUserAgent   \* SV_SEC_USER_AGENT is set

CompanySet == Range(Companies)
Days == 0 .. MaxDay
Jobs == {"fundamentals", "events"}
Source(job) == IF job = "fundamentals" THEN Filings ELSE Submissions

\* Entries without a period or a filing date are dropped when they are read.
IsFiling(f) ==
  /\ f = [company |-> f.company, period |-> f.period, filed |-> f.filed]
  /\ f.company \in Registered
  /\ f.filed \in Days

ASSUME LoadConstants ==
  /\ MaxDay \in Nat
  /\ Companies \in Seq(CompanySet)
  /\ Registered \subseteq CompanySet
  /\ \A f \in Filings \cup Submissions : IsFiling(f)
  /\ HasUserAgent \in BOOLEAN

VARIABLES
  today,     \* the clock
  dailyBars, \* market_bar: company -> days, day 0 standing for the past
  linked,    \* the companies whose cik is set
  stored,    \* stored[job]: the table the job fills
  job,       \* the SEC job that runs, "none" if none does
  left,      \* the companies the running job or bar load has yet to do
  document,  \* the filings it has fetched and not yet inserted
  since,     \* the day it started
  boot,      \* what the bootstrap does: "idle", "bars", "sec"
  steps,     \* the SEC jobs it has yet to start
  tried      \* history: the SEC jobs started by the bootstrap

jobVars == <<linked, stored, job, left, document, since>>
loadVars == <<today, dailyBars, jobVars, boot, steps, tried>>

LoadsInit ==
  /\ today = 0
  /\ dailyBars = [c \in CompanySet |-> {}]
  /\ linked = {}
  /\ stored = [j \in Jobs |-> {}]
  /\ job = "none" /\ left = << >> /\ document = {} /\ since = 0
  /\ boot = "idle" /\ steps = << >>
  /\ tried = {}

DayPasses ==
  /\ today < MaxDay
  /\ today' = today + 1
  /\ UNCHANGED <<dailyBars, jobVars, boot, steps, tried>>

\* The scheduler's daily job, done in one step here (MarketData has it in full):
\* some companies get the bar of today, the others get an empty answer.
DailyBackfill ==
  /\ job = "none" /\ boot = "idle"
  /\ \E some \in SUBSET CompanySet :
       dailyBars' = [c \in CompanySet |-> dailyBars[c] \cup {d \in {today} : c \in some}]
  /\ UNCHANGED <<today, jobVars, boot, steps, tried>>

Launch(j) ==
  /\ job' = j
  /\ left' = Companies
  /\ since' = today
  /\ UNCHANGED <<linked, stored, document>>

\* sv-fundamentals or sv-events, by hand.
StartJob(j) ==
  /\ HasUserAgent
  /\ job = "none" /\ boot = "idle"
  /\ Launch(j)
  /\ UNCHANGED <<today, dailyBars, boot, steps, tried>>

\* Mutant: break instead of continue.
SkipUnregisteredAndRest ==
  /\ job # "none" /\ left # << >>
  /\ Head(left) \notin Registered
  /\ left' = << >>
  /\ UNCHANGED <<linked, stored, job, document, since>>

SkipUnregistered ==
  /\ job # "none" /\ left # << >>
  /\ Head(left) \notin Registered
  /\ left' = Tail(left)
  /\ UNCHANGED <<linked, stored, job, document, since>>

Published(j, c) == {f \in Source(j) : f.company = c /\ f.filed <= today}

\* set_cik, and what the provider answers for the company.
FetchDocument ==
  /\ job # "none" /\ left # << >> /\ document = {}
  /\ Head(left) \in Registered
  /\ Published(job, Head(left)) # {}
  /\ linked' = linked \cup {Head(left)}
  /\ document' = Published(job, Head(left))
  /\ UNCHANGED <<stored, job, left, since>>

\* A company without filings: nothing to insert.
FetchNothing ==
  /\ job # "none" /\ left # << >>
  /\ Head(left) \in Registered
  /\ Published(job, Head(left)) = {}
  /\ linked' = linked \cup {Head(left)}
  /\ left' = Tail(left)
  /\ UNCHANGED <<stored, job, document, since>>

\* save_facts, save_events: INSERT ... ON CONFLICT DO NOTHING.
SaveDocument ==
  /\ document # {}
  /\ stored' = [stored EXCEPT ![job] = @ \cup document]
  /\ document' = {}
  /\ left' = Tail(left)
  /\ UNCHANGED <<linked, job, since>>

JobEnds == job' = "none" /\ left' = << >> /\ document' = {} /\ since' = 0

FinishJob ==
  /\ job # "none" /\ left = << >>
  /\ JobEnds
  /\ UNCHANGED <<linked, stored, steps>>

\* Mutant: one try around both steps of the bootstrap.
JobFailsAndRest ==
  /\ job # "none"
  /\ JobEnds
  /\ steps' = << >>
  /\ UNCHANGED <<linked, stored>>

\* SEC answers with an error after all retries, a query raises, or a job
\* started by hand is stopped.  In the bootstrap each step has a try of its own.
JobFails ==
  /\ job # "none"
  /\ JobEnds
  /\ UNCHANGED <<linked, stored, steps>>

JobNext ==
  /\ \/ /\ SkipUnregistered \/ FetchDocument \/ FetchNothing \/ SaveDocument
        /\ UNCHANGED steps
     \/ FinishJob
     \/ JobFails
  /\ UNCHANGED <<today, dailyBars, boot, tried>>

\* _already_loaded: any bar at all.
AlreadyLoaded == \E c \in CompanySet : dailyBars[c] # {}

\* sv-bootstrap that does not skip.
StartBootstrap(force) ==
  /\ boot = "idle" /\ job = "none"
  /\ force \/ ~ AlreadyLoaded
  /\ boot' = "bars"
  /\ left' = Companies
  /\ since' = today
  /\ tried' = {}
  /\ UNCHANGED <<today, dailyBars, linked, stored, job, document, steps>>

\* A company's history of backfill_days up to the start of the load, or what the
\* provider has of it: if it answers with no bars, the load goes on.
LoadHistory ==
  /\ boot = "bars" /\ left # << >>
  /\ \E last \in -1 .. since :
       dailyBars' = [dailyBars EXCEPT ![Head(left)] = @ \cup 0 .. last]
  /\ left' = Tail(left)
  /\ UNCHANGED <<today, linked, stored, job, document, since, boot, steps, tried>>

SecSteps == IF HasUserAgent THEN <<"fundamentals", "events">> ELSE << >>

HistoryLoaded ==
  /\ boot = "bars" /\ left = << >>
  /\ boot' = "sec" /\ since' = 0
  /\ steps' = SecSteps
  /\ UNCHANGED <<today, dailyBars, linked, stored, job, left, document, tried>>

\* A bar query or insert fails, or the process stops: what is stored stays,
\* and the next bootstrap finds a bar and skips.
BootstrapFails ==
  /\ boot \in {"bars", "sec"}
  /\ boot' = "idle" /\ steps' = << >> /\ tried' = {}
  /\ JobEnds
  /\ UNCHANGED <<today, dailyBars, linked, stored>>

\* Each SEC step in a try of its own: it is started however the one before ended.
NextSecStep ==
  /\ boot = "sec" /\ job = "none" /\ steps # << >>
  /\ Launch(Head(steps))
  /\ tried' = tried \cup {Head(steps)}
  /\ steps' = Tail(steps)
  /\ UNCHANGED <<today, dailyBars, boot>>

EndOfBootstrap == boot = "sec" /\ job = "none" /\ steps = << >>

BootstrapDone ==
  /\ EndOfBootstrap
  /\ boot' = "idle" /\ tried' = {}
  /\ UNCHANGED <<today, dailyBars, jobVars, steps>>

LoadsNext ==
  \/ DayPasses
  \/ DailyBackfill
  \/ \E j \in Jobs : StartJob(j)
  \/ JobNext
  \/ \E force \in BOOLEAN : StartBootstrap(force)
  \/ LoadHistory
  \/ HistoryLoaded
  \/ BootstrapFails
  \/ NextSecStep
  \/ BootstrapDone

LoadsTypeOK ==
  /\ today \in Days /\ since \in Days
  /\ dailyBars \in [CompanySet -> SUBSET Days]
  /\ linked \subseteq Registered
  /\ stored["fundamentals"] \subseteq Filings /\ stored["events"] \subseteq Submissions
  /\ DOMAIN stored = Jobs
  /\ job \in Jobs \cup {"none"}
  /\ left \in Seq(CompanySet) /\ steps \in Seq(Jobs)
  /\ document \subseteq Filings \cup Submissions
  /\ boot \in {"idle", "bars", "sec"}
  /\ tried \subseteq Jobs

\* When a load ends well, everything its companies had filed when it began is
\* stored and every company SEC knows is linked, whatever companies it skipped
\* and loads stopped half-way before (fundamentals_backfill.py:33-43,
\* events_backfill.py:35-45).
CompletedLoadIsComplete ==
  job # "none" /\ left = << >> =>
    /\ Registered \subseteq linked
    /\ {f \in Source(job) : f.filed <= since} \subseteq stored[job]

\* A bootstrap that ends as done has started both SEC steps, the second also
\* when the first failed at some company (bootstrap.py:47-55).
SecStepsAreTried == EndOfBootstrap /\ HasUserAgent => tried = Jobs

=============================================================================
