--------------------------- MODULE ResearchWorker ----------------------------
(***************************************************************************)
(* The research half of the market worker: MarketWorker.run after its      *)
(* trend cycle, run_research_cycle, and ResearchService.rank, beside the   *)
(* jobs of FilingLoads.                                                    *)
(*                                                                         *)
(* Numbers are abstracted to what they were computed from.  The            *)
(* fundamentals of a company are the filings that count, the latest of     *)
(* each period; a score, being relative to the other eligible companies,   *)
(* is the fundamentals of all of them.                                     *)
(***************************************************************************)
EXTENDS FilingLoads, Overlays

CONSTANTS
  Strategies,  \* research_strategies: the configured names, in order
  Known,       \* the strategies that exist
  Gates        \* Gates[s]: the sets of filings that pass the gates of s

ASSUME ResearchConstants ==
  /\ Strategies \in Seq(Range(Strategies))
  /\ Known \subseteq Range(Strategies)
  /\ DOMAIN Gates = Known
  /\ \A s \in Known : {} \notin Gates[s]

VARIABLES
  phase,      \* "asleep", "choose" a strategy, "read" its inputs, "publish" its ranks
  asOf,       \* the session scored
  due,        \* an hour has passed since last_research, or it is None
  todo,       \* the strategies the cycle has yet to rank
  priced,     \* the companies with bars in the histories rank has read
  reading,    \* the companies whose facts it has yet to read
  section,    \* company -> fundamentals: the eligible companies read so far
  scoreRows,  \* strategy_score: (company, strategy, session) -> section
  rankCache,  \* strategy -> the session and section published last
  out,        \* the strategies ranked and published in this hour's cycle
  raised      \* history: those whose rank raised in it

rankVars == <<priced, reading, section>>
tableVars == <<scoreRows, rankCache>>
workerVars == <<phase, asOf, due, todo, rankVars, tableVars, out, raised>>

WorkerInit ==
  /\ phase = "asleep" /\ asOf = 0 /\ due = TRUE /\ todo = << >>
  /\ priced = {} /\ reading = << >> /\ section = << >>
  /\ scoreRows = << >> /\ rankCache = << >>
  /\ out = {} /\ raised = {}

Clear == priced' = {} /\ reading' = << >> /\ section' = << >>

BarDays == UNION {dailyBars[c] : c \in CompanySet}

\* Mutant: no check that as_of is not None.
NewestBarUnchecked ==
  IF BarDays = {} THEN {-1} ELSE {d \in BarDays : \A e \in BarDays : e <= d}

NewestBar == {d \in BarDays : \A e \in BarDays : e <= d}

HourPasses ==
  /\ phase = "asleep" /\ ~ due
  /\ due' = TRUE
  /\ out' = {} /\ raised' = {}
  /\ UNCHANGED <<phase, asOf, todo, rankVars, tableVars>>

\* A round of the loop in which research is due.  If there are no bars or the
\* query for the newest one fails, as_of stays None and nothing happens; if
\* the trend cycle fails, research still runs.
WakeUp ==
  /\ phase = "asleep" /\ due
  /\ asOf' \in NewestBar
  /\ phase' = "choose"
  /\ todo' = Strategies
  /\ UNCHANGED <<due, rankVars, tableVars, out, raised>>

\* get_strategy raises for an unknown name; the loop goes on.
UnknownStrategy ==
  /\ phase = "choose" /\ todo # << >> /\ Head(todo) \notin Known
  /\ todo' = Tail(todo)
  /\ UNCHANGED <<phase, asOf, due, rankVars, tableVars, out, raised>>

\* rank: the universe, and the histories up to as_of in one query.
ReadPrices ==
  /\ phase = "choose" /\ todo # << >> /\ Head(todo) \in Known
  /\ phase' = "read"
  /\ priced' = {c \in CompanySet : \E d \in dailyBars[c] : d <= asOf}
  /\ reading' = Companies
  /\ UNCHANGED <<asOf, due, todo, section, tableVars, out, raised>>

\* The filings that count on a day: filed by then and not restated by then.
Counting(c, facts, day) ==
  LET seen == {f \in facts : f.company = c /\ f.filed <= day}
  IN  {f \in seen : \A g \in seen : g.period = f.period => g.filed <= f.filed}

Figures(c, day) ==
  IF c \in linked THEN Counting(c, stored["fundamentals"], day) ELSE {}

\* Mutant: the facts known today.
SectionWithLatest(c) ==
  IF c \in priced /\ Figures(c, today) \in Gates[Head(todo)]
  THEN Overlay(section, [d \in {c} |-> Figures(c, today)])
  ELSE section

\* cik_for, get_facts_asof and the gates, for one company.  Price and volume
\* pass their gates whenever there are bars.
SectionWith(c) ==
  IF c \in priced /\ Figures(c, asOf) \in Gates[Head(todo)]
  THEN Overlay(section, [d \in {c} |-> Figures(c, asOf)])
  ELSE section

ReadCompany ==
  /\ phase = "read" /\ reading # << >>
  /\ section' = SectionWith(Head(reading))
  /\ reading' = Tail(reading)
  /\ UNCHANGED <<phase, asOf, due, todo, priced, tableVars, out, raised>>

\* save_research_scores: INSERT ... ON CONFLICT DO NOTHING.
SaveResearchScores ==
  /\ phase = "read" /\ reading = << >>
  /\ LET rows == (DOMAIN section) \X {Head(todo)} \X {asOf}
     IN  scoreRows' = Overlay(scoreRows, [k \in rows |-> section])
  /\ phase' = "publish"
  /\ UNCHANGED <<asOf, due, todo, rankVars, rankCache, out, raised>>

\* A query of rank raises: the loop goes on with the next strategy.
RankRaises ==
  /\ phase = "read"
  /\ raised' = raised \cup {Head(todo)}
  /\ phase' = "choose"
  /\ todo' = Tail(todo)
  /\ Clear
  /\ UNCHANGED <<asOf, due, tableVars, out>>

Ranks == [s \in {Head(todo)} |-> [asOf |-> asOf, section |-> section]]

\* Mutant: the ranks of a session are published once.
PublishResearchOnce ==
  /\ phase = "publish"
  /\ rankCache' = IF \/ DOMAIN section = {}
                     \/ \E s \in DOMAIN rankCache : s = Head(todo) /\ rankCache[s].asOf = asOf
                  THEN rankCache
                  ELSE Overlay(Ranks, rankCache)
  /\ out' = out \cup {Head(todo)}
  /\ phase' = "choose"
  /\ todo' = Tail(todo)
  /\ Clear
  /\ UNCHANGED <<asOf, due, scoreRows, raised>>

\* publish, one MULTI/EXEC; without results it returns at once and the ranks
\* of the strategy stay.
PublishResearch ==
  /\ phase = "publish"
  /\ rankCache' = IF DOMAIN section = {} THEN rankCache
                  ELSE Overlay(Ranks, rankCache)
  /\ out' = out \cup {Head(todo)}
  /\ phase' = "choose"
  /\ todo' = Tail(todo)
  /\ Clear
  /\ UNCHANGED <<asOf, due, scoreRows, raised>>

\* last_research = utcnow()
CycleEnds ==
  /\ phase = "choose" /\ todo = << >>
  /\ phase' = "asleep"
  /\ asOf' = 0
  /\ due' = FALSE
  /\ UNCHANGED <<todo, rankVars, tableVars, out, raised>>

\* Mutant: last_research is set in a finally.
CycleStopsClockSet ==
  /\ phase # "asleep"
  /\ phase' = "asleep" /\ asOf' = 0 /\ todo' = << >>
  /\ due' = FALSE
  /\ out' = {} /\ raised' = {}
  /\ Clear
  /\ UNCHANGED tableVars

\* A publication raises, which nothing below run catches, or the worker is
\* restarted: last_research keeps its value or is None.
CycleStops ==
  /\ phase # "asleep"
  /\ phase' = "asleep" /\ asOf' = 0 /\ todo' = << >>
  /\ out' = {} /\ raised' = {}
  /\ Clear
  /\ UNCHANGED <<due, tableVars>>

WorkerStep ==
  \/ WakeUp \/ UnknownStrategy \/ ReadPrices \/ ReadCompany \/ SaveResearchScores
  \/ PublishResearch \/ CycleEnds

WorkerFails == RankRaises \/ CycleStops

WorkerNext == WorkerStep \/ WorkerFails \/ HourPasses

IsSection(x) ==
  /\ DOMAIN x \subseteq CompanySet
  /\ \A c \in DOMAIN x : x[c] \subseteq Filings

WorkerTypeOK ==
  /\ phase \in {"asleep", "choose", "read", "publish"}
  /\ asOf \in Days /\ due \in BOOLEAN
  /\ todo \in Seq(Range(Strategies)) /\ reading \in Seq(CompanySet)
  /\ priced \subseteq CompanySet
  /\ IsSection(section)
  /\ \A k \in DOMAIN scoreRows :
       k \in CompanySet \X Known \X Days /\ IsSection(scoreRows[k])
  /\ \A s \in DOMAIN rankCache :
       s \in Known /\ rankCache[s].asOf \in Days /\ IsSection(rankCache[s].section)
  /\ out \subseteq Known /\ raised \subseteq Known

\* What a section of a session may be made of: of each company only filings
\* of its own, filed by then, and one for each period.
HonestSection(x, day) ==
  \A c \in DOMAIN x : \A f \in x[c] :
    /\ f.company = c /\ f.filed <= day
    /\ \A g \in x[c] : g.period = f.period => g = f

\* No stored score and no published rank of a session uses a filing made
\* after it, or a figure together with its restatement, though facts are
\* inserted between the choice of the session and the reading of the facts
\* and between two companies (service.py:75-91, postgres_repos.py:233-245).
PointInTime ==
  /\ \A k \in DOMAIN scoreRows : HonestSection(scoreRows[k], k[3])
  /\ \A s \in DOMAIN rankCache : HonestSection(rankCache[s].section, rankCache[s].asOf)

\* The hourly clock is set only after a cycle that went through every
\* strategy: each existing one was published, or raised on its own; and
\* published ranks have their scores on record.  A failed publication or a
\* restart leaves the research due (worker.py:86-100, research_scoring.py:28-36).
HourlyClockMeansRanked ==
  /\ ~ due => Known \subseteq out \cup raised
  /\ \A s \in DOMAIN rankCache : \A c \in DOMAIN rankCache[s].section :
       <<c, s, rankCache[s].asOf>> \in DOMAIN scoreRows

\* The section rank would read now.
SectionNow(s, day) ==
  LET eligible == {c \in CompanySet : /\ \E d \in dailyBars[c] : d <= day
                                      /\ Figures(c, day) \in Gates[s]}
  IN  [c \in eligible |-> Figures(c, day)]

\* The published ranks are those of the newest session and of all facts known
\* to it.  (If nothing is eligible any more, the old ranks stay.)
RanksCurrent ==
  \A day \in NewestBar : \A s \in Known :
    DOMAIN SectionNow(s, day) # {} =>
      /\ s \in DOMAIN rankCache
      /\ rankCache[s] = [asOf |-> day, section |-> SectionNow(s, day)]

=============================================================================
