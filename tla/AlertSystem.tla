---------------------------- MODULE AlertSystem -----------------------------
(***************************************************************************)
(* The alert subsystem as deployed: the MCP tools and the scheduler's      *)
(* evaluator over the same tables and the same wall clock.                 *)
(***************************************************************************)
EXTENDS AlertTools, AlertEngine

vars == <<storeVars, calls, engineVars>>

Init == StoreInit /\ ToolsInit /\ EngineInit

Next ==
  \/ ToolsNext /\ UNCHANGED engineVars
  \/ EngineNext /\ UNCHANGED calls
  \/ ClockMoves /\ UNCHANGED <<calls, engineVars>>

Spec == Init /\ [][Next]_vars

(***************************************************************************)
(* For liveness: no query fails at random and the process stays up (after  *)
(* the last such fault the job is idle again, as it is initially).  The    *)
(* interval trigger keeps starting the job and the event loop keeps        *)
(* running it; nothing obliges a client to call a tool.                    *)
(***************************************************************************)
EvaluatorRuns == EvaluatorStep /\ UNCHANGED calls

HealthyNext ==
  \/ EvaluatorRuns
  \/ ToolsNext /\ UNCHANGED engineVars
  \/ ClockMoves /\ UNCHANGED <<calls, engineVars>>

FairSpec == Init /\ [][HealthyNext]_vars /\ WF_vars(EvaluatorRuns)

-----------------------------------------------------------------------------
\* Every variable holds a value of its kind.
TypeOK == StoreTypeOK /\ ToolsTypeOK /\ EngineTypeOK

\* Two alerts of the same rule and symbol are more than the rule's cooldown
\* apart, in the order they were saved, whatever the clock does, however often
\* a symbol is listed, and across restarts (engine.py: the cooldown check).
CooldownSeparation ==
  \A i, j \in DOMAIN events :
    /\ i < j
    /\ events[i].rule = events[j].rule
    /\ events[i].symbol = events[j].symbol
    => events[j].at - events[i].at > RuleDef[events[i].rule].cooldown

\* The rule may still produce events: it is active, or the running cycle has
\* it in its listing.
MayFire(r) == Active(r) \/ r \in todo \/ rule = r

\* Once a rule has been disabled or deleted and no running cycle listed it
\* before, it is silent for good: no tool call in flight, no late write and no
\* later cycle makes it fire again (disable_alert_rule, delete_alert_rule).
RetiredRulesStaySilent ==
  [][\A r \in issuedRules :
       ~MayFire(r) =>
         /\ ~MayFire(r)'
         /\ \A i \in DOMAIN events' \ DOMAIN events : events'[i].rule # r]_vars

\* When the cycle has visited a symbol whose metrics satisfy the rule, an event
\* of that rule and symbol is on record in the cooldown window or at this very
\* cycle's time: a firing rule is never passed over (run_once's symbol loop).
FiringSymbolsAreOnRecord ==
  \A s \in hot :
    left[s] = 0 /\ sym # s =>
      \E i \in DOMAIN events :
        /\ events[i].rule = rule
        /\ events[i].symbol = s
        /\ events[i].at >= CooldownSince \/ events[i].at = asOf

\* An event reaches the notifier in at most one message, and only events that
\* were saved do, across failures and restarts of the scheduler
\* (evaluate_alerts: what this cycle created is what is sent).
NotifiedAtMostOnce ==
  /\ \A k \in DOMAIN sent : sent[k] # {} /\ sent[k] \subseteq DOMAIN events
  /\ \A k, m \in DOMAIN sent : k # m => sent[k] \cap sent[m] = {}

\* How the evaluator's variables hang together at each await; while an event is
\* about to be saved, its window is still free of events.
ControlInv ==
  /\ pc = "idle" => todo = {} /\ rule = None
  /\ rule = None => left = NoSymbols /\ hot = {} /\ pc \notin {"resolve", "save"}
  /\ pc = "save" <=> sym # None
  /\ pc = "save" => ~RecentFor(rule, sym, CooldownSince)

\* What this cycle saved has not been sent yet.
BatchInv ==
  /\ fired \subseteq DOMAIN events
  /\ \A k \in DOMAIN sent : sent[k] \cap fired = {}
  /\ pc = "notify" => fired # {}

\* The inductive invariant behind the theorems of AlertSystemProofs.
IInv ==
  /\ TypeOK
  /\ ControlInv
  /\ CooldownSeparation
  /\ FiringSymbolsAreOnRecord
  /\ BatchInv
  /\ NotifiedAtMostOnce

\* The evaluator implements the promise: retired rules are those that were
\* created and may not fire any more.
MayFireRules == {r \in issuedRules : MayFire(r)}

Promise == INSTANCE AlertPromise WITH
  Rules <- RuleIds, Tickers <- Symbols, Times <- 0 .. MaxNow,
  Cooldown <- [r \in RuleIds |-> RuleDef[r].cooldown],
  alerts <- events,
  armed <- MayFireRules,
  retired <- issuedRules \ MayFireRules

\* Every step of the subsystem is a step of AlertPromise or leaves it alone.
ImplementsPromise == Promise!Spec

\* "Permanently delete an alert rule by id." / "Permanently delete a watchlist
\* by id." (server.py): an id whose row was deleted never has a row again.
DeletionIsPermanent ==
  [][/\ \A r \in issuedRules : r \notin DOMAIN rules => r \notin DOMAIN rules'
     /\ \A w \in issuedLists : w \notin DOMAIN lists => w \notin DOMAIN lists']_vars

OnlySoundRules == <>[](\A r \in ActiveRules : RuleDef[r].sound)

Evaluating(r) == pc # "idle" /\ rule = r

\* As long as every active rule can be evaluated, a rule that stays active is
\* evaluated again and again ("for each active rule", engine.py).
ActiveRulesAreEvaluated ==
  OnlySoundRules =>
    \A r \in RuleIds : Active(r) ~> (Evaluating(r) \/ ~Active(r))

\* "List the active alert rules the scheduler is evaluating." (server.py): a
\* rule that stays active is evaluated again and again, whatever other rules
\* are stored.
ListedRulesAreEvaluated ==
  \A r \in RuleIds : Active(r) ~> (Evaluating(r) \/ ~Active(r))

\* "the scheduler delivers fired alerts" (ROADMAP.md): once a cycle has saved an
\* event, the notifier's turn comes.
FiredAlertsReachTheNotifier == fired # {} ~> pc = "notify"

=============================================================================
