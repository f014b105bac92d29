----------------------------- MODULE AlertEngine ----------------------------
(***************************************************************************)
(* The scheduler's alert job: evaluate_alerts (apps/scheduler/__main__.py) *)
(* around AlertEngine.run_once (domain/alerts/engine.py).  APScheduler     *)
(* runs at most one instance of the job and one scheduler container runs,  *)
(* so there is one evaluator; each of its awaits is a point where the      *)
(* tools, the clock and failures may intervene.                            *)
(***************************************************************************)
EXTENDS AlertStore

VARIABLES
  pc,     \* where the job is: the await it is about to make
  asOf,   \* the clock reading the cycle works with
  todo,   \* rules of the listing that are still to be evaluated
  rule,   \* the rule being evaluated
  left,   \* symbols of its scope that are still to be visited
  hot,    \* symbols whose metrics satisfy the rule in this cycle
  sym,    \* the symbol whose event is about to be saved
  fired,  \* positions in `events` of the events this cycle saved
  sent    \* the batches of events delivered to the notifier, in order

engineVars == <<pc, asOf, todo, rule, left, hot, sym, fired, sent>>

EngineTypeOK ==
  /\ pc \in {"idle", "loop", "resolve", "save", "notify"}
  /\ asOf \in 0 .. MaxNow
  /\ todo \subseteq issuedRules
  /\ rule \in issuedRules \cup {None}
  /\ left \in SymbolBag
  /\ hot \subseteq Symbols
  /\ sym \in Symbols \cup {None}
  /\ fired \subseteq Nat
  /\ sent \in Seq(SUBSET Nat)

EngineInit ==
  /\ pc = "idle"
  /\ asOf = 0
  /\ todo = {}
  /\ rule = None
  /\ left = NoSymbols
  /\ hot = {}
  /\ sym = None
  /\ fired = {}
  /\ sent = << >>

\* The coroutine ends: its local variables are gone.
Forget ==
  /\ pc' = "idle"
  /\ asOf' = 0
  /\ todo' = {}
  /\ rule' = None
  /\ left' = NoSymbols
  /\ hot' = {}
  /\ sym' = None
  /\ fired' = {}

\* _symbols_for: the explicit symbols, else those of the watchlist as it is now.
Scope(r) ==
  LET w == RuleDef[r].watchlist
  IN  IF RuleDef[r].symbols # NoSymbols THEN RuleDef[r].symbols
      ELSE IF w \in DOMAIN lists THEN lists[w]
      ELSE NoSymbols

\* Evaluating every rule that was ever created.
StartCycleWithDisabled ==
  /\ pc = "idle"
  /\ pc' = "loop"
  /\ asOf' = now
  /\ todo' = issuedRules
  /\ UNCHANGED <<rule, left, hot, sym, fired, sent, storeVars>>

\* The interval job starts: read the clock, list the active rules.
StartCycle ==
  /\ pc = "idle"
  /\ pc' = "loop"
  /\ asOf' = now
  /\ todo' = ActiveRules
  /\ UNCHANGED <<rule, left, hot, sym, fired, sent, storeVars>>

\* The next rule of the listing; one without symbols is passed over.
TakeRule(r) ==
  /\ pc = "loop"
  /\ left = NoSymbols
  /\ r \in Earliest(todo)
  /\ todo' = todo \ {r}
  /\ rule' = r
  /\ left' = Scope(r)
  /\ hot' = {}
  /\ sym' = None
  /\ pc' = IF Scope(r) = NoSymbols THEN "loop" ELSE "resolve"
  /\ UNCHANGED <<asOf, fired, sent, storeVars>>

\* resolver.resolve answers for every symbol; H are those the rule holds for.
Resolve(H) ==
  /\ pc = "resolve"
  /\ RuleDef[rule].sound
  /\ H \subseteq {s \in Symbols : left[s] > 0}
  /\ hot' = H
  /\ pc' = "loop"
  /\ UNCHANGED <<asOf, todo, rule, left, sym, fired, sent, storeVars>>

\* A window that starts one unit late.
CooldownSinceLate == asOf - RuleDef[rule].cooldown + 1

\* The start of the window in which an earlier event suppresses a new one.
CooldownSince == asOf - RuleDef[rule].cooldown

\* Asking for recent events of the rule on any symbol.
EvaluateSymbolPerRule(s) ==
  /\ pc = "loop"
  /\ left[s] > 0
  /\ left' = [left EXCEPT ![s] = @ - 1]
  /\ IF s \in hot /\ \A q \in Symbols : ~RecentFor(rule, q, CooldownSince)
       THEN pc' = "save" /\ sym' = s
       ELSE UNCHANGED <<pc, sym>>
  /\ UNCHANGED <<asOf, todo, rule, hot, fired, sent, storeVars>>

(***************************************************************************)
(* One turn of the symbol loop: evaluate the rule, and when it holds ask   *)
(* for recent events.  Only a symbol without one goes on to be saved.      *)
(***************************************************************************)
EvaluateSymbol(s) ==
  /\ pc = "loop"
  /\ left[s] > 0
  /\ left' = [left EXCEPT ![s] = @ - 1]
  /\ IF s \in hot /\ ~RecentFor(rule, s, CooldownSince)
       THEN pc' = "save" /\ sym' = s
       ELSE UNCHANGED <<pc, sym>>
  /\ UNCHANGED <<asOf, todo, rule, hot, fired, sent, storeVars>>

SaveEvent ==
  /\ pc = "save"
  /\ events' = Append(events, [rule |-> rule, symbol |-> sym, at |-> asOf])
  /\ fired' = fired \cup {Len(events) + 1}
  /\ sym' = None
  /\ pc' = "loop"
  /\ UNCHANGED <<now, rules, issuedRules, lists, issuedLists,
                 asOf, todo, rule, left, hot, sent>>

\* run_once returns: nothing fired ends the job, else the notifier is next.
EndCycle ==
  /\ pc = "loop"
  /\ left = NoSymbols
  /\ todo = {}
  /\ IF fired = {}
       THEN Forget
       ELSE pc' = "notify" /\ UNCHANGED <<asOf, todo, rule, left, hot, sym, fired>>
  /\ UNCHANGED <<sent, storeVars>>

\* The job does not end with the delivery: it would be sent again.
DeliverAgain ==
  /\ pc = "notify"
  /\ sent' = Append(sent, fired)
  /\ UNCHANGED <<pc, asOf, todo, rule, left, hot, sym, fired, storeVars>>

\* notifier.send succeeds.
Deliver ==
  /\ pc = "notify"
  /\ sent' = Append(sent, fired)
  /\ Forget
  /\ UNCHANGED storeVars

\* notifier.send raises (logged, never retried), or no notifier is configured.
DeliveryFails ==
  /\ pc = "notify"
  /\ Forget
  /\ UNCHANGED <<sent, storeVars>>

(***************************************************************************)
(* An exception leaves run_once; evaluate_alerts logs it and returns       *)
(* without notifying.  Any query may raise one; resolving the metrics of   *)
(* an unsound rule always does (get_strategy raises KeyError for an        *)
(* unknown research strategy).                                             *)
(***************************************************************************)
CycleRaises ==
  /\ pc \in {"loop", "resolve", "save"}
  /\ Forget
  /\ UNCHANGED <<sent, storeVars>>

ResolveRaises ==
  /\ pc = "resolve"
  /\ ~RuleDef[rule].sound
  /\ Forget
  /\ UNCHANGED <<sent, storeVars>>

\* The scheduler process stops and is started again.
SchedulerRestarts ==
  /\ pc # "idle"
  /\ Forget
  /\ UNCHANGED <<sent, storeVars>>

EvaluatorStep ==
  \/ StartCycle
  \/ \E r \in RuleIds : TakeRule(r)
  \/ \E H \in SUBSET Symbols : Resolve(H)
  \/ \E s \in Symbols : EvaluateSymbol(s)
  \/ SaveEvent
  \/ EndCycle
  \/ Deliver
  \/ DeliveryFails
  \/ ResolveRaises

EngineNext == EvaluatorStep \/ CycleRaises \/ SchedulerRestarts

=============================================================================
