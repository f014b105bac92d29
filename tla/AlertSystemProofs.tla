------------------------- MODULE AlertSystemProofs --------------------------
(***************************************************************************)
(* Proofs about the alert subsystem, for any rules, watchlists, symbols,   *)
(* number of concurrent tool calls and clock readings.                     *)
(***************************************************************************)
EXTENDS AlertSystem, SequenceTheorems, TLAPS

-----------------------------------------------------------------------------
\* Type correctness.

\* A table with one row written or removed.
LEMMA UpsertType ==
  ASSUME NEW table, NEW Row, NEW id, NEW row \in Row,
         table \in [DOMAIN table -> Row]
  PROVE  /\ DOMAIN Upsert(table, id, row) = DOMAIN table \cup {id}
         /\ Upsert(table, id, row) \in [DOMAIN table \cup {id} -> Row]
  BY DEF Upsert

LEMMA DeleteType ==
  ASSUME NEW table, NEW Row, NEW id, table \in [DOMAIN table -> Row]
  PROVE  /\ DOMAIN Delete(table, id) = DOMAIN table \ {id}
         /\ Delete(table, id) \in [DOMAIN table \ {id} -> Row]
  BY DEF Delete

LEMMA EditedType ==
  ASSUME NEW row \in SymbolBag, NEW e
  PROVE  Edited(row, e) \in SymbolBag
  BY DEF Edited, SymbolBag

LEMMA ScopeType ==
  ASSUME TypeOK, NEW r \in RuleIds
  PROVE  Scope(r) \in SymbolBag
  BY StoreConstants DEF Scope, TypeOK, StoreTypeOK, Rule, NoSymbols, SymbolBag

LEMMA InitType == Init => TypeOK
<1> SUFFICES ASSUME Init PROVE TypeOK
  OBVIOUS
<1>1. StoreTypeOK
  BY StoreConstants DEF Init, StoreInit, StoreTypeOK
<1>2. ToolsTypeOK
  BY DEF Init, ToolsInit, ToolsTypeOK
<1>3. EngineTypeOK
  BY StoreConstants DEF Init, EngineInit, EngineTypeOK, NoSymbols, SymbolBag
<1> QED BY <1>1, <1>2, <1>3 DEF TypeOK

\* Ids are only ever added, so what a call in flight refers to stays issued.
LEMMA CallsStayTyped ==
  ASSUME TypeOK, issuedRules \subseteq issuedRules', issuedLists \subseteq issuedLists',
         UNCHANGED calls
  PROVE  ToolsTypeOK'
<1>1. PendingUpdate \subseteq PendingUpdate' /\ PendingDisable \subseteq PendingDisable'
  BY DEF PendingUpdate, PendingDisable, SymbolBag
<1> QED BY <1>1 DEF TypeOK, ToolsTypeOK, Idle

\* So does finishing a call, whatever it was.
LEMMA FinishedCallTyped ==
  ASSUME TypeOK, NEW c \in Calls, calls' = [calls EXCEPT ![c] = Idle],
         UNCHANGED <<issuedRules, issuedLists>>
  PROVE  ToolsTypeOK'
<1>1. PendingUpdate' = PendingUpdate /\ PendingDisable' = PendingDisable
  BY DEF PendingUpdate, PendingDisable, SymbolBag
<1> QED BY <1>1 DEF TypeOK, ToolsTypeOK, Idle

\* A tool call keeps the tables and the calls in flight well typed.
LEMMA ToolsStepType ==
  ASSUME TypeOK, ToolsNext
  PROVE  StoreTypeOK' /\ ToolsTypeOK'
<1> USE StoreConstants DEF TypeOK, StoreTypeOK
<1>1. ASSUME NEW w \in WatchlistIds, CreateWatchlist(w)
      PROVE  StoreTypeOK' /\ ToolsTypeOK'
  <2>1. ToolsTypeOK'
    BY <1>1, CallsStayTyped DEF CreateWatchlist
  <2>2. ListDef[w] \in SymbolBag
    OBVIOUS
  <2>3. /\ DOMAIN lists' = DOMAIN lists \cup {w}
        /\ lists' \in [DOMAIN lists \cup {w} -> SymbolBag]
    BY <1>1, <2>2, UpsertType DEF CreateWatchlist
  <2> QED BY <1>1, <2>1, <2>3 DEF CreateWatchlist
<1>2. ASSUME NEW w \in WatchlistIds, DeleteWatchlist(w)
      PROVE  StoreTypeOK' /\ ToolsTypeOK'
  <2>1. ToolsTypeOK'
    BY <1>2, CallsStayTyped DEF DeleteWatchlist
  <2>2. /\ DOMAIN lists' = DOMAIN lists \ {w}
        /\ lists' \in [DOMAIN lists \ {w} -> SymbolBag]
    BY <1>2, DeleteType DEF DeleteWatchlist
  <2> QED BY <1>2, <2>1, <2>2 DEF DeleteWatchlist
<1>3. ASSUME NEW r \in RuleIds, CreateAlertRule(r)
      PROVE  StoreTypeOK' /\ ToolsTypeOK'
  <2>1. ToolsTypeOK'
    BY <1>3, CallsStayTyped DEF CreateAlertRule
  <2>2. /\ DOMAIN rules' = DOMAIN rules \cup {r}
        /\ rules' \in [DOMAIN rules \cup {r} -> BOOLEAN]
    BY <1>3 DEF CreateAlertRule, Upsert
  <2> QED BY <1>3, <2>1, <2>2 DEF CreateAlertRule
<1>4. ASSUME NEW r \in RuleIds, DeleteAlertRule(r)
      PROVE  StoreTypeOK' /\ ToolsTypeOK'
  <2>1. ToolsTypeOK'
    BY <1>4, CallsStayTyped DEF DeleteAlertRule
  <2>2. /\ DOMAIN rules' = DOMAIN rules \ {r}
        /\ rules' \in [DOMAIN rules \ {r} -> BOOLEAN]
    BY <1>4, DeleteType DEF DeleteAlertRule
  <2> QED BY <1>4, <2>1, <2>2 DEF DeleteAlertRule
<1>5. ASSUME NEW c \in Calls, NEW w \in WatchlistIds, NEW e \in Edits,
             ReadWatchlist(c, w, e)
      PROVE  StoreTypeOK' /\ ToolsTypeOK'
  <2>1. Edited(lists[w], e) \in SymbolBag
    BY <1>5, EditedType DEF ReadWatchlist
  <2>2. w \in issuedLists
    BY <1>5 DEF ReadWatchlist
  <2> QED
    BY <1>5, <2>1, <2>2
       DEF ReadWatchlist, storeVars, ToolsTypeOK, PendingUpdate, PendingDisable
<1>6. ASSUME NEW c \in Calls, NEW r \in RuleIds, ReadRule(c, r)
      PROVE  StoreTypeOK' /\ ToolsTypeOK'
  <2>1. r \in issuedRules
    BY <1>6 DEF ReadRule
  <2> QED
    BY <1>6, <2>1
       DEF ReadRule, storeVars, ToolsTypeOK, PendingUpdate, PendingDisable
<1>7. ASSUME NEW c \in Calls, SaveWatchlist(c)
      PROVE  StoreTypeOK' /\ ToolsTypeOK'
  <2>1. calls[c].list \in issuedLists /\ calls[c].row \in SymbolBag
    BY <1>7 DEF SaveWatchlist, ToolsTypeOK, PendingUpdate, PendingDisable, Idle
  <2>2. /\ DOMAIN lists' = DOMAIN lists \cup {calls[c].list}
        /\ lists' \in [DOMAIN lists \cup {calls[c].list} -> SymbolBag]
    <3>1. lists' = Upsert(lists, calls[c].list, calls[c].row)
      BY <1>7 DEF SaveWatchlist
    <3>2. lists \in [DOMAIN lists -> SymbolBag]
      OBVIOUS
    <3>3. calls[c].row \in SymbolBag
      BY <2>1
    <3> HIDE DEF TypeOK, StoreTypeOK
    <3>4. /\ DOMAIN Upsert(lists, calls[c].list, calls[c].row)
               = DOMAIN lists \cup {calls[c].list}
          /\ Upsert(lists, calls[c].list, calls[c].row)
               \in [DOMAIN lists \cup {calls[c].list} -> SymbolBag]
      BY ONLY <3>2, <3>3, UpsertType
    <3> QED BY ONLY <3>1, <3>4
  <2>3. ToolsTypeOK'
    BY <1>7, FinishedCallTyped DEF SaveWatchlist
  <2> QED BY <1>7, <2>1, <2>2, <2>3 DEF SaveWatchlist
<1>8. ASSUME NEW c \in Calls, SaveDisabledRule(c)
      PROVE  StoreTypeOK' /\ ToolsTypeOK'
  <2>1. calls[c].rule \in issuedRules
    BY <1>8 DEF SaveDisabledRule, ToolsTypeOK, PendingUpdate, PendingDisable, Idle
  <2>2. /\ DOMAIN rules' = DOMAIN rules \cup {calls[c].rule}
        /\ rules' \in [DOMAIN rules \cup {calls[c].rule} -> BOOLEAN]
    BY <1>8, <2>1 DEF SaveDisabledRule, Upsert
  <2>3. ToolsTypeOK'
    BY <1>8, FinishedCallTyped DEF SaveDisabledRule
  <2> QED BY <1>8, <2>1, <2>2, <2>3 DEF SaveDisabledRule
<1>9. ASSUME NEW c \in Calls, CallFails(c)
      PROVE  StoreTypeOK' /\ ToolsTypeOK'
  BY <1>9, FinishedCallTyped DEF CallFails, storeVars
<1> QED
  BY <1>1, <1>2, <1>3, <1>4, <1>5, <1>6, <1>7, <1>8, <1>9 DEF ToolsNext

-----------------------------------------------------------------------------
\* The evaluator's steps.  IInv is the inductive invariant; the parts of it that
\* a step leaves alone are carried over by the two lemmas that come first.

\* What the evaluator relies on does not depend on the tables of rules and
\* watchlists, nor on the clock.
LEMMA OthersKeepIInv ==
  ASSUME IInv, UNCHANGED <<engineVars, events>>,
         StoreTypeOK', ToolsTypeOK', issuedRules \subseteq issuedRules'
  PROVE  IInv'
<1>1. EngineTypeOK'
  BY DEF IInv, TypeOK, EngineTypeOK, engineVars, SymbolBag
<1>2. ControlInv'
  BY DEF IInv, ControlInv, engineVars, NoSymbols, RecentFor, CooldownSince
<1>3. CooldownSeparation'
  BY DEF IInv, CooldownSeparation
<1>4. FiringSymbolsAreOnRecord'
  BY DEF IInv, FiringSymbolsAreOnRecord, engineVars, CooldownSince
<1>5. BatchInv' /\ NotifiedAtMostOnce'
  BY DEF IInv, BatchInv, NotifiedAtMostOnce, engineVars
<1> QED BY <1>1, <1>2, <1>3, <1>4, <1>5 DEF IInv, TypeOK

\* A job that ends leaves an idle evaluator, whatever made it end.
LEMMA ForgetKeepsIInv ==
  ASSUME IInv, Forget, UNCHANGED storeVars, UNCHANGED calls,
         sent' = sent \/ (pc = "notify" /\ sent' = Append(sent, fired))
  PROVE  IInv'
<1>1. StoreTypeOK' /\ ToolsTypeOK'
  BY CallsStayTyped
     DEF IInv, TypeOK, StoreTypeOK, storeVars, SymbolBag, Event
<1>2. sent' \in Seq(SUBSET Nat)
  <2>1. sent \in Seq(SUBSET Nat) /\ fired \in SUBSET Nat
    BY DEF IInv, TypeOK, EngineTypeOK
  <2>2. Append(sent, fired) \in Seq(SUBSET Nat)
    BY <2>1, AppendProperties
  <2> QED BY <2>1, <2>2
<1>3. EngineTypeOK'
  BY <1>2, StoreConstants
     DEF IInv, TypeOK, EngineTypeOK, Forget, NoSymbols, SymbolBag
<1>4. ControlInv'
  BY DEF Forget, ControlInv, NoSymbols, storeVars
<1>5. CooldownSeparation'
  BY DEF IInv, CooldownSeparation, storeVars
<1>6. FiringSymbolsAreOnRecord'
  BY DEF Forget, FiringSymbolsAreOnRecord
<1>7. BatchInv'
  BY DEF Forget, BatchInv
<1>8. NotifiedAtMostOnce'
  <2>1. CASE sent' = sent
    BY <2>1 DEF IInv, NotifiedAtMostOnce, storeVars
  <2>2. CASE pc = "notify" /\ sent' = Append(sent, fired)
    <3>1. sent \in Seq(SUBSET Nat) /\ fired \in SUBSET Nat
      BY DEF IInv, TypeOK, EngineTypeOK
    <3>2. /\ DOMAIN sent' = 1 .. Len(sent) + 1
          /\ DOMAIN sent = 1 .. Len(sent)
          /\ \A k \in DOMAIN sent : sent'[k] = sent[k]
          /\ sent'[Len(sent) + 1] = fired
      BY <2>2, <3>1, AppendProperties
    <3>3. fired # {} /\ fired \subseteq DOMAIN events
      BY <2>2 DEF IInv, BatchInv
    <3>4. \A k \in DOMAIN sent : sent[k] \cap fired = {}
      BY DEF IInv, BatchInv
    <3>5. \A k \in DOMAIN sent' : k \in DOMAIN sent \/ k = Len(sent) + 1
      BY <3>2, <3>1
    <3> QED
      BY <3>2, <3>3, <3>4, <3>5 DEF IInv, NotifiedAtMostOnce, storeVars
  <2> QED BY <2>1, <2>2
<1> QED
  BY <1>1, <1>3, <1>4, <1>5, <1>6, <1>7, <1>8 DEF IInv, TypeOK

LEMMA StartCycleKeepsIInv ==
  ASSUME IInv, StartCycle, UNCHANGED calls
  PROVE  IInv'
<1> USE DEF StartCycle, storeVars
<1>1. StoreTypeOK' /\ ToolsTypeOK'
  BY CallsStayTyped DEF IInv, TypeOK, StoreTypeOK, SymbolBag, Event
<1>2. EngineTypeOK'
  BY DEF IInv, TypeOK, StoreTypeOK, EngineTypeOK, SymbolBag, ActiveRules, Active
<1>3. rule = None /\ hot = {} /\ left = NoSymbols /\ sym = None
  BY DEF IInv, ControlInv
<1>4. ControlInv'
  BY <1>3 DEF ControlInv, NoSymbols
<1>5. CooldownSeparation' /\ FiringSymbolsAreOnRecord'
  BY <1>3 DEF IInv, CooldownSeparation, FiringSymbolsAreOnRecord
<1>6. BatchInv' /\ NotifiedAtMostOnce'
  BY DEF IInv, BatchInv, NotifiedAtMostOnce
<1> QED BY <1>1, <1>2, <1>4, <1>5, <1>6 DEF IInv, TypeOK

LEMMA TakeRuleKeepsIInv ==
  ASSUME IInv, NEW r \in RuleIds, TakeRule(r), UNCHANGED calls
  PROVE  IInv'
<1> USE DEF TakeRule, storeVars
<1>1. StoreTypeOK' /\ ToolsTypeOK'
  BY CallsStayTyped DEF IInv, TypeOK, StoreTypeOK, SymbolBag, Event
<1>2. r \in todo /\ r \in issuedRules /\ r # None
  BY StoreConstants DEF Earliest, IInv, TypeOK, EngineTypeOK
<1>3. EngineTypeOK'
  BY <1>2, ScopeType DEF IInv, TypeOK, EngineTypeOK, SymbolBag
<1>4. ControlInv'
  BY <1>2 DEF ControlInv, NoSymbols
<1>5. CooldownSeparation' /\ FiringSymbolsAreOnRecord'
  BY DEF IInv, CooldownSeparation, FiringSymbolsAreOnRecord
<1>6. BatchInv' /\ NotifiedAtMostOnce'
  BY DEF IInv, BatchInv, NotifiedAtMostOnce
<1> QED BY <1>1, <1>3, <1>4, <1>5, <1>6 DEF IInv, TypeOK

LEMMA ResolveKeepsIInv ==
  ASSUME IInv, NEW H \in SUBSET Symbols, Resolve(H), UNCHANGED calls
  PROVE  IInv'
<1> USE DEF Resolve, storeVars
<1>1. StoreTypeOK' /\ ToolsTypeOK'
  BY CallsStayTyped DEF IInv, TypeOK, StoreTypeOK, SymbolBag, Event
<1>2. EngineTypeOK'
  BY DEF IInv, TypeOK, EngineTypeOK, SymbolBag
<1>3. rule # None
  BY DEF IInv, ControlInv
<1>4. ControlInv'
  BY <1>3 DEF IInv, ControlInv, NoSymbols
<1>5. CooldownSeparation'
  BY DEF IInv, CooldownSeparation
<1>6. \A s \in hot' : left'[s] > 0 /\ left'[s] # 0
  BY DEF IInv, TypeOK, EngineTypeOK, SymbolBag
<1>7. FiringSymbolsAreOnRecord'
  BY <1>6 DEF FiringSymbolsAreOnRecord
<1>8. BatchInv' /\ NotifiedAtMostOnce'
  BY DEF IInv, BatchInv, NotifiedAtMostOnce
<1> QED BY <1>1, <1>2, <1>4, <1>5, <1>7, <1>8 DEF IInv, TypeOK

LEMMA EvaluateSymbolKeepsIInv ==
  ASSUME IInv, NEW s \in Symbols, EvaluateSymbol(s), UNCHANGED calls
  PROVE  IInv'
<1> USE DEF EvaluateSymbol, storeVars
<1>1. StoreTypeOK' /\ ToolsTypeOK'
  BY CallsStayTyped DEF IInv, TypeOK, StoreTypeOK, SymbolBag, Event
<1>2. left \in SymbolBag /\ left[s] \in Nat /\ left' \in SymbolBag
  BY DEF IInv, TypeOK, EngineTypeOK, SymbolBag
<1>3. EngineTypeOK'
  BY <1>2 DEF IInv, TypeOK, EngineTypeOK, SymbolBag
<1>4. rule # None
  <2>1. left # NoSymbols
    BY <1>2 DEF NoSymbols
  <2> QED BY <2>1 DEF IInv, ControlInv
<1>5. sym = None /\ s # None
  BY StoreConstants DEF IInv, ControlInv
<1>6. ControlInv'
  BY <1>4, <1>5 DEF IInv, ControlInv, RecentFor, CooldownSince, NoSymbols
<1>7. CooldownSeparation'
  BY DEF IInv, CooldownSeparation
<1>8. FiringSymbolsAreOnRecord'
  <2> SUFFICES ASSUME NEW q \in hot', left'[q] = 0, sym' # q
               PROVE  \E i \in DOMAIN events :
                        /\ events[i].rule = rule
                        /\ events[i].symbol = q
                        /\ events[i].at >= CooldownSince \/ events[i].at = asOf
    BY DEF FiringSymbolsAreOnRecord, CooldownSince
  <2>1. q \in hot /\ q \in Symbols
    BY DEF IInv, TypeOK, EngineTypeOK
  <2>2. CASE q = s
    BY <2>1, <2>2 DEF RecentFor
  <2>3. CASE q # s
    <3>1. left[q] = 0 /\ sym # q
      BY <2>1, <2>3, <1>2, <1>5, StoreConstants DEF SymbolBag
    <3> QED BY <2>1, <3>1 DEF IInv, FiringSymbolsAreOnRecord
  <2> QED BY <2>2, <2>3
<1>9. BatchInv' /\ NotifiedAtMostOnce'
  BY DEF IInv, BatchInv, NotifiedAtMostOnce
<1> QED BY <1>1, <1>3, <1>6, <1>7, <1>8, <1>9 DEF IInv, TypeOK

LEMMA SaveEventKeepsIInv ==
  ASSUME IInv, SaveEvent, UNCHANGED calls
  PROVE  IInv'
<1> USE DEF SaveEvent
<1> DEFINE n == Len(events) + 1
           e == [rule |-> rule, symbol |-> sym, at |-> asOf]
<1>1. rule \in RuleIds /\ sym \in Symbols /\ asOf \in Nat
  BY StoreConstants DEF IInv, ControlInv, TypeOK, StoreTypeOK, EngineTypeOK
<1>2. e \in Event /\ events \in Seq(Event)
  BY <1>1 DEF Event, IInv, TypeOK, StoreTypeOK
<1>3. /\ events' \in Seq(Event)
      /\ DOMAIN events = 1 .. Len(events)
      /\ DOMAIN events' = 1 .. n
      /\ \A i \in DOMAIN events : events'[i] = events[i]
      /\ events'[n] = e
  BY <1>2, AppendProperties
<1>4. n \in Nat /\ n \notin DOMAIN events /\ DOMAIN events' = DOMAIN events \cup {n}
  BY <1>2, <1>3
<1>5. StoreTypeOK' /\ ToolsTypeOK'
  BY <1>3, CallsStayTyped DEF IInv, TypeOK, StoreTypeOK, SymbolBag, Event
<1>6. EngineTypeOK'
  BY <1>4 DEF IInv, TypeOK, EngineTypeOK, SymbolBag
<1>7. ControlInv'
  BY DEF IInv, ControlInv, NoSymbols
<1>8. ~RecentFor(rule, sym, CooldownSince)
  BY DEF IInv, ControlInv
<1>9. CooldownSeparation'
  <2> SUFFICES ASSUME NEW i \in DOMAIN events', NEW j \in DOMAIN events',
                      i < j, events'[i].rule = events'[j].rule,
                      events'[i].symbol = events'[j].symbol
               PROVE  events'[j].at - events'[i].at
                        > RuleDef[events'[i].rule].cooldown
    BY DEF CooldownSeparation
  <2>1. CASE j \in DOMAIN events
    <3>1. i \in DOMAIN events
      BY <2>1, <1>3, <1>4
    <3> QED BY <2>1, <3>1, <1>3 DEF IInv, CooldownSeparation
  <2>2. CASE j = n
    <3>1. i \in DOMAIN events
      BY <2>2, <1>4
    <3>2. events[i].rule = rule /\ events[i].symbol = sym
      BY <2>2, <3>1, <1>3
    <3>3. ~(events[i].at >= asOf - RuleDef[rule].cooldown)
      BY <3>1, <3>2, <1>8 DEF RecentFor, CooldownSince
    <3>4. events[i].at \in Nat
      <4>1. events[i] \in Event
        BY <3>1, <1>2
      <4> QED BY <4>1 DEF Event
    <3>5. RuleDef[rule].cooldown \in Int
      <4>1. RuleDef[rule] \in Rule
        BY <1>1, StoreConstants
      <4> QED BY <4>1 DEF Rule
    <3>6. asOf - events[i].at > RuleDef[rule].cooldown
      BY <3>3, <3>4, <3>5, <1>1
    <3> QED BY <2>2, <3>1, <3>2, <3>6, <1>3
  <2> QED BY <2>1, <2>2, <1>4
<1>10. FiringSymbolsAreOnRecord'
  <2> SUFFICES ASSUME NEW q \in hot', left'[q] = 0
               PROVE  \E i \in DOMAIN events' :
                        /\ events'[i].rule = rule
                        /\ events'[i].symbol = q
                        /\ events'[i].at >= CooldownSince \/ events'[i].at = asOf
    BY DEF FiringSymbolsAreOnRecord, CooldownSince
  <2>1. CASE q = sym
    BY <2>1, <1>3, <1>4
  <2>2. CASE q # sym
    <3>1. PICK i \in DOMAIN events :
                 /\ events[i].rule = rule
                 /\ events[i].symbol = q
                 /\ events[i].at >= CooldownSince \/ events[i].at = asOf
      BY <2>2 DEF IInv, FiringSymbolsAreOnRecord
    <3> QED BY <3>1, <1>3, <1>4
  <2> QED BY <2>1, <2>2
<1>11. BatchInv'
  <2>1. fired' \subseteq DOMAIN events'
    BY <1>3, <1>4 DEF IInv, BatchInv
  <2>2. ASSUME NEW k \in DOMAIN sent
        PROVE  sent[k] \cap fired' = {}
    BY <1>4 DEF IInv, BatchInv, NotifiedAtMostOnce
  <2> QED BY <2>1, <2>2 DEF BatchInv
<1>12. NotifiedAtMostOnce'
  BY <1>4 DEF IInv, NotifiedAtMostOnce
<1> QED BY <1>5, <1>6, <1>7, <1>9, <1>10, <1>11, <1>12 DEF IInv, TypeOK

LEMMA EndCycleKeepsIInv ==
  ASSUME IInv, EndCycle, UNCHANGED calls
  PROVE  IInv'
<1>1. CASE fired = {}
  BY <1>1, ForgetKeepsIInv DEF EndCycle
<1>2. CASE fired # {}
  <2> USE <1>2 DEF EndCycle, storeVars
  <2>1. StoreTypeOK' /\ ToolsTypeOK'
    BY CallsStayTyped DEF IInv, TypeOK, StoreTypeOK, SymbolBag, Event
  <2>2. EngineTypeOK'
    BY DEF IInv, TypeOK, EngineTypeOK, SymbolBag
  <2>3. ControlInv'
    BY DEF IInv, ControlInv, NoSymbols
  <2>4. CooldownSeparation' /\ FiringSymbolsAreOnRecord'
    BY DEF IInv, CooldownSeparation, FiringSymbolsAreOnRecord, CooldownSince
  <2>5. BatchInv' /\ NotifiedAtMostOnce'
    BY DEF IInv, BatchInv, NotifiedAtMostOnce
  <2> QED BY <2>1, <2>2, <2>3, <2>4, <2>5 DEF IInv, TypeOK
<1> QED BY <1>1, <1>2

-----------------------------------------------------------------------------
\* The invariant.

LEMMA InitIInv == Init => IInv
<1> SUFFICES ASSUME Init PROVE IInv
  OBVIOUS
<1>1. TypeOK
  BY InitType
<1>2. ControlInv
  BY DEF Init, EngineInit, ControlInv
<1>3. CooldownSeparation /\ FiringSymbolsAreOnRecord
  BY DEF Init, StoreInit, EngineInit, CooldownSeparation, FiringSymbolsAreOnRecord
<1>4. BatchInv /\ NotifiedAtMostOnce
  BY DEF Init, StoreInit, EngineInit, BatchInv, NotifiedAtMostOnce
<1> QED BY <1>1, <1>2, <1>3, <1>4 DEF IInv

LEMMA NextIInv == IInv /\ [Next]_vars => IInv'
<1> SUFFICES ASSUME IInv, [Next]_vars PROVE IInv'
  OBVIOUS
<1>1. ASSUME ToolsNext, UNCHANGED engineVars PROVE IInv'
  <2>1. StoreTypeOK' /\ ToolsTypeOK'
    BY <1>1, ToolsStepType DEF IInv
  <2>2. events' = events /\ issuedRules \subseteq issuedRules'
    BY <1>1 DEF ToolsNext, CreateWatchlist, DeleteWatchlist, CreateAlertRule,
                DeleteAlertRule, ReadWatchlist, ReadRule, SaveWatchlist,
                SaveDisabledRule, CallFails, storeVars
  <2> QED BY <1>1, <2>1, <2>2, OthersKeepIInv
<1>2. ASSUME EngineNext, UNCHANGED calls PROVE IInv'
  <2>1. CASE StartCycle
    BY <1>2, <2>1, StartCycleKeepsIInv
  <2>2. ASSUME NEW r \in RuleIds, TakeRule(r) PROVE IInv'
    BY <1>2, <2>2, TakeRuleKeepsIInv
  <2>3. ASSUME NEW H \in SUBSET Symbols, Resolve(H) PROVE IInv'
    BY <1>2, <2>3, ResolveKeepsIInv
  <2>4. ASSUME NEW s \in Symbols, EvaluateSymbol(s) PROVE IInv'
    BY <1>2, <2>4, EvaluateSymbolKeepsIInv
  <2>5. CASE SaveEvent
    BY <1>2, <2>5, SaveEventKeepsIInv
  <2>6. CASE EndCycle
    BY <1>2, <2>6, EndCycleKeepsIInv
  <2>7. CASE Deliver
    BY <1>2, <2>7, ForgetKeepsIInv DEF Deliver
  <2>8. CASE DeliveryFails \/ ResolveRaises \/ CycleRaises \/ SchedulerRestarts
    BY <1>2, <2>8, ForgetKeepsIInv
       DEF DeliveryFails, ResolveRaises, CycleRaises, SchedulerRestarts
  <2> QED
    BY <1>2, <2>1, <2>2, <2>3, <2>4, <2>5, <2>6, <2>7, <2>8
       DEF EngineNext, EvaluatorStep
<1>3. ASSUME ClockMoves, UNCHANGED <<calls, engineVars>> PROVE IInv'
  <2>1. StoreTypeOK'
    BY <1>3 DEF ClockMoves, IInv, TypeOK, StoreTypeOK, SymbolBag, Event
  <2>2. ToolsTypeOK'
    BY <1>3, CallsStayTyped DEF ClockMoves, IInv
  <2> QED BY <1>3, <2>1, <2>2, OthersKeepIInv DEF ClockMoves
<1>4. ASSUME UNCHANGED vars PROVE IInv'
  <2>1. StoreTypeOK'
    BY <1>4 DEF vars, storeVars, IInv, TypeOK, StoreTypeOK, SymbolBag, Event
  <2>2. ToolsTypeOK'
    BY <1>4, CallsStayTyped DEF vars, storeVars, IInv
  <2> QED BY <1>4, <2>1, <2>2, OthersKeepIInv DEF vars, storeVars
<1> QED BY <1>1, <1>2, <1>3, <1>4 DEF Next

LEMMA Invariant == Spec => []IInv
  BY InitIInv, NextIInv, PTL DEF Spec

\* Every variable always holds a value of its kind.
THEOREM TypeCorrect == Spec => []TypeOK
<1>1. IInv => TypeOK
  BY DEF IInv
<1> QED BY <1>1, Invariant, PTL

\* Two events of the same rule and symbol are more than the rule's cooldown
\* apart, for every set of rules, every clock and any number of restarts.
THEOREM EventsAreCooledDown == Spec => []CooldownSeparation
<1>1. IInv => CooldownSeparation
  BY DEF IInv
<1> QED BY <1>1, Invariant, PTL

\* A symbol that satisfies its rule is on record once it has been visited.
THEOREM NoFiringSymbolIsMissed == Spec => []FiringSymbolsAreOnRecord
<1>1. IInv => FiringSymbolsAreOnRecord
  BY DEF IInv
<1> QED BY <1>1, Invariant, PTL

\* No event is sent to the notifier twice, nor one that was not saved.
THEOREM EventsAreSentOnce == Spec => []NotifiedAtMostOnce
<1>1. IInv => NotifiedAtMostOnce
  BY DEF IInv
<1> QED BY <1>1, Invariant, PTL

-----------------------------------------------------------------------------
\* Rules that are out of the game stay out of it.

\* A tool call can make a rule fire again only by creating it.
LEMMA ToolsKeepRetired ==
  ASSUME IInv, ToolsNext, UNCHANGED engineVars, NEW r \in issuedRules, ~MayFire(r)
  PROVE  ~MayFire(r)' /\ events' = events
<1> USE DEF MayFire, Active, engineVars, storeVars
<1>1. CASE UNCHANGED rules /\ UNCHANGED events
  BY <1>1
<1>2. ASSUME NEW q \in RuleIds, CreateAlertRule(q) \/ DeleteAlertRule(q)
      PROVE  ~MayFire(r)' /\ events' = events
  BY <1>2 DEF CreateAlertRule, DeleteAlertRule, Upsert, Delete
<1>3. ASSUME NEW c \in Calls, SaveDisabledRule(c)
      PROVE  ~MayFire(r)' /\ events' = events
  BY <1>3 DEF SaveDisabledRule, Upsert
<1> QED
  BY <1>1, <1>2, <1>3
     DEF ToolsNext, CreateWatchlist, DeleteWatchlist, ReadWatchlist, ReadRule,
         SaveWatchlist, CallFails

\* The evaluator works only on rules it has listed, and it lists active ones.
LEMMA EngineKeepsRetired ==
  ASSUME IInv, EngineNext, NEW r \in issuedRules, ~MayFire(r)
  PROVE  ~MayFire(r)'
<1>1. r # None
  BY StoreConstants DEF IInv, TypeOK, StoreTypeOK
<1> QED
  BY <1>1
     DEF EngineNext, EvaluatorStep, StartCycle, TakeRule, Resolve, EvaluateSymbol,
         SaveEvent, EndCycle, Deliver, DeliveryFails, ResolveRaises, CycleRaises,
         SchedulerRestarts, Forget, MayFire, Active, ActiveRules, Earliest, storeVars

\* Only the rule being evaluated gets an event.
LEMMA EventsOfCurrentRule ==
  ASSUME IInv, EngineNext
  PROVE  \A i \in DOMAIN events' \ DOMAIN events : events'[i].rule = rule
<1>1. CASE SaveEvent
  <2>1. rule \in RuleIds /\ sym \in Symbols /\ asOf \in Nat
    BY <1>1, StoreConstants
       DEF SaveEvent, IInv, ControlInv, TypeOK, StoreTypeOK, EngineTypeOK
  <2>2. events \in Seq(Event) /\ [rule |-> rule, symbol |-> sym, at |-> asOf] \in Event
    BY <2>1 DEF Event, IInv, TypeOK, StoreTypeOK
  <2> QED BY <1>1, <2>2, AppendProperties DEF SaveEvent
<1>2. CASE UNCHANGED events
  BY <1>2
<1> QED
  BY <1>1, <1>2
     DEF EngineNext, EvaluatorStep, StartCycle, TakeRule, Resolve, EvaluateSymbol,
         EndCycle, Deliver, DeliveryFails, ResolveRaises, CycleRaises,
         SchedulerRestarts, storeVars

LEMMA NextKeepsRetired ==
  ASSUME IInv, Next, NEW r \in issuedRules, ~MayFire(r)
  PROVE  /\ ~MayFire(r)'
         /\ \A i \in DOMAIN events' \ DOMAIN events : events'[i].rule # r
<1>1. CASE ToolsNext /\ UNCHANGED engineVars
  BY <1>1, ToolsKeepRetired
<1>2. CASE EngineNext
  BY <1>2, EngineKeepsRetired, EventsOfCurrentRule DEF MayFire
<1>3. CASE ClockMoves /\ UNCHANGED engineVars
  BY <1>3 DEF ClockMoves, engineVars, MayFire, Active
<1> QED BY <1>1, <1>2, <1>3 DEF Next

\* A rule that was disabled or deleted, and that no running cycle has listed,
\* never produces an event again.
THEOREM RetiredRulesAreSilent == Spec => RetiredRulesStaySilent
<1>1. IInv /\ [Next]_vars =>
        [\A r \in issuedRules :
           ~MayFire(r) =>
             /\ ~MayFire(r)'
             /\ \A i \in DOMAIN events' \ DOMAIN events : events'[i].rule # r]_vars
  BY NextKeepsRetired
<1> QED BY <1>1, Invariant, PTL DEF Spec, RetiredRulesStaySilent

-----------------------------------------------------------------------------
\* The subsystem implements AlertPromise.

LEMMA InitImplements == Init => Promise!Init
  BY DEF Init, StoreInit, Promise!Init, MayFireRules

\* A step that neither creates a rule nor saves an event can only retire rules.
LEMMA QuietStepImplements ==
  ASSUME events' = events, issuedRules' = issuedRules,
         MayFireRules' \subseteq MayFireRules,
         MayFireRules \subseteq issuedRules
  PROVE  [Promise!Next]_<<events, MayFireRules, issuedRules \ MayFireRules>>
<1>1. CASE MayFireRules' = MayFireRules
  BY <1>1
<1>2. CASE MayFireRules' # MayFireRules
  <2> DEFINE R == MayFireRules \ MayFireRules'
  <2>1. R # {} /\ R \in SUBSET MayFireRules
    BY <1>2
  <2>2. Promise!Retire(R)
    BY <2>1 DEF Promise!Retire
  <2> QED BY <2>1, <2>2 DEF Promise!Next
<1> QED BY <1>1, <1>2

LEMMA SaveEventImplements ==
  ASSUME IInv, SaveEvent
  PROVE  Promise!Next
<1>1. rule \in RuleIds /\ sym \in Symbols /\ asOf \in 0 .. MaxNow
  BY StoreConstants
     DEF SaveEvent, IInv, ControlInv, TypeOK, StoreTypeOK, EngineTypeOK
<1>2. rule \in MayFireRules
  BY DEF SaveEvent, MayFireRules, MayFire, IInv, ControlInv, TypeOK, EngineTypeOK
<1>3. MayFireRules' = MayFireRules /\ issuedRules' = issuedRules
  BY DEF SaveEvent, MayFireRules, MayFire, Active
<1>4. ASSUME NEW i \in DOMAIN events, events[i].rule = rule, events[i].symbol = sym
      PROVE  asOf - events[i].at > RuleDef[rule].cooldown
  <2>1. ~(events[i].at >= asOf - RuleDef[rule].cooldown)
    BY <1>4 DEF SaveEvent, IInv, ControlInv, RecentFor, CooldownSince
  <2>2. events[i].at \in Nat
    <3>1. events[i] \in Event
      BY DEF IInv, TypeOK, StoreTypeOK
    <3> QED BY <3>1 DEF Event
  <2>3. RuleDef[rule].cooldown \in Int
    <3>1. RuleDef[rule] \in Rule
      BY <1>1, StoreConstants
    <3> QED BY <3>1 DEF Rule
  <2>4. asOf \in Int
    BY <1>1, StoreConstants
  <2> QED BY <2>1, <2>2, <2>3, <2>4
<1>5. Promise!CooledDown(rule, sym, asOf)
  BY <1>1, <1>4 DEF Promise!CooledDown
<1>6. Promise!Fire(rule, sym, asOf)
  BY <1>2, <1>3, <1>5 DEF Promise!Fire, SaveEvent
<1> QED BY <1>1, <1>6 DEF Promise!Next

LEMMA CreateRuleImplements ==
  ASSUME IInv, NEW r \in RuleIds, CreateAlertRule(r), UNCHANGED engineVars
  PROVE  Promise!Next
<1>1. MayFireRules' = MayFireRules \cup {r}
  BY DEF CreateAlertRule, engineVars, MayFireRules, MayFire, Active, Upsert,
         IInv, TypeOK, StoreTypeOK
<1>2. Promise!Arm(r)
  BY <1>1 DEF CreateAlertRule, Promise!Arm, MayFireRules
<1> QED BY <1>2 DEF Promise!Next

LEMMA NextImplements ==
  ASSUME IInv, [Next]_vars
  PROVE  [Promise!Next]_<<events, MayFireRules, issuedRules \ MayFireRules>>
<1>1. MayFireRules \subseteq issuedRules
  BY DEF MayFireRules
<1>2. CASE UNCHANGED vars
  BY <1>2 DEF vars, storeVars, engineVars, MayFireRules, MayFire, Active
<1>3. ASSUME NEW r \in RuleIds, CreateAlertRule(r), UNCHANGED engineVars
      PROVE  Promise!Next
  BY <1>3, CreateRuleImplements
<1>4. CASE SaveEvent
  BY <1>4, SaveEventImplements
<1>5. ASSUME Next, events' = events, issuedRules' = issuedRules
      PROVE  [Promise!Next]_<<events, MayFireRules, issuedRules \ MayFireRules>>
  <2>1. MayFireRules' \subseteq MayFireRules
    BY <1>5, NextKeepsRetired DEF MayFireRules
  <2> QED BY <1>1, <1>5, <2>1, QuietStepImplements
<1>6. CASE ToolsNext /\ UNCHANGED engineVars
  <2>1. \/ \E r \in RuleIds : CreateAlertRule(r)
        \/ events' = events /\ issuedRules' = issuedRules
    BY <1>6 DEF ToolsNext, CreateWatchlist, DeleteWatchlist, DeleteAlertRule,
                ReadWatchlist, ReadRule, SaveWatchlist, SaveDisabledRule,
                CallFails, storeVars
  <2>2. Next
    BY <1>6 DEF Next
  <2> QED BY <1>3, <1>5, <1>6, <2>1, <2>2
<1>7. CASE EngineNext /\ UNCHANGED calls
  <2>1. SaveEvent \/ (events' = events /\ issuedRules' = issuedRules)
    BY <1>7 DEF EngineNext, EvaluatorStep, StartCycle, TakeRule, Resolve,
                EvaluateSymbol, EndCycle, Deliver, DeliveryFails, ResolveRaises,
                CycleRaises, SchedulerRestarts, storeVars
  <2>2. Next
    BY <1>7 DEF Next
  <2> QED BY <1>4, <1>5, <2>1, <2>2
<1>8. CASE ClockMoves /\ UNCHANGED <<calls, engineVars>>
  <2>1. Next /\ events' = events /\ issuedRules' = issuedRules
    BY <1>8 DEF Next, ClockMoves
  <2> QED BY <1>5, <2>1
<1> QED BY <1>2, <1>6, <1>7, <1>8 DEF Next

\* The tables, tool calls and cycles together behave as AlertPromise says.
THEOREM SystemImplementsPromise == Spec => ImplementsPromise
<1>1. Init => Promise!Init
  BY InitImplements
<1>2. IInv /\ [Next]_vars =>
        [Promise!Next]_<<events, MayFireRules, issuedRules \ MayFireRules>>
  BY NextImplements
<1> QED BY <1>1, <1>2, Invariant, PTL DEF Spec, ImplementsPromise, Promise!Spec

=============================================================================
