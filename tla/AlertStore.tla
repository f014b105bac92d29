----------------------------- MODULE AlertStore -----------------------------
(***************************************************************************)
(* The three Postgres tables shared by the MCP server (which edits rules   *)
(* and watchlists) and the scheduler (which evaluates the rules and        *)
(* records alert events): storage/alert_repos.py.  Every repository call   *)
(* is one SQL statement, so it is one atomic step here.                    *)
(*                                                                         *)
(* Identifiers are uuid4 values made by the create tools, so an id is      *)
(* created at most once; no tool edits a rule's DSL or scope afterwards.   *)
(* What the rule r is, if it is ever created, is therefore the constant    *)
(* RuleDef[r], and the row keeps only its `active` column.  Likewise a     *)
(* watchlist w starts as ListDef[w].  Rule ids are numbered in the order   *)
(* of their created_at stamps, which the server takes from its wall clock  *)
(* before the INSERT: rows may appear in any order.                        *)
(*                                                                         *)
(* A list of symbols is abstracted to how often each symbol occurs in it:  *)
(* the order in which a rule's symbols are visited is left open.           *)
(***************************************************************************)
EXTENDS Integers, Sequences, FiniteSets

CONSTANTS
  RuleIds,       \* uuids create_alert_rule may hand out, by created_at
  WatchlistIds,  \* uuids that create_watchlist may hand out
  Symbols,       \* ticker symbols
  None,          \* "no watchlist", "no rule", "no symbol"
  RuleDef,       \* RuleDef[r]: the rule stored under r
  ListDef,       \* ListDef[w]: the symbols the watchlist w is created with
  MaxNow         \* bound: the largest reading of the wall clock

SymbolBag == [Symbols -> Nat]

Rule == [symbols: SymbolBag,                  \* the explicit scope
         watchlist: WatchlistIds \cup {None}, \* used when that scope is empty
         cooldown: Int,                       \* cooldown_hours is not validated
         sound: BOOLEAN]                      \* its metrics can all be resolved

ASSUME StoreConstants ==
  /\ RuleIds \subseteq Nat
  /\ RuleDef \in [RuleIds -> Rule]
  /\ ListDef \in [WatchlistIds -> SymbolBag]
  /\ MaxNow \in Nat
  /\ None \notin RuleIds /\ None \notin WatchlistIds /\ None \notin Symbols

VARIABLES
  now,          \* the wall clock (utcnow)
  rules,        \* alert_rule: id -> active
  issuedRules,  \* ids of every rule ever created
  lists,        \* watchlist: id -> symbols
  issuedLists,  \* ids of every watchlist ever created
  events        \* alert_event, in insertion order

storeVars == <<now, rules, issuedRules, lists, issuedLists, events>>

Event == [rule: RuleIds, symbol: Symbols, at: Nat]

\* INSERT ... ON CONFLICT (id) DO UPDATE: writes the row whether or not it exists.
Upsert(table, id, row) ==
  [x \in DOMAIN table \cup {id} |-> IF x = id THEN row ELSE table[x]]

\* DELETE ... WHERE id = $1
Delete(table, id) == [x \in DOMAIN table \ {id} |-> table[x]]

\* The row is there and its active column is TRUE.
Active(r) == r \in DOMAIN rules /\ rules[r]

\* SELECT ... FROM alert_rule WHERE active = TRUE (the ORDER BY is in Earliest).
ActiveRules == {r \in RuleIds : Active(r)}

\* The rule that comes next in the ORDER BY created_at of a listing.
Earliest(S) == {r \in S : \A q \in S : r <= q}

\* recent_for(rule_id, symbol, since): created_at >= since, with no upper end.
RecentFor(r, s, since) ==
  \E i \in DOMAIN events :
    /\ events[i].rule = r
    /\ events[i].symbol = s
    /\ events[i].at >= since

NoSymbols == [s \in Symbols |-> 0]

StoreTypeOK ==
  /\ now \in 0 .. MaxNow
  /\ issuedRules \subseteq RuleIds
  /\ DOMAIN rules \subseteq issuedRules
  /\ rules \in [DOMAIN rules -> BOOLEAN]
  /\ issuedLists \subseteq WatchlistIds
  /\ DOMAIN lists \subseteq issuedLists
  /\ lists \in [DOMAIN lists -> SymbolBag]
  /\ events \in Seq(Event)

StoreInit ==
  /\ now = 0
  /\ rules = << >>
  /\ issuedRules = {}
  /\ lists = << >>
  /\ issuedLists = {}
  /\ events = << >>

(***************************************************************************)
(* datetime.now(UTC) reads the host's clock, which an operator or NTP may  *)
(* also set back.                                                          *)
(***************************************************************************)
ClockMoves ==
  /\ now' \in (0 .. MaxNow) \ {now}
  /\ UNCHANGED <<rules, issuedRules, lists, issuedLists, events>>

=============================================================================
