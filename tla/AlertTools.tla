----------------------------- MODULE AlertTools -----------------------------
(***************************************************************************)
(* The MCP tools that edit rules and watchlists                            *)
(* (apps/mcp_server/server.py, _register_alert_tools).  The server is one  *)
(* asyncio process without locks: a tool that awaits a read and then       *)
(* awaits a write can be interleaved with any other tool at that await,    *)
(* and may fail, be cancelled or die with the server there.                *)
(***************************************************************************)
EXTENDS AlertStore

CONSTANTS
  Calls,   \* slots for tool calls in flight between a read and a write
  Edits    \* the (add, remove) arguments update_watchlist is called with

ASSUME ToolConstants ==
  Edits \subseteq [add: SUBSET Symbols, remove: SUBSET Symbols]

VARIABLE calls  \* calls[c]: what the call in slot c has read and will write

Idle == [op |-> "idle"]

PendingUpdate == [op: {"update"}, list: issuedLists, row: SymbolBag]
PendingDisable == [op: {"disable"}, rule: issuedRules]

ToolsTypeOK == calls \in [Calls -> {Idle} \cup PendingUpdate \cup PendingDisable]

ToolsInit == calls = [c \in Calls |-> Idle]

CreateWatchlist(w) ==
  /\ w \notin issuedLists
  /\ issuedLists' = issuedLists \cup {w}
  /\ lists' = Upsert(lists, w, ListDef[w])
  /\ UNCHANGED <<now, rules, issuedRules, events, calls>>

CreateAlertRule(r) ==
  /\ r \notin issuedRules
  /\ issuedRules' = issuedRules \cup {r}
  /\ rules' = Upsert(rules, r, TRUE)
  /\ UNCHANGED <<now, lists, issuedLists, events, calls>>

\* A removal that takes one copy away without looking whether there is one.
EditedRemovingOne(row, e) ==
  LET kept(s) == IF s \in e.remove THEN row[s] - 1 ELSE row[s]
  IN  [s \in Symbols |-> IF s \in e.add /\ kept(s) = 0 THEN 1 ELSE kept(s)]

\* The list update_watchlist computes: removals first (every copy goes), then
\* each addition that is not there yet.
Edited(row, e) ==
  LET kept(s) == IF s \in e.remove THEN 0 ELSE row[s]
  IN  [s \in Symbols |-> IF s \in e.add /\ kept(s) = 0 THEN 1 ELSE kept(s)]

(***************************************************************************)
(* update_watchlist: read the row, edit it in memory, write the whole row. *)
(* A missing watchlist ends the call without a write.                      *)
(***************************************************************************)
ReadWatchlist(c, w, e) ==
  /\ calls[c] = Idle
  /\ w \in DOMAIN lists
  /\ calls' = [calls EXCEPT ![c] =
                 [op |-> "update", list |-> w, row |-> Edited(lists[w], e)]]
  /\ UNCHANGED storeVars

SaveWatchlist(c) ==
  /\ calls[c].op = "update"
  /\ lists' = Upsert(lists, calls[c].list, calls[c].row)
  /\ calls' = [calls EXCEPT ![c] = Idle]
  /\ UNCHANGED <<now, rules, issuedRules, issuedLists, events>>

DeleteWatchlist(w) ==
  /\ w \in DOMAIN lists
  /\ lists' = Delete(lists, w)
  /\ UNCHANGED <<now, rules, issuedRules, issuedLists, events, calls>>

\* disable_alert_rule: read the rule, write its copy with active = False.
ReadRule(c, r) ==
  /\ calls[c] = Idle
  /\ r \in DOMAIN rules
  /\ calls' = [calls EXCEPT ![c] = [op |-> "disable", rule |-> r]]
  /\ UNCHANGED storeVars

\* The copy written back without the change to its active flag.
SaveRuleUnchanged(c) ==
  /\ calls[c].op = "disable"
  /\ rules' = Upsert(rules, calls[c].rule, TRUE)
  /\ calls' = [calls EXCEPT ![c] = Idle]
  /\ UNCHANGED <<now, issuedRules, lists, issuedLists, events>>

SaveDisabledRule(c) ==
  /\ calls[c].op = "disable"
  /\ rules' = Upsert(rules, calls[c].rule, FALSE)
  /\ calls' = [calls EXCEPT ![c] = Idle]
  /\ UNCHANGED <<now, issuedRules, lists, issuedLists, events>>

DeleteAlertRule(r) ==
  /\ r \in DOMAIN rules
  /\ rules' = Delete(rules, r)
  /\ UNCHANGED <<now, issuedRules, lists, issuedLists, events, calls>>

\* The write raises, the client goes away, or the server stops before it.
CallFails(c) ==
  /\ calls[c] # Idle
  /\ calls' = [calls EXCEPT ![c] = Idle]
  /\ UNCHANGED storeVars

ToolsNext ==
  \/ \E w \in WatchlistIds : CreateWatchlist(w) \/ DeleteWatchlist(w)
  \/ \E r \in RuleIds : CreateAlertRule(r) \/ DeleteAlertRule(r)
  \/ \E c \in Calls :
       \/ \E w \in WatchlistIds, e \in Edits : ReadWatchlist(c, w, e)
       \/ \E r \in RuleIds : ReadRule(c, r)
       \/ SaveWatchlist(c) \/ SaveDisabledRule(c) \/ CallFails(c)

=============================================================================
