--------------------------- MODULE MCAlertSystem ----------------------------
(***************************************************************************)
(* Small instances of AlertSystem for TLC.  Rule 2 lists s1 twice, rule 3  *)
(* follows the watchlist `watched`, and rules 1 and 4 name a research      *)
(* strategy that does not exist.                                           *)
(***************************************************************************)
EXTENDS AlertSystem

CONSTANTS watched, s1, s2, MaxEvents

Bag(S, n) == [s \in Symbols |-> IF s \in S THEN n ELSE 0]

MCRuleDef ==
  [r \in RuleIds |->
     CASE r = 2 -> [symbols |-> Bag({s1}, 2), watchlist |-> None,
                     cooldown |-> 0, sound |-> TRUE]
       [] r = 3 -> [symbols |-> Bag({}, 0), watchlist |-> watched,
                     cooldown |-> 1, sound |-> TRUE]
       [] r \in {1, 4} -> [symbols |-> Bag({s2}, 1), watchlist |-> None,
                          cooldown |-> 0, sound |-> FALSE]]

MCListDef == [x \in WatchlistIds |-> Bag({s1}, 1)]

\* The properties compare two events at a time.
FewEvents == Len(events) <= MaxEvents

MCEdits == {[add |-> {s2}, remove |-> {s1}]}

=============================================================================
