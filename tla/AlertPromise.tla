---------------------------- MODULE AlertPromise ----------------------------
(***************************************************************************)
(* What the alert subsystem promises, without tables, cycles, tool calls   *)
(* or crashes: a rule is armed once and retired for good; only an armed    *)
(* rule fires; and a (rule, symbol) fires again only after the rule's      *)
(* cooldown.                                                               *)
(***************************************************************************)
EXTENDS Integers, Sequences

CONSTANTS
  Rules, Tickers,
  Times,          \* readings of the clock
  Cooldown        \* Cooldown[r]: the least time between two alerts, exclusive

VARIABLES
  alerts,   \* the alerts fired so far
  armed,    \* rules that may fire
  retired   \* rules that never fire again

Init ==
  /\ alerts = << >>
  /\ armed = {}
  /\ retired = {}

Arm(r) ==
  /\ r \notin armed \cup retired
  /\ armed' = armed \cup {r}
  /\ UNCHANGED <<alerts, retired>>

Retire(R) ==
  /\ R # {}
  /\ armed' = armed \ R
  /\ retired' = retired \cup R
  /\ UNCHANGED alerts

CooledDown(r, s, t) ==
  \A i \in DOMAIN alerts :
    alerts[i].rule = r /\ alerts[i].symbol = s => t - alerts[i].at > Cooldown[r]

Fire(r, s, t) ==
  /\ r \in armed
  /\ CooledDown(r, s, t)
  /\ alerts' = Append(alerts, [rule |-> r, symbol |-> s, at |-> t])
  /\ UNCHANGED <<armed, retired>>

Next ==
  \/ \E r \in Rules : Arm(r)
  \/ \E R \in SUBSET armed : Retire(R)
  \/ \E r \in Rules, s \in Tickers, t \in Times : Fire(r, s, t)

Spec == Init /\ [][Next]_<<alerts, armed, retired>>

=============================================================================
