----------------------------- MODULE MarketData ------------------------------
(***************************************************************************)
(* The market, the table market_bar and the jobs that load it              *)
(* (apps/market_worker/backfill.py, run by the scheduler once a day and by *)
(* sv-backfill and sv-bootstrap by hand, so that two may overlap).         *)
(*                                                                         *)
(* A session is a trading day, numbered from 1.  The provider returns bars *)
(* adjusted for every split up to the moment it is asked, so all a bar is  *)
(* here is its adjustment basis: the number of splits of its symbol that   *)
(* had happened when it was fetched.  A series maps sessions to bars.      *)
(***************************************************************************)
EXTENDS Integers, Sequences, Functions

CONSTANTS
  Stocks,        \* the active universe
  Benchmark,     \* SPY
  StockOrder,    \* active_symbols(), in the order of the seed list
  FirstSession,  \* FirstSession[s]: the session s was listed in
  Jobs,          \* the jobs that load bars
  LoadDays,      \* LoadDays[j]: how many sessions j asks for, daily_backfill_days or backfill_days
  MaxSession,    \* bound: the last session that closes
  MaxLoads,      \* bound: how many loads are started
  MaxSplits      \* bound: MaxSplits[s] splits of s

Symbols == Stocks \cup {Benchmark}
Sessions == 1 .. MaxSession

ASSUME MarketConstants ==
  /\ MaxSession \in Nat \ {0}
  /\ MaxLoads \in Nat
  /\ Benchmark \notin Stocks
  /\ MaxSplits \in [Symbols -> Nat]
  /\ StockOrder \in Seq(Stocks)
  /\ LoadDays \in [Jobs -> Nat \ {0}]
  /\ FirstSession \in [Symbols -> Sessions]

VARIABLES
  session,  \* the session that closed last
  splits,   \* splits[s]: how often s has split
  bars,     \* market_bar: symbol -> series
  load,     \* load[j]: the symbols the job j has yet to load
  span,     \* span[j]: the days it asks for, fixed when it starts
  started   \* how many loads have been started

dataVars == <<session, splits, bars, load, span, started>>

IsSeries(x) == DOMAIN x \subseteq Sessions /\ x \in [DOMAIN x -> Nat]

\* Mutant: DO UPDATE.
InsertOverwriting(table, rows) ==
  [k \in DOMAIN table \cup DOMAIN rows |->
     IF k \in DOMAIN rows THEN rows[k] ELSE table[k]]

\* INSERT ... ON CONFLICT (key) DO NOTHING, by which bars and snapshots are
\* written: rows that exist stay as they are.
InsertNew(table, rows) ==
  [k \in DOMAIN table \cup DOMAIN rows |->
     IF k \in DOMAIN table THEN table[k] ELSE rows[k]]

DataInit ==
  /\ session = 1
  /\ splits = [s \in Symbols |-> 0]
  /\ bars = [s \in Symbols |-> << >>]
  /\ load = [j \in Jobs |-> << >>]
  /\ span = [j \in Jobs |-> {}]
  /\ started = 0

SessionCloses ==
  /\ session < MaxSession
  /\ session' = session + 1
  /\ UNCHANGED <<splits, bars, load, span, started>>

Split(s) ==
  /\ splits[s] < MaxSplits[s]
  /\ splits' = [splits EXCEPT ![s] = @ + 1]
  /\ UNCHANGED <<session, bars, load, span, started>>

LoadOrder == <<Benchmark>> \o StockOrder

\* The job has these symbols left; a job without any is over.
GoesOnWith(j, rest) ==
  /\ load' = [load EXCEPT ![j] = rest]
  /\ span' = [span EXCEPT ![j] = IF rest = << >> THEN {} ELSE @]

\* end = utcnow(): today is the session that closed last, or already the next.
StartBackfill(j) ==
  /\ started < MaxLoads
  /\ started' = started + 1
  /\ load[j] = << >>
  /\ load' = [load EXCEPT ![j] = LoadOrder]
  /\ \E today \in {session, session + 1} :
       span' = [span EXCEPT ![j] = {t \in Sessions : today - LoadDays[j] < t /\ t <= today}]
  /\ UNCHANGED <<session, splits, bars>>

\* What the provider returns for the symbol and the days asked for when `last`
\* is the newest session it has: adjusted=true.
Fetched(s, days, last) ==
  [t \in {u \in days : FirstSession[s] <= u /\ u <= last} |-> splits[s]]

\* One round of the loop: fetch a symbol, insert its bars.  The provider has
\* the bars of a session at some time after its close, or none for the symbol.
LoadSymbol(j) ==
  /\ load[j] # << >>
  /\ \E last \in 0 .. session :
       LET s == Head(load[j])
       IN  bars' = [bars EXCEPT ![s] = InsertNew(@, Fetched(s, span[j], last))]
  /\ GoesOnWith(j, Tail(load[j]))
  /\ UNCHANGED <<session, splits, started>>

\* The provider or the database raises, or the process stops.
BackfillFails(j) ==
  /\ load[j] # << >>
  /\ GoesOnWith(j, << >>)
  /\ UNCHANGED <<session, splits, bars, started>>

DataNext ==
  \/ SessionCloses
  \/ \E s \in Symbols : Split(s)
  \/ \E j \in Jobs : StartBackfill(j) \/ LoadSymbol(j) \/ BackfillFails(j)

DataTypeOK ==
  /\ session \in Sessions
  /\ splits \in [Symbols -> Nat]
  /\ DOMAIN bars = Symbols /\ \A s \in Symbols : IsSeries(bars[s])
  /\ load \in [Jobs -> Seq(Symbols)]
  /\ span \in [Jobs -> SUBSET Sessions]
  /\ started \in Nat

=============================================================================
