------------------------------ MODULE Catalysts ------------------------------
(***************************************************************************)
(* explain_move: the largest recent move of a symbol and the stored events *)
(* that may have led to it (domain/catalysts).  Times are in half days.    *)
(* Moves are in percent, cut to integers; scores in tenths and hundredths. *)
(***************************************************************************)
EXTENDS TrendScan

Day == 2

\* Bars here have a time; events are [id, type, time].
Move(bars, i) == PctChange(bars[i].close, bars[i - 1].close)
Magnitude(x) == IF x < 0 THEN - x ELSE x

\* The days of the last `lookback` bars whose move can be computed.
MoveDays(bars, lookback) ==
  {i \in Max({2, Len(bars) - lookback + 1}) .. Len(bars) : Move(bars, i) # None}

\* The first of the largest ones.
DetectMove(bars, lookback) ==
  LET days == MoveDays(bars, lookback)
      Size(i) == Magnitude(Move(bars, i))
      largest == {i \in days : \A j \in days : Size(j) <= Size(i)}
  IN  IF days = {} THEN None ELSE Min(largest)

Relevance(type) ==
  CASE type \in {"EARNINGS", "FILING_8K"} -> 90
    [] type \in {"FILING_10Q", "FILING_10K"} -> 70
    [] type \in {"SPLIT", "DIVIDEND"} -> 60
    [] type = "NEWS" -> 40
    [] OTHER -> 30

Novelty(type) ==
  CASE type \in {"EARNINGS", "FILING_8K"} -> 85
    [] type = "FILING_10K" -> 80
    [] type = "FILING_10Q" -> 70
    [] type = "SPLIT" -> 90
    [] type = "NEWS" -> 60
    [] OTHER -> 50

Structured == {"EARNINGS", "FILING_8K", "FILING_10Q", "FILING_10K", "SPLIT", "DIVIDEND"}

\* Of window * Day; the code divides by the window, which is not 0.
Proximity(move, time, window) == Max({0, window * Day - Magnitude(move - time)})

Strength(e, move, window) ==
  LET near == 10 * Proximity(move, e.time, window)
  IN  IF e.type \in Structured /\ near >= 7 * window * Day /\ Relevance(e.type) >= 70 THEN 3
      ELSE IF near >= 4 * window * Day /\ Relevance(e.type) >= 50 THEN 2
      ELSE 1

Composite(e, move, window) == Proximity(move, e.time, window) * Relevance(e.type) * Novelty(e.type)

\* Events given in the order they are stored in; what ties keeps it.
Correlate(move, events, window) ==
  LET near == {i \in DOMAIN events : /\ move - events[i].time >= - Day
                                     /\ move - events[i].time <= window * Day}
      C(i) == Composite(events[i], move, window)
      Before(i, j) == \/ C(i) > C(j)
                      \/ C(i) = C(j) /\ events[i].time > events[j].time
                      \/ C(i) = C(j) /\ events[i].time = events[j].time /\ i < j
      order == Sorted(near, Before)
  IN  [k \in 1 .. Cardinality(near) |->
         [event |-> events[order[k]], strength |-> Strength(events[order[k]], move, window)]]

\* get_events: BETWEEN, ordered by time.
EventsBetween(events, start, end) ==
  Sorted({e \in events : start <= e.time /\ e.time <= end},
               LAMBDA e, f : e.time < f.time \/ (e.time = f.time /\ e.id < f.id))

\* Mutant: events up to the move.
EventsForMoveBefore(events, move, window) ==
  EventsBetween(events, move - (window + 1) * Day, move)

EventsForMove(events, move, window) ==
  EventsBetween(events, move - (window + 1) * Day, move + Day)

ExplainMove(bars, events, lookback, window) ==
  LET i == DetectMove(bars, lookback)
  IN  IF i = None THEN [move |-> None, volume_ratio |-> None, catalysts |-> << >>, causal |-> 0]
      ELSE LET found == Correlate(bars[i].time, EventsForMove(events, bars[i].time, window), window)
           IN  [move |-> i, volume_ratio |-> VolumeRatio(SubSeq(bars, 1, i)), catalysts |-> found,
                causal |-> Max({0} \cup {found[k].strength : k \in DOMAIN found})]

=============================================================================
