---------------------------- MODULE CrossSection -----------------------------
(***************************************************************************)
(* Scoring relative to a cross-section of symbols (core/stats.py, and the  *)
(* same helpers in domain/trend/scoring.py).  Symbols are numbers in their *)
(* alphabetical order, raw values integers or None, and a z-score is an    *)
(* integer number of twentieths, cut towards zero: enough to hit every     *)
(* threshold the code compares z-scores with exactly.                      *)
(***************************************************************************)
EXTENDS Integers, FiniteSets, FiniteSetsExt, SequencesExt

CONSTANT None  \* Python's None

ASSUME NoneIsNoNumber == None \notin Int

ZUnit == 20
WinsorZ == 3 * ZUnit

Present(raw) == {s \in DOMAIN raw : raw[s] # None}

Square(x) == x * x
Total(raw, S) == MapThenSumSet(LAMBDA s : raw[s], S)

\* n times the deviation from the mean, and n * n times the variance.
Deviation(raw, S, s) == Cardinality(S) * raw[s] - Total(raw, S)
Spread(raw, S) ==
  Cardinality(S) * MapThenSumSet(LAMBDA s : Square(raw[s]), S) - Square(Total(raw, S))

\* |deviation| / stdev in twentieths, at most the cap.
ZSize(dev, spread) ==
  Cardinality({r \in 1 .. WinsorZ : Square(r) * spread <= Square(ZUnit * dev)})

\* Missing values map to 0; so does everything without two values or a spread.
ZScores(raw) ==
  LET S == Present(raw)
      spread == Spread(raw, S)
      Z(s) == LET dev == Deviation(raw, S, s)
              IN  IF dev < 0 THEN - ZSize(dev, spread) ELSE ZSize(dev, spread)
  IN  [s \in DOMAIN raw |->
         IF s \notin S \/ Cardinality(S) < 2 \/ spread = 0 THEN 0 ELSE Z(s)]

\* A percentile has four decimals.
PercentUnit == 10000

\* The share of the other symbols that score lower.
Percentile(score, s) ==
  LET n == Cardinality(DOMAIN score)
      below == Cardinality({t \in DOMAIN score : score[t] < score[s]})
  IN  IF n > 1 THEN (100 * PercentUnit * below) \div (n - 1) ELSE 100 * PercentUnit

\* A set in a strict total order; SetToSortSeq tries all sequences.
Sorted(S, Before(_, _)) ==
  [i \in 1 .. Cardinality(S) |->
     CHOOSE s \in S : Cardinality({t \in S : Before(t, s)}) = i - 1]

\* The elements of a sequence at some of its places.
Kept(q, places) ==
  LET order == Sorted(places, LAMBDA i, j : i < j)
  IN  [k \in 1 .. Cardinality(places) |-> q[order[k]]]

\* (-score, symbol)
Ahead(score, s, t) == score[s] > score[t] \/ (score[s] = score[t] /\ s < t)
RankOrder(score) == Sorted(DOMAIN score, LAMBDA s, t : Ahead(score, s, t))

=============================================================================
