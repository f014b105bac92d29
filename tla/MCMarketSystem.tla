--------------------------- MODULE MCMarketSystem ----------------------------
(***************************************************************************)
(* Small instances of MarketSystem for TLC: the benchmark and two stocks.  *)
(* The stock a is listed in session 2; the stock b splits once and falls   *)
(* below a gate in the last session.  The daily job asks for one session,  *)
(* the one started by hand for two.                                        *)
(***************************************************************************)
EXTENDS MarketSystem

CONSTANTS a, b, daily, manual

MCStockOrder == <<a, b>>
MCFirstSession == [s \in Symbols |-> IF s = a THEN 2 ELSE 1]
MCLoadDays == [j \in Jobs |-> IF j = daily THEN 1 ELSE 2]
MCMaxSplits == [s \in Symbols |-> IF s = b THEN 1 ELSE 0]
MCInvestable == [s \in Stocks |-> IF s = b THEN Sessions \ {MaxSession} ELSE Sessions]

=============================================================================
