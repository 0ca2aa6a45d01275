---------------------------- MODULE MCPortfolio ----------------------------
(***************************************************************************)
(* A dollar stock and a coin quoted in won.  A day has two hours, of two   *)
(* units each; what happens falls on a midnight, within an hour of the     *)
(* same day, and on the midnight after the next day.  The first of these   *)
(* days ends a year and a month, the second ends a month.                  *)
(***************************************************************************)
EXTENDS Portfolio

TwoSymbols    == {"stock", "coin"}
TwoCurrencies == [s \in TwoSymbols |-> IF s = "stock" THEN "USD" ELSE "KRW"]
TwoTypes      == [s \in TwoSymbols |-> IF s = "stock" THEN "us_stock" ELSE "crypto"]
ThreeTimes    == {8, 11, 16}
Years         == [t \in 0 .. 20 |-> IF t < 12 THEN 2024 ELSE 2025]
Windows       == [n \in {"1M"} |-> 4]
Months        == <<0, 4, 8, 12, 20>>

Order(s, type, qty, price) == [sym |-> s, type |-> type, qty |-> qty, price |-> price]
FiveOrders == {Order("stock", "BUY", 2, 1), Order("stock", "SELL", 1, 2),
               Order("coin", "BUY", 1, 1), Order("coin", "BUY", 1, 2),
               Order("coin", "SELL", 1, 2)}
ThreeQuotes == {<<"stock", 2>>, <<"coin", 1>>, <<"coin", 2>>}

CashInHand == {[c \in {"KRW", "USD"} |-> 0],
               [c \in {"KRW", "USD"} |-> IF c = "KRW" THEN -1 ELSE 2]}
TwoTargets == {[b \in {"us_stock", "cash"} |-> IF b = "cash" THEN 2500 ELSE 7500]}
=============================================================================
