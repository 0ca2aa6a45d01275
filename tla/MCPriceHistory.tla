-------------------------- MODULE MCPriceHistory --------------------------
(***************************************************************************)
(* Two US stocks and a Korean one; or one of each.                         *)
(***************************************************************************)
EXTENDS PriceHistory

TwoKinds == [s \in {"a", "k"} |-> IF s = "a" THEN "us_stock" ELSE "kr_stock"]
TwoUs    == [s \in {"a", "b"} |-> "us_stock"]
IdsAK    == [s \in {"a", "k"} |-> IF s = "a" THEN 1 ELSE 2]
IdsAB    == [s \in {"a", "b"} |-> IF s = "a" THEN 1 ELSE 2]
DayOne   == [s \in {"a", "k"} |-> 1]
DayOneUs == [s \in {"a", "b"} |-> 1]
=============================================================================
