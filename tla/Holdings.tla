------------------------------ MODULE Holdings ------------------------------
(***************************************************************************)
(* How a holding is computed from transaction rows: the signed sum the     *)
(* totals use, the order rows are read in, and the step of the capped walk *)
(* the summary card and the holdings table use.  Shared by the ledger, the *)
(* exchange sync and the analytics.                                        *)
(***************************************************************************)
EXTENDS Integers, Sequences, FiniteSetsExt, SequencesExt

Signed(x) == IF x.type = "BUY" THEN x.qty ELSE -x.qty

\* Bought minus sold over a set of rows.
NetQty(S) == SumFunction([x \in S |-> Signed(x)])

\* The repository's order_by: traded_at, then BUY before SELL.
SideRank(x) == IF x.type = "BUY" THEN 0 ELSE 1

Earlier(x, y) ==
    \/ x.at < y.at
    \/ x.at = y.at /\ SideRank(x) < SideRank(y)

\* On a tie of both, the primary key.
Precedes(rs, i, j) ==
    \/ Earlier(rs[i], rs[j])
    \/ ~Earlier(rs[j], rs[i]) /\ i < j

\* The rows `ids` of the table `rs` as a query returns them.
InOrder(rs, ids) ==
    LET rank(i) == Cardinality({j \in ids : j = i \/ Precedes(rs, j, i)})
    IN  [p \in 1 .. Cardinality(ids) |-> rs[CHOOSE i \in ids : rank(i) = p]]

\* A SELL cannot take the walk below zero.
WalkStep(q, x) ==
    IF x.type = "BUY" THEN q + x.qty
    ELSE IF q > 0 THEN q - (IF x.qty <= q THEN x.qty ELSE q)
    ELSE q

\* The walk over rows already in order.
Walk(s) == FoldLeft(WalkStep, 0, s)
=============================================================================
