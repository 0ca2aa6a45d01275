---------------------------- MODULE LedgerRules ----------------------------
(***************************************************************************)
(* The decisions TransactionService and BulkTransactionService take about  *)
(* the transactions table, as state-free operators on a table `rs`: what   *)
(* an add, an edit or an import may do, in which order rows are walked,    *)
(* and the holding the walk ends with.  Ledger applies them to the         *)
(* snapshot a request read, SerialLedger to the table itself.              *)
(***************************************************************************)
EXTENDS Holdings, Filtering

CONSTANTS Assets,          \* every user_asset id a request may name
          Declared,        \* the ids that have a row in user_assets
          Qtys,            \* quantities: gt=0 in the request schemas
          Instants,        \* times, UTC or as a local clock shows them
          MaxRows          \* row limit of a bulk import (500)

ASSUME LedgerRulesAssumption ==
    /\ Declared \subseteq Assets
    /\ Qtys \subseteq Nat \ {0}
    /\ Instants \subseteq Nat
    /\ MaxRows \in Nat \ {0}

\* A transactions row. Price, fee, memo and tag take no part in a decision.
\* `at` is the clock the body showed: traded_at is sent with a UTC offset,
\* and MySQL's DATETIME, like SQLite's, drops the offset and keeps the clock.
Row == [asset : Assets, type : {"BUY", "SELL"}, qty : Qtys, at : Instants]

\* A table maps the primary keys present to rows.
IsTable(t) ==
    /\ t = [i \in DOMAIN t |-> t[i]]
    /\ DOMAIN t \subseteq Nat \ {0}
    /\ \A i \in DOMAIN t : t[i] \in Row

EmptyTable == [i \in {} |-> i]

(***************************************************************************)
(* Request bodies. The rows of a file are given as they will be stored,    *)
(* with the instants their offsets make of them beside.                    *)
(***************************************************************************)
AddOp    == [kind : {"add"}, row : Row]
EditOp   == [kind : {"edit"}, id : Nat \ {0}, row : Row]
RemoveOp == [kind : {"remove"}, id : Nat \ {0}, asset : Assets]
CsvOp    == [kind : {"csv"}, asset : Assets, file : Seq(Row), utc : Seq(Instants)]
BulkOp   == [kind : {"bulk"}, file : Seq(Row), utc : Seq(Instants)]
Operation == AddOp \cup EditOp \cup RemoveOp \cup CsvOp \cup BulkOp

(***************************************************************************)
(* get_summary and get_remaining_quantity: conditional sums over all rows  *)
(* of the asset, blind to traded_at.                                       *)
(***************************************************************************)
OfAsset(rs, a) == {i \in DOMAIN rs : rs[i].asset = a}

Amounts(rs) == [i \in DOMAIN rs |-> rs[i].qty]

Total(rs, a, type) ==
    SumFunctionOnSet(Amounts(rs), {i \in OfAsset(rs, a) : rs[i].type = type})

Remaining(rs, a) == Total(rs, a, "BUY") - Total(rs, a, "SELL")

(***************************************************************************)
(* add and edit: only the totals are consulted.                            *)
(***************************************************************************)
\* Mutant: a SELL is compared with everything ever bought.
AddAllowedIgnoringSold(rs, row) ==
    /\ row.asset \in Declared
    /\ row.type = "SELL" => row.qty <= Total(rs, row.asset, "BUY")

AddAllowed(rs, row) ==
    /\ row.asset \in Declared
    /\ row.type = "SELL" => row.qty <= Remaining(rs, row.asset)

Found(rs, i, a) == a \in Declared /\ i \in OfAsset(rs, a)

EditAllowed(rs, i, row) ==
    /\ Found(rs, i, row.asset)
    /\ LET old         == rs[i]
           otherBought == Total(rs, row.asset, "BUY") - IF old.type = "BUY" THEN old.qty ELSE 0
           otherSold   == Total(rs, row.asset, "SELL") - IF old.type = "SELL" THEN old.qty ELSE 0
       IN  IF row.type = "BUY"
           THEN otherBought + row.qty - otherSold >= 0
           ELSE otherBought - otherSold - row.qty >= 0

\* An asset's rows in the repository's order.
Chronological(rs, a) == InOrder(rs, OfAsset(rs, a))

(***************************************************************************)
(* Imports: existing rows followed by the file's, stably sorted on         *)
(* traded_at alone, must never run below zero.                             *)
(***************************************************************************)
FileRows(file, a) == Keep(file, {x \in Row : x.asset = a})

\* The file as the service holds it: datetimes that know their offset, which
\* compare as instants.
AtInstant(op) == [p \in DOMAIN op.file |-> [op.file[p] EXCEPT !.at = op.utc[p]]]

MergedTimeline(rs, a, op) == Chronological(rs, a) \o FileRows(AtInstant(op), a)

\* Mutant: the timeline is walked without being sorted.
NoLaterUnsorted(s, p, q) == p <= q

\* Position p comes no later than q once s is stably sorted on traded_at.
NoLater(s, p, q) == s[p].at < s[q].at \/ (s[p].at = s[q].at /\ p <= q)

Moves(s) == [p \in DOMAIN s |-> Signed(s[p])]

RunningBalance(s, q) == SumFunctionOnSet(Moves(s), {p \in DOMAIN s : NoLater(s, p, q)})

NeverNegative(s) == \A q \in DOMAIN s : RunningBalance(s, q) >= 0

Named(op) == IF op.kind = "csv" THEN {op.asset} ELSE {op.file[p].asset : p \in DOMAIN op.file}

\* Sorting compares a stored traded_at, which lost its offset, with one from
\* the file, which has one: Python raises TypeError.
SortRaises(rs, op) ==
    \E a \in Named(op) : OfAsset(rs, a) # {} /\ FileRows(op.file, a) # << >>

\* The checks before any row is read: size, then every asset known.
WellFormed(op) ==
    /\ op.kind = "bulk" => Len(op.file) \in 1 .. MaxRows
    /\ Named(op) \subseteq Declared

ImportAllowed(rs, op) ==
    /\ WellFormed(op)
    /\ ~SortRaises(rs, op)
    /\ \A a \in Named(op) : NeverNegative(MergedTimeline(rs, a, op))

(***************************************************************************)
(* What a flush does to the table once committed.                          *)
(***************************************************************************)
Inserts(base, file) == [i \in base + 1 .. base + Len(file) |-> file[i - base]]

Apply(rs, put, del) ==
    [i \in (DOMAIN rs \cup DOMAIN put) \ del |->
        IF i \in DOMAIN put THEN put[i] ELSE rs[i]]

\* summary() and list_holdings_with_aggregates(): the quantity they show.
WalkQty(rs, a) == Walk(Chronological(rs, a))
=============================================================================
