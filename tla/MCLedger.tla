------------------------------ MODULE MCLedger ------------------------------
(***************************************************************************)
(* Small request bodies for Ledger.                                        *)
(***************************************************************************)
EXTENDS Ledger

CONSTANTS a1, a2, a3, r1, r2

Buy(a, q, t)  == [asset |-> a, type |-> "BUY", qty |-> q, at |-> t]
Sell(a, q, t) == [asset |-> a, type |-> "SELL", qty |-> q, at |-> t]

Adds(rs)     == [kind : {"add"}, row : rs]
Edits(is, rs) == [kind : {"edit"}, id : is, row : rs]
Removes(is, a) == {[kind |-> "remove", id |-> i, asset |-> a] : i \in is}
\* A file and the instants of its rows; Clocks(f): every row in UTC.
Clocks(f)    == [p \in DOMAIN f |-> f[p].at]
Csv(a, f, u) == [kind |-> "csv", asset |-> a, file |-> f, utc |-> u]
Bulk(f, u)   == [kind |-> "bulk", file |-> f, utc |-> u]
CsvUtc(a, f) == Csv(a, f, Clocks(f))
BulkUtc(f)   == Bulk(f, Clocks(f))

OneAsset(a) == [asset : {a}, type : {"BUY", "SELL"}, qty : Qtys, at : Instants]

\* A purchase and a later sale: both an hour ahead of UTC; then the purchase
\* alone, which puts its clock after the sale's.
OffsetFiles ==
    {Csv(a1, <<Sell(a1, 1, 3), Buy(a1, 2, 2)>>, <<2, 1>>),
     Csv(a1, <<Buy(a1, 2, 3), Sell(a1, 1, 2)>>, <<1, 2>>)}

\* One request at a time, every operation: a3 has no user_assets
\* row, a2 is only reached by bulk files.
SerialPayloads ==
    Adds({Buy(a1, 1, 1), Buy(a1, 2, 2), Sell(a1, 1, 1), Sell(a1, 2, 2), Buy(a3, 1, 1)})
    \cup Edits(1 .. 2, {Buy(a1, 1, 2), Sell(a1, 2, 2)})
    \cup Removes({1}, a1) \cup Removes({1}, a2)
    \cup {CsvUtc(a1, << >>)}
    \cup {CsvUtc(a1, <<x>>) : x \in {Sell(a1, 1, 1), Sell(a1, 2, 2)}}
    \cup {CsvUtc(a1, <<Sell(a1, 1, t), Buy(a1, 2, 1)>>) : t \in Instants}
    \cup {CsvUtc(a1, <<Buy(a1, 2, 2), Sell(a1, 1, 1)>>)} \cup OffsetFiles
    \cup {CsvUtc(a3, << >>), BulkUtc(<< >>), BulkUtc(<<Buy(a1, 1, 1), Buy(a3, 1, 1)>>),
          BulkUtc(<<Sell(a2, 1, 2), Buy(a1, 1, 2), Buy(a2, 1, 1)>>),
          BulkUtc(<<Buy(a2, 1, 1), Sell(a1, 1, 2)>>),
          BulkUtc([n \in 1 .. 4 |-> Buy(a2, 1, 1)])}

\* Overlapping requests of every kind on one asset.
ConcurrentPayloads ==
    Adds({Buy(a1, 2, 1), Sell(a1, 1, 2), Sell(a1, 2, 2)})
    \cup Edits({1}, {Buy(a1, 1, 2), Sell(a1, 1, 2)})
    \cup Removes(1 .. 2, a1)
    \cup {CsvUtc(a1, <<Sell(a1, 1, 1)>>), CsvUtc(a1, << >>),
          BulkUtc(<<Buy(a1, 1, 2), Sell(a1, 1, 2)>>)}

SellPayloads == Adds({Buy(a1, 2, 1), Sell(a1, 2, 2)})

EditPayloads == {[kind |-> "add", row |-> Buy(a1, 1, 1)]}
    \cup Edits({1}, {Buy(a1, 2, 1), Buy(a1, 1, 2)})

SinglePayloads == {CsvUtc(a1, <<Buy(a1, 1, 1)>>)} \cup Adds(OneAsset(a1))
=============================================================================
