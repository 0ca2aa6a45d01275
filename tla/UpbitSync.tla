----------------------------- MODULE UpbitSync -----------------------------
(***************************************************************************)
(* POST /integrations/upbit/sync and POST /integrations/import-file for    *)
(* Upbit statements: two ways of writing rows with external_source =       *)
(* 'upbit', each in one database session whose commit follows the reply.   *)
(* A row is known by its external id, which is unique per source; rows     *)
(* the user typed in have none.                                            *)
(***************************************************************************)
EXTENDS Exchange

CONSTANTS Slots,       \* requests that may overlap
          MaxServed,   \* bound: requests served in one behaviour
          ManualRows,  \* rows the user may add by hand
          UnitsPerWon  \* money is counted in fractions of a won

Row == [asset : Coins, type : {"BUY", "SELL"}, qty : Nat \ {0}, price : Nat, at : Nat, fee : Nat,
        ext : {"manual", "order", "adjust", "pdfTrade", "pdfTransfer"} \X Nat]

Manual(S) == {x \in S : x.ext[1] = "manual"}
Upbit(S)  == {x \in S : x.ext[1] # "manual"}

ASSUME UpbitSyncAssumption ==
    /\ MaxServed \in Nat /\ UnitsPerWon \in Nat \ {0}
    /\ ManualRows \subseteq Manual(Row)

VARIABLES txs,     \* the transactions table
          cash,    \* the cash_account_transactions of source upbit: row -> signed amount
          assets,  \* coins with an asset_symbols and a user_assets row
          req,     \* per slot: the request in progress
          served   \* requests accepted so far

vars == <<log, txs, cash, assets, req, served>>

NoCash == [x \in {} |-> 0]
NoKrw  == -1

Idle == [phase |-> "idle", no |-> 0, history |-> {}, trades |-> {}, held |-> [c \in {} |-> 0],
         snap |-> {}, put |-> NoCash, drop |-> {}, krw |-> NoKrw, poisoned |-> FALSE]

Init ==
    /\ log = Opening
    /\ txs = {} /\ cash = NoCash /\ assets = {}
    /\ req = [r \in Slots |-> Idle]
    /\ served = 0

UnchangedTables == UNCHANGED <<log, txs, cash, assets>>

Step(r, s) == req' = [req EXCEPT ![r] = s] /\ UnchangedTables /\ UNCHANGED served

-----------------------------------------------------------------------------
(***************************************************************************)
(* Rows.                                                                   *)
(***************************************************************************)
Tx(n, ext, fee) ==
    [asset |-> log[n].coin, type |-> log[n].type, qty |-> log[n].qty,
     price |-> log[n].price, at |-> 2 * n, fee |-> fee, ext |-> <<ext, n>>]

OrderRows(history) == {Tx(n, "order", 0) : n \in history}

\* Mutant: what left the account without an order is not adjusted for.
AdjustmentBuyOnly(c, history) ==
    LET diff == CoinBalance(c) - NetQty({x \in OrderRows(history) : x.asset = c})
    IN  IF diff <= 0 THEN {}
        ELSE {[asset |-> c, type |-> "BUY", qty |-> diff, price |-> 1,
               at |-> 2 * Len(log) + 1, fee |-> 0, ext |-> <<"adjust", 0>>]}

\* _balance_adjustments for one coin: dated now, later than every order known
\* so far; the price, a placeholder without a cost basis, moves no money.
Adjustment(c, history) ==
    LET diff == CoinBalance(c) - NetQty({x \in OrderRows(history) : x.asset = c})
    IN  IF diff = 0 THEN {}
        ELSE {[asset |-> c, type |-> IF diff > 0 THEN "BUY" ELSE "SELL",
               qty |-> IF diff > 0 THEN diff ELSE -diff, price |-> 1,
               at |-> 2 * Len(log) + 1, fee |-> 0, ext |-> <<"adjust", 0>>]}

\* What fetch_trades returns: orders, then the adjustments of the coins listed.
SyncTrades(history, listed) ==
    OrderRows(history) \cup UNION {Adjustment(c, history) : c \in listed}

Balances(listed) == [c \in listed |-> CoinBalance(c)]

\* (external_source, external_id), the latter naming the coin when adjusting.
Ids(S) == {<<x.ext, x.asset>> : x \in Upbit(S)}

Overlay(table, s) ==
    [x \in (DOMAIN table \cup DOMAIN s.put) \ s.drop |->
        IF x \in DOMAIN s.put THEN s.put[x] ELSE table[x]]

\* Add money rows to what the session will commit.
Putting(s, more) == Overlay(s.put, [put |-> more, drop |-> {}])

\* A cash row is known by its external id.  The reconcile row is deleted and
\* inserted again under one external id and is updated by its primary key, so
\* its second component is the request that inserted it.
ReconcileRows(table) == {x \in DOMAIN table : x[1] = "reconcile"}

ExtIds(rows) == {IF x[1] = "reconcile" THEN <<"reconcile", 0>> ELSE x : x \in rows}

\* CashFlowService for source upbit: money rows, and trades with their fee,
\* except the rows that only align holdings.
CashFlow(table, S) ==
    SumFunction(table)
    - SumFunction([x \in {y \in Upbit(S) : y.ext[1] \notin {"adjust", "pdfTransfer"}} |->
                      Signed(x) * x.price + x.fee])

-----------------------------------------------------------------------------
(***************************************************************************)
(* InnoDB: DELETE ... WHERE external_source = 'upbit' locks the rows it    *)
(* removes and the range they live in until the session ends; two such     *)
(* locks on an empty range are compatible, an insert into the range is     *)
(* not.  A failed flush rolls its session back and frees its locks.        *)
(***************************************************************************)
Ranged(s) == s.phase \in {"replaced", "cashed", "synced"} /\ ~s.poisoned
Wrote(s)  == s.trades # {} /\ (Ranged(s) \/ s.phase = "imported")

MustWait(r, trades) ==
    \E o \in Slots \ {r} :
        \/ Wrote(req[o])
        \/ Ranged(req[o]) /\ (trades # {} \/ Upbit(txs) # {})

\* Another session's uncommitted money row has the same external id.
CashClash(r, rows) ==
    \E o \in Slots \ {r} :
        /\ req[o].phase # "parsed" /\ ~req[o].poisoned
        /\ ExtIds(DOMAIN req[o].put \cup req[o].drop) \cap ExtIds(rows) # {}

\* ... or another import's uncommitted transactions do.
ImportClash(r, trades) ==
    \E o \in Slots \ {r} : req[o].phase = "imported" /\ Ids(req[o].trades) \cap Ids(trades) # {}

\* The money rows a session sees: its snapshot, once it has read anything.
Seen(s) == IF s.snap = {} THEN cash ELSE CHOOSE t \in s.snap : TRUE

Poison(s) == [s EXCEPT !.poisoned = TRUE]

-----------------------------------------------------------------------------
(***************************************************************************)
(* The sync.                                                               *)
(***************************************************************************)
\* _fetch_all_closed_orders pages backwards from the newest order and keeps
\* what it has when a page fails; when that is nothing, the orders of the coins
\* held are fetched market by market, and a market may fail.  On either path an
\* order without a usable price or date is dropped.  Any part of the history
\* may therefore be what the sync goes by.
Histories == SUBSET Kind("order")

FetchOrders(r) ==
    /\ req[r].phase = "idle" /\ served < MaxServed
    /\ \E h \in Histories :
          req' = [req EXCEPT ![r] = [Idle EXCEPT !.phase = "orders", !.no = served + 1,
                                                 !.history = h]]
    /\ served' = served + 1
    /\ UnchangedTables

\* The balances are read after the orders: events may lie between.
FetchBalances(r) ==
    /\ req[r].phase = "orders"
    /\ \E listed \in SUBSET Coins :
          /\ HeldCoins \subseteq listed
          /\ Step(r, [req[r] EXCEPT
                !.phase = "fetched",
                !.held = Balances(listed), !.trades = SyncTrades(req[r].history, listed)])

\* replace_trades: the DELETE, then the INSERTs; a first SELECT, for the
\* symbol of a trade, fixes the snapshot.
Replace(r) ==
    LET s == req[r] IN
    /\ s.phase = "fetched"
    /\ ~MustWait(r, s.trades)
    /\ Step(r, [s EXCEPT !.phase = "replaced",
                         !.snap = IF s.trades = {} THEN {} ELSE {cash}])

\* fetch_cash_flow: the newest deposits and withdrawals, none on an error.
MoneyLists ==
    {{n \in Kind("won") : IF log[n].type = "BUY" THEN n > k ELSE n > m} :
        k \in 0 .. Len(log), m \in 0 .. Len(log)}

\* upsert_cash_transactions, its exceptions swallowed by the router.
UpsertCash(r) ==
    LET s == req[r] IN
    /\ s.phase = "replaced"
    /\ \E list \in MoneyLists :
          LET new  == {n \in list : <<"order", n>> \notin DOMAIN Seen(s)}
              more == [x \in {<<"order", n>> : n \in new} |-> Signed(log[x[2]])]
              t    == [s EXCEPT !.phase = "cashed",
                                !.snap = IF list = {} THEN @ ELSE {Seen(s)}]
          IN  \/ new = {} /\ Step(r, t)
              \/ /\ new # {} /\ ~CashClash(r, DOMAIN more)
                 /\ DOMAIN more \cap DOMAIN cash = {}
                 /\ Step(r, [t EXCEPT !.put = more])
              \/ new # {} /\ Step(r, Poison(t))

\* Decimal.quantize: to a whole won, a half to the even neighbour.
Quantize(d) ==
    LET down == d \div UnitsPerWon
        rest == 2 * (d % UnitsPerWon)
        up   == rest > UnitsPerWon \/ (rest = UnitsPerWon /\ down % 2 = 1)
    IN  UnitsPerWon * (IF up THEN down + 1 ELSE down)

\* Mutant: an earlier reconcile row counts as organic flow.
OrganicWithReconcile(table, S) ==
    SumFunction(table)
    - SumFunction([x \in {y \in S : y.ext[1] # "adjust"} |-> Signed(x) * x.price])

\* The flow reconcile_cash_balance measures: no earlier reconcile row, no
\* adjustment, and no fees.
Organic(table, S) ==
    SumFunctionOnSet(table, DOMAIN table \ ReconcileRows(table))
    - SumFunction([x \in {y \in S : y.ext[1] # "adjust"} |-> Signed(x) * x.price])

\* reconcile_cash_balance, skipped without a balance; its exceptions are
\* swallowed too, the one a poisoned session raises included.  The row seen
\* is deleted or updated by its key: one that is no longer there is deleted
\* in vain, and an update that finds no row raises.
Reconcile(r) ==
    LET s       == req[r]
        visible == Overlay(Seen(s), s)
        delta   == Quantize(WonBalance - Organic(visible, s.trades))
        t       == [s EXCEPT !.phase = "synced"]
        read    == [t EXCEPT !.snap = {Seen(s)}]
        seen    == ReconcileRows(Seen(s))
        row     == IF seen = {} THEN {<<"reconcile", s.no>>} ELSE seen
        pinned  == [read EXCEPT !.krw = WonBalance]
    IN
    /\ s.phase = "cashed"
    /\ \/ Step(r, t)
       \/ /\ ~s.poisoned /\ delta = 0 /\ ~CashClash(r, seen \cap DOMAIN cash)
          /\ Step(r, [pinned EXCEPT !.drop = seen \cap DOMAIN cash])
       \/ /\ ~s.poisoned /\ delta # 0 /\ ~CashClash(r, row) /\ seen = ReconcileRows(cash)
          /\ Step(r, [pinned EXCEPT !.put = Putting(s, [x \in row |-> delta])])
       \/ ~s.poisoned /\ Step(r, Poison(read))

-----------------------------------------------------------------------------
(***************************************************************************)
(* A statement: the orders, transfers and won movements of a period, under *)
(* external ids of their own.                                              *)
(***************************************************************************)
FileRows(period) ==
    {Tx(n, "pdfTrade", Fee) : n \in period \cap Kind("order")}
    \cup {Tx(n, "pdfTransfer", 0) : n \in period \cap Kind("transfer")}

\* parse_pdf, then import_records reads which ids are already there.
OpenFile(r) ==
    /\ req[r].phase = "idle" /\ served < MaxServed
    /\ \E first \in 1 .. Len(log) :
          LET period == first .. Len(log)
              trades == {x \in FileRows(period) : <<x.ext, x.asset>> \notin Ids(txs)}
              money  == {<<"pdfCash", n>> : n \in period \cap Kind("won")} \ DOMAIN cash
          IN  req' = [req EXCEPT ![r] =
                        [Idle EXCEPT !.phase = "parsed", !.no = served + 1,
                                     !.trades = trades, !.snap = {cash},
                                     !.put = [x \in money |-> Signed(log[x[2]])]]]
    /\ served' = served + 1
    /\ UnchangedTables

\* The flushes: an id committed since it was looked up ends the request.
WriteFile(r) ==
    LET s == req[r] IN
    /\ s.phase = "parsed"
    /\ s.trades # {} => \A o \in Slots \ {r} : ~Ranged(req[o])
    /\ ~ImportClash(r, s.trades) /\ ~CashClash(r, DOMAIN s.put)
    /\ IF Ids(s.trades) \cap Ids(txs) = {} /\ DOMAIN s.put \cap DOMAIN cash = {}
       THEN Step(r, [s EXCEPT !.phase = "imported"])
       ELSE Step(r, Idle)

-----------------------------------------------------------------------------
\* get_db_session commits once the reply is out. In a session whose flush
\* failed, commit raises PendingRollbackError and nothing is written.
\* Mutant: the sync adds its rows without deleting the earlier ones.
CommitRowsKeepingOld(s) == txs \cup s.trades

\* Mutant: the DELETE is not limited to external_source = 'upbit'.
CommitRowsDeletingAll(s) == (IF s.phase = "imported" THEN txs ELSE {}) \cup s.trades

CommitRows(s) == (IF s.phase = "imported" THEN txs ELSE Manual(txs)) \cup s.trades

\* Mutant: a session whose flush failed is never closed.
CommitUnlessPoisoned(r) ==
    LET s == req[r] IN
    /\ s.phase \in {"synced", "imported"} /\ ~s.poisoned
    /\ txs' = CommitRows(s)
    /\ cash' = Overlay(cash, s)
    /\ assets' = assets \cup {x.asset : x \in s.trades}
    /\ req' = [req EXCEPT ![r] = Idle]
    /\ UNCHANGED <<log, served>>

Commit(r) ==
    LET s == req[r] IN
    /\ s.phase \in {"synced", "imported"}
    /\ IF s.poisoned
       THEN UNCHANGED <<txs, cash, assets>>
       ELSE /\ txs' = CommitRows(s)
            /\ cash' = Overlay(cash, s)
            /\ assets' = assets \cup {x.asset : x \in s.trades}
    /\ req' = [req EXCEPT ![r] = Idle]
    /\ UNCHANGED <<log, served>>

\* An exception before the reply: a 502 from the exchange, a deadlock, a
\* lost connection. Nothing is written.
Abort(r) ==
    /\ req[r].phase \notin {"idle", "synced", "imported"}
    /\ Step(r, Idle)

\* TransactionService.add, in one step: Ledger has the whole of it.
AddTyped ==
    /\ \E x \in ManualRows :
          /\ x.asset \in assets
          /\ \A y \in Manual(txs) : y.asset # x.asset
          /\ txs' = txs \cup {x}
    /\ UNCHANGED <<log, cash, assets, req, served>>

Sync(r) == FetchOrders(r) \/ FetchBalances(r) \/ Replace(r) \/ UpsertCash(r) \/ Reconcile(r)

Import(r) == OpenFile(r) \/ WriteFile(r)

Next ==
    \/ Happens /\ UNCHANGED <<txs, cash, assets, req, served>>
    \/ AddTyped
    \/ \E r \in Slots : Sync(r) \/ Import(r) \/ Commit(r) \/ Abort(r)

Spec == Init /\ [][Next]_vars

\* A request in progress goes on unless it waits for a lock.
Advance(r) == FetchBalances(r) \/ Replace(r) \/ UpsertCash(r) \/ Reconcile(r) \/ WriteFile(r) \/ Commit(r)

FairSpec == Spec /\ \A r \in Slots : WF_vars(Advance(r))

-----------------------------------------------------------------------------
(***************************************************************************)
(* Properties.                                                             *)
(***************************************************************************)
CashIds == {"order", "pdfCash", "reconcile"} \X Nat

IsRequest(s) ==
    /\ DOMAIN s = DOMAIN Idle
    /\ s.phase \in {"idle", "orders", "fetched", "replaced", "cashed", "synced", "parsed", "imported"}
    /\ s.no \in 0 .. MaxServed /\ s.trades \subseteq Row
    /\ DOMAIN s.put \subseteq CashIds /\ s.drop \subseteq CashIds
    /\ s.poisoned => s.phase \in {"cashed", "synced"}

\* Types, the uniqueness of external ids in both tables, and that every row of either kind
\* belongs to a coin with an asset row.
TypeOK ==
    /\ log \in Seq(Event) /\ served \in 0 .. MaxServed
    /\ txs \subseteq Row
    /\ DOMAIN cash \subseteq CashIds /\ \A x \in DOMAIN cash : cash[x] \in Int \ {0}
    /\ \A x, y \in ReconcileRows(cash) : x = y
    /\ {x.asset : x \in txs} \subseteq assets /\ assets \subseteq Coins
    /\ \A x, y \in Upbit(txs) : <<x.ext, x.asset>> = <<y.ext, y.asset>> => x = y
    /\ \A r \in Slots : IsRequest(req[r]) /\ req[r].history \subseteq Kind("order")

SyncCommits(r) == Commit(r) /\ req[r].phase = "synced" /\ ~req[r].poisoned

\* After a sync the rows of source upbit add up, for every coin the exchange
\* listed, to the balance it reported: however partial the order history, and
\* whatever statements, syncs and exchange events came in between.
HoldingsAsRead ==
    [][\A r \in Slots : SyncCommits(r) =>
          \A c \in DOMAIN req[r].held :
             NetQty({x \in Upbit(txs') : x.asset = c}) = req[r].held[c]]_vars

\* After a sync that reconciled, unless a statement's won movements were
\* committed under it, the cash CashFlowService derives for upbit is the won
\* balance it read, to half a won: missing deposits, missing orders and
\* earlier reconcile rows cancel out.
CashPinned ==
    [][\A r \in Slots : SyncCommits(r) /\ req[r].krw # NoKrw /\ req[r].snap = {cash} =>
          LET off == CashFlow(cash', txs') - req[r].krw
          IN  2 * off \in -UnitsPerWon .. UnitsPerWon]_vars

\* "User-entered transactions (external_source IS NULL) are NOT touched",
\* by any sync or import.
ManualRowsKept == [][\A r \in Slots : Commit(r) => Manual(txs') = Manual(txs)]_vars

\* Every request ends: locks are always handed on and a session whose flush
\* failed is closed like any other.
RequestEnds == \A r \in Slots : req[r].phase # "idle" ~> req[r].phase = "idle"

\* The trade result of a sync that replied 200 is in the database: failures
\* of the cash part "don't taint the trade-sync result".
CashFailureKeepsTrades ==
    [][\A r \in Slots :
          Commit(r) /\ req[r].phase = "synced" => req[r].trades \subseteq txs']_vars

\* replace_trades: "re-running the sync always produces holdings that match
\* the exchange's live balance". The holdings table shows the capped walk.
ShownQty(S, c) == Walk(SetToSortSeq({x \in S : x.asset = c}, Earlier))

ShownAsRead ==
    [][\A r \in Slots : SyncCommits(r) =>
          \A c \in DOMAIN req[r].held :
             Manual(txs) = {} => ShownQty(txs', c) = req[r].held[c]]_vars

\* import-file: "Deduplication is handled automatically". No order of the
\* exchange is in the table twice.
OrderOnce ==
    \A n \in Kind("order") :
        Cardinality({x \in txs : x.ext \in {<<"order", n>>, <<"pdfTrade", n>>}}) <= 1
=============================================================================
