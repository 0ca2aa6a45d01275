# AssetLog: specifications and proofs

AssetLog (`src/backend/app`) records a household's trades, prices and cash. It is a
FastAPI application on an async SQLAlchemy session over MySQL (SQLite in its tests),
with a Next.js front end. What can go wrong in it goes wrong between requests: two
sessions that read the same table and then write it, a commit that comes after the
reply, an exchange that trades on while it is being copied. This directory models
those parts in TLA+, checks them with TLC and proves the central ones with TLAPS.

## 1. The system

### How the parts interact

Every HTTP request gets one database session (`db/base.py`, `get_db_session`). The
handler runs inside it; FastAPI runs the code after the `yield` when the handler is
done: `commit`, or `rollback` and re-raise on an exception. Reads in a session see the
snapshot its first query took (InnoDB, REPEATABLE READ); an UPDATE or DELETE works on
the latest committed rows and locks the ones it touches; an INSERT takes its
AUTO_INCREMENT key at flush time. No code of the application takes a lock of its own
on a row (there is no `SELECT ... FOR UPDATE` and no version column). Background jobs
(APScheduler: prices every ten minutes, FX, dividends, login clean-up) open sessions
of their own in the same event loop. All parts meet in the tables.

### Inventory

| Component | State | Operations | Hard behaviour | Correct when |
|---|---|---|---|---|
| Transaction ledger (`services/transaction.py`, `services/bulk_transaction.py`) | `transactions` | add, edit, remove, import_csv, import_json | checks on a snapshot, writes on the latest rows; two different orders of the rows; offsets the database drops | no deleted row returns; a request nothing overlapped is serial; an accepted import oversells nothing and, in one UTC offset, leaves a history every walk can follow; nothing is sold that is not held |
| Request session (`db/base.py`) | the session, a pooled connection | commit, rollback | commit after the reply; a session whose flush failed cannot commit; the pool runs out | what was answered as done is done; every request ends |
| Holdings walk (`repositories/portfolio.py`) | none | list_holdings_with_aggregates, summary | a SELL is capped at the running quantity | money is conserved: cost on the books less profit realised is what was spent less what was earned |
| Summary, allocation, price/FX split (`services/portfolio.py`) | none | get_holdings, get_summary | the same totals by several code paths; missing prices and rates | rows, summary, chart and returns agree |
| Price chart (`services/portfolio_history.py`) | none | get_history | one scan with pointers | each bucket is what the tables say of its time |
| Performance, risk, benchmark, heatmap | none | read-only | a flow is in the value of its time; series cut to midnights, rates asked for by the hour; missing rates | returns do not depend on what moved in or out; daily values are those of midnight |
| Capital gains tax (`services/tax_kr.py`) | none | get_capital_gains | lots across years | each won spent is a cost once |
| Upbit account sync (`routers/integration.py`, `services/exchange_sync.py`, `adapters/upbit_account.py`) | rows of source `upbit`, money rows | replace_trades, upsert_cash_transactions, reconcile_cash_balance | four reads of a moving account, partial pages, swallowed failures | coins and won are what the exchange reported; typed rows are untouched |
| Statement parsers and import (`adapters/parsers/*`, `import_records`) | `transactions`, `dividends`, `cash_account_transactions` | import_file | any statement, any order, repeated, overlapping; a commit after the answer | cash and shares are the broker's; nothing committed is lost |
| Cash flow (`services/cash_flow.py`) | none | net_cash_by_source_and_currency | must count what the importers wrote | derived cash is the broker's |
| Dividend refresh (`services/dividend.py`) | `dividends` | the daily job | two markets in one session, beside uploads | a dividend once |
| User assets and symbols (`services/user_asset.py`, `services/symbol.py`) | `user_assets`, `asset_symbols` | search, register, declare, remove | look up, then insert; cascade; row-lock order | no transaction without its asset; every request ends |
| Symbol list cache, market index cache (`adapters/_symbol_cache.py`, `services/market_index.py`) | in memory | get_or_load, list_indices | one load at a time, failing and slow loads | a shared cache's promise; every caller answered |
| Price refresh (`services/price_refresh.py`, adapters) | `price_points`, cached prices | the ten-minute job | partial answers, lock waits, restarts | cached price and newest point are one; prices arrive |
| History back-fill (`services/price_history_backfill.py`) | `price_points` | background task | reads before a slow fetch | no day is left out |
| FX refresh (`services/fx_rate.py`, `adapters/fx.py`) | `fx_rates`, `fx_rate_snapshots` | the hourly job | failures inside one session, chain of sources | a rate comes with its snapshot; rates arrive |
| Target allocation, rebalance | `target_allocations` | replace_all, suggest | overlapping delete-all and insert | the moves reach the target |
| Cash accounts | `cash_accounts` | create, patch, delete | the same form as the ledger's edit | - |
| Name and ticker resolution | a lookup table | resolve | outside services | - |
| Login and rate limiting | `login_attempts` | login | - | outside the subject of this project |
| Front end | browser | pages | - | keeps nothing the server relies on |

`PROJECT.json` lists the hazards of each part with the line where they bite and the
property that would catch them.

## 2. Modules

```
Filtering           a comprehension over a sequence, with its order kept
Holdings            signed sums and the capped walk over rows
 +- LedgerRules     what an add, an edit, an import may do; the two orders of rows
 |   +- SerialLedger    the abstract ledger: one step per request
 |       +- Ledger          sessions: snapshot, flush, locks, commit, abort
 |           +- MCLedger        request bodies for TLC
 |           +- LedgerProofs    theorems
 +- Exchange        the Upbit account (external): events and balances
 |   +- UpbitSync       sync and Upbit statement as sessions
 |       +- MCUpbitSync     account histories for TLC
 |       +- UpbitSyncProofs     theorems
 +- CostBasis       moving-average cost, tax lots (with Ratio, exact fractions)
 |   +- Valuation       holdings rows, summary, allocation, split, rebalance, chart
 |       +- Returns         value series, flows, returns, drawdown, months, years
 |           +- Portfolio       the tables as they grow with time
 |               +- MCPortfolio     a dollar stock and a coin
 |               +- PortfolioProofs theorems
 +- Statements      what the four parsers make of a broker's rows
     +- StatementImport uploads and the dividend job as sessions
         +- MCStatementImport   the books of four brokers
         +- StatementImportProofs   theorems

SingleFlight        the abstract shared cache
SymbolCache         both caches (INSTANCE SingleFlight WITH a refinement mapping)
 +- MCSymbolCache
 +- Catalog         symbols, assets, searches through SymbolCache, locks and the pool
     +- MCCatalog
     +- CatalogProofs       theorems, those about the caches first

PriceHistory        the price job and back-fills  +- MCPriceHistory, PriceHistoryProofs
FxRefresh           the FX job                    +- MCFxRefresh, FxRefreshProofs

DataInduction       lemmas on sums, filters, folds and fractions, for the *Proofs modules
```

Indented modules EXTEND the one above. `SerialLedger` and `SingleFlight` are the abstract
specifications. `Ledger` keeps the variable `rows` of `SerialLedger`, so that refinement
is `ImplementsSerial == SerialSpec` with no mapping; `SymbolCache` maps its clock, lock
and queue to `SingleFlight`'s `fresh`, `loading` and `asked`. `Catalog` composes: its
searches ask `SymbolCache` for the list and hold a connection while they wait.

Sums over rows are `SumFunctionOnSet` and comprehensions over sequences are `Keep`
(`Filtering`), a recursive function, because the prover knows nothing of `SelectSeq` and
no module with a theorem may reach a RECURSIVE operator. For the same reason a set of
times is put in order by counting (`Ascending`), the one-pass readers change all symbols
of a row at once (`PosStep`, `QtyStep`), and the lots left by a SELL (`LotsAfter`) are a
`Keep`.

### Ledger

| In the model | In the code |
|---|---|
| `rows` | the committed `transactions` table, primary key to row |
| `nextId` | AUTO_INCREMENT: `Flush` takes keys and no rollback returns them |
| `req[r].view` | the snapshot of the request's session |
| `req[r].put`, `.del` | what its flush wrote and nobody else sees yet |
| `Begin` | the first SELECT of the handler |
| `AddTx`, `EditTx`, `RemoveTx`, `ImportTx` | the handler up to its flush, or the exception it leaves with (`Refuse`) |
| `Commit`, `Abort` | the two ends of `get_db_session` |
| `Merge`, `Changed` | the ORM's UPDATE names the columns that differ from what was loaded and changes the latest version of the row |
| `LockedByOther` | a row another session has updated or deleted and not committed |
| `NeverNegative(MergedTimeline(...))` | the running balance of an import: rows stably sorted on `traded_at`, the file's last on a tie |
| `Chronological`, `WalkQty` | the repository's order (BUY first on a tie) and the capped walk over it |

A handler between its first read and its flush is one action, because everything it
reads comes from the snapshot and everything it decides depends on nothing else; the
flush is where it meets the other sessions. Price, fee, memo and tag decide nothing and
are left out, and with them the row-level messages of the import endpoints: `Payloads`
holds bodies that passed the schema. The size limits and unknown assets of a bulk file
are in `WellFormed`. An asset id without a `user_assets` row is one not in `Declared`.

*Time zones.* A file gives each row a time with a UTC offset. The service compares those
as instants (`utc`, in `AtInstant`); the column is `DateTime(timezone=True)`, but MySQL
DATETIME and SQLite store no zone and the drivers drop the offset without converting, so
the table keeps the clock time (`file[p].at`), and everything later orders rows by that.
An operation carries both. Two things follow that the code does not expect. What is read
back has no zone, so sorting it together with a file's rows raises `TypeError`
(`SortRaises`): an import into an asset that has rows fails, whatever is in it
(`ImportsFailCleanly` in `LedgerTraces`). And a file whose rows have different offsets is checked in one order
and stored in another (`ImportsWalk` in `LedgerTraces`); `ImportLeavesFeasible` asks for the order
of the walks only of an asset whose rows in the file share their offset (`OneOffset`). An
edit always writes `traded_at`, because a time with an offset never equals the one that
was loaded.

### Upbit sync and statements

| In the model | In the code |
|---|---|
| `log` | the account at Upbit: filled orders, wallet transfers, won movements; the position of an event stands for its uuid and its date |
| `txs`, `cash` | `transactions` and the `cash_account_transactions` of source `upbit`, by external id |
| `assets` | coins with a symbol and a user asset |
| `FetchOrders`, `Histories` | `_fetch_all_closed_orders` and the per-market fallback: pages and markets may fail and orders that do not map are dropped, so any part of the history may come out |
| `FetchBalances` | `fetch_balance` and `_balance_adjustments`, later than the orders; a coin without a balance may or may not be listed |
| `Replace` | `replace_trades`: DELETE of the source's rows, INSERT of the new ones |
| `UpsertCash` | `fetch_cash_flow` and `upsert_cash_transactions`, both inside the router's first `except: pass` |
| `Reconcile` | `fetch_balance_krw` and `reconcile_cash_balance`, inside the second; the row is deleted and written anew, so the model numbers reconcile rows by the sync that wrote them |
| `OpenFile`, `WriteFile` | `parse_pdf` and the lookups of `import_records`; its flushes |
| `Commit`, `Abort` | `get_db_session`; `poisoned` is a session whose flush failed and that can only roll back |
| `AddTyped` | a transaction the user adds by hand (the whole of it is in `Ledger`) |
| `MustWait`, `CashClash`, `ImportClash` | InnoDB's range and unique-key locks |

What is abstracted: order ids and the hash ids of statement rows are positions in
`log`, under different tags because the code gives them different prefixes; trades
quoted in BTC or USDT, name resolution and the creation of symbols are left out (a lost
race over a symbol is an `Abort`, and so is a deadlock between two inserts into an empty
range); a `dry_run` import writes nothing and is not modelled. A commit fails only in
a poisoned session. Money is counted in fractions of a won so that the rounding of
`quantize` (half to even) is real; the price of an adjustment is a placeholder no sum
uses.

### Portfolio: what the analytics read and say

The readers have no state of their own, so `CostBasis`, `Valuation` and `Returns` are
state functions of five variables: `trades`, `points` (`price_points`), `rate` (the one
`fx_rates` row of the foreign currency), `snaps` (`fx_rate_snapshots`) and the clock.
`Portfolio` lets these tables grow: `Trade` (also late), `PriceTick`, `FxTick`,
`TimePasses`. Times are numbers; `Hour` and `Midnight` are what the code truncates to.

| In the model | In the code |
|---|---|
| `Holding`, `CostStep` | the moving-average walk of `list_holdings_with_aggregates` |
| `FifoStep`, `AverageStep` | `_sales_fifo` with `_consume_lots`, `_sales_average` |
| `RowSplit`, `SummarySplit` | `_compute_split`, `_aggregate_split` |
| `ConvertedTotals`, `Allocation`, `ToBase` | the second half of `get_summary` |
| `Suggestion` | `RebalanceService.suggest` |
| `PricesSince`, `Advance`, `Buckets`, `ChartStep` | `list_price_points_for_symbols`, `_price_at`, `_generate_bucket_timestamps`, `_compute_history_points` |
| `SeriesStep`, `Flows`, `Twr`, `MwrFlows`, `Performance` | `build_value_series`, `extract_cashflows`, `compute_twr`, what `compute_mwr` solves for, `get_performance` |
| `DailyGrid`, `DrawdownStep` | `_daily_grid`, midnights only; `_max_drawdown` |
| `MonthGrid`, `MonthGrowth`, `YearStep` | the heatmap's sampling times, from the end of the month before its first; `_monthly_returns_from_series`; `_yearly_compound`, by calendar year |
| `SnapshotAt`, `TradeDateRate`, `RateNow` | the three ways a rate is looked up: nearest snapshot in the past, `convert_at` on `fx_rates`, the newest row |
| `RateAtHour` | `fx_at_sync` and its siblings in risk, benchmark and heatmap: `convert_at` for the time cut to the hour, so the one row is not found in the hour it is fetched unless it is fetched on the hour |

Amounts are integers and quotients exact fractions (`Ratio`), because the code's Decimal
arithmetic is exact for such sizes. Only two currencies: every
conversion in the code is between one currency and the base.

### Statements and their import

`Book` is what a broker booked, row by row; `Statements` is what each parser makes of
each kind of row: the record, which amounts are gross or settled, who takes fee and tax
out, what the id is made of, the opening balance Toss statements yield. `Declared` is what
the dividend sources answer, a sequence because the job keeps the first of two quotes for
one day. `StatementImport`
uploads statements (`Begin`, `Reply`, `Commit`, `Abort`) and runs the dividend job
(`JobBegin`, `JobFinish`) on the three tables. `import_records` decides everything on the
snapshot of its first read, the UNIQUE keys decide when the rows are inserted (`Reply`, which
waits for a row of the same key another request has inserted, `Waits`), and
`get_db_session` commits after the client has its 200: an `Abort` of a request that has
replied is the commit that fails. `uploaded` therefore holds what was committed, not what
was answered. An opening balance is what the first printed row leaves when its amount is
taken out of its balance: trades of a day are printed in reverse, but the balance column
runs along the rows as printed (the extracted sample in
`tests/fixtures/parsers/toss_securities` shows it), so that is the balance before the
statement. PDF
layout, column positions and symbol names are left out, and so are the rows of arrears in
the won section, which the broker books against a balance it floors at zero.

### Prices

| In the model | In the code |
|---|---|
| `points`, `cached` | `price_points` (one row per symbol and UTC day; `by` remembers who wrote it, no code reads that), `asset_symbols.last_price` |
| `JobTick`, `JobFetch`, `JobWrite`, `JobCommit` | the scheduler's tick, `gather` over the adapters, `bulk_insert` and `bulk_update_cache`, the commit of `price_refresh_job` |
| `Fetched` | an adapter's successes: symbol by symbol for Korean stocks and coins, all or nothing for US stocks when a ticker cannot be resolved |
| `FillStart`, `FillFetch`, `FillWrite`, `FillCommit` | `backfill_all` inside `_run_backfill_in_background` |
| `JobGivesUp`, `FillGivesUp` | lock-wait timeout or deadlock victim: the session rolls back |
| `Stop`, `Start` | the lifespan of the application, or its process |

### FX rates

`FxRefresh` is `refresh_all` statement by statement: per base one call down the chain
(`Chained`, `Fawaz`), whose answer may lag behind the market, as a source of business days
does; per quote an upsert and a snapshot, each of which may fail alone or take the session
with it (`dead`), then a commit that may fail. A snapshot is a look-up and an INSERT or
UPDATE; when the look-up alone fails (`LookupFails`) the session lives and the upsert is
committed without a snapshot. `orphans` are the pairs this happened to since their last
complete tick. A rate is the number of the market's move it is from; a later tick may
bring an older one.

### Caches and the catalogue

`SymbolCache` is one module for three caches, because what differs is where they look
(`LooksFirst`) and when they stamp (`StampedEarly`). A step is what runs between two
awaits. `Catalog` adds the tables: a request waits for a connection (`CanConnect`,
`PoolTimeout`), reads (`BeginSearch`, `Begin`), perhaps asks the cache (`TakeList`), writes
row by row under row locks (`WriteRow`, `WriteFails`, `Victim`), replies and commits.

## 3. What the runs check

| Run | Question | Result |
|---|---|---|
| `LedgerSerial` | one request at a time, every operation | refines `SerialLedger`; only a delete oversells; an accepted import oversells nothing and, in one UTC offset, is feasible in the walks' order too |
| `LedgerConcurrent` | two overlapping requests of every kind on one asset, aborts, lock waits | deleted rows stay deleted; a request nothing overlapped is serial; every request ends |
| `UpbitSync` | two requests, sync or statement, overlapping, on a moving account | a sync leaves the coins (`HoldingsAsRead`) and the won (`CashPinned`) it read; typed rows are kept; every request ends |
| `Portfolio` | every history of two assets within the bounds | cost is conserved; tax lots exhaust the cost; the chart is pointwise right; summary and chart end with one amount; the daily series is right at each midnight; TWR is the market's and MWR's flows balance; rows and summary split alike; the rebalance reaches its target; drawdown, months and years are right |
| `PriceHistory` | the job and a back-fill, sources that fail, midnight, a stop | cached price and newest tick are one; a back-fill leaves no hole; a resting price is shown in the end |
| `StatementImport` | four brokers, any order of uploads, two at a time, the dividend job | cash and shares are the brokers'; nothing committed is lost; every statement can be imported again |
| `SymbolCache` | three callers of each cache, slow, empty and failing loads | refines `SingleFlight`; every caller is answered |
| `Catalog` | pairs and threes of requests over two connections | no transaction without its asset; every request ends |
| `FxRefresh` | three currencies, any two failures | rate and newest snapshot are one but where a look-up failed alone; every pair is rated in the end |
| `LedgerOversell` | is a holding ever negative? | violated, finding |
| `PortfolioAnswers` | does performance answer when a rate is missing? | violated, finding |
| `DividendsCredited` | are dividends what was credited? | violated, finding |

Sixteen further counterexamples are kept beside the runs, in eleven configurations to be run by
hand (`tlc -config <cfg> <module>`; where a configuration has several properties, all but
one stand behind a comment sign). Each documents one behaviour of the code that
contradicts a sentence of the repository or an expectation a reader may have:

| Configuration | Module | Property | What its counterexample shows |
|---|---|---|---|
| `LedgerTraces` | `MCLedger` | `WalkIsBoughtMinusSold` | a SELL dated before its BUY is accepted on totals and capped in the walk, which then shows more than `bought_qty - sold_qty` (`schemas/transaction.py:208`) |
| `LedgerTraces` | `MCLedger` | `ImportsFailCleanly` | an import into an asset that has rows raises `TypeError`, because the drivers return `traded_at` without its zone |
| `LedgerTraces` | `MCLedger` | `ImportsWalk`, with `Payloads <- OffsetFiles` | a file with two UTC offsets is accepted in the order of its instants and stored with its clocks, a sale before its purchase |
| `LedgerTornEdit` | `MCLedger` | `EditReplacesAll` | two overlapping edits leave a row that neither request described ("Replace all fields", `services/transaction.py:170`) |
| `UpbitTraces` | `MCUpbitSync` | `ShownAsRead` | an adjusting BUY is dated after the SELL it should cover; the holdings table shows more than the exchange holds |
| `UpbitTraces` | `MCUpbitSync` | `CashFailureKeepsTrades` | a failed flush of the money rows takes the trades with it, after a 200 |
| `UpbitTraces` | `MCUpbitSync` | `OrderOnce` | a statement imported after a sync records each order twice |
| `PriceCovered` | `MCPriceHistory` | `TicksKept` | the first tick of a symbol, committed while a back-fill fetches, is overwritten by a back-filled close |
| `PriceIsolation` | `MCPriceHistory` | `FailureIsolated` | one US ticker without a source keeps the other US stocks from being refreshed (goal 3 of `docs/specs/price-refresh.md`) |
| `StatementTraces` | `MCStatementImport` | `NoneSkipped` | a dividend is skipped because another broker has one of that symbol and day, and its money is missing |
| `StatementTraces` | `MCStatementImport` | `RepliesKept` | an upload answered with 200 is lost by the commit that follows |
| `StatementTwins` | `MCStatementImport` | `EveryLineKept` | two fills alike in every field have one digest and become one row |
| `StatementCancel` | `MCStatementImport` | `OneOpening` | the won of a cancelled exchange are booked as money in (`toss_securities.py:84,299-304`), against the comment at line 94; the balance shown is too high |
| `StatementOpening` | `MCStatementImport` | `OneOpening` | when the earliest statement starts from an empty account, a later statement's opening stays and counts double |
| `PortfolioMidnight` | `MCPortfolio` | `DailyEndsNow` | a purchase of today is in the summary and not in the daily series of benchmark and risk, which ends with midnight |
| `CatalogConflict` | `MCCatalog` | `ConflictAnswered` | of two requests that declare one symbol the loser gets a 500, not the documented 409 |

`CHECK_DEADLOCK FALSE` everywhere: clients may stop sending requests, and the bounds
below end every behaviour. Liveness is not affected: it is checked under fairness.

### Bounds

- `MaxServed` (3 or 4 in Ledger, 2 in UpbitSync): requests in one behaviour. An
  oversold or out-of-order table takes two requests to set up and a third to build on
  it; the fourth in `LedgerSerial` lets an edit or an import follow a delete. Two
  requests are every pair of sync and statement, in sequence or overlapping, and a
  sync after a sync is what meets an earlier reconcile row.
- `Requests`, `Slots`: two overlapping requests. Conflicts here are between pairs: a
  write and the check it invalidates, a lock and its waiter.
- `Qtys` = {1, 2} and two instants, three in `LedgerSerial`: "fits" against "too much", and
  before, equal, after; ties on `traded_at` are what the two row orders disagree on, and a
  third instant lets a file's clocks run against its instants.
- `MaxRows` = 3 with files of 0, 1, 2, 3 and 4 rows: both limits of a bulk file.
- Ids 1 and 2 in edits and removes: the id exists, belongs to another asset, was
  deleted, or was never allocated.
- `MaxEvents` = 3 on an account opened with won: two further events, enough for a
  received coin then sold, an order between two reads, a transfer no order explains
  and a withdrawal past the first page. `Events` has an order that leaves half a won,
  for the rounding. One coin: no step of the sync relates two coins.
- `UnitsPerWon` = 2 and `Fee` = 1: halves round to even both ways, and a fee is
  visible to `CashFlow` but not to `Organic`.
- Portfolio: hours of two units, days of two hours; three times, a midnight (8), an hour
  and a half later (11) and the midnight after the next day (16). The second lies inside an
  hour, inside a day and before a whole day without entries: that is where truncating
  matters. `MaxRows` = 4 rows in all tables, a trade entered within the same day
  (`MaxLate` = 3). Four rows are two trades with their prices, or a BUY, its rate, its SELL
  and a price; an average over two BUYs, a lot split by a SELL, a rebuy after selling out
  and a late entry before one already there all fit. A year and a month end on the first
  day, another month on the second and a third after the last time, and the heatmap looks
  one day back (`Span` = 4), so the second year has two months and the last of them is not
  over. Prices 1 and 2, rates 1 and 3: averages and shares are true fractions.
- PriceHistory: a US and a Korean symbol, one back-fill, two days, two prices. The
  conflicts are between one writer and another on the rows of one symbol and day; two
  days make midnight fall anywhere in a job.
- StatementImport: four days, statements that overlap, meet and leave a gap, two uploads
  at a time. Toss has two fills that differ in quantity only, a round trip in a day, an
  exchange and its cancellation, a dividend on the day of another broker's, and a row of
  a kind no parser knows. `Together` puts two brokers into one history: the two stock
  brokers, which share a symbol and a dividend day with each other and with the dividend
  job, or the two others, whose keys nobody else has. The books keep out what
  `CashMatchesBroker` excepts (`Readable`); `StatementCancel` and
  `StatementTwins` are about those.
- SymbolCache: three callers (one loads, one is woken, one has just asked), a TTL of two
  ticks, an empty list and two others.
- Catalog: two symbols, three requests, two connections; every pair of nine payloads and
  the threes in which three can meet (listed in `MCCatalog`).
- FxRefresh: the three currencies of the code, one move of the market, two faults, a lagging
  answer among them: one to break a tick and one to break what recovers from it.

### Fairness

Weak fairness of a request's own steps (`Handle`, `Commit`; `Advance`): the event loop
resumes every coroutine that is not waiting, and a lock wait in MySQL is a queue whose
head is served when the holder ends. A step that waits is disabled until the holder
commits or aborts. In `Ledger` and `UpbitSync` the holder never waits for a second lock
that the waiter has; in `Catalog` two requests can, and the database then rolls one back
(`Victim`, itself fair), so weak fairness is enough. `Abort` and the arrival of requests
and events are not fair: nothing depends on a client giving up. Safety runs use `Spec` without fairness.

PriceHistory and FxRefresh: the scheduler's triggers fire again and again
(`max_instances=1`, `coalesce=True`), calls to sources end, the database serves a waiting
statement or refuses it. Back-fills start only when a user asks, prices need not move.
`EventuallyShown` speaks of executions in which the process ends up running; in
`FxRefresh` a stopped process is started again, as a container's restart policy does.
SymbolCache and Catalog: a woken coroutine runs, and a loader ends. The latter is an
assumption on the libraries, as the code sets no time limit; without it a hanging
loader blocks every search.

### Findings

The three violated runs state sentences of the repository, quoted in `PROJECT.json`:

1. Two SELLs that overlap are both accepted (`LedgerOversell`).
2. A trade without a rate of its hour makes the performance endpoint answer 503 instead of
   a warning, and `fx_rates`, which keeps one row per pair, has no rate for a past trade
   (`PortfolioAnswers`).
3. The dividend job's rows, per share and for symbols that are not held, are added as
   money received (`DividendsCredited`).

The sixteen counterexamples listed above show what else was met. Three observations have no
configuration: a row typed by hand never reaches the cash balance, because `NOT LIKE` on a
NULL `external_id` is NULL (`services/cash_flow.py:164`), and the money-weighted return
pays what was traded on the first day of its window twice, once in the opening value and
once as a flow; `MwrBalances` states the balance with that term. The
sample data (`sample_seed.py:111`) is inserted with a cached price and no price point, which
no module models: `CacheIsNewestTick` is about prices the application fetched.

## 4. What is proved

The theorems hold for every value of the constants that meets the named assumptions of
the modules (`LedgerRulesAssumption`, `UpbitSyncAssumption`, ...), which TLC evaluates in
the runs. The bounds of section 3 are constants too, and the theorems hold for all their
values. Each module proves `Spec => []IInv` for an inductive invariant with one lemma per
action and concludes the rest from it.

| Module | Theorem | States |
|---|---|---|
| `LedgerProofs` | `TypeCorrect` | `TypeOK`: types, and no key in use is yet to be allocated |
| | `NoResurrection` | `DeletedStaysDeleted` under any overlap |
| | `OverlapFree` | `OverlapFreeIsSerial`: a commit on a current snapshot is a step of `SerialLedger` |
| | `OnlyOverlapsOversell` | such a commit oversells nothing unless it deletes, and an import in one UTC offset leaves a feasible history |
| | `SerialRefinement`, `OnlyRemoves`, `ImportsFeasible` | with at most one slot: `ImplementsSerial`, `OnlyRemoveOversells`, `ImportLeavesFeasible` |
| `UpbitSyncProofs` | `TypeCorrect` | types, and external ids unique in both tables |
| | `ManualKept` | `ManualRowsKept` |
| | `HoldingsMatch` | `HoldingsAsRead`, whatever part of the history was fetched |
| | `CashIsPinned` | `CashPinned` |
| `CatalogProofs` | `CatalogTypeCorrect`, `LedgerStaysOfHeld` | `CatalogTypeOK`, `LedgerOfHeld` |
| | `CacheWithinCatalog` | the cache composed with requests still takes only steps of `SingleFlight` |
| | `CacheTypeCorrect`, `CacheIsSingleFlight` | `TypeOK` of `SymbolCache`; every step of either cache is a step of `SingleFlight` or changes nothing it sees |
| `PriceHistoryProofs` | `PricesTypeCorrect`, `CacheStaysNewestTick`, `FillsCover` | `TypeOK`, `CacheIsNewestTick`, `FillCovers` |
| `StatementImportProofs` | `ImportTypeCorrect`, `NothingIsLost`, `RetriesSucceed`, `SharesAreTheBrokers` | `TypeOK`, `NothingLost`, `RetrySucceeds`, `SharesMatchBroker` |
| `FxRefreshProofs` | `RatesTypeCorrect`, `RatesAgree` | `TypeOK`, `RateIsNewestSnapshot` |
| `PortfolioProofs` | `TypeCorrect` | `TypeOK`: no row is from the future, the one rate is the newest snapshot |
| | `MoneyConserved` | `CostConserved`: cost on the books less realised profit is what was spent less what was earned |
| | `TaxBasisIsExhausted` | `TaxBasisExhausted`: the tax reports of all years take the cost of a closed position once |
| | `SplitsAgree` | `SplitAgrees`: the price/currency split of the summary is that of its rows |
| | `RebalanceReaches` | `RebalanceReachesTarget`: the moves end within the rounding of the targets |
| | `ChartPointwise`, `ReadersMeet` | `ChartIsPointwise`, `ReadersAgree`: the one-pass chart says of each bucket, and the daily series of each midnight whose rates it finds, what the tables say; the chart ends with the summary, the series too when nothing was stored since midnight |
| | `RiskAgrees` | `RiskAndMonths`: drawdown, and the years the months compound to, against their definitions |
| | `MwrIsBalanced`, `TwrIsTheMarkets` | `MwrBalances`, `TwrIgnoresFlows`: returns do not depend on what moved in or out |

### Sums, filters, folds and fractions

The induction theorems of the library take an operator as a parameter and cannot be used.
`DataInduction` proves what is needed through minimal counterexamples: a finite family of
subsets has a minimal member (`MinimalSubset`, from well-foundedness of the cardinality),
so were a fact about sums wrong of a subset, it would be wrong of one all of whose proper
subsets it is right of. The same goes for the prefixes of a sequence, with
`SmallestMember`. `SumExists` and `FoldExists` show that the equations by which the
community modules define their folds have a solution, `SumsAgree` and `FoldsAgree` that
it is the only one; only then does the `CHOOSE` inside them mean anything.

### Ledger

`TypeOK` is not inductive. That a commit keeps keys below `nextId` needs to know that
pending writes are below it (`KeysInv`); that `Merge` writes to a row that is still
there when the commit comes needs to know that no other session holds that row
(`Exclusive`, from `LockedByOther`); that a commit is the serial step needs to know that
the pending write is the one the check on the snapshot allowed, and that the keys it
inserts are in nobody's sight (`FlushedInv`, with `Inserting` remembering the base).
`IInv` is their conjunction.

`ImportLeavesFeasible` relates two orders of the same rows. The check sorts what
`Chronological` lists, followed by the file's rows, on their instants alone; the walks take
the clocks the table kept, BUY before SELL on a tie. That nothing is oversold needs no
order: the check's last balance is the total. For an asset whose rows share an offset
(`OneOffset`) instants and clocks order the file's rows alike, and there are no rows of it
in the table, or the import would have failed (`SortRaises`): what the table holds by some
clock is what the check counted by some instant (`StoredIsShifted`). The check bounds the
running balance at every position, so also at the last position of each time, where both
orders have seen the same rows (`TimelineNet`); within one time the walks' order adds before
it takes, so none of its prefixes is below the smaller of the two ends (`DaysThenEntries`,
`ClosedPrefix`); a walk whose prefixes are never negative never caps a SELL, so it ends with
bought minus sold (`UncappedWalk`; both in `DataInduction`, as `WalkOfWholeDays`).
`ChronologicalPlaces` shows that the ranks of `Chronological` are a permutation of the rows,
the one fact `SumOverImage` needs to carry sums between table and sequence.

Three theorems assume a single slot (`\A r, s \in Requests : r = s`). They are false
without it: two overlapping SELLs both pass (finding 1). `OverlapFree` and
`OnlyOverlapsOversell` say the same of each request that nothing overlapped, beside any
number of others, with no such assumption.

### Upbit sync

`HoldingsAsRead` follows from what a session holds (`SyncRows`: the orders, which carry no
fee here, and adjustments that make up the difference to the balance, coin by coin) and
from the lock on the rows of the source, without which another request could slip rows
between the DELETE and the commit (`Locks`). `CashPinned` needs more: a sync that
reconciled is right about the table it measured (`Pins`, to half a won, from the rounding
of `quantize`), or that table is gone for good, because the reconcile row in it was deleted
by another (`Pinned`); this is why reconcile rows are told apart by their writer. One
session at a time holds that row (`OneReconciles`, `Numbers`).

### Catalog and caches

`LedgerOfHeld` says nothing of rows written and not yet committed. `CatalogInv` does: a
session about to insert an asset holds the lock of a symbol without one, a session about
to insert a transaction holds the lock of its parent or inserts the parent itself
(`PendingHolds`), and no two sessions hold clashing locks (`LocksApart`). In
`SymbolCache`, that a hit answers nobody else needs that the queue names nobody twice and
not the holder (`NobodyWaitsTwice`), and that a load begins only on a stale value needs
`LoadsOnlyStale`.

### Prices, statements, rates

`PriceHistory`: a job's rows carry the day it started on and midnight may pass before the
commit, so the invariant says that no tick is newer than the job that runs
(`NoTickAfterJob`); a back-fill's rows are, symbol by symbol, a stretch without a hole that
ends where the table it read began, and the table only grows (`FillRowsWhole`,
`OldestStays`). `StatementImport`: what a session saw is there still, opening balances
excepted (`Older`), so ids that were free in its snapshot clash only with what was
committed since; and what a request has inserted and not yet committed meets no key of
the tables or of another such request (`Held`, from `Waits`), which is why a commit after
the answer needs no second look. For `SharesMatchBroker` one more invariant: every stored transaction is
a line of a statement whose import committed (`Traced`). With `NothingLost` the rows of a
symbol are then exactly the covered lines that trade it (`RowsAreLines`); statements that
start where the account does have every line up to the last day, so no day ends short
(`NoDayEndsShort`), and `WalkOfWholeDays`, the fact the ledger uses, does the rest. The
theorem holds of books that are `Plain`: two trades alike but for fee and tax get one
digest and become one row, and a walk cannot follow a broker that is short at the end of a
day. The books of the run are (`PlainBooks`). `FxRefresh`: the pending upserts and snapshots of a job that can still
commit differ at most in the pair between its two statements and in those whose look-up
failed (`PendingAgree`); a commit makes the latter `orphans` and takes what it completed out.

### Portfolio

*Fractions* (in `DataInduction`)*.* `Over(n, d)` divides by the greatest common divisor, which is Euclid's
algorithm as a recursive function. `GcdUnfold` and `GcdDivides` show what it computes,
`OverEqual` that two quotients are one fraction exactly if their cross products are
equal; from there on `Plus`, `Minus`, `Times`, `Scale` and `Less` obey the laws of
arithmetic (`PlusLaws`, `TimesLaws`, `DifferenceLaws`, `LessOvers`), and no proof below
looks inside a fraction. Sums of fractions over a set are independent of the order they
are taken in (`TotalRemove`, `TotalUnion`).

*Invariant.* `IInv` is `TypeOK` with the types of all rows: trades dated 1 and later,
positive prices and rates, a rate no newer than now. The properties are state functions
of tables that satisfy it; each proof is an induction along the rows read.

*Cost* (`Balanced`). After every row in reading order: what was spent less what was earned
is cost less realised profit, the quantity is that of the capped walk, nothing held costs
nothing, and the cost lies between quantity times the cheapest and quantity times the
dearest price paid. The last part is what makes the step of a SELL go through.

*Tax* (`FifoExact`, `AverageExact`). Lots do not depend on the year a report is for, only
its sales do, so one queue serves all years; what the queue still costs and the costs of
the sales of all years add up to what the BUYs cost. A SELL moves an amount from the queue
to exactly one year (`OneYear`), and takes from the front what was asked for or all there is
(`LotsLeft`). At the end nothing is held, so the queue is empty (`NoShares`). For the average
the same, with quantity times average for the queue.

*Split, rebalance.* The summary and the rows take the same profit apart with the same
lots, in another order of sums (`SplitSums`). For the rebalance the allocation's slices are
shares of the total rounded to hundredths of a percent; the rounding is half to even, off by
at most half a digit (`RoundedError`), and that is what the tolerance of the property is.

*Chart and series.* `ReadOrder` numbers the rows as they are read. The books after m
rows are, symbol by symbol, the walk over the first m rows that are the symbol's
(`BooksAlong`). A pointer into the prices of a symbol stands at the newest price not after
the bucket (`Stands`), which needs that buckets only go forward (`Behind`); by `ScanStep` each
bucket then shows what the tables say of its time. The value series is the same with
quantities and the rates of the hour. A rate found that way is the one row's, so it was
fetched by then and is the newest snapshot both then and now (`RateThen`, from `TypeOK`): where all rates
are found the series has the tables' value of its time (`SeriesAsOf`), on the midnights of the
grid (`GridFacts`) and nowhere else. Chart and summary both end now (`Today`); the series ends with
the last midnight, and if nothing was stored since, the tables gave then what they give now
(`QuietDay`).

*Risk.* The drawdown carries the highest value so far; that a fall from there is the worst
fall ending here is `WorstStep`. The heatmap's months stand in the order of their years, so
those of a year are a stretch of them; along the list a year holds the change over its months
so far, and nothing once one of them begins or ends with nothing (`MonthAdded`,
`YearsCompound`; that the sampled times go forward and each has a year is
`MonthGridFacts`).

*Returns.* With one asset that is held on every day of the window no SELL is cut short
(`NoExcess`: had the walk run out once, the day's end would show it), so quantities between two days
differ by the signed rows between them (`HeldBetween`). The money-weighted flows are then
summed by day; in the time-weighted chain the flow of a day is exactly what its rows added to the
value (`FlowTakenOut`), so the factor of each period is the change of the price (`MarketChain`).

The assumptions on constants are those of `PortfolioAssumption` and `ReturnsAssumption`:
finitely many symbols, positive quantities, prices and rates, hours that divide the day, a
calendar year for every time that never goes back, month ends in order that cover the times
looked at, windows that are numbers.

### Only model-checked

- Liveness: `RequestEnds` (`Ledger`, `UpbitSync`, `Catalog`), `EventuallyShown`,
  `SearchAnswered`, `EventuallyRated`. The prover knows neither ENABLED nor fairness.
- `CashMatchesBroker`: for any book it would need to be told what a broker prints (row ids
  that do not repeat, fees and taxes only on the kinds that bear them, one dividend per
  symbol and day), assumptions about documents and not about the code.

## 5. Plan

Done: the modules of section 2 and the theorems of section 4. What remains worth doing,
in this order:

1. `CashMatchesBroker` for a book described by a predicate, if that predicate can be
   justified by the parsers' own checks.
2. `TargetAllocation`: replace-all under overlap.
3. The sample seed and edits of symbol metadata in `Catalog`.

Not modelled, and why:

- PDF text to rows (`_split_*`, column positions, the ISIN table): layout of text, no
  state; `Statements` begins where a row has been read.
- Newton and bisection for the money-weighted return, annualising, volatility and Sharpe:
  real-valued arithmetic outside TLC. The equation that is solved is modelled. The
  benchmark's own quotes, and its returns as a quotient by the first value.
- The dividend tax summary, calendar and yield on cost: sums over rows.
- Cash accounts (the form of the ledger's edit), login, display-name resolution, tags,
  data export, logging, and the front end.
