---------------------------- MODULE PriceHistory ----------------------------
(***************************************************************************)
(* Who writes prices: the job that ticks every ten minutes, and back-fills *)
(* of daily closes started by a request.  Each works in one transaction of *)
(* its own session over price_points (one row per symbol and day) and the  *)
(* price cached on asset_symbols.  Rows written and not yet committed are  *)
(* locked; the process may stop at any point and start again.              *)
(***************************************************************************)
EXTENDS Integers, FiniteSetsExt

CONSTANTS Symbols,      \* asset_symbols, with a transaction each
          Kind,         \* Symbols -> {"us_stock", "kr_stock", "crypto"}
          Id,           \* Symbols -> id; work is done in the order of the ids
          FirstTrade,   \* Symbols -> day of the earliest transaction
          Mapped,       \* the symbols a yfinance ticker is known for
          Prices,       \* prices of the sources
          Fillers,      \* back-fills that may run at the same time
          LastDay,      \* bound of the clock
          Moving,       \* bound: the symbols whose price moves
          Flaky         \* bound: the symbols whose source may not answer

ASSUME PriceHistoryAssumption ==
    /\ DOMAIN Kind = Symbols
    /\ Id \in [Symbols -> Nat] /\ \A s, t \in Symbols : Id[s] = Id[t] => s = t
    /\ Prices \subseteq Nat \ {0} /\ Prices # {}
    /\ UNION {Mapped, Moving, Flaky} \subseteq Symbols
    /\ LastDay \in Nat \ {0} /\ FirstTrade \in [Symbols -> 1 .. LastDay]
    /\ "job" \notin Fillers

VARIABLES up,           \* the process runs
          today,        \* the clock, in UTC days
          market,       \* what a source would quote now
          answers,      \* whether it has anything to say of the symbol
          points,       \* price_points: symbol -> day -> [price, by]
          cached,       \* asset_symbols.last_price: symbol -> price
          job,          \* the price job
          fill          \* the back-fills

vars == <<up, today, market, answers, points, cached, job, fill>>

Missing == 0
Close   == -1           \* the closing price of a day that is over
Never   == LastDay + 1  \* the oldest day of a symbol without rows

(***************************************************************************)
(* What the adapters bring back.  KrStockAdapter and CryptoAdapter look    *)
(* each symbol up on their own; UsStockAdapter loses the batch when one    *)
(* ticker cannot be resolved.                                              *)
(***************************************************************************)
OfKind(k) == {s \in Symbols : Kind[s] = k}

\* Mutant: what one adapter raises ends the whole gather.
FetchedTogether(k) ==
    IF \A s \in Symbols : answers[s] THEN OfKind(k) ELSE {}

Fetched(k) ==
    IF k = "us_stock"
      THEN IF \A s \in OfKind(k) : answers[s] THEN OfKind(k) ELSE {}
      ELSE {s \in OfKind(k) : answers[s]}

Idle == [phase |-> "idle"]

\* A row of price_points.
Row(s, d, p, by) == [sym |-> s, day |-> d, price |-> p, by |-> by]

\* The rows a transaction writes next: those of one symbol.
Batch(t) == {r \in t.todo : \A q \in t.todo : Id[r.sym] <= Id[q.sym]}

\* The rows a transaction holds, as <<symbol, day>>.
Keys(rows) == {<<r.sym, r.day>> : r \in rows}
Locked(t)  == IF t = Idle THEN {} ELSE Keys(t.pend)

Owners == Fillers \cup {"job"}
Work(o) == IF o = "job" THEN job ELSE fill[o]

HeldAgainst(owner) == UNION {Locked(Work(o)) : o \in Owners \ {owner}}

\* The rows of one symbol are written in the order of the days by everyone,
\* so they are taken together: a transaction waits for all of them.
Waits(o, t) == t.phase = "write" /\ Keys(Batch(t)) \cap HeldAgainst(o) # {}

\* bulk_insert: the rows of a transaction over the rows that are there.
Days(rows, s) == {r.day : r \in {x \in rows : x.sym = s}}

Upserted(rows) ==
    [s \in Symbols |->
        LET row(d) == CHOOSE r \in rows : r.sym = s /\ r.day = d
        IN [d \in DOMAIN points[s] \cup Days(rows, s) |->
               IF d \in Days(rows, s) THEN [price |-> row(d).price, by |-> row(d).by]
               ELSE points[s][d]]]

\* bulk_update_cache: the newest price of every symbol that was fetched.
Cached(rows) ==
    [s \in Symbols |-> IF \E r \in rows : r.sym = s THEN (CHOOSE r \in rows : r.sym = s).price
                       ELSE cached[s]]

(***************************************************************************)
(* The price job.  At most one instance runs (max_instances=1, coalesce).  *)
(***************************************************************************)
JobTick ==
    /\ up /\ job.phase = "idle"
    /\ job' = [phase |-> "fetch", day |-> today, todo |-> {}, pend |-> {}]
    /\ UNCHANGED <<up, today, market, answers, points, cached, fill>>

Quoted == UNION {Fetched(k) : k \in {Kind[s] : s \in Symbols}}

\* Mutant: a symbol without an answer is quoted at nothing.
JobFetchAll ==
    /\ up /\ job.phase = "fetch"
    /\ job' = [job EXCEPT !.phase = "write",
                          !.todo = {Row(s, job.day, IF s \in Quoted THEN market[s] ELSE Missing,
                                        "tick") : s \in Symbols}]
    /\ UNCHANGED <<up, today, market, answers, points, cached, fill>>

\* The adapters ran in parallel; fetched_at is the start of the batch.
JobFetch ==
    /\ up /\ job.phase = "fetch"
    /\ job' = [job EXCEPT !.phase = "write",
                          !.todo = {Row(s, job.day, market[s], "tick") : s \in Quoted}]
    /\ UNCHANGED <<up, today, market, answers, points, cached, fill>>

\* Mutant: the cache is updated at once, outside the transaction.
JobWriteThrough ==
    /\ up /\ job.phase = "write" /\ job.todo # {} /\ ~Waits("job", job)
    /\ job' = [job EXCEPT !.todo = @ \ Batch(job), !.pend = @ \cup Batch(job)]
    /\ cached' = Cached(Batch(job))
    /\ UNCHANGED <<up, today, market, answers, points, fill>>

JobWrite ==
    /\ up /\ job.phase = "write" /\ job.todo # {} /\ ~Waits("job", job)
    /\ job' = [job EXCEPT !.todo = @ \ Batch(job), !.pend = @ \cup Batch(job)]
    /\ UNCHANGED <<up, today, market, answers, points, cached, fill>>

JobCommit ==
    /\ up /\ job.phase = "write" /\ job.todo = {}
    /\ points' = Upserted(job.pend)
    /\ cached' = Cached(job.pend)
    /\ job' = Idle
    /\ UNCHANGED <<up, today, market, answers, fill>>

\* A lock wait that lasts too long, or a deadlock with this side as victim:
\* the exception leaves the session, which rolls back.
JobGivesUp ==
    /\ up /\ Waits("job", job)
    /\ job' = Idle
    /\ UNCHANGED <<up, today, market, answers, points, cached, fill>>

(***************************************************************************)
(* A back-fill: everything it knows of the table dates from its first read *)
(* (REPEATABLE READ); it fetches symbol by symbol, with rows of the        *)
(* symbols before already written, and commits at the end.                 *)
(***************************************************************************)
FillStart(f) ==
    /\ up /\ fill[f].phase = "idle"
    /\ fill' = [fill EXCEPT ![f] =
           [phase |-> "fetch", left |-> Mapped,
            oldest |-> [s \in Symbols |-> Min(DOMAIN points[s] \cup {Never})],
            todo |-> {}, pend |-> {}]]
    /\ UNCHANGED <<up, today, market, answers, points, cached, job>>

\* Mutant: the day before the oldest row is taken as covered too.
FillRowsShort(s, oldest) ==
    {Row(s, d, IF d = today THEN market[s] ELSE Close, "fill") :
        d \in {e \in FirstTrade[s] - 1 .. today : e + 1 < oldest}}

\* From the day before the first trade on, what is older than the oldest row.
FillRows(s, oldest) ==
    {Row(s, d, IF d = today THEN market[s] ELSE Close, "fill") :
        d \in {e \in FirstTrade[s] - 1 .. today : e < oldest}}

\* An error of the source skips the symbol.
FillFetch(f) ==
    /\ up /\ fill[f].phase = "fetch"
    /\ \E s \in fill[f].left :
          LET rows == IF answers[s] THEN FillRows(s, fill[f].oldest[s]) ELSE {}
          IN /\ \A o \in fill[f].left : Id[s] <= Id[o]
             /\ fill' = [fill EXCEPT ![f].left = @ \ {s}, ![f].todo = rows,
                                     ![f].phase = IF rows = {} THEN "fetch" ELSE "write"]
    /\ UNCHANGED <<up, today, market, answers, points, cached, job>>

FillWrite(f) ==
    /\ up /\ fill[f].phase = "write" /\ ~Waits(f, fill[f])
    /\ fill' = [fill EXCEPT ![f].phase = "fetch", ![f].todo = {},
                            ![f].pend = @ \cup fill[f].todo]
    /\ UNCHANGED <<up, today, market, answers, points, cached, job>>

FillCommit(f) ==
    /\ up /\ fill[f].phase = "fetch" /\ fill[f].left = {}
    /\ points' = Upserted(fill[f].pend)
    /\ fill' = [fill EXCEPT ![f] = Idle]
    /\ UNCHANGED <<up, today, market, answers, cached, job>>

FillGivesUp(f) ==
    /\ up /\ Waits(f, fill[f])
    /\ fill' = [fill EXCEPT ![f] = Idle]
    /\ UNCHANGED <<up, today, market, answers, points, cached, job>>

(***************************************************************************)
(* Around them.                                                            *)
(***************************************************************************)
\* scheduler.shutdown(wait=False), or the process dies: nothing of an open
\* transaction is left, and jobs and tasks are gone.
Stop ==
    /\ up
    /\ up' = FALSE
    /\ job' = Idle
    /\ fill' = [f \in Fillers |-> Idle]
    /\ UNCHANGED <<today, market, answers, points, cached>>

Start ==
    /\ ~up
    /\ up' = TRUE
    /\ UNCHANGED <<today, market, answers, points, cached, job, fill>>

NextDay ==
    /\ today < LastDay
    /\ today' = today + 1
    /\ UNCHANGED <<up, market, answers, points, cached, job, fill>>

Moves(s, p) ==
    /\ market[s] # p
    /\ market' = [market EXCEPT ![s] = p]
    /\ UNCHANGED <<up, today, answers, points, cached, job, fill>>

Fails(s) ==
    /\ answers' = [answers EXCEPT ![s] = ~@]
    /\ UNCHANGED <<up, today, market, points, cached, job, fill>>

Init ==
    /\ up = TRUE
    /\ today = 1
    /\ market = [s \in Symbols |-> Min(Prices)]
    /\ answers = [s \in Symbols |-> TRUE]
    /\ points = [s \in Symbols |-> << >>]
    /\ cached = [s \in Symbols |-> Missing]
    /\ job = Idle
    /\ fill = [f \in Fillers |-> Idle]

Job == JobTick \/ JobFetch \/ JobWrite \/ JobCommit \/ JobGivesUp

Fill(f) == FillStart(f) \/ FillFetch(f) \/ FillWrite(f) \/ FillCommit(f) \/ FillGivesUp(f)

Next ==
    \/ Job
    \/ \E f \in Fillers : Fill(f)
    \/ Stop \/ Start \/ NextDay
    \/ \E s \in Moving, p \in Prices : Moves(s, p)
    \/ \E s \in Flaky : Fails(s)

\* The cron trigger fires again and again, calls to the sources end, the
\* database serves or refuses; a user need not ask for a back-fill, prices
\* need not move and nobody has to restart a stopped process.
Fairness ==
    /\ WF_vars(JobTick) /\ WF_vars(JobFetch) /\ WF_vars(JobWrite)
    /\ WF_vars(JobCommit) /\ WF_vars(JobGivesUp)
    /\ \A f \in Fillers : /\ WF_vars(FillFetch(f)) /\ WF_vars(FillWrite(f))
                          /\ WF_vars(FillCommit(f)) /\ WF_vars(FillGivesUp(f))

Spec == Init /\ [][Next]_vars /\ Fairness

(***************************************************************************)
(* Properties.                                                             *)
(***************************************************************************)
Rows == [sym : Symbols, day : 0 .. today, price : Prices \cup {Close}, by : {"tick", "fill"}]

Jobs  == [phase : {"fetch", "write"}, day : 1 .. today, todo : SUBSET Rows, pend : SUBSET Rows]
Fills == [phase : {"fetch", "write"}, left : SUBSET Symbols, oldest : [Symbols -> 0 .. Never],
          todo : SUBSET Rows, pend : SUBSET Rows]

\* No row of the table is held by two transactions.
HeldOnce == \A o, p \in Owners : o # p => Locked(Work(o)) \cap Locked(Work(p)) = {}

TypeOK ==
    /\ up \in BOOLEAN /\ today \in 1 .. LastDay
    /\ market \in [Symbols -> Prices] /\ answers \in [Symbols -> BOOLEAN]
    /\ cached \in [Symbols -> Prices \cup {Missing}]
    /\ \A s \in Symbols : /\ DOMAIN points[s] \subseteq 0 .. today
                          /\ \A d \in DOMAIN points[s] :
                                 /\ points[s][d].price \in Prices \cup {Close}
                                 /\ points[s][d].by \in {"tick", "fill"}
    /\ job \in {Idle} \cup Jobs
    /\ fill \in [Fillers -> {Idle} \cup Fills]
    /\ HeldOnce

\* The days on which the job has left a row.
Ticks(s) == {d \in DOMAIN points[s] : points[s][d].by = "tick"}

(***************************************************************************)
(* The price shown on the holdings table and the newest tick the chart     *)
(* ends with are one: whatever stops or fails between two writes, no       *)
(* reader sees one without the other, and no price is cached that the      *)
(* history has never had.                                                  *)
(***************************************************************************)
CacheIsNewestTick ==
    \A s \in Symbols :
        /\ cached[s] = Missing => Ticks(s) = {}
        /\ \A d \in Ticks(s) :
              (\A e \in DOMAIN points[s] : e <= d) => points[s][d].price = cached[s]

(***************************************************************************)
(* A back-fill leaves no hole in what it covers, from the day before the   *)
(* first trade to the last row it wrote of a symbol and to the oldest it   *)
(* knew of, though jobs and other back-fills committed since it looked.    *)
(***************************************************************************)
FillCovers ==
    [][\A f \in Fillers :
          fill[f] # Idle /\ fill'[f] = Idle /\ points' # points =>
              \A r \in fill[f].pend :
                  LET from   == FirstTrade[r.sym] - 1
                      oldest == fill[f].oldest[r.sym]
                  IN /\ from .. r.day \subseteq DOMAIN points'[r.sym]
                     /\ oldest # Never => from .. oldest \subseteq DOMAIN points'[r.sym]]_vars

(***************************************************************************)
(* A price that stays is shown in the end, though the process may have     *)
(* been stopped in the middle of anything, jobs have failed or waited for  *)
(* a back-fill, and other kinds of symbols have no source at all.          *)
(***************************************************************************)
Resolved(s) == answers[s] /\ (Kind[s] = "us_stock" => \A o \in OfKind("us_stock") : answers[o])

EventuallyShown ==
    \A s \in Symbols, p \in Prices :
        <>[](up /\ market[s] = p /\ Resolved(s)) => <>[](cached[s] = p)

(***************************************************************************)
(* Goal 3 of docs/specs/price-refresh.md: the failure of one symbol does   *)
(* not keep another from being refreshed.  Violated for US stocks.         *)
(***************************************************************************)
FailureIsolated ==
    \A s \in Symbols, p \in Prices :
        <>[](up /\ market[s] = p /\ answers[s]) => <>[](cached[s] = p)

(***************************************************************************)
(* "Anything strictly before the existing oldest row is inserted; the rest *)
(* is treated as already covered" (price_history_backfill.py): no tick is  *)
(* replaced by a back-filled row.  Violated when the first tick of a       *)
(* symbol commits while the back-fill is fetching.                         *)
(***************************************************************************)
TicksKept == [][\A s \in Symbols : \A d \in Ticks(s) : points'[s][d].by = "tick"]_vars
=============================================================================
