-------------------------- MODULE StatementImport --------------------------
(***************************************************************************)
(* Uploads of broker statements and the dividend job, over transactions,   *)
(* dividends and cash_account_transactions.  A request reads from the      *)
(* snapshot of its first read, inserts, answers, and commits after the     *)
(* answer; a row whose key someone committed since its first read costs it *)
(* everything.  Any statement may be uploaded any number of times, in any  *)
(* order, by overlapping requests.                                         *)
(***************************************************************************)
EXTENDS Statements, Holdings

CONSTANTS Windows,      \* broker -> the statements that exist, as <<from, to>>
          Requests,     \* uploads that may be under way at the same time
          Declared,     \* what the dividend sources know, in the order of their
                        \* answers: [sym, day, amount, cur]
          Together      \* bound: the sets of brokers used in one history

Spans == Int \X Int

ASSUME StatementAssumption ==
    /\ Windows \in [Sources -> SUBSET Spans]
    /\ Declared \in Seq([sym : Symbols, day : Int, amount : Int, cur : Currencies])

VARIABLES tables,       \* [txs, divs, cash, symbols], committed
          req,          \* the uploads
          job,          \* the dividend job
          uploaded,     \* broker -> the statements whose import committed
          settled       \* no import has overlapped another, or the earliest
                        \* statement has been imported on its own since

vars == <<tables, req, job, uploaded, settled>>

Idle == [phase |-> "idle"]

(***************************************************************************)
(* What an import adds, judged by the snapshot it reads from.              *)
(***************************************************************************)
SameKey(x, y)  == x.src = y.src /\ x.id = y.id
SamePair(x, y) == x.sym = y.sym /\ x.at = y.at

\* existing_ids, and the ids already taken from this statement.
Fresh(s, known) ==
    {s[k] : k \in {k \in DOMAIN s : /\ ~\E r \in known : SameKey(r, s[k])
                                    /\ ~\E j \in DOMAIN s : j < k /\ s[j].id = s[k].id}}

Of(s, rec) == Restrict(s, {k \in DOMAIN s : s[k].rec = rec})

\* Mutant: only the ids are looked at.
NewDividendsById(v, s) == Fresh(Of(s, "dividend"), v.divs)

\* One dividend per symbol and day, whoever reports it.
NewDividends(v, s) ==
    LET d     == Of(s, "dividend")
        first == {k \in DOMAIN d : ~\E j \in DOMAIN d : j < k /\ SamePair(d[j], d[k])}
    IN {r \in Fresh(d, v.divs) : /\ \E k \in first : r = d[k]
                                 /\ ~\E x \in v.divs : SamePair(x, r)}

\* Mutant: the newest opening is kept.
CollapsedLatest(own, stored) ==
    LET openings == {r \in own : IsOpening(r)}
        keep     == CHOOSE r \in openings : \A o \in openings : o.at <= r.at
    IN IF Cardinality(openings) <= 1 THEN stored
       ELSE {r \in stored : IsOpening(r) => r = keep}

\* _collapse_opening_balances: the rows to delete, by this request's view.
\* The DELETE itself reads what is committed.
Collapsed(own, stored) ==
    LET openings == {r \in own : IsOpening(r)}
        keep     == CHOOSE r \in openings : \A o \in openings : r.at <= o.at
    IN IF Cardinality(openings) <= 1 THEN stored
       ELSE {r \in stored : IsOpening(r) => r = keep}

\* What the parsers make of the statements there are.
Records == [src \in Sources |-> [w \in Windows[src] |-> Parsed(src, w)]]

\* Mutant: a dividend of a symbol that is not there brings no symbol.
ImportTradesFirst(v, src, w) ==
    LET s == Records[src][w]
    IN [txs     |-> Fresh(Of(s, "trade"), v.txs),
        divs    |-> NewDividends(v, s),
        cash    |-> Fresh(Of(s, "cash"), v.cash),
        symbols |-> {r.sym : r \in Fresh(Of(s, "trade"), v.txs)} \ v.symbols]

Import(v, src, w) ==
    LET s == Records[src][w]
    IN [txs     |-> Fresh(Of(s, "trade"), v.txs),
        divs    |-> NewDividends(v, s),
        cash    |-> Fresh(Of(s, "cash"), v.cash),
        symbols |-> {r.sym : r \in Fresh(Of(s, "trade"), v.txs)
                                   \cup Fresh(Of(s, "dividend"), v.divs)} \ v.symbols]

\* A UNIQUE key met by an INSERT.
Clash(new, old) ==
    \/ \E x \in new.txs, y \in old.txs : SameKey(x, y)
    \/ \E x \in new.cash, y \in old.cash : SameKey(x, y)
    \/ \E x \in new.divs, y \in old.divs : SamePair(x, y) \/ SameKey(x, y)
    \/ new.symbols \cap old.symbols # {}

Conflict(new) == Clash(new, tables)

\* What a request inserts, settled by its first read.
NewRows(r) == req[r].new

Replied(r) == req[r].phase = "replied"

\* A Toss import with cash rows ends by collapsing the openings it sees.
Collapses(r) == req[r].src = "toss" /\ DOMAIN Of(Records[req[r].src][req[r].w], "cash") # {}

Openings(r) ==
    IF Collapses(r) THEN {x \in req[r].view.cash \cup NewRows(r).cash : IsOpening(x)} ELSE {}

\* An INSERT waits for a row of the same key that is not committed yet, a
\* DELETE of openings for those not committed, and an opening for a DELETE.
Waits(r) ==
    \E q \in Requests \ {r} :
        /\ Replied(q)
        /\ \/ Clash(NewRows(r), NewRows(q))
           \/ Cardinality(Openings(r)) > 1 /\ \E x \in NewRows(q).cash : IsOpening(x)
           \/ Cardinality(Openings(q)) > 1 /\ Openings(r) # {}

(***************************************************************************)
(* Uploads.                                                                *)
(***************************************************************************)
Begin(r, src, w) ==
    /\ req[r].phase = "idle"
    /\ \E g \in Together : {src} \cup {c \in Sources : uploaded[c] # {}}
                             \cup {req[q].src : q \in {q \in Requests : req[q] # Idle}} \subseteq g
    /\ req' = [req EXCEPT ![r] = [phase |-> "import", src |-> src, w |-> w, view |-> tables,
                                  new |-> Import(tables, src, w)]]
    /\ UNCHANGED <<tables, job, uploaded, settled>>

Earliest(src, w, seen) == \A u \in seen : w[1] <= u[1]

\* Mutant: the conflict is swallowed and the import counts as done.
ReplyLenient(r) ==
    /\ req[r].phase = "import"
    /\ ~Waits(r)
    /\ req' = [req EXCEPT ![r] = IF Conflict(NewRows(r)) THEN Idle ELSE [@ EXCEPT !.phase = "replied"]]
    /\ uploaded' = IF Conflict(NewRows(r)) THEN [uploaded EXCEPT ![req[r].src] = @ \cup {req[r].w}]
                   ELSE uploaded
    /\ UNCHANGED <<tables, job, settled>>

\* The rows are inserted and the request is answered: with 200, or, on a
\* conflict, by the error that leaves the session and rolls it back.
Reply(r) ==
    /\ req[r].phase = "import"
    /\ ~Waits(r)
    /\ req' = [req EXCEPT ![r] = IF Conflict(NewRows(r)) THEN Idle ELSE [@ EXCEPT !.phase = "replied"]]
    /\ UNCHANGED <<tables, job, uploaded, settled>>

\* get_db_session commits once the answer is out.
Commit(r) ==
    LET src  == req[r].src
        new  == NewRows(r)
        seen == uploaded[src] \cup {req[r].w}
        all  == tables.cash \cup new.cash
    IN /\ Replied(r)
       /\ tables' = [txs     |-> tables.txs \cup new.txs,
                     divs    |-> tables.divs \cup new.divs,
                     symbols |-> tables.symbols \cup new.symbols,
                     cash    |-> IF Collapses(r) THEN Collapsed(req[r].view.cash \cup new.cash, all)
                                 ELSE all]
       /\ uploaded' = [uploaded EXCEPT ![src] = seen]
       /\ settled' = IF src # "toss" THEN settled
                     ELSE /\ tables.cash = req[r].view.cash
                          /\ settled \/ Earliest(src, req[r].w, seen)
       /\ req' = [req EXCEPT ![r] = Idle]
       /\ UNCHANGED job

\* A resolver, the database or the process gives up in the middle, or the
\* commit fails when 200 has been said.
Abort(r) ==
    /\ req[r].phase \in {"import", "replied"}
    /\ req' = [req EXCEPT ![r] = Idle]
    /\ UNCHANGED <<tables, job, uploaded, settled>>

(***************************************************************************)
(* The dividend job: what the sources declare for every known symbol, one  *)
(* commit for all.  A symbol whose source fails is left out.               *)
(***************************************************************************)
JobBegin ==
    /\ job.phase = "idle"
    /\ job' = [phase |-> "fetch", divs |-> tables.divs, symbols |-> tables.symbols]
    /\ UNCHANGED <<tables, req, uploaded, settled>>

JobRow(d) == [rec |-> "dividend", src |-> "job", at |-> d.day, sym |-> d.sym,
              id |-> [day |-> d.day, kind |-> "declared", sym |-> d.sym, qty |-> 0,
                      price |-> 0, amount |-> d.amount, cur |-> d.cur],
              amount |-> d.amount, tax |-> 0, cur |-> d.cur]

JobFinish(answers) ==
    LET quoted == {k \in DOMAIN Declared : Declared[k].sym \in job.symbols \cap answers}
        first  == {k \in quoted : ~\E j \in DOMAIN Declared : /\ j < k
                                                             /\ Declared[j].sym = Declared[k].sym
                                                             /\ Declared[j].day = Declared[k].day}
        new    == {r \in {JobRow(Declared[k]) : k \in first} : ~\E x \in job.divs : SamePair(x, r)}
    IN /\ job.phase = "fetch"
       /\ ~\E q \in Requests : Replied(q) /\ \E x \in new, y \in NewRows(q).divs : SamePair(x, y)
       /\ tables' = IF \E x \in new, y \in tables.divs : SamePair(x, y) THEN tables
                    ELSE [tables EXCEPT !.divs = @ \cup new]
       /\ job' = Idle
       /\ UNCHANGED <<req, uploaded, settled>>

Init ==
    /\ tables = [txs |-> {}, divs |-> {}, cash |-> {}, symbols |-> {}]
    /\ req = [r \in Requests |-> Idle]
    /\ job = Idle
    /\ uploaded = [src \in Sources |-> {}]
    /\ settled = TRUE

Next ==
    \/ \E r \in Requests : \/ \E src \in Sources : \E w \in Windows[src] : Begin(r, src, w)
                           \/ Reply(r)
                           \/ Commit(r)
                           \/ Abort(r)
    \/ JobBegin
    \/ \E answers \in SUBSET {d.sym : d \in Range(Declared)} : JobFinish(answers)

Spec == Init /\ [][Next]_vars

(***************************************************************************)
(* Properties.                                                             *)
(***************************************************************************)
Rows == tables.txs \cup tables.divs \cup tables.cash

BalanceOf(src, cur) ==
    MapThenSumSet(CashEffect, {r \in Rows : r.src = src /\ r.cur = cur})

Tables == [txs : SUBSET TradeRows, divs : SUBSET DividendRows, cash : SUBSET CashRows,
           symbols : SUBSET Symbols]

Uploading == [phase : {"import", "replied"}, src : Sources, w : Spans, view : Tables, new : Tables]

\* The UNIQUE keys of the three tables.
UniqueKeys ==
    /\ \A x, y \in tables.txs : SameKey(x, y) => x = y
    /\ \A x, y \in tables.cash : SameKey(x, y) => x = y
    /\ \A x, y \in tables.divs : SameKey(x, y) \/ SamePair(x, y) => x = y

KnownSymbols == \A x \in tables.txs \cup tables.divs : x.sym \in tables.symbols

\* The types, the UNIQUE keys, and no row without its symbol.
TypeOK ==
    /\ tables \in Tables
    /\ req \in [Requests -> {Idle} \cup Uploading]
    /\ \A r \in Requests :
          req[r] # Idle => /\ req[r].w \in Windows[req[r].src]
                           /\ req[r].new = Import(req[r].view, req[r].src, req[r].w)
    /\ job \in {Idle} \cup [phase : {"fetch"}, divs : SUBSET DividendRows, symbols : SUBSET Symbols]
    /\ uploaded \in [Sources -> SUBSET Spans] /\ settled \in BOOLEAN
    /\ \A src \in Sources : uploaded[src] \subseteq Windows[src]
    /\ UniqueKeys /\ KnownSymbols

Days(src) == UNION {w[1] .. w[2] : w \in uploaded[src]}

\* The uploaded statements leave no day out.
Contiguous(src) == Days(src) # {} /\ \A a, b \in Days(src) : a .. b \subseteq Days(src)

\* ... and start where the account does, with nothing on it.
FromTheStart(src) == Contiguous(src) /\ (Book[src] # << >> => Book[src][1].day \in Days(src))

First(src) == CHOOSE w \in uploaded[src] : Earliest(src, w, uploaded[src])

\* Cash the broker paid for a symbol and day another source has a row of.
Skipped(src, cur) ==
    MapThenSumSet(LAMBDA k : Impact(src, Book[src][k]),
        {k \in DOMAIN Book[src] :
            LET x == Book[src][k]
            IN /\ x.kind = "dividend" /\ x.cur = cur /\ x.day \in Days(src) /\ Pays(src)
               /\ \E y \in tables.divs : y.sym = x.sym /\ y.at = x.day /\ y.src # src})

Printed == [src \in Sources |-> [k \in 0 .. Len(Book[src]) |->
                [cur \in Currencies |-> BalanceAfter(src, k, cur)]]]

\* Rows that moved money one way and are stored the other: the won of a
\* cancelled exchange at Toss, won exchanged away at Shinhan.
Misread(src, x) ==
    /\ x.cur = "KRW"
    /\ \/ src = "toss" /\ x.kind = "fx_in_cancel"
       \/ src = "shinhan" /\ x.kind = "fx_out"

\* Every row is read for what it is, and no two have one digest.
Readable ==
    [src \in Sources |-> [cur \in Currencies |->
        LET lines == {k \in DOMAIN Book[src] : Book[src][k].cur = cur}
        IN /\ \A k \in lines : ~Misread(src, Book[src][k])
           /\ \A k \in lines : Recorded(src, Book[src][k]) \/ Impact(src, Book[src][k]) = 0
           /\ \A j, k \in lines : RowId(Book[src][j]) = RowId(Book[src][k]) => j = k]]

BrokerBalance(src, cur) ==
    Printed[src][Max({0} \cup {k \in DOMAIN Book[src] : Book[src][k].day <= Max(Days(src))})][cur]

(***************************************************************************)
(* The cash shown per broker is the broker's own balance at the end of the *)
(* last statement: in any order of uploads, overlapping or repeated, after *)
(* aborted and conflicting ones, for books whose rows are read for what    *)
(* they are.  The money of a dividend that is skipped because another      *)
(* source has the day is missing, and nothing else is.  In KRW Toss may    *)
(* start anywhere if the earliest statement has an opening; all else must  *)
(* be covered from the start.                                              *)
(***************************************************************************)
CashMatchesBroker ==
    \A src \in Sources, cur \in {"KRW", "USD"} :
        /\ \/ FromTheStart(src) /\ (cur = "USD" \/ Start[src] = 0)
           \/ src = "toss" /\ cur = "KRW" /\ Contiguous(src) /\ Opening(src, First(src)) # << >>
        /\ Readable[src][cur]
        /\ src = "toss" => settled
        => BalanceOf(src, cur) + Skipped(src, cur) = BrokerBalance(src, cur)

\* The lines of a book that trade a symbol, the shares they leave at the
\* broker, and the brokers that trade it.
TradesOf(src, sym) == {k \in DOMAIN Book[src] : Book[src][k].sym = sym /\ Book[src][k].kind \in Trades(src)}

Shares(src, lines) ==
    SumFunctionOnSet([k \in DOMAIN Book[src] |->
        IF Book[src][k].kind \in {"buy", "coin_in"} THEN Book[src][k].qty ELSE -Book[src][k].qty], lines)

Traders(sym) == {src \in Sources : TradesOf(src, sym) # {}}

\* No two of them are alike but for fee and tax, which the digest leaves out,
\* and none leaves the broker short at the end of its day.
Plain(src, sym) ==
    LET stripped(k) == [Book[src][k] EXCEPT !.fee = 0, !.tax = 0]
    IN /\ \A j, k \in TradesOf(src, sym) : stripped(j) = stripped(k) => j = k
       /\ \A k \in TradesOf(src, sym) :
             /\ Book[src][k].qty >= 0
             /\ Shares(src, {j \in TradesOf(src, sym) : Book[src][j].day <= Book[src][k].day}) >= 0

\* The holdings query: by time, BUYs first, in some order of the keys.
Reading(rows) == LET table == SetToSeq(rows) IN InOrder(table, DOMAIN table)

(***************************************************************************)
(* The walk behind the holdings table comes to what the brokers hold,      *)
(* though trades of a day have lost their order.                           *)
(***************************************************************************)
SharesMatchBroker ==
    \A sym \in tables.symbols :
        (\A src \in Traders(sym) : FromTheStart(src) /\ Plain(src, sym)) =>
            Walk(Reading({x \in tables.txs : x.sym = sym}))
            = SumFunction([src \in Traders(sym) |->
                  Shares(src, {k \in TradesOf(src, sym) : Book[src][k].day \in Days(src)})])

\* An opening may be collapsed, a dividend may be another source's.
There(r) ==
    \/ r.rec = "trade" /\ \E x \in tables.txs : SameKey(x, r)
    \/ r.rec = "dividend" /\ \E x \in tables.divs : SamePair(x, r)
    \/ r.rec = "cash" /\ (IsOpening(r) \/ \E x \in tables.cash : SameKey(x, r))

(***************************************************************************)
(* What an import committed stays, whatever else ran at the time and comes *)
(* after: for each line a row of its key, that is, of its broker and       *)
(* digest, and some dividend of its symbol and day.  Only a commit that    *)
(* fails after the answer loses what was answered with 200, and of lines   *)
(* with one digest a single row is kept.                                   *)
(***************************************************************************)
NothingLost ==
    \A src \in Sources : \A w \in uploaded[src] : \A r \in Range(Records[src][w]) : There(r)

\* Not a property of this code: what is answered with 200 is kept
\* (StatementTraces.cfg), every line has a row of its own (StatementTwins.cfg),
\* and every dividend of a broker is counted (StatementTraces.cfg).
RepliesKept ==
    [][\A r \in Requests : Replied(r) /\ req'[r] = Idle => req[r].w \in uploaded'[req[r].src]]_vars

EveryLineKept ==
    \A src \in Sources : \A w \in uploaded[src] :
        Cardinality({x \in tables.txs : x.src = src /\ x.at \in w[1] .. w[2]})
        >= Cardinality(DOMAIN Of(Records[src][w], "trade"))

NoneSkipped == \A src \in Sources : Skipped(src, "KRW") = 0

(***************************************************************************)
(* A statement can always be imported again: with nothing else committed   *)
(* since its first read no key is met, whatever was imported or declared   *)
(* before, by whom, and however often.                                     *)
(***************************************************************************)
RetrySucceeds ==
    \A r \in Requests :
        req[r] # Idle /\ req[r].view = tables => ~Conflict(Import(tables, req[r].src, req[r].w))

(***************************************************************************)
(* _collapse_opening_balances: "the table converges to a single opening    *)
(* regardless of the order PDFs were uploaded", which stands for the money *)
(* the statements do not cover.  Violated, without any overlap, when the   *)
(* earliest statement starts from an empty account: it has no opening, and *)
(* that of a later one stays.                                              *)
(***************************************************************************)
OneOpening ==
    Contiguous("toss") /\ settled =>
        BalanceOf("toss", "KRW") + Skipped("toss", "KRW") = BrokerBalance("toss", "KRW")

(***************************************************************************)
(* "Cash actually credited to the user is amount - withholding_tax"        *)
(* (models/dividend.py): what the brokers credited and nothing else.       *)
(* Violated by the rows of the job, per share and for every known symbol.  *)
(***************************************************************************)
DividendsCredited ==
    \A r \in tables.divs : \E src \in Sources : \E x \in ToSet(Book[src]) :
        x.kind = "dividend" /\ x.sym = r.sym /\ Impact(src, x) = CashEffect(r)
=============================================================================
