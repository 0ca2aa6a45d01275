----------------------------- MODULE Valuation -----------------------------
(***************************************************************************)
(* What the portfolio is worth: the holdings table, the summary with its   *)
(* allocation and its price/FX split, the rebalance suggestion and the     *)
(* history chart, as state functions of the tables they read.  Timestamps  *)
(* are numbers, cut into UTC hours and days; Home is the currency          *)
(* everything is shown in (KRW); an absent price or rate is Missing.       *)
(***************************************************************************)
EXTENDS CostBasis

CONSTANTS Symbols,     \* asset_symbols that have a user_assets row
          Currency,    \* Symbols -> currencies
          AssetType,   \* Symbols -> allocation buckets
          Home,        \* the display currency
          HourLength, DayLength

ASSUME ValuationAssumption ==
    /\ DOMAIN Currency = Symbols
    /\ DOMAIN AssetType = Symbols
    /\ "cash" \notin {AssetType[s] : s \in Symbols}
    /\ {HourLength, DayLength} \subseteq Nat \ {0} /\ DayLength % HourLength = 0

VARIABLES clock,       \* the clock
          trades,      \* transactions, in insertion order
          points,      \* price_points: symbol -> fetched_at -> price
          rate,        \* the one fx_rates row of the foreign currency
          snaps        \* fx_rate_snapshots of it: recorded_at -> rate

Missing == 0
None    == << >>

Sum(f) == FoldFunction(Plus, Zero, f)

\* replace(minute=0, ...) and replace(hour=0, ...) on a UTC time.
Hour(t)     == HourLength * (t \div HourLength)
Midnight(t) == DayLength * (t \div DayLength)

\* The newest entry at or before t.
LatestAt(table, t) ==
    LET past == {d \in DOMAIN table : d <= t}
    IN IF past = {} THEN Missing ELSE table[Max(past)]

LastPrice(s) == LatestAt(points[s], clock)

\* get_latest: the cached row, whatever its age.
RateNow(c) == IF c = Home THEN 1 ELSE rate.value

\* get_rates_at_batch: the nearest snapshot in the past.
SnapshotAt(c, t) == IF c = Home THEN 1 ELSE LatestAt(snaps, t)

\* convert_at reads fx_rates, which keeps one row per pair, the newest.
TradeDateRate(c, t) ==
    IF c = Home THEN 1 ELSE IF rate.at <= t THEN rate.value ELSE Missing

\* fx_at_sync: the returns ask convert_at for the hour of t, so a rate
\* fetched later in that hour is not found.
RateAtHour(c, t) == TradeDateRate(c, Hour(t))

(***************************************************************************)
(* The holdings table.  A row is shown when something is held.             *)
(***************************************************************************)
Position(s) == Holding(OrderedOf(trades, s))
Pending(s)  == LastPrice(s) = Missing
Value(s)    == Whole(Position(s).qty * LastPrice(s))
Profit(s)   == Minus(Value(s), Position(s).cost)
Shown       == {s \in Symbols : Position(s).qty > 0}

\* The cost-weighted average of the rates at the times of the BUYs.
AverageBuyRate(s) ==
    LET lots == BuyLots(OrderedOf(trades, s))
        at(x) == SnapshotAt(Currency[s], x.at)
        paid  == [i \in DOMAIN lots |-> lots[i].qty * lots[i].price]
        spent == SumFunction(paid)
        won   == SumFunction([i \in DOMAIN lots |-> paid[i] * at(lots[i])])
    IN IF lots = << >> \/ \E i \in DOMAIN lots : at(lots[i]) = Missing THEN None
       ELSE Over(won, spent)

\* Price and currency parts of a row's profit in Home.
PriceFxSplit(s, buyRate) ==
    LET now == RateNow(Currency[s])
    IN [warning |-> "none",
        price   |-> Scale(now, Profit(s)),
        fx      |-> Times(Position(s).cost, Minus(Whole(now), buyRate))]

NoSplit(why) == [warning |-> why, price |-> None, fx |-> None]

RowSplit(s) ==
    IF Currency[s] = Home
      THEN IF Pending(s) THEN NoSplit("same_currency")
           ELSE [warning |-> "same_currency", price |-> Profit(s), fx |-> Zero]
    ELSE IF RateNow(Currency[s]) = Missing THEN NoSplit("missing_current_rate")
    ELSE IF Pending(s) \/ BuyLots(OrderedOf(trades, s)) = << >> THEN NoSplit("none")
    ELSE IF AverageBuyRate(s) = None THEN NoSplit("missing_historical_rate")
    ELSE PriceFxSplit(s, AverageBuyRate(s))

\* The summary's own sum over all rows, shown or not.
\* Mutant: a row without a rate for a BUY is passed over in silence.
SummarySplitLenient ==
    LET priced  == {s \in Symbols : ~Pending(s)}
        foreign == {s \in priced : Currency[s] # Home}
        whole   == {s \in foreign : /\ RateNow(Currency[s]) # Missing
                                    /\ AverageBuyRate(s) # None}
    IN [warned |-> FALSE,
        price  |-> Plus(Sum([s \in priced \ foreign |-> Profit(s)]),
                        Sum([s \in whole |-> PriceFxSplit(s, AverageBuyRate(s)).price])),
        fx     |-> Sum([s \in whole |-> PriceFxSplit(s, AverageBuyRate(s)).fx])]

SummarySplit ==
    LET priced  == {s \in Symbols : ~Pending(s)}
        foreign == {s \in priced : Currency[s] # Home}
        rated   == {s \in foreign : RateNow(Currency[s]) # Missing}
        lots(s) == BuyLots(OrderedOf(trades, s))
        whole   == {s \in rated : lots(s) # << >> /\ AverageBuyRate(s) # None}
        warned  == \/ rated # foreign
                   \/ \E s \in rated : lots(s) # << >> /\ AverageBuyRate(s) = None
    IN IF warned THEN [warned |-> TRUE, price |-> None, fx |-> None]
       ELSE [warned |-> FALSE,
             price  |-> Plus(Sum([s \in priced \ foreign |-> Profit(s)]),
                             Sum([s \in whole |-> PriceFxSplit(s, AverageBuyRate(s)).price])),
             fx     |-> Sum([s \in whole |-> PriceFxSplit(s, AverageBuyRate(s)).fx])]

(***************************************************************************)
(* The summary.  `cash` maps currencies to net cash; what is not positive  *)
(* counts as no cash.                                                      *)
(***************************************************************************)
Held(cash)  == {c \in DOMAIN cash : cash[c] > 0}
Priced      == {s \in Symbols : ~Pending(s)}

InPlay(cash) == {Currency[s] : s \in Priced} \cup Held(cash)

\* get_all_rates_for_conversion: no partial conversion.
RatesFor(cs) ==
    IF \E c \in cs : RateNow(c) = Missing THEN None ELSE [c \in cs |-> RateNow(c)]

InHome(cash, rates) ==
    Plus(Sum([s \in Priced |-> Scale(rates[Currency[s]], Value(s))]),
         Sum([c \in Held(cash) |-> Whole(cash[c] * rates[c])]))

\* converted_total_value and converted_total_cost, or None.
ConvertedTotals(cash) ==
    LET all   == {Currency[s] : s \in Symbols} \cup Held(cash)
        rates == RatesFor(all)
    IN IF InPlay(cash) = {} \/ rates = None THEN None
       ELSE [total |-> InHome(cash, rates),
             cost  |-> Sum([s \in Symbols |-> Scale(rates[Currency[s]], Position(s).cost)])]

\* Mutant: an amount with a rate is taken as it is.
ToBaseNative(cash, amount, c) == amount

\* A slice of the allocation in the base currency; None drops it.
ToBase(cash, amount, c) ==
    LET rates == RatesFor(InPlay(cash))
    IN IF Cardinality(InPlay(cash)) <= 1 \/ c = Home THEN amount
       ELSE IF rates = None THEN None
       ELSE Scale(rates[c], amount)

Kept(x) == IF x = None THEN Zero ELSE x

Slices(cash) ==
    [b \in {AssetType[s] : s \in Priced} |->
         Sum([s \in {t \in Priced : AssetType[t] = b} |->
                  Kept(ToBase(cash, Value(s), Currency[s]))])]

CashSlice(cash) == Sum([c \in Held(cash) |-> Kept(ToBase(cash, Whole(cash[c]), c))])

\* round(pct, 2): hundredths of a percent, half to even.
Rounded(x) ==
    LET twice == (2 * x[1]) \div x[2]
        low   == x[1] \div x[2]
        half  == 2 * (x[1] % x[2]) = x[2]
    IN IF half THEN low + (low % 2) ELSE (twice + 1) \div 2

\* The allocation in hundredths of a percent; empty when nothing is worth
\* anything.
Allocation(cash) ==
    LET slices == Slices(cash)
        grand  == Plus(Sum(slices), CashSlice(cash))
        cashed == IF Positive(CashSlice(cash)) THEN {"cash"} ELSE {}
        slice(b) == IF b = "cash" THEN CashSlice(cash) ELSE slices[b]
    IN IF ~Positive(grand) THEN [b \in {} |-> 0]
       ELSE [b \in DOMAIN slices \cup cashed |->
                 Rounded(Scale(10000, Divide(slice(b), grand)))]

\* RebalanceService.suggest: what to move in or out of each bucket.  Target
\* weights are in hundredths of a percent too.
Suggestion(cash, target) ==
    LET totals  == ConvertedTotals(cash)
        total   == IF totals = None THEN Zero ELSE totals.total
        current == Allocation(cash)
        at(m, b) == IF b \in DOMAIN m THEN m[b] ELSE 0
    IN [b \in DOMAIN target \cup DOMAIN current |->
            Times(Over(at(target, b) - at(current, b), 10000), total)]

(***************************************************************************)
(* The history chart: one scan over the buckets, with a pointer into the   *)
(* trades and one into the prices of each symbol.                          *)
(***************************************************************************)
Ascending(S) ==
    [k \in 1 .. Cardinality(S) |-> CHOOSE d \in S : Cardinality({e \in S : e <= d}) = k]

\* list_price_points_for_symbols: from `since` on, and the last one before.
PricesSince(s, since) ==
    LET days == DOMAIN points[s]
        seed == {d \in days : d < since /\ \A e \in days : e < since => e <= d}
        kept == Ascending({d \in days : d >= since} \cup seed)
    IN [k \in DOMAIN kept |-> [at |-> kept[k], price |-> points[s][kept[k]]]]

\* _price_at: the pointer only moves forward.
Advance(prices, ptr, t) ==
    LET within == {k \in DOMAIN prices : prices[k].at <= t /\ k > ptr}
    IN IF within = {} THEN ptr ELSE Max(within)

PointPrice(prices, ptr) == IF ptr = 0 THEN Missing ELSE prices[ptr].price

\* Mutant: the last bucket is where the step falls.
BucketsUnclamped(start, end, step) ==
    LET n == IF start >= end THEN 0 ELSE (end - start) \div step
    IN [k \in 1 .. n + 1 |-> start + (k - 1) * step]

\* _generate_bucket_timestamps: the last one is clamped to `end`.
Buckets(start, end, step) ==
    LET n == IF start >= end THEN 0 ELSE ((end - start - 1) \div step) + 1
    IN Append([k \in 1 .. n |-> start + (k - 1) * step], end)

\* Mutant: a trade at the time of the bucket is left for the next bucket.
DueBefore(rows, t) == {i \in DOMAIN rows : rows[i].at < t}

Due(rows, t) == {i \in DOMAIN rows : rows[i].at <= t}

PosStep(pos, x) == [pos EXCEPT ![x.sym] = CostStep(@, x)]

ChartStep(acc, t, rows, prices) ==
    LET upTo == IF Due(rows, t) = {} THEN acc.done ELSE Max(Due(rows, t))
        pos  == FoldLeft(PosStep, acc.pos, SubSeq(rows, acc.done + 1, upTo))
        ptr  == [s \in Symbols |-> IF pos[s].qty > 0 THEN Advance(prices[s], acc.ptr[s], t)
                                   ELSE acc.ptr[s]]
        held == {s \in Symbols : pos[s].qty > 0}
        fx(s) == SnapshotAt(Currency[s], t)
        worth(s) == Scale(fx(s) * PointPrice(prices[s], ptr[s]), Whole(pos[s].qty))
    IN [done |-> upTo, pos |-> pos, ptr |-> ptr,
        out  |-> Append(acc.out, [at    |-> t,
                                  value |-> Sum([s \in held |-> worth(s)]),
                                  cost  |-> Sum([s \in held |-> Scale(fx(s), pos[s].cost)])])]

Chart(start, step) ==
    LET rows   == AllOrdered(trades)
        prices == [s \in Symbols |-> PricesSince(s, start)]
        begin  == [done |-> 0, pos |-> [s \in Symbols |-> NoPosition],
                   ptr |-> [s \in Symbols |-> 0], out |-> << >>]
    IN FoldLeft(LAMBDA acc, t : ChartStep(acc, t, rows, prices),
                begin, Buckets(start, clock, step)).out
=============================================================================
