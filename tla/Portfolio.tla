----------------------------- MODULE Portfolio -----------------------------
(***************************************************************************)
(* The tables the analytics read, as they grow with time: trades are       *)
(* entered, some of them late, the price job and the FX job store what     *)
(* they fetched.  The invariants relate the readers to each other and to   *)
(* reference definitions, on every history within the bounds.              *)
(***************************************************************************)
EXTENDS Returns

CONSTANTS Orders,                \* the trades that occur: [sym, type, qty, price]
          Quotes, Rates,         \* the prices, <<symbol, price>>, and the rates
          Instants, MaxRows,     \* bounds: times, rows in all the tables
          MaxLate,               \* how late a trade is entered
          CashCases, Targets     \* net cash and target weights to try

ASSUME PortfolioAssumption ==
    /\ IsFiniteSet(Symbols)
    /\ Orders \subseteq [sym : Symbols, type : {"BUY", "SELL"},
                         qty : Nat \ {0}, price : Nat \ {0}]
    /\ Quotes \subseteq Symbols \X (Nat \ {0})
    /\ Rates \subseteq Nat \ {0}
    /\ IsFiniteSet(Instants) /\ Instants # {} /\ 0 \notin Instants
    /\ Instants \subseteq DOMAIN YearOf /\ {MaxRows, MaxLate} \subseteq Nat
    /\ \A t \in Instants : /\ MonthEnd[1] + DayLength <= t - Span
                           /\ t < MonthEnd[Len(MonthEnd)] + DayLength
    /\ \A cash \in CashCases : IsFiniteSet(DOMAIN cash) /\ \A c \in DOMAIN cash : cash[c] \in Int
    /\ \A target \in Targets : \A b \in DOMAIN target : target[b] \in Nat

vars == <<clock, trades, points, rate, snaps>>

Init ==
    /\ clock = Min(Instants)
    /\ trades = << >>
    /\ points = [s \in Symbols |-> [d \in {} |-> Missing]]
    /\ rate = [value |-> Missing, at |-> 0]
    /\ snaps = [d \in {} |-> Missing]

Rows == Len(trades) + Cardinality(DOMAIN snaps)
        + MapThenSumSet(LAMBDA s : Cardinality(DOMAIN points[s]), Symbols)

\* TransactionService.add: a SELL within the totals, at any time up to now.
Trade(o, at) ==
    LET own == {i \in DOMAIN trades : trades[i].sym = o.sym}
    IN /\ Rows < MaxRows
       /\ at <= clock /\ at + MaxLate >= clock
       /\ o.type = "SELL" => o.qty <= MapThenSumSet(LAMBDA i : Signed(trades[i]), own)
       /\ trades' = Append(trades, [sym |-> o.sym, type |-> o.type, qty |-> o.qty,
                                    price |-> o.price, at |-> at])
       /\ UNCHANGED <<clock, points, rate, snaps>>

\* The row written at d, added or written over.
Put(table, d, v) ==
    [e \in DOMAIN table \cup {d} |-> IF e = d THEN v ELSE table[e]]

OtherDays(table) == {d \in DOMAIN table : Midnight(d) # Midnight(clock)}

\* The price job: one point a UTC day, which the last tick of the day
\* overwrites, its time included.
PriceTick(s, p) ==
    /\ Rows < MaxRows \/ OtherDays(points[s]) # DOMAIN points[s]
    /\ points' = [points EXCEPT ![s] = Put([d \in OtherDays(@) |-> @[d]], clock, p)]
    /\ UNCHANGED <<clock, trades, rate, snaps>>

\* Mutant: no snapshot when one was recorded at that time already.
FxTickOnce(v) ==
    /\ Rows < MaxRows \/ clock \in DOMAIN snaps
    /\ rate' = [value |-> v, at |-> clock]
    /\ snaps' = IF clock \in DOMAIN snaps THEN snaps ELSE Put(snaps, clock, v)
    /\ UNCHANGED <<clock, trades, points>>

\* FxRateService.refresh_all: the one row is overwritten, a snapshot is added.
FxTick(v) ==
    /\ Rows < MaxRows \/ clock \in DOMAIN snaps
    /\ rate' = [value |-> v, at |-> clock]
    /\ snaps' = Put(snaps, clock, v)
    /\ UNCHANGED <<clock, trades, points>>

TimePasses(t) ==
    /\ clock < t
    /\ clock' = t
    /\ UNCHANGED <<trades, points, rate, snaps>>

Next ==
    \/ \E o \in Orders, at \in Instants : Trade(o, at)
    \/ \E q \in Quotes : PriceTick(q[1], q[2])
    \/ \E v \in Rates : FxTick(v)
    \/ \E t \in Instants : TimePasses(t)

Spec == Init /\ [][Next]_vars

(***************************************************************************)
(* Properties.                                                             *)
(***************************************************************************)
Spent(ordered) ==
    SumFunction([i \in {k \in DOMAIN ordered : ordered[k].type = "BUY"} |->
                     ordered[i].qty * ordered[i].price])

\* What the walk let each SELL sell, from the quantity walk of Holdings.
Proceeds(ordered) ==
    SumFunction([i \in {k \in DOMAIN ordered : ordered[k].type = "SELL"} |->
                     ordered[i].price * (Walk(SubSeq(ordered, 1, i - 1))
                                         - Walk(SubSeq(ordered, 1, i)))])

(***************************************************************************)
(* Money is conserved by the moving average: what was spent and not yet    *)
(* earned back is either cost still on the books or realised, and the      *)
(* average stays between the cheapest and the dearest BUY.                 *)
(***************************************************************************)
CostConserved ==
    \A s \in Symbols :
        LET ordered == OrderedOf(trades, s)
            pos     == Position(s)
            paid    == {ordered[i].price : i \in {k \in DOMAIN ordered : ordered[k].type = "BUY"}}
        IN /\ Minus(pos.cost, pos.realized) = Whole(Spent(ordered) - Proceeds(ordered))
           /\ pos.qty > 0 => /\ ~Less(Divide(pos.cost, Whole(pos.qty)), Whole(Min(paid)))
                             /\ ~Less(Whole(Max(paid)), Divide(pos.cost, Whole(pos.qty)))

(***************************************************************************)
(* The tax report takes each won spent on shares as a cost exactly once:   *)
(* over a position that was never oversold and is closed, the costs of all *)
(* its sales, year by year, add up to all that was spent, by either        *)
(* method.                                                                 *)
(***************************************************************************)
WonRate(s) == [d \in Instants |-> IF TradeDateRate(Currency[s], d) # Missing
                                        THEN TradeDateRate(Currency[s], d)
                                      ELSE IF RateNow(Currency[s]) # Missing
                                        THEN RateNow(Currency[s]) ELSE 1]

Basis(method, s) ==
    LET ordered == OrderedOf(trades, s)
        years   == {YearOf[d] : d \in Instants}
        basis(y) == FoldLeft(LAMBDA sum, x : Plus(sum, x.basis), Zero,
                             SalesOf(method, ordered, YearOf, y, WonRate(s)))
    IN Sum([y \in years |-> basis(y)])

NeverOversold(ordered) ==
    \A i \in DOMAIN ordered :
        ordered[i].type = "SELL" => Walk(SubSeq(ordered, 1, i - 1)) >= ordered[i].qty

TaxBasisExhausted ==
    \A s \in Symbols :
        LET ordered == OrderedOf(trades, s)
        IN NeverOversold(ordered) /\ Walk(ordered) = 0 =>
               \A method \in {"fifo", "average"} :
                   Basis(method, s) = Whole(WonCost(BuyLots(ordered), WonRate(s)))

(***************************************************************************)
(* The chart's scan with its pointers gives at each bucket what the tables *)
(* say of that time on their own.                                          *)
(***************************************************************************)
AsOf(t) ==
    LET held(s) == Holding(InOrder(trades, {i \in DOMAIN trades :
                                                trades[i].sym = s /\ trades[i].at <= t}))
        fx(s)   == SnapshotAt(Currency[s], t)
    IN [at    |-> t,
        value |-> Sum([s \in Symbols |-> Whole(held(s).qty * LatestAt(points[s], t) * fx(s))]),
        cost  |-> Sum([s \in Symbols |-> Scale(fx(s), held(s).cost)])]

ChartIsPointwise ==
    \A p \in Periods, step \in {HourLength, DayLength} :
        LET chart == Chart(Start(p), step)
        IN \A k \in DOMAIN chart : chart[k] = AsOf(chart[k].at)

(***************************************************************************)
(* The chart ends with the totals of the summary, whatever the window.     *)
(* The daily series the benchmark and the risk figures are taken from has  *)
(* at each midnight the value the tables give that midnight, unless the    *)
(* one row of fx_rates is newer and its rate is missing; so it ends with   *)
(* the summary's total only if nothing was stored since the last midnight. *)
(***************************************************************************)
RatesFound(t) == \A s \in Symbols : RateAtHour(Currency[s], t) # Missing

QuietSince(t) ==
    /\ \A i \in DOMAIN trades : trades[i].at <= t
    /\ \A s \in Symbols : \A d \in DOMAIN points[s] : d <= t

Daily(p) == LET grid == DailyGrid(Start(p)) IN Series(grid, grid[1])

ReadersAgree ==
    LET totals == ConvertedTotals([c \in {} |-> 0])
    IN \A p \in Periods :
           LET end   == Last(Chart(Start(p), DayLength))
               daily == Daily(p)
           IN /\ totals # None => end.value = totals.total /\ end.cost = totals.cost
              /\ \A k \in DOMAIN daily :
                     RatesFound(daily[k].at) =>
                         Whole(daily[k].value) = AsOf(daily[k].at).value
              /\ totals # None /\ RatesFound(Midnight(clock)) /\ QuietSince(Midnight(clock)) =>
                     Whole(Last(daily).value) = totals.total

\* What it does not do: end with the summary's total whatever was stored
\* today (PortfolioMidnight.cfg shows the trace).
DailyEndsNow ==
    LET totals == ConvertedTotals([c \in {} |-> 0])
    IN totals # None => Whole(Last(Daily("ALL")).value) = totals.total

(***************************************************************************)
(* The time-weighted return is the market's: with one asset, bought and    *)
(* sold at its price of the day and never sold out, it is the asset's own  *)
(* price change, however much moved in and out.                            *)
(***************************************************************************)
AtMarket(from, s) ==
    /\ LatestAt(points[s], from) # Missing
    /\ \A i \in DOMAIN trades : /\ trades[i].sym = s
                                /\ trades[i].price = LatestAt(points[s], trades[i].at)
    /\ \A d \in from .. clock : AsOf(d).value # Zero

TwrIgnoresFlows ==
    \A p \in Periods, s \in {t \in Symbols : Currency[t] = Home} :
        LET from == Start(p)
        IN trades # << >> /\ from > 0 /\ AtMarket(from, s) =>
               Performance(from).twr = Over(LastPrice(s), LatestAt(points[s], from))

(***************************************************************************)
(* With prices that never moved, the flows of the money-weighted return    *)
(* add up to nothing, except that what was traded at the opening of the    *)
(* window is in the opening value and among the flows, and so paid twice.  *)
(***************************************************************************)
FlatPrices == \A s \in Symbols : \A d, e \in DOMAIN points[s] : points[s][d] = points[s][e]

MwrBalances ==
    \A p \in Periods, s \in {t \in Symbols : Currency[t] = Home} :
        LET from == Start(p)
            m    == MwrFlows(from)
            opening == IF from \in DOMAIN m.flows THEN m.flows[from] ELSE 0
        IN trades # << >> /\ FlatPrices /\ AtMarket(from, s) =>
               m.open + m.close + SumFunction(m.flows) = opening

(***************************************************************************)
(* Summary and rows split the profit into price and currency alike.        *)
(***************************************************************************)
SplitAgrees ==
    LET whole == {s \in Shown : ~Pending(s)}
    IN ~SummarySplit.warned =>
           /\ \A s \in whole : RowSplit(s).price # None
           /\ SummarySplit.price = Sum([s \in whole |-> RowSplit(s).price])
           /\ SummarySplit.fx = Sum([s \in whole |-> RowSplit(s).fx])

(***************************************************************************)
(* Moving what the rebalance suggestion says brings every bucket to its    *)
(* target weight of the total shown, within half a hundredth of a percent. *)
(***************************************************************************)
BucketValue(cash, b) ==
    IF b = "cash" THEN Sum([c \in Held(cash) |-> Whole(cash[c] * RateNow(c))])
    ELSE Sum([s \in {t \in Symbols : AssetType[t] = b} |->
                  Scale(RateNow(Currency[s]), Value(s))])

RebalanceReachesTarget ==
    \A cash \in CashCases, target \in Targets :
        LET totals == ConvertedTotals(cash)
            moves  == Suggestion(cash, target)
            slack  == Times(Over(1, 20000), totals.total)
        IN totals # None =>
               \A b \in DOMAIN moves :
                   LET goal == Times(Over(IF b \in DOMAIN target THEN target[b] ELSE 0, 10000),
                                     totals.total)
                       off  == Minus(Plus(BucketValue(cash, b), moves[b]), goal)
                   IN ~Less(slack, off) /\ ~Less(off, Minus(Zero, slack))

(***************************************************************************)
(* The drawdown of one pass is the worst fall between any two midnights.   *)
(* A year of the heatmap compounds to its change from the end of the month *)
(* before it (or the heatmap) to its last month, and has no return only    *)
(* when one of its months begins or ends with nothing.                     *)
(***************************************************************************)
WorstFall(values) ==
    LET pos == {k \in DOMAIN values : values[k] > 0}
        after == {Over(values[pair[1]] - values[pair[2]], values[pair[1]]) :
                      pair \in {q \in pos \X pos : q[1] <= q[2]}}
    IN CHOOSE x \in after : \A y \in after : ~Less(x, y)

RiskAndMonths ==
    /\ \A p \in Periods :
           LET grid  == DailyGrid(Start(p))
               daily == Values(grid, grid[1])
           IN MaxDrawdown(daily) # None => MaxDrawdown(daily) = WorstFall(daily)
    /\ LET values == Values(MonthGrid, MonthGrid[1])
           months == MonthGrowth(values)
           years  == YearGrowth(months)
       IN \A y \in DOMAIN years :
              LET its   == {k \in DOMAIN months : months[k].year = y}
                  empty == \E k \in its : values[k] = 0 \/ values[k + 1] = 0
              IN years[y] = IF empty THEN None ELSE Over(values[Max(its) + 1], values[Min(its)])

(***************************************************************************)
(* "If FX rates are missing for any required pair, twr/mwr are null and a  *)
(* 'fx_rate_missing' warning is returned (HTTP 200)" (the route's text).   *)
(* Violated: a rate missing for a trade in the window is a 503.            *)
(***************************************************************************)
PerformanceAnswers == \A p \in Periods : Performance(Start(p)).status = 200

TypeOK ==
    /\ clock \in Instants
    /\ \A i \in DOMAIN trades : trades[i].at <= clock
    /\ \A s \in Symbols : DOMAIN points[s] \subseteq 1 .. clock
    /\ rate.value = LatestAt(snaps, clock)
=============================================================================
