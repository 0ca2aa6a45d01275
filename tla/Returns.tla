------------------------------ MODULE Returns ------------------------------
(***************************************************************************)
(* What the portfolio earned: the value series every return is taken from, *)
(* cash flows, the time-weighted return, the flows the money-weighted      *)
(* return is solved for, and the readers built on the series (risk,        *)
(* benchmark, heatmap).  Root finding and annualising are left out.        *)
(***************************************************************************)
EXTENDS Valuation

CONSTANTS Window,       \* length of each fixed window, by its name
          YearOf,       \* time -> calendar year
          MonthEnd,     \* the last midnights of the months, in order
          Span          \* how far back the heatmap looks

ASSUME ReturnsAssumption ==
    /\ "1M" \in DOMAIN Window /\ \A name \in DOMAIN Window : Window[name] \in Nat
    /\ DOMAIN YearOf \subseteq Nat
    /\ \A t, u \in DOMAIN YearOf : YearOf[t] \in Nat /\ (t <= u => YearOf[t] <= YearOf[u])
    /\ MonthEnd \in Seq(Nat) \ {<< >>} /\ ToSet(MonthEnd) \subseteq DOMAIN YearOf
    /\ \A k, m \in DOMAIN MonthEnd : k < m => MonthEnd[k] < MonthEnd[m]
    /\ Span \in Nat

Periods == DOMAIN Window \cup {"YTD", "ALL"}

\* _compute_window: "ALL" starts with the first trade.
Start(period) ==
    IF period = "YTD" THEN Min({d \in DOMAIN YearOf : YearOf[d] = YearOf[clock]})
    ELSE IF period # "ALL" THEN clock - Window[period]
    ELSE IF trades = << >> THEN clock - Window["1M"]
    ELSE Min({trades[i].at : i \in DOMAIN trades})

InWindow(from) == {i \in DOMAIN trades : from <= trades[i].at /\ trades[i].at <= clock}

(***************************************************************************)
(* build_value_series: quantities are floored at zero, prices come from    *)
(* the chart's pointer, rates from convert_at; what has no price or rate   *)
(* adds nothing.                                                           *)
(***************************************************************************)
QtyStep(qty, x) ==
    [qty EXCEPT ![x.sym] = IF x.type = "BUY" THEN @ + x.qty
                           ELSE IF @ > x.qty THEN @ - x.qty ELSE 0]

SeriesStep(acc, t, rows, prices) ==
    LET upTo == IF Due(rows, t) = {} THEN acc.done ELSE Max(Due(rows, t))
        qty  == FoldLeft(QtyStep, acc.qty, SubSeq(rows, acc.done + 1, upTo))
        ptr  == [s \in Symbols |-> IF qty[s] > 0 THEN Advance(prices[s], acc.ptr[s], t)
                                   ELSE acc.ptr[s]]
        worth(s) == qty[s] * PointPrice(prices[s], ptr[s]) * RateAtHour(Currency[s], t)
    IN [done |-> upTo, qty |-> qty, ptr |-> ptr,
        out  |-> Append(acc.out, [at |-> t, value |-> SumFunction([s \in Symbols |-> worth(s)])])]

Series(days, since) ==
    LET rows   == AllOrdered(trades)
        prices == [s \in Symbols |-> PricesSince(s, since)]
        begin  == [done |-> 0, qty |-> [s \in Symbols |-> 0],
                   ptr |-> [s \in Symbols |-> 0], out |-> << >>]
    IN FoldLeft(LAMBDA acc, t : SeriesStep(acc, t, rows, prices), begin, days).out

(***************************************************************************)
(* extract_cashflows: BUY is negative, one flow a time.  The lookup raises *)
(* when a trade's rate is missing; nothing in get_performance catches it.  *)
(***************************************************************************)
FlowsRaise(from) ==
    \E i \in InWindow(from) : RateAtHour(Currency[trades[i].sym], trades[i].at) = Missing

Flow(i) ==
    LET x == trades[i]
    IN -(Signed(x) * x.price * RateAtHour(Currency[x.sym], x.at))

\* Mutant: a SELL leaves the portfolio like a BUY enters it.
FlowsUnsigned(from) ==
    LET days == {trades[i].at : i \in InWindow(from)}
        gross(i) == IF Flow(i) > 0 THEN -Flow(i) ELSE Flow(i)
    IN [d \in days |-> SumFunction([i \in {j \in InWindow(from) : trades[j].at = d} |-> gross(i)])]

Flows(from) ==
    LET days == {trades[i].at : i \in InWindow(from)}
    IN [d \in days |-> SumFunction([i \in {j \in InWindow(from) : trades[j].at = d} |-> Flow(i)])]

\* The times get_performance values: the flows' and both ends.
FlowDays(from) == Ascending(DOMAIN Flows(from) \cup {from, clock})

(***************************************************************************)
(* compute_twr: a chain over the flows after the start; the value at a     *)
(* flow already holds it.  None when an opening value is not positive.     *)
(* The result is the growth, 1 + TWR.                                      *)
(***************************************************************************)
\* Mutant: the flow is not taken out of the value it arrived with.
TwrStepGross(acc, d, value, flow) ==
    IF acc = None \/ acc.open <= 0 THEN None
    ELSE [open |-> value, growth |-> Times(acc.growth, Over(value, acc.open))]

TwrStep(acc, d, value, flow) ==
    IF acc = None \/ acc.open <= 0 THEN None
    ELSE [open   |-> value,
          growth |-> Times(acc.growth, Over(value + flow, acc.open))]

Twr(from) ==
    LET days   == FlowDays(from)
        series == Series(days, from)
        flows  == Flows(from)
        flow(d) == IF d \in DOMAIN flows THEN flows[d] ELSE 0
        step(acc, v) == TwrStep(acc, v.at, v.value, flow(v.at))
        end    == FoldLeft(step, [open |-> series[1].value, growth |-> One], Tail(series))
    IN IF Len(days) < 2 THEN One
       ELSE IF end = None \/ end.open <= 0 THEN None
       ELSE end.growth

\* compute_mwr solves for the rate at which these add up to nothing: the
\* opening value paid in, the flows, the closing value paid out.
MwrFlows(from) ==
    LET series == Series(FlowDays(from), from)
        flows  == Flows(from)
    IN [open  |-> -(IF series[1].value > 0 THEN series[1].value ELSE 0),
        flows |-> flows,
        close |-> series[Len(series)].value]

\* get_performance, as far as its outcome goes: the two ways it can end.
RatesNeeded(from) ==
    {<<Currency[trades[i].sym], trades[i].at>> : i \in InWindow(from)}
    \cup {<<Currency[trades[i].sym], d>> : i \in DOMAIN trades,
              d \in {trades[j].at : j \in InWindow(from)} \cup {from, clock}}

FxMissing(from) == \E p \in RatesNeeded(from) : RateAtHour(p[1], p[2]) = Missing

Performance(from) ==
    IF trades = << >> THEN [status |-> 200, warning |-> "no_activity_in_period", twr |-> None]
    ELSE IF FlowsRaise(from) THEN [status |-> 503, warning |-> "none", twr |-> None]
    ELSE IF FxMissing(from) THEN [status |-> 200, warning |-> "fx_rate_missing", twr |-> None]
    ELSE [status |-> 200, warning |-> "none", twr |-> Twr(from)]

(***************************************************************************)
(* Readers of the series: the worst fall of the daily values, the months   *)
(* and years of the heatmap.                                               *)
(***************************************************************************)
DrawdownStep(acc, v) ==
    LET fall == Over(acc.peak - v, acc.peak)
    IN IF v <= 0 THEN acc
       ELSE IF v > acc.peak THEN [peak |-> v, n |-> acc.n + 1, worst |-> acc.worst]
       ELSE [peak |-> acc.peak, n |-> acc.n + 1,
             worst |-> IF Less(acc.worst, fall) THEN fall ELSE acc.worst]

\* _max_drawdown: None with fewer than two samples above zero.
MaxDrawdown(values) ==
    LET end == FoldLeft(DrawdownStep, [peak |-> 0, n |-> 0, worst |-> Zero], values)
    IN IF end.n < 2 THEN None ELSE end.worst

\* _daily_grid: midnights only, so it ends with the last one before now.
DailyGrid(from) ==
    LET first == from \div DayLength
        last  == clock \div DayLength
    IN IF last <= first THEN <<Midnight(from), Midnight(clock)>>
       ELSE [k \in 1 .. last - first + 1 |-> DayLength * (first + k - 1)]

\* The month t falls in, and the months of the heatmap.
MonthOf(t) == Min({k \in DOMAIN MonthEnd : t < MonthEnd[k] + DayLength})
FirstMonth == MonthOf(clock - Span)

\* The end of the month before the first one, then the end of each month;
\* the last one is not over yet.
MonthGrid ==
    [k \in 1 .. MonthOf(clock) - FirstMonth + 2 |->
        LET end == MonthEnd[FirstMonth + k - 2] IN IF end < clock THEN end ELSE clock]

MonthGrowth(values) ==
    [k \in 1 .. Len(values) - 1 |->
        [year   |-> YearOf[MonthEnd[FirstMonth + k - 1]],
         growth |-> IF values[k] > 0 /\ values[k + 1] > 0
                      THEN Over(values[k + 1], values[k]) ELSE None]]

\* Mutant: the returns of the months are added up.
YearStepAdded(years, m) ==
    [years EXCEPT ![m.year] = IF @ = None \/ m.growth = None THEN None
                              ELSE Plus(@, Minus(m.growth, One))]

\* _yearly_compound: a month without a return leaves its year without one.
YearStep(years, m) ==
    [years EXCEPT ![m.year] = IF @ = None \/ m.growth = None THEN None ELSE Times(@, m.growth)]

YearGrowth(months) ==
    FoldLeft(YearStep, [y \in {months[k].year : k \in DOMAIN months} |-> One], months)

Values(days, since) ==
    LET series == Series(days, since) IN [k \in DOMAIN series |-> series[k].value]
=============================================================================
