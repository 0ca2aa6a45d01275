----------------------------- MODULE CostBasis -----------------------------
(***************************************************************************)
(* What a history of trades cost.  Three walks over the same rows: the     *)
(* moving average of the holdings table, the first-in-first-out lots and   *)
(* the average in won of the tax report.  A trade is a record with fields  *)
(* sym, type, qty, price and at; a history is a sequence of trades, the    *)
(* position being the primary key.                                         *)
(***************************************************************************)
EXTENDS Holdings, Filtering, Ratio

AllOrdered(hist) == InOrder(hist, DOMAIN hist)

OrderedOf(hist, s) == InOrder(hist, {i \in DOMAIN hist : hist[i].sym = s})

(***************************************************************************)
(* The moving average: a SELL takes its share of the running cost and what *)
(* exceeds the running quantity is ignored.                                *)
(***************************************************************************)
NoPosition == [qty |-> 0, cost |-> Zero, realized |-> Zero]

Bought(pos, x) ==
    [qty      |-> pos.qty + x.qty,
     cost     |-> Plus(pos.cost, Whole(x.qty * x.price)),
     realized |-> pos.realized]

\* Mutant: the cost is reduced by what the SELL brought in.
SoldAtPrice(pos, x) ==
    LET sold == IF x.qty <= pos.qty THEN x.qty ELSE pos.qty
        share == Over(sold * pos.cost[1], pos.qty * pos.cost[2])
    IN IF pos.qty = 0 THEN pos
       ELSE [qty      |-> pos.qty - sold,
             cost     |-> Minus(pos.cost, Whole(sold * x.price)),
             realized |-> Plus(pos.realized, Minus(Whole(sold * x.price), share))]

Sold(pos, x) ==
    LET sold == IF x.qty <= pos.qty THEN x.qty ELSE pos.qty
        share == Over(sold * pos.cost[1], pos.qty * pos.cost[2])
    IN IF pos.qty = 0 THEN pos
       ELSE [qty      |-> pos.qty - sold,
             cost     |-> Minus(pos.cost, share),
             realized |-> Plus(pos.realized, Minus(Whole(sold * x.price), share))]

CostStep(pos, x) == IF x.type = "BUY" THEN Bought(pos, x) ELSE Sold(pos, x)

\* The end of the walk; nothing held costs nothing.
Holding(ordered) ==
    LET end == FoldLeft(CostStep, NoPosition, ordered)
    IN IF end.qty <= 0 THEN [qty |-> 0, cost |-> Zero, realized |-> end.realized] ELSE end

\* Every BUY with what it cost, sold since or not.
BuyLots(ordered) == Keep(ordered, {x \in ToSet(ordered) : x.type = "BUY"})

(***************************************************************************)
(* The tax report.  `fx` maps a day to won per unit of the symbol's        *)
(* currency; a sale is [at, qty, proceeds, basis] in won.                  *)
(***************************************************************************)
Sale(x, fx, basis) ==
    [at |-> x.at, qty |-> x.qty, proceeds |-> x.qty * x.price * fx[x.at], basis |-> basis]

\* The lots left when q shares leave from the front.
LotsAfter(lots, q) ==
    LET upTo(i) == FoldLeft(LAMBDA sum, lot : sum + lot.qty, 0, SubSeq(lots, 1, i))
        left(i) == IF upTo(i) <= q THEN 0
                   ELSE IF upTo(i) - lots[i].qty >= q THEN lots[i].qty ELSE upTo(i) - q
        rest == [i \in DOMAIN lots |-> [lots[i] EXCEPT !.qty = left(i)]]
    IN Keep(rest, {lot \in ToSet(rest) : lot.qty > 0})

WonCost(lots, fx) ==
    FoldLeft(LAMBDA sum, lot : sum + lot.qty * lot.price * fx[lot.at], 0, lots)

\* Mutant: the lots sold in other years stay in the queue.
FifoStepThisYearOnly(acc, x, yearOf, year, fx) ==
    LET left == LotsAfter(acc.lots, x.qty)
    IN IF x.type = "BUY" THEN [acc EXCEPT !.lots = Append(@, x)]
       ELSE IF yearOf[x.at] # year THEN acc
       ELSE [lots  |-> left,
             sales |-> Append(acc.sales,
                              Sale(x, fx, Whole(WonCost(acc.lots, fx) - WonCost(left, fx))))]

FifoStep(acc, x, yearOf, year, fx) ==
    LET left == LotsAfter(acc.lots, x.qty)
    IN IF x.type = "BUY" THEN [acc EXCEPT !.lots = Append(@, x)]
       ELSE IF yearOf[x.at] # year THEN [acc EXCEPT !.lots = left]
       ELSE [lots  |-> left,
             sales |-> Append(acc.sales,
                              Sale(x, fx, Whole(WonCost(acc.lots, fx) - WonCost(left, fx))))]

SalesFifo(ordered, yearOf, year, fx) ==
    FoldLeft(LAMBDA acc, x : FifoStep(acc, x, yearOf, year, fx),
             [lots |-> << >>, sales |-> << >>], ordered).sales

\* The quantity is not capped: an oversold position goes negative, and a BUY
\* that does not bring it above zero leaves the average as it was.
AverageStep(acc, x, yearOf, year, fx) ==
    LET held == acc.qty + x.qty
        cost == Plus(Scale(acc.qty, acc.avg), Whole(x.qty * x.price * fx[x.at]))
        out  == [acc EXCEPT !.qty = @ - x.qty]
    IN IF x.type = "BUY"
         THEN [acc EXCEPT !.qty = held,
                          !.avg = IF held > 0 THEN Divide(cost, Whole(held)) ELSE @]
       ELSE IF yearOf[x.at] # year THEN out
       ELSE [out EXCEPT !.sales = Append(@, Sale(x, fx, Scale(x.qty, acc.avg)))]

SalesAverage(ordered, yearOf, year, fx) ==
    FoldLeft(LAMBDA acc, x : AverageStep(acc, x, yearOf, year, fx),
             [qty |-> 0, avg |-> Zero, sales |-> << >>], ordered).sales

SalesOf(method, ordered, yearOf, year, fx) ==
    IF method = "fifo" THEN SalesFifo(ordered, yearOf, year, fx)
    ELSE SalesAverage(ordered, yearOf, year, fx)

\* The report's total and the part above the deduction.
Gain(sales) ==
    FoldLeft(LAMBDA sum, s : Plus(sum, Minus(Whole(s.proceeds), s.basis)), Zero, sales)

Taxable(gross, deduction) ==
    IF Less(Whole(deduction), gross) THEN Minus(gross, Whole(deduction)) ELSE Zero
=============================================================================
