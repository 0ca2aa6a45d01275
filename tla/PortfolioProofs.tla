-------------------------- MODULE PortfolioProofs --------------------------
(***************************************************************************)
(* The analytics read tables that stay well formed; the books of the       *)
(* moving average lose no money and the tax report takes all of a closed   *)
(* position's cost once; the summary and the rows split the profit alike;  *)
(* the rebalance suggestion reaches its target; the chart and the return   *)
(* series say of every time what the tables say, where the rates allow it; *)
(* drawdown and years agree with their definitions; the returns of one     *)
(* asset bought and sold at its price are the asset's own.  All that for   *)
(* any symbols, prices, rates, orders, cash, targets and times, over the   *)
(* exact fractions whose laws DataInduction proves.                        *)
(***************************************************************************)
EXTENDS Portfolio, DataInduction

-----------------------------------------------------------------------------
(***************************************************************************)
(* The tables.                                                             *)
(***************************************************************************)
TradeRow == [sym : Symbols, type : {"BUY", "SELL"}, qty : Nat \ {0}, price : Nat \ {0},
             at : Nat \ {0}]

\* A table of prices or rates, by time.
IsQuotes(table) == \A d \in DOMAIN table : table[d] \in Nat \ {0}

Typed ==
    /\ trades \in Seq(TradeRow) /\ \A i \in DOMAIN trades : trades[i].at \in Instants
    /\ points = [s \in Symbols |-> points[s]] /\ \A s \in Symbols : IsQuotes(points[s])
    /\ IsQuotes(snaps) /\ DOMAIN snaps \subseteq 1 .. clock
    /\ rate.value \in Nat /\ rate.at \in 0 .. clock /\ \A d \in DOMAIN snaps : d <= rate.at

IInv == TypeOK /\ Typed

LEMMA InstantIsPositive == Instants \subseteq Nat \ {0}
  BY PortfolioAssumption, ReturnsAssumption

\* The newest entry of a table that ends at t.
LEMMA NewestNow ==
  ASSUME NEW table, NEW t \in Nat, DOMAIN table \subseteq 1 .. t
  PROVE  /\ \A u \in Nat : t <= u => LatestAt(table, u) = LatestAt(table, t)
         /\ t \in DOMAIN table => LatestAt(table, t) = table[t]
  <1> DEFINE past(k) == {d \in DOMAIN table : d <= k}
  <1>1. past(t) = DOMAIN table /\ \A u \in Nat : t <= u => past(u) = DOMAIN table
    OBVIOUS
  <1>2. \A u \in Nat : t <= u => LatestAt(table, u) = LatestAt(table, t)
    BY <1>1 DEF LatestAt
  <1>3. ASSUME t \in DOMAIN table PROVE LatestAt(table, t) = table[t]
    <2>1. Max(DOMAIN table) \in DOMAIN table /\ \A k \in DOMAIN table : k <= Max(DOMAIN table)
      <3>1. DOMAIN table \in SUBSET (1 .. t) /\ DOMAIN table # {}
        BY <1>3
      <3> QED BY <3>1, LargestMember
    <2>2. Max(DOMAIN table) \in 1 .. t /\ t <= Max(DOMAIN table)
      BY <1>3, <2>1
    <2>3. Max(DOMAIN table) = t
      BY <2>2
    <2> QED BY <1>1, <1>3, <2>3 DEF LatestAt
  <1> QED BY <1>2, <1>3

\* A row written into a table.
LEMMA Written ==
  ASSUME NEW table, NEW t \in Nat, NEW v \in Nat \ {0}, IsQuotes(table), DOMAIN table \subseteq 1 .. t, t > 0
  PROVE  LET new == Put(table, t, v)
         IN  IsQuotes(new) /\ DOMAIN new \subseteq 1 .. t /\ t \in DOMAIN new /\ new[t] = v
  <1> DEFINE new == Put(table, t, v)
  <1>1. /\ DOMAIN new = DOMAIN table \cup {t}
        /\ \A d \in DOMAIN table \cup {t} : new[d] = IF d = t THEN v ELSE table[d]
    BY DEF Put
  <1> HIDE DEF new
  <1> QED BY <1>1 DEF IsQuotes, new

LEMMA InitTyped == Init => IInv
  <1> SUFFICES ASSUME Init PROVE IInv
    OBVIOUS
  <1> USE DEF Init
  <1>1. Instants \subseteq Nat /\ Instants # {}
    BY InstantIsPositive, PortfolioAssumption
  <1>2. clock \in Instants /\ clock \in Nat
    <2>1. \E m \in Instants : \A x \in Instants : m <= x
      BY <1>1, SmallestMember
    <2>2. clock \in Instants
      BY <2>1 DEF Min
    <2> QED BY <1>1, <2>2
  <1>3. trades \in Seq(TradeRow) /\ DOMAIN trades = {}
    OBVIOUS
  <1>4. \A s \in Symbols : DOMAIN points[s] = {} /\ IsQuotes(points[s])
    BY DEF IsQuotes
  <1>5. DOMAIN snaps = {} /\ IsQuotes(snaps)
    BY DEF IsQuotes
  <1>6. rate.value = Missing /\ rate.at = 0 /\ Missing = 0
    BY DEF Missing
  <1>7. LatestAt(snaps, clock) = Missing
    BY <1>5 DEF LatestAt
  <1>8. points = [s \in Symbols |-> points[s]]
    OBVIOUS
  <1> QED BY <1>2, <1>3, <1>4, <1>5, <1>6, <1>7, <1>8 DEF IInv, TypeOK, Typed

LEMMA TradeTyped ==
  ASSUME IInv, NEW o \in Orders, NEW at \in Instants, Trade(o, at)
  PROVE  IInv'
  <1>1. /\ trades \in Seq(TradeRow) /\ at \in Nat \ {0}
        /\ \A i \in DOMAIN trades : trades[i].at <= clock /\ trades[i].at \in Instants
    BY InstantIsPositive DEF IInv, TypeOK, Typed
  <1> DEFINE x == [sym |-> o.sym, type |-> o.type, qty |-> o.qty, price |-> o.price, at |-> at]
  <1>2. trades' = Append(trades, x) /\ at <= clock /\ UNCHANGED <<clock, points, rate, snaps>>
    BY DEF Trade
  <1>3. x \in TradeRow /\ x.at = at
    <2>1. o \in [sym : Symbols, type : {"BUY", "SELL"}, qty : Nat \ {0}, price : Nat \ {0}]
      BY PortfolioAssumption
    <2>2. o.sym \in Symbols /\ o.type \in {"BUY", "SELL"} /\ o.qty \in Nat \ {0} /\ o.price \in Nat \ {0}
      BY <2>1
    <2> QED BY <1>1, <2>2 DEF TradeRow
  <1> HIDE DEF x
  <1>4. trades' \in Seq(TradeRow) /\ \A i \in DOMAIN trades' : trades'[i].at <= clock /\ trades'[i].at \in Instants
    BY <1>1, <1>2, <1>3
  <1>5. clock' = clock /\ points' = points /\ rate' = rate /\ snaps' = snaps
    BY <1>2
  <1> QED BY <1>4, <1>5 DEF IInv, TypeOK, Typed, LatestAt

LEMMA PriceTickTyped ==
  ASSUME IInv, NEW q \in Quotes, PriceTick(q[1], q[2])
  PROVE  IInv'
  <1>1. clock \in Nat /\ clock > 0
    BY InstantIsPositive DEF IInv, TypeOK
  <1>2. q[1] \in Symbols /\ q[2] \in Nat \ {0}
    <2>1. q \in Symbols \X (Nat \ {0})
      BY PortfolioAssumption
    <2> QED BY <2>1
  <1> DEFINE s == q[1]
             p == q[2]
             old == [d \in OtherDays(points[s]) |-> points[s][d]]
             new == Put(old, clock, p)
  <1> HIDE DEF s, p
  <1>3. points' = [points EXCEPT ![s] = new] /\ UNCHANGED <<clock, trades, rate, snaps>>
    BY DEF PriceTick, s, p
  <1>4. \A t \in Symbols : IsQuotes(points[t]) /\ DOMAIN points[t] \subseteq 1 .. clock
    BY DEF IInv, TypeOK, Typed
  <1>5. IsQuotes(new) /\ DOMAIN new \subseteq 1 .. clock
    <2>1. DOMAIN old \subseteq DOMAIN points[s] /\ \A d \in DOMAIN old : old[d] = points[s][d]
      BY DEF OtherDays
    <2> HIDE DEF old
    <2>2. s \in Symbols /\ p \in Nat \ {0}
      BY <1>2 DEF s, p
    <2>3. IsQuotes(points[s]) /\ DOMAIN points[s] \subseteq 1 .. clock
      BY <1>4, <2>2
    <2>4. IsQuotes(old) /\ DOMAIN old \subseteq 1 .. clock
      BY <2>1, <2>3 DEF IsQuotes
    <2> QED BY <1>1, <2>2, <2>4, Written
  <1>6. points = [t \in Symbols |-> points[t]]
    BY DEF IInv, Typed
  <1> HIDE DEF new
  <1>7. /\ points' = [t \in Symbols |-> points'[t]]
        /\ \A t \in Symbols : points'[t] = IF t = s THEN new ELSE points[t]
    BY <1>2, <1>3, <1>6 DEF s
  <1>8. clock' = clock /\ trades' = trades /\ rate' = rate /\ snaps' = snaps
    BY <1>3
  <1>9. \A t \in Symbols : IsQuotes(points'[t]) /\ DOMAIN points'[t] \subseteq 1 .. clock
    BY <1>4, <1>5, <1>7
  <1> QED BY <1>7, <1>8, <1>9 DEF IInv, TypeOK, Typed, LatestAt

LEMMA FxTickTyped ==
  ASSUME IInv, NEW v \in Rates, FxTick(v)
  PROVE  IInv'
  <1>1. clock \in Nat /\ clock > 0 /\ v \in Nat \ {0}
    BY PortfolioAssumption, InstantIsPositive DEF IInv, TypeOK
  <1> DEFINE new == Put(snaps, clock, v)
  <1>2. snaps' = new /\ rate' = [value |-> v, at |-> clock] /\ UNCHANGED <<clock, trades, points>>
    BY DEF FxTick
  <1>3. IsQuotes(new) /\ DOMAIN new \subseteq 1 .. clock /\ clock \in DOMAIN new /\ new[clock] = v
    BY <1>1, Written DEF IInv, Typed
  <1>4. LatestAt(new, clock) = v
    <2> HIDE DEF new
    <2> QED BY <1>1, <1>3, NewestNow
  <1> HIDE DEF new
  <1>5. rate'.value = v /\ rate'.at = clock /\ \A d \in DOMAIN snaps' : d <= rate'.at
    BY <1>1, <1>2, <1>3
  <1>6. clock' = clock /\ trades' = trades /\ points' = points
    BY <1>2
  <1>7. LatestAt(snaps', clock') = v /\ LatestAt(snaps, clock)' = LatestAt(snaps', clock')
    BY <1>2, <1>4, <1>6 DEF LatestAt
  <1> QED BY <1>1, <1>2, <1>3, <1>5, <1>6, <1>7 DEF IInv, TypeOK, Typed

LEMMA TimePassesTyped ==
  ASSUME IInv, NEW t \in Instants, TimePasses(t)
  PROVE  IInv'
  <1>1. clock \in Nat /\ t \in Nat
    BY InstantIsPositive DEF IInv, TypeOK
  <1>2. clock' = t /\ clock < t /\ UNCHANGED <<trades, points, rate, snaps>>
    BY DEF TimePasses
  <1>3. trades' = trades /\ points' = points /\ rate' = rate /\ snaps' = snaps
    BY <1>2
  <1>4. LatestAt(snaps', clock') = LatestAt(snaps, clock) /\ LatestAt(snaps, clock)' = LatestAt(snaps', clock')
    <2>1. LatestAt(snaps, t) = LatestAt(snaps, clock)
      BY <1>1, <1>2, NewestNow DEF IInv, Typed
    <2> QED BY <1>2, <1>3, <2>1 DEF LatestAt
  <1>5. \A i \in DOMAIN trades : trades[i].at <= clock'
    <2>1. \A i \in DOMAIN trades : trades[i].at <= clock /\ trades[i].at \in Nat
      BY InstantIsPositive DEF IInv, TypeOK, Typed
    <2> QED BY <1>1, <1>2, <2>1
  <1>6. 1 .. clock \subseteq 1 .. clock' /\ 0 .. clock \subseteq 0 .. clock'
    BY <1>1, <1>2
  <1> QED BY <1>2, <1>3, <1>4, <1>5, <1>6 DEF IInv, TypeOK, Typed

LEMMA NextTyped == IInv /\ [Next]_vars => IInv'
  <1> SUFFICES ASSUME IInv, [Next]_vars PROVE IInv'
    OBVIOUS
  <1>1. CASE \E o \in Orders, at \in Instants : Trade(o, at)
    BY <1>1, TradeTyped
  <1>2. CASE \E q \in Quotes : PriceTick(q[1], q[2])
    BY <1>2, PriceTickTyped
  <1>3. CASE \E v \in Rates : FxTick(v)
    BY <1>3, FxTickTyped
  <1>4. CASE \E t \in Instants : TimePasses(t)
    BY <1>4, TimePassesTyped
  <1>5. CASE UNCHANGED vars
    BY <1>5 DEF vars, IInv, TypeOK, Typed, LatestAt
  <1> QED BY <1>1, <1>2, <1>3, <1>4, <1>5 DEF Next

(***************************************************************************)
(* The tables hold what their columns allow, nothing in them is dated      *)
(* after now, and the one row of fx_rates is the newest snapshot: a        *)
(* refresh never changes one without the other.                            *)
(***************************************************************************)
THEOREM Invariance == Spec => []IInv
  <1> QED BY InitTyped, NextTyped, PTL DEF Spec

(***************************************************************************)
(* The type invariant of the run, for every symbol, price, rate and order. *)
(***************************************************************************)
THEOREM TypeCorrect == Spec => []TypeOK
  <1>1. IInv => TypeOK
    BY DEF IInv
  <1> QED BY <1>1, Invariance, PTL

-----------------------------------------------------------------------------
(***************************************************************************)
(* The moving average.                                                     *)
(***************************************************************************)
Books == [qty : Nat, cost : Fractions, realized : Fractions]

\* The running books of the walk Holding is computed by.
CostWalk(s) == FoldLeft(CostStep, NoPosition, s)

IsCostWalk(h, d) ==
    h = [w \in SUBSET DOMAIN d |->
            IF w = {} THEN NoPosition ELSE CostStep(h[w \ {Max(w)}], d[Max(w)])]

LEMMA CostWalkIsWalk == \A d : CostWalk(d) = (CHOOSE h : IsCostWalk(h, d))[DOMAIN d]
  BY DEF CostWalk, FoldLeft, MapThenFoldSet, IsCostWalk

\* What a SELL takes out of books that hold something, and leaves in them.
LEMMA SoldParts ==
  ASSUME NEW b \in Books, NEW x \in TradeRow, b.qty # 0
  PROVE  LET sold == IF x.qty <= b.qty THEN x.qty ELSE b.qty
             share == Over(sold * b.cost[1], b.qty * b.cost[2])
             worth == Whole(sold * x.price)
         IN  /\ sold \in 1 .. b.qty /\ sold * x.price \in Int /\ share \in Fractions /\ worth \in Fractions
             /\ Sold(b, x) = [qty |-> b.qty - sold, cost |-> Minus(b.cost, share),
                              realized |-> Plus(b.realized, Minus(worth, share))]
             /\ Minus(b.cost, share) = Over((b.qty - sold) * b.cost[1], b.qty * b.cost[2])
  <1> DEFINE sold == IF x.qty <= b.qty THEN x.qty ELSE b.qty
             share == Over(sold * b.cost[1], b.qty * b.cost[2])
             worth == Whole(sold * x.price)
             q == b.qty
             c1 == b.cost[1]
             c2 == b.cost[2]
  <1>1. /\ q \in Denominators /\ q \in Nat /\ q > 0 /\ b.cost \in Fractions /\ b.realized \in Fractions
        /\ x.qty \in Nat \ {0} /\ x.price \in Nat \ {0}
    BY DEF Books, TradeRow, Denominators
  <1>2. c1 \in Int /\ c2 \in Denominators /\ c2 \in Nat /\ b.cost = Over(c1, c2)
    BY <1>1, FractionParts
  <1>3. sold \in 1 .. q /\ sold \in Int
    BY <1>1
  <1> HIDE DEF sold, q, c1, c2
  <1>4. sold * c1 \in Int /\ q * c2 \in Denominators /\ sold * x.price \in Int /\ q - sold \in Int
    <2>1. q * c2 \in Denominators
      BY <1>1, <1>2, ProductOfDenominators
    <2>2. x.price \in Int
      BY <1>1
    <2>3. sold * x.price \in Int
      BY <1>3, <2>2
    <2> QED BY <1>1, <1>2, <1>3, <2>1, <2>3
  <1>5. share \in Fractions /\ worth \in Fractions
    BY <1>4, OverType, WholeIsOver DEF c1, c2, q
  <1>6. Sold(b, x) = [qty |-> q - sold, cost |-> Minus(b.cost, share),
                      realized |-> Plus(b.realized, Minus(worth, share))]
    BY DEF Sold, sold, q
  <1>7. Minus(b.cost, share) = Over((q - sold) * c1, q * c2)
    <2> DEFINE N == sold * c1
               D == q * c2
               M == (q - sold) * c1
    <2>1. N \in Int /\ D \in Denominators /\ M \in Int
      BY <1>2, <1>3, <1>4
    <2>2. c1 * D - N * c2 = c2 * M
      BY <1>1, <1>2, <1>3
    <2>3. share = Over(N, D)
      BY DEF c1, c2, q
    <2> HIDE DEF N, D, M, share
    <2>4. Minus(Over(c1, c2), Over(N, D)) = Over(c1 * D - N * c2, c2 * D)
      BY <1>2, <2>1, SumOfOvers
    <2>5. Over(c2 * M, c2 * D) = Over(M, D)
      BY <1>2, <2>1, OverScale
    <2> QED BY <1>2, <2>2, <2>3, <2>4, <2>5 DEF M, D
  <1> HIDE DEF share, worth
  <1> QED BY <1>3, <1>4, <1>5, <1>6, <1>7 DEF sold, share, worth, q, c1, c2

LEMMA CostStepType == \A b \in Books, x \in TradeRow : CostStep(b, x) \in Books
  <1> SUFFICES ASSUME NEW b \in Books, NEW x \in TradeRow PROVE CostStep(b, x) \in Books
    OBVIOUS
  <1>1. b.qty \in Nat /\ b.cost \in Fractions /\ b.realized \in Fractions /\ x.qty \in Nat /\ x.price \in Nat
    BY DEF Books, TradeRow
  <1>2. CASE x.type = "BUY"
    <2>1. x.qty * x.price \in Int
      BY <1>1
    <2>2. Plus(b.cost, Whole(x.qty * x.price)) \in Fractions
      BY <1>1, <2>1, WholeIsOver, PlusLaws
    <2>3. CostStep(b, x) = [qty |-> b.qty + x.qty, cost |-> Plus(b.cost, Whole(x.qty * x.price)),
                            realized |-> b.realized]
      BY <1>2 DEF CostStep, Bought
    <2> HIDE DEF Books
    <2>4. b.qty + x.qty \in Nat
      BY <1>1
    <2> QED BY <1>1, <2>2, <2>3, <2>4 DEF Books
  <1>3. CASE x.type # "BUY" /\ b.qty = 0
    BY <1>3 DEF CostStep, Sold
  <1>4. CASE x.type # "BUY" /\ b.qty # 0
    <2> DEFINE sold == IF x.qty <= b.qty THEN x.qty ELSE b.qty
               share == Over(sold * b.cost[1], b.qty * b.cost[2])
               worth == Whole(sold * x.price)
    <2>1. /\ sold \in 1 .. b.qty /\ share \in Fractions /\ worth \in Fractions
          /\ Sold(b, x) = [qty |-> b.qty - sold, cost |-> Minus(b.cost, share),
                           realized |-> Plus(b.realized, Minus(worth, share))]
      BY <1>4, SoldParts
    <2> HIDE DEF sold, share, worth
    <2>2. Minus(b.cost, share) \in Fractions /\ Plus(b.realized, Minus(worth, share)) \in Fractions
      BY <1>1, <2>1, FractionOperations, PlusLaws
    <2>3. b.qty - sold \in Nat
      BY <1>1, <2>1
    <2> QED BY <1>4, <2>1, <2>2, <2>3 DEF CostStep, Books
  <1> QED BY <1>2, <1>3, <1>4

LEMMA NothingHeld == NoPosition \in Books
  BY PlusLaws DEF NoPosition, Books

(***************************************************************************)
(* The moving average is a walk: after one more row the books are those of *)
(* the row before it with CostStep applied (calculate_holding's loop), and *)
(* they never hold less than nothing.                                      *)
(***************************************************************************)
THEOREM CostUnfold ==
  /\ CostWalk(<< >>) = NoPosition
  /\ \A s \in Seq(TradeRow) : CostWalk(s) \in Books
  /\ \A s \in Seq(TradeRow), x \in TradeRow : CostWalk(Append(s, x)) = CostStep(CostWalk(s), x)
  <1> DEFINE G == [p \in Books \X TradeRow |-> CostStep(p[1], p[2])]
  <1>1. \A b \in Books, x \in TradeRow : CostStep(b, x) \in Books /\ G[<<b, x>>] = CostStep(b, x)
    BY CostStepType
  <1>2. G \in [Books \X TradeRow -> Books]
    BY <1>1
  <1> HIDE DEF G
  <1>3. PICK f : FoldsBy(f, G, NoPosition, TradeRow, Books)
    BY <1>2, NothingHeld, SequenceFold
  <1>4. ASSUME NEW s \in Seq(TradeRow) PROVE CostWalk(s) = f[s]
    <2> DEFINE S == DOMAIN s
               c == [w \in SUBSET S |-> Max(w)]
               k == CHOOSE h : IsCostWalk(h, s)
    <2>1. IsFiniteSet(S) /\ \A w \in SUBSET S : w # {} => Max(w) \in w /\ c[w] = Max(w)
      BY LargestPlace
    <2>2. PICK h \in [SUBSET S -> Books] : IsSeqFold(h, s, G, NoPosition) /\ h[S] = f[s]
      BY <1>3 DEF FoldsBy
    <2>3. \A p \in S : s[p] \in TradeRow
      BY ElementOfSeq
    <2>4. ASSUME NEW w \in SUBSET S
          PROVE  h[w] = IF w = {} THEN NoPosition ELSE CostStep(h[w \ {Max(w)}], s[Max(w)])
      <3>1. h[w] = IF w = {} THEN NoPosition ELSE G[<<h[w \ {Max(w)}], s[Max(w)]>>]
        BY <2>2 DEF IsSeqFold
      <3>2. w # {} => h[w \ {Max(w)}] \in Books /\ s[Max(w)] \in TradeRow
        BY <2>1, <2>3
      <3> QED BY <1>1, <3>1, <3>2
    <2>5. IsCostWalk(h, s)
      <3>1. h = [w \in SUBSET S |-> h[w]]
        OBVIOUS
      <3> QED BY <2>4, <3>1 DEF IsCostWalk
    <2> HIDE DEF k
    <2>6. IsCostWalk(k, s)
      BY <2>5 DEF k
    <2>7. AgreeByStep(h, k, S, c)
      <3>1. {} \in SUBSET S /\ h[{}] = k[{}]
        BY <2>5, <2>6 DEF IsCostWalk
      <3>2. ASSUME NEW w \in SUBSET S, w # {}, h[w \ {c[w]}] = k[w \ {c[w]}] PROVE h[w] = k[w]
        <4>1. h[w \ {Max(w)}] = k[w \ {Max(w)}]
          BY <2>1, <3>2
        <4>2. h[w] = CostStep(h[w \ {Max(w)}], s[Max(w)])
          BY <2>4, <3>2
        <4>3. k[w] = CostStep(k[w \ {Max(w)}], s[Max(w)])
          BY <2>6, <3>2 DEF IsCostWalk
        <4> QED BY <4>1, <4>2, <4>3
      <3> HIDE DEF S, c
      <3> QED BY <2>1, <3>1, <3>2 DEF AgreeByStep
    <2>8. h[S] = k[S]
      <3> HIDE DEF S, c
      <3> QED BY <2>1, <2>7, SameFold
    <2> QED BY <2>2, <2>8, CostWalkIsWalk DEF k
  <1>5. << >> \in Seq(TradeRow) /\ \A s \in Seq(TradeRow), x \in TradeRow : Append(s, x) \in Seq(TradeRow)
    OBVIOUS
  <1>6. /\ f[<< >>] = NoPosition
        /\ \A s \in Seq(TradeRow) : f[s] \in Books
        /\ \A s \in Seq(TradeRow), x \in TradeRow : f[Append(s, x)] = CostStep(f[s], x)
    BY <1>1, <1>3 DEF FoldsBy
  <1> QED BY <1>4, <1>5, <1>6

\* The cost of what is held, at no less than lo and no more than hi a share.
CostWithin(b, lo, hi) ==
    ~Less(b.cost, Whole(lo * b.qty)) /\ ~Less(Whole(hi * b.qty), b.cost)

LEMMA CostWithinParts ==
  ASSUME NEW q \in Nat, NEW n \in Int, NEW d \in Denominators, NEW lo \in Nat, NEW hi \in Nat,
         NEW r
  PROVE  CostWithin([qty |-> q, cost |-> Over(n, d), realized |-> r], lo, hi)
           <=> (lo * q) * d <= n /\ n <= (hi * q) * d
  <1> DEFINE l == lo * q
             h == hi * q
  <1>1. l \in Int /\ h \in Int /\ d \in Nat
    BY DEF Denominators
  <1>2. CostWithin([qty |-> q, cost |-> Over(n, d), realized |-> r], lo, hi)
          <=> ~Less(Over(n, d), Whole(l)) /\ ~Less(Whole(h), Over(n, d))
    BY DEF CostWithin
  <1> HIDE DEF l, h
  <1>3. /\ Less(Over(n, d), Whole(l)) <=> n < l * d
        /\ Less(Whole(h), Over(n, d)) <=> h * d < n
    BY <1>1, CompareWhole
  <1>4. l * d \in Int /\ h * d \in Int
    BY <1>1
  <1> QED BY <1>2, <1>3, <1>4 DEF l, h

LEMMA BoughtWithin ==
  ASSUME NEW b \in Books, NEW x \in TradeRow, NEW lo \in Nat, NEW hi \in Nat,
         lo <= x.price, x.price <= hi, CostWithin(b, lo, hi)
  PROVE  CostWithin(Bought(b, x), lo, hi)
  <1>1. PICK q \in Nat, c \in Fractions, r \in Fractions : b = [qty |-> q, cost |-> c, realized |-> r]
    BY DEF Books
  <1> DEFINE n == c[1]
             d == c[2]
             w == x.qty * x.price
  <1>2. n \in Int /\ d \in Denominators /\ d \in Nat /\ d > 0 /\ c = Over(n, d)
    BY FractionParts
  <1>3. x.qty \in Nat /\ x.price \in Nat /\ w \in Nat
    BY DEF TradeRow
  <1>4. (lo * q) * d <= n /\ n <= (hi * q) * d
    BY <1>1, <1>2, CostWithinParts
  <1> HIDE DEF n, d
  <1>5. Plus(c, Whole(w)) = Over(n + w * d, d)
    <2>0. w \in Int /\ 1 \in Denominators
      BY <1>3 DEF Denominators
    <2> HIDE DEF w
    <2>1. Plus(Over(n, d), Over(w, 1)) = Over(n * 1 + w * d, d * 1) /\ Whole(w) = Over(w, 1)
      BY <1>2, <2>0, SumOfOvers, WholeIsOver
    <2>2. n * 1 + w * d = n + w * d /\ d * 1 = d
      BY <1>2, <2>0
    <2> QED BY <1>2, <2>1, <2>2
  <1>6. Bought(b, x) = [qty |-> q + x.qty, cost |-> Over(n + w * d, d), realized |-> r]
    BY <1>1, <1>5 DEF Bought
  <1>7. (lo * (q + x.qty)) * d <= n + w * d /\ n + w * d <= (hi * (q + x.qty)) * d
    <2>1. lo * x.qty <= w /\ w <= hi * x.qty
      BY <1>3
    <2>2. lo * x.qty \in Nat /\ hi * x.qty \in Nat
      BY <1>3
    <2>3. (lo * x.qty) * d <= w * d /\ w * d <= (hi * x.qty) * d
      <3>1. \A y, z \in Nat : y <= z => y * d <= z * d
        BY <1>2
      <3> HIDE DEF w
      <3> QED BY <1>3, <2>1, <2>2, <3>1
    <2>4. /\ (lo * (q + x.qty)) * d = (lo * q) * d + (lo * x.qty) * d
          /\ (hi * (q + x.qty)) * d = (hi * q) * d + (hi * x.qty) * d
      BY <1>2, <1>3
    <2>5. (lo * q) * d \in Int /\ (hi * q) * d \in Int /\ (lo * x.qty) * d \in Int
          /\ (hi * x.qty) * d \in Int /\ w * d \in Int
      BY <1>2, <1>3
    <2> HIDE DEF w
    <2> QED BY <1>2, <1>4, <2>3, <2>4, <2>5
  <1>8. q + x.qty \in Nat /\ n + w * d \in Int
    BY <1>2, <1>3
  <1> HIDE DEF w
  <1> QED BY <1>2, <1>6, <1>7, <1>8, CostWithinParts

LEMMA SoldWithin ==
  ASSUME NEW b \in Books, NEW x \in TradeRow, NEW lo \in Nat, NEW hi \in Nat,
         b.qty # 0, CostWithin(b, lo, hi)
  PROVE  /\ CostWithin(Sold(b, x), lo, hi)
         /\ Sold(b, x).qty = 0 => Sold(b, x).cost = Zero
  <1>1. PICK q \in Nat, c \in Fractions, r \in Fractions : b = [qty |-> q, cost |-> c, realized |-> r]
    BY DEF Books
  <1> DEFINE n == c[1]
             d == c[2]
             sold == IF x.qty <= b.qty THEN x.qty ELSE b.qty
             share == Over(sold * b.cost[1], b.qty * b.cost[2])
             worth == Whole(sold * x.price)
             gain == Plus(b.realized, Minus(worth, share))
             rest == q - sold
  <1>2. n \in Int /\ d \in Denominators /\ d \in Nat /\ d > 0 /\ c = Over(n, d)
    BY FractionParts
  <1>3. (lo * q) * d <= n /\ n <= (hi * q) * d
    BY <1>1, <1>2, CostWithinParts
  <1>4. /\ sold \in 1 .. b.qty
        /\ Sold(b, x) = [qty |-> b.qty - sold, cost |-> Minus(b.cost, share), realized |-> gain]
        /\ Minus(b.cost, share) = Over((b.qty - sold) * b.cost[1], b.qty * b.cost[2])
    BY SoldParts
  <1> HIDE DEF sold, share, worth, gain
  <1>5. Sold(b, x) = [qty |-> rest, cost |-> Over(rest * n, q * d), realized |-> gain]
    BY <1>1, <1>4
  <1>6. rest \in Nat /\ rest \in Int /\ q \in Denominators
    BY <1>1, <1>4 DEF Denominators
  <1> HIDE DEF rest, n, d
  <1>7. rest * n \in Int /\ q * d \in Denominators
    BY <1>2, <1>6, ProductOfDenominators
  <1>8. (lo * rest) * (q * d) <= rest * n /\ rest * n <= (hi * rest) * (q * d)
    <2>1. \A y, z \in Int : y <= z => rest * y <= rest * z
      <3> SUFFICES ASSUME NEW y \in Int, NEW z \in Int, y <= z PROVE rest * y <= rest * z
        OBVIOUS
      <3>1. z - y \in Nat /\ rest * (z - y) >= 0 /\ rest * (z - y) = rest * z - rest * y
        BY <1>6
      <3>2. rest * z \in Int /\ rest * y \in Int
        BY <1>6
      <3> QED BY <3>1, <3>2
    <2>2. (lo * q) * d \in Int /\ (hi * q) * d \in Int
      BY <1>2
    <2>3. rest * ((lo * q) * d) <= rest * n /\ rest * n <= rest * ((hi * q) * d)
      BY <1>2, <1>3, <2>1, <2>2
    <2>4. (lo * rest) * (q * d) = rest * ((lo * q) * d) /\ (hi * rest) * (q * d) = rest * ((hi * q) * d)
      BY <1>2, <1>6
    <2> QED BY <2>3, <2>4
  <1>9. CostWithin(Sold(b, x), lo, hi)
    <2> DEFINE N == rest * n
               D == q * d
    <2>1. N \in Int /\ D \in Denominators /\ (lo * rest) * D <= N /\ N <= (hi * rest) * D
      BY <1>7, <1>8
    <2> HIDE DEF N, D
    <2>2. CostWithin([qty |-> rest, cost |-> Over(N, D), realized |-> gain], lo, hi)
      BY <1>6, <2>1, CostWithinParts
    <2> QED BY <1>5, <2>2 DEF N, D
  <1>10. ASSUME rest = 0 PROVE Over(rest * n, q * d) = Zero
    <2> DEFINE D == q * d
    <2>1. D \in Denominators /\ rest * n = 0
      BY <1>2, <1>7, <1>10
    <2> HIDE DEF D
    <2>2. 0 * 1 = 0 * D /\ 0 \in Int /\ 1 \in Denominators
      BY <2>1 DEF Denominators
    <2>3. Over(0, D) = Over(0, 1)
      BY <2>1, <2>2, OverEqual
    <2>4. Over(0, 1) = Zero
      BY WholeIsOver DEF Zero
    <2> QED BY <2>1, <2>3, <2>4 DEF D
  <1> QED BY <1>5, <1>9, <1>10

\* The BUYs and the SELLs among the first m rows, what each cost or brought in.
BuysUpTo(s, m)  == {k \in 1 .. m : s[k].type = "BUY"}
SellsUpTo(s, m) == {k \in 1 .. m : s[k].type = "SELL"}
PaidAt(s)   == [i \in DOMAIN s |-> s[i].qty * s[i].price]
EarnedAt(s) == [i \in DOMAIN s |-> s[i].price * (Walk(SubSeq(s, 1, i - 1)) - Walk(SubSeq(s, 1, i)))]

NetSpent(s, m) == SumFunctionOnSet(PaidAt(s), BuysUpTo(s, m))
                  - SumFunctionOnSet(EarnedAt(s), SellsUpTo(s, m))

\* The books after m rows.
Balanced(s, m, lo, hi) ==
    LET b == CostWalk(SubSeq(s, 1, m))
    IN /\ b \in Books /\ b.qty = Walk(SubSeq(s, 1, m))
       /\ Minus(b.cost, b.realized) = Whole(NetSpent(s, m))
       /\ b.qty = 0 => b.cost = Zero
       /\ CostWithin(b, lo, hi)
       /\ b.qty # 0 => BuysUpTo(s, m) # {}

\* The walks step by step.
LEMMA WalkSteps ==
  ASSUME NEW s \in Seq(TradeRow)
  PROVE  /\ Walk(SubSeq(s, 1, 0)) = 0 /\ CostWalk(SubSeq(s, 1, 0)) = NoPosition
         /\ \A m \in 0 .. Len(s) : Walk(SubSeq(s, 1, m)) \in Int /\ CostWalk(SubSeq(s, 1, m)) \in Books
         /\ \A m \in 1 .. Len(s) :
              /\ Walk(SubSeq(s, 1, m)) = WalkStep(Walk(SubSeq(s, 1, m - 1)), s[m])
              /\ CostWalk(SubSeq(s, 1, m)) = CostStep(CostWalk(SubSeq(s, 1, m - 1)), s[m])
  <1>1. /\ SubSeq(s, 1, 0) = << >>
        /\ \A m \in 0 .. Len(s) : SubSeq(s, 1, m) \in Seq(TradeRow)
        /\ \A m \in 1 .. Len(s) : SubSeq(s, 1, m) = Append(SubSeq(s, 1, m - 1), s[m])
    BY EveryPrefix
  <1>2. \A x \in TradeRow : x.qty \in Int
    BY DEF TradeRow
  <1>3. /\ Walk(<< >>) = 0
        /\ \A d \in Seq(TradeRow) : Walk(d) \in Int
        /\ \A d \in Seq(TradeRow), x \in TradeRow : Walk(Append(d, x)) = WalkStep(Walk(d), x)
    BY <1>2, WalkUnfold
  <1>4. \A m \in 1 .. Len(s) : s[m] \in TradeRow /\ m - 1 \in 0 .. Len(s)
    BY ElementOfSeq
  <1>5. /\ CostWalk(<< >>) = NoPosition
        /\ \A d \in Seq(TradeRow) : CostWalk(d) \in Books
        /\ \A d \in Seq(TradeRow), x \in TradeRow : CostWalk(Append(d, x)) = CostStep(CostWalk(d), x)
    BY CostUnfold
  <1>6. /\ Walk(SubSeq(s, 1, 0)) = 0 /\ CostWalk(SubSeq(s, 1, 0)) = NoPosition
        /\ \A m \in 0 .. Len(s) : Walk(SubSeq(s, 1, m)) \in Int /\ CostWalk(SubSeq(s, 1, m)) \in Books
    BY <1>1, <1>3, <1>5
  <1>7. ASSUME NEW m \in 1 .. Len(s)
        PROVE  /\ Walk(SubSeq(s, 1, m)) = WalkStep(Walk(SubSeq(s, 1, m - 1)), s[m])
               /\ CostWalk(SubSeq(s, 1, m)) = CostStep(CostWalk(SubSeq(s, 1, m - 1)), s[m])
    <2> DEFINE d == SubSeq(s, 1, m - 1)
               x == s[m]
    <2>1. SubSeq(s, 1, m) = Append(d, x) /\ d \in Seq(TradeRow) /\ x \in TradeRow
      BY <1>1, <1>4
    <2> HIDE DEF d, x
    <2>2. Walk(Append(d, x)) = WalkStep(Walk(d), x) /\ CostWalk(Append(d, x)) = CostStep(CostWalk(d), x)
      BY <1>3, <1>5, <2>1
    <2> QED BY <2>1, <2>2 DEF d, x
  <1> QED BY <1>6, <1>7

LEMMA SumsTyped ==
  ASSUME NEW s \in Seq(TradeRow)
  PROVE  /\ \A i \in DOMAIN s : PaidAt(s)[i] \in Int /\ EarnedAt(s)[i] \in Int
         /\ \A m \in 0 .. Len(s) :
              /\ BuysUpTo(s, m) \subseteq DOMAIN s /\ SellsUpTo(s, m) \subseteq DOMAIN s
              /\ IsFiniteSet(BuysUpTo(s, m)) /\ IsFiniteSet(SellsUpTo(s, m))
              /\ SumFunctionOnSet(PaidAt(s), BuysUpTo(s, m)) \in Int
              /\ SumFunctionOnSet(EarnedAt(s), SellsUpTo(s, m)) \in Int
  <1>1. DOMAIN s = 1 .. Len(s) /\ Len(s) \in Nat /\ \A i \in DOMAIN s : s[i] \in TradeRow
    BY ElementOfSeq
  <1>2. ASSUME NEW i \in DOMAIN s PROVE PaidAt(s)[i] \in Int /\ EarnedAt(s)[i] \in Int
    <2>1. s[i].qty \in Nat /\ s[i].price \in Nat
      BY <1>1 DEF TradeRow
    <2>2. i \in 0 .. Len(s) /\ i - 1 \in 0 .. Len(s)
      BY <1>1
    <2>3. Walk(SubSeq(s, 1, i - 1)) \in Int /\ Walk(SubSeq(s, 1, i)) \in Int
      BY <2>2, WalkSteps
    <2>4. \A p, q \in Nat, v, w \in Int : p * q \in Int /\ p * (v - w) \in Int
      OBVIOUS
    <2> QED BY <2>1, <2>3, <2>4 DEF PaidAt, EarnedAt
  <1>3. ASSUME NEW m \in 0 .. Len(s)
        PROVE  /\ BuysUpTo(s, m) \subseteq DOMAIN s /\ SellsUpTo(s, m) \subseteq DOMAIN s
               /\ IsFiniteSet(BuysUpTo(s, m)) /\ IsFiniteSet(SellsUpTo(s, m))
    <2>1. BuysUpTo(s, m) \subseteq 1 .. m /\ SellsUpTo(s, m) \subseteq 1 .. m /\ IsFiniteSet(1 .. m)
      <3>1. m \in Int /\ 1 \in Int
        BY <1>1
      <3> QED BY <3>1, FS_Interval DEF BuysUpTo, SellsUpTo
    <2>2. 1 .. m \subseteq DOMAIN s
      BY <1>1
    <2> QED BY <2>1, <2>2, FS_Subset
  <1>4. ASSUME NEW m \in 0 .. Len(s)
        PROVE  /\ SumFunctionOnSet(PaidAt(s), BuysUpTo(s, m)) \in Int
               /\ SumFunctionOnSet(EarnedAt(s), SellsUpTo(s, m)) \in Int
    <2>1. /\ \A i \in BuysUpTo(s, m) : PaidAt(s)[i] \in Int
          /\ \A i \in SellsUpTo(s, m) : EarnedAt(s)[i] \in Int
      BY <1>2, <1>3
    <2> QED BY <1>3, <2>1, SumOnSet
  <1> QED BY <1>2, <1>3, <1>4

LEMMA BalancedStart ==
  ASSUME NEW s \in Seq(TradeRow), NEW lo \in Nat, NEW hi \in Nat
  PROVE  Balanced(s, 0, lo, hi)
  <1>1. Walk(SubSeq(s, 1, 0)) = 0 /\ CostWalk(SubSeq(s, 1, 0)) = NoPosition
    BY WalkSteps
  <1>2. NoPosition.qty = 0 /\ NoPosition.cost = Zero /\ NoPosition.realized = Zero
    BY DEF NoPosition
  <1>3. NetSpent(s, 0) = 0
    <2>1. BuysUpTo(s, 0) = {} /\ SellsUpTo(s, 0) = {}
      BY DEF BuysUpTo, SellsUpTo
    <2>2. SumFunctionOnSet(PaidAt(s), {}) = 0 /\ SumFunctionOnSet(EarnedAt(s), {}) = 0
      BY SumOnSet, FS_EmptySet
    <2> QED BY <2>1, <2>2 DEF NetSpent
  <1>4. Minus(Zero, Zero) = Zero
    BY DifferenceLaws, PlusLaws
  <1>5. CostWithin(NoPosition, lo, hi)
    <2>1. lo * 0 = 0 /\ hi * 0 = 0
      OBVIOUS
    <2>2. ~Less(Zero, Zero)
      BY DEF Less, Zero, Whole
    <2> QED BY <1>2, <2>1, <2>2 DEF CostWithin, Zero
  <1> QED BY <1>1, <1>2, <1>3, <1>4, <1>5, NothingHeld DEF Balanced, Zero

LEMMA BalancedStep ==
  ASSUME NEW s \in Seq(TradeRow), NEW lo \in Nat, NEW hi \in Nat, NEW m \in 1 .. Len(s),
         \A i \in DOMAIN s : s[i].type = "BUY" => lo <= s[i].price /\ s[i].price <= hi,
         Balanced(s, m - 1, lo, hi)
  PROVE  Balanced(s, m, lo, hi)
  <1> DEFINE b == CostWalk(SubSeq(s, 1, m - 1))
             x == s[m]
             B == BuysUpTo(s, m - 1)
             S == SellsUpTo(s, m - 1)
             spent == SumFunctionOnSet(PaidAt(s), B)
             earned == SumFunctionOnSet(EarnedAt(s), S)
  <1>1. m \in DOMAIN s /\ m \in 0 .. Len(s) /\ m - 1 \in 0 .. Len(s) /\ x \in TradeRow /\ m \in Nat
    BY ElementOfSeq
  <1>2. /\ CostWalk(SubSeq(s, 1, m)) = CostStep(b, x) /\ CostWalk(SubSeq(s, 1, m)) \in Books
        /\ Walk(SubSeq(s, 1, m)) = WalkStep(Walk(SubSeq(s, 1, m - 1)), x)
    BY <1>1, WalkSteps
  <1>3. /\ b \in Books /\ b.qty = Walk(SubSeq(s, 1, m - 1))
        /\ Minus(b.cost, b.realized) = Whole(spent - earned)
        /\ b.qty = 0 => b.cost = Zero
        /\ CostWithin(b, lo, hi)
        /\ b.qty # 0 => B # {}
    BY DEF Balanced, NetSpent
  <1>4. /\ B \subseteq DOMAIN s /\ S \subseteq DOMAIN s /\ IsFiniteSet(B) /\ IsFiniteSet(S)
        /\ spent \in Int /\ earned \in Int
        /\ \A i \in DOMAIN s : PaidAt(s)[i] \in Int /\ EarnedAt(s)[i] \in Int
    BY <1>1, SumsTyped
  <1>5. /\ x.type \in {"BUY", "SELL"} /\ x.qty \in Nat \ {0} /\ x.price \in Nat \ {0}
        /\ b.qty \in Nat /\ b.cost \in Fractions /\ b.realized \in Fractions
    BY <1>1, <1>3 DEF TradeRow, Books
  <1>6. PaidAt(s)[m] = x.qty * x.price
        /\ EarnedAt(s)[m] = x.price * (Walk(SubSeq(s, 1, m - 1)) - Walk(SubSeq(s, 1, m)))
    BY <1>1 DEF PaidAt, EarnedAt
  <1>7. m \notin B /\ m \notin S
    BY <1>1 DEF BuysUpTo, SellsUpTo
  <1>8. CASE x.type = "BUY"
    <2>1. BuysUpTo(s, m) = B \cup {m} /\ SellsUpTo(s, m) = S
      BY <1>1, <1>8 DEF BuysUpTo, SellsUpTo
    <2> DEFINE w == x.qty * x.price
    <2>2. w \in Int
      BY <1>5
    <2>3. NetSpent(s, m) = (spent - earned) + w
      <3>1. SumFunctionOnSet(PaidAt(s), B \cup {m}) = spent + PaidAt(s)[m]
        <4>1. PaidAt(s)[m] \in Int /\ \A i \in B : PaidAt(s)[i] \in Int
          BY <1>1, <1>4
        <4> QED BY <1>4, <1>7, <4>1, SumWith
      <3> HIDE DEF B, S, spent, earned, w
      <3>2. NetSpent(s, m) = (spent + w) - earned
        BY <1>6, <2>1, <3>1 DEF NetSpent, B, S, spent, earned, w
      <3> QED BY <1>4, <2>2, <3>2
    <2>4. CostWalk(SubSeq(s, 1, m)) = [qty |-> b.qty + x.qty, cost |-> Plus(b.cost, Whole(w)),
                                        realized |-> b.realized]
      BY <1>2, <1>8 DEF CostStep, Bought
    <2>5. Minus(Plus(b.cost, Whole(w)), b.realized) = Whole(NetSpent(s, m))
      <3> HIDE DEF w, spent, earned, b
      <3>1. Whole(w) \in Fractions /\ spent - earned \in Int
        BY <1>4, <2>2, WholeIsOver
      <3>2. Minus(Plus(b.cost, Whole(w)), b.realized) = Plus(Minus(b.cost, b.realized), Whole(w))
        BY <1>5, <3>1, DifferenceLaws
      <3>3. Plus(Whole(spent - earned), Whole(w)) = Whole((spent - earned) + w)
        BY <2>2, <3>1, WholeOperations
      <3> QED BY <1>3, <2>3, <3>2, <3>3
    <2>6. CostWithin(CostWalk(SubSeq(s, 1, m)), lo, hi)
      <3>1. lo <= x.price /\ x.price <= hi
        BY <1>1, <1>8
      <3>2. CostWithin(Bought(b, x), lo, hi)
        <4> HIDE DEF b, x
        <4> QED BY <1>1, <1>3, <3>1, BoughtWithin
      <3> QED BY <1>2, <1>8, <3>2 DEF CostStep
    <2>7. Walk(SubSeq(s, 1, m)) = b.qty + x.qty
      BY <1>2, <1>3, <1>8 DEF WalkStep
    <2>8. b.qty + x.qty # 0
      BY <1>5
    <2> HIDE DEF w, b
    <2> QED BY <1>2, <2>1, <2>4, <2>5, <2>6, <2>7, <2>8 DEF Balanced
  <1>9. CASE x.type # "BUY"
    <2>1. BuysUpTo(s, m) = B /\ SellsUpTo(s, m) = S \cup {m}
      BY <1>1, <1>5, <1>9 DEF BuysUpTo, SellsUpTo
    <2> DEFINE e == EarnedAt(s)[m]
    <2>2. NetSpent(s, m) = (spent - earned) - e /\ e \in Int
      <3>1. SumFunctionOnSet(EarnedAt(s), S \cup {m}) = earned + e
        <4>1. EarnedAt(s)[m] \in Int /\ \A i \in S : EarnedAt(s)[i] \in Int
          BY <1>1, <1>4
        <4> QED BY <1>4, <1>7, <4>1, SumWith
      <3>2. e \in Int
        BY <1>1, <1>4
      <3> HIDE DEF B, S, spent, earned, e
      <3>3. NetSpent(s, m) = spent - (earned + e)
        BY <2>1, <3>1 DEF NetSpent, B, S, spent, earned
      <3> QED BY <1>4, <3>2, <3>3
    <2>3. CASE b.qty = 0
      <3>1. CostWalk(SubSeq(s, 1, m)) = b /\ Walk(SubSeq(s, 1, m)) = b.qty
        BY <1>2, <1>3, <1>9, <2>3 DEF CostStep, Sold, WalkStep
      <3>2. e = 0
        <4>1. Walk(SubSeq(s, 1, m - 1)) = 0 /\ Walk(SubSeq(s, 1, m)) = 0 /\ x.price * (0 - 0) = 0
          BY <1>3, <1>5, <2>3, <3>1
        <4> QED BY <1>6, <4>1
      <3>3. NetSpent(s, m) = spent - earned
        <4> HIDE DEF e, spent, earned
        <4> QED BY <1>4, <2>2, <3>2
      <3> HIDE DEF e, spent, earned, b
      <3> QED BY <1>3, <2>1, <2>3, <3>1, <3>3 DEF Balanced
    <2>4. CASE b.qty # 0
      <3> DEFINE sold == IF x.qty <= b.qty THEN x.qty ELSE b.qty
                 share == Over(sold * b.cost[1], b.qty * b.cost[2])
                 worth == Whole(sold * x.price)
      <3>1. /\ sold \in 1 .. b.qty /\ sold * x.price \in Int /\ share \in Fractions /\ worth \in Fractions
            /\ Sold(b, x) = [qty |-> b.qty - sold, cost |-> Minus(b.cost, share),
                             realized |-> Plus(b.realized, Minus(worth, share))]
        BY <1>1, <1>3, <2>4, SoldParts
      <3>2. CostWithin(Sold(b, x), lo, hi) /\ (Sold(b, x).qty = 0 => Sold(b, x).cost = Zero)
        <4> HIDE DEF b, x
        <4> QED BY <1>1, <1>3, <2>4, SoldWithin
      <3>3. CostWalk(SubSeq(s, 1, m)) = Sold(b, x)
        BY <1>2, <1>9 DEF CostStep
      <3>4. Walk(SubSeq(s, 1, m)) = b.qty - sold
        BY <1>2, <1>3, <1>5, <1>9, <2>4 DEF WalkStep
      <3>5. e = sold * x.price
        <4>1. b.qty - (b.qty - sold) = sold
          BY <1>5, <3>1
        <4>2. Walk(SubSeq(s, 1, m - 1)) - Walk(SubSeq(s, 1, m)) = sold
          <5> HIDE DEF sold
          <5> QED BY <1>3, <3>4, <4>1
        <4>3. x.price * sold = sold * x.price
          BY <1>5, <3>1
        <4> HIDE DEF sold, b, x
        <4> QED BY <1>6, <4>2, <4>3
      <3> HIDE DEF sold, share
      <3>6. Minus(Minus(b.cost, share), Plus(b.realized, Minus(worth, share))) = Whole(NetSpent(s, m))
        <4>1. Minus(Minus(b.cost, share), Plus(b.realized, Minus(worth, share)))
                = Minus(Minus(b.cost, b.realized), worth)
          <5> HIDE DEF worth, b
          <5> QED BY <1>5, <3>1, DifferenceLaws
        <4>2. Minus(Whole(spent - earned), Whole(e)) = Whole((spent - earned) - e)
          <5> HIDE DEF spent, earned, e
          <5>1. spent - earned \in Int
            BY <1>4
          <5> QED BY <2>2, <5>1, WholeOperations
        <4>3. worth = Whole(e)
          BY <3>5
        <4> HIDE DEF spent, earned, e, worth, b
        <4> QED BY <1>3, <2>2, <4>1, <4>2, <4>3
      <3> HIDE DEF worth, b, e
      <3> QED BY <1>2, <1>3, <2>1, <2>4, <3>1, <3>2, <3>3, <3>4, <3>6 DEF Balanced
    <2> QED BY <2>3, <2>4
  <1> QED BY <1>8, <1>9

\* After every number of rows.
LEMMA BalancedThroughout ==
  ASSUME NEW s \in Seq(TradeRow), NEW lo \in Nat, NEW hi \in Nat,
         \A i \in DOMAIN s : s[i].type = "BUY" => lo <= s[i].price /\ s[i].price <= hi
  PROVE  \A m \in 0 .. Len(s) : Balanced(s, m, lo, hi)
  <1> DEFINE bad == {m \in 0 .. Len(s) : ~Balanced(s, m, lo, hi)}
  <1>1. SUFFICES ASSUME bad # {} PROVE FALSE
    OBVIOUS
  <1>2. PICK m \in bad : \A k \in bad : m <= k
    <2>1. bad \subseteq Nat
      OBVIOUS
    <2> HIDE DEF bad
    <2> QED BY <1>1, <2>1, SmallestMember
  <1>3. m # 0
    BY BalancedStart
  <1>4. m \in 1 .. Len(s) /\ m - 1 \in 0 .. Len(s)
    BY <1>3
  <1>5. Balanced(s, m - 1, lo, hi)
    BY <1>2, <1>4
  <1> QED BY <1>4, <1>5, BalancedStep

\* The trades of a symbol in order are trades.
LEMMA InOrderTyped ==
  ASSUME Typed, NEW ids \in SUBSET DOMAIN trades
  PROVE  InOrder(trades, ids) \in Seq(TradeRow) /\ IsFiniteSet(ids) /\ Dated(trades, ids)
  <1> DEFINE n == Cardinality(ids)
             c == InOrder(trades, ids)
  <1>1. trades \in Seq(TradeRow) /\ DOMAIN trades = 1 .. Len(trades) /\ Len(trades) \in Nat
    BY DEF Typed
  <1>2. \A i \in DOMAIN trades : trades[i] \in TradeRow
    BY <1>1, ElementOfSeq
  <1>3. IsFiniteSet(ids)
    <2>1. IsFiniteSet(1 .. Len(trades))
      BY <1>1, FS_Interval
    <2> QED BY <1>1, <2>1, FS_Subset
  <1>4. Dated(trades, ids)
    BY <1>1, <1>2 DEF Dated, TradeRow
  <1>5. /\ n \in Nat /\ DOMAIN c = 1 .. n /\ c = [p \in 1 .. n |-> c[p]]
        /\ \E h \in [1 .. n -> ids] : \A p \in 1 .. n : c[p] = trades[h[p]]
    <2>1. /\ n \in Nat /\ DOMAIN c = 1 .. n /\ c = [p \in 1 .. n |-> c[p]]
          /\ \E h \in [1 .. n -> ids] :
                /\ \A p \in 1 .. n : c[p] = trades[h[p]]
                /\ \A p, q \in 1 .. n : p < q => Precedes(trades, h[p], h[q])
                /\ {h[p] : p \in 1 .. n} = ids
      BY <1>3, <1>4, OrderedPlaces
    <2> QED BY <2>1
  <1>6. \A p \in 1 .. n : c[p] \in TradeRow
    <2>1. PICK h \in [1 .. n -> ids] : \A p \in 1 .. n : c[p] = trades[h[p]]
      BY <1>5
    <2> HIDE DEF n, c
    <2> QED BY <1>2, <2>1
  <1> HIDE DEF n, c
  <1>7. c \in Seq(TradeRow)
    BY <1>5, <1>6
  <1> QED BY <1>3, <1>4, <1>7 DEF c

LEMMA OrderedTyped ==
  ASSUME Typed, NEW s
  PROVE  OrderedOf(trades, s) \in Seq(TradeRow)
  BY InOrderTyped DEF OrderedOf

\* The amounts CostConserved sums are those of all the rows.
LEMMA NetSpentIsAll ==
  ASSUME NEW s \in Seq(TradeRow)
  PROVE  NetSpent(s, Len(s)) = Spent(s) - Proceeds(s)
  <1> DEFINE n == Len(s)
             B == {k \in DOMAIN s : s[k].type = "BUY"}
             S == {k \in DOMAIN s : s[k].type = "SELL"}
             f == [i \in B |-> s[i].qty * s[i].price]
             g == [i \in S |-> s[i].price * (Walk(SubSeq(s, 1, i - 1)) - Walk(SubSeq(s, 1, i)))]
  <1>1. B = BuysUpTo(s, n) /\ S = SellsUpTo(s, n) /\ n \in 0 .. Len(s)
    BY DEF BuysUpTo, SellsUpTo
  <1>2. IsFiniteSet(B) /\ IsFiniteSet(S) /\ B \subseteq DOMAIN s /\ S \subseteq DOMAIN s
    <2> HIDE DEF n
    <2> QED BY <1>1, SumsTyped
  <1>3. \A i \in DOMAIN s : PaidAt(s)[i] \in Int /\ EarnedAt(s)[i] \in Int
    BY SumsTyped
  <1>4. /\ \A i \in B : PaidAt(s)[i] \in Int /\ PaidAt(s)[i] = f[i]
        /\ \A i \in S : EarnedAt(s)[i] \in Int /\ EarnedAt(s)[i] = g[i]
    BY <1>3 DEF PaidAt, EarnedAt
  <1> HIDE DEF B, S
  <1>5. SumFunctionOnSet(PaidAt(s), B) = SumFunctionOnSet(f, B)
    <2> HIDE DEF f
    <2> QED BY <1>2, <1>4, SumOnSet
  <1>6. SumFunctionOnSet(EarnedAt(s), S) = SumFunctionOnSet(g, S)
    <2> HIDE DEF g
    <2> QED BY <1>2, <1>4, SumOnSet
  <1>7. Spent(s) = SumFunctionOnSet(f, B) /\ Proceeds(s) = SumFunctionOnSet(g, S)
    <2>1. DOMAIN f = B /\ DOMAIN g = S
      OBVIOUS
    <2>2. Spent(s) = SumFunction(f) /\ Proceeds(s) = SumFunction(g)
      BY DEF Spent, Proceeds, B, S
    <2> HIDE DEF f, g
    <2> QED BY <2>1, <2>2 DEF SumFunction, SumFunctionOnSet, FoldFunction
  <1> QED BY <1>1, <1>5, <1>6, <1>7 DEF NetSpent

\* The prices paid have a smallest and a largest.
LEMMA PaidExtremes ==
  ASSUME NEW s \in Seq(TradeRow)
  PROVE  LET paid == {s[i].price : i \in {k \in DOMAIN s : s[k].type = "BUY"}}
         IN  /\ paid \subseteq Nat
             /\ paid # {} => /\ Min(paid) \in paid /\ \A p \in paid : Min(paid) <= p
                             /\ Max(paid) \in paid /\ \A p \in paid : p <= Max(paid)
  <1> DEFINE B == {k \in DOMAIN s : s[k].type = "BUY"}
             paid == {s[i].price : i \in B}
  <1>1. paid \subseteq Nat
    <2>1. \A i \in DOMAIN s : s[i] \in TradeRow
      BY ElementOfSeq
    <2> QED BY <2>1 DEF TradeRow
  <1>2. IsFiniteSet(paid)
    <2>1. IsFiniteSet(DOMAIN s)
      BY LargestPlace
    <2>2. IsFiniteSet(B)
      BY <2>1, FS_Subset
    <2> DEFINE f == [i \in B |-> s[i].price]
    <2>3. f \in Surjection(B, paid)
      BY DEF Surjection
    <2> HIDE DEF B, f
    <2> QED BY <2>2, <2>3, FS_Surjection
  <1> HIDE DEF paid
  <1>3. ASSUME paid # {}
        PROVE  /\ Min(paid) \in paid /\ \A p \in paid : Min(paid) <= p
               /\ Max(paid) \in paid /\ \A p \in paid : p <= Max(paid)
    <2>1. \E m \in paid : \A p \in paid : m <= p
      BY <1>1, <1>3, SmallestMember
    <2>2. Min(paid) \in paid /\ \A p \in paid : Min(paid) <= p
      BY <2>1 DEF Min
    <2> QED BY <1>1, <1>2, <1>3, <2>2, LargestOfFinite
  <1> QED BY <1>1, <1>3 DEF paid

\* The average of the cost of a position, compared with a price.
LEMMA AverageWithin ==
  ASSUME NEW b \in Books, b.qty # 0, NEW lo \in Nat, NEW hi \in Nat, CostWithin(b, lo, hi)
  PROVE  /\ ~Less(Divide(b.cost, Whole(b.qty)), Whole(lo))
         /\ ~Less(Whole(hi), Divide(b.cost, Whole(b.qty)))
  <1>1. PICK q \in Nat, c \in Fractions, r \in Fractions : b = [qty |-> q, cost |-> c, realized |-> r]
    BY DEF Books
  <1> DEFINE n == c[1]
             d == c[2]
             D == d * q
  <1>2. n \in Int /\ d \in Denominators /\ d \in Nat /\ d > 0 /\ c = Over(n, d) /\ q \in Denominators
    BY <1>1, FractionParts DEF Denominators
  <1>3. (lo * q) * d <= n /\ n <= (hi * q) * d
    BY <1>1, <1>2, CostWithinParts
  <1>4. D \in Denominators
    BY <1>2, ProductOfDenominators
  <1>5. Divide(c, Whole(q)) = Over(n, D)
    BY <1>2 DEF Divide, Whole
  <1>6. lo * D <= n /\ n <= hi * D
    <2>1. lo * D = (lo * q) * d /\ hi * D = (hi * q) * d
      BY <1>2
    <2> QED BY <1>3, <2>1
  <1>7. lo * D \in Int /\ hi * D \in Int /\ lo \in Int /\ hi \in Int
    BY <1>2
  <1> HIDE DEF n, D
  <1>8. /\ Less(Over(n, D), Whole(lo)) <=> n < lo * D
        /\ Less(Whole(hi), Over(n, D)) <=> hi * D < n
    BY <1>2, <1>4, <1>7, CompareWhole
  <1> QED BY <1>1, <1>2, <1>5, <1>6, <1>7, <1>8

LEMMA ConservedOf ==
  ASSUME Typed, NEW sym
  PROVE  LET s    == OrderedOf(trades, sym)
             pos  == Position(sym)
             paid == {s[i].price : i \in {k \in DOMAIN s : s[k].type = "BUY"}}
         IN  /\ pos \in Books
             /\ Minus(pos.cost, pos.realized) = Whole(Spent(s) - Proceeds(s))
             /\ pos.qty > 0 => /\ ~Less(Divide(pos.cost, Whole(pos.qty)), Whole(Min(paid)))
                               /\ ~Less(Whole(Max(paid)), Divide(pos.cost, Whole(pos.qty)))
             /\ pos = CostWalk(s)
             /\ pos.qty = 0 => pos.cost = Zero
             /\ pos.qty # 0 => \E k \in DOMAIN s : s[k].type = "BUY"
  <1> DEFINE s    == OrderedOf(trades, sym)
             pos  == Position(sym)
             B    == {k \in DOMAIN s : s[k].type = "BUY"}
             paid == {s[i].price : i \in B}
             b    == CostWalk(s)
             lo   == IF paid = {} THEN 0 ELSE Min(paid)
             hi   == IF paid = {} THEN 0 ELSE Max(paid)
  <1>1. s \in Seq(TradeRow) /\ Len(s) \in Nat /\ DOMAIN s = 1 .. Len(s)
    <2>1. s \in Seq(TradeRow)
      BY OrderedTyped
    <2> HIDE DEF s
    <2> QED BY <2>1
  <1> HIDE DEF s
  <1>2. /\ paid \subseteq Nat
        /\ paid # {} => /\ Min(paid) \in paid /\ \A p \in paid : Min(paid) <= p
                        /\ Max(paid) \in paid /\ \A p \in paid : p <= Max(paid)
    BY <1>1, PaidExtremes
  <1>3. \A i \in DOMAIN s : s[i].type = "BUY" => s[i].price \in paid
    OBVIOUS
  <1>4. lo \in Nat /\ hi \in Nat /\ \A i \in DOMAIN s : s[i].type = "BUY" => lo <= s[i].price /\ s[i].price <= hi
    <2> HIDE DEF paid
    <2> QED BY <1>2, <1>3
  <1> HIDE DEF lo, hi
  <1>5. Balanced(s, Len(s), lo, hi)
    <2>1. Len(s) \in 0 .. Len(s)
      BY <1>1
    <2> QED BY <1>1, <1>4, <2>1, BalancedThroughout
  <1>6. SubSeq(s, 1, Len(s)) = s
    BY <1>1, EveryPrefix
  <1>7. /\ b \in Books /\ Minus(b.cost, b.realized) = Whole(NetSpent(s, Len(s)))
        /\ b.qty = 0 => b.cost = Zero
        /\ CostWithin(b, lo, hi)
        /\ b.qty # 0 => B # {}
    <2>1. BuysUpTo(s, Len(s)) = B
      BY <1>1 DEF BuysUpTo
    <2> QED BY <1>5, <1>6, <2>1 DEF Balanced
  <1>8. pos = b
    <2>1. pos = IF b.qty <= 0 THEN [qty |-> 0, cost |-> Zero, realized |-> b.realized] ELSE b
      BY DEF Position, Holding, CostWalk, s
    <2> HIDE DEF b, pos
    <2>2. PICK q \in Nat, c \in Fractions, r \in Fractions : b = [qty |-> q, cost |-> c, realized |-> r]
      BY <1>7 DEF Books
    <2>3. q <= 0 => q = 0 /\ c = Zero
      BY <1>7, <2>2
    <2>4. q = 0 /\ c = Zero => [qty |-> 0, cost |-> Zero, realized |-> b.realized] = b
      BY <2>2
    <2> QED BY <2>1, <2>2, <2>3, <2>4
  <1>9. NetSpent(s, Len(s)) = Spent(s) - Proceeds(s)
    BY <1>1, NetSpentIsAll
  <1>10. ASSUME b.qty > 0
         PROVE  /\ ~Less(Divide(b.cost, Whole(b.qty)), Whole(Min(paid)))
                /\ ~Less(Whole(Max(paid)), Divide(b.cost, Whole(b.qty)))
    <2>1. b.qty # 0
      BY <1>10
    <2>2. paid # {}
      BY <1>7, <2>1
    <2>3. lo = Min(paid) /\ hi = Max(paid)
      BY <2>2 DEF lo, hi
    <2> HIDE DEF b, paid
    <2>4. /\ ~Less(Divide(b.cost, Whole(b.qty)), Whole(lo))
          /\ ~Less(Whole(hi), Divide(b.cost, Whole(b.qty)))
      BY <1>4, <1>7, <2>1, AverageWithin
    <2> QED BY <2>3, <2>4
  <1> HIDE DEF pos, b, paid
  <1> QED BY <1>7, <1>8, <1>9, <1>10 DEF s, pos, paid, b

(***************************************************************************)
(* No money gets lost in calculate_holding: what was paid for the BUYs,    *)
(* less what the SELLs brought in, is the cost still held less the         *)
(* realized profit; and the average of what is held lies between the       *)
(* lowest and the highest price paid.                                      *)
(***************************************************************************)
THEOREM MoneyConserved == Spec => []CostConserved
  <1>1. IInv => CostConserved
    <2> SUFFICES ASSUME IInv, NEW sym \in Symbols
                 PROVE LET ordered == OrderedOf(trades, sym)
                           pos     == Position(sym)
                           paid    == {ordered[i].price : i \in {k \in DOMAIN ordered : ordered[k].type = "BUY"}}
                       IN /\ Minus(pos.cost, pos.realized) = Whole(Spent(ordered) - Proceeds(ordered))
                          /\ pos.qty > 0 => /\ ~Less(Divide(pos.cost, Whole(pos.qty)), Whole(Min(paid)))
                                            /\ ~Less(Whole(Max(paid)), Divide(pos.cost, Whole(pos.qty)))
      BY DEF CostConserved
    <2>1. Typed
      BY DEF IInv
    <2> QED BY <2>1, ConservedOf
  <1> QED BY <1>1, Invariance, PTL

-----------------------------------------------------------------------------
(***************************************************************************)
(* Prices, rates and the rows of the holdings table.                       *)
(***************************************************************************)
LEMMA SumIsTotal == \A f : Sum(f) = RatioSum(f, DOMAIN f)
  BY DEF Sum, RatioSum, FoldFunction

LEMMA LatestTyped ==
  ASSUME NEW table, NEW n \in Nat, NEW t, IsQuotes(table), DOMAIN table \subseteq 1 .. n
  PROVE  LatestAt(table, t) \in Nat
  <1> DEFINE past == {d \in DOMAIN table : d <= t}
  <1>1. ASSUME past # {} PROVE table[Max(past)] \in Nat
    <2>1. past \in SUBSET (1 .. n) /\ past \subseteq DOMAIN table
      OBVIOUS
    <2> HIDE DEF past
    <2>2. Max(past) \in past
      BY <1>1, <2>1, LargestMember
    <2> QED BY <2>1, <2>2 DEF IsQuotes
  <1> HIDE DEF past
  <1> QED BY <1>1 DEF LatestAt, Missing, past

LEMMA RatesTyped ==
  ASSUME IInv
  PROVE  /\ \A s \in Symbols : LastPrice(s) \in Nat
         /\ \A c : RateNow(c) \in Nat
         /\ \A c, t : SnapshotAt(c, t) \in Nat
  <1>1. clock \in Nat
    BY InstantIsPositive DEF IInv, TypeOK
  <1>2. \A s \in Symbols : LastPrice(s) \in Nat
    BY <1>1, LatestTyped DEF IInv, TypeOK, Typed, LastPrice
  <1>3. \A c : RateNow(c) \in Nat
    BY DEF IInv, Typed, RateNow
  <1>4. \A t : LatestAt(snaps, t) \in Nat
    BY <1>1, LatestTyped DEF IInv, Typed
  <1>5. \A c, t : SnapshotAt(c, t) \in Nat
    BY <1>4 DEF SnapshotAt
  <1> QED BY <1>2, <1>3, <1>5

\* The BUYs of a symbol: there are some whenever something is held.
LEMMA LotsFacts ==
  ASSUME Typed, NEW s
  PROVE  /\ BuyLots(OrderedOf(trades, s)) \in Seq(TradeRow)
         /\ Position(s).qty # 0 => BuyLots(OrderedOf(trades, s)) # << >>
  <1> DEFINE o == OrderedOf(trades, s)
             A == {x \in ToSet(o) : x.type = "BUY"}
             lots == BuyLots(o)
  <1>1. o \in Seq(TradeRow)
    BY OrderedTyped
  <1>2. Position(s).qty # 0 => \E k \in DOMAIN o : o[k].type = "BUY"
    BY ConservedOf
  <1> HIDE DEF o
  <1>3. lots = Keep(o, A)
    BY DEF BuyLots
  <1> HIDE DEF lots
  <1>4. lots \in Seq(TradeRow \cap A) /\ ToSet(lots) = ToSet(o) \cap A
    BY <1>1, <1>3, KeepMembers
  <1>5. lots \in Seq(TradeRow)
    <2> HIDE DEF A
    <2> QED BY <1>4
  <1>6. ASSUME Position(s).qty # 0 PROVE lots # << >>
    <2>1. PICK k \in DOMAIN o : o[k].type = "BUY"
      BY <1>2, <1>6
    <2>2. o[k] \in ToSet(o) /\ o[k] \in A
      BY <2>1 DEF ToSet
    <2>3. ToSet(lots) # {}
      BY <1>4, <2>2
    <2>4. ToSet(<< >>) = {}
      BY DEF ToSet
    <2> QED BY <2>3, <2>4
  <1> QED BY <1>5, <1>6 DEF lots, o

\* The average rate of the BUYs is a fraction, when there is one.
LEMMA AverageTyped ==
  ASSUME IInv, NEW s, AverageBuyRate(s) # None
  PROVE  AverageBuyRate(s) \in Fractions /\ BuyLots(OrderedOf(trades, s)) # << >>
  <1> DEFINE lots == BuyLots(OrderedOf(trades, s))
             at(x) == SnapshotAt(Currency[s], x.at)
             paid  == [i \in DOMAIN lots |-> lots[i].qty * lots[i].price]
             dear  == [i \in DOMAIN lots |-> paid[i] * at(lots[i])]
             D == DOMAIN lots
  <1>1. lots # << >> /\ AverageBuyRate(s) = Over(SumFunction(dear), SumFunction(paid))
    BY DEF AverageBuyRate
  <1>2. lots \in Seq(TradeRow) /\ IsFiniteSet(D)
    BY LotsFacts, LargestPlace DEF IInv
  <1>3. 1 \in D /\ \A i \in D : lots[i] \in TradeRow
    <2> HIDE DEF lots
    <2> QED BY <1>1, <1>2, ElementOfSeq
  <1>4. \A i \in D : paid[i] \in Nat /\ paid[i] > 0
    <2>1. \A p, q \in Nat \ {0} : p * q \in Nat /\ p * q > 0
      OBVIOUS
    <2>2. \A i \in D : lots[i].qty \in Nat \ {0} /\ lots[i].price \in Nat \ {0}
      BY <1>3 DEF TradeRow
    <2> HIDE DEF lots
    <2> QED BY <2>1, <2>2
  <1>5. \A i \in D : dear[i] \in Int
    <2>1. \A x : at(x) \in Nat
      BY RatesTyped
    <2>2. \A p, q \in Nat : p * q \in Int
      OBVIOUS
    <2>3. \A i \in D : dear[i] = paid[i] * at(lots[i])
      OBVIOUS
    <2> HIDE DEF lots, at, paid, dear
    <2> QED BY <1>4, <2>1, <2>2, <2>3
  <1>6. DOMAIN paid = D /\ DOMAIN dear = D
    OBVIOUS
  <1> HIDE DEF lots, at, paid, dear, D
  <1>7. SumFunction(paid) = SumFunctionOnSet(paid, D) /\ SumFunction(dear) = SumFunctionOnSet(dear, D)
    BY <1>6 DEF SumFunction, SumFunctionOnSet, FoldFunction
  <1>8. SumFunctionOnSet(dear, D) \in Int
    BY <1>2, <1>5, SumOnSet
  <1>9. SumFunctionOnSet(paid, D) \in Denominators
    <2> DEFINE R == D \ {1}
    <2>1. IsFiniteSet(R) /\ R \cup {1} = D /\ 1 \notin R /\ R \subseteq D
      BY <1>2, <1>3, FS_Subset
    <2> HIDE DEF R
    <2>2. SumFunctionOnSet(paid, R) \in Nat
      BY <1>4, <2>1, SumOfNaturals
    <2>3. paid[1] \in Int /\ \A y \in R : paid[y] \in Int
      BY <1>3, <1>4, <2>1
    <2>4. SumFunctionOnSet(paid, R \cup {1}) = SumFunctionOnSet(paid, R) + paid[1]
      BY <2>1, <2>3, SumWith
    <2>5. paid[1] \in Nat /\ paid[1] > 0
      BY <1>3, <1>4
    <2>6. SumFunctionOnSet(paid, D) = SumFunctionOnSet(paid, R) + paid[1]
      BY <2>1, <2>4
    <2>7. \A a, b \in Nat : b > 0 => a + b \in Nat \ {0}
      OBVIOUS
    <2> QED BY <2>2, <2>5, <2>6, <2>7 DEF Denominators
  <1> QED BY <1>1, <1>7, <1>8, <1>9, OverType DEF lots

LEMMA FractionIsSome == \A x \in Fractions : x # None
  BY DEF Fractions, None, Denominators

\* A priced row: its value and its profit are fractions, and nothing when
\* nothing is held.
LEMMA ProfitTyped ==
  ASSUME IInv, NEW s \in Symbols
  PROVE  /\ Position(s) \in Books /\ Position(s).qty \in Nat /\ Position(s).cost \in Fractions
         /\ Position(s).qty * LastPrice(s) \in Nat /\ Value(s) = Whole(Position(s).qty * LastPrice(s))
         /\ Value(s) \in Fractions /\ Profit(s) \in Fractions
         /\ Position(s).qty = 0 => Position(s).cost = Zero /\ Profit(s) = Zero /\ Value(s) = Zero
  <1> DEFINE q == Position(s).qty
             c == Position(s).cost
             w == q * LastPrice(s)
  <1>1. Position(s) \in Books /\ (Position(s).qty = 0 => Position(s).cost = Zero)
    BY ConservedOf DEF IInv
  <1>2. q \in Nat /\ c \in Fractions
    BY <1>1 DEF Books
  <1>3. w \in Nat /\ (q = 0 => w = 0)
    <2>1. LastPrice(s) \in Nat
      BY RatesTyped
    <2> HIDE DEF q
    <2> QED BY <1>2, <2>1
  <1>4. Value(s) = Whole(w) /\ Profit(s) = Minus(Whole(w), c)
    BY DEF Value, Profit
  <1> HIDE DEF q, c, w
  <1>5. Whole(w) \in Fractions
    BY <1>3, WholeIsOver
  <1>6. Minus(Whole(w), c) \in Fractions
    BY <1>2, <1>5, FractionOperations
  <1>7. ASSUME q = 0 PROVE c = Zero /\ Minus(Whole(w), c) = Zero /\ Whole(w) = Zero
    <2>1. c = Zero
      BY <1>1, <1>7 DEF q, c
    <2>2. Whole(w) = Zero
      BY <1>3, <1>7 DEF Zero
    <2> QED BY <2>1, <2>2, DifferenceLaws, PlusLaws
  <1> QED BY <1>1, <1>2, <1>3, <1>4, <1>5, <1>6, <1>7 DEF q, c, w

LEMMA SplitTyped ==
  ASSUME IInv, NEW s \in Symbols, NEW r \in Fractions
  PROVE  /\ PriceFxSplit(s, r).price \in Fractions /\ PriceFxSplit(s, r).fx \in Fractions
         /\ Position(s).qty = 0 => PriceFxSplit(s, r).price = Zero /\ PriceFxSplit(s, r).fx = Zero
  <1> DEFINE now == RateNow(Currency[s])
             c == Position(s).cost
             d == Minus(Whole(now), r)
  <1>1. /\ c \in Fractions /\ Profit(s) \in Fractions
        /\ Position(s).qty = 0 => c = Zero /\ Profit(s) = Zero
    BY ProfitTyped
  <1>2. now \in Int
    BY RatesTyped
  <1>3. PriceFxSplit(s, r).price = Times(Whole(now), Profit(s)) /\ PriceFxSplit(s, r).fx = Times(c, d)
    BY DEF PriceFxSplit, Scale
  <1> HIDE DEF now, c, d
  <1>4. Whole(now) \in Fractions
    BY <1>2, WholeIsOver
  <1>5. d \in Fractions
    BY <1>4, FractionOperations DEF d
  <1>6. Times(Whole(now), Profit(s)) \in Fractions /\ Times(c, d) \in Fractions
    BY <1>1, <1>4, <1>5, TimesLaws
  <1>7. Times(Whole(now), Zero) = Zero /\ Times(Zero, d) = Zero
    BY <1>4, <1>5, TimesLaws
  <1> QED BY <1>1, <1>3, <1>6, <1>7

\* k takes f and g together, and leaves out nothing but zeros.
Together(H, W, U, f, g, k) ==
    /\ IsFiniteSet(H \cup W) /\ H \cap W = {} /\ U \subseteq H \cup W
    /\ DOMAIN f = H /\ DOMAIN g = W /\ DOMAIN k = U
    /\ \A x \in H : f[x] \in Fractions /\ (x \notin U => f[x] = Zero)
    /\ \A x \in W : g[x] \in Fractions /\ (x \notin U => g[x] = Zero)
    /\ \A x \in U : k[x] = IF x \in H THEN f[x] ELSE g[x]

LEMMA SplitSums ==
  ASSUME NEW H, NEW W, NEW U, NEW f, NEW g, NEW k, Together(H, W, U, f, g, k)
  PROVE  Plus(Sum(f), Sum(g)) = Sum(k)
  <1> USE DEF Together
  <1> DEFINE all == [x \in H \cup W |-> IF x \in H THEN f[x] ELSE g[x]]
             A == H \cup W
  <1>1. /\ \A x \in H : all[x] = f[x]
        /\ \A x \in W : all[x] = g[x]
        /\ \A x \in U : all[x] = k[x]
        /\ \A x \in A \ U : all[x] = Zero
        /\ \A x \in A : all[x] \in Fractions
    OBVIOUS
  <1> HIDE DEF all
  <1>2. Addends(all, A)
    BY <1>1 DEF Addends
  <1>3. Addends(all, H) /\ Addends(all, W) /\ Addends(all, U)
    <2>1. H \subseteq A /\ W \subseteq A /\ U \subseteq A
      OBVIOUS
    <2> HIDE DEF A
    <2> QED BY <1>2, <2>1, AddendsOfPart
  <1>4. RatioSum(all, H) = RatioSum(f, H) /\ RatioSum(all, W) = RatioSum(g, W) /\ RatioSum(all, U) = RatioSum(k, U)
    BY <1>1, <1>3, TotalCong
  <1>5. RatioSum(all, H \cup W) = Plus(RatioSum(all, H), RatioSum(all, W))
    BY <1>2, TotalUnion
  <1>6. RatioSum(all, A) = RatioSum(all, U)
    <2>1. U \subseteq A
      OBVIOUS
    <2> HIDE DEF A
    <2> QED BY <1>1, <1>2, <2>1, TotalOfPart
  <1> QED BY <1>4, <1>5, <1>6, SumIsTotal

LEMMA SplitOf == IInv => SplitAgrees
  <1> SUFFICES ASSUME IInv, ~SummarySplit.warned
               PROVE  LET whole == {s \in Shown : ~Pending(s)}
                      IN /\ \A s \in whole : RowSplit(s).price # None
                         /\ SummarySplit.price = Sum([s \in whole |-> RowSplit(s).price])
                         /\ SummarySplit.fx = Sum([s \in whole |-> RowSplit(s).fx])
    BY DEF SplitAgrees
  <1> DEFINE priced  == {s \in Symbols : ~Pending(s)}
             foreign == {s \in priced : Currency[s] # Home}
             rated   == {s \in foreign : RateNow(Currency[s]) # Missing}
             lots(s) == BuyLots(OrderedOf(trades, s))
             H == priced \ foreign
             W == {s \in rated : lots(s) # << >> /\ AverageBuyRate(s) # None}
             U == {s \in Shown : ~Pending(s)}
             profit == [s \in H |-> Profit(s)]
             price == [s \in W |-> PriceFxSplit(s, AverageBuyRate(s)).price]
             fx == [s \in W |-> PriceFxSplit(s, AverageBuyRate(s)).fx]
             rowPrice == [s \in U |-> RowSplit(s).price]
             rowFx == [s \in U |-> RowSplit(s).fx]
             none == [s \in H |-> Zero]
  <1>1. /\ rated = foreign /\ \A s \in rated : lots(s) # << >> => AverageBuyRate(s) # None
        /\ SummarySplit.price = Plus(Sum(profit), Sum(price)) /\ SummarySplit.fx = Sum(fx)
    <2> DEFINE warned == \/ rated # foreign
                         \/ \E s \in rated : lots(s) # << >> /\ AverageBuyRate(s) = None
               clean == [warned |-> FALSE, price |-> Plus(Sum(profit), Sum(price)), fx |-> Sum(fx)]
    <2>1. SummarySplit = IF warned THEN [warned |-> TRUE, price |-> None, fx |-> None] ELSE clean
      BY DEF SummarySplit
    <2>2. ~warned
      <3> HIDE DEF warned, clean
      <3> QED BY <2>1
    <2>3. SummarySplit = clean
      <3> HIDE DEF warned, clean
      <3> QED BY <2>1, <2>2
    <2>4. clean.price = Plus(Sum(profit), Sum(price)) /\ clean.fx = Sum(fx)
      <3> HIDE DEF profit, price, fx
      <3> QED OBVIOUS
    <2> HIDE DEF clean, profit, price, fx
    <2> QED BY <2>2, <2>3, <2>4
  <1>2. /\ \A s \in U : s \in Symbols /\ s \in priced /\ Position(s).qty # 0
        /\ \A s \in priced : s \in Symbols /\ (s \notin U => Position(s).qty = 0)
    <2>1. \A s \in Symbols : Position(s).qty \in Nat
      BY ProfitTyped
    <2> QED BY <2>1 DEF Shown
  <1>3. \A s \in W : s \in Symbols /\ s \in foreign /\ AverageBuyRate(s) \in Fractions
    BY AverageTyped
  <1>4. \A s \in H : Profit(s) \in Fractions /\ (s \notin U => Profit(s) = Zero)
    BY <1>2, ProfitTyped
  <1>5. ASSUME NEW s \in W
        PROVE  /\ PriceFxSplit(s, AverageBuyRate(s)).price \in Fractions
               /\ PriceFxSplit(s, AverageBuyRate(s)).fx \in Fractions
               /\ s \notin U => /\ PriceFxSplit(s, AverageBuyRate(s)).price = Zero
                                /\ PriceFxSplit(s, AverageBuyRate(s)).fx = Zero
    BY <1>2, <1>3, SplitTyped
  <1>6. ASSUME NEW s \in U
        PROVE  /\ s \in H \cup W
               /\ s \in H => RowSplit(s).price = Profit(s) /\ RowSplit(s).fx = Zero
               /\ s \notin H => /\ RowSplit(s).price = PriceFxSplit(s, AverageBuyRate(s)).price
                                /\ RowSplit(s).fx = PriceFxSplit(s, AverageBuyRate(s)).fx
    <2>1. s \in priced /\ ~Pending(s)
      BY <1>2
    <2>2. ASSUME Currency[s] = Home
          PROVE  s \in H /\ RowSplit(s).price = Profit(s) /\ RowSplit(s).fx = Zero
      BY <2>1, <2>2 DEF RowSplit
    <2>3. ASSUME Currency[s] # Home
          PROVE  s \in W /\ s \notin H /\ RowSplit(s) = PriceFxSplit(s, AverageBuyRate(s))
      <3>1. s \in foreign /\ s \in rated
        BY <1>1, <2>1, <2>3
      <3>2. lots(s) # << >>
        BY <1>2, LotsFacts DEF IInv
      <3>3. AverageBuyRate(s) # None
        BY <1>1, <3>1, <3>2
      <3> QED BY <2>1, <2>3, <3>1, <3>2, <3>3 DEF RowSplit
    <2> QED BY <2>2, <2>3
  <1>7. IsFiniteSet(H \cup W) /\ H \cap W = {} /\ U \subseteq H \cup W
    <2>1. H \cup W \subseteq Symbols
      BY <1>3
    <2>2. IsFiniteSet(Symbols)
      BY PortfolioAssumption
    <2>3. IsFiniteSet(H \cup W)
      <3> HIDE DEF H, W
      <3> QED BY <2>1, <2>2, FS_Subset
    <2>4. H \cap W = {}
      BY <1>3
    <2> QED BY <1>6, <2>3, <2>4
  <1>8. /\ DOMAIN profit = H /\ DOMAIN price = W /\ DOMAIN fx = W /\ DOMAIN none = H
        /\ DOMAIN rowPrice = U /\ DOMAIN rowFx = U
        /\ \A s \in H : profit[s] = Profit(s) /\ none[s] = Zero
        /\ \A s \in W : /\ price[s] = PriceFxSplit(s, AverageBuyRate(s)).price
                        /\ fx[s] = PriceFxSplit(s, AverageBuyRate(s)).fx
        /\ \A s \in U : rowPrice[s] = RowSplit(s).price /\ rowFx[s] = RowSplit(s).fx
    OBVIOUS
  <1>9. Zero \in Fractions
    BY PlusLaws
  <1>10. \A s \in U : rowPrice[s] \in Fractions
    BY <1>4, <1>5, <1>6, <1>8
  <1> HIDE DEF H, W, U, profit, price, fx, rowPrice, rowFx, none
  <1>11. Plus(Sum(profit), Sum(price)) = Sum(rowPrice)
    <2>1. Together(H, W, U, profit, price, rowPrice)
      BY <1>4, <1>5, <1>6, <1>7, <1>8 DEF Together
    <2> QED BY <2>1, SplitSums
  <1>12. Plus(Sum(none), Sum(fx)) = Sum(rowFx)
    <2>1. Together(H, W, U, none, fx, rowFx)
      BY <1>4, <1>5, <1>6, <1>7, <1>8, <1>9 DEF Together
    <2> QED BY <2>1, SplitSums
  <1>13. Plus(Sum(none), Sum(fx)) = Sum(fx)
    <2>1. IsFiniteSet(H) /\ IsFiniteSet(W)
      <3>1. H \subseteq H \cup W /\ W \subseteq H \cup W
        OBVIOUS
      <3> QED BY <1>7, <3>1, FS_Subset
    <2>2. Sum(none) = Zero
      BY <1>8, <2>1, TotalOfZeros, SumIsTotal
    <2>3. RatioSum(fx, W) \in Fractions
      <3>1. Addends(fx, W)
        BY <1>5, <1>8, <2>1 DEF Addends
      <3> QED BY <3>1, TotalUnfold
    <2>4. Sum(fx) \in Fractions
      BY <1>8, <2>3, SumIsTotal
    <2> QED BY <2>2, <2>4, PlusLaws
  <1>14. \A s \in U : RowSplit(s).price # None
    BY <1>8, <1>10, FractionIsSome
  <1> QED BY <1>1, <1>11, <1>12, <1>13, <1>14 DEF U, rowPrice, rowFx

(***************************************************************************)
(* The summary's price and currency parts are the sums of those of the     *)
(* rows shown, whenever the summary gives any: two loops over the same     *)
(* symbols, each with its own conditions, that must agree on which of them *)
(* count.                                                                  *)
(***************************************************************************)
THEOREM SplitsAgree == Spec => []SplitAgrees
  BY SplitOf, Invariance, PTL

-----------------------------------------------------------------------------
(***************************************************************************)
(* The rebalance suggestion.                                               *)
(***************************************************************************)
\* Rounding to a whole is off by a half at most.
LEMMA RoundedParts ==
  ASSUME NEW p \in Nat, NEW q \in Denominators
  PROVE  LET a == Rounded(<<p, q>>)
         IN  a \in Int /\ 2 * (a * q - p) <= q /\ 2 * (p - a * q) <= q
  <1> DEFINE low == p \div q
             r == p % q
             twice == (2 * p) \div q
             e == (2 * p) % q
             a == IF 2 * r = q THEN low + (low % 2) ELSE (twice + 1) \div 2
  <1>0. q \in Nat \ {0} /\ 2 \in Nat \ {0} /\ 2 * p \in Nat
    BY DEF Denominators
  <1>1. low \in Nat /\ r \in 0 .. q - 1 /\ p = low * q + r
    BY <1>0, Division
  <1>2. twice \in Nat /\ e \in 0 .. q - 1 /\ 2 * p = twice * q + e
    <2> DEFINE t == 2 * p
    <2>1. t \in Nat
      OBVIOUS
    <2> HIDE DEF t
    <2>2. t \div q \in Nat /\ t % q \in 0 .. q - 1 /\ t = (t \div q) * q + (t % q)
      BY <1>0, <2>1, Division
    <2> QED BY <2>2 DEF t
  <1>3. Rounded(<<p, q>>) = a
    BY DEF Rounded
  <1> HIDE DEF low, r, twice, e
  <1>4. CASE 2 * r = q
    <2> DEFINE x == low % 2
    <2>1. x \in 0 .. 1
      BY <1>1
    <2> HIDE DEF x
    <2>2. a = low + x
      BY <1>4 DEF x
    <2>3. (low + x) * q = low * q + x * q /\ low * q \in Nat
      BY <1>0, <1>1, <2>1
    <2>4. x = 0 \/ x = 1
      BY <2>1
    <2>5. 0 * q = 0 /\ 1 * q = q
      BY <1>0
    <2> HIDE DEF a
    <2>6. a * q = low * q \/ a * q = low * q + q
      BY <1>0, <2>2, <2>3, <2>4, <2>5
    <2>7. a \in Int
      BY <1>1, <2>1, <2>2
    <2> QED BY <1>0, <1>1, <1>3, <1>4, <2>3, <2>6, <2>7
  <1>5. CASE 2 * r # q
    <2> DEFINE y == (twice + 1) \div 2
               x == (twice + 1) % 2
    <2>1. y \in Nat /\ x \in 0 .. 1 /\ twice + 1 = y * 2 + x
      BY <1>2
    <2> HIDE DEF x, y
    <2>2. a = y
      BY <1>5 DEF y
    <2>3. x = 0 \/ x = 1
      BY <2>1
    <2>4. (2 * y) * q = twice * q + q \/ (2 * y) * q = twice * q
      <3>1. x = 0 => 2 * y = twice + 1
        BY <1>2, <2>1
      <3>2. x = 1 => 2 * y = twice
        BY <1>2, <2>1
      <3>3. (twice + 1) * q = twice * q + q
        BY <1>0, <1>2
      <3> QED BY <2>3, <3>1, <3>2, <3>3
    <2>5. 2 * (y * q - p) = (2 * y) * q - 2 * p /\ 2 * (p - y * q) = 2 * p - (2 * y) * q
      BY <1>0, <2>1
    <2>6. twice * q \in Nat /\ (2 * y) * q \in Int
      BY <1>0, <1>2, <2>1
    <2> HIDE DEF a
    <2> QED BY <1>0, <1>2, <1>3, <2>1, <2>2, <2>4, <2>5, <2>6
  <1> QED BY <1>4, <1>5

LEMMA RoundedError ==
  ASSUME NEW n \in Nat, NEW d \in Denominators
  PROVE  LET a == Rounded(Over(n, d))
         IN  a \in Int /\ 2 * (a * d - n) <= d /\ 2 * (n - a * d) <= d
  <1>1. PICK p \in Int, q \in Denominators : Over(n, d) = <<p, q>> /\ SameValue(n, d, p, q)
    BY Representation
  <1>2. p * d = n * q /\ q \in Nat /\ q > 0 /\ d \in Nat /\ d > 0
    BY <1>1 DEF SameValue, Denominators
  <1>3. p \in Nat
    <2>1. n * q >= 0
      BY <1>2
    <2>2. p < 0 => p * d < 0
      BY <1>2
    <2> QED BY <1>2, <2>1, <2>2
  <1> DEFINE a == Rounded(<<p, q>>)
  <1>4. a \in Int /\ 2 * (a * q - p) <= q /\ 2 * (p - a * q) <= q
    BY <1>3, RoundedParts
  <1> HIDE DEF a
  <1> DEFINE u == 2 * (a * q - p)
             v == 2 * (a * d - n)
             w == 2 * (p - a * q)
             z == 2 * (n - a * d)
  <1>5. u * d = v * q /\ w * d = z * q
    <2>1. u * d = 2 * ((a * q) * d - p * d) /\ v * q = 2 * ((a * d) * q - n * q)
      BY <1>2, <1>4
    <2>2. w * d = 2 * (p * d - (a * q) * d) /\ z * q = 2 * (n * q - (a * d) * q)
      BY <1>2, <1>4
    <2>3. (a * q) * d = (a * d) * q
      BY <1>2, <1>4
    <2> QED BY <1>2, <2>1, <2>2, <2>3
  <1>6. u \in Int /\ v \in Int /\ w \in Int /\ z \in Int /\ u <= q /\ w <= q
    BY <1>2, <1>4
  <1> HIDE DEF u, v, w, z
  <1>7. \A x, y \in Int : x <= q /\ x * d = y * q => y <= d
    <2> SUFFICES ASSUME NEW x \in Int, NEW y \in Int, x <= q, x * d = y * q, y > d PROVE FALSE
      BY <1>2
    <2>1. x * d <= q * d
      <3>1. (q - x) * d >= 0 /\ (q - x) * d = q * d - x * d
        BY <1>2
      <3>2. q * d \in Int /\ x * d \in Int
        BY <1>2
      <3> QED BY <3>1, <3>2
    <2>2. y * q > d * q
      <3>1. (y - d) * q > 0 /\ (y - d) * q = y * q - d * q
        BY <1>2
      <3>2. y * q \in Int /\ d * q \in Int
        BY <1>2
      <3> QED BY <3>1, <3>2
    <2>3. d * q = q * d /\ d * q \in Int /\ x * d \in Int
      BY <1>2
    <2> QED BY <2>1, <2>2, <2>3
  <1>8. v <= d /\ z <= d
    BY <1>5, <1>6, <1>7
  <1> QED BY <1>1, <1>4, <1>8 DEF a, v, z

\* An allocation of a for the part n of G, and what is off after the move.
Close(a, n, G) == 2 * (a * G - 10000 * n) <= G /\ 2 * (10000 * n - a * G) <= G

OnTarget(k, n, G, a, t) ==
    LET total == Whole(k * G)
        slack == Times(Over(1, 20000), total)
        goal  == Times(Over(t, 10000), total)
        off   == Minus(Plus(Whole(k * n), Times(Over(t - a, 10000), total)), goal)
    IN  ~Less(slack, off) /\ ~Less(off, Minus(Zero, slack))

LEMMA OffBy ==
  ASSUME NEW k \in Nat, NEW n \in Int, NEW G \in Nat, NEW a \in Int, NEW t \in Int, Close(a, n, G)
  PROVE  OnTarget(k, n, G, a, t)
  <1> DEFINE T == k * G
             m == k * n
             total == Whole(T)
             slack == Times(Over(1, 20000), total)
             goal  == Times(Over(t, 10000), total)
             move  == Times(Over(t - a, 10000), total)
             off   == Minus(Plus(Whole(m), move), goal)
             A == (t - a) * T
             B == t * T
             C == 10000 * m + A
             D == C - B
             E == 10000 * m - a * T
  <1>1. T \in Int /\ m \in Int /\ t - a \in Int
    OBVIOUS
  <1>2. 1 \in Denominators /\ 10000 \in Denominators /\ 20000 \in Denominators
    BY DEF Denominators
  <1> HIDE DEF T, m
  <1>3. A \in Int /\ B \in Int /\ A = B - a * T /\ a * T \in Int
    BY <1>1
  <1> HIDE DEF A, B
  <1>4. C \in Int /\ D \in Int /\ E \in Int /\ D = E
    BY <1>1, <1>3
  <1>5. total = Over(T, 1) /\ Whole(m) = Over(m, 1) /\ Zero = Over(0, 1)
    BY <1>1, WholeIsOver DEF Zero
  <1>6. /\ slack = Over(T, 20000) /\ goal = Over(B, 10000) /\ move = Over(A, 10000)
    <2>1. /\ Times(Over(1, 20000), Over(T, 1)) = Over(1 * T, 20000 * 1)
          /\ Times(Over(t, 10000), Over(T, 1)) = Over(t * T, 10000 * 1)
          /\ Times(Over(t - a, 10000), Over(T, 1)) = Over((t - a) * T, 10000 * 1)
      <3>1. \A x \in Int, d \in Denominators : Times(Over(x, d), Over(T, 1)) = Over(x * T, d * 1)
        BY <1>1, <1>2, SumOfOvers
      <3>2. 1 \in Int /\ t \in Int /\ t - a \in Int
        BY <1>1
      <3> QED BY <1>2, <3>1, <3>2
    <2>2. 1 * T = T /\ 20000 * 1 = 20000 /\ 10000 * 1 = 10000
      BY <1>1
    <2> QED BY <1>5, <2>1, <2>2 DEF A, B
  <1> HIDE DEF slack, goal, move, total
  <1>7. Plus(Whole(m), move) = Over(C, 10000)
    <2>1. Plus(Over(m, 1), Over(A, 10000)) = Over(m * 10000 + A * 1, 1 * 10000)
      BY <1>1, <1>2, <1>3, SumOfOvers
    <2>2. m * 10000 + A * 1 = C /\ 1 * 10000 = 10000
      BY <1>1, <1>3
    <2> QED BY <1>5, <1>6, <2>1, <2>2
  <1> HIDE DEF C
  <1>8. off = Over(E, 10000)
    <2>1. Minus(Over(C, 10000), Over(B, 10000)) = Over(C * 10000 - B * 10000, 10000 * 10000)
      BY <1>2, <1>3, <1>4, SumOfOvers
    <2>2. C * 10000 - B * 10000 = 10000 * D
      BY <1>3, <1>4
    <2> HIDE DEF D
    <2>3. Over(10000 * D, 10000 * 10000) = Over(D, 10000)
      BY <1>2, <1>4, OverScale
    <2> QED BY <1>4, <1>6, <1>7, <2>1, <2>2, <2>3
  <1>9. Minus(Zero, slack) = Over(-T, 20000)
    <2>1. Minus(Over(0, 1), Over(T, 20000)) = Over(0 * 20000 - T * 1, 1 * 20000)
      BY <1>1, <1>2, SumOfOvers
    <2>2. 0 * 20000 - T * 1 = -T /\ 1 * 20000 = 20000
      BY <1>1
    <2> QED BY <1>5, <1>6, <2>1, <2>2
  <1> HIDE DEF off, D
  <1>10. 2 * E <= T /\ -T <= 2 * E
    <2>1. a * T = k * (a * G) /\ 10000 * m = k * (10000 * n)
      BY DEF T, m
    <2> DEFINE x == a * G
               y == 10000 * n
    <2>2. x \in Int /\ y \in Int /\ 2 * (x - y) <= G /\ 2 * (y - x) <= G
      BY DEF Close
    <2> HIDE DEF x, y
    <2>3. k * (2 * (x - y)) <= k * G /\ k * (2 * (y - x)) <= k * G
      <3>1. \A u, v \in Int : u <= v => k * u <= k * v
        <4> SUFFICES ASSUME NEW u \in Int, NEW v \in Int, u <= v PROVE k * u <= k * v
          OBVIOUS
        <4>1. k * (v - u) >= 0 /\ k * (v - u) = k * v - k * u
          OBVIOUS
        <4>2. k * v \in Int /\ k * u \in Int
          OBVIOUS
        <4> QED BY <4>1, <4>2
      <3>2. 2 * (x - y) \in Int /\ 2 * (y - x) \in Int /\ G \in Int
        BY <2>2
      <3> QED BY <2>2, <3>1, <3>2
    <2>4. k * (2 * (x - y)) = 2 * (k * x) - 2 * (k * y) /\ k * (2 * (y - x)) = 2 * (k * y) - 2 * (k * x)
      BY <2>2
    <2>5. E = k * y - k * x /\ k * x \in Int /\ k * y \in Int
      BY <1>1, <2>1, <2>2 DEF x, y
    <2> HIDE DEF E
    <2> QED BY <1>1, <2>3, <2>4, <2>5 DEF T
  <1> HIDE DEF E
  <1>11. /\ Less(Over(T, 20000), Over(E, 10000)) <=> T * 10000 < E * 20000
         /\ Less(Over(E, 10000), Over(-T, 20000)) <=> E * 20000 < (-T) * 10000
    <2>1. -T \in Int
      BY <1>1
    <2> QED BY <1>1, <1>2, <1>4, <2>1, LessOvers
  <1>12. ~(T * 10000 < E * 20000) /\ ~(E * 20000 < (-T) * 10000)
    BY <1>1, <1>4, <1>10
  <1> QED BY <1>6, <1>8, <1>9, <1>11, <1>12 DEF OnTarget, off, slack, goal, move, total, T, m

\* The rate an amount is converted at in the allocation, which converts nothing
\* when there is one currency.
Weight(cash, c) == IF Cardinality(InPlay(cash)) <= 1 THEN 1 ELSE RateNow(c)

Worth(cash)     == [s \in Priced |-> Weight(cash, Currency[s]) * (Position(s).qty * LastPrice(s))]
CashWorth(cash) == [c \in Held(cash) |-> Weight(cash, c) * cash[c]]
InBucket(b)     == {s \in Priced : AssetType[s] = b}

Part(cash, b) ==
    IF b = "cash" THEN SumFunctionOnSet(CashWorth(cash), Held(cash))
    ELSE SumFunctionOnSet(Worth(cash), InBucket(b))

Grand(cash) == SumFunctionOnSet(Worth(cash), Priced) + SumFunctionOnSet(CashWorth(cash), Held(cash))

LEMMA WholeSums ==
  ASSUME NEW S, IsFiniteSet(S), NEW f, NEW fun, NEW k \in Int, DOMAIN fun = S,
         \A x \in S : f[x] \in Int /\ fun[x] = Whole(k * f[x])
  PROVE  Sum(fun) = Whole(k * SumFunctionOnSet(f, S))
  BY WholeTotals, SumIsTotal

LEMMA AmountsTyped ==
  ASSUME IInv, NEW cash \in CashCases
  PROVE  /\ IsFiniteSet(Held(cash)) /\ \A c \in Held(cash) : cash[c] \in Nat
         /\ IsFiniteSet(Priced) /\ Priced \subseteq Symbols
         /\ IsFiniteSet(InPlay(cash))
         /\ \A c : Weight(cash, c) \in Nat
         /\ \A s \in Priced : Worth(cash)[s] \in Nat
         /\ \A c \in Held(cash) : CashWorth(cash)[c] \in Nat
         /\ \A s \in Symbols : Position(s).qty * LastPrice(s) \in Nat
  <1>1. IsFiniteSet(DOMAIN cash) /\ \A c \in DOMAIN cash : cash[c] \in Int
    BY PortfolioAssumption
  <1>2. IsFiniteSet(Held(cash)) /\ \A c \in Held(cash) : cash[c] \in Nat
    <2>1. Held(cash) \subseteq DOMAIN cash /\ \A c \in Held(cash) : cash[c] \in Nat
      BY <1>1 DEF Held
    <2> QED BY <1>1, <2>1, FS_Subset
  <1>3. IsFiniteSet(Priced) /\ Priced \subseteq Symbols
    <2>1. Priced \subseteq Symbols /\ IsFiniteSet(Symbols)
      BY PortfolioAssumption DEF Priced
    <2> QED BY <2>1, FS_Subset
  <1>4. IsFiniteSet(InPlay(cash))
    <2> DEFINE f == [s \in Priced |-> Currency[s]]
               C == {Currency[s] : s \in Priced}
    <2>1. f \in Surjection(Priced, C)
      BY DEF Surjection
    <2> HIDE DEF f, C
    <2>2. IsFiniteSet(C)
      BY <1>3, <2>1, FS_Surjection
    <2>3. InPlay(cash) = C \cup Held(cash)
      BY DEF InPlay, C
    <2> QED BY <1>2, <2>2, <2>3, FS_Union
  <1>5. \A c : Weight(cash, c) \in Nat
    BY RatesTyped DEF Weight
  <1>6. \A s \in Symbols : Position(s).qty * LastPrice(s) \in Nat
    BY ProfitTyped
  <1>7. \A a, b \in Nat : a * b \in Nat
    OBVIOUS
  <1>8. \A s \in Priced : Worth(cash)[s] \in Nat
    <2>1. \A s \in Priced : Worth(cash)[s] = Weight(cash, Currency[s]) * (Position(s).qty * LastPrice(s))
      BY DEF Worth
    <2> QED BY <1>3, <1>5, <1>6, <1>7, <2>1
  <1>9. \A c \in Held(cash) : CashWorth(cash)[c] \in Nat
    <2>1. \A c \in Held(cash) : CashWorth(cash)[c] = Weight(cash, c) * cash[c]
      BY DEF CashWorth
    <2> QED BY <1>2, <1>5, <1>7, <2>1
  <1> QED BY <1>2, <1>3, <1>4, <1>5, <1>6, <1>8, <1>9

\* The parts are parts of the whole.
LEMMA PartsTyped ==
  ASSUME IInv, NEW cash \in CashCases, NEW b
  PROVE  Part(cash, b) \in Nat /\ Grand(cash) \in Nat /\ Part(cash, b) <= Grand(cash)
  <1> DEFINE W == Worth(cash)
             C == SumFunctionOnSet(CashWorth(cash), Held(cash))
             I == InBucket(b)
             R == Priced \ I
  <1>1. /\ IsFiniteSet(Held(cash)) /\ IsFiniteSet(Priced)
        /\ \A s \in Priced : W[s] \in Nat
        /\ \A c \in Held(cash) : CashWorth(cash)[c] \in Nat
    BY AmountsTyped
  <1>2. C \in Nat
    BY <1>1, SumOfNaturals
  <1>3. I \cup R = Priced /\ I \cap R = {} /\ IsFiniteSet(I) /\ IsFiniteSet(R)
        /\ I \subseteq Priced /\ R \subseteq Priced
    <2>1. I \subseteq Priced /\ R \subseteq Priced
      BY DEF InBucket
    <2>2. IsFiniteSet(I) /\ IsFiniteSet(R)
      BY <1>1, <2>1, FS_Subset
    <2> QED BY <2>1, <2>2
  <1> HIDE DEF W, C, I, R
  <1>4. SumFunctionOnSet(W, I) \in Nat /\ SumFunctionOnSet(W, R) \in Nat
    <2>1. (\A s \in I : W[s] \in Nat) /\ (\A s \in R : W[s] \in Nat)
      BY <1>1, <1>3
    <2> QED BY <1>3, <2>1, SumOfNaturals
  <1>5. SumFunctionOnSet(W, I \cup R) = SumFunctionOnSet(W, I) + SumFunctionOnSet(W, R)
    <2>1. \A s \in I \cup R : W[s] \in Int
      BY <1>1, <1>3
    <2> QED BY <1>3, <2>1, SumSplit
  <1>6. Grand(cash) = SumFunctionOnSet(W, I) + SumFunctionOnSet(W, R) + C
    BY <1>3, <1>5 DEF Grand, W, C
  <1>7. Part(cash, b) = IF b = "cash" THEN C ELSE SumFunctionOnSet(W, I)
    BY DEF Part, W, C, I
  <1> QED BY <1>2, <1>4, <1>6, <1>7

\* With rates for all, every rate is one factor times the weight.
LEMMA Conversion ==
  ASSUME IInv, NEW cash \in CashCases, ConvertedTotals(cash) # None
  PROVE  /\ \E k \in Nat : \A c \in InPlay(cash) : RateNow(c) = k * Weight(cash, c)
         /\ \A c \in InPlay(cash), v \in Nat : Kept(ToBase(cash, Whole(v), c)) = Whole(Weight(cash, c) * v)
         /\ ConvertedTotals(cash).total =
              Plus(Sum([s \in Priced |-> Scale(RateNow(Currency[s]), Value(s))]),
                   Sum([c \in Held(cash) |-> Whole(cash[c] * RateNow(c))]))
  <1> DEFINE all   == {Currency[s] : s \in Symbols} \cup Held(cash)
             rates == [c \in all |-> RateNow(c)]
             P     == InPlay(cash)
  <1>1. P # {} /\ (\A c \in all : RateNow(c) # Missing) /\ RatesFor(all) = rates
        /\ ConvertedTotals(cash).total = InHome(cash, rates)
    <2> DEFINE full == [total |-> InHome(cash, RatesFor(all)),
                        cost  |-> Sum([s \in Symbols |-> Scale(RatesFor(all)[Currency[s]], Position(s).cost)])]
    <2>1. ConvertedTotals(cash) = IF P = {} \/ RatesFor(all) = None THEN None ELSE full
      BY DEF ConvertedTotals
    <2>2. P # {} /\ RatesFor(all) # None /\ ConvertedTotals(cash) = full
      <3> HIDE DEF full, all
      <3> QED BY <2>1
    <2>3. full.total = InHome(cash, RatesFor(all))
      OBVIOUS
    <2>4. (\A c \in all : RateNow(c) # Missing) /\ RatesFor(all) = rates
      BY <2>2 DEF RatesFor
    <2> HIDE DEF full, all, rates
    <2> QED BY <2>2, <2>3, <2>4
  <1>2. P \subseteq all
    BY DEF InPlay, Priced
  <1>3. RatesFor(P) = [c \in P |-> RateNow(c)]
    BY <1>1, <1>2 DEF RatesFor
  <1>4. ASSUME NEW c \in P, NEW v \in Nat PROVE Kept(ToBase(cash, Whole(v), c)) = Whole(Weight(cash, c) * v)
    <2>1. RateNow(c) \in Nat
      BY RatesTyped
    <2>2. CASE Cardinality(P) <= 1
      <3>1. ToBase(cash, Whole(v), c) = Whole(v) /\ Weight(cash, c) = 1 /\ 1 * v = v
        BY <2>2 DEF ToBase, Weight
      <3> QED BY <3>1, WholeIsOver, FractionIsSome DEF Kept
    <2>3. CASE ~(Cardinality(P) <= 1)
      <3>1. Weight(cash, c) = RateNow(c)
        BY <2>3 DEF Weight
      <3>2. Scale(RateNow(c), Whole(v)) = Whole(RateNow(c) * v) /\ RateNow(c) * v \in Int
        <4> DEFINE r == RateNow(c)
        <4>1. r \in Int /\ v \in Int
          BY <2>1
        <4> HIDE DEF r
        <4>2. r * v \in Int
          BY <4>1
        <4>3. Scale(r, Whole(v)) = Whole(r * v)
          BY <4>1, WholeOperations
        <4> QED BY <4>2, <4>3 DEF r
      <3>3. ToBase(cash, Whole(v), c) = Whole(RateNow(c) * v)
        <4>1. CASE c = Home
          <5>1. RateNow(c) = 1 /\ 1 * v = v /\ ToBase(cash, Whole(v), c) = Whole(v)
            BY <2>3, <4>1 DEF RateNow, ToBase
          <5> QED BY <5>1
        <4>2. CASE c # Home
          <5>1. RatesFor(P) # None
            <6>1. DOMAIN RatesFor(P) = P /\ DOMAIN << >> = {}
              BY <1>3
            <6> QED BY <6>1 DEF None
          <5>2. ToBase(cash, Whole(v), c) = Scale(RatesFor(P)[c], Whole(v))
            BY <2>3, <4>2, <5>1 DEF ToBase
          <5> QED BY <1>3, <3>2, <5>2
        <4> QED BY <4>1, <4>2
      <3> QED BY <3>1, <3>2, <3>3, WholeIsOver, FractionIsSome DEF Kept
    <2> QED BY <2>2, <2>3
  <1>5. \E k \in Nat : \A c \in P : RateNow(c) = k * Weight(cash, c)
    <2>1. \A c : RateNow(c) \in Nat
      BY RatesTyped
    <2>2. CASE Cardinality(P) <= 1
      <3>1. PICK d \in P : TRUE
        BY <1>1
      <3>2. P = {d}
        <4>1. IsFiniteSet(P)
          BY AmountsTyped
        <4>2. IsFiniteSet(P \ {d}) /\ Cardinality(P \ {d}) = Cardinality(P) - 1
          BY <3>1, <4>1, FS_RemoveElement
        <4>3. Cardinality(P) \in Nat /\ Cardinality(P \ {d}) \in Nat
          BY <4>1, <4>2, FS_CardinalityType
        <4>4. P \ {d} = {}
          BY <2>2, <4>2, <4>3, FS_EmptySet
        <4> QED BY <3>1, <4>4
      <3>3. \A c \in P : RateNow(c) = RateNow(d) /\ Weight(cash, c) = 1
        BY <2>2, <3>2 DEF Weight
      <3>4. RateNow(d) * 1 = RateNow(d)
        BY <2>1
      <3> QED BY <2>1, <3>3, <3>4
    <2>3. CASE ~(Cardinality(P) <= 1)
      <3>1. \A c : RateNow(c) = 1 * Weight(cash, c)
        BY <2>1, <2>3 DEF Weight
      <3> QED BY <3>1
    <2> QED BY <2>2, <2>3
  <1>6. InHome(cash, rates) = Plus(Sum([s \in Priced |-> Scale(RateNow(Currency[s]), Value(s))]),
                                   Sum([c \in Held(cash) |-> Whole(cash[c] * RateNow(c))]))
    <2> DEFINE f == [s \in Priced |-> Scale(rates[Currency[s]], Value(s))]
               g == [s \in Priced |-> Scale(RateNow(Currency[s]), Value(s))]
               h == [c \in Held(cash) |-> Whole(cash[c] * rates[c])]
               j == [c \in Held(cash) |-> Whole(cash[c] * RateNow(c))]
    <2>1. \A s \in Priced : rates[Currency[s]] = RateNow(Currency[s])
      BY DEF Priced
    <2>2. \A c \in Held(cash) : rates[c] = RateNow(c)
      OBVIOUS
    <2> HIDE DEF rates
    <2>3. f = g /\ h = j
      BY <2>1, <2>2
    <2>4. InHome(cash, rates) = Plus(Sum(f), Sum(h))
      BY DEF InHome
    <2> HIDE DEF f, g, h, j
    <2>5. Plus(Sum(f), Sum(h)) = Plus(Sum(g), Sum(j))
      BY <2>3
    <2> QED BY <2>4, <2>5 DEF g, j
  <1> QED BY <1>1, <1>4, <1>5, <1>6

\* A priced symbol's worth in Home, and an amount of cash's, by the weights.
LEMMA InHomeParts ==
  ASSUME IInv, NEW cash \in CashCases, NEW k \in Nat,
         \A c \in InPlay(cash) : RateNow(c) = k * Weight(cash, c)
  PROVE  /\ \A s \in Priced : Scale(RateNow(Currency[s]), Value(s)) = Whole(k * Worth(cash)[s])
         /\ \A c \in Held(cash) : Whole(cash[c] * RateNow(c)) = Whole(k * CashWorth(cash)[c])
         /\ \A s \in Symbols \ Priced : Scale(RateNow(Currency[s]), Value(s)) = Zero
  <1>1. /\ \A c : Weight(cash, c) \in Nat
        /\ \A c \in Held(cash) : cash[c] \in Nat
        /\ \A s \in Symbols : Position(s).qty * LastPrice(s) \in Nat
        /\ Priced \subseteq Symbols
    BY AmountsTyped
  <1>2. \A c : RateNow(c) \in Nat
    BY RatesTyped
  <1>3. \A x, y, z \in Nat : (x * y) * z = x * (y * z) /\ z * (x * y) = x * (y * z)
    OBVIOUS
  <1>4. ASSUME NEW s \in Priced
        PROVE  Scale(RateNow(Currency[s]), Value(s)) = Whole(k * Worth(cash)[s])
    <2> DEFINE r == RateNow(Currency[s])
               v == Position(s).qty * LastPrice(s)
               w == Weight(cash, Currency[s])
    <2>1. r \in Nat /\ v \in Nat /\ w \in Nat /\ Value(s) = Whole(v)
      BY <1>1, <1>2, ProfitTyped
    <2>2. Currency[s] \in InPlay(cash)
      BY DEF InPlay
    <2>3. r = k * w
      BY <2>2
    <2>4. Worth(cash)[s] = w * v
      BY DEF Worth
    <2> HIDE DEF r, v, w
    <2>5. Scale(r, Whole(v)) = Whole(r * v)
      <3>1. r \in Int /\ v \in Int
        BY <2>1
      <3> QED BY <3>1, WholeOperations
    <2>6. r * v = k * (w * v)
      BY <1>3, <2>1, <2>3
    <2> QED BY <2>1, <2>4, <2>5, <2>6 DEF r
  <1>5. ASSUME NEW c \in Held(cash) PROVE Whole(cash[c] * RateNow(c)) = Whole(k * CashWorth(cash)[c])
    <2> DEFINE w == Weight(cash, c)
    <2>1. w \in Nat /\ cash[c] \in Nat
      BY <1>1
    <2>2. RateNow(c) = k * w
      BY DEF InPlay
    <2>3. CashWorth(cash)[c] = w * cash[c]
      BY DEF CashWorth
    <2> HIDE DEF w
    <2> QED BY <1>3, <2>1, <2>2, <2>3
  <1>6. ASSUME NEW s \in Symbols \ Priced PROVE Scale(RateNow(Currency[s]), Value(s)) = Zero
    <2> DEFINE r == RateNow(Currency[s])
    <2>1. LastPrice(s) = 0
      BY DEF Priced, Pending, Missing
    <2>2. Position(s).qty \in Nat /\ Value(s) = Whole(Position(s).qty * LastPrice(s))
      BY ProfitTyped
    <2>3. Position(s).qty * 0 = 0
      BY <2>2
    <2>4. Value(s) = Whole(0)
      BY <2>1, <2>2, <2>3
    <2>5. r \in Int
      BY <1>2
    <2> HIDE DEF r
    <2>6. Scale(r, Whole(0)) = Whole(r * 0) /\ r * 0 = 0
      <3>1. 0 \in Int
        OBVIOUS
      <3> QED BY <2>5, <3>1, WholeOperations
    <2> QED BY <2>4, <2>6 DEF r, Zero
  <1> QED BY <1>4, <1>5, <1>6

\* The total shown and each bucket in Home are the parts, k times.
LEMMA HomeAmounts ==
  ASSUME IInv, NEW cash \in CashCases, NEW k \in Nat,
         \A c \in InPlay(cash) : RateNow(c) = k * Weight(cash, c)
  PROVE  /\ \A b : BucketValue(cash, b) = Whole(k * Part(cash, b))
         /\ Plus(Sum([s \in Priced |-> Scale(RateNow(Currency[s]), Value(s))]),
                 Sum([c \in Held(cash) |-> Whole(cash[c] * RateNow(c))])) = Whole(k * Grand(cash))
  <1> DEFINE f == [s \in Priced |-> Scale(RateNow(Currency[s]), Value(s))]
             h == [c \in Held(cash) |-> Whole(cash[c] * RateNow(c))]
             W == Worth(cash)
             C == CashWorth(cash)
  <1>1. /\ \A s \in Priced : Scale(RateNow(Currency[s]), Value(s)) = Whole(k * W[s])
        /\ \A c \in Held(cash) : Whole(cash[c] * RateNow(c)) = Whole(k * C[c])
        /\ \A s \in Symbols \ Priced : Scale(RateNow(Currency[s]), Value(s)) = Zero
    BY InHomeParts
  <1>2. /\ IsFiniteSet(Held(cash)) /\ IsFiniteSet(Priced) /\ Priced \subseteq Symbols
        /\ \A s \in Priced : W[s] \in Int
        /\ \A c \in Held(cash) : C[c] \in Int
    BY AmountsTyped
  <1>3. k \in Int
    OBVIOUS
  <1>4. /\ DOMAIN f = Priced /\ \A s \in Priced : f[s] = Whole(k * W[s])
        /\ DOMAIN h = Held(cash) /\ \A c \in Held(cash) : h[c] = Whole(k * C[c])
    BY <1>1
  <1> HIDE DEF W, C
  <1>5. ASSUME NEW b PROVE BucketValue(cash, b) = Whole(k * Part(cash, b))
    <2> DEFINE T == {t \in Symbols : AssetType[t] = b}
               g == [s \in T |-> Scale(RateNow(Currency[s]), Value(s))]
               I == InBucket(b)
    <2>1. CASE b = "cash"
      <3>1. BucketValue(cash, b) = Sum(h) /\ Part(cash, b) = SumFunctionOnSet(C, Held(cash))
        BY <2>1 DEF BucketValue, Part, C
      <3> HIDE DEF h
      <3>2. Sum(h) = Whole(k * SumFunctionOnSet(C, Held(cash)))
        BY <1>2, <1>3, <1>4, WholeSums
      <3> QED BY <3>1, <3>2
    <2>2. CASE b # "cash"
      <3>1. BucketValue(cash, b) = Sum(g) /\ Part(cash, b) = SumFunctionOnSet(W, I)
        BY <2>2 DEF BucketValue, Part, W
      <3>2. I \subseteq T /\ T \subseteq Symbols /\ DOMAIN g = T /\ I = T \cap Priced
        BY <1>2 DEF InBucket
      <3>3. (\A s \in I : g[s] = Whole(k * W[s])) /\ (\A s \in T \ I : g[s] = Zero)
        BY <1>1, <3>2
      <3> HIDE DEF T, g, I
      <3>4. IsFiniteSet(T) /\ IsFiniteSet(I) /\ \A s \in I : W[s] \in Int
        BY <1>2, <3>2, PortfolioAssumption, FS_Subset
      <3>5. RatioSum(g, I) = Whole(k * SumFunctionOnSet(W, I)) /\ Addends(g, I)
        BY <1>3, <3>3, <3>4, WholeTotals
      <3>6. Addends(g, T)
        <4>1. \A s \in T : g[s] \in Fractions
          BY <3>3, <3>5, PlusLaws DEF Addends
        <4> QED BY <3>4, <4>1 DEF Addends
      <3>7. RatioSum(g, T) = RatioSum(g, I)
        BY <3>2, <3>3, <3>6, TotalOfPart
      <3> QED BY <3>1, <3>2, <3>5, <3>7, SumIsTotal
    <2> QED BY <2>1, <2>2
  <1>6. Plus(Sum(f), Sum(h)) = Whole(k * Grand(cash))
    <2> DEFINE p == SumFunctionOnSet(W, Priced)
               q == SumFunctionOnSet(C, Held(cash))
    <2>1. Grand(cash) = p + q
      BY DEF Grand, W, C
    <2>2. p \in Int /\ q \in Int
      BY <1>2, SumOnSet
    <2> HIDE DEF f, h
    <2>3. Sum(f) = Whole(k * p) /\ Sum(h) = Whole(k * q)
      BY <1>2, <1>3, <1>4, WholeSums
    <2> HIDE DEF p, q
    <2>4. k * p \in Int /\ k * q \in Int /\ k * p + k * q = k * (p + q)
      BY <2>2
    <2> QED BY <2>1, <2>3, <2>4, WholeOperations
  <1> QED BY <1>5, <1>6 DEF f, h

\* The slices the allocation adds up are the parts.
LEMMA SlicesAre ==
  ASSUME IInv, NEW cash \in CashCases, ConvertedTotals(cash) # None
  PROVE  /\ DOMAIN Slices(cash) = {AssetType[s] : s \in Priced} /\ "cash" \notin DOMAIN Slices(cash)
         /\ \A b \in DOMAIN Slices(cash) : Slices(cash)[b] = Whole(Part(cash, b))
         /\ CashSlice(cash) = Whole(Part(cash, "cash"))
         /\ Plus(Sum(Slices(cash)), CashSlice(cash)) = Whole(Grand(cash))
  <1> DEFINE B == {AssetType[s] : s \in Priced}
             W == Worth(cash)
             C == CashWorth(cash)
             kept(s) == Kept(ToBase(cash, Value(s), Currency[s]))
  <1>1. /\ IsFiniteSet(Held(cash)) /\ \A c \in Held(cash) : cash[c] \in Nat
        /\ IsFiniteSet(Priced) /\ Priced \subseteq Symbols
        /\ \A s \in Priced : W[s] \in Int
        /\ \A c \in Held(cash) : C[c] \in Int
        /\ \A s \in Symbols : Position(s).qty * LastPrice(s) \in Nat
    BY AmountsTyped
  <1>2. \A c \in InPlay(cash), v \in Nat : Kept(ToBase(cash, Whole(v), c)) = Whole(Weight(cash, c) * v)
    BY Conversion
  <1>3. \A s \in Priced : kept(s) = Whole(W[s])
    <2> SUFFICES ASSUME NEW s \in Priced PROVE kept(s) = Whole(W[s])
      OBVIOUS
    <2> DEFINE v == Position(s).qty * LastPrice(s)
    <2>1. v \in Nat /\ Value(s) = Whole(v) /\ Currency[s] \in InPlay(cash)
      BY <1>1, ProfitTyped DEF InPlay
    <2>2. W[s] = Weight(cash, Currency[s]) * v
      BY DEF Worth
    <2> HIDE DEF v, W
    <2> QED BY <1>2, <2>1, <2>2
  <1>4. \A c \in Held(cash) : Kept(ToBase(cash, Whole(cash[c]), c)) = Whole(C[c])
    BY <1>1, <1>2 DEF CashWorth, InPlay
  <1>5. DOMAIN Slices(cash) = B /\ "cash" \notin B
    <2>1. B \subseteq {AssetType[s] : s \in Symbols}
      BY <1>1
    <2> QED BY <2>1, ValuationAssumption DEF Slices
  <1> HIDE DEF W, C
  <1>6. ASSUME NEW b \in B PROVE Slices(cash)[b] = Whole(Part(cash, b))
    <2> DEFINE I == InBucket(b)
               g == [s \in I |-> kept(s)]
    <2>1. Slices(cash)[b] = Sum(g) /\ Part(cash, b) = SumFunctionOnSet(W, I)
      BY <1>5 DEF Slices, InBucket, Part, W
    <2>2. I \subseteq Priced /\ DOMAIN g = I
      BY DEF InBucket
    <2>3. IsFiniteSet(I)
      BY <1>1, <2>2, FS_Subset
    <2>4. \A s \in I : W[s] \in Int /\ g[s] = Whole(W[s])
      BY <1>1, <1>3, <2>2
    <2> HIDE DEF I, g
    <2>5. RatioSum(g, I) = Whole(SumFunctionOnSet(W, I))
      BY <2>3, <2>4, TotalOfWholes
    <2> QED BY <2>1, <2>2, <2>5, SumIsTotal
  <1>7. CashSlice(cash) = Whole(Part(cash, "cash")) /\ Part(cash, "cash") \in Int
    <2> DEFINE h == [c \in Held(cash) |-> Kept(ToBase(cash, Whole(cash[c]), c))]
    <2>1. CashSlice(cash) = Sum(h) /\ Part(cash, "cash") = SumFunctionOnSet(C, Held(cash))
      BY DEF CashSlice, Part, C
    <2>2. DOMAIN h = Held(cash) /\ \A c \in Held(cash) : C[c] \in Int /\ h[c] = Whole(C[c])
      BY <1>1, <1>4
    <2> HIDE DEF h
    <2>3. RatioSum(h, Held(cash)) = Whole(SumFunctionOnSet(C, Held(cash))) /\ SumFunctionOnSet(C, Held(cash)) \in Int
      BY <1>1, <2>2, TotalOfWholes
    <2> QED BY <2>1, <2>2, <2>3, SumIsTotal
  <1>8. Sum(Slices(cash)) = Whole(SumFunctionOnSet(W, Priced)) /\ SumFunctionOnSet(W, Priced) \in Int
    <2> DEFINE p == [b \in B |-> Part(cash, b)]
               S == Slices(cash)
    <2>1. \A b \in B : p[b] = SumFunctionOnSet(W, {x \in Priced : AssetType[x] = b})
      BY <1>5 DEF Part, InBucket, W
    <2>2. \A b \in B : p[b] \in Int /\ S[b] = Whole(p[b])
      BY <1>6, PartsTyped
    <2>3. DOMAIN S = B /\ B = {AssetType[s] : s \in Priced}
      BY <1>5
    <2> HIDE DEF p, S, B
    <2>4. IsFiniteSet(B) /\ SumFunctionOnSet(p, B) = SumFunctionOnSet(W, Priced)
      <3>1. Classes(Priced, W, p, AssetType, B)
        BY <1>1, <2>1, <2>3 DEF Classes
      <3> QED BY <3>1, SumByClass
    <2>5. RatioSum(S, B) = Whole(SumFunctionOnSet(p, B)) /\ SumFunctionOnSet(p, B) \in Int
      BY <2>2, <2>4, TotalOfWholes
    <2>6. Sum(S) = Whole(SumFunctionOnSet(W, Priced)) /\ SumFunctionOnSet(W, Priced) \in Int
      BY <2>3, <2>4, <2>5, SumIsTotal
    <2> QED BY <2>6 DEF S
  <1>9. Plus(Sum(Slices(cash)), CashSlice(cash)) = Whole(Grand(cash))
    <2>1. Grand(cash) = SumFunctionOnSet(W, Priced) + Part(cash, "cash")
      BY DEF Grand, Part, W
    <2> QED BY <1>7, <1>8, <2>1, WholeOperations
  <1> QED BY <1>5, <1>6, <1>7, <1>9

\* A share of the whole, in hundredths of a percent.
LEMMA ShareOf ==
  ASSUME NEW n \in Nat, NEW G \in Denominators
  PROVE  Scale(10000, Divide(Whole(n), Whole(G))) = Over(10000 * n, G)
  <1>1. Divide(Whole(n), Whole(G)) = Over(n, G)
    <2>1. n * 1 = n /\ 1 * G = G
      BY DEF Denominators
    <2> QED BY <2>1 DEF Divide, Whole
  <1>2. Whole(10000) = Over(10000, 1)
    BY WholeIsOver
  <1>3. Times(Over(10000, 1), Over(n, G)) = Over(10000 * n, 1 * G)
    <2>1. \A d \in Denominators, m \in Int : Times(Over(10000, d), Over(m, G)) = Over(10000 * m, d * G)
      BY SumOfOvers
    <2>2. 1 \in Denominators /\ n \in Int
      BY DEF Denominators
    <2> QED BY <2>1, <2>2
  <1>4. 1 * G = G
    BY DEF Denominators
  <1> QED BY <1>1, <1>2, <1>3, <1>4 DEF Scale

CurrentAt(cash, b) == IF b \in DOMAIN Allocation(cash) THEN Allocation(cash)[b] ELSE 0

\* The allocation shown is off by half of its last digit at most.
LEMMA CurrentIs ==
  ASSUME IInv, NEW cash \in CashCases, ConvertedTotals(cash) # None, NEW b
  PROVE  LET a == CurrentAt(cash, b)
             n == Part(cash, b)
             G == Grand(cash)
         IN  a \in Int /\ 2 * (a * G - 10000 * n) <= G /\ 2 * (10000 * n - a * G) <= G
  <1> DEFINE n == Part(cash, b)
             G == Grand(cash)
             a == CurrentAt(cash, b)
             S == Slices(cash)
             cashed == IF Positive(CashSlice(cash)) THEN {"cash"} ELSE {}
             slice(x) == IF x = "cash" THEN CashSlice(cash) ELSE S[x]
             full == [x \in DOMAIN S \cup cashed |-> Rounded(Scale(10000, Divide(slice(x), Plus(Sum(S), CashSlice(cash)))))]
  <1>1. n \in Nat /\ G \in Nat /\ n <= G
    BY PartsTyped
  <1>2. /\ DOMAIN S = {AssetType[s] : s \in Priced} /\ "cash" \notin DOMAIN S
        /\ \A x \in DOMAIN S : S[x] = Whole(Part(cash, x))
        /\ CashSlice(cash) = Whole(Part(cash, "cash"))
        /\ Plus(Sum(S), CashSlice(cash)) = Whole(G)
    BY SlicesAre
  <1>3. \A m : Positive(Whole(m)) <=> m > 0
    BY DEF Positive, Whole
  <1>4. Allocation(cash) = IF ~Positive(Plus(Sum(S), CashSlice(cash))) THEN [x \in {} |-> 0] ELSE full
    BY DEF Allocation
  <1>5. b \notin DOMAIN S /\ b \notin cashed => n = 0
    <2>1. CASE b = "cash"
      <3>1. b \notin cashed => ~(n > 0)
        BY <1>2, <1>3, <2>1
      <3> QED BY <1>1, <3>1
    <2>2. CASE b # "cash"
      <3>1. n = SumFunctionOnSet(Worth(cash), InBucket(b))
        BY <2>2 DEF Part
      <3>2. b \notin DOMAIN S => InBucket(b) = {}
        BY <1>2 DEF InBucket
      <3>3. \A f : SumFunctionOnSet(f, {}) = 0
        <4> TAKE f
        <4>1. IsFiniteSet({}) /\ \A x \in {} : f[x] \in Int
          BY FS_EmptySet
        <4> QED BY <4>1, SumOnSet
      <3> QED BY <3>1, <3>2, <3>3
    <2> QED BY <2>1, <2>2
  <1>6. b \in DOMAIN S \cup cashed => slice(b) = Whole(n)
    BY <1>2
  <1>7. DOMAIN full = DOMAIN S \cup cashed
    OBVIOUS
  <1>8. b \in DOMAIN S \cup cashed => full[b] = Rounded(Scale(10000, Divide(Whole(n), Whole(G))))
    BY <1>2, <1>6
  <1> HIDE DEF n, G, S, cashed, slice, full
  <1>9. CASE G > 0
    <2>1. Allocation(cash) = full
      BY <1>2, <1>3, <1>4, <1>9
    <2>2. CASE b \in DOMAIN S \cup cashed
      <3>1. G \in Denominators /\ 10000 * n \in Nat
        BY <1>1, <1>9 DEF Denominators
      <3>2. a = Rounded(Over(10000 * n, G))
        BY <1>1, <1>7, <1>8, <2>1, <2>2, <3>1, ShareOf DEF CurrentAt
      <3> QED BY <3>1, <3>2, RoundedError DEF n, G
    <2>3. CASE b \notin DOMAIN S \cup cashed
      <3>1. a = 0 /\ n = 0
        BY <1>5, <1>7, <2>1, <2>3 DEF CurrentAt
      <3> QED BY <1>1, <3>1 DEF n, G
    <2> QED BY <2>2, <2>3
  <1>10. CASE ~(G > 0)
    <2>1. Allocation(cash) = [x \in {} |-> 0]
      BY <1>2, <1>3, <1>4, <1>10
    <2>2. a = 0
      BY <2>1 DEF CurrentAt
    <2>3. n = 0 /\ G = 0
      BY <1>1, <1>10
    <2> QED BY <2>2, <2>3 DEF n, G
  <1> QED BY <1>9, <1>10

LEMMA RebalanceOf == IInv => RebalanceReachesTarget
  <1> SUFFICES ASSUME IInv, NEW cash \in CashCases, NEW target \in Targets, ConvertedTotals(cash) # None,
                      NEW b \in DOMAIN Suggestion(cash, target)
               PROVE  LET totals == ConvertedTotals(cash)
                          moves == Suggestion(cash, target)
                          slack == Times(Over(1, 20000), totals.total)
                          goal  == Times(Over(IF b \in DOMAIN target THEN target[b] ELSE 0, 10000), totals.total)
                          off   == Minus(Plus(BucketValue(cash, b), moves[b]), goal)
                      IN  ~Less(slack, off) /\ ~Less(off, Minus(Zero, slack))
    BY DEF RebalanceReachesTarget
  <1> DEFINE t == IF b \in DOMAIN target THEN target[b] ELSE 0
             a == CurrentAt(cash, b)
             n == Part(cash, b)
             G == Grand(cash)
             total == ConvertedTotals(cash).total
  <1>1. PICK k \in Nat : \A c \in InPlay(cash) : RateNow(c) = k * Weight(cash, c)
    BY Conversion
  <1>2. BucketValue(cash, b) = Whole(k * n)
    BY <1>1, HomeAmounts
  <1>3. total = Whole(k * G)
    BY <1>1, HomeAmounts, Conversion
  <1>4. n \in Int /\ G \in Nat
    BY PartsTyped
  <1>5. a \in Int /\ 2 * (a * G - 10000 * n) <= G /\ 2 * (10000 * n - a * G) <= G
    BY CurrentIs
  <1>6. t \in Int
    BY PortfolioAssumption
  <1>7. Suggestion(cash, target)[b] = Times(Over(t - a, 10000), total)
    BY DEF Suggestion, CurrentAt
  <1> HIDE DEF t, a, n, G
  <1>8. OnTarget(k, n, G, a, t)
    <2>1. Close(a, n, G)
      BY <1>5 DEF Close
    <2>2. k \in Nat /\ n \in Int /\ G \in Nat /\ a \in Int /\ t \in Int
      BY <1>4, <1>5, <1>6
    <2> QED BY ONLY <2>1, <2>2, OffBy
  <1> QED BY <1>2, <1>3, <1>7, <1>8 DEF t, OnTarget

(***************************************************************************)
(* Moving what the suggestion says takes every bucket to its target of the *)
(* total shown, off by half of the last digit of the allocation at most:   *)
(* the allocation adds up slices that may not be converted, the total adds *)
(* up all in Home, and the weights come out alike.                         *)
(***************************************************************************)
THEOREM RebalanceReaches == Spec => []RebalanceReachesTarget
  BY RebalanceOf, Invariance, PTL

-----------------------------------------------------------------------------
(***************************************************************************)
(* The chart.                                                              *)
(***************************************************************************)
\* A row that comes after all others is read last.
LEMMA OrderExtends ==
  ASSUME NEW t, NEW ids, NEW k, k \notin ids, IsFiniteSet(ids), Dated(t, ids \cup {k}),
         \A i \in ids : Precedes(t, i, k)
  PROVE  InOrder(t, ids \cup {k}) = Append(InOrder(t, ids), t[k])
  <1> DEFINE all == ids \cup {k}
             rank(i)  == Cardinality(UpTo(t, ids, i))
             rank2(i) == Cardinality(UpTo(t, all, i))
             n == Cardinality(ids)
             X == {t[i] : i \in all}
             c == InOrder(t, ids)
             d == InOrder(t, all)
  <1>1. n \in Nat /\ IsFiniteSet(all) /\ Cardinality(all) = n + 1
    BY FS_CardinalityType, FS_AddElement
  <1>2. Dated(t, ids)
    BY DEF Dated
  <1>3. /\ \A i \in ids : rank(i) \in 1 .. n
        /\ \A i, j \in ids : Precedes(t, i, j) => rank(i) < rank(j)
        /\ \A p \in 1 .. n : \E i \in ids : rank(i) = p
    BY <1>2, RankFacts
  <1>4. \A i \in ids : UpTo(t, all, i) = UpTo(t, ids, i)
    <2> SUFFICES ASSUME NEW i \in ids PROVE UpTo(t, all, i) = UpTo(t, ids, i)
      OBVIOUS
    <2>1. ~Precedes(t, k, i) /\ k # i
      BY PrecedesOrder
    <2> QED BY <2>1 DEF UpTo
  <1>5. UpTo(t, all, k) = all
    BY DEF UpTo
  <1>6. (\A i \in ids : rank2(i) = rank(i)) /\ rank2(k) = n + 1
    BY <1>1, <1>4, <1>5
  <1>7. \A i, j \in ids : rank(i) = rank(j) => i = j
    <2>1. \A i, j \in ids : i # j => Precedes(t, i, j) \/ Precedes(t, j, i)
      BY <1>2, PrecedesOrder
    <2>2. \A i, j \in ids : i # j => rank(i) < rank(j) \/ rank(j) < rank(i)
      BY <1>3, <2>1
    <2>3. \A i \in ids : rank(i) \in Nat
      BY <1>1, <1>3
    <2> HIDE DEF rank
    <2> QED BY <2>2, <2>3
  <1>8. /\ d = [p \in 1 .. n + 1 |-> t[CHOOSE i \in all : rank2(i) = p]]
        /\ c = [p \in 1 .. n |-> t[CHOOSE i \in ids : rank(i) = p]]
    BY <1>1 DEF InOrder, UpTo
  <1> HIDE DEF rank, rank2, c, d
  <1>9. ASSUME NEW p \in 1 .. n PROVE d[p] = c[p] /\ c[p] \in X
    <2> DEFINE x == CHOOSE i \in all : rank2(i) = p
               y == CHOOSE i \in ids : rank(i) = p
    <2>1. y \in ids /\ rank(y) = p
      BY <1>3
    <2>2. x \in all /\ rank2(x) = p
      BY <1>6, <2>1
    <2>3. d[p] = t[x] /\ c[p] = t[y]
      <3>1. p \in 1 .. n + 1
        BY <1>1
      <3> QED BY <1>8, <3>1
    <2> HIDE DEF x, y
    <2>4. x # k
      BY <1>1, <1>6, <2>2
    <2>5. x = y
      BY <1>6, <1>7, <2>1, <2>2, <2>4
    <2> QED BY <2>1, <2>3, <2>5
  <1>10. d[n + 1] = t[k]
    <2> DEFINE x == CHOOSE i \in all : rank2(i) = n + 1
    <2>1. x \in all /\ rank2(x) = n + 1
      BY <1>6
    <2>2. d[n + 1] = t[x]
      <3>1. n + 1 \in 1 .. n + 1
        BY <1>1
      <3> QED BY <1>8, <3>1
    <2> HIDE DEF x
    <2>3. x = k
      BY <1>1, <1>3, <1>6, <2>1
    <2> QED BY <2>2, <2>3
  <1>11. c \in Seq(X) /\ Len(c) = n
    <2>1. c = [p \in 1 .. n |-> c[p]]
      BY <1>8
    <2>2. \A p \in 1 .. n : c[p] \in X
      BY <1>9
    <2> HIDE DEF X, n
    <2> QED BY <1>1, <2>1, <2>2
  <1>12. t[k] \in X
    OBVIOUS
  <1>13. d \in Seq(X) /\ Len(d) = n + 1
    <2>1. d = [p \in 1 .. n + 1 |-> d[p]]
      BY <1>8
    <2>2. \A p \in 1 .. n + 1 : d[p] \in X
      BY <1>1, <1>9, <1>10, <1>12
    <2> HIDE DEF X, n
    <2> QED BY <1>1, <2>1, <2>2
  <1> DEFINE e == Append(c, t[k])
  <1> HIDE DEF X, n
  <1>14. e \in Seq(X) /\ Len(e) = n + 1 /\ (\A p \in 1 .. n : e[p] = c[p]) /\ e[n + 1] = t[k]
    BY <1>11, <1>12, AppendProperties
  <1>15. \A p \in 1 .. n + 1 : d[p] = e[p]
    BY <1>1, <1>9, <1>10, <1>14
  <1>16. d = e
    <2> HIDE DEF e
    <2> QED BY <1>13, <1>14, <1>15, SeqEqual
  <1> QED BY <1>16 DEF c, d

\* The chart keeps the books of all symbols at once.
AllBooks == [Symbols -> Books]

PosWalk(b, r) == FoldLeft(PosStep, b, r)

IsPosWalk(h, b, d) ==
    h = [w \in SUBSET DOMAIN d |->
            IF w = {} THEN b ELSE PosStep(h[w \ {Max(w)}], d[Max(w)])]

LEMMA PosWalkIsWalk == \A b, d : PosWalk(b, d) = (CHOOSE h : IsPosWalk(h, b, d))[DOMAIN d]
  BY DEF PosWalk, FoldLeft, MapThenFoldSet, IsPosWalk

LEMMA PosStepType ==
  \A b \in AllBooks, x \in TradeRow :
     /\ PosStep(b, x) \in AllBooks
     /\ \A s \in Symbols : PosStep(b, x)[s] = IF x.sym = s THEN CostStep(b[s], x) ELSE b[s]
  <1> SUFFICES ASSUME NEW b \in AllBooks, NEW x \in TradeRow
               PROVE  /\ PosStep(b, x) \in AllBooks
                      /\ \A s \in Symbols : PosStep(b, x)[s] = IF x.sym = s THEN CostStep(b[s], x) ELSE b[s]
    OBVIOUS
  <1>1. x.sym \in Symbols
    BY DEF TradeRow
  <1>2. \A s \in Symbols : b[s] \in Books /\ CostStep(b[s], x) \in Books
    BY CostStepType DEF AllBooks
  <1>3. PosStep(b, x) = [s \in Symbols |-> IF x.sym = s THEN CostStep(b[s], x) ELSE b[s]]
    BY <1>1 DEF PosStep, AllBooks
  <1> QED BY <1>2, <1>3 DEF AllBooks

LEMMA PosUnfold ==
  ASSUME NEW b \in AllBooks
  PROVE  /\ PosWalk(b, << >>) = b
         /\ \A r \in Seq(TradeRow) : PosWalk(b, r) \in AllBooks
         /\ \A r \in Seq(TradeRow), x \in TradeRow : PosWalk(b, Append(r, x)) = PosStep(PosWalk(b, r), x)
  <1> DEFINE V == AllBooks
             G == [p \in V \X TradeRow |-> PosStep(p[1], p[2])]
  <1>1. \A v \in V, x \in TradeRow : PosStep(v, x) \in V /\ G[<<v, x>>] = PosStep(v, x)
    BY PosStepType
  <1>2. G \in [V \X TradeRow -> V]
    BY <1>1
  <1> HIDE DEF G, V
  <1>3. PICK f : FoldsBy(f, G, b, TradeRow, V)
    BY <1>2, SequenceFold DEF V
  <1>4. ASSUME NEW s \in Seq(TradeRow) PROVE PosWalk(b, s) = f[s]
    <2> DEFINE S == DOMAIN s
               c == [w \in SUBSET S |-> Max(w)]
               k == CHOOSE h : IsPosWalk(h, b, s)
    <2>1. IsFiniteSet(S) /\ \A w \in SUBSET S : w # {} => Max(w) \in w /\ c[w] = Max(w)
      BY LargestPlace
    <2>2. PICK h \in [SUBSET S -> V] : IsSeqFold(h, s, G, b) /\ h[S] = f[s]
      BY <1>3 DEF FoldsBy
    <2>3. \A p \in S : s[p] \in TradeRow
      BY ElementOfSeq
    <2>4. ASSUME NEW w \in SUBSET S
          PROVE  h[w] = IF w = {} THEN b ELSE PosStep(h[w \ {Max(w)}], s[Max(w)])
      <3>1. h[w] = IF w = {} THEN b ELSE G[<<h[w \ {Max(w)}], s[Max(w)]>>]
        BY <2>2 DEF IsSeqFold
      <3>2. w # {} => h[w \ {Max(w)}] \in V /\ s[Max(w)] \in TradeRow
        BY <2>1, <2>3
      <3> QED BY <1>1, <3>1, <3>2
    <2>5. IsPosWalk(h, b, s)
      <3>1. h = [w \in SUBSET S |-> h[w]]
        OBVIOUS
      <3> QED BY <2>4, <3>1 DEF IsPosWalk
    <2> HIDE DEF k
    <2>6. IsPosWalk(k, b, s)
      BY <2>5 DEF k
    <2>7. AgreeByStep(h, k, S, c)
      <3>1. {} \in SUBSET S /\ h[{}] = k[{}]
        BY <2>5, <2>6 DEF IsPosWalk
      <3>2. ASSUME NEW w \in SUBSET S, w # {}, h[w \ {c[w]}] = k[w \ {c[w]}] PROVE h[w] = k[w]
        <4>1. h[w \ {Max(w)}] = k[w \ {Max(w)}]
          BY <2>1, <3>2
        <4>2. h[w] = PosStep(h[w \ {Max(w)}], s[Max(w)])
          BY <2>4, <3>2
        <4>3. k[w] = PosStep(k[w \ {Max(w)}], s[Max(w)])
          BY <2>6, <3>2 DEF IsPosWalk
        <4> QED BY <4>1, <4>2, <4>3
      <3> HIDE DEF S, c
      <3> QED BY <2>1, <3>1, <3>2 DEF AgreeByStep
    <2>8. h[S] = k[S]
      <3> HIDE DEF S, c
      <3> QED BY <2>1, <2>7, SameFold
    <2> QED BY <2>2, <2>8, PosWalkIsWalk DEF k
  <1>5. << >> \in Seq(TradeRow) /\ \A s \in Seq(TradeRow), x \in TradeRow : Append(s, x) \in Seq(TradeRow)
    OBVIOUS
  <1>6. /\ f[<< >>] = b
        /\ \A s \in Seq(TradeRow) : f[s] \in V
        /\ \A s \in Seq(TradeRow), x \in TradeRow : f[Append(s, x)] = PosStep(f[s], x)
    BY <1>1, <1>3 DEF FoldsBy
  <1> QED BY <1>4, <1>5, <1>6 DEF V

\* h: the places of the table in the order the rows are read in.
ReadOrder(h) ==
    LET rows == AllOrdered(trades)
        N    == Len(trades)
    IN  /\ N \in Nat /\ DOMAIN trades = 1 .. N /\ rows \in Seq(TradeRow) /\ Len(rows) = N
        /\ h \in [1 .. N -> 1 .. N] /\ {h[p] : p \in 1 .. N} = 1 .. N
        /\ \A p \in 1 .. N : rows[p] = trades[h[p]]
        /\ \A p, q \in 1 .. N : p < q => Precedes(trades, h[p], h[q])

LEMMA ReadOrderExists == Typed => \E h : ReadOrder(h)
  <1> SUFFICES ASSUME Typed PROVE \E h : ReadOrder(h)
    OBVIOUS
  <1> DEFINE N == Len(trades)
             ids == DOMAIN trades
             rows == AllOrdered(trades)
  <1>1. N \in Nat /\ ids = 1 .. N
    BY DEF Typed
  <1>2. rows \in Seq(TradeRow) /\ IsFiniteSet(ids) /\ Dated(trades, ids)
    BY InOrderTyped DEF AllOrdered
  <1>3. Cardinality(ids) = N
    <2> HIDE DEF ids, N
    <2>1. 1 \in Int /\ N \in Int
      BY <1>1
    <2>2. Cardinality(1 .. N) = IF 1 > N THEN 0 ELSE N - 1 + 1
      BY <2>1, FS_Interval
    <2>3. Cardinality(1 .. N) = N
      BY <1>1, <2>2
    <2> QED BY <1>1, <2>3
  <1>4. PICK h \in [1 .. N -> ids] :
           /\ \A p \in 1 .. N : rows[p] = trades[h[p]]
           /\ \A p, q \in 1 .. N : p < q => Precedes(trades, h[p], h[q])
           /\ {h[p] : p \in 1 .. N} = ids
    <2>1. rows = InOrder(trades, ids)
      BY DEF AllOrdered
    <2> HIDE DEF rows, ids, N
    <2>0. IsFiniteSet(ids) /\ Dated(trades, ids)
      BY <1>2
    <2>2. LET n == Cardinality(ids)
              c == InOrder(trades, ids)
          IN  /\ n \in Nat /\ DOMAIN c = 1 .. n /\ c = [p \in 1 .. n |-> c[p]]
              /\ \E h \in [1 .. n -> ids] :
                    /\ \A p \in 1 .. n : c[p] = trades[h[p]]
                    /\ \A p, q \in 1 .. n : p < q => Precedes(trades, h[p], h[q])
                    /\ {h[p] : p \in 1 .. n} = ids
      BY ONLY <2>0, OrderedPlaces, SMT
    <2> QED BY <1>3, <2>1, <2>2
  <1>5. Len(rows) = N
    <2>1. DOMAIN rows = 1 .. N
      <3>1. rows = InOrder(trades, ids)
        BY DEF AllOrdered
      <3> HIDE DEF rows, ids, N
      <3> QED BY <1>2, <1>3, <3>1, OrderedPlaces
    <2> HIDE DEF rows, N
    <2> QED BY <1>1, <1>2, <2>1
  <1> HIDE DEF rows, ids, N
  <1>6. h \in [1 .. N -> 1 .. N] /\ {h[p] : p \in 1 .. N} = 1 .. N
    BY <1>1, <1>4
  <1> QED BY <1>1, <1>2, <1>4, <1>5, <1>6 DEF ReadOrder, rows, ids, N

\* The rows of a symbol among the first m.
Firsts(h, m, s) == {h[p] : p \in {q \in 1 .. m : trades[h[q]].sym = s}}

\* Row m joins the rows F of its symbol, after all of them.
Joins(h, m, F, G) ==
    /\ G = F \cup {h[m]} /\ h[m] \notin F
    /\ \A i \in F : Precedes(trades, i, h[m])

LEMMA FirstsStep ==
  ASSUME Typed, NEW h, ReadOrder(h), NEW m \in 1 .. Len(trades), NEW s
  PROVE  /\ Firsts(h, m - 1, s) \in SUBSET DOMAIN trades /\ h[m] \in DOMAIN trades
         /\ trades[h[m]].sym # s => Firsts(h, m, s) = Firsts(h, m - 1, s)
         /\ trades[h[m]].sym = s => Joins(h, m, Firsts(h, m - 1, s), Firsts(h, m, s))
  <1> DEFINE N == Len(trades)
             P(k) == {q \in 1 .. k : trades[h[q]].sym = s}
  <1>1. /\ N \in Nat /\ DOMAIN trades = 1 .. N
        /\ \A p \in 1 .. N : h[p] \in 1 .. N
        /\ \A p, q \in 1 .. N : p < q => Precedes(trades, h[p], h[q])
    BY DEF ReadOrder
  <1>2. m \in Nat /\ m - 1 \in Nat /\ 1 .. m = (1 .. m - 1) \cup {m} /\ m \in 1 .. N
        /\ \A p \in 1 .. m - 1 : p \in 1 .. N /\ p < m
    BY <1>1
  <1>3. Firsts(h, m - 1, s) = {h[p] : p \in P(m - 1)} /\ Firsts(h, m, s) = {h[p] : p \in P(m)}
    BY DEF Firsts
  <1>4. P(m - 1) \subseteq 1 .. m - 1
    OBVIOUS
  <1>5. P(m) = IF trades[h[m]].sym = s THEN P(m - 1) \cup {m} ELSE P(m - 1)
    BY <1>2
  <1> HIDE DEF P
  <1>6. Dated(trades, DOMAIN trades)
    BY InOrderTyped
  <1>7. \A i \in Firsts(h, m - 1, s) : Precedes(trades, i, h[m]) /\ i \in DOMAIN trades
    BY <1>1, <1>2, <1>3, <1>4
  <1>8. h[m] \notin Firsts(h, m - 1, s)
    BY <1>1, <1>2, <1>6, <1>7, PrecedesOrder
  <1>9. trades[h[m]].sym = s => Firsts(h, m, s) = Firsts(h, m - 1, s) \cup {h[m]}
    BY <1>3, <1>5
  <1> QED BY <1>1, <1>2, <1>3, <1>5, <1>7, <1>8, <1>9 DEF Joins

\* The books of all symbols after the first m rows.
BooksAt(h, m) == [s \in Symbols |-> CostWalk(InOrder(trades, Firsts(h, m, s)))]

LEMMA BooksStep ==
  ASSUME Typed, NEW h, ReadOrder(h)
  PROVE  /\ BooksAt(h, 0) = [s \in Symbols |-> NoPosition]
         /\ \A m \in 0 .. Len(trades) : BooksAt(h, m) \in AllBooks
         /\ \A m \in 1 .. Len(trades) : BooksAt(h, m) = PosStep(BooksAt(h, m - 1), AllOrdered(trades)[m])
  <1> DEFINE N == Len(trades)
             rows == AllOrdered(trades)
  <1>1. N \in Nat /\ DOMAIN trades = 1 .. N /\ (\A p \in 1 .. N : h[p] \in 1 .. N /\ rows[p] = trades[h[p]])
        /\ rows \in Seq(TradeRow) /\ Len(rows) = N
    BY DEF ReadOrder
  <1>2. BooksAt(h, 0) = [s \in Symbols |-> NoPosition]
    <2>1. \A s \in Symbols : Firsts(h, 0, s) = {}
      BY DEF Firsts
    <2>2. InOrder(trades, {}) = << >>
      <3>1. {} \in SUBSET DOMAIN trades
        OBVIOUS
      <3>2. InOrder(trades, {}) \in Seq(TradeRow) /\ IsFiniteSet({}) /\ Dated(trades, {})
        BY <3>1, InOrderTyped
      <3>3. DOMAIN InOrder(trades, {}) = 1 .. 0
        BY <3>2, OrderedPlaces, FS_EmptySet
      <3> QED BY <3>2, <3>3
    <2>3. CostWalk(<< >>) = NoPosition
      BY CostUnfold
    <2> QED BY <2>1, <2>2, <2>3 DEF BooksAt
  <1>3. ASSUME NEW m \in 0 .. N PROVE BooksAt(h, m) \in AllBooks
    <2>1. ASSUME NEW s \in Symbols PROVE CostWalk(InOrder(trades, Firsts(h, m, s))) \in Books
      <3>1. Firsts(h, m, s) \in SUBSET DOMAIN trades
        <4>1. \A p \in 1 .. m : p \in 1 .. N
          BY <1>1
        <4> QED BY <1>1, <4>1 DEF Firsts
      <3>2. InOrder(trades, Firsts(h, m, s)) \in Seq(TradeRow)
        BY <3>1, InOrderTyped
      <3> QED BY <3>2, CostUnfold
    <2> QED BY <2>1 DEF BooksAt, AllBooks
  <1>4. ASSUME NEW m \in 1 .. N PROVE BooksAt(h, m) = PosStep(BooksAt(h, m - 1), rows[m])
    <2> DEFINE x == rows[m]
               b == BooksAt(h, m - 1)
               c == PosStep(b, x)
    <2>1. x \in TradeRow /\ x = trades[h[m]] /\ m - 1 \in 0 .. N /\ x.sym \in Symbols
      <3>1. x \in TradeRow
        BY <1>1, ElementOfSeq
      <3>2. x.sym \in Symbols
        BY <3>1 DEF TradeRow
      <3>3. x = trades[h[m]] /\ m - 1 \in 0 .. N
        BY <1>1
      <3> QED BY <3>1, <3>2, <3>3
    <2>2. b \in AllBooks
      BY <1>3, <2>1
    <2> HIDE DEF x
    <2>3. c \in AllBooks /\ \A s \in Symbols : c[s] = IF x.sym = s THEN CostStep(b[s], x) ELSE b[s]
      BY <2>1, <2>2, PosStepType
    <2>4. ASSUME NEW s \in Symbols PROVE BooksAt(h, m)[s] = c[s]
      <3> DEFINE F == Firsts(h, m - 1, s)
                 o == InOrder(trades, F)
      <3>1. b[s] = CostWalk(o) /\ BooksAt(h, m)[s] = CostWalk(InOrder(trades, Firsts(h, m, s)))
        BY DEF BooksAt
      <3>2. F \in SUBSET DOMAIN trades /\ h[m] \in DOMAIN trades
        BY FirstsStep
      <3>3. CASE x.sym # s
        BY <2>1, <2>3, <3>1, <3>3, FirstsStep
      <3>4. CASE x.sym = s
        <4>1. /\ Firsts(h, m, s) = F \cup {h[m]} /\ h[m] \notin F
              /\ \A i \in F : Precedes(trades, i, h[m])
          <5>1. Joins(h, m, F, Firsts(h, m, s))
            BY <2>1, <3>4, FirstsStep
          <5> QED BY <5>1 DEF Joins
        <4> HIDE DEF F
        <4>2. o \in Seq(TradeRow) /\ IsFiniteSet(F) /\ Dated(trades, F \cup {h[m]})
          <5>1. F \cup {h[m]} \in SUBSET DOMAIN trades
            BY <3>2
          <5> QED BY <3>2, <5>1, InOrderTyped
        <4>3. InOrder(trades, F \cup {h[m]}) = Append(o, x)
          BY <2>1, <4>1, <4>2, OrderExtends
        <4> HIDE DEF o
        <4>4. CostWalk(Append(o, x)) = CostStep(CostWalk(o), x)
          BY <2>1, <4>2, CostUnfold
        <4> QED BY <2>3, <3>1, <3>4, <4>1, <4>3, <4>4
      <3> QED BY <3>3, <3>4
    <2>5. BooksAt(h, m) \in AllBooks
      BY <1>3
    <2> HIDE DEF c, b
    <2>6. BooksAt(h, m) = c
      BY <2>3, <2>4, <2>5 DEF AllBooks
    <2> QED BY <2>6 DEF c, b, x
  <1> QED BY <1>2, <1>3, <1>4

\* The rows from one place to the next take the books along.
LEMMA BooksAlong ==
  ASSUME Typed, NEW h, ReadOrder(h), NEW d \in 0 .. Len(trades)
  PROVE  \A u \in d .. Len(trades) : PosWalk(BooksAt(h, d), SubSeq(AllOrdered(trades), d + 1, u)) = BooksAt(h, u)
  <1> DEFINE N == Len(trades)
             rows == AllOrdered(trades)
             b == BooksAt(h, d)
             part(u) == SubSeq(rows, d + 1, u)
             bad == {u \in d .. N : PosWalk(b, part(u)) # BooksAt(h, u)}
  <1>1. N \in Nat /\ rows \in Seq(TradeRow) /\ Len(rows) = N
    BY DEF ReadOrder
  <1>2. b \in AllBooks
    BY BooksStep
  <1>3. SUFFICES ASSUME bad # {} PROVE FALSE
    OBVIOUS
  <1>4. PICK m \in bad : \A u \in bad : m <= u
    <2>1. bad \subseteq Nat
      BY <1>1
    <2> HIDE DEF bad
    <2> QED BY <1>3, <2>1, SmallestMember
  <1>5. m \in d .. N /\ PosWalk(b, part(m)) # BooksAt(h, m)
    OBVIOUS
  <1>6. m # d
    <2>1. part(d) = << >>
      <3>1. d + 1 \in Int /\ d \in Int /\ d < d + 1
        BY <1>1
      <3> QED BY <3>1, SubSeqEmpty
    <2> QED BY <1>2, <1>5, <2>1, PosUnfold
  <1>7. m - 1 \in d .. N /\ m - 1 \notin bad /\ m \in 1 .. N
    BY <1>1, <1>4, <1>5, <1>6
  <1>8. PosWalk(b, part(m - 1)) = BooksAt(h, m - 1)
    BY <1>7
  <1>9. part(m) = Append(part(m - 1), rows[m]) /\ part(m - 1) \in Seq(TradeRow) /\ rows[m] \in TradeRow
    <2>1. \A i \in 1 .. N : rows[i] \in TradeRow
      BY <1>1, ElementOfSeq
    <2>2. /\ part(m) \in Seq(TradeRow) /\ Len(part(m)) = m - d /\ \A i \in 1 .. m - d : part(m)[i] = rows[d + i]
          /\ part(m - 1) \in Seq(TradeRow) /\ Len(part(m - 1)) = m - 1 - d
          /\ \A i \in 1 .. m - 1 - d : part(m - 1)[i] = rows[d + i]
      <3>1. d + 1 \in Int /\ m \in Int /\ m - 1 \in Int /\ d \in Int
        BY <1>1, <1>5
      <3>2. (\A i \in d + 1 .. m : rows[i] \in TradeRow) /\ (\A i \in d + 1 .. m - 1 : rows[i] \in TradeRow)
        BY <1>1, <1>5, <2>1, <3>1
      <3>3. /\ part(m) \in Seq(TradeRow) /\ Len(part(m)) = (IF d + 1 <= m THEN m - (d + 1) + 1 ELSE 0)
            /\ \A i \in 1 .. m - (d + 1) + 1 : part(m)[i] = rows[d + 1 + i - 1]
        BY <3>1, <3>2, SubSeqProperties
      <3>4. /\ part(m - 1) \in Seq(TradeRow)
            /\ Len(part(m - 1)) = (IF d + 1 <= m - 1 THEN m - 1 - (d + 1) + 1 ELSE 0)
            /\ \A i \in 1 .. m - 1 - (d + 1) + 1 : part(m - 1)[i] = rows[d + 1 + i - 1]
        BY <3>1, <3>2, SubSeqProperties
      <3>5. /\ d + 1 <= m /\ m - (d + 1) + 1 = m - d /\ m - 1 - (d + 1) + 1 = m - 1 - d
            /\ \A i \in Int : d + 1 + i - 1 = d + i
            /\ (IF d + 1 <= m - 1 THEN m - 1 - (d + 1) + 1 ELSE 0) = m - 1 - d
        BY <1>5, <1>6, <3>1
      <3> HIDE DEF part, rows, N
      <3>6. ASSUME NEW i \in 1 .. m - d PROVE part(m)[i] = rows[d + i]
        <4>1. i \in Int /\ d + 1 + i - 1 = d + i /\ i \in 1 .. m - (d + 1) + 1
          BY <3>1, <3>5
        <4> QED BY <3>3, <4>1
      <3>7. ASSUME NEW i \in 1 .. m - 1 - d PROVE part(m - 1)[i] = rows[d + i]
        BY <3>1, <3>4, <3>5
      <3>8. Len(part(m)) = m - d /\ Len(part(m - 1)) = m - 1 - d
        BY <3>3, <3>4, <3>5
      <3> QED BY <3>3, <3>4, <3>6, <3>7, <3>8
    <2> DEFINE q == part(m)
               r == part(m - 1)
               x == rows[m]
               e == Append(r, x)
               k == m - 1 - d
    <2>3. q \in Seq(TradeRow) /\ r \in Seq(TradeRow) /\ x \in TradeRow /\ Len(q) = k + 1 /\ Len(r) = k /\ k \in Nat
          /\ q[k + 1] = x /\ \A i \in 1 .. k : q[i] = r[i]
      <3>1. m - d = k + 1 /\ k \in Nat /\ d + (k + 1) = m /\ k + 1 \in 1 .. m - d /\ \A i \in 1 .. k : i \in 1 .. m - d
        BY <1>5, <1>6
      <3>2. rows[m] \in TradeRow
        BY <1>7, <2>1
      <3> HIDE DEF part, rows
      <3> QED BY <2>2, <3>1, <3>2
    <2> HIDE DEF q, r, x, k
    <2>4. e \in Seq(TradeRow) /\ Len(e) = k + 1 /\ (\A i \in 1 .. k : e[i] = r[i]) /\ e[k + 1] = x
      BY <2>3, AppendProperties
    <2> HIDE DEF e
    <2>5. \A i \in 1 .. k + 1 : q[i] = e[i]
      BY <2>3, <2>4
    <2>6. q = e
      BY <2>3, <2>4, <2>5, SeqEqual
    <2> QED BY <2>3, <2>6 DEF q, r, x, e
  <1>10. PosWalk(b, part(m)) = PosStep(BooksAt(h, m - 1), rows[m])
    <2> HIDE DEF part, rows, b
    <2> QED BY <1>2, <1>8, <1>9, PosUnfold
  <1> QED BY <1>5, <1>7, <1>10, BooksStep

-----------------------------------------------------------------------------
(***************************************************************************)
(* The price lists.                                                        *)
(***************************************************************************)
\* The days of S in order.
IsAscending(c, S) ==
    /\ c \in Seq(S) /\ Len(c) = Cardinality(S)
    /\ \A p, q \in DOMAIN c : p < q => c[p] < c[q]
    /\ \A d \in S : \E p \in DOMAIN c : c[p] = d

LEMMA AscendingOrder == \A S : S \subseteq Int /\ IsFiniteSet(S) => IsAscending(Ascending(S), S)
  <1> SUFFICES ASSUME NEW S, S \subseteq Int, IsFiniteSet(S) PROVE IsAscending(Ascending(S), S)
    OBVIOUS
  <1> DEFINE t == [d \in S |-> [at |-> d, type |-> "BUY"]]
             n == Cardinality(S)
             rank(d) == Cardinality(UpTo(t, S, d))
             c == Ascending(S)
  <1>1. \A d, e \in S : Precedes(t, d, e) <=> d < e
    BY DEF Precedes, Earlier, SideRank
  <1>2. Dated(t, S)
    BY DEF Dated
  <1>3. \A d \in S : UpTo(t, S, d) = {e \in S : e <= d}
    <2> SUFFICES ASSUME NEW d \in S PROVE UpTo(t, S, d) = {e \in S : e <= d}
      OBVIOUS
    <2>1. \A e \in S : (e = d \/ Precedes(t, e, d)) <=> e <= d
      <3>1. \A e \in S : e \in Int /\ d \in Int
        OBVIOUS
      <3> QED BY <1>1, <3>1
    <2> HIDE DEF t
    <2> QED BY <2>1 DEF UpTo
  <1> HIDE DEF t
  <1>4. /\ \A d \in S : rank(d) \in 1 .. n
        /\ \A d, e \in S : Precedes(t, d, e) => rank(d) < rank(e)
        /\ \A p \in 1 .. n : \E d \in S : rank(d) = p
    BY <1>2, RankFacts
  <1>5. n \in Nat
    BY FS_CardinalityType
  <1> DEFINE at(p) == CHOOSE d \in S : rank(d) = p
  <1>6. c = [p \in 1 .. n |-> at(p)]
    <2> DEFINE g(p) == CHOOSE d \in S : Cardinality({e \in S : e <= d}) = p
    <2>1. \A p \in 1 .. n : g(p) = at(p)
      BY <1>3
    <2>2. c = [p \in 1 .. n |-> g(p)]
      BY DEF Ascending
    <2> HIDE DEF g, at, n, c
    <2> QED BY <2>1, <2>2
  <1> HIDE DEF rank, c, n
  <1>7. \A p \in 1 .. n : at(p) \in S /\ rank(at(p)) = p
    BY <1>4
  <1>8. \A d, e \in S : rank(d) = rank(e) => d = e
    <2>1. \A d \in S : rank(d) \in Int
      BY <1>4, <1>5
    <2>2. \A d, e \in S : d < e => rank(d) < rank(e)
      BY <1>1, <1>4
    <2>3. \A d, e \in S : d # e => rank(d) # rank(e)
      BY <2>1, <2>2
    <2> QED BY <2>3
  <1> HIDE DEF at
  <1>9. c \in Seq(S) /\ Len(c) = n /\ DOMAIN c = 1 .. n /\ \A p \in 1 .. n : c[p] = at(p)
    BY <1>5, <1>6, <1>7
  <1>10. ASSUME NEW p \in 1 .. n, NEW q \in 1 .. n, p < q PROVE c[p] < c[q]
    <2>1. at(p) \in S /\ at(q) \in S /\ rank(at(p)) = p /\ rank(at(q)) = q
      BY <1>7
    <2>2. at(p) \in Int /\ at(q) \in Int
      BY <2>1
    <2>3. ~(at(q) < at(p)) /\ at(p) # at(q)
      <3>1. ASSUME at(q) < at(p) PROVE q < p
        <4>1. Precedes(t, at(q), at(p))
          BY <1>1, <2>1, <3>1
        <4>2. rank(at(q)) < rank(at(p))
          BY <1>4, <2>1, <4>1
        <4> QED BY <2>1, <4>2
      <3> QED BY <1>5, <1>10, <2>1, <3>1
    <2> QED BY <1>9, <2>2, <2>3
  <1>11. ASSUME NEW d \in S PROVE \E p \in 1 .. n : c[p] = d
    <2>1. rank(d) \in 1 .. n /\ at(rank(d)) = d
      BY <1>4, <1>7, <1>8
    <2> QED BY <1>9, <2>1
  <1> QED BY <1>9, <1>10, <1>11 DEF IsAscending, c, n

-----------------------------------------------------------------------------
\* The price pointer stands at the last price up to t, or before the first.
Stands(prices, ptr, t) ==
    /\ ptr \in Nat /\ ptr <= Len(prices)
    /\ ptr > 0 => prices[ptr].at <= t

PricePoint == [at : Nat, price : Nat]

IsPriceList(prices, table, since) ==
    /\ prices \in Seq(PricePoint)
    /\ \A p, q \in DOMAIN prices : p < q => prices[p].at < prices[q].at
    /\ \A p \in DOMAIN prices : prices[p].at \in DOMAIN table /\ prices[p].price = table[prices[p].at]
    /\ \A d \in DOMAIN table : d >= since => \E p \in DOMAIN prices : prices[p].at = d
    /\ \A d \in DOMAIN table : d < since => \E p \in DOMAIN prices : d <= prices[p].at /\ prices[p].at < since

\* A table of quotes that ends now, with finitely many rows.
IsTable(table) == DOMAIN table \subseteq Nat /\ IsFiniteSet(DOMAIN table) /\ IsQuotes(table)

LEMMA TablesOf ==
  ASSUME IInv
  PROVE  /\ \A s \in Symbols : IsTable(points[s]) /\ DOMAIN points[s] \subseteq 1 .. clock
         /\ IsTable(snaps) /\ clock \in Nat /\ clock > 0
  <1>1. clock \in Nat /\ clock > 0
    BY InstantIsPositive DEF IInv, TypeOK
  <1>2. IsFiniteSet(1 .. clock)
    BY <1>1, FS_Interval
  <1>3. ASSUME NEW T, T \subseteq 1 .. clock PROVE T \subseteq Nat /\ IsFiniteSet(T)
    <2>1. T \in SUBSET (1 .. clock)
      BY <1>3
    <2>2. IsFiniteSet(T)
      BY <1>2, <2>1, FS_Subset
    <2> QED BY <1>1, <2>1, <2>2
  <1> QED BY <1>1, <1>3 DEF IInv, TypeOK, Typed, IsTable

LEMMA PriceListOf ==
  ASSUME NEW s, IsTable(points[s]), NEW since \in Int
  PROVE  IsPriceList(PricesSince(s, since), points[s], since)
  <1> DEFINE days == DOMAIN points[s]
             seed == {d \in days : d < since /\ \A e \in days : e < since => e <= d}
             S == {d \in days : d >= since} \cup seed
             kept == Ascending(S)
             table == points[s]
  <1>1. days \subseteq Nat /\ IsFiniteSet(days) /\ \A d \in days : table[d] \in Nat
    BY DEF IsTable, IsQuotes
  <1>2. S \subseteq days /\ IsFiniteSet(S) /\ S \subseteq Int
    <2>1. S \subseteq days
      OBVIOUS
    <2> HIDE DEF S
    <2> QED BY <1>1, <2>1, FS_Subset
  <1>3. IsAscending(kept, S)
    BY <1>2, AscendingOrder
  <1>4. \A d \in days : d < since => \E e \in seed : d <= e
    <2> SUFFICES ASSUME NEW d \in days, d < since PROVE \E e \in seed : d <= e
      OBVIOUS
    <2> DEFINE past == {e \in days : e < since}
    <2>1. past \subseteq Nat /\ past # {} /\ IsFiniteSet(past)
      BY <1>1, FS_Subset
    <2>2. \E e \in past : \A k \in past : k <= e
      <3> HIDE DEF past, days
      <3> QED BY <2>1, LargestOfFinite
    <2> QED BY <2>2
  <1> HIDE DEF S, kept
  <1>5. /\ kept \in Seq(S) /\ \A p, q \in DOMAIN kept : p < q => kept[p] < kept[q]
        /\ \A d \in S : \E p \in DOMAIN kept : kept[p] = d
        /\ DOMAIN kept = 1 .. Len(kept) /\ Len(kept) \in Nat
        /\ \A p \in DOMAIN kept : kept[p] \in S
    BY <1>3, ElementOfSeq DEF IsAscending
  <1> DEFINE prices == [k \in DOMAIN kept |-> [at |-> kept[k], price |-> table[kept[k]]]]
  <1>6. PricesSince(s, since) = prices
    BY DEF PricesSince, S, kept
  <1>7. \A p \in DOMAIN kept : /\ prices[p] \in PricePoint /\ prices[p].at = kept[p]
                               /\ prices[p].price = table[kept[p]] /\ kept[p] \in days
    BY <1>1, <1>2, <1>5 DEF PricePoint
  <1>8. DOMAIN prices = DOMAIN kept /\ prices = [k \in 1 .. Len(kept) |-> prices[k]]
    BY <1>5
  <1> HIDE DEF prices
  <1>9. prices \in Seq(PricePoint)
    BY <1>5, <1>7, <1>8
  <1>10. \A p, q \in DOMAIN prices : p < q => prices[p].at < prices[q].at
    BY <1>5, <1>7, <1>8
  <1>11. \A p \in DOMAIN prices : prices[p].at \in days /\ prices[p].price = table[prices[p].at]
    BY <1>7, <1>8
  <1>12. \A d \in days : d >= since => \E p \in DOMAIN prices : prices[p].at = d
    <2>1. \A d \in days : d >= since => d \in S
      BY DEF S
    <2> QED BY <1>5, <1>7, <1>8, <2>1
  <1>13. \A d \in days : d < since => \E p \in DOMAIN prices : d <= prices[p].at /\ prices[p].at < since
    <2> SUFFICES ASSUME NEW d \in days, d < since
                 PROVE  \E p \in DOMAIN prices : d <= prices[p].at /\ prices[p].at < since
      OBVIOUS
    <2>1. PICK e \in seed : d <= e
      BY <1>4
    <2>2. e \in S /\ e < since
      BY DEF S
    <2>3. PICK p \in DOMAIN kept : kept[p] = e
      BY <1>5, <2>2
    <2> QED BY <1>7, <1>8, <2>1, <2>2, <2>3
  <1> QED BY <1>6, <1>9, <1>10, <1>11, <1>12, <1>13 DEF IsPriceList

LEMMA AdvanceReads ==
  ASSUME NEW prices, NEW table, NEW since \in Int, IsTable(table), IsPriceList(prices, table, since),
         NEW ptr, NEW t \in Int, Stands(prices, ptr, t)
  PROVE  /\ Stands(prices, Advance(prices, ptr, t), t)
         /\ t >= since => PointPrice(prices, Advance(prices, ptr, t)) = LatestAt(table, t)
  <1> DEFINE N == Len(prices)
             within == {k \in DOMAIN prices : prices[k].at <= t /\ k > ptr}
             a == Advance(prices, ptr, t)
             past == {d \in DOMAIN table : d <= t}
  <1>1. /\ N \in Nat /\ DOMAIN prices = 1 .. N /\ IsFiniteSet(1 .. N)
        /\ \A p \in 1 .. N : prices[p].at \in Nat
    <2>1. prices \in Seq(PricePoint)
      BY DEF IsPriceList
    <2>2. N \in Nat /\ DOMAIN prices = 1 .. N
      BY <2>1
    <2>3. \A p \in 1 .. N : prices[p] \in PricePoint
      BY <2>1, <2>2, ElementOfSeq
    <2> HIDE DEF N
    <2> QED BY <2>2, <2>3, FS_Interval DEF PricePoint
  <1>2. ptr \in Nat /\ ptr <= N /\ (ptr > 0 => prices[ptr].at <= t)
    BY DEF Stands
  <1>3. a = IF within = {} THEN ptr ELSE Max(within)
    BY DEF Advance
  <1>4. within # {} => Max(within) \in within /\ \A k \in within : k <= Max(within)
    <2>1. within \in SUBSET (1 .. N) /\ within \subseteq Nat
      BY <1>1
    <2> HIDE DEF within
    <2>2. IsFiniteSet(within)
      BY <1>1, <2>1, FS_Subset
    <2> QED BY <2>1, <2>2, LargestOfFinite
  <1> HIDE DEF a
  <1>5. /\ a \in Nat /\ a <= N /\ (a > 0 => prices[a].at <= t)
        /\ \A k \in 1 .. N : prices[k].at <= t => k <= a
    <2>1. CASE within = {}
      <3>1. \A k \in 1 .. N : prices[k].at <= t => k <= ptr
        BY <1>1, <1>2, <2>1
      <3> HIDE DEF within
      <3> QED BY <1>2, <1>3, <2>1, <3>1
    <2>2. CASE within # {}
      <3>1. a \in 1 .. N /\ prices[a].at <= t /\ a > ptr /\ \A k \in within : k <= a
        BY <1>1, <1>3, <1>4, <2>2
      <3>2. ASSUME NEW k \in 1 .. N, prices[k].at <= t PROVE k <= a
        <4>1. CASE k > ptr
          BY <1>1, <3>1, <3>2, <4>1
        <4>2. CASE ~(k > ptr)
          BY <1>1, <1>2, <3>1, <4>2
        <4> QED BY <4>1, <4>2
      <3> QED BY <1>1, <3>1, <3>2
    <2> QED BY <2>1, <2>2
  <1>6. Stands(prices, a, t)
    BY <1>5 DEF Stands
  <1>7. ASSUME t >= since PROVE PointPrice(prices, a) = LatestAt(table, t)
    <2>1. \A d \in past : \E p \in 1 .. N : d <= prices[p].at /\ prices[p].at <= t
      <3> SUFFICES ASSUME NEW d \in DOMAIN table, d <= t
                   PROVE  \E p \in 1 .. N : d <= prices[p].at /\ prices[p].at <= t
        OBVIOUS
      <3>1. d \in Nat
        BY DEF IsTable
      <3>2. CASE d >= since
        <4>1. PICK p \in DOMAIN prices : prices[p].at = d
          BY <3>2 DEF IsPriceList
        <4> QED BY <1>1, <3>1, <4>1
      <3>3. CASE d < since
        <4>1. PICK p \in DOMAIN prices : d <= prices[p].at /\ prices[p].at < since
          BY <3>3 DEF IsPriceList
        <4>2. prices[p].at <= t
          BY <1>1, <1>7, <4>1
        <4> QED BY <1>1, <4>1, <4>2
      <3> QED BY <3>1, <3>2, <3>3
    <2>2. LatestAt(table, t) = IF past = {} THEN Missing ELSE table[Max(past)]
      BY DEF LatestAt
    <2>3. CASE a = 0
      <3>1. past = {}
        BY <1>1, <1>5, <2>1, <2>3
      <3> HIDE DEF past
      <3> QED BY <2>2, <2>3, <3>1 DEF PointPrice
    <2>4. CASE a > 0
      <3>1. a \in 1 .. N /\ prices[a].at \in DOMAIN table /\ prices[a].price = table[prices[a].at]
        BY <1>1, <1>5, <2>4 DEF IsPriceList
      <3>2. prices[a].at \in past
        BY <1>5, <2>4, <3>1
      <3>3. ASSUME NEW d \in past PROVE d <= prices[a].at
        <4>1. PICK p \in 1 .. N : d <= prices[p].at /\ prices[p].at <= t
          BY <2>1
        <4>2. p <= a
          BY <1>5, <4>1
        <4>3. prices[p].at <= prices[a].at
          <5>1. p < a => prices[p].at < prices[a].at
            BY <1>1, <3>1 DEF IsPriceList
          <5> QED BY <1>1, <3>1, <4>2, <5>1
        <4>4. d \in Nat
          BY DEF IsTable
        <4> QED BY <1>1, <3>1, <4>1, <4>3, <4>4
      <3>4. Max(past) = prices[a].at
        <4>1. past \subseteq Nat /\ IsFiniteSet(past) /\ past # {}
          <5>1. past \in SUBSET DOMAIN table
            OBVIOUS
          <5> HIDE DEF past
          <5> QED BY <3>2, <5>1, FS_Subset DEF IsTable
        <4> HIDE DEF past
        <4>2. Max(past) \in past /\ \A k \in past : k <= Max(past)
          BY <4>1, LargestOfFinite
        <4>3. Max(past) <= prices[a].at /\ prices[a].at <= Max(past) /\ Max(past) \in Nat
          BY <3>2, <3>3, <4>1, <4>2
        <4> QED BY <1>1, <3>1, <4>3
      <3> HIDE DEF past
      <3> QED BY <2>2, <2>4, <3>1, <3>2, <3>4 DEF PointPrice
    <2> QED BY <1>5, <2>3, <2>4
  <1> QED BY <1>6, <1>7 DEF a

-----------------------------------------------------------------------------
\* The rows up to a day are the first ones.
DoneAt(t) == IF Due(AllOrdered(trades), t) = {} THEN 0 ELSE Max(Due(AllOrdered(trades), t))

RowsUpTo(t, s) == {i \in DOMAIN trades : trades[i].sym = s /\ trades[i].at <= t}

LEMMA DueFacts ==
  ASSUME Typed, NEW h, ReadOrder(h), NEW t \in Int
  PROVE  /\ DoneAt(t) \in 0 .. Len(trades)
         /\ \A p \in 1 .. Len(trades) : AllOrdered(trades)[p].at <= t <=> p <= DoneAt(t)
         /\ \A s : Firsts(h, DoneAt(t), s) = RowsUpTo(t, s)
  <1> DEFINE N == Len(trades)
             rows == AllOrdered(trades)
             D == Due(rows, t)
             m == DoneAt(t)
  <1>1. /\ N \in Nat /\ DOMAIN trades = 1 .. N /\ rows \in Seq(TradeRow) /\ Len(rows) = N
        /\ h \in [1 .. N -> 1 .. N] /\ {h[p] : p \in 1 .. N} = 1 .. N
        /\ \A p \in 1 .. N : rows[p] = trades[h[p]]
        /\ \A p, q \in 1 .. N : p < q => Precedes(trades, h[p], h[q])
    BY DEF ReadOrder
  <1>2. \A p \in 1 .. N : rows[p] \in TradeRow /\ rows[p].at \in Nat /\ h[p] \in 1 .. N
    <2>1. \A p \in 1 .. N : rows[p] \in TradeRow
      BY <1>1, ElementOfSeq
    <2> QED BY <1>1, <2>1 DEF TradeRow
  <1>3. \A p, q \in 1 .. N : p < q => rows[p].at <= rows[q].at
    <2>1. Dated(trades, 1 .. N)
      BY <1>1, InOrderTyped
    <2> SUFFICES ASSUME NEW p \in 1 .. N, NEW q \in 1 .. N, p < q PROVE rows[p].at <= rows[q].at
      OBVIOUS
    <2>2. Precedes(trades, h[p], h[q]) /\ h[p] \in 1 .. N /\ h[q] \in 1 .. N
      BY <1>1, <1>2
    <2>3. trades[h[p]].at <= trades[h[q]].at
      BY <2>1, <2>2, PrecedesOrder
    <2> QED BY <1>1, <2>3
  <1>4. D = {p \in 1 .. N : rows[p].at <= t}
    BY <1>1 DEF Due
  <1> HIDE DEF N, rows, D
  <1>5. m = IF D = {} THEN 0 ELSE Max(D)
    BY DEF DoneAt, D, rows
  <1> HIDE DEF m
  <1>6. m \in 0 .. N /\ \A p \in 1 .. N : rows[p].at <= t <=> p <= m
    <2>1. CASE D = {}
      <3>1. m = 0 /\ N \in Nat
        BY <1>1, <1>5, <2>1
      <3>2. \A p \in 1 .. N : ~(rows[p].at <= t) /\ ~(p <= 0)
        BY <1>4, <2>1, <3>1
      <3> QED BY <3>1, <3>2
    <2>2. CASE D # {}
      <3>1. D \in SUBSET (1 .. N) /\ D \subseteq Nat /\ IsFiniteSet(D)
        <4>1. D \in SUBSET (1 .. N)
          BY <1>4
        <4>2. IsFiniteSet(1 .. N)
          <5>1. 1 \in Int /\ N \in Int
            BY <1>1
          <5> QED BY <5>1, FS_Interval
        <4>3. IsFiniteSet(D)
          BY <4>1, <4>2, FS_Subset
        <4>4. \A p \in 1 .. N : p \in Nat
          BY <1>1
        <4> QED BY <4>1, <4>3, <4>4
      <3>2. m \in D /\ \A p \in D : p <= m
        BY <1>5, <2>2, <3>1, LargestOfFinite
      <3>3. m \in 1 .. N /\ rows[m].at <= t
        BY <1>4, <3>2
      <3>4. ASSUME NEW p \in 1 .. N, p <= m PROVE rows[p].at <= t
        <4>1. rows[p].at <= rows[m].at
          <5>1. p = m \/ p < m
            BY <3>3, <3>4
          <5> QED BY <1>2, <1>3, <3>3, <3>4, <5>1
        <4> QED BY <1>2, <3>3, <4>1
      <3>5. \A p \in 1 .. N : rows[p].at <= t => p <= m
        BY <1>4, <3>2
      <3>6. N \in Nat
        BY <1>1
      <3> QED BY <3>3, <3>4, <3>5, <3>6
    <2> QED BY <2>1, <2>2
  <1>7. ASSUME NEW s PROVE Firsts(h, m, s) = RowsUpTo(t, s)
    <2>1. ASSUME NEW i \in Firsts(h, m, s) PROVE i \in RowsUpTo(t, s)
      <3>1. PICK p \in 1 .. m : i = h[p] /\ trades[h[p]].sym = s
        BY DEF Firsts
      <3>2. p \in 1 .. N /\ p <= m
        BY <1>1, <1>6
      <3> QED BY <1>1, <1>2, <1>6, <3>1, <3>2 DEF RowsUpTo
    <2>2. ASSUME NEW i \in RowsUpTo(t, s) PROVE i \in Firsts(h, m, s)
      <3>1. i \in 1 .. N /\ trades[i].sym = s /\ trades[i].at <= t
        BY <1>1 DEF RowsUpTo
      <3>2. PICK p \in 1 .. N : i = h[p]
        BY <1>1, <3>1
      <3>3. p \in 1 .. m
        BY <1>1, <1>6, <3>1, <3>2
      <3> QED BY <3>1, <3>2, <3>3 DEF Firsts
    <2> QED BY <2>1, <2>2
  <1> QED BY <1>6, <1>7 DEF N, rows, m

\* A step of the chart, part by part.
PricesFrom(since) == [s \in Symbols |-> PricesSince(s, since)]

DoneAfter(done, t) ==
    IF Due(AllOrdered(trades), t) = {} THEN done ELSE Max(Due(AllOrdered(trades), t))

PtrAfter(pos, ptr, prices, t) ==
    [s \in Symbols |-> IF pos[s].qty > 0 THEN Advance(prices[s], ptr[s], t) ELSE ptr[s]]

HeldIn(pos) == {s \in Symbols : pos[s].qty > 0}

WorthIn(pos, ptr, prices, t) ==
    [s \in HeldIn(pos) |->
        Scale(SnapshotAt(Currency[s], t) * PointPrice(prices[s], ptr[s]), Whole(pos[s].qty))]

CostIn(pos, t) == [s \in HeldIn(pos) |-> Scale(SnapshotAt(Currency[s], t), pos[s].cost)]

PointOf(pos, ptr, prices, t) ==
    [at |-> t, value |-> Sum(WorthIn(pos, ptr, prices, t)), cost |-> Sum(CostIn(pos, t))]

LEMMA ChartStepParts ==
  ASSUME NEW acc, NEW t, NEW prices
  PROVE  LET done == DoneAfter(acc.done, t)
             pos  == PosWalk(acc.pos, SubSeq(AllOrdered(trades), acc.done + 1, done))
             ptr  == PtrAfter(pos, acc.ptr, prices, t)
         IN  ChartStep(acc, t, AllOrdered(trades), prices) =
                [done |-> done, pos |-> pos, ptr |-> ptr,
                 out |-> Append(acc.out, PointOf(pos, ptr, prices, t))]
  BY DEF ChartStep, DoneAfter, PosWalk, PtrAfter, PointOf, WorthIn, CostIn, HeldIn

\* What the chart carries from day to day.
ChartRow == [at : Int, value : Fractions, cost : Fractions]

Pointers(prices) == {f \in [Symbols -> Nat] : \A s \in Symbols : f[s] <= Len(prices[s])}

ChartAcc(prices) ==
    [done : 0 .. Len(trades), pos : AllBooks, ptr : Pointers(prices), out : Seq(ChartRow)]

LEMMA PricesTyped ==
  ASSUME IInv, NEW since \in Int
  PROVE  \A s \in Symbols : /\ IsPriceList(PricesFrom(since)[s], points[s], since) /\ IsTable(points[s])
                            /\ PricesFrom(since)[s] \in Seq(PricePoint)
  <1> SUFFICES ASSUME NEW s \in Symbols
               PROVE  /\ IsPriceList(PricesFrom(since)[s], points[s], since) /\ IsTable(points[s])
                      /\ PricesFrom(since)[s] \in Seq(PricePoint)
    OBVIOUS
  <1>1. IsTable(points[s])
    BY TablesOf
  <1>2. PricesFrom(since)[s] = PricesSince(s, since)
    BY DEF PricesFrom
  <1>3. IsPriceList(PricesSince(s, since), points[s], since)
    BY <1>1, PriceListOf
  <1> QED BY <1>1, <1>2, <1>3 DEF IsPriceList

LEMMA PointPriceTyped ==
  \A prices \in Seq(PricePoint), ptr \in Nat : ptr <= Len(prices) => PointPrice(prices, ptr) \in Nat
  <1> SUFFICES ASSUME NEW prices \in Seq(PricePoint), NEW ptr \in Nat, ptr <= Len(prices)
               PROVE  PointPrice(prices, ptr) \in Nat
    OBVIOUS
  <1>1. CASE ptr = 0
    BY <1>1 DEF PointPrice, Missing
  <1>2. CASE ptr # 0
    <2>1. ptr \in 1 .. Len(prices)
      BY <1>2
    <2>2. prices[ptr] \in PricePoint
      BY <2>1, ElementOfSeq
    <2> QED BY <1>2, <2>2 DEF PointPrice, PricePoint
  <1> QED BY <1>1, <1>2

LEMMA AdvanceTyped ==
  \A prices \in Seq(PricePoint), ptr \in Nat : \A t :
     ptr <= Len(prices) => Advance(prices, ptr, t) \in Nat /\ Advance(prices, ptr, t) <= Len(prices)
  <1> SUFFICES ASSUME NEW prices \in Seq(PricePoint), NEW ptr \in Nat, NEW t, ptr <= Len(prices)
               PROVE  Advance(prices, ptr, t) \in Nat /\ Advance(prices, ptr, t) <= Len(prices)
    OBVIOUS
  <1> DEFINE within == {k \in DOMAIN prices : prices[k].at <= t /\ k > ptr}
  <1>1. within \in SUBSET DOMAIN prices /\ DOMAIN prices = 1 .. Len(prices) /\ Len(prices) \in Nat
    OBVIOUS
  <1>2. Advance(prices, ptr, t) = IF within = {} THEN ptr ELSE Max(within)
    BY DEF Advance
  <1> HIDE DEF within
  <1>3. within # {} => Max(within) \in within
    BY <1>1, LargestPlace
  <1> QED BY <1>1, <1>2, <1>3

LEMMA AmountsAt ==
  ASSUME IInv, NEW since \in Int, NEW pos \in AllBooks, NEW ptr \in Pointers(PricesFrom(since)), NEW t
  PROVE  /\ IsFiniteSet(HeldIn(pos)) /\ HeldIn(pos) \subseteq Symbols
         /\ \A s \in HeldIn(pos) :
              /\ WorthIn(pos, ptr, PricesFrom(since), t)[s] =
                   Whole(SnapshotAt(Currency[s], t) * PointPrice(PricesFrom(since)[s], ptr[s]) * pos[s].qty)
              /\ WorthIn(pos, ptr, PricesFrom(since), t)[s] \in Fractions
              /\ CostIn(pos, t)[s] \in Fractions
              /\ PointPrice(PricesFrom(since)[s], ptr[s]) \in Nat
  <1> DEFINE prices == PricesFrom(since)
  <1>1. IsFiniteSet(HeldIn(pos)) /\ HeldIn(pos) \subseteq Symbols
    BY PortfolioAssumption, FS_Subset DEF HeldIn
  <1>2. ASSUME NEW s \in HeldIn(pos)
        PROVE  LET fx == SnapshotAt(Currency[s], t)
                   w  == WorthIn(pos, ptr, prices, t)[s]
               IN  /\ w = Whole(fx * PointPrice(prices[s], ptr[s]) * pos[s].qty) /\ w \in Fractions
                   /\ CostIn(pos, t)[s] \in Fractions /\ PointPrice(prices[s], ptr[s]) \in Nat
    <2> DEFINE fx == SnapshotAt(Currency[s], t)
               p == PointPrice(prices[s], ptr[s])
               q == pos[s].qty
    <2>1. s \in Symbols
      BY <1>1
    <2>2. q \in Nat /\ pos[s].cost \in Fractions
      BY <2>1 DEF AllBooks, Books
    <2>3. fx \in Nat
      BY RatesTyped
    <2>4. p \in Nat
      <3>1. prices[s] \in Seq(PricePoint)
        BY <2>1, PricesTyped
      <3>2. ptr[s] \in Nat /\ ptr[s] <= Len(prices[s])
        BY <2>1 DEF Pointers
      <3> HIDE DEF prices
      <3> QED BY <3>1, <3>2, PointPriceTyped
    <2>5. WorthIn(pos, ptr, prices, t)[s] = Scale(fx * p, Whole(q)) /\ CostIn(pos, t)[s] = Scale(fx, pos[s].cost)
      BY DEF WorthIn, CostIn
    <2> HIDE DEF fx, p, q, prices
    <2>6. fx \in Int /\ fx * p \in Int /\ q \in Int /\ fx * p * q \in Int
      <3>1. \A a, b \in Nat : a * b \in Nat
        OBVIOUS
      <3>2. fx * p \in Nat
        BY <2>3, <2>4, <3>1
      <3>3. fx * p * q \in Nat
        BY <2>2, <3>1, <3>2
      <3> QED BY <2>2, <2>3, <3>2, <3>3
    <2>7. Scale(fx * p, Whole(q)) = Whole(fx * p * q) /\ Whole(fx * p * q) \in Fractions
      BY <2>6, WholeOperations, WholeIsOver
    <2>8. Scale(fx, pos[s].cost) \in Fractions
      BY <2>2, <2>6, WholeIsOver, TimesLaws DEF Scale
    <2> QED BY <2>4, <2>5, <2>7, <2>8 DEF fx, p, q
  <1> QED BY <1>1, <1>2

LEMMA PointTyped ==
  ASSUME IInv, NEW since \in Int, NEW pos \in AllBooks, NEW ptr \in Pointers(PricesFrom(since)), NEW t \in Int
  PROVE  PointOf(pos, ptr, PricesFrom(since), t) \in ChartRow
  <1> DEFINE H == HeldIn(pos)
             w == WorthIn(pos, ptr, PricesFrom(since), t)
             c == CostIn(pos, t)
  <1>1. DOMAIN w = H /\ DOMAIN c = H
    BY DEF WorthIn, CostIn
  <1>2. Addends(w, H) /\ Addends(c, H)
    BY AmountsAt DEF Addends
  <1> HIDE DEF H, w, c
  <1>3. Sum(w) \in Fractions /\ Sum(c) \in Fractions
    <2>1. H \in SUBSET H
      OBVIOUS
    <2> QED BY <1>1, <1>2, <2>1, TotalUnfold, SumIsTotal
  <1>4. PointOf(pos, ptr, PricesFrom(since), t) = [at |-> t, value |-> Sum(w), cost |-> Sum(c)]
    BY DEF PointOf, w, c
  <1> QED BY <1>3, <1>4 DEF ChartRow

LEMMA PartTyped ==
  ASSUME Typed, NEW d \in 0 .. Len(trades), NEW u \in 0 .. Len(trades)
  PROVE  SubSeq(AllOrdered(trades), d + 1, u) \in Seq(TradeRow)
  <1> DEFINE N == Len(trades)
             rows == AllOrdered(trades)
  <1>1. N \in Nat /\ rows \in Seq(TradeRow) /\ Len(rows) = N
    <2>1. PICK h : ReadOrder(h)
      BY ReadOrderExists
    <2> QED BY <2>1 DEF ReadOrder
  <1>2. d + 1 \in Int /\ u \in Int
    BY <1>1
  <1>3. \A i \in 1 .. N : rows[i] \in TradeRow
    BY <1>1, ElementOfSeq
  <1>4. \A i \in d + 1 .. u : rows[i] \in TradeRow
    BY <1>1, <1>3
  <1> HIDE DEF N, rows
  <1>5. SubSeq(rows, d + 1, u) \in Seq(TradeRow)
    BY <1>2, <1>4, SubSeqProperties
  <1> QED BY <1>5 DEF rows

LEMMA ChartStepTyped ==
  ASSUME IInv, NEW since \in Int, NEW acc \in ChartAcc(PricesFrom(since)), NEW t \in Int
  PROVE  ChartStep(acc, t, AllOrdered(trades), PricesFrom(since)) \in ChartAcc(PricesFrom(since))
  <1> DEFINE prices == PricesFrom(since)
             done == DoneAfter(acc.done, t)
             part == SubSeq(AllOrdered(trades), acc.done + 1, done)
             pos  == PosWalk(acc.pos, part)
             ptr  == PtrAfter(pos, acc.ptr, prices, t)
             x    == PointOf(pos, ptr, prices, t)
  <1>1. /\ acc.done \in 0 .. Len(trades) /\ acc.pos \in AllBooks /\ acc.ptr \in Pointers(prices)
        /\ acc.out \in Seq(ChartRow)
    BY DEF ChartAcc
  <1>2. done \in 0 .. Len(trades)
    <2>1. PICK h : ReadOrder(h)
      BY ReadOrderExists DEF IInv
    <2>2. DoneAt(t) \in 0 .. Len(trades)
      BY <2>1, DueFacts DEF IInv
    <2> QED BY <1>1, <2>2 DEF DoneAfter, DoneAt
  <1>3. part \in Seq(TradeRow)
    <2> HIDE DEF done
    <2> QED BY <1>1, <1>2, PartTyped DEF IInv
  <1> HIDE DEF part
  <1>4. pos \in AllBooks
    BY <1>1, <1>3, PosUnfold
  <1> HIDE DEF pos
  <1>5. ptr \in Pointers(prices)
    <2>1. ASSUME NEW s \in Symbols PROVE ptr[s] \in Nat /\ ptr[s] <= Len(prices[s])
      <3>1. acc.ptr[s] \in Nat /\ acc.ptr[s] <= Len(prices[s])
        BY <1>1 DEF Pointers
      <3>2. prices[s] \in Seq(PricePoint)
        BY PricesTyped
      <3>3. ptr[s] = IF pos[s].qty > 0 THEN Advance(prices[s], acc.ptr[s], t) ELSE acc.ptr[s]
        BY DEF PtrAfter
      <3> HIDE DEF prices, ptr
      <3> QED BY <3>1, <3>2, <3>3, AdvanceTyped
    <2>2. ptr = [s \in Symbols |-> ptr[s]]
      BY DEF PtrAfter
    <2> HIDE DEF ptr
    <2> QED BY <2>1, <2>2 DEF Pointers
  <1> HIDE DEF ptr
  <1>6. x \in ChartRow
    BY <1>4, <1>5, PointTyped
  <1> HIDE DEF x
  <1>7. ChartStep(acc, t, AllOrdered(trades), prices) = [done |-> done, pos |-> pos, ptr |-> ptr, out |-> Append(acc.out, x)]
    BY ChartStepParts DEF pos, part, ptr, x
  <1>8. Append(acc.out, x) \in Seq(ChartRow)
    BY <1>1, <1>6
  <1> HIDE DEF done
  <1> QED BY <1>2, <1>4, <1>5, <1>7, <1>8 DEF ChartAcc

ChartBegin ==
    [done |-> 0, pos |-> [s \in Symbols |-> NoPosition], ptr |-> [s \in Symbols |-> 0], out |-> << >>]

ChartFold(prices, d) ==
    FoldLeft(LAMBDA acc, t : ChartStep(acc, t, AllOrdered(trades), prices), ChartBegin, d)

IsChartFold(h, prices, d) ==
    h = [w \in SUBSET DOMAIN d |->
            IF w = {} THEN ChartBegin
            ELSE ChartStep(h[w \ {Max(w)}], d[Max(w)], AllOrdered(trades), prices)]

LEMMA ChartFoldIsFold ==
  \A prices, d : ChartFold(prices, d) = (CHOOSE h : IsChartFold(h, prices, d))[DOMAIN d]
  BY DEF ChartFold, FoldLeft, MapThenFoldSet, IsChartFold

LEMMA ChartBeginTyped ==
  ASSUME IInv, NEW since \in Int
  PROVE  ChartBegin \in ChartAcc(PricesFrom(since))
  <1> DEFINE prices == PricesFrom(since)
  <1>1. [s \in Symbols |-> NoPosition] \in AllBooks
    BY NothingHeld DEF AllBooks
  <1>2. [s \in Symbols |-> 0] \in Pointers(prices)
    <2>1. ASSUME NEW s \in Symbols PROVE 0 <= Len(prices[s])
      <3>1. prices[s] \in Seq(PricePoint)
        BY PricesTyped
      <3> HIDE DEF prices
      <3> QED BY <3>1
    <2> HIDE DEF prices
    <2> QED BY <2>1 DEF Pointers
  <1>3. 0 \in 0 .. Len(trades) /\ << >> \in Seq(ChartRow)
    BY DEF IInv, Typed
  <1> QED BY <1>1, <1>2, <1>3 DEF ChartBegin, ChartAcc

LEMMA ChartUnfold ==
  ASSUME IInv, NEW since \in Int
  PROVE  LET walk(d) == ChartFold(PricesFrom(since), d)
         IN  /\ walk(<< >>) = ChartBegin
             /\ \A d \in Seq(Int) : walk(d) \in ChartAcc(PricesFrom(since))
             /\ \A d \in Seq(Int), t \in Int :
                   walk(Append(d, t)) = ChartStep(walk(d), t, AllOrdered(trades), PricesFrom(since))
  <1> DEFINE prices == PricesFrom(since)
             V == ChartAcc(prices)
             step(v, t) == ChartStep(v, t, AllOrdered(trades), prices)
             G == [p \in V \X Int |-> step(p[1], p[2])]
  <1>1. \A v \in V, t \in Int : step(v, t) \in V /\ G[<<v, t>>] = step(v, t)
    BY ChartStepTyped
  <1>2. G \in [V \X Int -> V]
    BY <1>1
  <1>3. ChartBegin \in V
    BY ChartBeginTyped
  <1> HIDE DEF G, V
  <1>4. PICK f : FoldsBy(f, G, ChartBegin, Int, V)
    BY <1>2, <1>3, SequenceFold
  <1>5. ASSUME NEW d \in Seq(Int) PROVE ChartFold(prices, d) = f[d]
    <2> DEFINE S == DOMAIN d
               c == [w \in SUBSET S |-> Max(w)]
               k == CHOOSE h : IsChartFold(h, prices, d)
    <2>1. IsFiniteSet(S) /\ \A w \in SUBSET S : w # {} => Max(w) \in w /\ c[w] = Max(w)
      BY LargestPlace
    <2>2. PICK h \in [SUBSET S -> V] : IsSeqFold(h, d, G, ChartBegin) /\ h[S] = f[d]
      BY <1>4 DEF FoldsBy
    <2>3. \A p \in S : d[p] \in Int
      BY ElementOfSeq
    <2>4. ASSUME NEW w \in SUBSET S
          PROVE  h[w] = IF w = {} THEN ChartBegin ELSE step(h[w \ {Max(w)}], d[Max(w)])
      <3>1. h[w] = IF w = {} THEN ChartBegin ELSE G[<<h[w \ {Max(w)}], d[Max(w)]>>]
        BY <2>2 DEF IsSeqFold
      <3>2. w # {} => h[w \ {Max(w)}] \in V /\ d[Max(w)] \in Int
        BY <2>1, <2>3
      <3> QED BY <1>1, <3>1, <3>2
    <2>5. IsChartFold(h, prices, d)
      <3>1. h = [w \in SUBSET S |-> h[w]]
        OBVIOUS
      <3> HIDE DEF prices
      <3> QED BY <2>4, <3>1 DEF IsChartFold
    <2> HIDE DEF k, prices
    <2>6. IsChartFold(k, prices, d)
      BY <2>5 DEF k
    <2>7. AgreeByStep(h, k, S, c)
      <3>1. \A w \in SUBSET S : k[w] = IF w = {} THEN ChartBegin ELSE step(k[w \ {Max(w)}], d[Max(w)])
        BY <2>6 DEF IsChartFold
      <3> HIDE DEF step, c, S
      <3>2. {} \in SUBSET S
        OBVIOUS
      <3>3. h[{}] = k[{}]
        BY <2>4, <3>1, <3>2
      <3>4. ASSUME NEW w \in SUBSET S, w # {}, h[w \ {c[w]}] = k[w \ {c[w]}] PROVE h[w] = k[w]
        BY <2>1, <2>4, <3>1, <3>4
      <3> QED BY <2>1, <3>3, <3>4 DEF AgreeByStep
    <2>8. h[S] = k[S]
      <3> HIDE DEF S, c
      <3> QED BY <2>1, <2>7, SameFold
    <2> QED BY <2>2, <2>8, ChartFoldIsFold DEF k
  <1>6. << >> \in Seq(Int) /\ \A s \in Seq(Int), x \in Int : Append(s, x) \in Seq(Int)
    OBVIOUS
  <1>7. /\ f[<< >>] = ChartBegin
        /\ \A s \in Seq(Int) : f[s] \in V
        /\ \A s \in Seq(Int), x \in Int : f[Append(s, x)] = step(f[s], x)
    <2>1. f[<< >>] = ChartBegin /\ f \in [Seq(Int) -> V]
      BY <1>4 DEF FoldsBy
    <2>2. \A s \in Seq(Int), x \in Int : f[Append(s, x)] = G[<<f[s], x>>]
      BY <1>4 DEF FoldsBy
    <2> QED BY <1>1, <2>1, <2>2
  <1> QED BY <1>5, <1>6, <1>7 DEF V

\* What AsOf holds of a symbol.
HeldAt(s, t) == Holding(InOrder(trades, RowsUpTo(t, s)))

AmountAt(s, t) == HeldAt(s, t).qty * LatestAt(points[s], t) * SnapshotAt(Currency[s], t)

LEMMA OnDayParts ==
  \A t : AsOf(t) = [at    |-> t,
                     value |-> Sum([s \in Symbols |-> Whole(AmountAt(s, t))]),
                     cost  |-> Sum([s \in Symbols |-> Scale(SnapshotAt(Currency[s], t), HeldAt(s, t).cost)])]
  BY DEF AsOf, HeldAt, RowsUpTo, AmountAt

LEMMA HeldFacts ==
  ASSUME Typed, NEW s, NEW t
  PROVE  LET b == CostWalk(InOrder(trades, RowsUpTo(t, s)))
         IN  /\ b \in Books /\ HeldAt(s, t).qty = b.qty /\ HeldAt(s, t).cost \in Fractions
             /\ b.qty > 0 => HeldAt(s, t) = b
             /\ ~(b.qty > 0) => HeldAt(s, t).qty = 0 /\ HeldAt(s, t).cost = Zero
  <1> DEFINE o == InOrder(trades, RowsUpTo(t, s))
             b == CostWalk(o)
  <1>1. o \in Seq(TradeRow)
    <2>1. RowsUpTo(t, s) \in SUBSET DOMAIN trades
      BY DEF RowsUpTo
    <2> QED BY <2>1, InOrderTyped
  <1>2. Holding(o) = IF b.qty <= 0 THEN [qty |-> 0, cost |-> Zero, realized |-> b.realized] ELSE b
    BY DEF Holding, CostWalk
  <1> HIDE DEF o
  <1>3. b \in Books
    BY <1>1, CostUnfold
  <1> HIDE DEF b
  <1>4. b.qty \in Nat /\ b.cost \in Fractions /\ Zero \in Fractions
    BY <1>3, PlusLaws DEF Books
  <1> QED BY <1>2, <1>3, <1>4 DEF HeldAt, b, o

LEMMA ScaleTyped == \A n \in Int, x \in Fractions : Scale(n, x) \in Fractions
  BY WholeIsOver, TimesLaws DEF Scale

LEMMA AmountTyped ==
  ASSUME IInv, NEW s \in Symbols, NEW t
  PROVE  /\ LatestAt(points[s], t) \in Nat /\ SnapshotAt(Currency[s], t) \in Nat /\ HeldAt(s, t).qty \in Nat
         /\ AmountAt(s, t) \in Nat
         /\ Scale(SnapshotAt(Currency[s], t), HeldAt(s, t).cost) \in Fractions
  <1>1. LatestAt(points[s], t) \in Nat
    BY TablesOf, LatestTyped DEF IsTable
  <1>2. SnapshotAt(Currency[s], t) \in Nat
    BY RatesTyped
  <1>3. HeldAt(s, t).qty \in Nat /\ HeldAt(s, t).cost \in Fractions
    BY HeldFacts DEF IInv, Books
  <1>4. \A a, b, c \in Nat : a * b * c \in Nat
    OBVIOUS
  <1>5. AmountAt(s, t) \in Nat
    BY <1>1, <1>2, <1>3, <1>4 DEF AmountAt
  <1>6. Scale(SnapshotAt(Currency[s], t), HeldAt(s, t).cost) \in Fractions
    <2>1. SnapshotAt(Currency[s], t) \in Int
      BY <1>2
    <2> QED BY <1>3, <2>1, ScaleTyped
  <1> QED BY <1>1, <1>2, <1>3, <1>5, <1>6

\* The pointers read the newest prices of day t for all that is held.
Reads(pos, ptr, prices, t) ==
    \A s \in HeldIn(pos) : PointPrice(prices[s], ptr[s]) = LatestAt(points[s], t)

LEMMA PointIsOnDay ==
  ASSUME IInv, NEW since \in Int, NEW t \in Int, NEW h, ReadOrder(h),
         NEW ptr \in Pointers(PricesFrom(since)), Reads(BooksAt(h, DoneAt(t)), ptr, PricesFrom(since), t)
  PROVE  PointOf(BooksAt(h, DoneAt(t)), ptr, PricesFrom(since), t) = AsOf(t)
  <1> DEFINE prices == PricesFrom(since)
             pos == BooksAt(h, DoneAt(t))
             H == HeldIn(pos)
             w == WorthIn(pos, ptr, prices, t)
             c == CostIn(pos, t)
             v == [s \in Symbols |-> Whole(AmountAt(s, t))]
             k == [s \in Symbols |-> Scale(SnapshotAt(Currency[s], t), HeldAt(s, t).cost)]
  <1>1. DoneAt(t) \in 0 .. Len(trades) /\ \A s : Firsts(h, DoneAt(t), s) = RowsUpTo(t, s)
    BY DueFacts DEF IInv
  <1>2. pos \in AllBooks
    BY <1>1, BooksStep DEF IInv
  <1>3. \A s \in Symbols : pos[s] = CostWalk(InOrder(trades, RowsUpTo(t, s)))
    BY <1>1 DEF BooksAt
  <1> HIDE DEF pos
  <1>4. \A s \in H : HeldAt(s, t) = pos[s] /\ s \in Symbols
    <2> SUFFICES ASSUME NEW s \in H PROVE HeldAt(s, t) = pos[s] /\ s \in Symbols
      OBVIOUS
    <2>1. s \in Symbols /\ pos[s].qty > 0
      BY DEF HeldIn
    <2> QED BY <1>3, <2>1, HeldFacts DEF IInv
  <1>5. \A s \in Symbols \ H : HeldAt(s, t).qty = 0 /\ HeldAt(s, t).cost = Zero
    <2> SUFFICES ASSUME NEW s \in Symbols \ H PROVE HeldAt(s, t).qty = 0 /\ HeldAt(s, t).cost = Zero
      OBVIOUS
    <2>1. ~(pos[s].qty > 0)
      BY DEF HeldIn
    <2> QED BY <1>3, <2>1, HeldFacts DEF IInv
  <1>6. IsFiniteSet(H) /\ H \subseteq Symbols /\ IsFiniteSet(Symbols)
    BY <1>2, AmountsAt, PortfolioAssumption
  <1>7. \A s \in H : w[s] = v[s] /\ c[s] = k[s]
    <2> SUFFICES ASSUME NEW s \in H PROVE w[s] = v[s] /\ c[s] = k[s]
      OBVIOUS
    <2> DEFINE fx == SnapshotAt(Currency[s], t)
               p == PointPrice(prices[s], ptr[s])
               q == pos[s].qty
    <2>1. s \in Symbols /\ HeldAt(s, t) = pos[s]
      BY <1>4
    <2>2. w[s] = Whole(fx * p * q)
      BY <1>2, AmountsAt
    <2>3. p = LatestAt(points[s], t)
      BY DEF Reads, pos
    <2>4. fx \in Nat /\ p \in Nat /\ q \in Nat
      BY <2>1, <2>3, AmountTyped
    <2>5. AmountAt(s, t) = q * p * fx
      BY <2>1, <2>3 DEF AmountAt
    <2>6. c[s] = k[s]
      BY <2>1 DEF CostIn
    <2> HIDE DEF fx, p, q, w, c, k
    <2>7. fx * p * q = q * p * fx
      BY <2>4
    <2> QED BY <2>1, <2>2, <2>5, <2>6, <2>7
  <1>8. \A s \in Symbols \ H : v[s] = Zero /\ k[s] = Zero
    <2> SUFFICES ASSUME NEW s \in Symbols \ H PROVE v[s] = Zero /\ k[s] = Zero
      OBVIOUS
    <2>1. LatestAt(points[s], t) \in Nat /\ SnapshotAt(Currency[s], t) \in Nat
      BY AmountTyped
    <2>2. \A a, b \in Nat : 0 * a * b = 0
      OBVIOUS
    <2>3. AmountAt(s, t) = 0
      BY <1>5, <2>1, <2>2 DEF AmountAt
    <2>4. Scale(SnapshotAt(Currency[s], t), Zero) = Zero
      BY <2>1, WholeIsOver, TimesLaws DEF Scale
    <2> QED BY <1>5, <2>3, <2>4 DEF Zero
  <1>9. Addends(v, Symbols) /\ Addends(k, Symbols)
    <2>1. \A s \in Symbols : v[s] \in Fractions /\ k[s] \in Fractions
      BY AmountTyped, WholeIsOver
    <2> HIDE DEF v, k
    <2> QED BY <1>6, <2>1 DEF Addends
  <1>10. DOMAIN w = H /\ DOMAIN c = H /\ DOMAIN v = Symbols /\ DOMAIN k = Symbols
    BY DEF WorthIn, CostIn
  <1>11. PointOf(pos, ptr, prices, t) = [at |-> t, value |-> Sum(w), cost |-> Sum(c)]
    BY DEF PointOf
  <1>12. AsOf(t) = [at |-> t, value |-> Sum(v), cost |-> Sum(k)]
    BY OnDayParts
  <1> HIDE DEF w, c, v, k, H
  <1>13. RatioSum(v, Symbols) = RatioSum(v, H) /\ RatioSum(k, Symbols) = RatioSum(k, H)
    BY <1>6, <1>8, <1>9, TotalOfPart
  <1>14. Addends(v, H) /\ Addends(k, H)
    BY <1>6, <1>9, AddendsOfPart
  <1>15. RatioSum(v, H) = RatioSum(w, H) /\ RatioSum(k, H) = RatioSum(c, H)
    BY <1>7, <1>14, TotalCong
  <1>16. Sum(w) = Sum(v) /\ Sum(c) = Sum(k)
    BY <1>10, <1>13, <1>15, SumIsTotal
  <1> QED BY <1>11, <1>12, <1>16 DEF pos

LEMMA StartFacts == IInv => \A p \in Periods : Start(p) \in Int /\ Start(p) <= clock
  <1> SUFFICES ASSUME IInv, NEW p \in Periods PROVE Start(p) \in Int /\ Start(p) <= clock
    OBVIOUS
  <1>1. clock \in Nat /\ clock \in Instants
    BY TablesOf DEF IInv, TypeOK
  <1>2. \A S : S \subseteq Nat /\ S # {} => Min(S) \in S /\ \A x \in S : Min(S) <= x
    <2> SUFFICES ASSUME NEW S, S \subseteq Nat, S # {} PROVE Min(S) \in S /\ \A x \in S : Min(S) <= x
      OBVIOUS
    <2>1. \E m \in S : \A x \in S : m <= x
      BY SmallestMember
    <2> QED BY <2>1 DEF Min
  <1>3. CASE p = "YTD"
    <2> DEFINE S == {d \in DOMAIN YearOf : YearOf[d] = YearOf[clock]}
    <2>1. S \subseteq Nat /\ clock \in S
      BY <1>1, ReturnsAssumption, PortfolioAssumption
    <2>2. Start(p) = Min(S)
      BY <1>3 DEF Start
    <2> HIDE DEF S
    <2>3. Min(S) \in S /\ \A x \in S : Min(S) <= x
      BY <1>2, <2>1
    <2>4. Min(S) \in Nat /\ Min(S) <= clock
      BY <2>1, <2>3
    <2> QED BY ONLY <2>2, <2>4
  <1>4. ASSUME NEW n \in DOMAIN Window PROVE clock - Window[n] \in Int /\ clock - Window[n] <= clock
    <2>1. Window[n] \in Nat
      BY ReturnsAssumption
    <2> QED BY <1>1, <2>1
  <1>5. CASE p # "YTD" /\ p # "ALL"
    <2>1. p \in DOMAIN Window /\ Start(p) = clock - Window[p]
      BY <1>5 DEF Start, Periods
    <2> QED BY <1>4, <2>1
  <1>6. CASE p = "ALL" /\ trades = << >>
    <2>1. "1M" \in DOMAIN Window /\ Start(p) = clock - Window["1M"]
      BY <1>6, ReturnsAssumption DEF Start
    <2> QED BY <1>4, <2>1
  <1>7. CASE p = "ALL" /\ trades # << >>
    <2> DEFINE S == {trades[i].at : i \in DOMAIN trades}
    <2>1. Start(p) = Min(S)
      BY <1>7 DEF Start
    <2>2. /\ trades \in Seq(TradeRow) /\ \A i \in DOMAIN trades : trades[i].at <= clock
      BY DEF IInv, Typed, TypeOK
    <2>3. \A i \in DOMAIN trades : trades[i].at \in Nat
      <3>1. \A i \in DOMAIN trades : trades[i] \in TradeRow
        BY <2>2, ElementOfSeq
      <3> QED BY <3>1 DEF TradeRow
    <2>4. S \subseteq Nat /\ \A x \in S : x <= clock
      BY <2>2, <2>3
    <2>5. S # {}
      <3>1. DOMAIN trades # {}
        BY <1>7, <2>2
      <3> QED BY <3>1
    <2> HIDE DEF S
    <2>6. Min(S) \in S
      BY <1>2, <2>4, <2>5
    <2>7. Min(S) \in Nat /\ Min(S) <= clock
      BY <2>4, <2>6
    <2> QED BY ONLY <2>1, <2>7
  <1> QED BY <1>3, <1>5, <1>6, <1>7

\* Days in order, none before `since`.
DaysFrom(d, since) ==
    /\ d \in Seq(Int)
    /\ \A k \in DOMAIN d : d[k] >= since
    /\ \A k, n \in DOMAIN d : k <= n => d[k] <= d[n]

LEMMA BucketFacts ==
  ASSUME NEW start \in Int, NEW end \in Int, start <= end, NEW step \in Nat \ {0}
  PROVE  LET b == Buckets(start, end, step)
         IN  DaysFrom(b, start) /\ b # << >> /\ b[Len(b)] = end
  <1> DEFINE q == (end - start - 1) \div step
             n == IF start >= end THEN 0 ELSE ((end - start - 1) \div step) + 1
             c == [k \in 1 .. n |-> start + (k - 1) * step]
             b == Append(c, end)
  <1>1. n \in Nat /\ \A k \in 1 .. n : start + (k - 1) * step \in Int /\ start + (k - 1) * step <= end
                                       /\ start + (k - 1) * step >= start
    <2>1. CASE start >= end
      BY <2>1
    <2>2. CASE start < end
      <3>1. end - start - 1 \in Int
        OBVIOUS
      <3>2. q \in Int /\ q * step <= end - start - 1 /\ end - start - 1 < q * step + step /\ q * step \in Int
        <4>1. q \in Int /\ step * q <= end - start - 1 /\ end - start - 1 < step * q + step
          BY <3>1, StartOfStep
        <4> HIDE DEF q
        <4> QED BY <4>1, Multiples
      <3>3. n = q + 1
        BY <2>2
      <3> HIDE DEF q, n
      <3>4. q \in Nat
        <4>1. ASSUME q < 0 PROVE FALSE
          <5>1. q <= -1 /\ -1 \in Int
            BY <3>2, <4>1
          <5>2. q * step <= (-1) * step
            BY <3>2, <5>1, Multiples
          <5> QED BY <2>2, <3>2, <5>2
        <4> QED BY <3>2, <4>1
      <3>5. ASSUME NEW k \in 1 .. n
            PROVE  /\ start + (k - 1) * step \in Int /\ start + (k - 1) * step <= end
                   /\ start + (k - 1) * step >= start
        <4>1. k - 1 \in Int /\ 0 <= k - 1 /\ k - 1 <= q /\ 0 \in Int
          BY <3>3, <3>4
        <4>2. (k - 1) * step \in Int /\ 0 * step <= (k - 1) * step /\ (k - 1) * step <= q * step /\ 0 * step = 0
          BY <3>2, <4>1, Multiples
        <4> QED BY <3>2, <4>2
      <3> QED BY <3>3, <3>4, <3>5
    <2> HIDE DEF n
    <2> QED BY <2>1, <2>2
  <1> HIDE DEF q
  <1>2. \A k, m \in 1 .. n : k <= m => start + (k - 1) * step <= start + (m - 1) * step
    <2> HIDE DEF n
    <2> SUFFICES ASSUME NEW k \in 1 .. n, NEW m \in 1 .. n, k <= m
                 PROVE  start + (k - 1) * step <= start + (m - 1) * step
      OBVIOUS
    <2>1. k - 1 \in Int /\ m - 1 \in Int /\ k - 1 <= m - 1
      BY <1>1
    <2>2. (k - 1) * step \in Int /\ (m - 1) * step \in Int /\ (k - 1) * step <= (m - 1) * step
      BY <2>1, Multiples
    <2> QED BY <2>2
  <1> HIDE DEF n
  <1>3. c \in Seq(Int) /\ Len(c) = n /\ \A k \in 1 .. n : c[k] = start + (k - 1) * step
    BY <1>1
  <1> HIDE DEF c
  <1>4. /\ b \in Seq(Int) /\ Len(b) = n + 1 /\ b[n + 1] = end /\ DOMAIN b = 1 .. n + 1
        /\ \A k \in 1 .. n : b[k] = start + (k - 1) * step
    BY <1>1, <1>3, AppendProperties
  <1>5. b = Buckets(start, end, step)
    BY DEF Buckets, n, c
  <1> HIDE DEF b
  <1>6. \A k \in 1 .. n + 1 : k \in 1 .. n \/ k = n + 1
    BY <1>1
  <1>7. \A k \in 1 .. n + 1 : b[k] >= start
    BY <1>1, <1>4, <1>6
  <1>8. ASSUME NEW k \in 1 .. n + 1, NEW m \in 1 .. n + 1, k <= m PROVE b[k] <= b[m]
    <2>1. CASE m = n + 1
      <3>1. b[m] = end
        BY <1>4, <2>1
      <3>2. CASE k = n + 1
        BY <1>4, <3>1, <3>2
      <3>3. CASE k # n + 1
        <4>1. k \in 1 .. n /\ b[k] = start + (k - 1) * step
          BY <1>4, <1>6, <3>3
        <4>2. start + (k - 1) * step <= end
          BY <1>1, <4>1
        <4> QED BY <3>1, <4>1, <4>2
      <3> QED BY <3>2, <3>3
    <2>2. CASE m # n + 1
      <3>1. m \in 1 .. n /\ k \in 1 .. n
        BY <1>1, <1>8, <2>2
      <3>2. start + (k - 1) * step <= start + (m - 1) * step
        BY <1>2, <1>8, <3>1
      <3> QED BY <1>4, <3>1, <3>2
    <2> QED BY <2>1, <2>2
  <1>9. b # << >> /\ b[Len(b)] = end
    BY <1>1, <1>4
  <1> QED BY <1>4, <1>5, <1>7, <1>8, <1>9 DEF DaysFrom

\* The scan is not past day t.
Behind(h, acc, prices, t) ==
    /\ acc.done \in 0 .. DoneAt(t)
    /\ acc.pos = BooksAt(h, acc.done)
    /\ \A s \in Symbols : Stands(prices[s], acc.ptr[s], t)

LEMMA PointersStep ==
  ASSUME IInv, NEW since \in Int, NEW pos, NEW ptr \in Pointers(PricesFrom(since)), NEW t \in Int, t >= since,
         \A s \in Symbols : Stands(PricesFrom(since)[s], ptr[s], t)
  PROVE  LET new == PtrAfter(pos, ptr, PricesFrom(since), t)
         IN  /\ \A s \in Symbols : Stands(PricesFrom(since)[s], new[s], t)
             /\ Reads(pos, new, PricesFrom(since), t)
  <1> DEFINE prices == PricesFrom(since)
             new == PtrAfter(pos, ptr, prices, t)
  <1>1. ASSUME NEW s \in Symbols
        PROVE  /\ Stands(prices[s], new[s], t)
               /\ pos[s].qty > 0 => PointPrice(prices[s], new[s]) = LatestAt(points[s], t)
    <2>1. IsPriceList(prices[s], points[s], since) /\ IsTable(points[s])
      BY PricesTyped
    <2>2. new[s] = IF pos[s].qty > 0 THEN Advance(prices[s], ptr[s], t) ELSE ptr[s]
      BY DEF PtrAfter
    <2>3. Stands(prices[s], ptr[s], t)
      OBVIOUS
    <2> HIDE DEF prices, new
    <2>4. /\ Stands(prices[s], Advance(prices[s], ptr[s], t), t)
          /\ PointPrice(prices[s], Advance(prices[s], ptr[s], t)) = LatestAt(points[s], t)
      BY <2>1, <2>3, AdvanceReads
    <2> QED BY <2>2, <2>3, <2>4
  <1> QED BY <1>1 DEF Reads, HeldIn

LEMMA LaterDays ==
  ASSUME IInv, NEW t \in Int, NEW u \in Int, t <= u
  PROVE  /\ DoneAt(t) \in 0 .. DoneAt(u)
         /\ \A prices \in Seq(PricePoint) : \A p : Stands(prices, p, t) => Stands(prices, p, u)
  <1>1. DoneAt(t) \in 0 .. DoneAt(u)
    <2>1. PICK h : ReadOrder(h)
      BY ReadOrderExists DEF IInv
    <2> DEFINE N == Len(trades)
               rows == AllOrdered(trades)
    <2>2. N \in Nat /\ \A p \in 1 .. N : rows[p].at \in Nat
      <3>1. rows \in Seq(TradeRow) /\ Len(rows) = N /\ N \in Nat
        BY <2>1 DEF ReadOrder
      <3>2. \A p \in 1 .. N : rows[p] \in TradeRow
        BY <3>1, ElementOfSeq
      <3> QED BY <3>1, <3>2 DEF TradeRow
    <2>3. /\ DoneAt(t) \in 0 .. N /\ DoneAt(u) \in 0 .. N
          /\ \A p \in 1 .. N : rows[p].at <= t <=> p <= DoneAt(t)
          /\ \A p \in 1 .. N : rows[p].at <= u <=> p <= DoneAt(u)
      BY <2>1, DueFacts DEF IInv
    <2> HIDE DEF N, rows
    <2>4. DoneAt(t) # 0 => DoneAt(t) <= DoneAt(u)
      <3> SUFFICES ASSUME DoneAt(t) # 0 PROVE DoneAt(t) <= DoneAt(u)
        OBVIOUS
      <3>1. DoneAt(t) \in 1 .. N
        BY <2>2, <2>3
      <3>2. rows[DoneAt(t)].at <= t
        BY <2>2, <2>3, <3>1
      <3>3. rows[DoneAt(t)].at <= u
        BY <2>2, <3>1, <3>2
      <3> QED BY <2>3, <3>1, <3>3
    <2> QED BY <2>2, <2>3, <2>4
  <1>2. ASSUME NEW prices \in Seq(PricePoint), NEW p, Stands(prices, p, t) PROVE Stands(prices, p, u)
    <2>1. p \in Nat /\ p <= Len(prices) /\ (p > 0 => prices[p].at <= t)
      BY <1>2 DEF Stands
    <2>2. ASSUME p > 0 PROVE prices[p].at <= u
      <3>1. p \in 1 .. Len(prices)
        BY <2>1, <2>2
      <3>2. prices[p] \in PricePoint
        BY <3>1, ElementOfSeq
      <3> QED BY <2>1, <2>2, <3>2 DEF PricePoint
    <2> QED BY <2>1, <2>2 DEF Stands
  <1> QED BY <1>1, <1>2

\* A step of the scan to day t.
LEMMA ScanStep ==
  ASSUME IInv, NEW since \in Int, NEW h, ReadOrder(h), NEW acc \in ChartAcc(PricesFrom(since)),
         NEW t \in Int, t >= since, Behind(h, acc, PricesFrom(since), t)
  PROVE  LET next == ChartStep(acc, t, AllOrdered(trades), PricesFrom(since))
         IN  /\ next.out = Append(acc.out, AsOf(t))
             /\ \A u \in Int : t <= u => Behind(h, next, PricesFrom(since), u)
  <1> DEFINE prices == PricesFrom(since)
             done == DoneAfter(acc.done, t)
             part == SubSeq(AllOrdered(trades), acc.done + 1, done)
             pos  == PosWalk(acc.pos, part)
             ptr  == PtrAfter(pos, acc.ptr, prices, t)
             x    == PointOf(pos, ptr, prices, t)
             next == ChartStep(acc, t, AllOrdered(trades), prices)
  <1>1. next = [done |-> done, pos |-> pos, ptr |-> ptr, out |-> Append(acc.out, x)]
    BY ChartStepParts
  <1>2. next \in ChartAcc(prices) /\ acc.ptr \in Pointers(prices)
    BY ChartStepTyped DEF ChartAcc
  <1>3. acc.done \in 0 .. DoneAt(t) /\ acc.pos = BooksAt(h, acc.done)
        /\ \A s \in Symbols : Stands(prices[s], acc.ptr[s], t)
    BY DEF Behind
  <1>4. DoneAt(t) \in 0 .. Len(trades) /\ Len(trades) \in Nat
    BY DueFacts DEF IInv, Typed
  <1>5. done = DoneAt(t)
    <2>1. CASE Due(AllOrdered(trades), t) = {}
      <3>1. DoneAt(t) = 0 /\ done = acc.done
        BY <2>1 DEF DoneAt, DoneAfter
      <3> HIDE DEF done
      <3> QED BY <1>3, <3>1
    <2>2. CASE Due(AllOrdered(trades), t) # {}
      BY <2>2 DEF DoneAt, DoneAfter
    <2> QED BY <2>1, <2>2
  <1> HIDE DEF done
  <1>6. pos = BooksAt(h, DoneAt(t))
    <2>1. acc.done \in 0 .. Len(trades) /\ done \in acc.done .. Len(trades)
      BY <1>3, <1>4, <1>5
    <2>2. PosWalk(BooksAt(h, acc.done), part) = BooksAt(h, done)
      BY <2>1, BooksAlong DEF IInv
    <2> QED BY <1>3, <1>5, <2>2
  <1> HIDE DEF pos, prices
  <1>7. ptr \in Pointers(prices)
    BY <1>1, <1>2 DEF ChartAcc
  <1>8. (\A s \in Symbols : Stands(prices[s], ptr[s], t)) /\ Reads(pos, ptr, prices, t)
    BY <1>2, <1>3, PointersStep DEF prices
  <1> HIDE DEF ptr
  <1>9. x = AsOf(t)
    BY <1>6, <1>7, <1>8, PointIsOnDay DEF prices
  <1>10. ASSUME NEW u \in Int, t <= u PROVE Behind(h, next, prices, u)
    <2>1. DoneAt(t) \in 0 .. DoneAt(u)
      BY <1>10, LaterDays
    <2>2. ASSUME NEW s \in Symbols PROVE Stands(prices[s], ptr[s], u)
      <3>1. prices[s] \in Seq(PricePoint)
        BY PricesTyped DEF prices
      <3> QED BY <1>8, <1>10, <3>1, LaterDays
    <2>3. next.done = done /\ next.pos = pos /\ next.ptr = ptr
      BY <1>1
    <2> HIDE DEF next
    <2> QED BY <1>5, <1>6, <2>1, <2>2, <2>3 DEF Behind
  <1>11. next.out = Append(acc.out, x)
    BY <1>1
  <1> QED BY <1>9, <1>10, <1>11 DEF prices

\* Up to each day the chart shows what the tables say.
ShownUpTo(h, since, d, k) ==
    LET acc == ChartFold(PricesFrom(since), SubSeq(d, 1, k))
    IN  /\ Len(acc.out) = k
        /\ \A j \in 1 .. k : acc.out[j] = AsOf(d[j])
        /\ k < Len(d) => Behind(h, acc, PricesFrom(since), d[k + 1])

LEMMA ScanIsPointwise ==
  ASSUME IInv, NEW since \in Int, NEW d, DaysFrom(d, since)
  PROVE  LET out == ChartFold(PricesFrom(since), d).out
         IN  Len(out) = Len(d) /\ \A k \in 1 .. Len(d) : out[k] = AsOf(d[k])
  <1> DEFINE prices == PricesFrom(since)
             K == Len(d)
             walk(k) == ChartFold(prices, SubSeq(d, 1, k))
  <1>1. PICK h : ReadOrder(h)
    BY ReadOrderExists DEF IInv
  <1>2. K \in Nat /\ d \in Seq(Int) /\ DOMAIN d = 1 .. K
    BY DEF DaysFrom
  <1>3. \A k \in 1 .. K : d[k] \in Int /\ d[k] >= since
    BY <1>2, ElementOfSeq DEF DaysFrom
  <1>4. /\ SubSeq(d, 1, 0) = << >> /\ SubSeq(d, 1, K) = d
        /\ \A m \in 0 .. K : SubSeq(d, 1, m) \in Seq(Int)
        /\ \A m \in 1 .. K : SubSeq(d, 1, m) = Append(SubSeq(d, 1, m - 1), d[m])
    BY <1>2, EveryPrefix
  <1>5. \A m \in 0 .. K : walk(m) \in ChartAcc(prices)
    BY <1>4, ChartUnfold
  <1>6. \A m \in 1 .. K : m - 1 \in 0 .. K /\ walk(m) = ChartStep(walk(m - 1), d[m], AllOrdered(trades), prices)
    <2> SUFFICES ASSUME NEW m \in 1 .. K
                 PROVE  m - 1 \in 0 .. K /\ walk(m) = ChartStep(walk(m - 1), d[m], AllOrdered(trades), prices)
      OBVIOUS
    <2>1. m - 1 \in 0 .. K
      BY <1>2
    <2>2. SubSeq(d, 1, m - 1) \in Seq(Int) /\ d[m] \in Int /\ SubSeq(d, 1, m) = Append(SubSeq(d, 1, m - 1), d[m])
      BY <1>3, <1>4, <2>1
    <2>3. ChartFold(prices, Append(SubSeq(d, 1, m - 1), d[m])) = ChartStep(walk(m - 1), d[m], AllOrdered(trades), prices)
      BY <2>2, ChartUnfold
    <2> QED BY <2>1, <2>2, <2>3
  <1>7. ShownUpTo(h, since, d, 0)
    <2>1. walk(0) = ChartBegin
      BY <1>4, ChartUnfold
    <2>2. ChartBegin.out = << >>
      BY DEF ChartBegin
    <2>3. ASSUME 0 < K PROVE Behind(h, ChartBegin, prices, d[1])
      <3>1. d[1] \in Int
        BY <1>2, <1>3, <2>3
      <3>2. DoneAt(d[1]) \in 0 .. Len(trades) /\ Len(trades) \in Nat
        BY <1>1, <3>1, DueFacts DEF IInv, Typed
      <3>3. BooksAt(h, 0) = [s \in Symbols |-> NoPosition]
        BY <1>1, BooksStep DEF IInv
      <3>4. ASSUME NEW s \in Symbols PROVE Stands(prices[s], 0, d[1])
        <4>1. prices[s] \in Seq(PricePoint)
          BY PricesTyped
        <4> HIDE DEF prices
        <4>2. 0 <= Len(prices[s])
          BY <4>1
        <4> QED BY <4>2 DEF Stands
      <3>5. 0 \in 0 .. DoneAt(d[1])
        BY <3>2
      <3> HIDE DEF prices
      <3> QED BY <3>3, <3>4, <3>5 DEF Behind, ChartBegin
    <2>4. Len(<< >>) = 0 /\ \A j \in 1 .. 0 : FALSE
      OBVIOUS
    <2> HIDE DEF K, prices
    <2>5. 0 + 1 = 1
      OBVIOUS
    <2> QED BY <2>1, <2>2, <2>3, <2>4, <2>5 DEF ShownUpTo, K, prices
  <1>8. ASSUME NEW m \in 1 .. K, ShownUpTo(h, since, d, m - 1) PROVE ShownUpTo(h, since, d, m)
    <2> DEFINE acc == walk(m - 1)
               next == walk(m)
    <2>1. m - 1 \in 0 .. K /\ next = ChartStep(acc, d[m], AllOrdered(trades), prices)
          /\ acc \in ChartAcc(prices) /\ d[m] \in Int /\ d[m] >= since /\ m - 1 < K /\ m - 1 + 1 = m
      BY <1>2, <1>3, <1>5, <1>6
    <2>2. /\ Len(acc.out) = m - 1 /\ \A j \in 1 .. m - 1 : acc.out[j] = AsOf(d[j])
          /\ Behind(h, acc, prices, d[m])
      BY <1>8, <2>1 DEF ShownUpTo
    <2> HIDE DEF acc, next, K
    <2>3. /\ next.out = Append(acc.out, AsOf(d[m]))
          /\ \A u \in Int : d[m] <= u => Behind(h, next, prices, u)
      BY <1>1, <2>1, <2>2, ScanStep
    <2>4. acc.out \in Seq(ChartRow) /\ m \in Nat
      BY <1>2, <2>1 DEF ChartAcc
    <2>5. Len(next.out) = m /\ \A j \in 1 .. m : next.out[j] = AsOf(d[j])
      <3> DEFINE X == ChartRow \cup {AsOf(d[m])}
                 o == acc.out
                 y == AsOf(d[m])
      <3>1. o \in Seq(X) /\ y \in X
        BY <2>4
      <3> HIDE DEF X, o, y
      <3>2. Len(Append(o, y)) = Len(o) + 1 /\ (\A j \in 1 .. Len(o) : Append(o, y)[j] = o[j]) /\ Append(o, y)[Len(o) + 1] = y
        BY <3>1, AppendProperties
      <3>3. \A j \in 1 .. m : j \in 1 .. m - 1 \/ j = m
        BY <2>4
      <3>4. Len(o) + 1 = m
        BY <2>2, <2>4 DEF o
      <3> QED BY <2>2, <2>3, <3>2, <3>3, <3>4 DEF o, y
    <2>6. ASSUME m < K PROVE Behind(h, next, prices, d[m + 1])
      <3>1. m + 1 \in 1 .. K
        BY <1>2, <2>4, <2>6
      <3>2. d[m] <= d[m + 1] /\ d[m + 1] \in Int
        <4>1. m <= m + 1
          BY <2>4
        <4> QED BY <1>2, <1>3, <3>1, <4>1 DEF DaysFrom
      <3> QED BY <2>3, <3>2
    <2> QED BY <2>5, <2>6 DEF ShownUpTo, next, K
  <1> DEFINE bad == {m \in 0 .. K : ~ShownUpTo(h, since, d, m)}
  <1>9. bad = {}
    <2> SUFFICES ASSUME bad # {} PROVE FALSE
      OBVIOUS
    <2> HIDE DEF K
    <2>1. bad \subseteq Nat
      BY <1>2
    <2>2. PICK m \in bad : \A k \in bad : m <= k
      <3> HIDE DEF bad
      <3> QED BY <2>1, SmallestMember
    <2>3. m # 0
      BY <1>7
    <2>4. m \in 1 .. K /\ m - 1 \in 0 .. K /\ m - 1 \notin bad
      BY <1>2, <2>2, <2>3
    <2>5. ShownUpTo(h, since, d, m - 1)
      BY <2>4
    <2> QED BY <1>8, <2>4, <2>5
  <1>10. ShownUpTo(h, since, d, K)
    <2> HIDE DEF K
    <2> QED BY <1>2, <1>9
  <1> QED BY <1>4, <1>10 DEF ShownUpTo

LEMMA ChartIsScan ==
  \A start, step : Chart(start, step) = ChartFold(PricesFrom(start), Buckets(start, clock, step)).out
  BY DEF Chart, ChartFold, ChartBegin, PricesFrom

LEMMA ChartOf == IInv => ChartIsPointwise
  <1> SUFFICES ASSUME IInv, NEW p \in Periods, NEW step \in {HourLength, DayLength}, NEW k \in DOMAIN Chart(Start(p), step)
               PROVE  Chart(Start(p), step)[k] = AsOf(Chart(Start(p), step)[k].at)
    BY DEF ChartIsPointwise
  <1> DEFINE start == Start(p)
             b == Buckets(start, clock, step)
             out == Chart(start, step)
  <1>1. start \in Int /\ start <= clock /\ clock \in Int
    BY StartFacts, TablesOf
  <1> HIDE DEF start
  <1>2. DaysFrom(b, start)
    <2>1. step \in Nat \ {0}
      BY ValuationAssumption
    <2> QED BY <1>1, <2>1, BucketFacts
  <1>3. out = ChartFold(PricesFrom(start), b).out
    BY ChartIsScan
  <1> HIDE DEF b
  <1>4. /\ Len(out) = Len(b) /\ \A n \in 1 .. Len(b) : out[n] = AsOf(b[n])
    BY <1>1, <1>2, <1>3, ScanIsPointwise
  <1>5. ChartFold(PricesFrom(start), b) \in ChartAcc(PricesFrom(start))
    BY <1>1, <1>2, ChartUnfold DEF DaysFrom
  <1>6. out \in Seq(ChartRow)
    BY <1>3, <1>5 DEF ChartAcc
  <1> HIDE DEF out
  <1>7. out[k] = AsOf(b[k])
    <2>1. k \in 1 .. Len(out)
      BY <1>6 DEF out, start
    <2> QED BY <1>4, <2>1
  <1>8. AsOf(b[k]).at = b[k]
    BY DEF AsOf
  <1> QED BY <1>7, <1>8 DEF out, start

(***************************************************************************)
(* The chart scans its buckets with one pass over the trades and a pointer *)
(* into each price list, and its points are still, bucket by bucket, what  *)
(* the tables say of that day on their own: no trade and no price is read  *)
(* twice, passed over or read too early, in any window and any step.       *)
(***************************************************************************)
THEOREM ChartPointwise == Spec => []ChartIsPointwise
  BY ChartOf, Invariance, PTL

-----------------------------------------------------------------------------
(***************************************************************************)
(* The return series.                                                      *)
(***************************************************************************)
\* The value series keeps quantities only.
AllQtys == [Symbols -> Nat]

QtyWalk(q, r) == FoldLeft(QtyStep, q, r)

IsQtyWalk(h, q, d) ==
    h = [w \in SUBSET DOMAIN d |->
            IF w = {} THEN q ELSE QtyStep(h[w \ {Max(w)}], d[Max(w)])]

LEMMA QtyWalkIsWalk == \A q, d : QtyWalk(q, d) = (CHOOSE h : IsQtyWalk(h, q, d))[DOMAIN d]
  BY DEF QtyWalk, FoldLeft, MapThenFoldSet, IsQtyWalk

LEMMA QtyStepType ==
  \A q \in AllQtys, x \in TradeRow :
     /\ QtyStep(q, x) \in AllQtys
     /\ \A s \in Symbols : QtyStep(q, x)[s] =
           IF x.sym # s THEN q[s]
           ELSE IF x.type = "BUY" THEN q[s] + x.qty ELSE IF q[s] > x.qty THEN q[s] - x.qty ELSE 0
  <1> SUFFICES ASSUME NEW q \in AllQtys, NEW x \in TradeRow
               PROVE  /\ QtyStep(q, x) \in AllQtys
                      /\ \A s \in Symbols : QtyStep(q, x)[s] =
                            IF x.sym # s THEN q[s]
                            ELSE IF x.type = "BUY" THEN q[s] + x.qty
                            ELSE IF q[s] > x.qty THEN q[s] - x.qty ELSE 0
    OBVIOUS
  <1> DEFINE new(s) == IF x.sym # s THEN q[s]
                       ELSE IF x.type = "BUY" THEN q[s] + x.qty
                       ELSE IF q[s] > x.qty THEN q[s] - x.qty ELSE 0
  <1>1. x.sym \in Symbols /\ x.qty \in Nat
    BY DEF TradeRow
  <1>2. QtyStep(q, x) = [s \in Symbols |-> new(s)]
    <2>1. QtyStep(q, x) = [s \in Symbols |->
             IF s = x.sym THEN IF x.type = "BUY" THEN q[s] + x.qty
                               ELSE IF q[s] > x.qty THEN q[s] - x.qty ELSE 0
             ELSE q[s]]
      BY <1>1 DEF QtyStep, AllQtys
    <2> QED BY <2>1
  <1>3. \A s \in Symbols : new(s) \in Nat
    <2> SUFFICES ASSUME NEW s \in Symbols PROVE new(s) \in Nat
      OBVIOUS
    <2>1. q[s] \in Nat
      BY DEF AllQtys
    <2> QED BY <1>1, <2>1
  <1> HIDE DEF new
  <1>4. QtyStep(q, x) \in AllQtys /\ \A s \in Symbols : QtyStep(q, x)[s] = new(s)
    BY <1>2, <1>3 DEF AllQtys
  <1> QED BY <1>4 DEF new

LEMMA QtyUnfold ==
  ASSUME NEW q \in AllQtys
  PROVE  /\ QtyWalk(q, << >>) = q
         /\ \A r \in Seq(TradeRow) : QtyWalk(q, r) \in AllQtys
         /\ \A r \in Seq(TradeRow), x \in TradeRow : QtyWalk(q, Append(r, x)) = QtyStep(QtyWalk(q, r), x)
  <1> DEFINE V == AllQtys
             G == [p \in V \X TradeRow |-> QtyStep(p[1], p[2])]
  <1>1. \A v \in V, x \in TradeRow : QtyStep(v, x) \in V /\ G[<<v, x>>] = QtyStep(v, x)
    BY QtyStepType
  <1>2. G \in [V \X TradeRow -> V]
    BY <1>1
  <1> HIDE DEF G, V
  <1>3. PICK f : FoldsBy(f, G, q, TradeRow, V)
    BY <1>2, SequenceFold DEF V
  <1>4. ASSUME NEW s \in Seq(TradeRow) PROVE QtyWalk(q, s) = f[s]
    <2> DEFINE S == DOMAIN s
               c == [w \in SUBSET S |-> Max(w)]
               k == CHOOSE h : IsQtyWalk(h, q, s)
    <2>1. IsFiniteSet(S) /\ \A w \in SUBSET S : w # {} => Max(w) \in w /\ c[w] = Max(w)
      BY LargestPlace
    <2>2. PICK h \in [SUBSET S -> V] : IsSeqFold(h, s, G, q) /\ h[S] = f[s]
      BY <1>3 DEF FoldsBy
    <2>3. \A p \in S : s[p] \in TradeRow
      BY ElementOfSeq
    <2>4. ASSUME NEW w \in SUBSET S
          PROVE  h[w] = IF w = {} THEN q ELSE QtyStep(h[w \ {Max(w)}], s[Max(w)])
      <3>1. h[w] = IF w = {} THEN q ELSE G[<<h[w \ {Max(w)}], s[Max(w)]>>]
        BY <2>2 DEF IsSeqFold
      <3>2. w # {} => h[w \ {Max(w)}] \in V /\ s[Max(w)] \in TradeRow
        BY <2>1, <2>3
      <3> QED BY <1>1, <3>1, <3>2
    <2>5. IsQtyWalk(h, q, s)
      <3>1. h = [w \in SUBSET S |-> h[w]]
        OBVIOUS
      <3> QED BY <2>4, <3>1 DEF IsQtyWalk
    <2> HIDE DEF k
    <2>6. IsQtyWalk(k, q, s)
      BY <2>5 DEF k
    <2>7. AgreeByStep(h, k, S, c)
      <3>1. {} \in SUBSET S /\ h[{}] = k[{}]
        BY <2>5, <2>6 DEF IsQtyWalk
      <3>2. ASSUME NEW w \in SUBSET S, w # {}, h[w \ {c[w]}] = k[w \ {c[w]}] PROVE h[w] = k[w]
        <4>1. h[w \ {Max(w)}] = k[w \ {Max(w)}]
          BY <2>1, <3>2
        <4>2. h[w] = QtyStep(h[w \ {Max(w)}], s[Max(w)])
          BY <2>4, <3>2
        <4>3. k[w] = QtyStep(k[w \ {Max(w)}], s[Max(w)])
          BY <2>6, <3>2 DEF IsQtyWalk
        <4> QED BY <4>1, <4>2, <4>3
      <3> HIDE DEF S, c
      <3> QED BY <2>1, <3>1, <3>2 DEF AgreeByStep
    <2>8. h[S] = k[S]
      <3> HIDE DEF S, c
      <3> QED BY <2>1, <2>7, SameFold
    <2> QED BY <2>2, <2>8, QtyWalkIsWalk DEF k
  <1>5. << >> \in Seq(TradeRow) /\ \A s \in Seq(TradeRow), x \in TradeRow : Append(s, x) \in Seq(TradeRow)
    OBVIOUS
  <1>6. /\ f[<< >>] = q
        /\ \A s \in Seq(TradeRow) : f[s] \in V
        /\ \A s \in Seq(TradeRow), x \in TradeRow : f[Append(s, x)] = QtyStep(f[s], x)
    BY <1>1, <1>3 DEF FoldsBy
  <1> QED BY <1>4, <1>5, <1>6 DEF V

\* The quantities of the books.
Qtys(b) == [s \in Symbols |-> b[s].qty]

LEMMA QtyOfBooks ==
  \A b \in AllBooks, x \in TradeRow : Qtys(b) \in AllQtys /\ QtyStep(Qtys(b), x) = Qtys(PosStep(b, x))
  <1> SUFFICES ASSUME NEW b \in AllBooks, NEW x \in TradeRow
               PROVE  Qtys(b) \in AllQtys /\ QtyStep(Qtys(b), x) = Qtys(PosStep(b, x))
    OBVIOUS
  <1> DEFINE q == Qtys(b)
             r == QtyStep(q, x)
  <1>1. \A s \in Symbols : b[s] \in Books /\ b[s].qty \in Nat /\ q[s] = b[s].qty
    BY DEF AllBooks, Books, Qtys
  <1>2. q \in AllQtys
    <2>1. q = [s \in Symbols |-> q[s]]
      BY DEF Qtys
    <2> HIDE DEF q
    <2> QED BY <1>1, <2>1 DEF AllQtys
  <1> HIDE DEF q
  <1>3. r \in AllQtys /\ \A s \in Symbols : r[s] =
           IF x.sym # s THEN q[s]
           ELSE IF x.type = "BUY" THEN q[s] + x.qty ELSE IF q[s] > x.qty THEN q[s] - x.qty ELSE 0
    BY <1>2, QtyStepType
  <1> HIDE DEF r
  <1>4. PosStep(b, x) \in AllBooks /\ \A s \in Symbols : PosStep(b, x)[s] = IF x.sym = s THEN CostStep(b[s], x) ELSE b[s]
    BY PosStepType
  <1>5. ASSUME NEW s \in Symbols PROVE r[s] = PosStep(b, x)[s].qty
    <2>1. CASE x.sym # s
      BY <1>1, <1>3, <1>4, <2>1
    <2>2. CASE x.sym = s /\ x.type = "BUY"
      <3>1. CostStep(b[s], x).qty = b[s].qty + x.qty
        BY <2>2 DEF CostStep, Bought
      <3> QED BY <1>1, <1>3, <1>4, <2>2, <3>1
    <2>3. CASE x.sym = s /\ x.type # "BUY"
      <3>1. CostStep(b[s], x) = Sold(b[s], x)
        BY <2>3 DEF CostStep
      <3>2. x.qty \in Nat /\ x.qty > 0
        BY DEF TradeRow
      <3>3. Sold(b[s], x).qty = IF b[s].qty > x.qty THEN b[s].qty - x.qty ELSE 0
        <4>1. CASE b[s].qty = 0
          BY <3>2, <4>1 DEF Sold
        <4>2. CASE b[s].qty # 0
          <5>1. Sold(b[s], x).qty = b[s].qty - (IF x.qty <= b[s].qty THEN x.qty ELSE b[s].qty)
            BY <4>2 DEF Sold
          <5> QED BY <1>1, <3>2, <5>1
        <4> QED BY <4>1, <4>2
      <3> QED BY <1>1, <1>3, <1>4, <2>3, <3>1, <3>3
    <2> QED BY <2>1, <2>2, <2>3
  <1>6. r = [s \in Symbols |-> r[s]]
    BY <1>3 DEF AllQtys
  <1>7. r = Qtys(PosStep(b, x))
    BY <1>5, <1>6 DEF Qtys
  <1> QED BY <1>2, <1>7 DEF r, q

LEMMA QtyOfWalk ==
  ASSUME NEW b \in AllBooks, NEW r \in Seq(TradeRow)
  PROVE  QtyWalk(Qtys(b), r) = Qtys(PosWalk(b, r))
  <1> DEFINE N == Len(r)
             pre(m) == SubSeq(r, 1, m)
             bad == {m \in 0 .. N : QtyWalk(Qtys(b), pre(m)) # Qtys(PosWalk(b, pre(m)))}
  <1>1. /\ N \in Nat /\ pre(0) = << >> /\ pre(N) = r
        /\ \A m \in 0 .. N : pre(m) \in Seq(TradeRow)
        /\ \A m \in 1 .. N : pre(m) = Append(pre(m - 1), r[m]) /\ r[m] \in TradeRow
    BY EveryPrefix, ElementOfSeq
  <1>2. Qtys(b) \in AllQtys
    <2>1. \A s \in Symbols : b[s].qty \in Nat
      BY DEF AllBooks, Books
    <2> QED BY <2>1 DEF Qtys, AllQtys
  <1> HIDE DEF pre, N
  <1>3. bad = {}
    <2> SUFFICES ASSUME bad # {} PROVE FALSE
      OBVIOUS
    <2>1. bad \subseteq Nat
      BY <1>1
    <2>2. PICK m \in bad : \A k \in bad : m <= k
      <3> HIDE DEF bad
      <3> QED BY <2>1, SmallestMember
    <2>3. m # 0
      BY <1>1, <1>2, QtyUnfold, PosUnfold
    <2>4. m \in 1 .. N /\ m - 1 \in 0 .. N /\ m - 1 \notin bad
      BY <1>1, <2>2, <2>3
    <2>5. QtyWalk(Qtys(b), pre(m - 1)) = Qtys(PosWalk(b, pre(m - 1)))
      BY <2>4
    <2>6. pre(m - 1) \in Seq(TradeRow) /\ r[m] \in TradeRow /\ pre(m) = Append(pre(m - 1), r[m])
      BY <1>1, <2>4
    <2>7. /\ QtyWalk(Qtys(b), pre(m)) = QtyStep(QtyWalk(Qtys(b), pre(m - 1)), r[m])
          /\ PosWalk(b, pre(m)) = PosStep(PosWalk(b, pre(m - 1)), r[m])
          /\ PosWalk(b, pre(m - 1)) \in AllBooks
      BY <1>2, <2>6, QtyUnfold, PosUnfold
    <2>8. QtyWalk(Qtys(b), pre(m)) = Qtys(PosWalk(b, pre(m)))
      BY <2>5, <2>6, <2>7, QtyOfBooks
    <2> QED BY <2>8
  <1>4. N \in 0 .. N
    BY <1>1
  <1>5. QtyWalk(Qtys(b), pre(N)) = Qtys(PosWalk(b, pre(N)))
    BY <1>3, <1>4
  <1> QED BY <1>1, <1>5

\* A step of the series, part by part.
PtrFor(qty, ptr, prices, t) ==
    [s \in Symbols |-> IF qty[s] > 0 THEN Advance(prices[s], ptr[s], t) ELSE ptr[s]]

SeriesWorth(qty, ptr, prices, t) ==
    [s \in Symbols |-> qty[s] * PointPrice(prices[s], ptr[s]) * RateAtHour(Currency[s], t)]

LEMMA SeriesStepParts ==
  ASSUME NEW acc, NEW t, NEW prices
  PROVE  LET done == DoneAfter(acc.done, t)
             qty  == QtyWalk(acc.qty, SubSeq(AllOrdered(trades), acc.done + 1, done))
             ptr  == PtrFor(qty, acc.ptr, prices, t)
         IN  SeriesStep(acc, t, AllOrdered(trades), prices) =
                [done |-> done, qty |-> qty, ptr |-> ptr,
                 out |-> Append(acc.out, [at |-> t, value |-> SumFunction(SeriesWorth(qty, ptr, prices, t))])]
  BY DEF SeriesStep, DoneAfter, QtyWalk, PtrFor, SeriesWorth

SeriesRow == [at : Int, value : Nat]

SeriesAcc(prices) ==
    [done : 0 .. Len(trades), qty : AllQtys, ptr : Pointers(prices), out : Seq(SeriesRow)]

LEMMA TradeDateRateTyped == IInv => \A c, t : TradeDateRate(c, t) \in Nat
  BY DEF IInv, Typed, TradeDateRate, Missing

LEMMA RateAtHourTyped == IInv => \A c, t : RateAtHour(c, t) \in Nat
  BY TradeDateRateTyped DEF RateAtHour

LEMMA HomeRate == \A t : RateAtHour(Home, t) = 1
  BY DEF RateAtHour, TradeDateRate

LEMMA SeriesWorthTyped ==
  ASSUME IInv, NEW since \in Int, NEW qty \in AllQtys, NEW ptr \in Pointers(PricesFrom(since)), NEW t
  PROVE  /\ \A s \in Symbols : SeriesWorth(qty, ptr, PricesFrom(since), t)[s] \in Nat
         /\ SumFunction(SeriesWorth(qty, ptr, PricesFrom(since), t)) \in Nat
  <1> DEFINE prices == PricesFrom(since)
             w == SeriesWorth(qty, ptr, prices, t)
  <1>1. ASSUME NEW s \in Symbols PROVE w[s] \in Nat
    <2>1. qty[s] \in Nat /\ ptr[s] \in Nat /\ ptr[s] <= Len(prices[s])
      BY DEF AllQtys, Pointers
    <2>2. prices[s] \in Seq(PricePoint)
      BY PricesTyped
    <2>3. RateAtHour(Currency[s], t) \in Nat
      BY RateAtHourTyped
    <2>4. w[s] = qty[s] * PointPrice(prices[s], ptr[s]) * RateAtHour(Currency[s], t)
      BY DEF SeriesWorth
    <2> HIDE DEF w, prices
    <2>5. PointPrice(prices[s], ptr[s]) \in Nat
      BY <2>1, <2>2, PointPriceTyped
    <2>6. \A a, b, c \in Nat : a * b * c \in Nat
      OBVIOUS
    <2> QED BY <2>1, <2>3, <2>4, <2>5, <2>6
  <1>2. DOMAIN w = Symbols
    BY DEF SeriesWorth
  <1> HIDE DEF w
  <1>3. SumFunction(w) \in Nat
    BY <1>1, <1>2, NaturalSum, PortfolioAssumption
  <1> QED BY <1>1, <1>3 DEF w

LEMMA SeriesStepTyped ==
  ASSUME IInv, NEW since \in Int, NEW acc \in SeriesAcc(PricesFrom(since)), NEW t \in Int
  PROVE  SeriesStep(acc, t, AllOrdered(trades), PricesFrom(since)) \in SeriesAcc(PricesFrom(since))
  <1> DEFINE prices == PricesFrom(since)
             done == DoneAfter(acc.done, t)
             part == SubSeq(AllOrdered(trades), acc.done + 1, done)
             qty  == QtyWalk(acc.qty, part)
             ptr  == PtrFor(qty, acc.ptr, prices, t)
             x    == [at |-> t, value |-> SumFunction(SeriesWorth(qty, ptr, prices, t))]
  <1>1. /\ acc.done \in 0 .. Len(trades) /\ acc.qty \in AllQtys /\ acc.ptr \in Pointers(prices)
        /\ acc.out \in Seq(SeriesRow)
    BY DEF SeriesAcc
  <1>2. done \in 0 .. Len(trades)
    <2>1. PICK h : ReadOrder(h)
      BY ReadOrderExists DEF IInv
    <2>2. DoneAt(t) \in 0 .. Len(trades)
      BY <2>1, DueFacts DEF IInv
    <2> QED BY <1>1, <2>2 DEF DoneAfter, DoneAt
  <1>3. part \in Seq(TradeRow)
    <2> HIDE DEF done
    <2> QED BY <1>1, <1>2, PartTyped DEF IInv
  <1> HIDE DEF part
  <1>4. qty \in AllQtys
    BY <1>1, <1>3, QtyUnfold
  <1> HIDE DEF qty
  <1>5. ptr \in Pointers(prices)
    <2>1. ASSUME NEW s \in Symbols PROVE ptr[s] \in Nat /\ ptr[s] <= Len(prices[s])
      <3>1. acc.ptr[s] \in Nat /\ acc.ptr[s] <= Len(prices[s])
        BY <1>1 DEF Pointers
      <3>2. prices[s] \in Seq(PricePoint)
        BY PricesTyped
      <3>3. ptr[s] = IF qty[s] > 0 THEN Advance(prices[s], acc.ptr[s], t) ELSE acc.ptr[s]
        BY DEF PtrFor
      <3> HIDE DEF prices, ptr
      <3> QED BY <3>1, <3>2, <3>3, AdvanceTyped
    <2>2. ptr = [s \in Symbols |-> ptr[s]]
      BY DEF PtrFor
    <2> HIDE DEF ptr
    <2> QED BY <2>1, <2>2 DEF Pointers
  <1> HIDE DEF ptr
  <1>6. x \in SeriesRow
    BY <1>4, <1>5, SeriesWorthTyped DEF SeriesRow
  <1> HIDE DEF x
  <1>7. SeriesStep(acc, t, AllOrdered(trades), prices) = [done |-> done, qty |-> qty, ptr |-> ptr, out |-> Append(acc.out, x)]
    BY SeriesStepParts DEF qty, part, ptr, x
  <1>8. Append(acc.out, x) \in Seq(SeriesRow)
    BY <1>1, <1>6
  <1> HIDE DEF done
  <1> QED BY <1>2, <1>4, <1>5, <1>7, <1>8 DEF SeriesAcc

SeriesBegin ==
    [done |-> 0, qty |-> [s \in Symbols |-> 0], ptr |-> [s \in Symbols |-> 0], out |-> << >>]

SeriesFold(prices, d) ==
    FoldLeft(LAMBDA acc, t : SeriesStep(acc, t, AllOrdered(trades), prices), SeriesBegin, d)

IsSeriesFold(h, prices, d) ==
    h = [w \in SUBSET DOMAIN d |->
            IF w = {} THEN SeriesBegin
            ELSE SeriesStep(h[w \ {Max(w)}], d[Max(w)], AllOrdered(trades), prices)]

LEMMA SeriesFoldIsFold ==
  \A prices, d : SeriesFold(prices, d) = (CHOOSE h : IsSeriesFold(h, prices, d))[DOMAIN d]
  BY DEF SeriesFold, FoldLeft, MapThenFoldSet, IsSeriesFold

LEMMA SeriesIsScan == \A days, since : Series(days, since) = SeriesFold(PricesFrom(since), days).out
  BY DEF Series, SeriesFold, SeriesBegin, PricesFrom

LEMMA SeriesBeginTyped ==
  ASSUME IInv, NEW since \in Int
  PROVE  SeriesBegin \in SeriesAcc(PricesFrom(since))
  <1> DEFINE prices == PricesFrom(since)
  <1>1. [s \in Symbols |-> 0] \in AllQtys
    BY DEF AllQtys
  <1>2. [s \in Symbols |-> 0] \in Pointers(prices)
    <2>1. ASSUME NEW s \in Symbols PROVE 0 <= Len(prices[s])
      <3>1. prices[s] \in Seq(PricePoint)
        BY PricesTyped
      <3> HIDE DEF prices
      <3> QED BY <3>1
    <2> HIDE DEF prices
    <2> QED BY <2>1 DEF Pointers
  <1>3. 0 \in 0 .. Len(trades) /\ << >> \in Seq(SeriesRow)
    BY DEF IInv, Typed
  <1> QED BY <1>1, <1>2, <1>3 DEF SeriesBegin, SeriesAcc

LEMMA SeriesUnfold ==
  ASSUME IInv, NEW since \in Int
  PROVE  LET walk(d) == SeriesFold(PricesFrom(since), d)
         IN  /\ walk(<< >>) = SeriesBegin
             /\ \A d \in Seq(Int) : walk(d) \in SeriesAcc(PricesFrom(since))
             /\ \A d \in Seq(Int), t \in Int :
                   walk(Append(d, t)) = SeriesStep(walk(d), t, AllOrdered(trades), PricesFrom(since))
  <1> DEFINE prices == PricesFrom(since)
             V == SeriesAcc(prices)
             step(v, t) == SeriesStep(v, t, AllOrdered(trades), prices)
             G == [p \in V \X Int |-> step(p[1], p[2])]
  <1>1. \A v \in V, t \in Int : step(v, t) \in V /\ G[<<v, t>>] = step(v, t)
    BY SeriesStepTyped
  <1>2. G \in [V \X Int -> V]
    BY <1>1
  <1>3. SeriesBegin \in V
    BY SeriesBeginTyped
  <1> HIDE DEF G, V
  <1>4. PICK f : FoldsBy(f, G, SeriesBegin, Int, V)
    BY <1>2, <1>3, SequenceFold
  <1>5. ASSUME NEW d \in Seq(Int) PROVE SeriesFold(prices, d) = f[d]
    <2> DEFINE S == DOMAIN d
               c == [w \in SUBSET S |-> Max(w)]
               k == CHOOSE h : IsSeriesFold(h, prices, d)
    <2>1. IsFiniteSet(S) /\ \A w \in SUBSET S : w # {} => Max(w) \in w /\ c[w] = Max(w)
      BY LargestPlace
    <2>2. PICK h \in [SUBSET S -> V] : IsSeqFold(h, d, G, SeriesBegin) /\ h[S] = f[d]
      BY <1>4 DEF FoldsBy
    <2>3. \A p \in S : d[p] \in Int
      BY ElementOfSeq
    <2>4. ASSUME NEW w \in SUBSET S
          PROVE  h[w] = IF w = {} THEN SeriesBegin ELSE step(h[w \ {Max(w)}], d[Max(w)])
      <3>1. h[w] = IF w = {} THEN SeriesBegin ELSE G[<<h[w \ {Max(w)}], d[Max(w)]>>]
        BY <2>2 DEF IsSeqFold
      <3>2. w # {} => h[w \ {Max(w)}] \in V /\ d[Max(w)] \in Int
        BY <2>1, <2>3
      <3> QED BY <1>1, <3>1, <3>2
    <2>5. IsSeriesFold(h, prices, d)
      <3>1. h = [w \in SUBSET S |-> h[w]]
        OBVIOUS
      <3> HIDE DEF prices
      <3> QED BY <2>4, <3>1 DEF IsSeriesFold
    <2> HIDE DEF k, prices
    <2>6. IsSeriesFold(k, prices, d)
      BY <2>5 DEF k
    <2>7. AgreeByStep(h, k, S, c)
      <3>1. \A w \in SUBSET S : k[w] = IF w = {} THEN SeriesBegin ELSE step(k[w \ {Max(w)}], d[Max(w)])
        BY <2>6 DEF IsSeriesFold
      <3> HIDE DEF step, c, S
      <3>2. {} \in SUBSET S
        OBVIOUS
      <3>3. h[{}] = k[{}]
        BY <2>4, <3>1, <3>2
      <3>4. ASSUME NEW w \in SUBSET S, w # {}, h[w \ {c[w]}] = k[w \ {c[w]}] PROVE h[w] = k[w]
        BY <2>1, <2>4, <3>1, <3>4
      <3> QED BY <2>1, <3>3, <3>4 DEF AgreeByStep
    <2>8. h[S] = k[S]
      <3> HIDE DEF S, c
      <3> QED BY <2>1, <2>7, SameFold
    <2> QED BY <2>2, <2>8, SeriesFoldIsFold DEF k
  <1>6. << >> \in Seq(Int) /\ \A s \in Seq(Int), x \in Int : Append(s, x) \in Seq(Int)
    OBVIOUS
  <1>7. /\ f[<< >>] = SeriesBegin
        /\ \A s \in Seq(Int) : f[s] \in V
        /\ \A s \in Seq(Int), x \in Int : f[Append(s, x)] = step(f[s], x)
    <2>1. f[<< >>] = SeriesBegin /\ f \in [Seq(Int) -> V]
      BY <1>4 DEF FoldsBy
    <2>2. \A s \in Seq(Int), x \in Int : f[Append(s, x)] = G[<<f[s], x>>]
      BY <1>4 DEF FoldsBy
    <2> QED BY <1>1, <2>1, <2>2
  <1> QED BY <1>5, <1>6, <1>7 DEF V

LEMMA SeriesTyped ==
  ASSUME IInv, NEW since \in Int, NEW days \in Seq(Int)
  PROVE  Series(days, since) \in Seq(SeriesRow)
  BY SeriesUnfold, SeriesIsScan DEF SeriesAcc

\* The value of each symbol on day t, by the rates of the trades.
ValueOn(t) ==
    [s \in Symbols |-> HeldAt(s, t).qty * LatestAt(points[s], t) * RateAtHour(Currency[s], t)]

SeriesPoint(t) == [at |-> t, value |-> SumFunction(ValueOn(t))]

LEMMA ValueOnTyped ==
  ASSUME IInv, NEW t
  PROVE  (\A s \in Symbols : ValueOn(t)[s] \in Nat) /\ SumFunction(ValueOn(t)) \in Nat
  <1>1. \A s \in Symbols : ValueOn(t)[s] \in Nat
    <2> SUFFICES ASSUME NEW s \in Symbols PROVE ValueOn(t)[s] \in Nat
      OBVIOUS
    <2>1. HeldAt(s, t).qty \in Nat /\ LatestAt(points[s], t) \in Nat /\ RateAtHour(Currency[s], t) \in Nat
      BY AmountTyped, RateAtHourTyped
    <2>2. \A a, b, c \in Nat : a * b * c \in Nat
      OBVIOUS
    <2>3. ValueOn(t)[s] = HeldAt(s, t).qty * LatestAt(points[s], t) * RateAtHour(Currency[s], t)
      BY DEF ValueOn
    <2> QED BY <2>1, <2>2, <2>3
  <1>2. DOMAIN ValueOn(t) = Symbols
    BY DEF ValueOn
  <1> QED BY <1>1, <1>2, NaturalSum, PortfolioAssumption

LEMMA WorthIsValue ==
  ASSUME IInv, NEW since \in Int, NEW t \in Int, NEW h, ReadOrder(h),
         NEW ptr \in Pointers(PricesFrom(since)), Reads(BooksAt(h, DoneAt(t)), ptr, PricesFrom(since), t)
  PROVE  SeriesWorth(Qtys(BooksAt(h, DoneAt(t))), ptr, PricesFrom(since), t) = ValueOn(t)
  <1> DEFINE prices == PricesFrom(since)
             pos == BooksAt(h, DoneAt(t))
             w == SeriesWorth(Qtys(pos), ptr, prices, t)
  <1>1. DoneAt(t) \in 0 .. Len(trades) /\ \A s : Firsts(h, DoneAt(t), s) = RowsUpTo(t, s)
    BY DueFacts DEF IInv
  <1>2. pos \in AllBooks
    BY <1>1, BooksStep DEF IInv
  <1>3. \A s \in Symbols : pos[s] = CostWalk(InOrder(trades, RowsUpTo(t, s)))
    BY <1>1 DEF BooksAt
  <1>4. ASSUME NEW s \in Symbols PROVE w[s] = ValueOn(t)[s]
    <2> DEFINE fx == RateAtHour(Currency[s], t)
               p == PointPrice(prices[s], ptr[s])
               q == pos[s].qty
    <2>1. w[s] = q * p * fx
      BY DEF SeriesWorth, Qtys
    <2>2. ValueOn(t)[s] = HeldAt(s, t).qty * LatestAt(points[s], t) * fx
      BY DEF ValueOn
    <2>3. HeldAt(s, t).qty = q
      BY <1>3, HeldFacts DEF IInv
    <2>4. q \in Nat /\ fx \in Nat /\ LatestAt(points[s], t) \in Nat
      BY <2>3, AmountTyped, RateAtHourTyped
    <2>5. p \in Nat
      <3>1. prices[s] \in Seq(PricePoint) /\ ptr[s] \in Nat /\ ptr[s] <= Len(prices[s])
        BY PricesTyped DEF Pointers
      <3> HIDE DEF prices
      <3> QED BY <3>1, PointPriceTyped
    <2>6. CASE q = 0
      <3>1. \A a, b \in Nat : 0 * a * b = 0
        OBVIOUS
      <3> HIDE DEF fx, p, q, w
      <3> QED BY <2>1, <2>2, <2>3, <2>4, <2>5, <2>6, <3>1
    <2>7. CASE q # 0
      <3>1. s \in HeldIn(pos)
        <4> HIDE DEF pos
        <4> QED BY <2>4, <2>7 DEF HeldIn
      <3>2. p = LatestAt(points[s], t)
        BY <3>1 DEF Reads
      <3> HIDE DEF fx, p, q, w
      <3> QED BY <2>1, <2>2, <2>3, <3>2
    <2> QED BY <2>6, <2>7
  <1>5. w = [s \in Symbols |-> w[s]] /\ ValueOn(t) = [s \in Symbols |-> ValueOn(t)[s]]
    BY DEF SeriesWorth, ValueOn
  <1> HIDE DEF w
  <1>6. w = ValueOn(t)
    BY <1>4, <1>5
  <1> QED BY <1>6 DEF w

SeriesBehind(h, acc, prices, t) ==
    /\ acc.done \in 0 .. DoneAt(t)
    /\ acc.qty = Qtys(BooksAt(h, acc.done))
    /\ \A s \in Symbols : Stands(prices[s], acc.ptr[s], t)

LEMMA SeriesScanStep ==
  ASSUME IInv, NEW since \in Int, NEW h, ReadOrder(h), NEW acc \in SeriesAcc(PricesFrom(since)),
         NEW t \in Int, t >= since, SeriesBehind(h, acc, PricesFrom(since), t)
  PROVE  LET next == SeriesStep(acc, t, AllOrdered(trades), PricesFrom(since))
         IN  /\ next.out = Append(acc.out, SeriesPoint(t))
             /\ \A u \in Int : t <= u => SeriesBehind(h, next, PricesFrom(since), u)
  <1> DEFINE prices == PricesFrom(since)
             done == DoneAfter(acc.done, t)
             part == SubSeq(AllOrdered(trades), acc.done + 1, done)
             qty  == QtyWalk(acc.qty, part)
             ptr  == PtrFor(qty, acc.ptr, prices, t)
             x    == [at |-> t, value |-> SumFunction(SeriesWorth(qty, ptr, prices, t))]
             next == SeriesStep(acc, t, AllOrdered(trades), prices)
             pos  == BooksAt(h, DoneAt(t))
  <1>1. next = [done |-> done, qty |-> qty, ptr |-> ptr, out |-> Append(acc.out, x)]
    BY SeriesStepParts
  <1>2. next \in SeriesAcc(prices) /\ acc.ptr \in Pointers(prices)
    BY SeriesStepTyped DEF SeriesAcc
  <1>3. acc.done \in 0 .. DoneAt(t) /\ acc.qty = Qtys(BooksAt(h, acc.done))
        /\ \A s \in Symbols : Stands(prices[s], acc.ptr[s], t)
    BY DEF SeriesBehind
  <1>4. DoneAt(t) \in 0 .. Len(trades) /\ Len(trades) \in Nat
    BY DueFacts DEF IInv, Typed
  <1>5. done = DoneAt(t)
    <2>1. CASE Due(AllOrdered(trades), t) = {}
      <3>1. DoneAt(t) = 0 /\ done = acc.done
        BY <2>1 DEF DoneAt, DoneAfter
      <3> HIDE DEF done
      <3> QED BY <1>3, <3>1
    <2>2. CASE Due(AllOrdered(trades), t) # {}
      BY <2>2 DEF DoneAt, DoneAfter
    <2> QED BY <2>1, <2>2
  <1> HIDE DEF done
  <1>6. qty = Qtys(pos)
    <2>1. acc.done \in 0 .. Len(trades) /\ done \in acc.done .. Len(trades) /\ done \in 0 .. Len(trades)
      BY <1>3, <1>4, <1>5
    <2>2. PosWalk(BooksAt(h, acc.done), part) = BooksAt(h, done)
      BY <2>1, BooksAlong DEF IInv
    <2>3. part \in Seq(TradeRow) /\ BooksAt(h, acc.done) \in AllBooks
      BY <2>1, PartTyped, BooksStep DEF IInv
    <2> HIDE DEF part
    <2>4. QtyWalk(Qtys(BooksAt(h, acc.done)), part) = Qtys(PosWalk(BooksAt(h, acc.done), part))
      BY <2>3, QtyOfWalk
    <2> QED BY <1>3, <1>5, <2>2, <2>4
  <1> HIDE DEF qty, pos
  <1>7. ptr = PtrAfter(pos, acc.ptr, prices, t)
    BY <1>6 DEF PtrFor, PtrAfter, Qtys
  <1>8. ptr \in Pointers(prices)
    <2> HIDE DEF ptr, prices
    <2> QED BY <1>1, <1>2 DEF SeriesAcc
  <1> HIDE DEF prices
  <1>9. (\A s \in Symbols : Stands(prices[s], ptr[s], t)) /\ Reads(pos, ptr, prices, t)
    BY <1>2, <1>3, <1>7, PointersStep DEF prices
  <1> HIDE DEF ptr
  <1>10. x = SeriesPoint(t)
    <2>1. SeriesWorth(Qtys(pos), ptr, prices, t) = ValueOn(t)
      BY <1>8, <1>9, WorthIsValue DEF prices, pos
    <2> QED BY <1>6, <2>1 DEF SeriesPoint
  <1>11. ASSUME NEW u \in Int, t <= u PROVE SeriesBehind(h, next, prices, u)
    <2>1. DoneAt(t) \in 0 .. DoneAt(u)
      BY <1>11, LaterDays
    <2>2. ASSUME NEW s \in Symbols PROVE Stands(prices[s], ptr[s], u)
      <3>1. prices[s] \in Seq(PricePoint)
        BY PricesTyped DEF prices
      <3> QED BY <1>9, <1>11, <3>1, LaterDays
    <2>3. next.done = done /\ next.qty = qty /\ next.ptr = ptr
      BY <1>1
    <2> HIDE DEF next
    <2> QED BY <1>5, <1>6, <2>1, <2>2, <2>3 DEF SeriesBehind, pos
  <1>12. next.out = Append(acc.out, x)
    BY <1>1
  <1> QED BY <1>10, <1>11, <1>12 DEF prices

ValuedUpTo(h, since, d, k) ==
    LET acc == SeriesFold(PricesFrom(since), SubSeq(d, 1, k))
    IN  /\ Len(acc.out) = k
        /\ \A j \in 1 .. k : acc.out[j] = SeriesPoint(d[j])
        /\ k < Len(d) => SeriesBehind(h, acc, PricesFrom(since), d[k + 1])

LEMMA SeriesIsPointwise ==
  ASSUME IInv, NEW since \in Int, NEW d, DaysFrom(d, since)
  PROVE  LET out == Series(d, since)
         IN  Len(out) = Len(d) /\ \A k \in 1 .. Len(d) : out[k] = SeriesPoint(d[k])
  <1> DEFINE prices == PricesFrom(since)
             K == Len(d)
             walk(k) == SeriesFold(prices, SubSeq(d, 1, k))
  <1>1. PICK h : ReadOrder(h)
    BY ReadOrderExists DEF IInv
  <1>2. K \in Nat /\ d \in Seq(Int) /\ DOMAIN d = 1 .. K
    BY DEF DaysFrom
  <1>3. \A k \in 1 .. K : d[k] \in Int /\ d[k] >= since
    BY <1>2, ElementOfSeq DEF DaysFrom
  <1>4. /\ SubSeq(d, 1, 0) = << >> /\ SubSeq(d, 1, K) = d
        /\ \A m \in 0 .. K : SubSeq(d, 1, m) \in Seq(Int)
        /\ \A m \in 1 .. K : SubSeq(d, 1, m) = Append(SubSeq(d, 1, m - 1), d[m])
    BY <1>2, EveryPrefix
  <1>5. \A m \in 0 .. K : walk(m) \in SeriesAcc(prices)
    BY <1>4, SeriesUnfold
  <1>6. \A m \in 1 .. K : m - 1 \in 0 .. K /\ walk(m) = SeriesStep(walk(m - 1), d[m], AllOrdered(trades), prices)
    <2> SUFFICES ASSUME NEW m \in 1 .. K
                 PROVE  m - 1 \in 0 .. K /\ walk(m) = SeriesStep(walk(m - 1), d[m], AllOrdered(trades), prices)
      OBVIOUS
    <2>1. m - 1 \in 0 .. K
      BY <1>2
    <2>2. SubSeq(d, 1, m - 1) \in Seq(Int) /\ d[m] \in Int /\ SubSeq(d, 1, m) = Append(SubSeq(d, 1, m - 1), d[m])
      BY <1>3, <1>4, <2>1
    <2>3. SeriesFold(prices, Append(SubSeq(d, 1, m - 1), d[m])) = SeriesStep(walk(m - 1), d[m], AllOrdered(trades), prices)
      BY <2>2, SeriesUnfold
    <2> QED BY <2>1, <2>2, <2>3
  <1>7. ValuedUpTo(h, since, d, 0)
    <2>1. walk(0) = SeriesBegin
      BY <1>4, SeriesUnfold
    <2>2. SeriesBegin.out = << >>
      BY DEF SeriesBegin
    <2>3. ASSUME 0 < K PROVE SeriesBehind(h, SeriesBegin, prices, d[1])
      <3>1. d[1] \in Int
        BY <1>2, <1>3, <2>3
      <3>2. DoneAt(d[1]) \in 0 .. Len(trades) /\ Len(trades) \in Nat
        BY <1>1, <3>1, DueFacts DEF IInv, Typed
      <3>3. Qtys(BooksAt(h, 0)) = [s \in Symbols |-> 0]
        <4>1. BooksAt(h, 0) = [s \in Symbols |-> NoPosition]
          BY <1>1, BooksStep DEF IInv
        <4> QED BY <4>1 DEF Qtys, NoPosition
      <3>4. ASSUME NEW s \in Symbols PROVE Stands(prices[s], 0, d[1])
        <4>1. prices[s] \in Seq(PricePoint)
          BY PricesTyped
        <4> HIDE DEF prices
        <4>2. 0 <= Len(prices[s])
          BY <4>1
        <4> QED BY <4>2 DEF Stands
      <3>5. 0 \in 0 .. DoneAt(d[1])
        BY <3>2
      <3> HIDE DEF prices
      <3> QED BY <3>3, <3>4, <3>5 DEF SeriesBehind, SeriesBegin
    <2>4. Len(<< >>) = 0 /\ \A j \in 1 .. 0 : FALSE
      OBVIOUS
    <2> HIDE DEF K, prices
    <2>5. 0 + 1 = 1
      OBVIOUS
    <2> QED BY <2>1, <2>2, <2>3, <2>4, <2>5 DEF ValuedUpTo, K, prices
  <1>8. ASSUME NEW m \in 1 .. K, ValuedUpTo(h, since, d, m - 1) PROVE ValuedUpTo(h, since, d, m)
    <2> DEFINE acc == walk(m - 1)
               next == walk(m)
    <2>1. m - 1 \in 0 .. K /\ next = SeriesStep(acc, d[m], AllOrdered(trades), prices)
          /\ acc \in SeriesAcc(prices) /\ d[m] \in Int /\ d[m] >= since /\ m - 1 < K /\ m - 1 + 1 = m
      BY <1>2, <1>3, <1>5, <1>6
    <2>2. /\ Len(acc.out) = m - 1 /\ \A j \in 1 .. m - 1 : acc.out[j] = SeriesPoint(d[j])
          /\ SeriesBehind(h, acc, prices, d[m])
      BY <1>8, <2>1 DEF ValuedUpTo
    <2> HIDE DEF acc, next, K
    <2>3. /\ next.out = Append(acc.out, SeriesPoint(d[m]))
          /\ \A u \in Int : d[m] <= u => SeriesBehind(h, next, prices, u)
      BY <1>1, <2>1, <2>2, SeriesScanStep
    <2>4. acc.out \in Seq(SeriesRow) /\ m \in Nat
      BY <1>2, <2>1 DEF SeriesAcc
    <2>5. Len(next.out) = m /\ \A j \in 1 .. m : next.out[j] = SeriesPoint(d[j])
      <3> DEFINE X == SeriesRow \cup {SeriesPoint(d[m])}
                 o == acc.out
                 y == SeriesPoint(d[m])
      <3>1. o \in Seq(X) /\ y \in X
        BY <2>4
      <3> HIDE DEF X, o, y
      <3>2. Len(Append(o, y)) = Len(o) + 1 /\ (\A j \in 1 .. Len(o) : Append(o, y)[j] = o[j]) /\ Append(o, y)[Len(o) + 1] = y
        BY <3>1, AppendProperties
      <3>3. \A j \in 1 .. m : j \in 1 .. m - 1 \/ j = m
        BY <2>4
      <3>4. Len(o) + 1 = m
        BY <2>2, <2>4 DEF o
      <3> QED BY <2>2, <2>3, <3>2, <3>3, <3>4 DEF o, y
    <2>6. ASSUME m < K PROVE SeriesBehind(h, next, prices, d[m + 1])
      <3>1. m + 1 \in 1 .. K
        BY <1>2, <2>4, <2>6
      <3>2. d[m] <= d[m + 1] /\ d[m + 1] \in Int
        <4>1. m <= m + 1
          BY <2>4
        <4> QED BY <1>2, <1>3, <3>1, <4>1 DEF DaysFrom
      <3> QED BY <2>3, <3>2
    <2> QED BY <2>5, <2>6 DEF ValuedUpTo, next, K
  <1> DEFINE bad == {m \in 0 .. K : ~ValuedUpTo(h, since, d, m)}
  <1>9. bad = {}
    <2> SUFFICES ASSUME bad # {} PROVE FALSE
      OBVIOUS
    <2> HIDE DEF K
    <2>1. bad \subseteq Nat
      BY <1>2
    <2>2. PICK m \in bad : \A k \in bad : m <= k
      <3> HIDE DEF bad
      <3> QED BY <2>1, SmallestMember
    <2>3. m # 0
      BY <1>7
    <2>4. m \in 1 .. K /\ m - 1 \in 0 .. K /\ m - 1 \notin bad
      BY <1>2, <2>2, <2>3
    <2>5. ValuedUpTo(h, since, d, m - 1)
      BY <2>4
    <2> QED BY <1>8, <2>4, <2>5
  <1>10. ValuedUpTo(h, since, d, K)
    <2> HIDE DEF K
    <2> QED BY <1>2, <1>9
  <1> QED BY <1>4, <1>10, SeriesIsScan DEF ValuedUpTo

-----------------------------------------------------------------------------
(***************************************************************************)
(* The readers meet.                                                       *)
(***************************************************************************)
NoCash == [c \in {} |-> 0]

LEMMA NothingInCash == Held(NoCash) = {}
  BY DEF Held, NoCash

\* What every reader takes from the tables now.
LEMMA Today ==
  ASSUME IInv, NEW s \in Symbols
  PROVE  /\ Position(s) = HeldAt(s, clock) /\ LastPrice(s) = LatestAt(points[s], clock)
         /\ SnapshotAt(Currency[s], clock) = RateNow(Currency[s])
         /\ RateNow(Currency[s]) \in Nat
         /\ Value(s) = Whole(HeldAt(s, clock).qty * LatestAt(points[s], clock))
  <1>1. RowsUpTo(clock, s) = {i \in DOMAIN trades : trades[i].sym = s}
    BY DEF RowsUpTo, IInv, TypeOK
  <1>2. Position(s) = HeldAt(s, clock)
    BY <1>1 DEF Position, HeldAt, OrderedOf
  <1>3. LastPrice(s) = LatestAt(points[s], clock)
    BY DEF LastPrice
  <1>4. RateNow(Currency[s]) \in Nat
    BY RatesTyped
  <1>5. SnapshotAt(Currency[s], clock) = RateNow(Currency[s])
    BY DEF SnapshotAt, RateNow, IInv, TypeOK
  <1> QED BY <1>2, <1>3, <1>4, <1>5 DEF Value

LEMMA TotalsAre ==
  ASSUME IInv, ConvertedTotals(NoCash) # None
  PROVE  /\ ConvertedTotals(NoCash).total = AsOf(clock).value
         /\ ConvertedTotals(NoCash).cost = AsOf(clock).cost
  <1> DEFINE E == NoCash
             all == {Currency[s] : s \in Symbols} \cup Held(E)
             rates == RatesFor(all)
             f == [s \in Priced |-> Scale(rates[Currency[s]], Value(s))]
             g == [c \in Held(E) |-> Whole(E[c] * rates[c])]
             k == [s \in Symbols |-> Scale(rates[Currency[s]], Position(s).cost)]
             v == [s \in Symbols |-> Whole(AmountAt(s, clock))]
             w == [s \in Symbols |-> Scale(SnapshotAt(Currency[s], clock), HeldAt(s, clock).cost)]
  <1>1. rates # None /\ ConvertedTotals(E) = [total |-> InHome(E, rates), cost |-> Sum(k)]
    BY DEF ConvertedTotals
  <1>2. \A s \in Symbols : rates[Currency[s]] = RateNow(Currency[s])
    <2>1. rates = [c \in all |-> RateNow(c)]
      BY <1>1 DEF RatesFor
    <2>2. \A s \in Symbols : Currency[s] \in all
      OBVIOUS
    <2> HIDE DEF all, rates
    <2> QED BY <2>1, <2>2
  <1>3. InHome(E, rates) = Plus(Sum(f), Sum(g))
    BY DEF InHome
  <1> HIDE DEF rates
  <1>4. Sum(g) = Zero
    <2>1. DOMAIN g = {}
      BY NothingInCash
    <2> HIDE DEF g
    <2>2. IsFiniteSet({}) /\ \A x \in {} : g[x] = Zero
      BY FS_EmptySet
    <2> QED BY <2>1, <2>2, SumIsTotal, TotalOfZeros
  <1>5. \A s \in Symbols : k[s] = w[s]
    BY <1>2, Today
  <1>6. Priced \subseteq Symbols /\ \A s \in Priced : f[s] = v[s]
    <2>1. Priced \subseteq Symbols
      BY DEF Priced
    <2> SUFFICES ASSUME NEW s \in Priced PROVE f[s] = v[s]
      BY <2>1
    <2> DEFINE r == RateNow(Currency[s])
               q == HeldAt(s, clock).qty
               p == LatestAt(points[s], clock)
    <2>2. s \in Symbols
      BY <2>1
    <2>3. f[s] = Scale(r, Whole(q * p)) /\ r \in Nat
      BY <1>2, <2>2, Today
    <2>4. v[s] = Whole(q * p * r)
      BY <2>2, Today DEF AmountAt
    <2>5. q \in Nat /\ p \in Nat
      BY <2>2, AmountTyped
    <2> HIDE DEF r, q, p, f, v
    <2>6. q * p \in Int /\ r \in Int /\ r * (q * p) = q * p * r
      <3>1. \A a, b, c \in Nat : a * b \in Nat /\ c * (a * b) = a * b * c
        OBVIOUS
      <3> QED BY <2>3, <2>5, <3>1
    <2> QED BY <2>3, <2>4, <2>6, WholeOperations
  <1>7. \A s \in Symbols \ Priced : v[s] = Zero
    <2> SUFFICES ASSUME NEW s \in Symbols \ Priced PROVE v[s] = Zero
      OBVIOUS
    <2>1. LatestAt(points[s], clock) = 0
      BY Today DEF Priced, Pending, Missing
    <2>2. HeldAt(s, clock).qty \in Nat /\ SnapshotAt(Currency[s], clock) \in Nat
      BY AmountTyped
    <2>3. \A a, b \in Nat : a * 0 * b = 0
      OBVIOUS
    <2>4. AmountAt(s, clock) = 0
      BY <2>1, <2>2, <2>3 DEF AmountAt
    <2> QED BY <2>4 DEF Zero
  <1>8. Addends(v, Symbols) /\ Addends(w, Symbols)
    <2>1. \A s \in Symbols : v[s] \in Fractions /\ w[s] \in Fractions
      BY AmountTyped, WholeIsOver
    <2> HIDE DEF v, w
    <2> QED BY <2>1, PortfolioAssumption DEF Addends
  <1>9. DOMAIN f = Priced /\ DOMAIN k = Symbols /\ DOMAIN v = Symbols /\ DOMAIN w = Symbols
    OBVIOUS
  <1>10. AsOf(clock).value = Sum(v) /\ AsOf(clock).cost = Sum(w)
    BY OnDayParts
  <1> HIDE DEF f, g, k, v, w
  <1>11. Sum(k) = Sum(w)
    BY <1>5, <1>8, <1>9, TotalCong, SumIsTotal
  <1>12. Sum(f) = Sum(v) /\ Sum(f) \in Fractions
    <2>1. Addends(v, Priced)
      BY <1>6, <1>8, AddendsOfPart
    <2>2. RatioSum(v, Priced) = RatioSum(f, Priced) /\ RatioSum(v, Symbols) = RatioSum(v, Priced)
      BY <1>6, <1>7, <1>8, <2>1, TotalCong, TotalOfPart
    <2>3. Priced \in SUBSET Priced
      OBVIOUS
    <2>4. RatioSum(v, Priced) \in Fractions
      BY <2>1, <2>3, TotalUnfold
    <2> QED BY <1>9, <2>2, <2>4, SumIsTotal
  <1>13. InHome(E, rates) = Sum(v)
    BY <1>3, <1>4, <1>12, PlusLaws
  <1> QED BY <1>1, <1>10, <1>11, <1>13

LEMMA MidnightFacts ==
  /\ \A t \in Int : Midnight(t) \in Int /\ Midnight(t) <= t /\ Hour(t) \in Int /\ Hour(t) <= t
  /\ \A t, u \in Int : t <= u => t \div DayLength \in Int /\ t \div DayLength <= u \div DayLength
  <1> DEFINE D == DayLength
  <1>1. D \in Nat \ {0} /\ HourLength \in Nat \ {0}
    BY ValuationAssumption
  <1>2. \A t \in Int : Midnight(t) \in Int /\ Midnight(t) <= t /\ Hour(t) \in Int /\ Hour(t) <= t
    BY <1>1, StartOfStep DEF Midnight, Hour
  <1> HIDE DEF D
  <1>3. ASSUME NEW t \in Int, NEW u \in Int, t <= u, ~(t \div D <= u \div D) PROVE FALSE
    <2> DEFINE a == t \div D
               b == u \div D
    <2>1. /\ a \in Int /\ D * a \in Int /\ D * a <= t
          /\ b \in Int /\ D * b \in Int /\ u < D * b + D
      BY <1>1, StartOfStep
    <2> HIDE DEF a, b
    <2>2. b + 1 \in Int /\ b + 1 <= a
      BY <1>3, <2>1 DEF a, b
    <2>3. (b + 1) * D <= a * D /\ a * D = D * a /\ (b + 1) * D = D * (b + 1)
      BY <1>1, <2>1, <2>2, Multiples
    <2>4. D * (b + 1) = D * b + D
      BY <1>1, <2>1
    <2> DEFINE x == D * a
               z == D * b
    <2>5. /\ x \in Int /\ z \in Int /\ x <= t /\ u < z + D /\ z + D <= x
      BY <2>1, <2>3, <2>4
    <2> HIDE DEF x, z
    <2> QED BY ONLY <1>1, <1>3, <2>5
  <1>4. \A t \in Int : t \div D \in Int
    BY <1>1, StartOfStep
  <1> QED BY <1>2, <1>3, <1>4 DEF D

LEMMA GridFacts ==
  ASSUME NEW from \in Int, from <= clock, clock \in Int
  PROVE  LET d == DailyGrid(from)
         IN  DaysFrom(d, d[1]) /\ d[1] \in Int /\ Len(d) \in Nat \ {0} /\ d[Len(d)] = Midnight(clock)
  <1> DEFINE D == DayLength
             first == from \div D
             last == clock \div D
             n == last - first + 1
             d == DailyGrid(from)
             at(k) == D * (first + k - 1)
  <1>1. D \in Nat \ {0}
    BY ValuationAssumption
  <1>2. first \in Int /\ last \in Int /\ first <= last
    <2>1. clock <= clock
      OBVIOUS
    <2> QED BY <2>1, MidnightFacts
  <1>3. CASE last <= first
    <2>1. d = <<Midnight(from), Midnight(clock)>>
      BY <1>3 DEF DailyGrid
    <2>2. Midnight(from) = Midnight(clock) /\ Midnight(from) \in Int
      <3>1. first = last
        BY ONLY <1>2, <1>3
      <3> QED BY <3>1, MidnightFacts DEF Midnight
    <2> HIDE DEF d
    <2>3. d \in Seq(Int) /\ Len(d) = 2 /\ \A k \in DOMAIN d : d[k] = Midnight(clock)
      BY ONLY <2>1, <2>2
    <2>4. 1 \in DOMAIN d /\ 2 \in DOMAIN d
      BY <2>3
    <2>5. \A k \in DOMAIN d : d[k] >= d[1] /\ \A m \in DOMAIN d : d[k] <= d[m]
      BY ONLY <2>2, <2>3, <2>4
    <2> QED BY <2>2, <2>3, <2>4, <2>5 DEF DaysFrom, d
  <1>4. CASE ~(last <= first)
    <2>1. d = [k \in 1 .. n |-> at(k)]
      BY <1>4 DEF DailyGrid
    <2> HIDE DEF first, last, d
    <2>2. n \in Nat \ {0} /\ first + n - 1 = last
      BY <1>2
    <2>3. \A k \in 1 .. n : first + k - 1 \in Int
      BY <1>2, <2>2
    <2>4. \A k \in 1 .. n : at(k) \in Int /\ \A m \in 1 .. n : k <= m => at(k) <= at(m)
      <3> SUFFICES ASSUME NEW k \in 1 .. n, NEW m \in 1 .. n PROVE at(k) \in Int /\ (k <= m => at(k) <= at(m))
        <4> QED BY <2>2
      <3>1. first + k - 1 \in Int /\ first + m - 1 \in Int /\ (k <= m => first + k - 1 <= first + m - 1)
        BY <1>2, <2>2, <2>3
      <3> QED BY <1>1, <3>1, Multiples
    <2>5. at(n) = Midnight(clock)
      BY <2>2 DEF Midnight, last
    <2> HIDE DEF at, n
    <2>6. d \in Seq(Int) /\ Len(d) = n /\ DOMAIN d = 1 .. n /\ \A k \in 1 .. n : d[k] = at(k)
      BY <2>1, <2>2, <2>4
    <2>7. 1 \in 1 .. n /\ n \in 1 .. n /\ \A k \in 1 .. n : 1 <= k
      BY <2>2
    <2>8. \A k \in 1 .. n : d[k] >= d[1] /\ \A m \in 1 .. n : k <= m => d[k] <= d[m]
      BY <2>4, <2>6, <2>7
    <2> QED BY <2>2, <2>4, <2>5, <2>6, <2>7, <2>8 DEF DaysFrom, d
  <1> QED BY <1>3, <1>4

\* A rate the returns find at t is the one the chart takes then and now.
LEMMA RateThen ==
  ASSUME IInv, NEW c, NEW t \in Int, RateAtHour(c, t) # Missing
  PROVE  RateAtHour(c, t) = SnapshotAt(c, t) /\ SnapshotAt(c, t) = SnapshotAt(c, clock)
  <1>1. CASE c = Home
    BY <1>1 DEF RateAtHour, TradeDateRate, SnapshotAt
  <1>2. CASE c # Home
    <2>1. rate.at <= Hour(t) /\ RateAtHour(c, t) = rate.value
      BY <1>2 DEF RateAtHour, TradeDateRate
    <2>2. clock \in Nat /\ rate.at \in Nat /\ rate.at <= clock
      BY TablesOf DEF IInv, Typed
    <2>3. t \in Nat /\ rate.at <= t
      <3>1. Hour(t) \in Int /\ Hour(t) <= t
        BY MidnightFacts
      <3> QED BY <2>1, <2>2, <3>1
    <2>4. DOMAIN snaps \subseteq 1 .. rate.at
      <3>1. \A d \in DOMAIN snaps : d \in 1 .. clock /\ d <= rate.at
        BY DEF IInv, Typed
      <3> QED BY <2>2, <3>1
    <2>5. LatestAt(snaps, t) = LatestAt(snaps, rate.at) /\ LatestAt(snaps, clock) = LatestAt(snaps, rate.at)
      BY <2>2, <2>3, <2>4, NewestNow
    <2> QED BY <1>2, <2>1, <2>5 DEF SnapshotAt, IInv, TypeOK
  <1> QED BY <1>1, <1>2

\* Where the rates are found, the series has the value the tables give.
LEMMA SeriesAsOf ==
  ASSUME IInv, NEW t \in Int, RatesFound(t)
  PROVE  Whole(SeriesPoint(t).value) = AsOf(t).value
  <1> DEFINE v == [s \in Symbols |-> Whole(AmountAt(s, t))]
             u == ValueOn(t)
  <1>1. \A s \in Symbols : u[s] = AmountAt(s, t)
    BY RateThen DEF ValueOn, AmountAt, RatesFound
  <1>2. \A s \in Symbols : u[s] \in Int /\ v[s] = Whole(u[s])
    <2>1. \A s \in Symbols : u[s] \in Nat
      BY ValueOnTyped
    <2> QED BY <1>1, <2>1
  <1>3. DOMAIN v = Symbols /\ DOMAIN u = Symbols
    BY DEF ValueOn
  <1>4. AsOf(t).value = Sum(v)
    BY OnDayParts
  <1>5. SeriesPoint(t).value = SumFunction(u)
    BY DEF SeriesPoint
  <1> HIDE DEF u, v
  <1>6. RatioSum(v, Symbols) = Whole(SumFunctionOnSet(u, Symbols))
    BY <1>2, TotalOfWholes, PortfolioAssumption
  <1> QED BY <1>3, <1>4, <1>5, <1>6, SumIsTotal, SumOfFunction

\* Nothing stored since t: what the tables give of t, they give of now.
LEMMA QuietDay ==
  ASSUME IInv, NEW t \in Int, t <= clock, RatesFound(t), QuietSince(t)
  PROVE  AsOf(t).value = AsOf(clock).value
  <1>1. clock \in Nat
    BY TablesOf
  <1>2. ASSUME NEW s \in Symbols PROVE AmountAt(s, t) = AmountAt(s, clock)
    <2>1. RowsUpTo(t, s) = RowsUpTo(clock, s)
      BY DEF RowsUpTo, QuietSince, IInv, TypeOK
    <2>2. LatestAt(points[s], t) = LatestAt(points[s], clock)
      <3>1. {d \in DOMAIN points[s] : d <= t} = {d \in DOMAIN points[s] : d <= clock}
        <4>1. \A d \in DOMAIN points[s] : d <= t /\ d \in 1 .. clock
          BY TablesOf DEF QuietSince
        <4> QED BY <1>1, <4>1
      <3> QED BY <3>1 DEF LatestAt
    <2>3. SnapshotAt(Currency[s], t) = SnapshotAt(Currency[s], clock)
      BY RateThen DEF RatesFound
    <2> QED BY <2>1, <2>2, <2>3 DEF AmountAt, HeldAt
  <1>3. [s \in Symbols |-> Whole(AmountAt(s, t))] = [s \in Symbols |-> Whole(AmountAt(s, clock))]
    BY <1>2
  <1> QED BY <1>3, OnDayParts

LEMMA ReadersOf == IInv => ReadersAgree
  <1> SUFFICES ASSUME IInv, NEW p \in Periods
               PROVE  LET totals == ConvertedTotals(NoCash)
                          end    == Last(Chart(Start(p), DayLength))
                          daily  == Daily(p)
                      IN  /\ totals # None => end.value = totals.total /\ end.cost = totals.cost
                          /\ \A k \in DOMAIN daily :
                                 RatesFound(daily[k].at) => Whole(daily[k].value) = AsOf(daily[k].at).value
                          /\ totals # None /\ RatesFound(Midnight(clock)) /\ QuietSince(Midnight(clock)) =>
                                 Whole(Last(daily).value) = totals.total
    BY DEF ReadersAgree, NoCash
  <1> DEFINE start == Start(p)
             totals == ConvertedTotals(NoCash)
             d == DailyGrid(start)
             daily == Daily(p)
             m == Midnight(clock)
  <1>1. start \in Int /\ start <= clock /\ clock \in Int
    BY StartFacts, TablesOf
  <1>2. totals # None => totals.total = AsOf(clock).value /\ totals.cost = AsOf(clock).cost
    BY TotalsAre
  <1>3. DaysFrom(d, d[1]) /\ d[1] \in Int /\ Len(d) \in Nat \ {0} /\ d[Len(d)] = m /\ d \in Seq(Int)
    BY <1>1, GridFacts DEF DaysFrom
  <1>4. daily = Series(d, d[1])
    BY DEF Daily
  <1> HIDE DEF start, totals, d, daily, m
  <1>5. Last(Chart(start, DayLength)) = AsOf(clock)
    <2> DEFINE b == Buckets(start, clock, DayLength)
               out == Chart(start, DayLength)
    <2>1. DaysFrom(b, start) /\ b # << >> /\ b[Len(b)] = clock
      <3>1. DayLength \in Nat \ {0}
        BY ValuationAssumption
      <3> QED BY <1>1, <3>1, BucketFacts
    <2>2. out = ChartFold(PricesFrom(start), b).out
      BY ChartIsScan
    <2> HIDE DEF b, out
    <2>3. Len(out) = Len(b) /\ \A k \in 1 .. Len(b) : out[k] = AsOf(b[k])
      BY <1>1, <2>1, <2>2, ScanIsPointwise
    <2>4. Len(b) \in 1 .. Len(b)
      BY <2>1 DEF DaysFrom
    <2>5. out[Len(out)] = AsOf(clock)
      BY <2>1, <2>3, <2>4
    <2> QED BY <2>5 DEF Last, out
  <1>6. DOMAIN daily = 1 .. Len(d) /\ Len(daily) = Len(d) /\ \A k \in 1 .. Len(d) : daily[k] = SeriesPoint(d[k])
    <2>1. daily \in Seq(SeriesRow)
      BY <1>3, <1>4, SeriesTyped
    <2>2. Len(daily) = Len(d) /\ \A k \in 1 .. Len(d) : daily[k] = SeriesPoint(d[k])
      BY <1>3, <1>4, SeriesIsPointwise
    <2> QED BY <2>1, <2>2
  <1>7. ASSUME NEW k \in DOMAIN daily, RatesFound(daily[k].at)
        PROVE  Whole(daily[k].value) = AsOf(daily[k].at).value
    <2>1. daily[k] = SeriesPoint(d[k]) /\ d[k] \in Int
      BY <1>3, <1>6, ElementOfSeq
    <2>2. daily[k].at = d[k]
      BY <2>1 DEF SeriesPoint
    <2> QED BY <1>7, <2>1, <2>2, SeriesAsOf
  <1>8. ASSUME totals # None, RatesFound(m), QuietSince(m)
        PROVE  Whole(Last(daily).value) = totals.total
    <2>1. m \in Int /\ m <= clock
      BY <1>1, MidnightFacts DEF m
    <2>2. Last(daily) = SeriesPoint(m)
      BY <1>3, <1>6 DEF Last
    <2>3. Whole(Last(daily).value) = AsOf(m).value
      BY <1>8, <2>1, <2>2, SeriesAsOf
    <2> QED BY <1>2, <1>8, <2>1, <2>3, QuietDay
  <1> QED BY <1>2, <1>5, <1>7, <1>8 DEF start, totals, daily, m

(***************************************************************************)
(* The readers meet where they can.  The summary card and the end of the   *)
(* chart are one amount, in every window.  Every value of the daily series *)
(* that the benchmark and the risk figures start from is what the tables   *)
(* say of that midnight, unless a rate is missing there because the one    *)
(* row of fx_rates is newer; and the series ends with the card's amount if *)
(* nothing was stored since midnight.                                      *)
(***************************************************************************)
THEOREM ReadersMeet == Spec => []ReadersAgree
  BY ReadersOf, Invariance, PTL

-----------------------------------------------------------------------------
(***************************************************************************)
(* The drawdown.                                                           *)
(***************************************************************************)
Peaks == [peak : Nat, n : Nat, worst : Fractions]

NoPeak == [peak |-> 0, n |-> 0, worst |-> Zero]

FallWalk(v) == FoldLeft(DrawdownStep, NoPeak, v)

IsFallWalk(h, d) ==
    h = [w \in SUBSET DOMAIN d |-> IF w = {} THEN NoPeak ELSE DrawdownStep(h[w \ {Max(w)}], d[Max(w)])]

LEMMA FallWalkIsWalk == \A d : FallWalk(d) = (CHOOSE h : IsFallWalk(h, d))[DOMAIN d]
  BY DEF FallWalk, FoldLeft, MapThenFoldSet, IsFallWalk

\* The fall from a to b.
Fall(a, b) == Over(a - b, a)

LEMMA DrawdownStepType ==
  \A acc \in Peaks, v \in Nat :
     /\ DrawdownStep(acc, v) \in Peaks
     /\ v = 0 => DrawdownStep(acc, v) = acc
     /\ v > 0 /\ v > acc.peak => DrawdownStep(acc, v) = [peak |-> v, n |-> acc.n + 1, worst |-> acc.worst]
     /\ v > 0 /\ v <= acc.peak =>
          /\ Fall(acc.peak, v) \in Fractions
          /\ DrawdownStep(acc, v) =
               [peak |-> acc.peak, n |-> acc.n + 1,
                worst |-> IF Less(acc.worst, Fall(acc.peak, v)) THEN Fall(acc.peak, v) ELSE acc.worst]
  <1> SUFFICES ASSUME NEW acc \in Peaks, NEW v \in Nat
               PROVE  /\ DrawdownStep(acc, v) \in Peaks
                      /\ v = 0 => DrawdownStep(acc, v) = acc
                      /\ v > 0 /\ v > acc.peak =>
                           DrawdownStep(acc, v) = [peak |-> v, n |-> acc.n + 1, worst |-> acc.worst]
                      /\ v > 0 /\ v <= acc.peak =>
                           /\ Fall(acc.peak, v) \in Fractions
                           /\ DrawdownStep(acc, v) =
                                [peak |-> acc.peak, n |-> acc.n + 1,
                                 worst |-> IF Less(acc.worst, Fall(acc.peak, v)) THEN Fall(acc.peak, v)
                                           ELSE acc.worst]
    OBVIOUS
  <1>1. acc.peak \in Nat /\ acc.n \in Nat /\ acc.worst \in Fractions
    BY DEF Peaks
  <1>2. CASE v = 0
    <2>1. DrawdownStep(acc, v) = acc
      BY <1>2 DEF DrawdownStep
    <2> QED BY <1>2, <2>1
  <1>3. CASE v > 0 /\ v > acc.peak
    <2>1. DrawdownStep(acc, v) = [peak |-> v, n |-> acc.n + 1, worst |-> acc.worst]
      BY <1>3 DEF DrawdownStep
    <2>2. DrawdownStep(acc, v) \in Peaks
      BY <1>1, <2>1 DEF Peaks
    <2> QED BY <1>1, <1>3, <2>1, <2>2
  <1>4. CASE v > 0 /\ v <= acc.peak
    <2> DEFINE f == Fall(acc.peak, v)
    <2>1. f \in Fractions
      <3>1. acc.peak - v \in Int /\ acc.peak \in Denominators
        BY <1>1, <1>4 DEF Denominators
      <3> QED BY <3>1, OverType DEF Fall
    <2>2. ~(v <= 0) /\ ~(v > acc.peak)
      BY <1>1, <1>4
    <2>3. DrawdownStep(acc, v) = [peak |-> acc.peak, n |-> acc.n + 1,
                                  worst |-> IF Less(acc.worst, f) THEN f ELSE acc.worst]
      BY <2>2 DEF DrawdownStep, Fall
    <2> HIDE DEF f
    <2>4. DrawdownStep(acc, v) \in Peaks
      BY <1>1, <2>1, <2>3 DEF Peaks
    <2> QED BY <1>1, <1>4, <2>1, <2>2, <2>3, <2>4 DEF f
  <1> QED BY <1>1, <1>2, <1>3, <1>4

LEMMA FallUnfold ==
  /\ FallWalk(<< >>) = NoPeak
  /\ \A v \in Seq(Nat) : FallWalk(v) \in Peaks
  /\ \A v \in Seq(Nat), x \in Nat : FallWalk(Append(v, x)) = DrawdownStep(FallWalk(v), x)
  <1> DEFINE V == Peaks
             G == [p \in V \X Nat |-> DrawdownStep(p[1], p[2])]
  <1>1. \A v \in V, x \in Nat : DrawdownStep(v, x) \in V /\ G[<<v, x>>] = DrawdownStep(v, x)
    BY DrawdownStepType
  <1>2. G \in [V \X Nat -> V]
    BY <1>1
  <1>3. NoPeak \in V
    BY PlusLaws DEF NoPeak, Peaks
  <1> HIDE DEF G, V
  <1>4. PICK f : FoldsBy(f, G, NoPeak, Nat, V)
    BY <1>2, <1>3, SequenceFold
  <1>5. ASSUME NEW s \in Seq(Nat) PROVE FallWalk(s) = f[s]
    <2> DEFINE S == DOMAIN s
               c == [w \in SUBSET S |-> Max(w)]
               k == CHOOSE h : IsFallWalk(h, s)
    <2>1. IsFiniteSet(S) /\ \A w \in SUBSET S : w # {} => Max(w) \in w /\ c[w] = Max(w)
      BY LargestPlace
    <2>2. PICK h \in [SUBSET S -> V] : IsSeqFold(h, s, G, NoPeak) /\ h[S] = f[s]
      BY <1>4 DEF FoldsBy
    <2>3. \A p \in S : s[p] \in Nat
      BY ElementOfSeq
    <2>4. ASSUME NEW w \in SUBSET S
          PROVE  h[w] = IF w = {} THEN NoPeak ELSE DrawdownStep(h[w \ {Max(w)}], s[Max(w)])
      <3>1. h[w] = IF w = {} THEN NoPeak ELSE G[<<h[w \ {Max(w)}], s[Max(w)]>>]
        BY <2>2 DEF IsSeqFold
      <3>2. w # {} => h[w \ {Max(w)}] \in V /\ s[Max(w)] \in Nat
        BY <2>1, <2>3
      <3> QED BY <1>1, <3>1, <3>2
    <2>5. IsFallWalk(h, s)
      <3>1. h = [w \in SUBSET S |-> h[w]]
        OBVIOUS
      <3> QED BY <2>4, <3>1 DEF IsFallWalk
    <2> HIDE DEF k
    <2>6. IsFallWalk(k, s)
      BY <2>5 DEF k
    <2>7. AgreeByStep(h, k, S, c)
      <3>1. {} \in SUBSET S /\ h[{}] = k[{}]
        BY <2>5, <2>6 DEF IsFallWalk
      <3>2. ASSUME NEW w \in SUBSET S, w # {}, h[w \ {c[w]}] = k[w \ {c[w]}] PROVE h[w] = k[w]
        <4>1. h[w \ {Max(w)}] = k[w \ {Max(w)}]
          BY <2>1, <3>2
        <4>2. h[w] = DrawdownStep(h[w \ {Max(w)}], s[Max(w)])
          BY <2>4, <3>2
        <4>3. k[w] = DrawdownStep(k[w \ {Max(w)}], s[Max(w)])
          BY <2>6, <3>2 DEF IsFallWalk
        <4> QED BY <4>1, <4>2, <4>3
      <3> HIDE DEF S, c
      <3> QED BY <2>1, <3>1, <3>2 DEF AgreeByStep
    <2>8. h[S] = k[S]
      <3> HIDE DEF S, c
      <3> QED BY <2>1, <2>7, SameFold
    <2> QED BY <2>2, <2>8, FallWalkIsWalk DEF k
  <1>6. << >> \in Seq(Nat) /\ \A s \in Seq(Nat), x \in Nat : Append(s, x) \in Seq(Nat)
    OBVIOUS
  <1>7. /\ f[<< >>] = NoPeak
        /\ \A s \in Seq(Nat) : f[s] \in V
        /\ \A s \in Seq(Nat), x \in Nat : f[Append(s, x)] = DrawdownStep(f[s], x)
    BY <1>1, <1>4 DEF FoldsBy
  <1> QED BY <1>5, <1>6, <1>7 DEF V

LEMMA FallFacts ==
  \A p, x, v \in Nat :
     /\ p > 0 => Fall(p, v) \in Fractions /\ Fall(p, p) = Zero
     /\ p > 0 /\ x > 0 /\ x <= p => AtLeast(Fall(p, v), Fall(x, v))
     /\ p > 0 /\ p <= v => AtLeast(Zero, Fall(p, v))
  <1>1. ASSUME NEW p \in Nat, NEW v \in Nat, p > 0
        PROVE  /\ p - v \in Int /\ p \in Denominators /\ Fall(p, v) = Over(p - v, p)
               /\ Fall(p, v) \in Fractions
    <2>1. p - v \in Int /\ p \in Denominators
      BY <1>1 DEF Denominators
    <2> QED BY <2>1, OverType DEF Fall
  <1>2. ASSUME NEW p \in Nat, p > 0 PROVE Fall(p, p) = Zero
    <2>1. p - p = 0 /\ 0 * 1 = 0 * p /\ p \in Denominators /\ 1 \in Denominators /\ 0 \in Int
      BY <1>2 DEF Denominators
    <2>2. Over(0, p) = Over(0, 1)
      BY <2>1, OverEqual
    <2> QED BY <2>1, <2>2, WholeIsOver DEF Fall, Zero
  <1>3. ASSUME NEW p \in Nat, NEW x \in Nat, NEW v \in Nat, p > 0, x > 0, x <= p
        PROVE  AtLeast(Fall(p, v), Fall(x, v))
    <2>1. (p - v) * x = p * x - v * x /\ (x - v) * p = p * x - v * p /\ v * x <= v * p
          /\ p * x \in Int /\ v * x \in Int /\ v * p \in Int
      <3>1. \A a, b, c \in Nat : (a - b) * c = a * c - b * c /\ a * c = c * a /\ a * c \in Int
        OBVIOUS
      <3>2. v * (p - x) >= 0 /\ v * (p - x) = v * p - v * x
        <4>1. p - x \in Nat
          BY <1>3
        <4>2. \A a, b \in Nat : a * b >= 0
          OBVIOUS
        <4>3. \A a, b, c \in Nat : a * (b - c) = a * b - a * c
          OBVIOUS
        <4> QED BY <4>1, <4>2, <4>3
      <3>3. v * p \in Int /\ v * x \in Int
        BY <3>1
      <3> QED BY <3>1, <3>2, <3>3
    <2>2. ~((p - v) * x < (x - v) * p)
      BY <2>1
    <2>3. /\ p - v \in Int /\ p \in Denominators /\ Fall(p, v) = Over(p - v, p)
          /\ x - v \in Int /\ x \in Denominators /\ Fall(x, v) = Over(x - v, x)
      BY <1>1, <1>3
    <2> QED BY <2>2, <2>3, LessOvers DEF AtLeast
  <1>4. ASSUME NEW p \in Nat, NEW v \in Nat, p > 0, p <= v PROVE AtLeast(Zero, Fall(p, v))
    <2>1. p - v \in Int /\ p \in Denominators /\ Fall(p, v) = Over(p - v, p)
      BY <1>1, <1>4
    <2>2. Zero = Over(0, 1) /\ 0 \in Int /\ 1 \in Denominators
      BY WholeIsOver DEF Zero, Denominators
    <2>3. ~(0 * p < (p - v) * 1)
      BY <1>4
    <2> QED BY <2>1, <2>2, <2>3, LessOvers DEF AtLeast
  <1> QED BY <1>1, <1>2, <1>3, <1>4

\* A fall between two days with a value, up to day m.
IsFall(v, m, x) == \E a, b \in 1 .. m : a <= b /\ v[a] > 0 /\ v[b] > 0 /\ x = Fall(v[a], v[b])

WorstUpTo(v, m, acc) ==
    IF \A k \in 1 .. m : v[k] = 0 THEN acc = NoPeak
    ELSE /\ \E k \in 1 .. m : v[k] > 0 /\ v[k] = acc.peak
         /\ \A k \in 1 .. m : v[k] <= acc.peak
         /\ IsFall(v, m, acc.worst)
         /\ \A x : IsFall(v, m, x) => AtLeast(acc.worst, x)

LEMMA WorstStep ==
  ASSUME NEW v \in Seq(Nat), NEW m \in 1 .. Len(v), NEW acc \in Peaks, WorstUpTo(v, m - 1, acc)
  PROVE  WorstUpTo(v, m, DrawdownStep(acc, v[m]))
  <1> DEFINE next == DrawdownStep(acc, v[m])
             y == v[m]
             none == \A k \in 1 .. m - 1 : v[k] = 0
  <1>1. /\ m \in Nat /\ \A k \in 1 .. m : v[k] \in Nat
        /\ \A k \in 1 .. m : k \in 1 .. m - 1 \/ k = m
        /\ \A k \in 1 .. m - 1 : k \in 1 .. m /\ k <= m
        /\ m \in 1 .. m /\ m \notin 1 .. m - 1
    <2>1. Len(v) \in Nat /\ \A k \in 1 .. Len(v) : v[k] \in Nat
      BY ElementOfSeq
    <2> QED BY <2>1
  <1>2. y \in Nat /\ acc.peak \in Nat /\ acc.worst \in Fractions /\ next \in Peaks
    BY <1>1, DrawdownStepType DEF Peaks
  <1>3. \A x : IsFall(v, m - 1, x) => IsFall(v, m, x)
    BY <1>1 DEF IsFall
  <1>4. \A x : IsFall(v, m, x) => IsFall(v, m - 1, x) \/ (y > 0 /\ \E a \in 1 .. m : v[a] > 0 /\ x = Fall(v[a], y))
    <2> SUFFICES ASSUME NEW x, NEW a \in 1 .. m, NEW b \in 1 .. m, a <= b, v[a] > 0, v[b] > 0, x = Fall(v[a], v[b])
                 PROVE  IsFall(v, m - 1, x) \/ (y > 0 /\ \E k \in 1 .. m : v[k] > 0 /\ x = Fall(v[k], y))
      BY DEF IsFall
    <2>1. CASE b = m
      BY <2>1
    <2>2. CASE b # m
      <3>1. b \in 1 .. m - 1 /\ a \in 1 .. m - 1
        BY <1>1, <2>2
      <3> QED BY <3>1 DEF IsFall
    <2> QED BY <2>1, <2>2
  <1>5. CASE y = 0
    <2>1. next = acc
      BY <1>2, <1>5, DrawdownStepType
    <2>2. (\A k \in 1 .. m : v[k] = 0) <=> none
      BY <1>1, <1>5
    <2>3. \A x : IsFall(v, m, x) <=> IsFall(v, m - 1, x)
      BY <1>3, <1>4, <1>5
    <2>4. CASE none
      BY <2>1, <2>2, <2>4 DEF WorstUpTo
    <2>5. CASE ~none
      <3>1. /\ \E k \in 1 .. m - 1 : v[k] > 0 /\ v[k] = acc.peak
            /\ \A k \in 1 .. m - 1 : v[k] <= acc.peak
            /\ IsFall(v, m - 1, acc.worst)
            /\ \A x : IsFall(v, m - 1, x) => AtLeast(acc.worst, x)
        BY <2>5 DEF WorstUpTo
      <3>2. \E k \in 1 .. m : v[k] > 0 /\ v[k] = acc.peak
        BY <1>1, <3>1
      <3>3. \A k \in 1 .. m : v[k] <= acc.peak
        <4> SUFFICES ASSUME NEW k \in 1 .. m PROVE v[k] <= acc.peak
          OBVIOUS
        <4>1. CASE k = m
          BY <1>2, <1>5, <4>1
        <4>2. CASE k # m
          <5>1. k \in 1 .. m - 1
            BY <1>1, <4>2
          <5> QED BY <3>1, <5>1
        <4> QED BY <4>1, <4>2
      <3> QED BY <2>1, <2>2, <2>3, <2>5, <3>1, <3>2, <3>3 DEF WorstUpTo
    <2> QED BY <2>4, <2>5
  <1>6. CASE y > 0 /\ none
    <2>1. acc = NoPeak
      BY <1>6 DEF WorstUpTo
    <2>2. next = [peak |-> y, n |-> acc.n + 1, worst |-> acc.worst] /\ acc.worst = Zero /\ next.peak = y /\ next.worst = Zero
      <3>1. acc.peak = 0 /\ acc.worst = Zero
        BY <2>1 DEF NoPeak
      <3> QED BY <1>2, <1>6, <3>1, DrawdownStepType
    <2>3. ~(\A k \in 1 .. m : v[k] = 0)
      BY <1>1, <1>6
    <2>4. \A k \in 1 .. m : v[k] <= y
      BY <1>1, <1>6
    <2>5. Fall(y, y) = Zero
      BY <1>2, <1>6, FallFacts
    <2>6. IsFall(v, m, Zero)
      BY <1>1, <1>6, <2>5 DEF IsFall
    <2>7. \A x : ~IsFall(v, m - 1, x)
      BY <1>1, <1>6 DEF IsFall
    <2>8. ASSUME NEW x, IsFall(v, m, x) PROVE AtLeast(Zero, x)
      <3>1. PICK a \in 1 .. m : v[a] > 0 /\ x = Fall(v[a], y)
        BY <1>4, <2>7, <2>8
      <3>2. v[a] = y
        BY <1>1, <1>6, <3>1
      <3> QED BY <2>5, <3>1, <3>2, PlusLaws, AtLeastOrder
    <2>9. \E k \in 1 .. m : v[k] > 0 /\ v[k] = y
      BY <1>1, <1>6
    <2> QED BY <2>2, <2>3, <2>4, <2>6, <2>8, <2>9 DEF WorstUpTo
  <1>7. CASE y > 0 /\ ~none
    <2>1. /\ \E k \in 1 .. m - 1 : v[k] > 0 /\ v[k] = acc.peak
          /\ \A k \in 1 .. m - 1 : v[k] <= acc.peak
          /\ IsFall(v, m - 1, acc.worst)
          /\ \A x : IsFall(v, m - 1, x) => AtLeast(acc.worst, x)
      BY <1>7 DEF WorstUpTo
    <2>2. PICK a0 \in 1 .. m - 1 : v[a0] > 0 /\ v[a0] = acc.peak
      BY <2>1
    <2>3. a0 \in 1 .. m /\ a0 <= m /\ acc.peak > 0
      BY <1>1, <2>2
    <2>4. AtLeast(acc.worst, Zero)
      <3>1. IsFall(v, m - 1, Fall(v[a0], v[a0]))
        <4>1. a0 <= a0
          BY <1>1, <2>3
        <4> QED BY <2>2, <4>1 DEF IsFall
      <3>2. Fall(v[a0], v[a0]) = Zero
        BY <1>2, <2>2, <2>3, FallFacts
      <3> QED BY <2>1, <3>1, <3>2
    <2>5. ~(\A k \in 1 .. m : v[k] = 0)
      BY <1>1, <1>7
    <2>6. Zero \in Fractions
      BY PlusLaws
    <2>7. \A x : IsFall(v, m, x) => x \in Fractions
      <3> SUFFICES ASSUME NEW x, NEW a \in 1 .. m, NEW b \in 1 .. m, v[a] > 0, x = Fall(v[a], v[b])
                   PROVE  x \in Fractions
        BY DEF IsFall
      <3> QED BY <1>1, FallFacts
    <2>8. CASE y > acc.peak
      <3>1. next = [peak |-> y, n |-> acc.n + 1, worst |-> acc.worst]
        BY <1>2, <1>7, <2>8, DrawdownStepType
      <3>2. next.peak = y /\ next.worst = acc.worst
        BY <3>1
      <3>3. \A k \in 1 .. m : v[k] <= y
        <4> SUFFICES ASSUME NEW k \in 1 .. m PROVE v[k] <= y
          OBVIOUS
        <4>1. CASE k = m
          BY <1>2, <4>1
        <4>2. CASE k # m
          <5>1. v[k] <= acc.peak /\ v[k] \in Nat
            BY <1>1, <2>1, <4>2
          <5> QED BY <1>2, <2>8, <5>1
        <4> QED BY <4>1, <4>2
      <3>4. ASSUME NEW x, IsFall(v, m, x) PROVE AtLeast(acc.worst, x)
        <4>1. CASE IsFall(v, m - 1, x)
          BY <2>1, <4>1
        <4>2. CASE ~IsFall(v, m - 1, x)
          <5>1. PICK a \in 1 .. m : v[a] > 0 /\ x = Fall(v[a], y)
            BY <1>4, <3>4, <4>2
          <5>2. AtLeast(Zero, x) /\ x \in Fractions
            BY <1>1, <1>2, <3>3, <5>1, FallFacts
          <5> QED BY <1>2, <2>4, <2>6, <5>2, AtLeastOrder
        <4> QED BY <4>1, <4>2
      <3>5. \E k \in 1 .. m : v[k] > 0 /\ v[k] = y
        BY <1>1, <1>7
      <3>6. IsFall(v, m, acc.worst)
        BY <1>3, <2>1
      <3> QED BY <2>5, <3>2, <3>3, <3>4, <3>5, <3>6 DEF WorstUpTo
    <2>9. CASE y <= acc.peak
      <3> DEFINE f == Fall(acc.peak, y)
      <3>1. /\ f \in Fractions
            /\ next = [peak |-> acc.peak, n |-> acc.n + 1, worst |-> IF Less(acc.worst, f) THEN f ELSE acc.worst]
        BY <1>2, <1>7, <2>9, DrawdownStepType
      <3>2. IsFall(v, m, f)
        BY <1>1, <1>7, <2>2, <2>3 DEF IsFall
      <3> HIDE DEF f
      <3>3. next.peak = acc.peak /\ next.worst = IF Less(acc.worst, f) THEN f ELSE acc.worst
        BY <3>1
      <3>4. AtLeast(next.worst, f) /\ AtLeast(next.worst, acc.worst) /\ next.worst \in Fractions
        <4>1. CASE Less(acc.worst, f)
          <5>1. ~AtLeast(acc.worst, f)
            BY <4>1 DEF AtLeast
          <5> QED BY <1>2, <3>1, <3>3, <4>1, <5>1, AtLeastOrder
        <4>2. CASE ~Less(acc.worst, f)
          <5>1. AtLeast(acc.worst, f)
            BY <4>2 DEF AtLeast
          <5> QED BY <1>2, <3>1, <3>3, <4>2, <5>1, AtLeastOrder
        <4> QED BY <4>1, <4>2
      <3>5. IsFall(v, m, next.worst)
        BY <1>3, <2>1, <3>2, <3>3
      <3>6. \A k \in 1 .. m : v[k] <= acc.peak
        BY <1>1, <2>1, <2>9
      <3>7. ASSUME NEW x, IsFall(v, m, x) PROVE AtLeast(next.worst, x)
        <4>1. x \in Fractions
          BY <2>7, <3>7
        <4>2. CASE IsFall(v, m - 1, x)
          BY <1>2, <2>1, <3>4, <4>1, <4>2, AtLeastOrder
        <4>3. CASE ~IsFall(v, m - 1, x)
          <5>1. PICK a \in 1 .. m : v[a] > 0 /\ x = Fall(v[a], y)
            BY <1>4, <3>7, <4>3
          <5>2. AtLeast(f, x)
            BY <1>1, <1>2, <2>3, <3>6, <5>1, FallFacts DEF f
          <5> QED BY <3>1, <3>4, <4>1, <5>2, AtLeastOrder
        <4> QED BY <4>2, <4>3
      <3>8. \E k \in 1 .. m : v[k] > 0 /\ v[k] = acc.peak
        BY <2>2, <2>3
      <3> QED BY <2>5, <3>3, <3>5, <3>6, <3>7, <3>8 DEF WorstUpTo
    <2> QED BY <1>2, <2>8, <2>9
  <1> QED BY <1>2, <1>5, <1>6, <1>7

LEMMA WorstOf ==
  ASSUME NEW v \in Seq(Nat), MaxDrawdown(v) # None
  PROVE  MaxDrawdown(v) = WorstFall(v)
  <1> DEFINE N == Len(v)
             pre(m) == SubSeq(v, 1, m)
             acc(m) == FallWalk(pre(m))
             bad == {m \in 0 .. N : ~WorstUpTo(v, m, acc(m))}
  <1>1. /\ N \in Nat /\ pre(0) = << >> /\ pre(N) = v
        /\ \A m \in 0 .. N : pre(m) \in Seq(Nat)
        /\ \A m \in 1 .. N : pre(m) = Append(pre(m - 1), v[m]) /\ v[m] \in Nat
    BY EveryPrefix, ElementOfSeq
  <1> HIDE DEF pre
  <1>2. bad = {}
    <2> SUFFICES ASSUME bad # {} PROVE FALSE
      OBVIOUS
    <2>1. bad \subseteq Nat
      BY <1>1
    <2>2. PICK m \in bad : \A k \in bad : m <= k
      <3> HIDE DEF bad
      <3> QED BY <2>1, SmallestMember
    <2>3. m # 0
      <3>1. acc(0) = NoPeak
        BY <1>1, FallUnfold
      <3>2. WorstUpTo(v, 0, acc(0))
        BY <3>1 DEF WorstUpTo
      <3> QED BY <3>2
    <2>4. m \in 1 .. N /\ m - 1 \in 0 .. N /\ m - 1 \notin bad
      <3>1. m \in 0 .. N
        OBVIOUS
      <3> HIDE DEF bad
      <3>2. N \in Nat
        BY <1>1
      <3> HIDE DEF N
      <3>3. m \in 1 .. N /\ m - 1 \in 0 .. N /\ ~(m <= m - 1)
        BY <2>3, <3>1, <3>2
      <3> QED BY <2>2, <3>3
    <2>5. WorstUpTo(v, m - 1, acc(m - 1))
      BY <2>4
    <2>6. pre(m - 1) \in Seq(Nat) /\ v[m] \in Nat /\ pre(m) = Append(pre(m - 1), v[m])
      BY <1>1, <2>4
    <2>7. acc(m) = DrawdownStep(acc(m - 1), v[m]) /\ acc(m - 1) \in Peaks
      BY <2>6, FallUnfold
    <2> HIDE DEF acc
    <2>8. WorstUpTo(v, m, acc(m))
      BY <2>4, <2>5, <2>7, WorstStep
    <2> QED BY <2>8
  <1>3. WorstUpTo(v, N, FallWalk(v)) /\ FallWalk(v) \in Peaks
    <2>1. N \in 0 .. N
      BY <1>1
    <2>2. WorstUpTo(v, N, acc(N))
      BY <1>2, <2>1
    <2> QED BY <1>1, <2>2, FallUnfold
  <1> DEFINE end == FallWalk(v)
             pos == {k \in DOMAIN v : v[k] > 0}
             after == {Over(v[pair[1]] - v[pair[2]], v[pair[1]]) : pair \in {q \in pos \X pos : q[1] <= q[2]}}
  <1>4. MaxDrawdown(v) = IF end.n < 2 THEN None ELSE end.worst
    BY DEF MaxDrawdown, FallWalk, NoPeak
  <1> HIDE DEF end
  <1>5. end.n >= 2 /\ MaxDrawdown(v) = end.worst
    BY <1>3, <1>4 DEF Peaks, end
  <1>6. ~(\A k \in 1 .. N : v[k] = 0)
    <2> SUFFICES ASSUME \A k \in 1 .. N : v[k] = 0 PROVE FALSE
      OBVIOUS
    <2>1. end = NoPeak
      BY <1>3 DEF WorstUpTo, end
    <2> QED BY <1>5, <2>1 DEF NoPeak
  <1>7. IsFall(v, N, end.worst) /\ \A x : IsFall(v, N, x) => AtLeast(end.worst, x)
    BY <1>3, <1>6 DEF WorstUpTo, end
  <1>8. \A x : x \in after <=> IsFall(v, N, x)
    <2>1. DOMAIN v = 1 .. N
      OBVIOUS
    <2>2. ASSUME NEW x, IsFall(v, N, x) PROVE x \in after
      <3>1. PICK a, b \in 1 .. N : a <= b /\ v[a] > 0 /\ v[b] > 0 /\ x = Fall(v[a], v[b])
        BY <2>2 DEF IsFall
      <3>2. <<a, b>> \in {q \in pos \X pos : q[1] <= q[2]}
        BY <2>1, <3>1
      <3>3. x = Over(v[<<a, b>>[1]] - v[<<a, b>>[2]], v[<<a, b>>[1]])
        BY <3>1 DEF Fall
      <3> QED BY <3>2, <3>3
    <2>3. ASSUME NEW x \in after PROVE IsFall(v, N, x)
      <3>1. PICK q \in {r \in pos \X pos : r[1] <= r[2]} : x = Over(v[q[1]] - v[q[2]], v[q[1]])
        BY <2>3
      <3>2. q[1] \in 1 .. N /\ q[2] \in 1 .. N /\ v[q[1]] > 0 /\ v[q[2]] > 0 /\ q[1] <= q[2]
        BY <2>1, <3>1
      <3> QED BY <3>1, <3>2 DEF IsFall, Fall
    <2> QED BY <2>2, <2>3
  <1>9. WorstFall(v) = CHOOSE x \in after : \A y \in after : AtLeast(x, y)
    BY DEF WorstFall, AtLeast
  <1> HIDE DEF after
  <1>10. after \subseteq Fractions
    <2> SUFFICES ASSUME NEW x, IsFall(v, N, x) PROVE x \in Fractions
      BY <1>8
    <2>1. PICK a, b \in 1 .. N : v[a] > 0 /\ x = Fall(v[a], v[b])
      BY DEF IsFall
    <2>2. v[a] \in Nat /\ v[b] \in Nat
      BY <1>1
    <2> QED BY <2>1, <2>2, FallFacts
  <1>11. end.worst \in after /\ \A y \in after : AtLeast(end.worst, y)
    BY <1>7, <1>8
  <1>12. WorstFall(v) \in after /\ \A y \in after : AtLeast(WorstFall(v), y)
    <2> DEFINE w == CHOOSE x \in after : \A y \in after : AtLeast(x, y)
    <2>1. w \in after /\ \A y \in after : AtLeast(w, y)
      BY <1>11
    <2> QED BY <1>9, <2>1
  <1>13. WorstFall(v) = end.worst
    BY <1>10, <1>11, <1>12, AtLeastOrder
  <1> QED BY <1>5, <1>13

-----------------------------------------------------------------------------
(***************************************************************************)
(* The months and their years.                                             *)
(***************************************************************************)
\* The years of the months Y is made of, and the walk YearGrowth is.
MonthRow(Y) == [year : Y, growth : Fractions \cup {None}]

YearRows(Y) == [Y -> Fractions \cup {None}]

YearBegin(Y) == [y \in Y |-> One]

YearWalk(Y, d) == FoldLeft(YearStep, YearBegin(Y), d)

IsYearWalk(h, Y, d) ==
    h = [w \in SUBSET DOMAIN d |->
            IF w = {} THEN YearBegin(Y) ELSE YearStep(h[w \ {Max(w)}], d[Max(w)])]

LEMMA YearWalkIsWalk == \A Y, d : YearWalk(Y, d) = (CHOOSE h : IsYearWalk(h, Y, d))[DOMAIN d]
  BY DEF YearWalk, FoldLeft, MapThenFoldSet, IsYearWalk

LEMMA YearStepType ==
  ASSUME NEW Y, NEW w \in YearRows(Y), NEW m \in MonthRow(Y)
  PROVE  /\ YearStep(w, m) \in YearRows(Y)
         /\ \A y \in Y : YearStep(w, m)[y] =
               IF m.year # y THEN w[y]
               ELSE IF w[y] = None \/ m.growth = None THEN None ELSE Times(w[y], m.growth)
  <1> DEFINE x == m.year
             next == IF w[x] = None \/ m.growth = None THEN None ELSE Times(w[x], m.growth)
  <1>1. x \in Y /\ m.growth \in Fractions \cup {None} /\ w[x] \in Fractions \cup {None}
    BY DEF MonthRow, YearRows
  <1>2. next \in Fractions \cup {None}
    BY <1>1, TimesLaws
  <1>3. YearStep(w, m) = [w EXCEPT ![x] = next]
    BY <1>1 DEF YearStep, YearRows
  <1> HIDE DEF next
  <1>4. YearStep(w, m) \in YearRows(Y) /\ \A y \in Y : YearStep(w, m)[y] = IF x = y THEN next ELSE w[y]
    BY <1>1, <1>2, <1>3 DEF YearRows
  <1> QED BY <1>4 DEF next

LEMMA YearUnfold ==
  ASSUME NEW Y
  PROVE  /\ YearWalk(Y, << >>) = YearBegin(Y)
         /\ \A d \in Seq(MonthRow(Y)) : YearWalk(Y, d) \in YearRows(Y)
         /\ \A d \in Seq(MonthRow(Y)), m \in MonthRow(Y) :
               YearWalk(Y, Append(d, m)) = YearStep(YearWalk(Y, d), m)
  <1> DEFINE V == YearRows(Y)
             X == MonthRow(Y)
             base == YearBegin(Y)
             G == [p \in V \X X |-> YearStep(p[1], p[2])]
  <1>1. \A v \in V, x \in X : YearStep(v, x) \in V /\ G[<<v, x>>] = YearStep(v, x)
    BY YearStepType
  <1>2. G \in [V \X X -> V]
    BY <1>1
  <1>3. base \in V
    <2>1. One \in Fractions
      BY WholeIsOver DEF One
    <2> QED BY <2>1 DEF YearRows, YearBegin
  <1> HIDE DEF G, V, X, base
  <1>4. PICK f : FoldsBy(f, G, base, X, V)
    BY <1>2, <1>3, SequenceFold
  <1>5. ASSUME NEW s \in Seq(X) PROVE YearWalk(Y, s) = f[s]
    <2> DEFINE S == DOMAIN s
               c == [w \in SUBSET S |-> Max(w)]
               k == CHOOSE h : IsYearWalk(h, Y, s)
    <2>1. IsFiniteSet(S) /\ \A w \in SUBSET S : w # {} => Max(w) \in w /\ c[w] = Max(w)
      BY LargestPlace
    <2>2. PICK h \in [SUBSET S -> V] : IsSeqFold(h, s, G, base) /\ h[S] = f[s]
      BY <1>4 DEF FoldsBy
    <2>3. \A p \in S : s[p] \in X
      BY ElementOfSeq
    <2>4. ASSUME NEW w \in SUBSET S
          PROVE  h[w] = IF w = {} THEN base ELSE YearStep(h[w \ {Max(w)}], s[Max(w)])
      <3>1. h[w] = IF w = {} THEN base ELSE G[<<h[w \ {Max(w)}], s[Max(w)]>>]
        BY <2>2 DEF IsSeqFold
      <3>2. w # {} => h[w \ {Max(w)}] \in V /\ s[Max(w)] \in X
        BY <2>1, <2>3
      <3> QED BY <1>1, <3>1, <3>2
    <2>5. IsYearWalk(h, Y, s)
      <3>1. h = [w \in SUBSET S |-> h[w]]
        OBVIOUS
      <3> QED BY <2>4, <3>1 DEF IsYearWalk, base
    <2> HIDE DEF k
    <2>6. IsYearWalk(k, Y, s)
      BY <2>5 DEF k
    <2>7. AgreeByStep(h, k, S, c)
      <3>1. \A w \in SUBSET S : k[w] = IF w = {} THEN base ELSE YearStep(k[w \ {Max(w)}], s[Max(w)])
        BY <2>6 DEF IsYearWalk, base
      <3> HIDE DEF c, S
      <3>2. {} \in SUBSET S
        OBVIOUS
      <3>3. h[{}] = k[{}]
        BY <2>4, <3>1, <3>2
      <3>4. ASSUME NEW w \in SUBSET S, w # {}, h[w \ {c[w]}] = k[w \ {c[w]}] PROVE h[w] = k[w]
        BY <2>1, <2>4, <3>1, <3>4
      <3> QED BY <2>1, <3>3, <3>4 DEF AgreeByStep
    <2>8. h[S] = k[S]
      <3> HIDE DEF S, c
      <3> QED BY <2>1, <2>7, SameFold
    <2> QED BY <2>2, <2>8, YearWalkIsWalk DEF k
  <1>6. << >> \in Seq(X) /\ \A s \in Seq(X), x \in X : Append(s, x) \in Seq(X)
    OBVIOUS
  <1>7. /\ f[<< >>] = base
        /\ \A s \in Seq(X) : f[s] \in V
        /\ \A s \in Seq(X), x \in X : f[Append(s, x)] = YearStep(f[s], x)
    <2>1. f[<< >>] = base /\ f \in [Seq(X) -> V]
      BY <1>4 DEF FoldsBy
    <2>2. \A s \in Seq(X), x \in X : f[Append(s, x)] = G[<<f[s], x>>]
      BY <1>4 DEF FoldsBy
    <2> QED BY <1>1, <2>1, <2>2
  <1> QED BY <1>5, <1>6, <1>7 DEF V, X, base

\* The months after v, one value each more than there are months.
AreMonths(d, v, Y) ==
    /\ d \in Seq(MonthRow(Y)) /\ v \in Seq(Nat) /\ Len(v) = Len(d) + 1
    /\ \A k \in 1 .. Len(d) :
          d[k].growth = IF v[k] > 0 /\ v[k + 1] > 0 THEN Over(v[k + 1], v[k]) ELSE None

EmptyMonth(v, k) == v[k] = 0 \/ v[k + 1] = 0

MonthsOf(d, m, y) == {k \in 1 .. m : d[k].year = y}

\* What the months up to m make of the year y.
YearUpTo(d, v, Y, m, y) ==
    LET w == YearWalk(Y, SubSeq(d, 1, m))[y]
        its == MonthsOf(d, m, y)
    IN  /\ its = {} => w = One
        /\ \A a, b \in its : (\A k \in its : a <= k /\ k <= b) =>
              w = IF \E k \in its : EmptyMonth(v, k) THEN None ELSE Over(v[b + 1], v[a])

LEMMA MonthAdded ==
  ASSUME NEW Y, NEW d, NEW v, AreMonths(d, v, Y), NEW m \in 1 .. Len(d), NEW y \in Y,
         \A k, j \in 1 .. Len(d) : k <= j => d[k].year <= d[j].year, Y \subseteq Nat,
         YearUpTo(d, v, Y, m - 1, y)
  PROVE  YearUpTo(d, v, Y, m, y)
  <1> DEFINE w == YearWalk(Y, SubSeq(d, 1, m - 1))
             new == YearWalk(Y, SubSeq(d, 1, m))
             past == MonthsOf(d, m - 1, y)
             its == MonthsOf(d, m, y)
             g == d[m].growth
             empty(k) == EmptyMonth(v, k)
  <1>1. Len(d) \in Nat /\ \A k \in 1 .. Len(d) : d[k] \in MonthRow(Y) /\ d[k].year \in Nat
    <2>1. d \in Seq(MonthRow(Y))
      BY DEF AreMonths
    <2>2. Len(d) \in Nat /\ \A k \in 1 .. Len(d) : d[k] \in MonthRow(Y)
      BY <2>1, ElementOfSeq
    <2>3. \A x \in MonthRow(Y) : x.year \in Nat
      BY DEF MonthRow
    <2> QED BY <2>2, <2>3
  <1>2. /\ SubSeq(d, 1, m - 1) \in Seq(MonthRow(Y)) /\ d[m] \in MonthRow(Y)
        /\ SubSeq(d, 1, m) = Append(SubSeq(d, 1, m - 1), d[m])
    <2>1. d \in Seq(MonthRow(Y)) /\ m - 1 \in 0 .. Len(d)
      BY <1>1 DEF AreMonths
    <2> QED BY <1>1, <2>1, EveryPrefix
  <1>3. w \in YearRows(Y) /\ new = YearStep(w, d[m])
    BY <1>2, YearUnfold
  <1> HIDE DEF w, new
  <1>4. new[y] = IF d[m].year # y THEN w[y] ELSE IF w[y] = None \/ g = None THEN None ELSE Times(w[y], g)
    BY <1>2, <1>3, YearStepType
  <1>5. /\ past = {} => w[y] = One
        /\ \A a, b \in past : (\A k \in past : a <= k /\ k <= b) =>
              w[y] = IF \E k \in past : empty(k) THEN None ELSE Over(v[b + 1], v[a])
    BY DEF YearUpTo, w
  <1>6. \A k \in 1 .. m : k \in 1 .. m - 1 \/ k = m
    BY <1>1
  <1>7. 1 .. m - 1 \subseteq 1 .. m /\ m \in 1 .. m /\ m \notin 1 .. m - 1 /\ 1 .. m \subseteq 1 .. Len(d) /\ m \in Nat
    BY <1>1
  <1>8. /\ its \subseteq 1 .. m /\ past \subseteq 1 .. m - 1
        /\ d[m].year # y => its = past
        /\ d[m].year = y => its = past \cup {m} /\ m \in its
    BY <1>6, <1>7 DEF MonthsOf
  <1>9. \A k \in 1 .. m + 1 : v[k] \in Nat /\ (v[k] # 0 => v[k] \in Denominators /\ v[k] > 0)
    <2>1. m + 1 <= Len(v) /\ Len(v) \in Nat
      BY <1>1, <1>7 DEF AreMonths
    <2>2. \A k \in 1 .. m + 1 : k \in 1 .. Len(v)
      BY <1>7, <2>1
    <2>3. \A k \in 1 .. Len(v) : v[k] \in Nat
      BY ElementOfSeq DEF AreMonths
    <2> QED BY <2>2, <2>3 DEF Denominators
  <1>10. /\ empty(m) => g = None
         /\ ~empty(m) => /\ g = Over(v[m + 1], v[m]) /\ g \in Fractions /\ g # None
                         /\ v[m] \in Denominators /\ v[m + 1] \in Denominators
    <2>1. g = IF v[m] > 0 /\ v[m + 1] > 0 THEN Over(v[m + 1], v[m]) ELSE None
      BY DEF AreMonths
    <2>2. m \in 1 .. m + 1 /\ m + 1 \in 1 .. m + 1
      BY <1>7
    <2> QED BY <1>9, <2>1, <2>2, GrowthsChain, FractionIsSome DEF EmptyMonth
  <1> HIDE DEF past, its, g, empty
  <1>11. its = {} => new[y] = One
    BY <1>4, <1>5, <1>8
  <1>12. ASSUME NEW a \in its, NEW b \in its, \A k \in its : a <= k /\ k <= b
         PROVE  new[y] = IF \E k \in its : empty(k) THEN None ELSE Over(v[b + 1], v[a])
    <2>1. CASE d[m].year # y
      BY <1>4, <1>5, <1>8, <1>12, <2>1
    <2>2. CASE d[m].year = y
      <3>1. b = m /\ m \in its
        BY <1>7, <1>8, <1>12, <2>2
      <3>2. CASE past = {}
        <4>1. a = m /\ its = {m}
          BY <1>8, <2>2, <3>2
        <4>2. w[y] = One /\ One # None /\ One \in Fractions
          <5>1. One \in Fractions
            BY WholeIsOver DEF One
          <5> QED BY <1>5, <3>2, <5>1, FractionIsSome
        <4>3. CASE empty(m)
          BY <1>4, <1>10, <2>2, <4>1, <4>3
        <4>4. CASE ~empty(m)
          <5>1. v[m] \in Denominators /\ v[m + 1] \in Denominators /\ g = Over(v[m + 1], v[m]) /\ g # None
            BY <1>10, <4>4
          <5>2. Times(One, g) = Over(v[m + 1], v[m])
            <6>1. Over(v[m], v[m]) = One /\ Times(Over(v[m], v[m]), Over(v[m + 1], v[m])) = Over(v[m + 1], v[m])
              BY <5>1, GrowthsChain
            <6> QED BY <5>1, <6>1
          <5> QED BY <1>4, <2>2, <3>1, <4>1, <4>2, <4>4, <5>1, <5>2
        <4> QED BY <4>3, <4>4
      <3>3. CASE past # {}
        <4>1. a \in past
          <5>1. PICK k \in past : TRUE
            BY <3>3
          <5>2. k \in 1 .. m - 1 /\ a <= k /\ a \in 1 .. m
            BY <1>8, <1>12, <2>2, <5>1
          <5>3. a # m
            BY <1>7, <5>2
          <5> QED BY <1>8, <2>2, <5>3
        <4>2. m - 1 \in past
          <5>1. a \in 1 .. m - 1 /\ m - 1 \in 1 .. m - 1 /\ a <= m - 1 /\ m - 1 <= m
            BY <1>7, <1>8, <4>1
          <5>2. a \in 1 .. Len(d) /\ m - 1 \in 1 .. Len(d) /\ m \in 1 .. Len(d)
            BY <1>7, <5>1
          <5>3. d[a].year <= d[m - 1].year /\ d[m - 1].year <= d[m].year
            BY <5>1, <5>2
          <5>4. d[a].year = y
            BY <4>1 DEF past, MonthsOf
          <5>5. d[m - 1].year = y
            <6>1. d[m - 1].year \in Nat /\ y \in Nat
              BY <1>1, <5>2
            <6> QED BY ONLY <2>2, <5>3, <5>4, <6>1
          <5> QED BY <5>1, <5>5 DEF past, MonthsOf
        <4>3. \A k \in past : a <= k /\ k <= m - 1
          <5>1. \A k \in past : k \in its /\ k \in 1 .. m - 1
            BY <1>8, <2>2
          <5> QED BY <1>12, <5>1
        <4>4. w[y] = IF \E k \in past : empty(k) THEN None ELSE Over(v[m], v[a])
          <5>1. m - 1 + 1 = m
            BY <1>7
          <5> QED BY <1>5, <4>1, <4>2, <4>3, <5>1
        <4>5. (\E k \in its : empty(k)) <=> (\E k \in past : empty(k)) \/ empty(m)
          BY <1>8, <2>2
        <4>6. CASE \E k \in past : empty(k)
          <5>1. w[y] = None
            BY <4>4, <4>6
          <5> QED BY <1>4, <2>2, <4>5, <4>6, <5>1
        <4>7. CASE empty(m)
          BY <1>4, <1>10, <2>2, <4>5, <4>7
        <4>8. CASE ~(\E k \in past : empty(k)) /\ ~empty(m)
          <5>1. v[m] \in Denominators /\ v[m + 1] \in Denominators /\ g = Over(v[m + 1], v[m]) /\ g # None
            BY <1>10, <4>8
          <5>2. v[a] \in Denominators
            <6>1. ~empty(a) /\ a \in 1 .. m + 1
              BY <1>7, <1>8, <4>1, <4>8
            <6> QED BY <1>9, <6>1 DEF empty, EmptyMonth
          <5>3. w[y] = Over(v[m], v[a])
            BY <4>4, <4>8
          <5>4. Over(v[m], v[a]) \in Fractions /\ Times(Over(v[m], v[a]), Over(v[m + 1], v[m])) = Over(v[m + 1], v[a])
            BY <5>1, <5>2, GrowthsChain
          <5>5. w[y] # None
            BY <5>3, <5>4, FractionIsSome
          <5>6. new[y] = Over(v[m + 1], v[a])
            BY <1>4, <2>2, <5>1, <5>3, <5>4, <5>5
          <5> QED BY <3>1, <4>5, <4>8, <5>6
        <4> QED BY <4>6, <4>7, <4>8
      <3> QED BY <3>2, <3>3
    <2> QED BY <2>1, <2>2
  <1> QED BY <1>11, <1>12 DEF YearUpTo, new, its, empty

\* The change over the months of the year y.
YearChange(d, v, y) ==
    LET its == MonthsOf(d, Len(d), y)
    IN  IF \E k \in its : EmptyMonth(v, k) THEN None ELSE Over(v[Max(its) + 1], v[Min(its)])

LEMMA YearsCompound ==
  ASSUME NEW Y, Y \subseteq Nat, NEW d, NEW v, AreMonths(d, v, Y), NEW y \in Y,
         \A k, j \in 1 .. Len(d) : k <= j => d[k].year <= d[j].year,
         MonthsOf(d, Len(d), y) # {}
  PROVE  YearWalk(Y, d)[y] = YearChange(d, v, y)
  <1> DEFINE N == Len(d)
             its == MonthsOf(d, N, y)
             bad == {m \in 0 .. N : ~YearUpTo(d, v, Y, m, y)}
  <1>1. d \in Seq(MonthRow(Y)) /\ N \in Nat
    BY DEF AreMonths
  <1>2. SubSeq(d, 1, 0) = << >> /\ SubSeq(d, 1, N) = d
    BY <1>1, EveryPrefix
  <1> HIDE DEF N
  <1>3. YearUpTo(d, v, Y, 0, y)
    <2>1. YearWalk(Y, SubSeq(d, 1, 0))[y] = One
      <3>1. YearWalk(Y, << >>) = YearBegin(Y)
        BY YearUnfold
      <3>2. YearBegin(Y)[y] = One
        BY DEF YearBegin
      <3> QED BY <1>2, <3>1, <3>2
    <2>2. MonthsOf(d, 0, y) = {}
      BY DEF MonthsOf
    <2> QED BY <2>1, <2>2 DEF YearUpTo
  <1>4. bad = {}
    <2> SUFFICES ASSUME bad # {} PROVE FALSE
      OBVIOUS
    <2>1. bad \subseteq Nat
      BY <1>1
    <2>2. PICK m \in bad : \A k \in bad : m <= k
      <3> HIDE DEF bad
      <3> QED BY <2>1, SmallestMember
    <2>3. m # 0
      BY <1>3
    <2>4. m \in 1 .. N /\ m - 1 \in 0 .. N /\ m - 1 \notin bad
      BY <1>1, <2>2, <2>3
    <2>5. YearUpTo(d, v, Y, m - 1, y)
      BY <2>4
    <2>6. YearUpTo(d, v, Y, m, y)
      BY <2>4, <2>5, MonthAdded DEF N
    <2> QED BY <2>6
  <1>5. YearUpTo(d, v, Y, N, y)
    BY <1>1, <1>4
  <1>6. its \in SUBSET (1 .. N) /\ its # {} /\ its \subseteq Nat
    <2>1. its \subseteq 1 .. N
      BY DEF MonthsOf
    <2> QED BY <1>1, <2>1 DEF N
  <1> HIDE DEF its
  <1>7. Max(its) \in its /\ \A k \in its : k <= Max(its)
    BY <1>1, <1>6, LargestMember
  <1>8. Min(its) \in its /\ \A k \in its : Min(its) <= k
    <2>1. \E a \in its : \A k \in its : a <= k
      BY <1>6, SmallestMember
    <2> QED BY <2>1 DEF Min
  <1> QED BY <1>2, <1>5, <1>7, <1>8 DEF YearUpTo, YearChange, its, N

LEMMA SeriesStepOut ==
  ASSUME NEW acc, NEW t, NEW prices
  PROVE  \E x : SeriesStep(acc, t, AllOrdered(trades), prices).out = Append(acc.out, x)
  <1> DEFINE done == DoneAfter(acc.done, t)
             qty  == QtyWalk(acc.qty, SubSeq(AllOrdered(trades), acc.done + 1, done))
             ptr  == PtrFor(qty, acc.ptr, prices, t)
             x    == [at |-> t, value |-> SumFunction(SeriesWorth(qty, ptr, prices, t))]
  <1>1. SeriesStep(acc, t, AllOrdered(trades), prices) =
           [done |-> done, qty |-> qty, ptr |-> ptr, out |-> Append(acc.out, x)]
    BY SeriesStepParts
  <1> HIDE DEF done, qty, ptr, x
  <1> QED BY <1>1

\* The values of a series: one for each of its days.
LEMMA ValuesTyped ==
  ASSUME IInv, NEW days \in Seq(Int), NEW since \in Int
  PROVE  Values(days, since) \in Seq(Nat) /\ Len(Values(days, since)) = Len(days)
  <1> DEFINE N == Len(days)
             pre(m) == SubSeq(days, 1, m)
             prices == PricesFrom(since)
             out(m) == SeriesFold(prices, pre(m)).out
             bad == {m \in 0 .. N : Len(out(m)) # m}
  <1>1. /\ N \in Nat /\ pre(0) = << >> /\ pre(N) = days
        /\ \A m \in 0 .. N : pre(m) \in Seq(Int)
        /\ \A m \in 1 .. N : pre(m) = Append(pre(m - 1), days[m]) /\ days[m] \in Int
    BY EveryPrefix, ElementOfSeq
  <1> HIDE DEF pre
  <1>2. out(0) = << >>
    BY <1>1, SeriesUnfold DEF SeriesBegin
  <1>3. ASSUME NEW m \in 1 .. N PROVE \E x : out(m) = Append(out(m - 1), x) /\ out(m - 1) \in Seq(SeriesRow)
    <2>1. pre(m - 1) \in Seq(Int) /\ pre(m) = Append(pre(m - 1), days[m]) /\ days[m] \in Int
      <3>1. m - 1 \in 0 .. N
        BY <1>1
      <3> QED BY <1>1, <3>1
    <2>2. SeriesFold(prices, pre(m)) = SeriesStep(SeriesFold(prices, pre(m - 1)), days[m], AllOrdered(trades), prices)
      BY <2>1, SeriesUnfold
    <2>3. SeriesFold(prices, pre(m - 1)).out \in Seq(SeriesRow)
      BY <2>1, SeriesUnfold DEF SeriesAcc
    <2> DEFINE acc == SeriesFold(prices, pre(m - 1))
    <2> HIDE DEF acc, prices
    <2>4. PICK x : SeriesStep(acc, days[m], AllOrdered(trades), prices).out = Append(acc.out, x)
      BY SeriesStepOut
    <2>5. out(m) = Append(out(m - 1), x) /\ out(m - 1) \in Seq(SeriesRow)
      BY <2>2, <2>3, <2>4 DEF acc
    <2> QED BY <2>5
  <1> HIDE DEF out
  <1>4. bad = {}
    <2> SUFFICES ASSUME bad # {} PROVE FALSE
      OBVIOUS
    <2>1. bad \subseteq Nat
      BY <1>1
    <2>2. PICK m \in bad : \A k \in bad : m <= k
      <3> HIDE DEF bad
      <3> QED BY <2>1, SmallestMember
    <2>3. m # 0
      <3>1. Len(out(0)) = 0
        BY <1>2
      <3> QED BY <3>1
    <2>4. m \in 1 .. N /\ m - 1 \in 0 .. N /\ m - 1 \notin bad
      <3>1. m \in 0 .. N
        OBVIOUS
      <3> HIDE DEF bad
      <3>2. N \in Nat
        BY <1>1
      <3> HIDE DEF N
      <3>3. m \in 1 .. N /\ m - 1 \in 0 .. N /\ ~(m <= m - 1)
        BY <2>3, <3>1, <3>2
      <3> QED BY <2>2, <3>3
    <2>5. Len(out(m - 1)) = m - 1
      BY <2>4
    <2>6. Len(out(m)) = m
      <3>1. PICK x : out(m) = Append(out(m - 1), x) /\ out(m - 1) \in Seq(SeriesRow)
        BY <1>3, <2>4
      <3> QED BY <2>4, <2>5, <3>1
    <2> QED BY <2>6
  <1> DEFINE series == Series(days, since)
  <1>5. series \in Seq(SeriesRow) /\ Len(series) = N
    <2>1. Len(out(N)) = N
      <3>1. N \in 0 .. N
        BY <1>1
      <3> QED BY <1>4, <3>1
    <2>2. series = out(N)
      BY <1>1, SeriesIsScan DEF out
    <2> QED BY <2>1, <2>2, SeriesTyped
  <1>6. Values(days, since) = [k \in DOMAIN series |-> series[k].value]
    BY DEF Values
  <1> HIDE DEF series
  <1>7. DOMAIN series = 1 .. N /\ \A k \in 1 .. N : series[k].value \in Nat
    <2>1. DOMAIN series = 1 .. N
      BY <1>5
    <2>2. \A k \in 1 .. N : series[k] \in SeriesRow
      BY <1>5, ElementOfSeq
    <2> HIDE DEF N
    <2> QED BY <2>1, <2>2 DEF SeriesRow
  <1> DEFINE vals == Values(days, since)
  <1> HIDE DEF vals
  <1>8. vals = [k \in 1 .. N |-> series[k].value]
    BY <1>6, <1>7 DEF vals
  <1>9. vals \in Seq(Nat) /\ Len(vals) = N
    <2> HIDE DEF N
    <2> QED BY <1>1, <1>7, <1>8
  <1> QED BY <1>9 DEF vals

\* The month of a time lies after the first one and is one of them.
LEMMA MonthOfFacts ==
  ASSUME NEW t \in Int, MonthEnd[1] + DayLength <= t, t < MonthEnd[Len(MonthEnd)] + DayLength
  PROVE  /\ MonthOf(t) \in 2 .. Len(MonthEnd)
         /\ \A k \in DOMAIN MonthEnd : t < MonthEnd[k] + DayLength => MonthOf(t) <= k
         /\ t < MonthEnd[MonthOf(t)] + DayLength
  <1> DEFINE N == Len(MonthEnd)
             S == {k \in DOMAIN MonthEnd : t < MonthEnd[k] + DayLength}
  <1>1. N \in Nat \ {0} /\ DOMAIN MonthEnd = 1 .. N /\ \A k \in 1 .. N : MonthEnd[k] \in Nat
    <2>1. MonthEnd \in Seq(Nat) /\ MonthEnd # << >>
      BY ReturnsAssumption
    <2> QED BY <2>1, ElementOfSeq
  <1>2. DayLength \in Nat
    BY ValuationAssumption
  <1>3. S \subseteq Nat /\ N \in S /\ 1 \notin S /\ S \subseteq 1 .. N
    BY <1>1, <1>2
  <1>4. MonthOf(t) = Min(S)
    BY DEF MonthOf
  <1> HIDE DEF S
  <1>5. Min(S) \in S /\ \A k \in S : Min(S) <= k
    <2>1. \E m \in S : \A k \in S : m <= k
      BY <1>3, SmallestMember
    <2> QED BY <2>1 DEF Min
  <1>6. Min(S) \in 2 .. N
    <2> HIDE DEF N
    <2>1. Min(S) \in 1 .. N /\ Min(S) # 1 /\ N \in Nat
      BY <1>1, <1>3, <1>5
    <2> QED BY ONLY <2>1
  <1> QED BY <1>4, <1>5, <1>6 DEF S

LEMMA MonthGridFacts ==
  ASSUME IInv
  PROVE  LET first == FirstMonth
             n == MonthOf(clock) - FirstMonth + 2
         IN  /\ first \in Nat /\ first >= 2 /\ n \in Nat /\ n >= 2
             /\ first + n - 2 <= Len(MonthEnd)
             /\ MonthGrid \in Seq(Int) /\ Len(MonthGrid) = n /\ MonthGrid[1] \in Int
  <1> DEFINE first == FirstMonth
             last == MonthOf(clock)
             n == last - first + 2
             end(k) == MonthEnd[first + k - 2]
  <1>1. clock \in Instants /\ clock \in Int /\ Span \in Nat /\ DayLength \in Nat
    BY TablesOf, ReturnsAssumption, ValuationAssumption DEF IInv, TypeOK
  <1>2. /\ MonthEnd[1] + DayLength <= clock - Span
        /\ clock < MonthEnd[Len(MonthEnd)] + DayLength
    BY <1>1, PortfolioAssumption
  <1>3. MonthEnd \in Seq(Nat) /\ Len(MonthEnd) \in Nat /\ \A k \in 1 .. Len(MonthEnd) : MonthEnd[k] \in Nat
    <2>1. MonthEnd \in Seq(Nat)
      BY ReturnsAssumption
    <2> QED BY <2>1, ElementOfSeq
  <1>4. MonthEnd # << >> /\ MonthEnd[1] \in Nat /\ MonthEnd[Len(MonthEnd)] \in Nat
    <2>1. MonthEnd # << >>
      BY ReturnsAssumption
    <2>2. 1 \in 1 .. Len(MonthEnd) /\ Len(MonthEnd) \in 1 .. Len(MonthEnd)
      BY <1>3, <2>1
    <2> QED BY <1>3, <2>1, <2>2
  <1>5. /\ clock - Span \in Int /\ clock - Span <= clock
        /\ MonthEnd[1] + DayLength <= clock /\ clock - Span < MonthEnd[Len(MonthEnd)] + DayLength
    BY <1>1, <1>2, <1>4
  <1>6. /\ last \in 2 .. Len(MonthEnd) /\ clock < MonthEnd[last] + DayLength
        /\ first \in 2 .. Len(MonthEnd)
        /\ \A k \in DOMAIN MonthEnd : clock - Span < MonthEnd[k] + DayLength => first <= k
    BY <1>1, <1>2, <1>5, MonthOfFacts DEF FirstMonth
  <1> HIDE DEF first, last
  <1>7. first <= last
    <2>1. last \in DOMAIN MonthEnd /\ MonthEnd[last] \in Nat
      BY <1>3, <1>6
    <2>2. clock - Span < MonthEnd[last] + DayLength
      BY <1>1, <1>5, <1>6, <2>1
    <2> QED BY <1>6, <2>1, <2>2
  <1>8. first \in Nat /\ first >= 2 /\ n \in Nat /\ n >= 2 /\ first + n - 2 = last
    BY <1>3, <1>6, <1>7
  <1>9. MonthGrid = [k \in 1 .. n |-> IF end(k) < clock THEN end(k) ELSE clock]
    BY DEF MonthGrid, first, last
  <1>10. \A k \in 1 .. n : end(k) \in Int
    <2> SUFFICES ASSUME NEW k \in 1 .. n PROVE end(k) \in Int
      OBVIOUS
    <2>1. first + k - 2 \in 1 .. Len(MonthEnd)
      BY <1>3, <1>6, <1>8
    <2> QED BY <1>3, <2>1
  <1> HIDE DEF n, end
  <1>11. MonthGrid \in Seq(Int) /\ Len(MonthGrid) = n /\ MonthGrid[1] \in Int
    <2>1. MonthGrid = [k \in 1 .. n |-> MonthGrid[k]] /\ \A k \in 1 .. n : MonthGrid[k] \in Int
      BY <1>1, <1>9, <1>10
    <2>2. 1 \in 1 .. n
      BY <1>8
    <2> QED BY <1>8, <2>1, <2>2
  <1> QED BY <1>3, <1>6, <1>8, <1>11 DEF first, last, n

LEMMA YearsOf ==
  ASSUME IInv
  PROVE  LET values == Values(MonthGrid, MonthGrid[1])
             months == MonthGrowth(values)
             Y == {months[k].year : k \in DOMAIN months}
         IN  /\ AreMonths(months, values, Y) /\ Y \subseteq Nat
             /\ \A k, j \in 1 .. Len(months) : k <= j => months[k].year <= months[j].year
  <1> DEFINE values == Values(MonthGrid, MonthGrid[1])
             months == MonthGrowth(values)
             Y == {months[k].year : k \in DOMAIN months}
             first == FirstMonth
             n == MonthOf(clock) - FirstMonth + 2
             end(k) == MonthEnd[first + k - 1]
  <1>1. /\ first \in Nat /\ first >= 2 /\ n \in Nat /\ n >= 2 /\ first + n - 2 <= Len(MonthEnd)
        /\ MonthGrid \in Seq(Int) /\ Len(MonthGrid) = n /\ MonthGrid[1] \in Int
    BY MonthGridFacts
  <1>2. values \in Seq(Nat) /\ Len(values) = n
    BY <1>1, ValuesTyped
  <1> HIDE DEF values, first, n
  <1>3. months = [k \in 1 .. n - 1 |->
                     [year   |-> YearOf[end(k)],
                      growth |-> IF values[k] > 0 /\ values[k + 1] > 0
                                   THEN Over(values[k + 1], values[k]) ELSE None]]
    BY <1>2 DEF MonthGrowth, first
  <1>4. n - 1 \in Nat /\ DOMAIN months = 1 .. n - 1 /\ Len(months) = n - 1
    BY <1>1, <1>3
  <1>5. /\ MonthEnd \in Seq(Nat) /\ DOMAIN MonthEnd = 1 .. Len(MonthEnd) /\ Len(MonthEnd) \in Nat
        /\ \A k \in 1 .. Len(MonthEnd) : MonthEnd[k] \in DOMAIN YearOf /\ MonthEnd[k] \in Nat
    <2>1. MonthEnd \in Seq(Nat) /\ ToSet(MonthEnd) \subseteq DOMAIN YearOf
      BY ReturnsAssumption
    <2>2. DOMAIN MonthEnd = 1 .. Len(MonthEnd) /\ Len(MonthEnd) \in Nat
      BY <2>1
    <2>3. \A k \in 1 .. Len(MonthEnd) : MonthEnd[k] \in ToSet(MonthEnd)
      BY <2>2 DEF ToSet
    <2> QED BY <2>1, <2>2, <2>3, ElementOfSeq
  <1>6. \A k \in 1 .. n - 1 : first + k - 1 \in 1 .. Len(MonthEnd)
    BY <1>1, <1>5
  <1>7. \A k \in 1 .. n - 1 : YearOf[end(k)] \in Nat
    BY <1>5, <1>6, ReturnsAssumption
  <1>8. ASSUME NEW k \in 1 .. n - 1, NEW j \in 1 .. n - 1, k <= j
        PROVE  YearOf[end(k)] <= YearOf[end(j)]
    <2>1. end(k) <= end(j)
      <3>1. CASE k = j
        <4>1. end(k) \in Nat
          BY <1>5, <1>6
        <4> QED BY <3>1, <4>1
      <3>2. CASE k # j
        <4>1. first + k - 1 < first + j - 1 /\ first + k - 1 \in DOMAIN MonthEnd /\ first + j - 1 \in DOMAIN MonthEnd
          BY <1>1, <1>4, <1>5, <1>6, <1>8, <3>2
        <4>2. end(k) < end(j)
          BY <4>1, ReturnsAssumption
        <4>3. end(k) \in Nat /\ end(j) \in Nat
          BY <1>5, <1>6
        <4> QED BY <4>2, <4>3
      <3> QED BY <3>1, <3>2
    <2> QED BY <1>5, <1>6, <2>1, ReturnsAssumption
  <1> HIDE DEF end
  <1>9. \A k \in 1 .. n - 1 : /\ months[k].year = YearOf[end(k)]
                              /\ months[k].growth = IF values[k] > 0 /\ values[k + 1] > 0
                                                      THEN Over(values[k + 1], values[k]) ELSE None
    BY <1>3
  <1>10. Y \subseteq Nat /\ \A k \in 1 .. n - 1 : months[k].year \in Y
    BY <1>4, <1>7, <1>9
  <1>11. \A k \in 1 .. n - 1 : months[k] \in MonthRow(Y)
    <2> SUFFICES ASSUME NEW k \in 1 .. n - 1 PROVE months[k] \in MonthRow(Y)
      OBVIOUS
    <2>1. k \in 1 .. n /\ k + 1 \in 1 .. n
      BY <1>1
    <2>2. values[k] \in Nat /\ values[k + 1] \in Nat
      BY <1>2, <2>1, ElementOfSeq
    <2>3. months[k].growth \in Fractions \cup {None}
      <3>1. CASE values[k] > 0 /\ values[k + 1] > 0
        <4>1. values[k] \in Denominators /\ values[k + 1] \in Denominators
          BY <2>2, <3>1 DEF Denominators
        <4> QED BY <1>9, <3>1, <4>1, GrowthsChain
      <3>2. CASE ~(values[k] > 0 /\ values[k + 1] > 0)
        BY <1>9, <3>2
      <3> QED BY <3>1, <3>2
    <2>4. months[k] = [year |-> months[k].year, growth |-> months[k].growth]
      BY <1>3
    <2> HIDE DEF Y, months
    <2> QED BY <1>10, <2>3, <2>4 DEF MonthRow
  <1>12. months = [k \in 1 .. n - 1 |-> months[k]]
    BY <1>3
  <1> HIDE DEF months, Y
  <1>13. months \in Seq(MonthRow(Y))
    BY <1>4, <1>11, <1>12
  <1>14. AreMonths(months, values, Y)
    BY <1>1, <1>2, <1>4, <1>9, <1>13 DEF AreMonths
  <1> QED BY <1>4, <1>8, <1>9, <1>10, <1>14 DEF months, values, Y

LEMMA RiskOf == IInv => RiskAndMonths
  <1> SUFFICES ASSUME IInv PROVE RiskAndMonths
    OBVIOUS
  <1> DEFINE values == Values(MonthGrid, MonthGrid[1])
             months == MonthGrowth(values)
             Y == {months[k].year : k \in DOMAIN months}
  <1>1. ASSUME NEW p \in Periods
        PROVE  LET grid == DailyGrid(Start(p))
                   daily == Values(grid, grid[1])
               IN  MaxDrawdown(daily) # None => MaxDrawdown(daily) = WorstFall(daily)
    <2> DEFINE grid == DailyGrid(Start(p))
               daily == Values(grid, grid[1])
    <2>1. Start(p) \in Int /\ Start(p) <= clock /\ clock \in Int
      BY StartFacts, TablesOf
    <2>2. grid \in Seq(Int) /\ grid[1] \in Int
      BY <2>1, GridFacts DEF DaysFrom
    <2>3. daily \in Seq(Nat)
      BY <2>2, ValuesTyped
    <2> QED BY <2>3, WorstOf
  <1>2. AreMonths(months, values, Y) /\ Y \subseteq Nat
        /\ \A k, j \in 1 .. Len(months) : k <= j => months[k].year <= months[j].year
    BY YearsOf
  <1>3. YearGrowth(months) = YearWalk(Y, months)
    BY DEF YearGrowth, YearWalk, YearBegin
  <1> HIDE DEF values, months
  <1>4. months \in Seq(MonthRow(Y))
    BY <1>2 DEF AreMonths
  <1>5. DOMAIN months = 1 .. Len(months)
    BY <1>4
  <1>6. DOMAIN YearGrowth(months) = Y
    <2>1. YearGrowth(months) \in YearRows(Y)
      BY <1>3, <1>4, YearUnfold
    <2> QED BY <2>1 DEF YearRows
  <1>7. ASSUME NEW y \in Y
        PROVE  LET its == {k \in DOMAIN months : months[k].year = y}
                   empty == \E k \in its : values[k] = 0 \/ values[k + 1] = 0
               IN  YearGrowth(months)[y] = IF empty THEN None ELSE Over(values[Max(its) + 1], values[Min(its)])
    <2> DEFINE its == MonthsOf(months, Len(months), y)
    <2>1. its = {k \in DOMAIN months : months[k].year = y}
      BY <1>5 DEF MonthsOf
    <2>2. its # {}
      BY <2>1, <1>7
    <2>3. YearWalk(Y, months)[y] = YearChange(months, values, y)
      <3> HIDE DEF Y
      <3>1. AreMonths(months, values, Y) /\ Y \subseteq Nat /\ y \in Y
        BY <1>2, <1>7
      <3>2. \A k, j \in 1 .. Len(months) : k <= j => months[k].year <= months[j].year
        BY <1>2
      <3> QED BY ONLY <2>2, <3>1, <3>2, YearsCompound
    <2> QED BY <1>3, <2>1, <2>3 DEF EmptyMonth, YearChange
  <1> QED BY <1>1, <1>6, <1>7 DEF RiskAndMonths, values, months

(***************************************************************************)
(* The drawdown computed in one pass with a running peak is the worst fall *)
(* between any two midnights, in every window; and each calendar year of   *)
(* the heatmap compounds to its change from the end of the month before    *)
(* its first one to the end of its last, and is left out exactly when one  *)
(* of its months begins or ends with nothing: for any months, any years    *)
(* they fall in and any values.                                            *)
(***************************************************************************)
THEOREM RiskAgrees == Spec => []RiskAndMonths
  BY RiskOf, Invariance, PTL

-----------------------------------------------------------------------------
(***************************************************************************)
(* While something is held at the end of every day, no SELL was cut short: *)
(* the walk and the totals drift no further apart.                         *)
(***************************************************************************)
SignedRows == [i \in DOMAIN trades |-> Signed(trades[i])]

NetAt(t, s) == SumFunctionOnSet(SignedRows, RowsUpTo(t, s))

QtyAfter(h, m, s) == BooksAt(h, m)[s].qty

NetAfter(h, m, s) == SumFunctionOnSet(SignedRows, Firsts(h, m, s))

LEMMA QtyOfStep ==
  ASSUME NEW b \in Books, NEW x \in TradeRow
  PROVE  CostStep(b, x).qty = IF x.type = "BUY" THEN b.qty + x.qty
                              ELSE IF x.qty <= b.qty THEN b.qty - x.qty ELSE 0
  <1>1. b.qty \in Nat /\ x.qty \in Nat /\ x.qty > 0
    BY DEF Books, TradeRow
  <1>2. CASE x.type = "BUY"
    BY <1>2 DEF CostStep, Bought
  <1>3. CASE x.type # "BUY" /\ b.qty = 0
    <2>1. CostStep(b, x) = b
      BY <1>3 DEF CostStep, Sold
    <2> QED BY <1>1, <1>3, <2>1
  <1>4. CASE x.type # "BUY" /\ b.qty # 0
    <2>1. CostStep(b, x).qty = b.qty - (IF x.qty <= b.qty THEN x.qty ELSE b.qty)
      BY <1>4 DEF CostStep, Sold
    <2> QED BY <1>1, <1>4, <2>1
  <1> QED BY <1>2, <1>3, <1>4

LEMMA RowSteps ==
  ASSUME IInv, NEW h, ReadOrder(h), NEW s \in Symbols, NEW m \in 1 .. Len(trades)
  PROVE  LET x == AllOrdered(trades)[m]
             q == QtyAfter(h, m - 1, s)
         IN  /\ q \in Nat /\ QtyAfter(h, m, s) \in Nat /\ x \in TradeRow
             /\ NetAfter(h, m - 1, s) \in Int /\ NetAfter(h, m, s) \in Int
             /\ x.sym # s => QtyAfter(h, m, s) = q /\ NetAfter(h, m, s) = NetAfter(h, m - 1, s)
             /\ x.sym = s =>
                  /\ NetAfter(h, m, s) = NetAfter(h, m - 1, s) + Signed(x)
                  /\ QtyAfter(h, m, s) = IF x.type = "BUY" THEN q + x.qty
                                         ELSE IF x.qty <= q THEN q - x.qty ELSE 0
  <1> DEFINE x == AllOrdered(trades)[m]
             b == BooksAt(h, m - 1)
             F == Firsts(h, m - 1, s)
             G == Firsts(h, m, s)
  <1>1. /\ Len(trades) \in Nat /\ DOMAIN trades = 1 .. Len(trades) /\ h[m] \in 1 .. Len(trades)
        /\ x = trades[h[m]] /\ x \in TradeRow
    BY ElementOfSeq DEF ReadOrder
  <1>2. b \in AllBooks /\ BooksAt(h, m) \in AllBooks /\ BooksAt(h, m) = PosStep(b, x)
    <2>1. m - 1 \in 0 .. Len(trades) /\ m \in 0 .. Len(trades)
      BY <1>1
    <2> QED BY <2>1, BooksStep DEF IInv
  <1>3. /\ F \in SUBSET DOMAIN trades /\ h[m] \in DOMAIN trades
        /\ x.sym # s => G = F
        /\ x.sym = s => Joins(h, m, F, G)
    BY <1>1, FirstsStep DEF IInv
  <1>4. IsFiniteSet(DOMAIN trades) /\ IsFiniteSet(F)
    <2>1. IsFiniteSet(1 .. Len(trades))
      BY <1>1, FS_Interval
    <2> HIDE DEF F
    <2> QED BY <1>1, <1>3, <2>1, FS_Subset
  <1>5. \A i \in DOMAIN trades : SignedRows[i] \in Int /\ SignedRows[i] = Signed(trades[i])
    <2> SUFFICES ASSUME NEW i \in DOMAIN trades PROVE Signed(trades[i]) \in Int
      BY DEF SignedRows
    <2>1. trades[i] \in TradeRow
      BY TradeTyped, ElementOfSeq DEF IInv, Typed
    <2> QED BY <2>1 DEF TradeRow, Signed
  <1> HIDE DEF F, G, b, x
  <1>6. NetAfter(h, m - 1, s) \in Int
    BY <1>3, <1>4, <1>5, SumOnSet DEF NetAfter, F
  <1>7. b[s] \in Books /\ b[s].qty \in Nat /\ BooksAt(h, m)[s].qty \in Nat
    BY <1>2 DEF AllBooks, Books
  <1>8. CASE x.sym # s
    <2>1. BooksAt(h, m)[s] = b[s]
      BY <1>1, <1>2, <1>8 DEF PosStep, AllBooks, TradeRow
    <2>2. NetAfter(h, m, s) = NetAfter(h, m - 1, s)
      BY <1>3, <1>8 DEF NetAfter, F, G
    <2> QED BY <1>1, <1>6, <1>7, <1>8, <2>1, <2>2 DEF QtyAfter, b, x
  <1>9. CASE x.sym = s
    <2>1. BooksAt(h, m)[s] = CostStep(b[s], x)
      BY <1>1, <1>2, <1>9 DEF PosStep, AllBooks, TradeRow
    <2>2. G = F \cup {h[m]} /\ h[m] \notin F
      BY <1>3, <1>9 DEF Joins
    <2>3. NetAfter(h, m, s) = NetAfter(h, m - 1, s) + SignedRows[h[m]]
      <3>1. \A i \in F : SignedRows[i] \in Int
        BY <1>3, <1>5
      <3>2. SignedRows[h[m]] \in Int
        BY <1>3, <1>5
      <3>3. SumFunctionOnSet(SignedRows, F \cup {h[m]}) = SumFunctionOnSet(SignedRows, F) + SignedRows[h[m]]
        BY <1>4, <2>2, <3>1, <3>2, SumWith
      <3> QED BY <2>2, <3>3 DEF NetAfter, F, G
    <2>4. SignedRows[h[m]] = Signed(x) /\ Signed(x) \in Int
      BY <1>1, <1>3, <1>5
    <2>5. CostStep(b[s], x).qty = IF x.type = "BUY" THEN b[s].qty + x.qty
                                  ELSE IF x.qty <= b[s].qty THEN b[s].qty - x.qty ELSE 0
      BY <1>1, <1>7, QtyOfStep
    <2>6. NetAfter(h, m, s) \in Int
      BY <1>6, <2>3, <2>4
    <2> QED BY <1>1, <1>6, <1>7, <1>9, <2>1, <2>3, <2>4, <2>5, <2>6 DEF QtyAfter, b, x
  <1> QED BY <1>8, <1>9

\* Once a SELL was cut short nothing is left for the rest of its day.
LEMMA EmptyToTheEnd ==
  ASSUME IInv, NEW h, ReadOrder(h), NEW s \in Symbols, NEW m \in 1 .. Len(trades),
         AllOrdered(trades)[m].sym = s, AllOrdered(trades)[m].type # "BUY",
         QtyAfter(h, m, s) = 0
  PROVE  QtyAfter(h, DoneAt(AllOrdered(trades)[m].at), s) = 0
  <1> DEFINE N == Len(trades)
             rows == AllOrdered(trades)
             t == rows[m].at
             e == DoneAt(t)
             bad == {k \in m .. e : QtyAfter(h, k, s) # 0}
  <1>1. /\ N \in Nat /\ \A p \in 1 .. N : rows[p] = trades[h[p]] /\ rows[p] \in TradeRow
        /\ \A p, q \in 1 .. N : p < q => Precedes(trades, h[p], h[q])
    BY ElementOfSeq DEF ReadOrder
  <1>2. \A p \in 1 .. N : rows[p].at \in Nat /\ rows[p].type \in {"BUY", "SELL"}
    BY <1>1 DEF TradeRow
  <1>3. t \in Nat /\ e \in 0 .. N /\ \A p \in 1 .. N : rows[p].at <= t <=> p <= e
    <2>1. t \in Nat /\ t \in Int
      BY <1>2
    <2> HIDE DEF t
    <2> QED BY <2>1, DueFacts DEF IInv
  <1>4. m <= e
    BY <1>3
  <1>5. bad = {}
    <2> SUFFICES ASSUME bad # {} PROVE FALSE
      OBVIOUS
    <2>1. bad \subseteq Nat
      BY <1>1, <1>3
    <2>2. PICK k \in bad : \A j \in bad : k <= j
      <3> HIDE DEF bad
      <3> QED BY <2>1, SmallestMember
    <2>3. k # m /\ k \in m .. e
      OBVIOUS
    <2>4. k - 1 \in m .. e /\ k - 1 \notin bad /\ k \in 1 .. N /\ m < k
      <3> HIDE DEF bad, e, N
      <3>1. k - 1 \in m .. e /\ ~(k <= k - 1) /\ k \in 1 .. N /\ m < k
        BY <1>1, <1>3, <2>3
      <3> QED BY <2>2, <3>1
    <2>5. QtyAfter(h, k - 1, s) = 0
      BY <2>4
    <2>6. rows[k].type # "BUY"
      <3>1. Precedes(trades, h[m], h[k]) /\ rows[m] = trades[h[m]] /\ rows[k] = trades[h[k]]
        BY <1>1, <2>4
      <3>2. rows[k].at <= t
        BY <1>3, <2>3, <2>4
      <3>3. ~Earlier(rows[k], rows[m]) \/ Earlier(rows[m], rows[k])
        BY <3>1 DEF Precedes
      <3>4. SideRank(rows[m]) = 1
        BY DEF SideRank
      <3>5. t <= rows[k].at
        BY <1>2, <2>4, <3>3 DEF Earlier
      <3>6. rows[k].at = rows[m].at
        BY <1>2, <2>4, <3>2, <3>5
      <3> SUFFICES ASSUME rows[k].type = "BUY" PROVE FALSE
        OBVIOUS
      <3>7. SideRank(rows[k]) = 0
        BY DEF SideRank
      <3>8. Earlier(rows[k], rows[m]) /\ ~Earlier(rows[m], rows[k])
        BY <1>2, <2>4, <3>4, <3>6, <3>7 DEF Earlier
      <3> QED BY <3>3, <3>8
    <2>7. QtyAfter(h, k, s) = 0
      <3> DEFINE q == QtyAfter(h, k - 1, s)
                 x == rows[k]
      <3>1. /\ x.sym # s => QtyAfter(h, k, s) = q
            /\ x.sym = s => QtyAfter(h, k, s) = IF x.type = "BUY" THEN q + x.qty
                                                ELSE IF x.qty <= q THEN q - x.qty ELSE 0
            /\ x \in TradeRow
        BY <2>4, RowSteps
      <3>2. x.qty \in Nat /\ x.qty > 0
        BY <3>1 DEF TradeRow
      <3> HIDE DEF q, x
      <3>3. q = 0 /\ x.type # "BUY"
        BY <2>5, <2>6 DEF q, x
      <3> QED BY <3>1, <3>2, <3>3
    <2> QED BY <2>7
  <1>6. e \in m .. e
    <2> HIDE DEF e
    <2> QED BY <1>3, <1>4
  <1> QED BY <1>5, <1>6

LEMMA NoExcess ==
  ASSUME IInv, NEW s \in Symbols, NEW from \in Int,
         \A t \in from .. clock : HeldAt(s, t).qty > 0
  PROVE  \A t \in from .. clock :
            /\ HeldAt(s, t).qty \in Nat /\ NetAt(t, s) \in Int
            /\ HeldAt(s, t).qty - NetAt(t, s) = HeldAt(s, from).qty - NetAt(from, s)
  <1> SUFFICES ASSUME NEW t \in from .. clock
               PROVE  /\ HeldAt(s, t).qty \in Nat /\ NetAt(t, s) \in Int
                      /\ HeldAt(s, t).qty - NetAt(t, s) = HeldAt(s, from).qty - NetAt(from, s)
    OBVIOUS
  <1>0. clock \in Int /\ t \in Int /\ from <= t /\ t <= clock
    BY TablesOf
  <1>1. PICK h : ReadOrder(h)
    BY ReadOrderExists DEF IInv
  <1> DEFINE N == Len(trades)
             rows == AllOrdered(trades)
             Q(m) == QtyAfter(h, m, s)
             D(m) == QtyAfter(h, m, s) - NetAfter(h, m, s)
             a == DoneAt(from)
             b == DoneAt(t)
  <1>2. /\ N \in Nat /\ \A p \in 1 .. N : rows[p] \in TradeRow /\ rows[p].at \in Nat
    <2>1. N \in Nat /\ \A p \in 1 .. N : rows[p] \in TradeRow
      BY <1>1, ElementOfSeq DEF ReadOrder
    <2> QED BY <2>1 DEF TradeRow
  <1>3. ASSUME NEW u \in Int
        PROVE  /\ DoneAt(u) \in 0 .. N /\ \A p \in 1 .. N : rows[p].at <= u <=> p <= DoneAt(u)
               /\ HeldAt(s, u).qty = Q(DoneAt(u)) /\ NetAt(u, s) = NetAfter(h, DoneAt(u), s)
    <2>1. /\ DoneAt(u) \in 0 .. N /\ \A p \in 1 .. N : rows[p].at <= u <=> p <= DoneAt(u)
          /\ Firsts(h, DoneAt(u), s) = RowsUpTo(u, s)
      BY <1>1, DueFacts DEF IInv
    <2>2. HeldAt(s, u).qty = CostWalk(InOrder(trades, RowsUpTo(u, s))).qty
      BY HeldFacts DEF IInv
    <2>3. Q(DoneAt(u)) = CostWalk(InOrder(trades, RowsUpTo(u, s))).qty
      BY <2>1 DEF QtyAfter, BooksAt
    <2> QED BY <2>1, <2>2, <2>3 DEF NetAt, NetAfter
  <1>4. a \in 0 .. N /\ b \in 0 .. N /\ a <= b
    <2>1. a \in 0 .. N /\ b \in 0 .. N
      BY <1>0, <1>3
    <2>2. CASE a = 0
      BY <1>2, <2>1, <2>2
    <2>3. CASE a # 0
      <3>1. a \in 1 .. N
        BY <1>2, <2>1, <2>3
      <3>2. rows[a].at <= from
        <4>1. a <= a
          BY <3>1
        <4> HIDE DEF N, rows
        <4> QED BY <1>3, <3>1, <4>1
      <3>3. rows[a].at <= t
        BY <1>0, <1>2, <3>1, <3>2
      <3> QED BY <1>0, <1>3, <2>1, <3>1, <3>3
    <2> QED BY <2>1, <2>2, <2>3
  <1>5. ASSUME NEW m \in a + 1 .. b PROVE D(m) = D(m - 1) /\ m \in 1 .. N
    <2>1. m \in 1 .. N
      <3> HIDE DEF a, b, N
      <3> QED BY <1>2, <1>4
    <2> DEFINE x == rows[m]
               u == x.at
    <2>2. x \in TradeRow /\ u \in Int
      BY <1>2, <2>1
    <2>3. u \in from .. clock
      <3>1. ~(u <= from)
        <4>1. ~(m <= a)
          BY <1>4, <2>1
        <4> QED BY <1>3, <2>1, <4>1
      <3>2. u <= t
        <4>1. m <= b
          BY <1>4, <2>1
        <4> QED BY <1>0, <1>3, <2>1, <4>1
      <3> HIDE DEF u
      <3> QED BY <1>0, <2>2, <3>1, <3>2
    <2>4. HeldAt(s, u).qty > 0 /\ HeldAt(s, u).qty = Q(DoneAt(u))
      BY <1>3, <2>2, <2>3
    <2>5. /\ Q(m - 1) \in Nat /\ Q(m) \in Nat
          /\ NetAfter(h, m - 1, s) \in Int /\ NetAfter(h, m, s) \in Int
          /\ x.sym # s => Q(m) = Q(m - 1) /\ NetAfter(h, m, s) = NetAfter(h, m - 1, s)
          /\ x.sym = s =>
               /\ NetAfter(h, m, s) = NetAfter(h, m - 1, s) + Signed(x)
               /\ Q(m) = IF x.type = "BUY" THEN Q(m - 1) + x.qty
                         ELSE IF x.qty <= Q(m - 1) THEN Q(m - 1) - x.qty ELSE 0
      BY <1>1, <2>1, RowSteps
    <2>6. x.sym = s /\ x.type # "BUY" => Q(m) # 0
      BY <1>1, <2>1, <2>4, EmptyToTheEnd
    <2>7. x.qty \in Nat /\ Signed(x) = IF x.type = "BUY" THEN x.qty ELSE -x.qty
      BY <2>2 DEF TradeRow, Signed
    <2> HIDE DEF Q, x
    <2>8. Q(m) - NetAfter(h, m, s) = Q(m - 1) - NetAfter(h, m - 1, s)
      BY <2>5, <2>6, <2>7
    <2> QED BY <2>1, <2>8 DEF Q
  <1> DEFINE bad == {m \in a .. b : D(m) # D(a)}
  <1>6. bad = {}
    <2> SUFFICES ASSUME bad # {} PROVE FALSE
      OBVIOUS
    <2>1. bad \subseteq Nat
      <3> HIDE DEF D, a, b
      <3> QED BY <1>2, <1>4
    <2>2. PICK m \in bad : \A k \in bad : m <= k
      <3> HIDE DEF bad
      <3> QED BY <2>1, SmallestMember
    <2>3. m # a /\ m \in a .. b
      OBVIOUS
    <2>4. m \in a + 1 .. b /\ m - 1 \notin bad /\ m - 1 \in a .. b
      <3> HIDE DEF bad, a, b
      <3>1. m \in a + 1 .. b /\ m - 1 \in a .. b /\ ~(m <= m - 1)
        BY <1>2, <1>4, <2>3
      <3> QED BY <2>2, <3>1
    <2>5. D(m - 1) = D(a)
      BY <2>4
    <2>6. D(m) = D(m - 1)
      BY <1>5, <2>4
    <2> QED BY <2>5, <2>6
  <1>7. D(b) = D(a)
    <2>1. b \in a .. b
      <3> HIDE DEF a, b
      <3> QED BY <1>2, <1>4
    <2> QED BY <1>6, <2>1
  <1>8. HeldAt(s, t).qty \in Nat /\ NetAt(t, s) \in Int
    <2>1. HeldAt(s, t).qty \in Nat
      BY AmountTyped
    <2>2. NetAfter(h, b, s) \in Int
      <3>1. CASE b = 0
        <4>1. Firsts(h, b, s) = {}
          BY <3>1 DEF Firsts
        <4>2. SumFunctionOnSet(SignedRows, {}) \in Int
          BY SumOnSet, FS_EmptySet
        <4> QED BY <4>1, <4>2 DEF NetAfter
      <3>2. CASE b # 0
        <4>1. b \in 1 .. N
          <5> HIDE DEF b
          <5> QED BY <1>2, <1>4, <3>2
        <4> QED BY <1>1, <4>1, RowSteps
      <3> QED BY <3>1, <3>2
    <2> QED BY <1>0, <1>3, <2>1, <2>2
  <1> QED BY <1>0, <1>3, <1>7, <1>8

-----------------------------------------------------------------------------
(***************************************************************************)
(* One asset, traded at its price of the day.                              *)
(***************************************************************************)
OneAsset(from, s) ==
    /\ from \in Int /\ from <= clock /\ s \in Symbols /\ Currency[s] = Home
    /\ AtMarket(from, s)

LEMMA ZeroSum ==
  ASSUME NEW S, IsFiniteSet(S), NEW f, \A x \in S : f[x] = 0
  PROVE  SumFunctionOnSet(f, S) = 0
  <1>1. \A x \in S : f[x] \in Int /\ f[x] = 0 * f[x]
    OBVIOUS
  <1>2. SumFunctionOnSet(f, S) = 0 * SumFunctionOnSet(f, S) /\ SumFunctionOnSet(f, S) \in Int
    BY <1>1, SumScaled, SumOnSet
  <1> QED BY <1>2

LEMMA EmptyOrder == Typed => InOrder(trades, {}) = << >>
  <1> SUFFICES ASSUME Typed PROVE InOrder(trades, {}) = << >>
    OBVIOUS
  <1>1. {} \in SUBSET DOMAIN trades
    OBVIOUS
  <1>2. InOrder(trades, {}) \in Seq(TradeRow) /\ IsFiniteSet({}) /\ Dated(trades, {})
    BY <1>1, InOrderTyped
  <1>3. DOMAIN InOrder(trades, {}) = 1 .. 0
    BY <1>2, OrderedPlaces, FS_EmptySet
  <1> QED BY <1>2, <1>3

LEMMA MarketDay ==
  ASSUME IInv, NEW from, NEW s, OneAsset(from, s), NEW t \in from .. clock
  PROVE  LET q == HeldAt(s, t).qty
             p == LatestAt(points[s], t)
         IN  /\ q \in Nat /\ q > 0 /\ p \in Nat /\ p > 0
             /\ SeriesPoint(t).value = q * p
  <1> DEFINE q == HeldAt(s, t).qty
             p == LatestAt(points[s], t)
             v == [u \in Symbols |-> Whole(AmountAt(u, t))]
             w == ValueOn(t)
  <1>0. s \in Symbols /\ Currency[s] = Home /\ \A i \in DOMAIN trades : trades[i].sym = s
    BY DEF OneAsset, AtMarket
  <1>1. q \in Nat /\ p \in Nat
    BY <1>0, AmountTyped
  <1>2. \A u \in Symbols : u # s => HeldAt(u, t).qty = 0
    <2> SUFFICES ASSUME NEW u \in Symbols, u # s PROVE HeldAt(u, t).qty = 0
      OBVIOUS
    <2>1. RowsUpTo(t, u) = {}
      BY <1>0 DEF RowsUpTo
    <2>2. InOrder(trades, {}) = << >>
      BY EmptyOrder DEF IInv
    <2>3. CostWalk(<< >>) = NoPosition
      BY CostUnfold
    <2>4. ~(CostWalk(InOrder(trades, RowsUpTo(t, u))).qty > 0)
      BY <2>1, <2>2, <2>3 DEF NoPosition
    <2>5. HeldAt(u, t).qty = 0
      BY <2>4, HeldFacts DEF IInv
    <2> QED BY <2>5
  <1>3. SnapshotAt(Currency[s], t) = 1 /\ RateAtHour(Currency[s], t) = 1
    BY <1>0, HomeRate DEF SnapshotAt
  <1>4. \A a, b \in Nat : 0 * a * b = 0 /\ a * b * 1 = a * b /\ a * b \in Nat
    OBVIOUS
  <1>5. AmountAt(s, t) = q * p /\ w[s] = q * p
    BY <1>0, <1>1, <1>3, <1>4 DEF AmountAt, ValueOn
  <1>6. \A u \in Symbols : u # s => AmountAt(u, t) = 0 /\ w[u] = 0
    <2> SUFFICES ASSUME NEW u \in Symbols, u # s PROVE AmountAt(u, t) = 0 /\ w[u] = 0
      OBVIOUS
    <2>1. LatestAt(points[u], t) \in Nat /\ SnapshotAt(Currency[u], t) \in Nat /\ RateAtHour(Currency[u], t) \in Nat
      BY AmountTyped, RateAtHourTyped
    <2> QED BY <1>2, <1>4, <2>1 DEF AmountAt, ValueOn
  <1>7. q > 0 /\ p > 0
    <2> SUFFICES ASSUME ~(q > 0 /\ p > 0) PROVE FALSE
      OBVIOUS
    <2>1. q * p = 0
      <3>1. \A a, b \in Nat : ~(a > 0 /\ b > 0) => a * b = 0
        <4> SUFFICES ASSUME NEW a \in Nat, NEW b \in Nat, a = 0 \/ b = 0 PROVE a * b = 0
          OBVIOUS
        <4> QED OBVIOUS
      <3> HIDE DEF q, p
      <3> QED BY <1>1, <3>1
    <2>2. \A u \in Symbols : AmountAt(u, t) = 0
      BY <1>5, <1>6, <2>1
    <2>3. DOMAIN v = Symbols /\ \A u \in Symbols : v[u] = Zero
      BY <2>2 DEF Zero
    <2>4. AsOf(t).value = Sum(v)
      BY OnDayParts
    <2> HIDE DEF v
    <2>5. AsOf(t).value = Zero
      BY <2>3, <2>4, SumIsTotal, TotalOfZeros, PortfolioAssumption
    <2> QED BY <2>5 DEF OneAsset, AtMarket
  <1>8. SumFunction(w) = q * p
    <2> DEFINE rest == Symbols \ {s}
    <2>1. IsFiniteSet(rest) /\ \A u \in rest : w[u] = 0
      <3>1. rest \subseteq Symbols
        OBVIOUS
      <3>2. IsFiniteSet(rest)
        <4> HIDE DEF rest
        <4> QED BY <3>1, FS_Subset, PortfolioAssumption
      <3> QED BY <1>6, <3>2
    <2>2. DOMAIN w = rest \cup {s} /\ s \notin rest
      BY <1>0 DEF ValueOn
    <2>3. q * p \in Int
      BY <1>1, <1>4
    <2> HIDE DEF rest, w, q, p
    <2>4. SumFunctionOnSet(w, rest) = 0
      BY <2>1, ZeroSum
    <2>5. SumFunctionOnSet(w, rest \cup {s}) = SumFunctionOnSet(w, rest) + w[s]
      <3>1. w[s] \in Int /\ \A u \in rest : w[u] \in Int
        BY <1>5, <2>1, <2>3
      <3> QED BY <2>1, <2>2, <3>1, SumWith
    <2>6. SumFunction(w) = 0 + q * p
      BY <1>5, <2>2, <2>4, <2>5, SumOfFunction
    <2> QED BY <2>3, <2>6
  <1> QED BY <1>1, <1>7, <1>8 DEF SeriesPoint

-----------------------------------------------------------------------------
(***************************************************************************)
(* The flows.                                                              *)
(***************************************************************************)
RowsOn(from, d) == {j \in InWindow(from) : trades[j].at = d}

FlowDay(from, d) == SumFunction([i \in RowsOn(from, d) |-> Flow(i)])

LEMMA FlowsParts ==
  \A from : /\ Flows(from) = [d \in {trades[i].at : i \in InWindow(from)} |-> FlowDay(from, d)]
            /\ DOMAIN Flows(from) = {trades[i].at : i \in InWindow(from)}
  BY DEF Flows, FlowDay, RowsOn

LEMMA RowsFinite == IInv => IsFiniteSet(DOMAIN trades) /\ \A i \in DOMAIN trades : trades[i] \in TradeRow
  <1> SUFFICES ASSUME IInv PROVE IsFiniteSet(DOMAIN trades) /\ \A i \in DOMAIN trades : trades[i] \in TradeRow
    OBVIOUS
  <1>1. trades \in Seq(TradeRow)
    BY DEF IInv, Typed
  <1>2. DOMAIN trades = 1 .. Len(trades) /\ Len(trades) \in Nat
    BY <1>1
  <1> QED BY <1>1, <1>2, FS_Interval, ElementOfSeq

LEMMA MarketFlow ==
  ASSUME IInv, NEW from, NEW s, OneAsset(from, s), NEW i \in DOMAIN trades
  PROVE  /\ SignedRows[i] \in Int /\ LatestAt(points[s], trades[i].at) \in Nat
         /\ Flow(i) = (-LatestAt(points[s], trades[i].at)) * SignedRows[i] /\ Flow(i) \in Int
  <1> DEFINE x == trades[i]
             p == LatestAt(points[s], x.at)
             k == Signed(x)
  <1>1. x \in TradeRow /\ x.sym = s /\ x.price = p /\ Currency[s] = Home /\ s \in Symbols
    BY RowsFinite DEF OneAsset, AtMarket
  <1>2. p \in Nat
    BY <1>1, AmountTyped
  <1>3. k \in Int
    BY <1>1 DEF TradeRow, Signed
  <1>4. RateAtHour(Currency[x.sym], x.at) = 1
    BY <1>1, HomeRate
  <1>5. Flow(i) = -(k * x.price * 1)
    BY <1>4 DEF Flow
  <1>6. SignedRows[i] = k
    BY DEF SignedRows
  <1> HIDE DEF x, p, k
  <1>7. Flow(i) = -(k * p * 1)
    BY <1>1, <1>5
  <1>8. \A a \in Int, b \in Nat : -(a * b * 1) = (-b) * a /\ (-b) * a \in Int
    OBVIOUS
  <1> QED BY <1>2, <1>3, <1>6, <1>7, <1>8 DEF x, p, k

\* What flows on a day is what was bought and sold then, at its price.
LEMMA DayFlow ==
  ASSUME IInv, NEW from, NEW s, OneAsset(from, s), NEW d \in Int
  PROVE  LET sold == SumFunctionOnSet(SignedRows, RowsOn(from, d))
         IN  sold \in Int /\ FlowDay(from, d) = (-LatestAt(points[s], d)) * sold /\ FlowDay(from, d) \in Int
  <1> DEFINE R == RowsOn(from, d)
             f == [i \in R |-> Flow(i)]
             p == LatestAt(points[s], d)
             k == -p
  <1>1. R \subseteq DOMAIN trades /\ \A i \in R : trades[i].at = d
    BY DEF RowsOn, InWindow
  <1> HIDE DEF R
  <1>2. IsFiniteSet(R)
    BY <1>1, RowsFinite, FS_Subset
  <1>3. \A i \in R : SignedRows[i] \in Int /\ f[i] = k * SignedRows[i]
    BY <1>1, MarketFlow
  <1>4. p \in Nat /\ k \in Int
    BY AmountTyped DEF OneAsset
  <1>5. DOMAIN f = R
    OBVIOUS
  <1> HIDE DEF f, k
  <1>6. SumFunctionOnSet(f, R) = k * SumFunctionOnSet(SignedRows, R) /\ SumFunctionOnSet(SignedRows, R) \in Int
    BY <1>2, <1>3, <1>4, SumScaled, SumOnSet
  <1>7. \A a, b \in Int : a * b \in Int
    OBVIOUS
  <1>8. SumFunctionOnSet(f, R) \in Int
    BY <1>4, <1>6, <1>7
  <1> QED BY <1>5, <1>6, <1>8, SumOfFunction DEF f, k, R, FlowDay

RowsBetween(a, b) == {i \in DOMAIN trades : a < trades[i].at /\ trades[i].at <= b}

NetOf(S) == SumFunctionOnSet(SignedRows, S)

LEMMA NetParts ==
  ASSUME IInv, NEW S \in SUBSET DOMAIN trades, NEW T \in SUBSET DOMAIN trades
  PROVE  /\ IsFiniteSet(S) /\ NetOf(S) \in Int /\ NetOf({}) = 0
         /\ S \cap T = {} => NetOf(S \cup T) = NetOf(S) + NetOf(T)
  <1>1. IsFiniteSet(S) /\ IsFiniteSet(T)
    BY RowsFinite, FS_Subset
  <1>2. \A i \in DOMAIN trades : SignedRows[i] \in Int
    <2> SUFFICES ASSUME NEW i \in DOMAIN trades PROVE Signed(trades[i]) \in Int
      BY DEF SignedRows
    <2> QED BY RowsFinite DEF TradeRow, Signed
  <1>3. NetOf(S) \in Int /\ NetOf({}) = 0
    BY <1>1, <1>2, SumOnSet DEF NetOf
  <1>4. S \cap T = {} => NetOf(S \cup T) = NetOf(S) + NetOf(T)
    BY <1>1, <1>2, SumSplit DEF NetOf
  <1> QED BY <1>1, <1>3, <1>4

\* What was bought and sold between two days is what is held more.
LEMMA HeldBetween ==
  ASSUME IInv, NEW from, NEW s, OneAsset(from, s),
         NEW a \in from .. clock, NEW b \in from .. clock, a <= b
  PROVE  HeldAt(s, b).qty = HeldAt(s, a).qty + NetOf(RowsBetween(a, b))
  <1> DEFINE A == RowsUpTo(a, s)
             B == RowsUpTo(b, s)
             C == RowsBetween(a, b)
  <1>0. from \in Int /\ a \in Int /\ b \in Int /\ s \in Symbols /\ \A i \in DOMAIN trades : trades[i].sym = s
    BY TablesOf DEF OneAsset, AtMarket
  <1>1. \A t \in from .. clock : HeldAt(s, t).qty > 0
    BY MarketDay
  <1>2. \A t \in from .. clock :
            /\ HeldAt(s, t).qty \in Nat /\ NetAt(t, s) \in Int
            /\ HeldAt(s, t).qty - NetAt(t, s) = HeldAt(s, from).qty - NetAt(from, s)
    BY <1>0, <1>1, NoExcess
  <1>3. from \in from .. clock
    BY <1>0, TablesOf
  <1>4. \A i \in DOMAIN trades : trades[i].at \in Int
    BY RowsFinite DEF TradeRow
  <1>5. A \in SUBSET DOMAIN trades /\ C \in SUBSET DOMAIN trades /\ A \cap C = {} /\ B = A \cup C
    BY <1>0, <1>4 DEF RowsUpTo, RowsBetween
  <1> HIDE DEF A, B, C
  <1>6. NetOf(B) = NetOf(A) + NetOf(C) /\ NetOf(C) \in Int
    BY <1>5, NetParts
  <1>7. NetAt(a, s) = NetOf(A) /\ NetAt(b, s) = NetOf(B)
    BY DEF NetAt, NetOf, A, B
  <1>8. HeldAt(s, b).qty - NetAt(b, s) = HeldAt(s, a).qty - NetAt(a, s)
    BY <1>2
  <1>9. HeldAt(s, b).qty \in Nat /\ HeldAt(s, a).qty \in Nat /\ NetAt(a, s) \in Int /\ NetAt(b, s) \in Int
    BY <1>2
  <1> QED BY <1>6, <1>7, <1>8, <1>9 DEF C

\* The days get_performance values.
LEMMA FlowDaysFacts ==
  ASSUME IInv, NEW from \in Int, from <= clock
  PROVE  LET c == FlowDays(from)
         IN  /\ DaysFrom(c, from) /\ c \in Seq(Int) /\ Len(c) \in Nat /\ Len(c) > 0
             /\ c[1] = from /\ c[Len(c)] = clock
             /\ \A k \in 1 .. Len(c) : c[k] \in from .. clock
             /\ \A k \in 1 .. Len(c) : k > 1 =>
                   /\ c[k - 1] \in from .. clock /\ c[k - 1] < c[k]
                   /\ \A d \in DOMAIN Flows(from) : ~(c[k - 1] < d /\ d < c[k])
  <1> DEFINE D == DOMAIN Flows(from)
             S == D \cup {from, clock}
             c == FlowDays(from)
  <1>1. clock \in Int /\ IsFiniteSet(D) /\ \A d \in D : d \in from .. clock
    <2>1. clock \in Int
      BY TablesOf
    <2>2. InWindow(from) \subseteq DOMAIN trades
      BY DEF InWindow
    <2>3. IsFiniteSet(InWindow(from))
      BY <2>2, RowsFinite, FS_Subset
    <2> DEFINE f == [i \in InWindow(from) |-> trades[i].at]
    <2>4. f \in Surjection(InWindow(from), {trades[i].at : i \in InWindow(from)})
      BY DEF Surjection
    <2> HIDE DEF f
    <2>5. IsFiniteSet({trades[i].at : i \in InWindow(from)})
      BY <2>3, <2>4, FS_Surjection
    <2>6. \A i \in InWindow(from) : trades[i].at \in from .. clock
      <3> SUFFICES ASSUME NEW i \in InWindow(from) PROVE trades[i].at \in from .. clock
        OBVIOUS
      <3>1. trades[i].at \in Int
        BY <2>2, RowsFinite DEF TradeRow
      <3> QED BY <2>1, <3>1 DEF InWindow
    <2>7. D = {trades[i].at : i \in InWindow(from)}
      BY FlowsParts
    <2> HIDE DEF D
    <2> QED BY <2>1, <2>5, <2>6, <2>7
  <1> HIDE DEF D
  <1>2. S \subseteq Int /\ IsFiniteSet(S) /\ from \in S /\ clock \in S /\ \A d \in S : from <= d /\ d <= clock
    <2>1. IsFiniteSet({from, clock})
      <3>1. IsFiniteSet({from} \cup {clock})
        BY FS_Singleton, FS_Union
      <3> QED BY <3>1
    <2>2. IsFiniteSet(S)
      BY <1>1, <2>1, FS_Union
    <2> QED BY <1>1, <2>2
  <1>3. c = Ascending(S)
    BY DEF FlowDays, D
  <1> HIDE DEF c, S
  <1>4. IsAscending(c, S)
    BY <1>2, <1>3, AscendingOrder
  <1>5. /\ c \in Seq(S) /\ DOMAIN c = 1 .. Len(c) /\ Len(c) \in Nat /\ \A k \in 1 .. Len(c) : c[k] \in S
        /\ \A p, q \in 1 .. Len(c) : p < q => c[p] < c[q]
        /\ \A d \in S : \E p \in 1 .. Len(c) : c[p] = d
    <2>1. c \in Seq(S)
      BY <1>4 DEF IsAscending
    <2>2. DOMAIN c = 1 .. Len(c) /\ Len(c) \in Nat
      BY <2>1
    <2> QED BY <1>4, <2>1, <2>2, ElementOfSeq DEF IsAscending
  <1> DEFINE N == Len(c)
  <1>6. N > 0
    BY <1>2, <1>5
  <1> HIDE DEF N
  <1>7. c[1] = from /\ c[N] = clock
    <2>1. PICK p \in 1 .. N : c[p] = from
      BY <1>2, <1>5 DEF N
    <2>2. PICK q \in 1 .. N : c[q] = clock
      BY <1>2, <1>5 DEF N
    <2>3. 1 \in 1 .. N /\ N \in 1 .. N /\ N \in Nat
      BY <1>5, <1>6 DEF N
    <2>4. c[1] \in Int /\ c[N] \in Int /\ from <= c[1] /\ c[N] <= clock
      BY <1>2, <1>5, <2>3 DEF N
    <2>5. ~(1 < p)
      BY <1>5, <2>1, <2>3, <2>4 DEF N
    <2>6. ~(q < N)
      BY <1>1, <1>5, <2>2, <2>3, <2>4 DEF N
    <2>7. p = 1 /\ q = N
      BY <2>3, <2>5, <2>6
    <2> QED BY <2>1, <2>2, <2>7
  <1>8. \A k \in 1 .. N : c[k] \in from .. clock /\ c[k] \in Int
    <2> SUFFICES ASSUME NEW k \in 1 .. N PROVE c[k] \in from .. clock /\ c[k] \in Int
      OBVIOUS
    <2>1. c[k] \in S
      BY <1>5 DEF N
    <2>2. c[k] \in Int /\ from <= c[k] /\ c[k] <= clock
      BY <1>2, <2>1
    <2> QED BY <1>1, <2>2
  <1>9. c \in Seq(Int)
    <2>1. c = [k \in 1 .. N |-> c[k]] /\ N \in Nat
      BY <1>5 DEF N
    <2> QED BY <1>8, <2>1
  <1>10. DaysFrom(c, from)
    <2>1. \A k \in 1 .. N : c[k] >= from
      BY <1>8
    <2>2. \A k, n \in 1 .. N : k <= n => c[k] <= c[n]
      <3> SUFFICES ASSUME NEW k \in 1 .. N, NEW n \in 1 .. N, k <= n PROVE c[k] <= c[n]
        OBVIOUS
      <3>1. CASE k = n
        BY <1>8, <3>1
      <3>2. CASE k # n
        <4>1. k < n
          BY <3>2
        <4> QED BY <1>5, <1>8, <4>1 DEF N
      <3> QED BY <3>1, <3>2
    <2> QED BY <1>5, <1>9, <2>1, <2>2 DEF DaysFrom, N
  <1>11. ASSUME NEW k \in 1 .. N, k > 1
         PROVE  /\ c[k - 1] \in from .. clock /\ c[k - 1] < c[k]
                /\ \A d \in D : ~(c[k - 1] < d /\ d < c[k])
    <2>1. k - 1 \in 1 .. N /\ k - 1 < k
      BY <1>5, <1>11 DEF N
    <2>2. c[k - 1] < c[k]
      BY <1>5, <2>1 DEF N
    <2>3. ASSUME NEW d \in D, c[k - 1] < d, d < c[k] PROVE FALSE
      <3>1. PICK p \in 1 .. N : c[p] = d
        BY <1>5 DEF N, S
      <3>2. c[k - 1] \in Int /\ c[k] \in Int /\ c[p] \in Int
        BY <1>8, <2>1
      <3>3. ~(p < k - 1) /\ p # k - 1 /\ ~(k < p) /\ p # k
        BY <1>5, <2>1, <2>3, <3>1, <3>2 DEF N
      <3> QED BY <2>1, <3>3
    <2> QED BY <1>8, <2>1, <2>2, <2>3
  <1> QED BY <1>5, <1>6, <1>7, <1>8, <1>9, <1>10, <1>11 DEF N, c, D

\* A price that never moved is the same on every day it is known.
LEMMA FlatPrice ==
  ASSUME IInv, NEW from, NEW s, OneAsset(from, s), FlatPrices, NEW t \in from .. clock
  PROVE  LatestAt(points[s], t) = LatestAt(points[s], from)
  <1> DEFINE T == points[s]
             past(d) == {e \in DOMAIN T : e <= d}
  <1>1. s \in Symbols /\ from \in Int /\ t \in Int /\ from <= t /\ clock \in Nat
        /\ DOMAIN T \subseteq 1 .. clock
    BY TablesOf DEF OneAsset
  <1>2. LatestAt(T, from) # Missing
    BY DEF OneAsset, AtMarket
  <1>3. ASSUME NEW d \in Int, past(d) # {} PROVE LatestAt(T, d) = T[Max(past(d))] /\ Max(past(d)) \in DOMAIN T
    <2>1. past(d) \in SUBSET (1 .. clock)
      BY <1>1
    <2>2. Max(past(d)) \in past(d)
      <3> HIDE DEF past, T
      <3> QED BY <1>1, <1>3, <2>1, LargestMember
    <2> QED BY <1>3, <2>2 DEF LatestAt
  <1>4. past(from) # {}
    BY <1>2 DEF LatestAt
  <1>5. past(t) # {}
    <2>1. PICK e \in past(from) : TRUE
      BY <1>4
    <2>2. e \in Int /\ e \in DOMAIN T
      BY <1>1
    <2>3. e \in past(t)
      BY <1>1, <2>2
    <2> QED BY <2>3
  <1>6. \A d, e \in DOMAIN T : T[d] = T[e]
    BY <1>1 DEF FlatPrices
  <1>7. LatestAt(T, t) = T[Max(past(t))] /\ Max(past(t)) \in DOMAIN T
    BY <1>1, <1>3, <1>5
  <1>8. LatestAt(T, from) = T[Max(past(from))] /\ Max(past(from)) \in DOMAIN T
    BY <1>1, <1>3, <1>4
  <1> QED BY <1>6, <1>7, <1>8

\* The first and the last value of the series over the flow days.
LEMMA MarketEnds ==
  ASSUME IInv, NEW from, NEW s, OneAsset(from, s)
  PROVE  LET series == Series(FlowDays(from), from)
         IN  /\ Len(series) = Len(FlowDays(from)) /\ Len(series) \in Nat /\ Len(series) > 0
             /\ \A k \in 1 .. Len(series) : series[k] = SeriesPoint(FlowDays(from)[k])
             /\ series[1] = SeriesPoint(from) /\ series[Len(series)] = SeriesPoint(clock)
  <1> DEFINE c == FlowDays(from)
             series == Series(c, from)
  <1>1. from \in Int /\ from <= clock
    BY DEF OneAsset
  <1>2. DaysFrom(c, from) /\ Len(c) \in Nat /\ Len(c) > 0 /\ c[1] = from /\ c[Len(c)] = clock
    BY <1>1, FlowDaysFacts
  <1> HIDE DEF c
  <1>3. Len(series) = Len(c) /\ \A k \in 1 .. Len(c) : series[k] = SeriesPoint(c[k])
    BY <1>1, <1>2, SeriesIsPointwise
  <1>4. 1 \in 1 .. Len(c) /\ Len(c) \in 1 .. Len(c)
    BY <1>2
  <1> HIDE DEF series
  <1> QED BY <1>2, <1>3, <1>4 DEF c, series

\* All the flows of the window together.
LEMMA FlowsTogether ==
  ASSUME IInv, NEW from, NEW s, OneAsset(from, s), FlatPrices
  PROVE  SumFunction(Flows(from)) = (-LatestAt(points[s], from)) * NetOf(InWindow(from))
  <1> DEFINE W == InWindow(from)
             F == [i \in W |-> Flow(i)]
             at == [i \in W |-> trades[i].at]
             m == Flows(from)
             p == LatestAt(points[s], from)
             k == -p
  <1>1. W \subseteq DOMAIN trades /\ \A i \in W : trades[i].at \in from .. clock
    <2> SUFFICES ASSUME NEW i \in W PROVE i \in DOMAIN trades /\ trades[i].at \in from .. clock
      OBVIOUS
    <2>1. i \in DOMAIN trades /\ from <= trades[i].at /\ trades[i].at <= clock
      BY DEF InWindow
    <2>2. trades[i].at \in Int /\ from \in Int /\ clock \in Int
      BY <2>1, RowsFinite, TablesOf DEF TradeRow, OneAsset
    <2> QED BY <2>1, <2>2
  <1>2. IsFiniteSet(W)
    BY <1>1, RowsFinite, FS_Subset
  <1>3. p \in Nat /\ k \in Int
    BY AmountTyped DEF OneAsset
  <1>4. \A i \in W : SignedRows[i] \in Int /\ F[i] = k * SignedRows[i] /\ F[i] \in Int
    <2> SUFFICES ASSUME NEW i \in W PROVE SignedRows[i] \in Int /\ F[i] = k * SignedRows[i] /\ F[i] \in Int
      OBVIOUS
    <2>1. i \in DOMAIN trades /\ trades[i].at \in from .. clock
      BY <1>1
    <2>2. LatestAt(points[s], trades[i].at) = p
      BY <2>1, FlatPrice
    <2> QED BY <2>1, <2>2, MarketFlow
  <1>5. DOMAIN m = {at[i] : i \in W}
    BY FlowsParts
  <1>6. ASSUME NEW b \in DOMAIN m PROVE m[b] = SumFunctionOnSet(F, {i \in W : at[i] = b})
    <2> DEFINE R == RowsOn(from, b)
               g == [i \in R |-> Flow(i)]
    <2>1. R = {i \in W : at[i] = b} /\ R \subseteq W
      BY DEF RowsOn
    <2>2. m[b] = SumFunctionOnSet(g, R)
      <3>1. m[b] = FlowDay(from, b)
        BY <1>6, FlowsParts
      <3>2. FlowDay(from, b) = SumFunction(g) /\ DOMAIN g = R
        BY DEF FlowDay
      <3> HIDE DEF g, R, m
      <3> QED BY <3>1, <3>2, SumOfFunction
    <2>3. \A i \in R : F[i] = g[i] /\ F[i] \in Int
      BY <1>4, <2>1
    <2>4. IsFiniteSet(R)
      BY <1>2, <2>1, FS_Subset
    <2> HIDE DEF R, g, F, m, W, at
    <2>5. SumFunctionOnSet(F, R) = SumFunctionOnSet(g, R)
      BY <2>3, <2>4, SumOnSet
    <2> QED BY <2>1, <2>2, <2>5
  <1> HIDE DEF W, F, at, m, k, p
  <1>7. Classes(W, F, m, at, DOMAIN m)
    BY <1>2, <1>4, <1>5, <1>6 DEF Classes
  <1>8. SumFunctionOnSet(m, DOMAIN m) = SumFunctionOnSet(F, W)
    BY <1>7, SumByClass
  <1>9. SumFunctionOnSet(F, W) = k * SumFunctionOnSet(SignedRows, W)
    BY <1>2, <1>3, <1>4, SumScaled
  <1> QED BY <1>8, <1>9, SumOfFunction DEF NetOf, W, m, k, p

LEMMA WindowParts ==
  ASSUME IInv, NEW from \in Int, from <= clock
  PROVE  LET O == RowsOn(from, from)
             B == RowsBetween(from, clock)
         IN  /\ O \in SUBSET DOMAIN trades /\ B \in SUBSET DOMAIN trades
             /\ O \cap B = {} /\ InWindow(from) = O \cup B
             /\ from \notin DOMAIN Flows(from) => O = {}
  <1>1. clock \in Int /\ \A i \in DOMAIN trades : trades[i].at \in Int
    BY TablesOf, RowsFinite DEF TradeRow
  <1>2. RowsOn(from, from) = {i \in DOMAIN trades : trades[i].at = from}
    BY <1>1 DEF RowsOn, InWindow
  <1>3. InWindow(from) = RowsOn(from, from) \cup RowsBetween(from, clock)
    BY <1>1, <1>2 DEF RowsBetween, InWindow
  <1>4. RowsOn(from, from) \cap RowsBetween(from, clock) = {}
    BY <1>1, <1>2 DEF RowsBetween
  <1>5. from \notin DOMAIN Flows(from) => RowsOn(from, from) = {}
    BY FlowsParts DEF RowsOn
  <1> QED BY <1>2, <1>3, <1>4, <1>5 DEF RowsBetween

LEMMA BalanceOf ==
  ASSUME NEW p \in Int, NEW a \in Int, NEW n \in Int, NEW k \in Int
  PROVE  -(a * p) + (a + n) * p + (-p) * (k + n) = (-p) * k
  <1>1. (a + n) * p = a * p + n * p /\ (-p) * (k + n) = (-p) * k + (-p) * n /\ (-p) * n = -(n * p)
    OBVIOUS
  <1>2. a * p \in Int /\ n * p \in Int /\ (-p) * k \in Int
    OBVIOUS
  <1> QED BY <1>1, <1>2

LEMMA MwrAt ==
  ASSUME IInv, NEW from, NEW s, OneAsset(from, s), FlatPrices
  PROVE  LET m == MwrFlows(from)
         IN  m.open + m.close + SumFunction(m.flows)
                = IF from \in DOMAIN m.flows THEN m.flows[from] ELSE 0
  <1> DEFINE series == Series(FlowDays(from), from)
             p == LatestAt(points[s], from)
             a == HeldAt(s, from).qty
             z == HeldAt(s, clock).qty
             O == RowsOn(from, from)
             B == RowsBetween(from, clock)
             m == MwrFlows(from)
  <1>1. from \in Int /\ clock \in Int /\ from <= clock /\ from \in from .. clock /\ clock \in from .. clock
    BY TablesOf DEF OneAsset
  <1>2. a \in Nat /\ p \in Nat /\ a > 0 /\ p > 0 /\ SeriesPoint(from).value = a * p
    BY <1>1, MarketDay
  <1>3. z \in Nat /\ SeriesPoint(clock).value = z * p
    BY <1>1, MarketDay, FlatPrice
  <1>4. series[1] = SeriesPoint(from) /\ series[Len(series)] = SeriesPoint(clock)
    BY MarketEnds
  <1>5. m.flows = Flows(from) /\ m.close = series[Len(series)].value
        /\ m.open = -(IF series[1].value > 0 THEN series[1].value ELSE 0)
    BY DEF MwrFlows
  <1>6. a * p > 0 /\ a * p \in Nat
    <2>1. \A x, y \in Nat : x > 0 /\ y > 0 => x * y > 0 /\ x * y \in Nat
      OBVIOUS
    <2> HIDE DEF a, p
    <2> QED BY <1>2, <2>1
  <1> HIDE DEF series, m
  <1>7. m.open = -(a * p) /\ m.close = z * p
    <2> HIDE DEF a, p, z
    <2> QED BY <1>2, <1>3, <1>4, <1>5, <1>6
  <1>8. z = a + NetOf(B)
    BY <1>1, HeldBetween
  <1>9. /\ O \in SUBSET DOMAIN trades /\ B \in SUBSET DOMAIN trades
        /\ O \cap B = {} /\ InWindow(from) = O \cup B
        /\ from \notin DOMAIN Flows(from) => O = {}
    BY <1>1, WindowParts
  <1>10. NetOf(O) \in Int /\ NetOf(B) \in Int /\ NetOf({}) = 0 /\ NetOf(O \cup B) = NetOf(O) + NetOf(B)
    BY <1>9, NetParts
  <1>11. SumFunction(Flows(from)) = (-p) * (NetOf(O) + NetOf(B))
    BY <1>9, <1>10, FlowsTogether
  <1>12. (IF from \in DOMAIN Flows(from) THEN Flows(from)[from] ELSE 0) = (-p) * NetOf(O)
    <2>1. ASSUME from \in DOMAIN Flows(from) PROVE Flows(from)[from] = (-p) * NetOf(O)
      <3>1. Flows(from)[from] = FlowDay(from, from)
        BY <2>1, FlowsParts
      <3> QED BY <1>1, <3>1, DayFlow DEF NetOf
    <2>2. ASSUME from \notin DOMAIN Flows(from) PROVE (-p) * NetOf(O) = 0
      <3>1. NetOf(O) = 0
        BY <1>9, <1>10, <2>2
      <3> HIDE DEF p
      <3> QED BY <1>2, <3>1
    <2> HIDE DEF p, O
    <2> QED BY <2>1, <2>2
  <1>13. -(a * p) + (a + NetOf(B)) * p + (-p) * (NetOf(O) + NetOf(B)) = (-p) * NetOf(O)
    <2> HIDE DEF a, p, O, B
    <2> QED BY <1>2, <1>10, BalanceOf
  <1> HIDE DEF a, p, O, B, z
  <1>14. m.open + m.close + SumFunction(m.flows) = (-p) * NetOf(O)
    BY <1>5, <1>7, <1>8, <1>11, <1>13
  <1>15. m.open + m.close + SumFunction(m.flows)
                = IF from \in DOMAIN m.flows THEN m.flows[from] ELSE 0
    BY <1>5, <1>12, <1>14
  <1> QED BY <1>15 DEF m

LEMMA MwrOf == IInv => MwrBalances
  <1> SUFFICES ASSUME IInv, NEW p \in Periods, NEW s \in {t \in Symbols : Currency[t] = Home},
                      trades # << >>, FlatPrices, AtMarket(Start(p), s)
               PROVE  LET m == MwrFlows(Start(p))
                      IN  m.open + m.close + SumFunction(m.flows)
                             = IF Start(p) \in DOMAIN m.flows THEN m.flows[Start(p)] ELSE 0
    BY DEF MwrBalances
  <1>1. OneAsset(Start(p), s)
    BY StartFacts DEF OneAsset
  <1> QED BY <1>1, MwrAt

(***************************************************************************)
(* With prices that never moved, the opening value, the flows and the      *)
(* closing value of the money-weighted return add up to what was traded at *)
(* the opening of the window, which is among both, and to nothing else.    *)
(***************************************************************************)
THEOREM MwrIsBalanced == Spec => []MwrBalances
  BY MwrOf, Invariance, PTL

-----------------------------------------------------------------------------
(***************************************************************************)
(* The time-weighted chain, day by day.                                    *)
(***************************************************************************)
FlowIn(flows, d) == IF d \in DOMAIN flows THEN flows[d] ELSE 0

TwrWalk(flows, base, vs) ==
    FoldLeft(LAMBDA acc, v : TwrStep(acc, v.at, v.value, FlowIn(flows, v.at)), base, vs)

IsTwrWalk(h, flows, base, d) ==
    h = [w \in SUBSET DOMAIN d |->
            IF w = {} THEN base
            ELSE TwrStep(h[w \ {Max(w)}], d[Max(w)].at, d[Max(w)].value, FlowIn(flows, d[Max(w)].at))]

ChainState == [open : Nat, growth : Fractions] \cup {None}

LEMMA TwrWalkIsWalk ==
  \A flows, base, d : TwrWalk(flows, base, d) = (CHOOSE h : IsTwrWalk(h, flows, base, d))[DOMAIN d]
  BY DEF TwrWalk, FoldLeft, MapThenFoldSet, IsTwrWalk

LEMMA ChainIsSome == \A x \in [open : Nat, growth : Fractions] : x # None
  <1> SUFFICES ASSUME NEW x \in [open : Nat, growth : Fractions], x = None PROVE FALSE
    OBVIOUS
  <1>1. "open" \in DOMAIN x
    OBVIOUS
  <1>2. DOMAIN None = 1 .. 0
    BY DEF None
  <1>3. DOMAIN None = {}
    BY <1>2
  <1> QED BY <1>1, <1>3

LEMMA TwrStepType ==
  ASSUME NEW acc \in ChainState, NEW d, NEW value \in Nat, NEW flow \in Int
  PROVE  TwrStep(acc, d, value, flow) \in ChainState
  <1>1. CASE acc = None \/ acc.open <= 0
    BY <1>1 DEF TwrStep, ChainState
  <1>2. CASE ~(acc = None \/ acc.open <= 0)
    <2>1. acc.open \in Denominators /\ acc.growth \in Fractions
      BY <1>2 DEF ChainState, Denominators
    <2>2. value + flow \in Int
      OBVIOUS
    <2>3. Over(value + flow, acc.open) \in Fractions
      BY <2>1, <2>2, OverType
    <2>4. Times(acc.growth, Over(value + flow, acc.open)) \in Fractions
      BY <2>1, <2>3, TimesLaws
    <2>5. TwrStep(acc, d, value, flow) =
             [open |-> value, growth |-> Times(acc.growth, Over(value + flow, acc.open))]
      BY <1>2 DEF TwrStep
    <2> QED BY <2>4, <2>5 DEF ChainState
  <1> QED BY <1>1, <1>2

LEMMA TwrUnfold ==
  ASSUME NEW base \in ChainState, NEW flows, \A d \in DOMAIN flows : flows[d] \in Int
  PROVE  LET walk(d) == TwrWalk(flows, base, d)
         IN  /\ walk(<< >>) = base
             /\ \A d \in Seq(SeriesRow) : walk(d) \in ChainState
             /\ \A d \in Seq(SeriesRow), v \in SeriesRow :
                   walk(Append(d, v)) = TwrStep(walk(d), v.at, v.value, FlowIn(flows, v.at))
  <1> DEFINE V == ChainState
             X == SeriesRow
             step(acc, v) == TwrStep(acc, v.at, v.value, FlowIn(flows, v.at))
             G == [p \in V \X X |-> step(p[1], p[2])]
  <1>1. \A acc \in V, v \in X : step(acc, v) \in V /\ G[<<acc, v>>] = step(acc, v)
    <2> SUFFICES ASSUME NEW acc \in V, NEW v \in X PROVE step(acc, v) \in V
      OBVIOUS
    <2>1. v.value \in Nat /\ FlowIn(flows, v.at) \in Int
      BY DEF SeriesRow, FlowIn
    <2> QED BY <2>1, TwrStepType
  <1>2. G \in [V \X X -> V]
    BY <1>1
  <1>3. base \in V
    OBVIOUS
  <1> HIDE DEF G, V, X
  <1>4. PICK f : FoldsBy(f, G, base, X, V)
    BY <1>2, <1>3, SequenceFold
  <1>5. ASSUME NEW d \in Seq(X) PROVE TwrWalk(flows, base, d) = f[d]
    <2> DEFINE S == DOMAIN d
               c == [w \in SUBSET S |-> Max(w)]
               k == CHOOSE h : IsTwrWalk(h, flows, base, d)
    <2>1. IsFiniteSet(S) /\ \A w \in SUBSET S : w # {} => Max(w) \in w /\ c[w] = Max(w)
      BY LargestPlace
    <2>2. PICK h \in [SUBSET S -> V] : IsSeqFold(h, d, G, base) /\ h[S] = f[d]
      BY <1>4 DEF FoldsBy
    <2>3. \A p \in S : d[p] \in X
      BY ElementOfSeq
    <2>4. ASSUME NEW w \in SUBSET S
          PROVE  h[w] = IF w = {} THEN base ELSE step(h[w \ {Max(w)}], d[Max(w)])
      <3>1. h[w] = IF w = {} THEN base ELSE G[<<h[w \ {Max(w)}], d[Max(w)]>>]
        BY <2>2 DEF IsSeqFold
      <3>2. w # {} => h[w \ {Max(w)}] \in V /\ d[Max(w)] \in X
        BY <2>1, <2>3
      <3> QED BY <1>1, <3>1, <3>2
    <2>5. IsTwrWalk(h, flows, base, d)
      <3>1. h = [w \in SUBSET S |-> h[w]]
        OBVIOUS
      <3> QED BY <2>4, <3>1 DEF IsTwrWalk
    <2> HIDE DEF k
    <2>6. IsTwrWalk(k, flows, base, d)
      BY <2>5 DEF k
    <2>7. AgreeByStep(h, k, S, c)
      <3>1. \A w \in SUBSET S : k[w] = IF w = {} THEN base ELSE step(k[w \ {Max(w)}], d[Max(w)])
        BY <2>6 DEF IsTwrWalk
      <3> HIDE DEF step, c, S
      <3>2. {} \in SUBSET S
        OBVIOUS
      <3>3. h[{}] = k[{}]
        BY <2>4, <3>1, <3>2
      <3>4. ASSUME NEW w \in SUBSET S, w # {}, h[w \ {c[w]}] = k[w \ {c[w]}] PROVE h[w] = k[w]
        <4>1. h[w \ {Max(w)}] = k[w \ {Max(w)}]
          BY <2>1, <3>4
        <4>2. h[w] = step(h[w \ {Max(w)}], d[Max(w)])
          BY <2>4, <3>4
        <4> QED BY <3>1, <3>4, <4>1, <4>2
      <3> QED BY <2>1, <3>3, <3>4 DEF AgreeByStep
    <2>8. h[S] = k[S]
      <3> HIDE DEF S, c
      <3> QED BY <2>1, <2>7, SameFold
    <2> QED BY <2>2, <2>8, TwrWalkIsWalk DEF k
  <1>6. << >> \in Seq(X) /\ \A s \in Seq(X), x \in X : Append(s, x) \in Seq(X)
    OBVIOUS
  <1>7. /\ f[<< >>] = base
        /\ \A s \in Seq(X) : f[s] \in V
        /\ \A s \in Seq(X), x \in X : f[Append(s, x)] = step(f[s], x)
    <2>1. f[<< >>] = base /\ f \in [Seq(X) -> V]
      BY <1>4 DEF FoldsBy
    <2>2. \A s \in Seq(X), x \in X : f[Append(s, x)] = G[<<f[s], x>>]
      BY <1>4 DEF FoldsBy
    <2> QED BY <1>1, <2>1, <2>2
  <1> QED BY <1>5, <1>6, <1>7 DEF V, X

\* Between two flow days nothing is traded, so what is held more on the later
\* one was traded on it, and taking the flow out leaves the price alone.
LEMMA FlowTakenOut ==
  ASSUME IInv, NEW from, NEW s, OneAsset(from, s),
         NEW a \in from .. clock, NEW b \in from .. clock, a < b,
         \A d \in DOMAIN Flows(from) : ~(a < d /\ d < b)
  PROVE  /\ FlowIn(Flows(from), b) \in Int
         /\ SeriesPoint(b).value + FlowIn(Flows(from), b) = HeldAt(s, a).qty * LatestAt(points[s], b)
  <1> DEFINE q == HeldAt(s, a).qty
             z == HeldAt(s, b).qty
             p == LatestAt(points[s], b)
             n == NetOf(RowsBetween(a, b))
  <1>1. from \in Int /\ a \in Int /\ b \in Int /\ clock \in Int
    BY TablesOf DEF OneAsset
  <1>2. RowsOn(from, b) = RowsBetween(a, b)
    <2>1. \A i \in DOMAIN trades : trades[i].at \in Int
      BY RowsFinite DEF TradeRow
    <2>2. ASSUME NEW i \in RowsBetween(a, b) PROVE i \in RowsOn(from, b)
      <3>1. i \in DOMAIN trades /\ a < trades[i].at /\ trades[i].at <= b /\ trades[i].at \in Int
        BY <2>1, <2>2 DEF RowsBetween
      <3>2. i \in InWindow(from)
        BY <1>1, <3>1 DEF InWindow
      <3>3. trades[i].at \in DOMAIN Flows(from)
        BY <3>2, FlowsParts
      <3>4. trades[i].at = b
        BY <1>1, <3>1, <3>3
      <3> QED BY <3>2, <3>4 DEF RowsOn
    <2>3. ASSUME NEW i \in RowsOn(from, b) PROVE i \in RowsBetween(a, b)
      BY <1>1, <2>3 DEF RowsOn, RowsBetween, InWindow
    <2> QED BY <2>2, <2>3
  <1>3. RowsBetween(a, b) \in SUBSET DOMAIN trades
    BY DEF RowsBetween
  <1>4. n \in Int /\ NetOf({}) = 0
    BY <1>3, NetParts
  <1>5. q \in Nat /\ z \in Nat /\ p \in Nat /\ SeriesPoint(b).value = z * p
    BY MarketDay
  <1>6. z = q + n
    BY <1>1, HeldBetween
  <1>7. FlowIn(Flows(from), b) = (-p) * n
    <2>1. ASSUME b \in DOMAIN Flows(from) PROVE FlowIn(Flows(from), b) = (-p) * n
      <3>1. FlowIn(Flows(from), b) = FlowDay(from, b)
        BY <2>1, FlowsParts DEF FlowIn
      <3> QED BY <1>1, <1>2, <3>1, DayFlow DEF NetOf
    <2>2. ASSUME b \notin DOMAIN Flows(from) PROVE FlowIn(Flows(from), b) = (-p) * n
      <3>1. RowsOn(from, b) = {}
        BY <2>2, FlowsParts DEF RowsOn
      <3>2. n = 0
        BY <1>2, <1>4, <3>1
      <3>3. FlowIn(Flows(from), b) = 0
        BY <2>2 DEF FlowIn
      <3> HIDE DEF n, p
      <3> QED BY <1>5, <3>2, <3>3
    <2> QED BY <2>1, <2>2
  <1> HIDE DEF q, z, p, n
  <1>8. (q + n) * p + (-p) * n = q * p /\ (-p) * n \in Int
    BY <1>4, <1>5
  <1> QED BY <1>5, <1>6, <1>7, <1>8 DEF q, p

\* One step of the chain, over one asset at its price of the day.
LEMMA MarketStep ==
  ASSUME IInv, NEW from, NEW s, OneAsset(from, s), NEW acc,
         NEW a \in from .. clock, NEW b \in from .. clock, a < b,
         \A d \in DOMAIN Flows(from) : ~(a < d /\ d < b),
         acc = [open   |-> SeriesPoint(a).value,
                growth |-> Over(LatestAt(points[s], a), LatestAt(points[s], from))]
  PROVE  TwrStep(acc, b, SeriesPoint(b).value, FlowIn(Flows(from), b)) =
            [open   |-> SeriesPoint(b).value,
             growth |-> Over(LatestAt(points[s], b), LatestAt(points[s], from))]
  <1> DEFINE q == HeldAt(s, a).qty
             p1 == LatestAt(points[s], from)
             pa == LatestAt(points[s], a)
             pb == LatestAt(points[s], b)
             flow == FlowIn(Flows(from), b)
             vb == SeriesPoint(b).value
  <1>1. from \in from .. clock
    BY TablesOf DEF OneAsset
  <1>2. q \in Denominators /\ p1 \in Denominators /\ pa \in Denominators /\ pb \in Denominators
        /\ SeriesPoint(a).value = q * pa
    BY <1>1, MarketDay DEF Denominators
  <1>3. vb + flow = q * pb
    BY FlowTakenOut
  <1> HIDE DEF q, p1, pa, pb, flow, vb
  <1>4. acc = [open |-> q * pa, growth |-> Over(pa, p1)]
    BY <1>2 DEF pa, p1
  <1>5. q * pa \in Denominators
    BY <1>2, ProductOfDenominators
  <1>6. Over(pa, p1) \in Fractions /\ Times(Over(pa, p1), Over(pb, pa)) = Over(pb, p1)
    BY <1>2, GrowthsChain
  <1>7. acc # None /\ ~(acc.open <= 0)
    <2>1. acc \in [open : Nat, growth : Fractions]
      BY <1>4, <1>5, <1>6 DEF Denominators
    <2> QED BY <1>4, <1>5, <2>1, ChainIsSome DEF Denominators
  <1>8. TwrStep(acc, b, vb, flow) = [open |-> vb, growth |-> Times(acc.growth, Over(vb + flow, acc.open))]
    BY <1>7 DEF TwrStep
  <1>9. Over(q * pb, q * pa) = Over(pb, pa)
    <2>1. pb \in Int
      BY <1>2 DEF Denominators
    <2> QED BY <1>2, <2>1, OverScale
  <1>10. acc.growth = Over(pa, p1) /\ acc.open = q * pa
    BY <1>4
  <1>11. Times(acc.growth, Over(vb + flow, acc.open)) = Over(pb, p1)
    BY <1>3, <1>6, <1>9, <1>10
  <1> QED BY <1>8, <1>11 DEF pb, p1, vb, flow

\* After k more days the chain stands at the value and the growth of that day.
StandsAt(acc, from, s, d) ==
    acc = [open   |-> SeriesPoint(d).value,
           growth |-> Over(LatestAt(points[s], d), LatestAt(points[s], from))]

LEMMA MarketChain ==
  ASSUME IInv, NEW from, NEW s, OneAsset(from, s)
  PROVE  LET series == Series(FlowDays(from), from)
             base == [open |-> series[1].value, growth |-> One]
         IN  StandsAt(TwrWalk(Flows(from), base, Tail(series)), from, s, clock)
  <1> DEFINE c == FlowDays(from)
             series == Series(c, from)
             flows == Flows(from)
             base == [open |-> series[1].value, growth |-> One]
             T == Tail(series)
             N == Len(T)
             walk(m) == TwrWalk(flows, base, SubSeq(T, 1, m))
             bad == {m \in 0 .. N : ~StandsAt(walk(m), from, s, c[m + 1])}
  <1>1. from \in Int /\ clock \in Int /\ from <= clock /\ from \in from .. clock
    BY TablesOf DEF OneAsset
  <1>2. /\ c[1] = from /\ c[Len(c)] = clock /\ Len(c) \in Nat
        /\ \A k \in 1 .. Len(c) : c[k] \in from .. clock
        /\ \A k \in 1 .. Len(c) : k > 1 =>
              /\ c[k - 1] \in from .. clock /\ c[k - 1] < c[k]
              /\ \A d \in DOMAIN flows : ~(c[k - 1] < d /\ d < c[k])
    BY <1>1, FlowDaysFacts
  <1>3. /\ Len(series) = Len(c) /\ Len(series) > 0
        /\ \A k \in 1 .. Len(series) : series[k] = SeriesPoint(c[k])
        /\ series[1] = SeriesPoint(from)
    BY MarketEnds
  <1>4. series \in Seq(SeriesRow)
    <2>1. c \in Seq(Int)
      BY <1>1, FlowDaysFacts DEF DaysFrom
    <2> QED BY <1>1, <2>1, SeriesTyped
  <1> HIDE DEF c, series
  <1>5. series # << >> /\ T \in Seq(SeriesRow) /\ N = Len(series) - 1 /\ \A i \in 1 .. N : T[i] = series[i + 1]
    <2>1. series # << >>
      BY <1>3
    <2> QED BY <1>4, <2>1, HeadTailProperties
  <1>6. N \in Nat /\ N + 1 = Len(c)
    BY <1>2, <1>3, <1>5
  <1> HIDE DEF T
  <1>7. /\ SubSeq(T, 1, 0) = << >> /\ SubSeq(T, 1, N) = T
        /\ \A m \in 0 .. N : SubSeq(T, 1, m) \in Seq(SeriesRow)
        /\ \A m \in 1 .. N : SubSeq(T, 1, m) = Append(SubSeq(T, 1, m - 1), T[m])
    BY <1>5, EveryPrefix
  <1>8. \A d \in DOMAIN flows : flows[d] \in Int
    <2> SUFFICES ASSUME NEW d \in DOMAIN flows PROVE flows[d] \in Int
      OBVIOUS
    <2>1. flows[d] = FlowDay(from, d) /\ d \in {trades[i].at : i \in InWindow(from)}
      BY FlowsParts
    <2>2. d \in Int
      BY <2>1, RowsFinite DEF TradeRow, InWindow
    <2> QED BY <2>1, <2>2, DayFlow
  <1>9. base \in ChainState
    <2>1. series[1].value \in Nat
      BY <1>1, <1>3, ValueOnTyped DEF SeriesPoint
    <2>2. One \in Fractions
      BY WholeIsOver DEF One
    <2> QED BY <2>1, <2>2 DEF ChainState
  <1> HIDE DEF base, N, flows
  <1>10. /\ TwrWalk(flows, base, << >>) = base
         /\ \A d \in Seq(SeriesRow), v \in SeriesRow :
               TwrWalk(flows, base, Append(d, v))
                  = TwrStep(TwrWalk(flows, base, d), v.at, v.value, FlowIn(flows, v.at))
    BY <1>8, <1>9, TwrUnfold
  <1>11. StandsAt(walk(0), from, s, c[0 + 1])
    <2>1. LatestAt(points[s], from) \in Denominators
      BY <1>1, MarketDay DEF Denominators
    <2>2. Over(LatestAt(points[s], from), LatestAt(points[s], from)) = One
      BY <2>1, GrowthsChain
    <2>3. walk(0) = TwrWalk(flows, base, << >>)
      BY <1>7
    <2>4. walk(0) = base
      BY <1>10, <2>3
    <2>5. c[0 + 1] = from
      BY <1>2
    <2> QED BY <1>3, <2>2, <2>4, <2>5 DEF StandsAt, base
  <1>12. ASSUME NEW m \in 1 .. N, StandsAt(walk(m - 1), from, s, c[m])
         PROVE  StandsAt(walk(m), from, s, c[m + 1])
    <2>1. m - 1 \in 0 .. N /\ m + 1 \in 1 .. Len(c) /\ m + 1 > 1 /\ m + 1 - 1 = m /\ m \in 1 .. Len(c)
      BY <1>6
    <2>2. c[m] \in from .. clock /\ c[m + 1] \in from .. clock /\ c[m] < c[m + 1]
          /\ \A d \in DOMAIN flows : ~(c[m] < d /\ d < c[m + 1])
      BY <1>2, <2>1
    <2>3. T[m] = SeriesPoint(c[m + 1]) /\ T[m] \in SeriesRow
      <3>1. T[m] = series[m + 1]
        BY <1>5
      <3> QED BY <1>3, <1>5, <2>1, <3>1, ElementOfSeq DEF N
    <2>4. SubSeq(T, 1, m - 1) \in Seq(SeriesRow)
      BY <1>7, <2>1
    <2>5. walk(m) = TwrStep(walk(m - 1), T[m].at, T[m].value, FlowIn(flows, T[m].at))
      BY <1>7, <1>10, <2>3, <2>4
    <2>6. T[m].at = c[m + 1] /\ T[m].value = SeriesPoint(c[m + 1]).value
      BY <2>3 DEF SeriesPoint
    <2> HIDE DEF walk
    <2>7. walk(m) = TwrStep(walk(m - 1), c[m + 1], SeriesPoint(c[m + 1]).value, FlowIn(flows, c[m + 1]))
      BY <2>5, <2>6
    <2> QED BY <1>12, <2>2, <2>7, MarketStep DEF StandsAt, flows
  <1> HIDE DEF walk
  <1>13. bad = {}
    <2> SUFFICES ASSUME bad # {} PROVE FALSE
      OBVIOUS
    <2>1. bad \subseteq Nat
      BY <1>6
    <2>2. PICK m \in bad : \A k \in bad : m <= k
      <3> HIDE DEF bad
      <3> QED BY <2>1, SmallestMember
    <2>3. m # 0
      BY <1>11
    <2>4. m \in 1 .. N /\ m - 1 \in 0 .. N /\ m - 1 \notin bad /\ m - 1 + 1 = m
      <3>1. m \in 0 .. N
        OBVIOUS
      <3> HIDE DEF bad
      <3>2. m \in 1 .. N /\ m - 1 \in 0 .. N /\ ~(m <= m - 1) /\ m - 1 + 1 = m
        BY <1>6, <2>3, <3>1
      <3> QED BY <2>2, <3>1, <3>2
    <2>5. StandsAt(walk(m - 1), from, s, c[m])
      BY <2>4
    <2>6. StandsAt(walk(m), from, s, c[m + 1])
      BY <1>12, <2>4, <2>5
    <2> QED BY <2>6
  <1>14. StandsAt(walk(N), from, s, c[N + 1])
    <2>1. N \in 0 .. N
      BY <1>6
    <2> QED BY <1>13, <2>1
  <1>15. walk(N) = TwrWalk(flows, base, T) /\ c[N + 1] = clock
    BY <1>2, <1>6, <1>7 DEF walk
  <1> QED BY <1>14, <1>15 DEF flows, base, T, series, c

LEMMA TwrIsWalk ==
  \A from : LET series == Series(FlowDays(from), from)
                end == TwrWalk(Flows(from), [open |-> series[1].value, growth |-> One], Tail(series))
            IN  Twr(from) = IF Len(FlowDays(from)) < 2 THEN One
                            ELSE IF end = None \/ end.open <= 0 THEN None
                            ELSE end.growth
  BY DEF Twr, TwrWalk, FlowIn

LEMMA TwrAt ==
  ASSUME IInv, NEW from, NEW s, OneAsset(from, s), trades # << >>
  PROVE  Performance(from).twr = Over(LastPrice(s), LatestAt(points[s], from))
  <1> DEFINE c == FlowDays(from)
             series == Series(c, from)
             end == TwrWalk(Flows(from), [open |-> series[1].value, growth |-> One], Tail(series))
             p == LatestAt(points[s], from)
             z == LatestAt(points[s], clock)
  <1>1. from \in Int /\ clock \in Int /\ from <= clock /\ from \in from .. clock /\ clock \in from .. clock
    BY TablesOf DEF OneAsset
  <1>2. p \in Denominators /\ z \in Denominators
    BY <1>1, MarketDay DEF Denominators
  <1>3. Performance(from).twr = Twr(from)
    <2>1. \A i \in DOMAIN trades : Currency[trades[i].sym] = Home
      BY DEF OneAsset, AtMarket
    <2>2. \A t : RateAtHour(Home, t) = 1
      BY HomeRate
    <2>3. ~FlowsRaise(from)
      BY <2>1, <2>2 DEF FlowsRaise, InWindow, Missing
    <2>4. ~FxMissing(from)
      BY <2>1, <2>2 DEF FxMissing, RatesNeeded, InWindow, Missing
    <2> QED BY <2>3, <2>4 DEF Performance
  <1>4. CASE Len(c) < 2
    <2>1. Len(c) \in Nat /\ Len(c) > 0 /\ c[1] = from /\ c[Len(c)] = clock
      BY <1>1, FlowDaysFacts
    <2> HIDE DEF c
    <2>2. from = clock
      <3>1. Len(c) = 1
        <4> DEFINE n == Len(c)
        <4>1. n \in Nat /\ n > 0 /\ n < 2
          BY <1>4, <2>1 DEF c
        <4> HIDE DEF n
        <4>2. n = 1
          BY <4>1
        <4> QED BY <4>2 DEF n
      <3> QED BY <2>1, <3>1
    <2>3. Twr(from) = One
      BY <1>4, TwrIsWalk DEF c
    <2>4. Over(z, p) = One
      BY <1>2, <2>2, GrowthsChain
    <2> QED BY <1>3, <2>3, <2>4 DEF LastPrice
  <1>5. CASE ~(Len(c) < 2)
    <2>1. StandsAt(end, from, s, clock)
      BY MarketChain
    <2> HIDE DEF end
    <2>2. end = [open |-> SeriesPoint(clock).value, growth |-> Over(z, p)]
      BY <2>1 DEF StandsAt
    <2>3. SeriesPoint(clock).value \in Denominators
      <3>1. HeldAt(s, clock).qty \in Denominators
            /\ SeriesPoint(clock).value = HeldAt(s, clock).qty * z
        BY <1>1, MarketDay DEF Denominators
      <3> HIDE DEF z
      <3> QED BY <1>2, <3>1, ProductOfDenominators
    <2>4. Over(z, p) \in Fractions
      BY <1>2, GrowthsChain
    <2> HIDE DEF z, p
    <2>5. end \in [open : Nat, growth : Fractions] /\ end.open > 0 /\ end.growth = Over(z, p)
      BY <2>2, <2>3, <2>4 DEF Denominators
    <2>6. end # None /\ ~(end.open <= 0)
      BY <2>5, ChainIsSome
    <2>7. Twr(from) = IF Len(c) < 2 THEN One ELSE IF end = None \/ end.open <= 0 THEN None ELSE end.growth
      BY TwrIsWalk DEF end, c
    <2>8. Twr(from) = Over(z, p)
      BY <1>5, <2>5, <2>6, <2>7
    <2> QED BY <1>3, <2>8 DEF LastPrice, z, p
  <1> QED BY <1>4, <1>5

LEMMA TwrOf == IInv => TwrIgnoresFlows
  <1> SUFFICES ASSUME IInv, NEW p \in Periods, NEW s \in {t \in Symbols : Currency[t] = Home},
                      trades # << >>, AtMarket(Start(p), s)
               PROVE  Performance(Start(p)).twr = Over(LastPrice(s), LatestAt(points[s], Start(p)))
    BY DEF TwrIgnoresFlows
  <1>1. OneAsset(Start(p), s)
    BY StartFacts DEF OneAsset
  <1> QED BY <1>1, TwrAt

(***************************************************************************)
(* The time-weighted return of one asset bought and sold at its price of   *)
(* the day is the asset's own price change, for any trades and prices.     *)
(***************************************************************************)
THEOREM TwrIsTheMarkets == Spec => []TwrIgnoresFlows
  BY TwrOf, Invariance, PTL

-----------------------------------------------------------------------------
(***************************************************************************)
(* The lots of the tax report: their shares and what they cost in won.     *)
(***************************************************************************)
LotRow == [sym : Symbols, type : {"BUY", "SELL"}, qty : Nat, price : Nat \ {0}, at : Instants]

SharesOf(lots) == FoldLeft(LAMBDA sum, lot : sum + lot.qty, 0, lots)

IsShares(h, d) ==
    h = [w \in SUBSET DOMAIN d |-> IF w = {} THEN 0 ELSE h[w \ {Max(w)}] + d[Max(w)].qty]

LEMMA SharesIsFold == \A d : SharesOf(d) = (CHOOSE h : IsShares(h, d))[DOMAIN d]
  BY DEF SharesOf, FoldLeft, MapThenFoldSet, IsShares

LEMMA SharesUnfold ==
  /\ SharesOf(<< >>) = 0
  /\ \A d \in Seq(LotRow) : SharesOf(d) \in Nat
  /\ \A d \in Seq(LotRow), x \in LotRow : SharesOf(Append(d, x)) = SharesOf(d) + x.qty
  <1> DEFINE X == LotRow
             G == [p \in Nat \X X |-> p[1] + p[2].qty]
  <1>1. \A n \in Nat, x \in X : n + x.qty \in Nat /\ G[<<n, x>>] = n + x.qty
    BY DEF LotRow
  <1>2. G \in [Nat \X X -> Nat] /\ 0 \in Nat
    BY <1>1
  <1> HIDE DEF G, X
  <1>3. PICK f : FoldsBy(f, G, 0, X, Nat)
    BY <1>2, SequenceFold
  <1>4. ASSUME NEW d \in Seq(X) PROVE SharesOf(d) = f[d]
    <2> DEFINE k == CHOOSE h : IsShares(h, d)
    <2>1. PICK h : Partials(h, d, G, 0, X, Nat) /\ h[DOMAIN d] = f[d]
      BY <1>3, FoldHas
    <2>2. IsShares(h, d)
      <3>1. \A w \in SUBSET DOMAIN d : h[w] = IF w = {} THEN 0 ELSE h[w \ {Max(w)}] + d[Max(w)].qty
        BY <1>1, <2>1 DEF Partials
      <3>2. h = [w \in SUBSET DOMAIN d |-> h[w]]
        BY <2>1 DEF Partials
      <3> QED BY <3>1, <3>2 DEF IsShares
    <2> HIDE DEF k
    <2>3. IsShares(k, d)
      BY <2>2 DEF k
    <2>4. \A w \in SUBSET DOMAIN d : k[w] = IF w = {} THEN 0 ELSE k[w \ {Max(w)}] + d[Max(w)].qty
      BY <2>3 DEF IsShares
    <2>5. \A w \in SUBSET DOMAIN d : w # {} => d[Max(w)] \in X
      BY <2>1 DEF Partials
    <2>6. k[DOMAIN d] = h[DOMAIN d]
      <3>1. k[{}] = 0
        BY <2>4
      <3>2. \A w \in SUBSET DOMAIN d :
               w # {} /\ k[w \ {Max(w)}] \in Nat => k[w] = G[<<k[w \ {Max(w)}], d[Max(w)]>>]
        BY <1>1, <2>4, <2>5
      <3>3. Follows(k, d, G, 0, Nat)
        BY <3>1, <3>2 DEF Follows
      <3> QED BY <2>1, <3>3, FoldOnly
    <2> QED BY <2>1, <2>6, SharesIsFold DEF k
  <1>5. << >> \in Seq(X) /\ \A d \in Seq(X), x \in X : Append(d, x) \in Seq(X)
    OBVIOUS
  <1>6. /\ f[<< >>] = 0
        /\ \A d \in Seq(X) : f[d] \in Nat
        /\ \A d \in Seq(X), x \in X : f[Append(d, x)] = f[d] + x.qty
    <2> HIDE DEF X
    <2>1. /\ f[<< >>] = 0
          /\ \A d \in Seq(X) : f[d] \in Nat
          /\ \A d \in Seq(X), x \in X : f[Append(d, x)] = G[<<f[d], x>>]
      BY <1>3 DEF FoldsBy
    <2> QED BY <1>1, <2>1
  <1> QED BY <1>4, <1>5, <1>6 DEF X

IsWonCost(h, d, fx) ==
    h = [w \in SUBSET DOMAIN d |->
            IF w = {} THEN 0 ELSE h[w \ {Max(w)}] + d[Max(w)].qty * d[Max(w)].price * fx[d[Max(w)].at]]

LEMMA WonCostIsFold == \A d, fx : WonCost(d, fx) = (CHOOSE h : IsWonCost(h, d, fx))[DOMAIN d]
  BY DEF WonCost, FoldLeft, MapThenFoldSet, IsWonCost

\* What a lot cost in won.
LotCost(x, fx) == x.qty * x.price * fx[x.at]

LEMMA WonCostUnfold ==
  ASSUME NEW fx, \A d \in Instants : fx[d] \in Nat
  PROVE  /\ WonCost(<< >>, fx) = 0
         /\ \A x \in LotRow : LotCost(x, fx) \in Int
         /\ \A d \in Seq(LotRow) : WonCost(d, fx) \in Int
         /\ \A d \in Seq(LotRow), x \in LotRow : WonCost(Append(d, x), fx) = WonCost(d, fx) + LotCost(x, fx)
  <1> DEFINE X == LotRow
             G == [p \in Int \X X |-> p[1] + LotCost(p[2], fx)]
  <1>0. ASSUME NEW x \in X PROVE LotCost(x, fx) \in Int
    <2>1. x.qty \in Nat /\ x.price \in Nat /\ fx[x.at] \in Nat
      BY DEF LotRow
    <2>2. \A a, b, c \in Nat : a * b * c \in Int
      OBVIOUS
    <2> QED BY <2>1, <2>2 DEF LotCost
  <1>1. \A n \in Int, x \in X : n + LotCost(x, fx) \in Int /\ G[<<n, x>>] = n + LotCost(x, fx)
    BY <1>0
  <1>2. G \in [Int \X X -> Int] /\ 0 \in Int
    <2>1. \A p \in Int \X X : p[1] + LotCost(p[2], fx) \in Int
      BY <1>1
    <2> QED BY <2>1
  <1> HIDE DEF G, X
  <1>3. PICK f : FoldsBy(f, G, 0, X, Int)
    BY <1>2, SequenceFold
  <1>4. ASSUME NEW d \in Seq(X) PROVE WonCost(d, fx) = f[d]
    <2> DEFINE k == CHOOSE h : IsWonCost(h, d, fx)
    <2>1. PICK h : Partials(h, d, G, 0, X, Int) /\ h[DOMAIN d] = f[d]
      BY <1>3, FoldHas
    <2>2. IsWonCost(h, d, fx)
      <3>1. \A w \in SUBSET DOMAIN d : h[w] = IF w = {} THEN 0 ELSE h[w \ {Max(w)}] + LotCost(d[Max(w)], fx)
        BY <1>1, <2>1 DEF Partials
      <3>2. h = [w \in SUBSET DOMAIN d |-> h[w]]
        BY <2>1 DEF Partials
      <3> QED BY <3>1, <3>2 DEF IsWonCost, LotCost
    <2> HIDE DEF k
    <2>3. IsWonCost(k, d, fx)
      BY <2>2 DEF k
    <2>4. \A w \in SUBSET DOMAIN d : k[w] = IF w = {} THEN 0 ELSE k[w \ {Max(w)}] + LotCost(d[Max(w)], fx)
      BY <2>3 DEF IsWonCost, LotCost
    <2>5. \A w \in SUBSET DOMAIN d : w # {} => d[Max(w)] \in X
      BY <2>1 DEF Partials
    <2>6. k[DOMAIN d] = h[DOMAIN d]
      <3>1. k[{}] = 0
        BY <2>4
      <3>2. \A w \in SUBSET DOMAIN d :
               w # {} /\ k[w \ {Max(w)}] \in Int => k[w] = G[<<k[w \ {Max(w)}], d[Max(w)]>>]
        BY <1>1, <2>4, <2>5
      <3>3. Follows(k, d, G, 0, Int)
        BY <3>1, <3>2 DEF Follows
      <3> QED BY <2>1, <3>3, FoldOnly
    <2> QED BY <2>1, <2>6, WonCostIsFold DEF k
  <1>5. << >> \in Seq(X) /\ \A d \in Seq(X), x \in X : Append(d, x) \in Seq(X)
    OBVIOUS
  <1>6. /\ f[<< >>] = 0
        /\ \A d \in Seq(X) : f[d] \in Int
        /\ \A d \in Seq(X), x \in X : f[Append(d, x)] = f[d] + LotCost(x, fx)
    BY <1>1, <1>3 DEF FoldsBy
  <1> QED BY <1>0, <1>4, <1>5, <1>6 DEF X

\* Up to N, one step at a time.
LEMMA StepByStep ==
  ASSUME NEW N \in Nat, NEW good, 0 \in good, \A m \in 1 .. N : m - 1 \in good => m \in good
  PROVE  \A m \in 0 .. N : m \in good
  <1> DEFINE bad == {m \in 0 .. N : m \notin good}
  <1>1. SUFFICES ASSUME bad # {} PROVE FALSE
    OBVIOUS
  <1>2. bad \subseteq Nat
    OBVIOUS
  <1>3. PICK m \in bad : \A k \in bad : m <= k
    <2> HIDE DEF bad
    <2> QED BY <1>1, <1>2, SmallestMember
  <1>4. m \in 0 .. N /\ m \notin good /\ m # 0
    OBVIOUS
  <1>5. m \in 1 .. N /\ m - 1 \in 0 .. N /\ ~(m <= m - 1)
    BY <1>4
  <1>6. m - 1 \notin bad
    <2> HIDE DEF bad
    <2> QED BY <1>3, <1>5
  <1>7. m - 1 \in good
    BY <1>5, <1>6
  <1> QED BY <1>4, <1>5, <1>7

\* No shares in no lots, and only in them.
LEMMA NoShares ==
  ASSUME NEW d \in Seq(LotRow), \A i \in DOMAIN d : d[i].qty > 0, SharesOf(d) = 0
  PROVE  d = << >>
  <1> DEFINE N == Len(d)
  <1>1. SUFFICES ASSUME d # << >> PROVE FALSE
    OBVIOUS
  <1>2. N \in 1 .. N /\ N \in DOMAIN d /\ N - 1 \in 0 .. N
    BY <1>1
  <1>3. d = Append(SubSeq(d, 1, N - 1), d[N]) /\ SubSeq(d, 1, N - 1) \in Seq(LotRow)
    BY <1>2, EveryPrefix
  <1>4. d[N] \in LotRow /\ d[N].qty > 0 /\ d[N].qty \in Nat
    <2>1. d[N] \in LotRow
      BY <1>2, ElementOfSeq
    <2> QED BY <1>2, <2>1 DEF LotRow
  <1>5. SharesOf(d) = SharesOf(SubSeq(d, 1, N - 1)) + d[N].qty /\ SharesOf(SubSeq(d, 1, N - 1)) \in Nat
    BY <1>3, <1>4, SharesUnfold
  <1> QED BY <1>4, <1>5

SharesUpTo(lots, i) == SharesOf(SubSeq(lots, 1, i))

LeftOf(lots, q, i) ==
    IF SharesUpTo(lots, i) <= q THEN 0
    ELSE IF SharesUpTo(lots, i) - lots[i].qty >= q THEN lots[i].qty ELSE SharesUpTo(lots, i) - q

RestOf(lots, q) == [i \in DOMAIN lots |-> [lots[i] EXCEPT !.qty = LeftOf(lots, q, i)]]

WithShares(lots) == {lot \in ToSet(lots) : lot.qty > 0}

LEMMA LotsAfterIs == \A lots, q : LotsAfter(lots, q) = Keep(RestOf(lots, q), WithShares(RestOf(lots, q)))
  BY DEF LotsAfter, RestOf, LeftOf, SharesUpTo, WithShares, SharesOf

Above(n, q) == IF n <= q THEN 0 ELSE n - q

\* What leaves from the front is what was asked for, or all there is.
LEMMA LotsLeft ==
  ASSUME NEW lots \in Seq(LotRow), NEW q \in Nat
  PROVE  /\ LotsAfter(lots, q) \in Seq(LotRow)
         /\ \A i \in DOMAIN LotsAfter(lots, q) : LotsAfter(lots, q)[i].qty > 0
         /\ SharesOf(LotsAfter(lots, q)) = Above(SharesOf(lots), q)
  <1> DEFINE N == Len(lots)
             rest == RestOf(lots, q)
             A == WithShares(rest)
             out == LotsAfter(lots, q)
  <1>1. N \in Nat /\ DOMAIN lots = 1 .. N /\ \A i \in 1 .. N : lots[i] \in LotRow /\ lots[i].qty \in Nat
    <2>1. N \in Nat /\ DOMAIN lots = 1 .. N /\ \A i \in 1 .. N : lots[i] \in LotRow
      BY ElementOfSeq
    <2>2. \A x \in LotRow : x.qty \in Nat
      BY DEF LotRow
    <2> QED BY <2>1, <2>2
  <1>2. /\ SubSeq(lots, 1, 0) = << >> /\ SubSeq(lots, 1, N) = lots
        /\ \A m \in 0 .. N : SubSeq(lots, 1, m) \in Seq(LotRow)
        /\ \A m \in 1 .. N : SubSeq(lots, 1, m) = Append(SubSeq(lots, 1, m - 1), lots[m])
    BY EveryPrefix
  <1>3. SharesUpTo(lots, 0) = 0 /\ SharesUpTo(lots, N) = SharesOf(lots) /\ \A m \in 0 .. N : SharesUpTo(lots, m) \in Nat
    BY <1>2, SharesUnfold DEF SharesUpTo
  <1>4. \A m \in 1 .. N : m - 1 \in 0 .. N /\ m \in 0 .. N
                          /\ SharesUpTo(lots, m) = SharesUpTo(lots, m - 1) + lots[m].qty
    <2> SUFFICES ASSUME NEW m \in 1 .. N
                 PROVE  m - 1 \in 0 .. N /\ m \in 0 .. N
                        /\ SharesUpTo(lots, m) = SharesUpTo(lots, m - 1) + lots[m].qty
      OBVIOUS
    <2>1. m - 1 \in 0 .. N /\ m \in 0 .. N
      BY <1>1
    <2>2. SubSeq(lots, 1, m - 1) \in Seq(LotRow) /\ lots[m] \in LotRow
      BY <1>1, <1>2, <2>1
    <2> QED BY <1>2, <2>1, <2>2, SharesUnfold DEF SharesUpTo
  <1>5. \A m \in 1 .. N : LeftOf(lots, q, m) \in Nat
                          /\ Above(SharesUpTo(lots, m - 1), q) + LeftOf(lots, q, m) = Above(SharesUpTo(lots, m), q)
    <2> SUFFICES ASSUME NEW m \in 1 .. N
                 PROVE  LeftOf(lots, q, m) \in Nat
                        /\ Above(SharesUpTo(lots, m - 1), q) + LeftOf(lots, q, m) = Above(SharesUpTo(lots, m), q)
      OBVIOUS
    <2>1. SharesUpTo(lots, m - 1) \in Nat /\ lots[m].qty \in Nat /\ SharesUpTo(lots, m) = SharesUpTo(lots, m - 1) + lots[m].qty
      BY <1>1, <1>3, <1>4
    <2> QED BY <2>1 DEF LeftOf, Above
  <1>6. \A m \in 1 .. N : rest[m] \in LotRow /\ rest[m].qty = LeftOf(lots, q, m)
    <2> SUFFICES ASSUME NEW m \in 1 .. N PROVE rest[m] \in LotRow /\ rest[m].qty = LeftOf(lots, q, m)
      OBVIOUS
    <2>1. rest[m] = [lots[m] EXCEPT !.qty = LeftOf(lots, q, m)]
      BY <1>1 DEF RestOf
    <2>2. lots[m] \in LotRow /\ LeftOf(lots, q, m) \in Nat
      BY <1>1, <1>5
    <2> HIDE DEF rest
    <2> QED BY <2>1, <2>2 DEF LotRow
  <1>7. rest \in Seq(LotRow) /\ Len(rest) = N
    <2>1. rest = [m \in 1 .. N |-> rest[m]]
      BY <1>1 DEF RestOf
    <2> HIDE DEF rest
    <2> QED BY <1>1, <1>6, <2>1
  <1>8. out = Keep(rest, A)
    BY LotsAfterIs
  <1>9. \A m \in 1 .. N : rest[m] \in A <=> rest[m].qty > 0
    <2>1. \A m \in 1 .. N : rest[m] \in ToSet(rest)
      <3> HIDE DEF rest
      <3> QED BY <1>7 DEF ToSet
    <2> QED BY <2>1 DEF WithShares
  <1> HIDE DEF rest, A, N
  <1>10. PICK kept : /\ Keep(rest, A) = kept[Len(rest)] /\ kept[0] = << >>
                     /\ \A n \in 1 .. Len(rest) :
                          kept[n] = IF rest[n] \in A THEN Append(kept[n - 1], rest[n]) ELSE kept[n - 1]
    <2>1. rest \in Seq(LotRow)
      BY <1>7
    <2> QED BY <2>1, KeepUnfold
  <1> DEFINE good == {m \in 0 .. N : kept[m] \in Seq(LotRow) /\ SharesOf(kept[m]) = Above(SharesUpTo(lots, m), q)}
  <1>11. 0 \in good
    <2>1. << >> \in Seq(LotRow) /\ 0 \in 0 .. N /\ Above(0, q) = 0
      BY <1>1 DEF Above, N
    <2> QED BY <1>3, <1>10, <2>1, SharesUnfold
  <1>12. ASSUME NEW m \in 1 .. N, m - 1 \in good PROVE m \in good
    <2>1. /\ kept[m - 1] \in Seq(LotRow) /\ SharesOf(kept[m - 1]) = Above(SharesUpTo(lots, m - 1), q)
          /\ m \in 0 .. N
      BY <1>4, <1>12
    <2>2. kept[m] = IF rest[m] \in A THEN Append(kept[m - 1], rest[m]) ELSE kept[m - 1]
      BY <1>7, <1>10
    <2>3. rest[m] \in LotRow /\ rest[m].qty \in Nat /\ rest[m].qty = LeftOf(lots, q, m)
      BY <1>5, <1>6
    <2>4. kept[m] \in Seq(LotRow) /\ SharesOf(kept[m]) = SharesOf(kept[m - 1]) + rest[m].qty
      <3>1. CASE rest[m] \in A
        <4>1. kept[m] = Append(kept[m - 1], rest[m])
          BY <2>2, <3>1
        <4> QED BY <2>1, <2>3, <4>1, SharesUnfold
      <3>2. CASE rest[m] \notin A
        <4>1. kept[m] = kept[m - 1] /\ rest[m].qty = 0
          BY <1>9, <2>2, <2>3, <3>2
        <4>2. SharesOf(kept[m - 1]) \in Nat
          BY <2>1, SharesUnfold
        <4> QED BY <2>1, <4>1, <4>2
      <3> QED BY <3>1, <3>2
    <2>5. SharesOf(kept[m]) = Above(SharesUpTo(lots, m), q)
      BY <1>5, <2>1, <2>3, <2>4
    <2> QED BY <2>1, <2>4, <2>5
  <1>13. N \in good
    <2>1. N \in Nat
      BY <1>1 DEF N
    <2>2. N \in 0 .. N
      BY <2>1
    <2> HIDE DEF good
    <2> QED BY <1>11, <1>12, <2>1, <2>2, StepByStep
  <1>14. out \in Seq(LotRow) /\ SharesOf(out) = Above(SharesOf(lots), q)
    <2>1. kept[N] \in Seq(LotRow) /\ SharesOf(kept[N]) = Above(SharesUpTo(lots, N), q)
      BY <1>13
    <2>2. out = kept[N]
      BY <1>7, <1>8, <1>10
    <2> QED BY <1>3, <2>1, <2>2
  <1>15. ASSUME NEW i \in DOMAIN out PROVE out[i].qty > 0
    <2>1. ToSet(out) = ToSet(rest) \cap A
      BY <1>7, <1>8, KeepMembers
    <2>2. out[i] \in ToSet(out)
      BY <1>14 DEF ToSet
    <2> QED BY <2>1, <2>2 DEF A, WithShares
  <1> QED BY <1>14, <1>15 DEF out

-----------------------------------------------------------------------------
(***************************************************************************)
(* The sales of a year and what they cost.                                 *)
(***************************************************************************)
TaxRow == [sym : Symbols, type : {"BUY", "SELL"}, qty : Nat \ {0}, price : Nat \ {0}, at : Instants]

SaleRow == [at : Instants, qty : Nat, proceeds : Int, basis : Fractions]

WonRates(fx) == \A d \in Instants : fx[d] \in Nat

BasisOf(sales) == FoldLeft(LAMBDA sum, x : Plus(sum, x.basis), Zero, sales)

IsBasis(h, d) ==
    h = [w \in SUBSET DOMAIN d |-> IF w = {} THEN Zero ELSE Plus(h[w \ {Max(w)}], d[Max(w)].basis)]

LEMMA BasisIsFold == \A d : BasisOf(d) = (CHOOSE h : IsBasis(h, d))[DOMAIN d]
  BY DEF BasisOf, FoldLeft, MapThenFoldSet, IsBasis

LEMMA BasisUnfold ==
  /\ BasisOf(<< >>) = Zero
  /\ \A d \in Seq(SaleRow) : BasisOf(d) \in Fractions
  /\ \A d \in Seq(SaleRow), x \in SaleRow : BasisOf(Append(d, x)) = Plus(BasisOf(d), x.basis)
  <1> DEFINE X == SaleRow
             V == Fractions
             G == [p \in V \X X |-> Plus(p[1], p[2].basis)]
  <1>1. \A n \in V, x \in X : Plus(n, x.basis) \in V /\ G[<<n, x>>] = Plus(n, x.basis)
    <2>1. \A x \in X : x.basis \in V
      BY DEF SaleRow
    <2> QED BY <2>1, PlusLaws
  <1>2. G \in [V \X X -> V] /\ Zero \in V
    <2>1. \A p \in V \X X : Plus(p[1], p[2].basis) \in V
      BY <1>1
    <2> QED BY <2>1, PlusLaws
  <1> HIDE DEF G, X, V
  <1>3. PICK f : FoldsBy(f, G, Zero, X, V)
    BY <1>2, SequenceFold
  <1>4. ASSUME NEW d \in Seq(X) PROVE BasisOf(d) = f[d]
    <2> DEFINE k == CHOOSE h : IsBasis(h, d)
    <2>1. PICK h : Partials(h, d, G, Zero, X, V) /\ h[DOMAIN d] = f[d]
      BY <1>3, FoldHas
    <2>2. IsBasis(h, d)
      <3>1. \A w \in SUBSET DOMAIN d : h[w] = IF w = {} THEN Zero ELSE Plus(h[w \ {Max(w)}], d[Max(w)].basis)
        BY <1>1, <2>1 DEF Partials
      <3>2. h = [w \in SUBSET DOMAIN d |-> h[w]]
        BY <2>1 DEF Partials
      <3> QED BY <3>1, <3>2 DEF IsBasis
    <2> HIDE DEF k
    <2>3. IsBasis(k, d)
      BY <2>2 DEF k
    <2>4. \A w \in SUBSET DOMAIN d : k[w] = IF w = {} THEN Zero ELSE Plus(k[w \ {Max(w)}], d[Max(w)].basis)
      BY <2>3 DEF IsBasis
    <2>5. \A w \in SUBSET DOMAIN d : w # {} => d[Max(w)] \in X
      BY <2>1 DEF Partials
    <2>6. k[DOMAIN d] = h[DOMAIN d]
      <3>1. k[{}] = Zero
        BY <2>4
      <3>2. \A w \in SUBSET DOMAIN d :
               w # {} /\ k[w \ {Max(w)}] \in V => k[w] = G[<<k[w \ {Max(w)}], d[Max(w)]>>]
        BY <1>1, <2>4, <2>5
      <3>3. Follows(k, d, G, Zero, V)
        BY <3>1, <3>2 DEF Follows
      <3> QED BY <2>1, <3>3, FoldOnly
    <2> QED BY <2>1, <2>6, BasisIsFold DEF k
  <1>5. << >> \in Seq(X) /\ \A d \in Seq(X), x \in X : Append(d, x) \in Seq(X)
    OBVIOUS
  <1>6. /\ f[<< >>] = Zero
        /\ \A d \in Seq(X) : f[d] \in V
        /\ \A d \in Seq(X), x \in X : f[Append(d, x)] = Plus(f[d], x.basis)
    <2> HIDE DEF X, V
    <2>1. /\ f[<< >>] = Zero
          /\ \A d \in Seq(X) : f[d] \in V
          /\ \A d \in Seq(X), x \in X : f[Append(d, x)] = G[<<f[d], x>>]
      BY <1>3 DEF FoldsBy
    <2> QED BY <1>1, <2>1
  <1> QED BY <1>4, <1>5, <1>6 DEF X, V

LEMMA SaleTyped ==
  ASSUME NEW fx, WonRates(fx), NEW x \in TaxRow, NEW basis \in Fractions
  PROVE  Sale(x, fx, basis) \in SaleRow /\ Sale(x, fx, basis).basis = basis
  <1>1. x.at \in Instants /\ x.qty \in Nat /\ x.price \in Nat /\ fx[x.at] \in Nat
    BY DEF TaxRow, WonRates
  <1>2. \A a, b, c \in Nat : a * b * c \in Int
    OBVIOUS
  <1>3. x.qty * x.price * fx[x.at] \in Int
    BY <1>1, <1>2
  <1> QED BY <1>1, <1>3 DEF Sale, SaleRow

-----------------------------------------------------------------------------
(***************************************************************************)
(* First in, first out.                                                    *)
(***************************************************************************)
FifoStart == [lots |-> << >>, sales |-> << >>]

FifoWalk(d, year, fx) == FoldLeft(LAMBDA acc, x : FifoStep(acc, x, YearOf, year, fx), FifoStart, d)

FifoAcc == [lots : Seq(LotRow), sales : Seq(SaleRow)]

IsFifo(h, d, year, fx) ==
    h = [w \in SUBSET DOMAIN d |->
            IF w = {} THEN FifoStart ELSE FifoStep(h[w \ {Max(w)}], d[Max(w)], YearOf, year, fx)]

LEMMA FifoIsFold == \A d, year, fx : FifoWalk(d, year, fx) = (CHOOSE h : IsFifo(h, d, year, fx))[DOMAIN d]
  BY DEF FifoWalk, FoldLeft, MapThenFoldSet, IsFifo

\* What leaves the queue with a SELL.
FifoBasis(lots, x, fx) == Whole(WonCost(lots, fx) - WonCost(LotsAfter(lots, x.qty), fx))

LEMMA FifoStepParts ==
  ASSUME NEW fx, WonRates(fx), NEW year, NEW acc \in FifoAcc, NEW x \in TaxRow
  PROVE  LET next == FifoStep(acc, x, YearOf, year, fx)
         IN  /\ next \in FifoAcc /\ FifoBasis(acc.lots, x, fx) \in Fractions
             /\ x.type = "BUY" => next.lots = Append(acc.lots, x) /\ next.sales = acc.sales
             /\ x.type # "BUY" => /\ next.lots = LotsAfter(acc.lots, x.qty)
                                  /\ next.sales = IF YearOf[x.at] = year
                                                    THEN Append(acc.sales, Sale(x, fx, FifoBasis(acc.lots, x, fx)))
                                                  ELSE acc.sales
  <1> DEFINE next == FifoStep(acc, x, YearOf, year, fx)
             left == LotsAfter(acc.lots, x.qty)
             basis == FifoBasis(acc.lots, x, fx)
  <1>1. acc.lots \in Seq(LotRow) /\ acc.sales \in Seq(SaleRow) /\ acc = [lots |-> acc.lots, sales |-> acc.sales]
    BY DEF FifoAcc
  <1>2. x \in LotRow /\ x.qty \in Nat
    BY DEF TaxRow, LotRow
  <1>3. left \in Seq(LotRow)
    BY <1>1, <1>2, LotsLeft
  <1>4. basis \in Fractions /\ Sale(x, fx, basis) \in SaleRow
    <2>1. WonCost(acc.lots, fx) \in Int /\ WonCost(left, fx) \in Int
      BY <1>1, <1>3, WonCostUnfold DEF WonRates
    <2>2. WonCost(acc.lots, fx) - WonCost(left, fx) \in Int
      BY <2>1
    <2>3. basis \in Fractions
      BY <2>2, WholeIsOver DEF FifoBasis
    <2> QED BY <2>3, SaleTyped
  <1>5. CASE x.type = "BUY"
    <2>1. next = [lots |-> Append(acc.lots, x), sales |-> acc.sales]
      BY <1>1, <1>5 DEF FifoStep
    <2>2. Append(acc.lots, x) \in Seq(LotRow)
      BY <1>1, <1>2
    <2> HIDE DEF next, basis
    <2> QED BY <1>1, <1>4, <1>5, <2>1, <2>2 DEF FifoAcc, next, basis
  <1>6. CASE x.type # "BUY" /\ YearOf[x.at] # year
    <2>1. next = [lots |-> left, sales |-> acc.sales]
      BY <1>1, <1>6 DEF FifoStep
    <2> HIDE DEF next, left, basis
    <2> QED BY <1>1, <1>3, <1>4, <1>6, <2>1 DEF FifoAcc, next, left, basis
  <1>7. CASE x.type # "BUY" /\ YearOf[x.at] = year
    <2>1. next = [lots |-> left, sales |-> Append(acc.sales, Sale(x, fx, basis))]
      BY <1>7 DEF FifoStep, FifoBasis
    <2> HIDE DEF next, left, basis
    <2>2. Append(acc.sales, Sale(x, fx, basis)) \in Seq(SaleRow)
      BY <1>1, <1>4
    <2> QED BY <1>3, <1>4, <1>7, <2>1, <2>2 DEF FifoAcc, next, left, basis
  <1> QED BY <1>5, <1>6, <1>7

LEMMA FifoUnfold ==
  ASSUME NEW fx, WonRates(fx), NEW year
  PROVE  /\ FifoWalk(<< >>, year, fx) = FifoStart
         /\ \A d \in Seq(TaxRow) : FifoWalk(d, year, fx) \in FifoAcc
         /\ \A d \in Seq(TaxRow), x \in TaxRow :
               FifoWalk(Append(d, x), year, fx) = FifoStep(FifoWalk(d, year, fx), x, YearOf, year, fx)
  <1> DEFINE X == TaxRow
             V == FifoAcc
             step(acc, x) == FifoStep(acc, x, YearOf, year, fx)
             G == [p \in V \X X |-> step(p[1], p[2])]
  <1>1. \A acc \in V, x \in X : step(acc, x) \in V /\ G[<<acc, x>>] = step(acc, x)
    BY FifoStepParts
  <1>2. G \in [V \X X -> V] /\ FifoStart \in V
    <2>1. FifoStart \in V
      BY DEF FifoStart, FifoAcc
    <2> QED BY <1>1, <2>1
  <1> HIDE DEF G, X, V
  <1>3. PICK f : FoldsBy(f, G, FifoStart, X, V)
    BY <1>2, SequenceFold
  <1>4. ASSUME NEW d \in Seq(X) PROVE FifoWalk(d, year, fx) = f[d]
    <2> DEFINE k == CHOOSE h : IsFifo(h, d, year, fx)
    <2>1. PICK h : Partials(h, d, G, FifoStart, X, V) /\ h[DOMAIN d] = f[d]
      BY <1>3, FoldHas
    <2>2. IsFifo(h, d, year, fx)
      <3>1. \A w \in SUBSET DOMAIN d : h[w] = IF w = {} THEN FifoStart ELSE step(h[w \ {Max(w)}], d[Max(w)])
        BY <1>1, <2>1 DEF Partials
      <3>2. h = [w \in SUBSET DOMAIN d |-> h[w]]
        BY <2>1 DEF Partials
      <3> QED BY <3>1, <3>2 DEF IsFifo
    <2> HIDE DEF k
    <2>3. IsFifo(k, d, year, fx)
      BY <2>2 DEF k
    <2>4. \A w \in SUBSET DOMAIN d : k[w] = IF w = {} THEN FifoStart ELSE step(k[w \ {Max(w)}], d[Max(w)])
      BY <2>3 DEF IsFifo
    <2>5. \A w \in SUBSET DOMAIN d : w # {} => d[Max(w)] \in X
      BY <2>1 DEF Partials
    <2> HIDE DEF step
    <2>6. k[DOMAIN d] = h[DOMAIN d]
      <3>1. k[{}] = FifoStart
        BY <2>4
      <3>2. \A w \in SUBSET DOMAIN d :
               w # {} /\ k[w \ {Max(w)}] \in V => k[w] = G[<<k[w \ {Max(w)}], d[Max(w)]>>]
        BY <1>1, <2>4, <2>5
      <3>3. Follows(k, d, G, FifoStart, V)
        BY <3>1, <3>2 DEF Follows
      <3> QED BY <2>1, <3>3, FoldOnly
    <2> QED BY <2>1, <2>6, FifoIsFold DEF k
  <1>5. << >> \in Seq(X) /\ \A d \in Seq(X), x \in X : Append(d, x) \in Seq(X)
    OBVIOUS
  <1>6. /\ f[<< >>] = FifoStart
        /\ \A d \in Seq(X) : f[d] \in V
        /\ \A d \in Seq(X), x \in X : f[Append(d, x)] = step(f[d], x)
    BY <1>1, <1>3 DEF FoldsBy
  <1> QED BY <1>4, <1>5, <1>6 DEF X, V

-----------------------------------------------------------------------------
(***************************************************************************)
(* The average in won.                                                     *)
(***************************************************************************)
LEMMA SharesOfAverage ==
  /\ \A c \in Fractions, n \in Denominators :
        Divide(c, Whole(n)) \in Fractions /\ Scale(n, Divide(c, Whole(n))) = c
  /\ \A a \in Fractions, m, n \in Int : Plus(Scale(m, a), Scale(n, a)) = Scale(m + n, a)
  /\ \A a \in Fractions : Scale(0, a) = Zero
  <1>1. ASSUME NEW c \in Fractions, NEW n \in Denominators
        PROVE  Divide(c, Whole(n)) \in Fractions /\ Scale(n, Divide(c, Whole(n))) = c
    <2>1. c[1] \in Int /\ c[2] \in Denominators /\ Over(c[1], c[2]) = c /\ n \in Int
      BY FractionParts DEF Denominators
    <2>2. Divide(c, Whole(n)) = Over(c[1] * 1, c[2] * n)
      BY DEF Divide, Whole
    <2>3. c[1] * 1 = c[1] /\ c[2] * n \in Denominators /\ n * c[1] \in Int /\ 1 \in Denominators
          /\ 1 * (c[2] * n) = n * c[2]
      <3>1. \A m \in Int, d \in Denominators : m * 1 = m /\ n * m \in Int /\ 1 * (d * n) = n * d
        BY <2>1 DEF Denominators
      <3>2. 1 \in Denominators
        BY DEF Denominators
      <3> QED BY <2>1, <3>1, <3>2, ProductOfDenominators
    <2>4. Divide(c, Whole(n)) \in Fractions
      BY <2>1, <2>2, <2>3, OverType
    <2>5. Scale(n, Divide(c, Whole(n))) = Over(n * c[1], 1 * (c[2] * n))
      <3>1. Times(Over(n, 1), Over(c[1], c[2] * n)) = Over(n * c[1], 1 * (c[2] * n))
        <4> DEFINE a == c[1]
                   e == c[2] * n
        <4>1. n \in Int /\ a \in Int /\ 1 \in Denominators /\ e \in Denominators
          BY <2>1, <2>3
        <4> HIDE DEF a, e
        <4>2. Times(Over(n, 1), Over(a, e)) = Over(n * a, 1 * e)
          BY <4>1, SumOfOvers
        <4> QED BY <4>2 DEF a, e
      <3> QED BY <2>1, <2>2, <2>3, <3>1, WholeIsOver DEF Scale
    <2>6. Over(n * c[1], n * c[2]) = Over(c[1], c[2])
      BY <2>1, OverScale
    <2> QED BY <2>1, <2>3, <2>4, <2>5, <2>6
  <1>2. ASSUME NEW a \in Fractions, NEW m \in Int, NEW n \in Int
        PROVE  Plus(Scale(m, a), Scale(n, a)) = Scale(m + n, a)
    <2>1. Whole(m) \in Fractions /\ Whole(n) \in Fractions /\ Plus(Whole(m), Whole(n)) = Whole(m + n)
          /\ Whole(m + n) \in Fractions
      BY WholeIsOver, WholeOperations
    <2>2. Times(Whole(m), a) = Times(a, Whole(m)) /\ Times(Whole(n), a) = Times(a, Whole(n))
          /\ Times(Whole(m + n), a) = Times(a, Whole(m + n))
      BY <2>1, TimesLaws
    <2>3. Times(a, Plus(Whole(m), Whole(n))) = Plus(Times(a, Whole(m)), Times(a, Whole(n)))
      BY <2>1, TimesLaws
    <2> QED BY <2>1, <2>2, <2>3 DEF Scale
  <1>3. \A a \in Fractions : Scale(0, a) = Zero
    BY TimesLaws DEF Scale, Zero
  <1> QED BY <1>1, <1>2, <1>3

AverageStart == [qty |-> 0, avg |-> Zero, sales |-> << >>]

AverageWalk(d, year, fx) ==
    FoldLeft(LAMBDA acc, x : AverageStep(acc, x, YearOf, year, fx), AverageStart, d)

AverageAcc == [qty : Int, avg : Fractions, sales : Seq(SaleRow)]

IsAverage(h, d, year, fx) ==
    h = [w \in SUBSET DOMAIN d |->
            IF w = {} THEN AverageStart ELSE AverageStep(h[w \ {Max(w)}], d[Max(w)], YearOf, year, fx)]

LEMMA AverageIsFold == \A d, year, fx : AverageWalk(d, year, fx) = (CHOOSE h : IsAverage(h, d, year, fx))[DOMAIN d]
  BY DEF AverageWalk, FoldLeft, MapThenFoldSet, IsAverage

\* The average after a BUY.
NewAverage(qty, avg, x, fx) ==
    IF qty + x.qty > 0 THEN Divide(Plus(Scale(qty, avg), Whole(LotCost(x, fx))), Whole(qty + x.qty)) ELSE avg

LEMMA AverageStepParts ==
  ASSUME NEW fx, WonRates(fx), NEW year, NEW acc \in AverageAcc, NEW x \in TaxRow
  PROVE  LET next == AverageStep(acc, x, YearOf, year, fx)
             basis == Scale(x.qty, acc.avg)
         IN  /\ next \in AverageAcc /\ basis \in Fractions /\ x.qty \in Nat /\ x.qty > 0
             /\ x.type = "BUY" => /\ next.qty = acc.qty + x.qty /\ next.sales = acc.sales
                                  /\ next.avg = NewAverage(acc.qty, acc.avg, x, fx)
             /\ x.type # "BUY" => /\ next.qty = acc.qty - x.qty /\ next.avg = acc.avg
                                  /\ next.sales = IF YearOf[x.at] = year
                                                    THEN Append(acc.sales, Sale(x, fx, basis))
                                                  ELSE acc.sales
  <1> DEFINE next == AverageStep(acc, x, YearOf, year, fx)
             basis == Scale(x.qty, acc.avg)
             avg == NewAverage(acc.qty, acc.avg, x, fx)
  <1>1. /\ acc.qty \in Int /\ acc.avg \in Fractions /\ acc.sales \in Seq(SaleRow)
        /\ acc = [qty |-> acc.qty, avg |-> acc.avg, sales |-> acc.sales]
    BY DEF AverageAcc
  <1>2. x \in LotRow /\ x.qty \in Nat /\ x.qty > 0
    BY DEF TaxRow, LotRow
  <1>3. basis \in Fractions /\ Sale(x, fx, basis) \in SaleRow
    <2>1. basis \in Fractions
      BY <1>1, <1>2, ScaleTyped
    <2> QED BY <2>1, SaleTyped
  <1>4. avg \in Fractions
    <2>1. LotCost(x, fx) \in Int
      BY <1>2, WonCostUnfold DEF WonRates
    <2>2. Plus(Scale(acc.qty, acc.avg), Whole(LotCost(x, fx))) \in Fractions
      BY <1>1, <2>1, ScaleTyped, WholeIsOver, PlusLaws
    <2>3. acc.qty + x.qty > 0 => acc.qty + x.qty \in Denominators
      BY <1>1, <1>2 DEF Denominators
    <2> QED BY <1>1, <2>2, <2>3, SharesOfAverage DEF NewAverage
  <1>5. CASE x.type = "BUY"
    <2>1. next = [qty |-> acc.qty + x.qty, avg |-> avg, sales |-> acc.sales]
      BY <1>1, <1>5 DEF AverageStep, NewAverage, LotCost
    <2>2. acc.qty + x.qty \in Int
      BY <1>1, <1>2
    <2> HIDE DEF next, avg, basis
    <2> QED BY <1>1, <1>2, <1>3, <1>4, <1>5, <2>1, <2>2 DEF AverageAcc, next, avg, basis
  <1>6. CASE x.type # "BUY" /\ YearOf[x.at] # year
    <2>1. next = [qty |-> acc.qty - x.qty, avg |-> acc.avg, sales |-> acc.sales]
      BY <1>1, <1>6 DEF AverageStep
    <2>2. acc.qty - x.qty \in Int
      BY <1>1, <1>2
    <2> HIDE DEF next, avg, basis
    <2> QED BY <1>1, <1>2, <1>3, <1>6, <2>1, <2>2 DEF AverageAcc, next, basis
  <1>7. CASE x.type # "BUY" /\ YearOf[x.at] = year
    <2>1. next = [qty |-> acc.qty - x.qty, avg |-> acc.avg, sales |-> Append(acc.sales, Sale(x, fx, basis))]
      BY <1>1, <1>7 DEF AverageStep
    <2>2. acc.qty - x.qty \in Int
      BY <1>1, <1>2
    <2> HIDE DEF next, avg, basis
    <2>3. Append(acc.sales, Sale(x, fx, basis)) \in Seq(SaleRow)
      BY <1>1, <1>3
    <2> QED BY <1>1, <1>2, <1>3, <1>7, <2>1, <2>2, <2>3 DEF AverageAcc, next, basis
  <1> QED BY <1>5, <1>6, <1>7

LEMMA AverageUnfold ==
  ASSUME NEW fx, WonRates(fx), NEW year
  PROVE  /\ AverageWalk(<< >>, year, fx) = AverageStart
         /\ \A d \in Seq(TaxRow) : AverageWalk(d, year, fx) \in AverageAcc
         /\ \A d \in Seq(TaxRow), x \in TaxRow :
               AverageWalk(Append(d, x), year, fx) = AverageStep(AverageWalk(d, year, fx), x, YearOf, year, fx)
  <1> DEFINE X == TaxRow
             V == AverageAcc
             step(acc, x) == AverageStep(acc, x, YearOf, year, fx)
             G == [p \in V \X X |-> step(p[1], p[2])]
  <1>1. \A acc \in V, x \in X : step(acc, x) \in V /\ G[<<acc, x>>] = step(acc, x)
    BY AverageStepParts
  <1>2. G \in [V \X X -> V] /\ AverageStart \in V
    <2>1. AverageStart \in V
      BY PlusLaws DEF AverageStart, AverageAcc
    <2> QED BY <1>1, <2>1
  <1> HIDE DEF G, X, V
  <1>3. PICK f : FoldsBy(f, G, AverageStart, X, V)
    BY <1>2, SequenceFold
  <1>4. ASSUME NEW d \in Seq(X) PROVE AverageWalk(d, year, fx) = f[d]
    <2> DEFINE k == CHOOSE h : IsAverage(h, d, year, fx)
    <2>1. PICK h : Partials(h, d, G, AverageStart, X, V) /\ h[DOMAIN d] = f[d]
      BY <1>3, FoldHas
    <2>2. IsAverage(h, d, year, fx)
      <3>1. \A w \in SUBSET DOMAIN d : h[w] = IF w = {} THEN AverageStart ELSE step(h[w \ {Max(w)}], d[Max(w)])
        BY <1>1, <2>1 DEF Partials
      <3>2. h = [w \in SUBSET DOMAIN d |-> h[w]]
        BY <2>1 DEF Partials
      <3> QED BY <3>1, <3>2 DEF IsAverage
    <2> HIDE DEF k
    <2>3. IsAverage(k, d, year, fx)
      BY <2>2 DEF k
    <2>4. \A w \in SUBSET DOMAIN d : k[w] = IF w = {} THEN AverageStart ELSE step(k[w \ {Max(w)}], d[Max(w)])
      BY <2>3 DEF IsAverage
    <2>5. \A w \in SUBSET DOMAIN d : w # {} => d[Max(w)] \in X
      BY <2>1 DEF Partials
    <2> HIDE DEF step
    <2>6. k[DOMAIN d] = h[DOMAIN d]
      <3>1. k[{}] = AverageStart
        BY <2>4
      <3>2. \A w \in SUBSET DOMAIN d :
               w # {} /\ k[w \ {Max(w)}] \in V => k[w] = G[<<k[w \ {Max(w)}], d[Max(w)]>>]
        BY <1>1, <2>4, <2>5
      <3>3. Follows(k, d, G, AverageStart, V)
        BY <3>1, <3>2 DEF Follows
      <3> QED BY <2>1, <3>3, FoldOnly
    <2> QED BY <2>1, <2>6, AverageIsFold DEF k
  <1>5. << >> \in Seq(X) /\ \A d \in Seq(X), x \in X : Append(d, x) \in Seq(X)
    OBVIOUS
  <1>6. /\ f[<< >>] = AverageStart
        /\ \A d \in Seq(X) : f[d] \in V
        /\ \A d \in Seq(X), x \in X : f[Append(d, x)] = step(f[d], x)
    BY <1>1, <1>3 DEF FoldsBy
  <1> QED BY <1>4, <1>5, <1>6 DEF X, V

-----------------------------------------------------------------------------
(***************************************************************************)
(* The costs over the years.                                               *)
(***************************************************************************)
TaxYears == {YearOf[d] : d \in Instants}

LEMMA TaxYearsFinite == IsFiniteSet(TaxYears) /\ \A d \in Instants : YearOf[d] \in TaxYears
  <1>2. IsFiniteSet(Instants)
    BY PortfolioAssumption
  <1> DEFINE f == [d \in Instants |-> YearOf[d]]
  <1>3. f \in Surjection(Instants, TaxYears)
    BY DEF Surjection, TaxYears
  <1>4. IsFiniteSet(TaxYears)
    <2> HIDE DEF f
    <2> QED BY <1>2, <1>3, FS_Surjection
  <1> QED BY <1>4 DEF TaxYears

\* A sale is in the report of one year.
InOneYear(f, g, y, b) ==
    /\ g[y] = Plus(f[y], b)
    /\ \A z \in TaxYears : z # y => g[z] = f[z]

LEMMA OneYear ==
  ASSUME NEW f, NEW g, NEW y \in TaxYears, NEW b \in Fractions,
         \A z \in TaxYears : f[z] \in Fractions, InOneYear(f, g, y, b)
  PROVE  RatioSum(f, TaxYears) \in Fractions /\ RatioSum(g, TaxYears) = Plus(RatioSum(f, TaxYears), b)
  <1> DEFINE R == TaxYears \ {y}
  <1>1. Addends(f, TaxYears) /\ f[y] \in Fractions
    BY TaxYearsFinite DEF Addends
  <1>2. Addends(g, TaxYears)
    <2>1. Plus(f[y], b) \in Fractions
      BY <1>1, PlusLaws
    <2>2. \A z \in TaxYears : g[z] \in Fractions
      BY <2>1 DEF InOneYear
    <2> QED BY <2>2, TaxYearsFinite DEF Addends
  <1>3. R \in SUBSET TaxYears
    OBVIOUS
  <1>4. RatioSum(f, TaxYears) = Plus(f[y], RatioSum(f, R)) /\ RatioSum(g, TaxYears) = Plus(g[y], RatioSum(g, R))
    BY <1>1, <1>2, TotalRemove
  <1>5. RatioSum(f, R) = RatioSum(g, R)
    <2>1. Addends(f, R)
      BY <1>1, <1>3, AddendsOfPart
    <2>2. \A z \in R : f[z] = g[z]
      BY DEF InOneYear
    <2> HIDE DEF R
    <2> QED BY <2>1, <2>2, TotalCong
  <1>6. RatioSum(f, R) \in Fractions /\ RatioSum(f, TaxYears) \in Fractions
    BY <1>1, <1>3, TotalUnfold
  <1>7. g[y] = Plus(f[y], b)
    BY DEF InOneYear
  <1>8. Plus(Plus(f[y], b), RatioSum(f, R)) = Plus(Plus(f[y], RatioSum(f, R)), b)
    <2>1. \A p, q, r \in Fractions : Plus(Plus(p, q), r) = Plus(Plus(p, r), q)
      <3> SUFFICES ASSUME NEW p \in Fractions, NEW q \in Fractions, NEW r \in Fractions
                   PROVE  Plus(Plus(p, q), r) = Plus(Plus(p, r), q)
        OBVIOUS
      <3>1. Plus(Plus(p, q), r) = Plus(p, Plus(q, r)) /\ Plus(Plus(p, r), q) = Plus(p, Plus(r, q))
            /\ Plus(q, r) = Plus(r, q)
        BY PlusLaws
      <3> QED BY <3>1
    <2> QED BY <1>1, <1>6, <2>1
  <1> QED BY <1>4, <1>5, <1>6, <1>7, <1>8

\* Nothing sold yet, in any year.
LEMMA NoYear ==
  ASSUME NEW f, \A z \in TaxYears : f[z] = Zero
  PROVE  RatioSum(f, TaxYears) = Zero
  BY TaxYearsFinite, TotalOfZeros

-----------------------------------------------------------------------------
(***************************************************************************)
(* The rows of one symbol in order, and what its BUYs cost in won.         *)
(***************************************************************************)
LEMMA TaxOrdered ==
  ASSUME IInv, NEW s
  PROVE  OrderedOf(trades, s) \in Seq(TaxRow)
  <1> DEFINE ids == {i \in DOMAIN trades : trades[i].sym = s}
             n == Cardinality(ids)
             c == InOrder(trades, ids)
  <1>1. trades \in Seq(TradeRow) /\ Typed /\ ids \in SUBSET DOMAIN trades
    BY DEF IInv, Typed
  <1>2. \A i \in DOMAIN trades : trades[i] \in TaxRow
    <2> SUFFICES ASSUME NEW i \in DOMAIN trades PROVE trades[i] \in TaxRow
      OBVIOUS
    <2>1. trades[i] \in TradeRow
      BY <1>1, ElementOfSeq
    <2>2. trades[i].at \in Instants
      BY DEF IInv, Typed
    <2> QED BY <2>1, <2>2 DEF TradeRow, TaxRow
  <1>3. IsFiniteSet(ids) /\ Dated(trades, ids) /\ c \in Seq(TradeRow)
    BY <1>1, InOrderTyped
  <1>4. /\ n \in Nat /\ DOMAIN c = 1 .. n /\ c = [p \in 1 .. n |-> c[p]]
        /\ \E h \in [1 .. n -> ids] : \A p \in 1 .. n : c[p] = trades[h[p]]
    <2>1. /\ n \in Nat /\ DOMAIN c = 1 .. n /\ c = [p \in 1 .. n |-> c[p]]
          /\ \E h \in [1 .. n -> ids] :
                /\ \A p \in 1 .. n : c[p] = trades[h[p]]
                /\ \A p, q \in 1 .. n : p < q => Precedes(trades, h[p], h[q])
                /\ {h[p] : p \in 1 .. n} = ids
      <3> HIDE DEF ids
      <3> QED BY <1>3, OrderedPlaces
    <2> QED BY <2>1
  <1>5. \A p \in 1 .. n : c[p] \in TaxRow
    <2>1. PICK h \in [1 .. n -> ids] : \A p \in 1 .. n : c[p] = trades[h[p]]
      BY <1>4
    <2>2. ids \subseteq DOMAIN trades
      OBVIOUS
    <2> HIDE DEF n, c, ids
    <2> QED BY <1>2, <2>1, <2>2
  <1> HIDE DEF n, c
  <1>6. c \in Seq(TaxRow)
    BY <1>4, <1>5
  <1> QED BY <1>6 DEF c, OrderedOf

LEMMA WonRateTyped == IInv => \A s : WonRates(WonRate(s))
  <1> SUFFICES ASSUME IInv, NEW s, NEW d \in Instants PROVE WonRate(s)[d] \in Nat
    BY DEF WonRates
  <1>1. TradeDateRate(Currency[s], d) \in Nat /\ RateNow(Currency[s]) \in Nat
    BY TradeDateRateTyped, RatesTyped
  <1> QED BY <1>1 DEF WonRate

\* What the BUYs among the first rows cost.
CostSoFar(cost, o, fx) ==
    /\ cost[0] = 0 /\ cost[Len(o)] = WonCost(BuyLots(o), fx)
    /\ \A m \in 0 .. Len(o) : cost[m] \in Int
    /\ \A m \in 1 .. Len(o) :
          cost[m] = IF o[m].type = "BUY" THEN cost[m - 1] + LotCost(o[m], fx) ELSE cost[m - 1]

LEMMA CostsAdd ==
  ASSUME NEW fx, WonRates(fx), NEW o \in Seq(TaxRow)
  PROVE  \E cost : CostSoFar(cost, o, fx)
  <1> DEFINE N == Len(o)
             A == {x \in ToSet(o) : x.type = "BUY"}
  <1>1. PICK kept : /\ Keep(o, A) = kept[N] /\ kept[0] = << >>
                    /\ \A n \in 1 .. N : kept[n] = IF o[n] \in A THEN Append(kept[n - 1], o[n]) ELSE kept[n - 1]
    <2> HIDE DEF A
    <2> QED BY KeepUnfold
  <1>2. N \in Nat /\ \A n \in 1 .. N : o[n] \in TaxRow /\ o[n] \in LotRow
    <2>1. N \in Nat /\ \A n \in 1 .. N : o[n] \in TaxRow
      BY ElementOfSeq
    <2>2. TaxRow \subseteq LotRow
      BY DEF TaxRow, LotRow
    <2> QED BY <2>1, <2>2
  <1>3. \A n \in 1 .. N : o[n] \in A <=> o[n].type = "BUY"
    <2>1. \A n \in 1 .. N : o[n] \in ToSet(o)
      BY DEF ToSet
    <2> QED BY <2>1
  <1>4. BuyLots(o) = Keep(o, A)
    BY DEF BuyLots
  <1> HIDE DEF A, N
  <1> DEFINE cost == [m \in 0 .. N |-> WonCost(kept[m], fx)]
             good == {m \in 0 .. N : kept[m] \in Seq(LotRow)}
  <1>5. \A m \in 0 .. N : kept[m] \in Seq(LotRow)
    <2>1. 0 \in good
      <3>1. 0 \in 0 .. N /\ << >> \in Seq(LotRow)
        BY <1>2
      <3> QED BY <1>1, <3>1
    <2>2. ASSUME NEW m \in 1 .. N, m - 1 \in good PROVE m \in good
      <3>1. kept[m - 1] \in Seq(LotRow) /\ m \in 0 .. N /\ o[m] \in LotRow
        BY <1>2, <2>2
      <3>2. Append(kept[m - 1], o[m]) \in Seq(LotRow)
        BY <3>1
      <3>3. kept[m] = IF o[m] \in A THEN Append(kept[m - 1], o[m]) ELSE kept[m - 1]
        BY <1>1
      <3> QED BY <3>1, <3>2, <3>3
    <2>3. \A m \in 0 .. N : m \in good
      <3> HIDE DEF good
      <3> QED BY <1>2, <2>1, <2>2, StepByStep
    <2> QED BY <2>3
  <1> HIDE DEF good
  <1>6. /\ WonCost(<< >>, fx) = 0
        /\ \A d \in Seq(LotRow) : WonCost(d, fx) \in Int
        /\ \A d \in Seq(LotRow), x \in LotRow : WonCost(Append(d, x), fx) = WonCost(d, fx) + LotCost(x, fx)
    BY WonCostUnfold DEF WonRates
  <1>7. \A m \in 0 .. N : cost[m] = WonCost(kept[m], fx) /\ cost[m] \in Int
    BY <1>5, <1>6
  <1>8. cost[0] = 0 /\ cost[N] = WonCost(BuyLots(o), fx)
    <2>1. 0 \in 0 .. N /\ N \in 0 .. N
      BY <1>2
    <2> QED BY <1>1, <1>4, <1>6, <1>7, <2>1
  <1>9. ASSUME NEW m \in 1 .. N
        PROVE  cost[m] = IF o[m].type = "BUY" THEN cost[m - 1] + LotCost(o[m], fx) ELSE cost[m - 1]
    <2>1. m - 1 \in 0 .. N /\ m \in 0 .. N /\ o[m] \in LotRow
      BY <1>2
    <2>2. cost[m] = WonCost(kept[m], fx) /\ cost[m - 1] = WonCost(kept[m - 1], fx) /\ kept[m - 1] \in Seq(LotRow)
      BY <1>5, <1>7, <2>1
    <2>3. kept[m] = IF o[m].type = "BUY" THEN Append(kept[m - 1], o[m]) ELSE kept[m - 1]
      BY <1>1, <1>3
    <2> HIDE DEF cost
    <2> QED BY <1>6, <2>1, <2>2, <2>3
  <1> HIDE DEF cost
  <1> QED BY <1>7, <1>8, <1>9 DEF CostSoFar, N

-----------------------------------------------------------------------------
(***************************************************************************)
(* What is still in the books and what the sales of all years cost add up  *)
(* to what the BUYs cost, after every row, by either method.               *)
(***************************************************************************)
LEMMA MovedCosts ==
  /\ \A h, t, w \in Fractions : Plus(Plus(h, w), t) = Plus(Plus(h, t), w)
  /\ \A r, b, t \in Fractions : Plus(r, Plus(t, b)) = Plus(Plus(r, b), t)
  <1>1. ASSUME NEW h \in Fractions, NEW t \in Fractions, NEW w \in Fractions
        PROVE  Plus(Plus(h, w), t) = Plus(Plus(h, t), w)
    <2>1. Plus(Plus(h, w), t) = Plus(h, Plus(w, t)) /\ Plus(Plus(h, t), w) = Plus(h, Plus(t, w))
          /\ Plus(w, t) = Plus(t, w)
      BY PlusLaws
    <2> QED BY <2>1
  <1>2. ASSUME NEW r \in Fractions, NEW b \in Fractions, NEW t \in Fractions
        PROVE  Plus(r, Plus(t, b)) = Plus(Plus(r, b), t)
    <2>1. Plus(Plus(r, b), t) = Plus(r, Plus(b, t)) /\ Plus(b, t) = Plus(t, b)
      BY PlusLaws
    <2> QED BY <2>1
  <1> QED BY <1>1, <1>2

\* The rest of a walk that never runs short.
LEMMA WalkTakes ==
  ASSUME NEW q \in Int, NEW x \in TaxRow
  PROVE  /\ x.qty \in Nat \ {0} /\ x.type \in {"BUY", "SELL"} /\ x.at \in Instants /\ x \in LotRow
         /\ x.type = "BUY" => WalkStep(q, x) = q + x.qty
         /\ x.type # "BUY" /\ q >= x.qty => WalkStep(q, x) = q - x.qty /\ Above(q, x.qty) = q - x.qty
  <1>1. x.qty \in Nat \ {0} /\ x.type \in {"BUY", "SELL"} /\ x.at \in Instants /\ x \in LotRow
    BY DEF TaxRow, LotRow
  <1> QED BY <1>1 DEF WalkStep, Above

FifoBases(d, fx) == [y \in TaxYears |-> BasisOf(FifoWalk(d, y, fx).sales)]

FifoExact(lots, d, c, fx) ==
    /\ lots \in Seq(LotRow) /\ \A i \in DOMAIN lots : lots[i].qty > 0
    /\ SharesOf(lots) = Walk(d)
    /\ \A y \in TaxYears : FifoWalk(d, y, fx).lots = lots
    /\ Plus(Whole(WonCost(lots, fx)), RatioSum(FifoBases(d, fx), TaxYears)) = Whole(c)

LEMMA FifoBuys ==
  ASSUME NEW fx, WonRates(fx), NEW d \in Seq(TaxRow), NEW x \in TaxRow, x.type = "BUY",
         NEW c \in Int, NEW lots, FifoExact(lots, d, c, fx), Walk(d) \in Int,
         Walk(Append(d, x)) = WalkStep(Walk(d), x)
  PROVE  FifoExact(Append(lots, x), Append(d, x), c + LotCost(x, fx), fx)
  <1> DEFINE e == Append(d, x)
             more == Append(lots, x)
  <1>1. /\ lots \in Seq(LotRow) /\ \A i \in DOMAIN lots : lots[i].qty > 0
        /\ SharesOf(lots) = Walk(d)
        /\ \A y \in TaxYears : FifoWalk(d, y, fx).lots = lots
        /\ Plus(Whole(WonCost(lots, fx)), RatioSum(FifoBases(d, fx), TaxYears)) = Whole(c)
    BY DEF FifoExact
  <1>2. x \in LotRow /\ x.qty \in Nat \ {0} /\ Walk(e) = Walk(d) + x.qty
    BY WalkTakes
  <1>3. more \in Seq(LotRow)
    BY <1>1, <1>2
  <1>4. \A i \in DOMAIN more : more[i].qty > 0
    <2> SUFFICES ASSUME NEW i \in DOMAIN more PROVE more[i].qty > 0
      OBVIOUS
    <2>1. (i \in DOMAIN lots /\ more[i] = lots[i]) \/ more[i] = x
      BY <1>1, <1>2
    <2> QED BY <1>1, <1>2, <2>1
  <1>5. ASSUME NEW y
        PROVE  /\ FifoWalk(d, y, fx) \in FifoAcc
               /\ FifoWalk(e, y, fx).lots = Append(FifoWalk(d, y, fx).lots, x)
               /\ FifoWalk(e, y, fx).sales = FifoWalk(d, y, fx).sales
    <2>1. FifoWalk(d, y, fx) \in FifoAcc /\ FifoWalk(e, y, fx) = FifoStep(FifoWalk(d, y, fx), x, YearOf, y, fx)
      BY FifoUnfold
    <2> QED BY <2>1, FifoStepParts
  <1>6. FifoBases(e, fx) = FifoBases(d, fx)
    BY <1>5 DEF FifoBases
  <1>7. \A y \in TaxYears : FifoBases(d, fx)[y] \in Fractions
    <2>1. \A y \in TaxYears : FifoWalk(d, y, fx).sales \in Seq(SaleRow)
      BY <1>5 DEF FifoAcc
    <2> QED BY <2>1, BasisUnfold DEF FifoBases
  <1>8. RatioSum(FifoBases(d, fx), TaxYears) \in Fractions
    BY <1>7, TaxYearsFinite, TotalUnfold DEF Addends
  <1>9. WonCost(more, fx) = WonCost(lots, fx) + LotCost(x, fx) /\ WonCost(lots, fx) \in Int /\ LotCost(x, fx) \in Int
    BY <1>1, <1>2, WonCostUnfold DEF WonRates
  <1>10. SharesOf(more) = Walk(e)
    BY <1>1, <1>2, SharesUnfold
  <1> HIDE DEF e, more
  <1>11. Plus(Whole(WonCost(more, fx)), RatioSum(FifoBases(e, fx), TaxYears)) = Whole(c + LotCost(x, fx))
    <2>1. /\ Whole(WonCost(more, fx)) = Plus(Whole(WonCost(lots, fx)), Whole(LotCost(x, fx)))
          /\ Whole(c + LotCost(x, fx)) = Plus(Whole(c), Whole(LotCost(x, fx)))
          /\ Whole(WonCost(lots, fx)) \in Fractions /\ Whole(LotCost(x, fx)) \in Fractions
      <3>1. c \in Int
        BY <1>1
      <3>2. Whole(c + LotCost(x, fx)) = Plus(Whole(c), Whole(LotCost(x, fx)))
        BY <1>9, <3>1, WholeOperations
      <3>3. Whole(WonCost(lots, fx) + LotCost(x, fx)) = Plus(Whole(WonCost(lots, fx)), Whole(LotCost(x, fx)))
        BY <1>9, WholeOperations
      <3>4. Whole(WonCost(lots, fx)) \in Fractions /\ Whole(LotCost(x, fx)) \in Fractions
        BY <1>9, WholeIsOver
      <3> QED BY <1>9, <3>2, <3>3, <3>4
    <2> QED BY <1>1, <1>6, <1>8, <2>1, MovedCosts
  <1>12. \A y \in TaxYears : FifoWalk(e, y, fx).lots = more
    BY <1>1, <1>5 DEF more
  <1>13. FifoExact(more, e, c + LotCost(x, fx), fx)
    BY <1>3, <1>4, <1>10, <1>11, <1>12 DEF FifoExact
  <1> QED BY <1>13 DEF e, more

LEMMA FifoSells ==
  ASSUME NEW fx, WonRates(fx), NEW d \in Seq(TaxRow), NEW x \in TaxRow, x.type # "BUY",
         NEW c \in Int, NEW lots, FifoExact(lots, d, c, fx), Walk(d) \in Int,
         Walk(Append(d, x)) = WalkStep(Walk(d), x), Walk(d) >= x.qty
  PROVE  FifoExact(LotsAfter(lots, x.qty), Append(d, x), c, fx)
  <1> DEFINE e == Append(d, x)
             left == LotsAfter(lots, x.qty)
             b == FifoBasis(lots, x, fx)
             y0 == YearOf[x.at]
  <1>1. /\ lots \in Seq(LotRow)
        /\ SharesOf(lots) = Walk(d)
        /\ \A y \in TaxYears : FifoWalk(d, y, fx).lots = lots
        /\ Plus(Whole(WonCost(lots, fx)), RatioSum(FifoBases(d, fx), TaxYears)) = Whole(c)
    BY DEF FifoExact
  <1>2. x \in LotRow /\ x.qty \in Nat /\ x.at \in Instants /\ Walk(e) = Above(Walk(d), x.qty)
    BY WalkTakes
  <1>3. left \in Seq(LotRow) /\ (\A i \in DOMAIN left : left[i].qty > 0) /\ SharesOf(left) = Walk(e)
    BY <1>1, <1>2, LotsLeft
  <1>4. ASSUME NEW y \in TaxYears
        PROVE  /\ FifoWalk(d, y, fx) \in FifoAcc /\ FifoWalk(e, y, fx).lots = left
               /\ FifoWalk(e, y, fx).sales = IF y0 = y THEN Append(FifoWalk(d, y, fx).sales, Sale(x, fx, b))
                                             ELSE FifoWalk(d, y, fx).sales
    <2>1. FifoWalk(d, y, fx) \in FifoAcc /\ FifoWalk(e, y, fx) = FifoStep(FifoWalk(d, y, fx), x, YearOf, y, fx)
      BY FifoUnfold
    <2>2. FifoWalk(d, y, fx).lots = lots
      BY <1>1
    <2> HIDE DEF e
    <2> DEFINE now == FifoWalk(d, y, fx)
    <2>3. /\ FifoWalk(e, y, fx).lots = LotsAfter(now.lots, x.qty)
          /\ FifoWalk(e, y, fx).sales = IF YearOf[x.at] = y
                                          THEN Append(now.sales, Sale(x, fx, FifoBasis(now.lots, x, fx)))
                                        ELSE now.sales
      <3> HIDE DEF now
      <3>1. now \in FifoAcc /\ FifoWalk(e, y, fx) = FifoStep(now, x, YearOf, y, fx)
        BY <2>1 DEF now
      <3>2. /\ FifoStep(now, x, YearOf, y, fx).lots = LotsAfter(now.lots, x.qty)
            /\ FifoStep(now, x, YearOf, y, fx).sales = IF YearOf[x.at] = y
                                          THEN Append(now.sales, Sale(x, fx, FifoBasis(now.lots, x, fx)))
                                        ELSE now.sales
        <4> HIDE DEF left, b, y0
        <4>1. now \in FifoAcc
          BY <3>1
        <4>2. LET next == FifoStep(now, x, YearOf, y, fx)
              IN  /\ next \in FifoAcc /\ FifoBasis(now.lots, x, fx) \in Fractions
                  /\ x.type = "BUY" => next.lots = Append(now.lots, x) /\ next.sales = now.sales
                  /\ x.type # "BUY" => /\ next.lots = LotsAfter(now.lots, x.qty)
                                       /\ next.sales = IF YearOf[x.at] = y
                                                         THEN Append(now.sales, Sale(x, fx, FifoBasis(now.lots, x, fx)))
                                                       ELSE now.sales
          BY <4>1, FifoStepParts
        <4> QED BY <4>2
      <3> QED BY <3>1, <3>2
    <2> QED BY <2>1, <2>2, <2>3
  <1>5. WonCost(lots, fx) \in Int /\ WonCost(left, fx) \in Int
    BY <1>1, <1>3, WonCostUnfold DEF WonRates
  <1>6. b \in Fractions /\ Whole(WonCost(left, fx)) \in Fractions
        /\ Plus(Whole(WonCost(left, fx)), b) = Whole(WonCost(lots, fx))
    <2> DEFINE p == WonCost(lots, fx)
               q == WonCost(left, fx)
    <2>1. p - q \in Int /\ q + (p - q) = p
      BY <1>5
    <2>2. b = Whole(p - q)
      BY DEF FifoBasis
    <2> HIDE DEF b
    <2>3. b \in Fractions /\ Whole(q) \in Fractions /\ Plus(Whole(q), b) = Whole(p)
      <3>1. q \in Int /\ p - q \in Int
        BY <1>5
      <3> HIDE DEF p, q
      <3>2. Whole(p - q) \in Fractions /\ Whole(q) \in Fractions
        BY <3>1, WholeIsOver
      <3>3. Plus(Whole(q), Whole(p - q)) = Whole(q + (p - q))
        BY <3>1, WholeOperations
      <3> QED BY <2>1, <2>2, <3>2, <3>3
    <2> QED BY <2>3 DEF p, q
  <1>7. Sale(x, fx, b) \in SaleRow /\ Sale(x, fx, b).basis = b
    BY <1>6, SaleTyped
  <1> HIDE DEF e, left, b, y0
  <1>8. \A y \in TaxYears : FifoWalk(d, y, fx).sales \in Seq(SaleRow)
    BY <1>4 DEF FifoAcc
  <1>9. \A y \in TaxYears : FifoBases(d, fx)[y] \in Fractions
    BY <1>8, BasisUnfold DEF FifoBases
  <1>10. y0 \in TaxYears
    BY <1>2, TaxYearsFinite DEF y0
  <1>11. InOneYear(FifoBases(d, fx), FifoBases(e, fx), y0, b)
    <2>1. FifoBases(e, fx)[y0] = Plus(FifoBases(d, fx)[y0], b)
      <3>1. FifoWalk(e, y0, fx).sales = Append(FifoWalk(d, y0, fx).sales, Sale(x, fx, b))
        BY <1>4, <1>10
      <3>2. BasisOf(FifoWalk(e, y0, fx).sales) = Plus(BasisOf(FifoWalk(d, y0, fx).sales), b)
        BY <1>7, <1>8, <1>10, <3>1, BasisUnfold
      <3> QED BY <1>10, <3>2 DEF FifoBases
    <2>2. \A z \in TaxYears : z # y0 => FifoBases(e, fx)[z] = FifoBases(d, fx)[z]
      BY <1>4 DEF FifoBases
    <2> QED BY <2>1, <2>2 DEF InOneYear
  <1>12. /\ RatioSum(FifoBases(d, fx), TaxYears) \in Fractions
         /\ RatioSum(FifoBases(e, fx), TaxYears) = Plus(RatioSum(FifoBases(d, fx), TaxYears), b)
    BY <1>6, <1>9, <1>10, <1>11, OneYear
  <1>13. Plus(Whole(WonCost(left, fx)), RatioSum(FifoBases(e, fx), TaxYears)) = Whole(c)
    BY <1>1, <1>6, <1>12, MovedCosts
  <1>14. \A y \in TaxYears : FifoWalk(e, y, fx).lots = left
    BY <1>4
  <1>15. FifoExact(left, e, c, fx)
    BY <1>3, <1>13, <1>14 DEF FifoExact
  <1> QED BY <1>15 DEF e, left

LEMMA TaxPrefixes ==
  ASSUME NEW o \in Seq(TaxRow)
  PROVE  /\ Len(o) \in Nat /\ SubSeq(o, 1, 0) = << >> /\ SubSeq(o, 1, Len(o)) = o /\ Walk(<< >>) = 0
         /\ \A m \in 0 .. Len(o) : SubSeq(o, 1, m) \in Seq(TaxRow) /\ Walk(SubSeq(o, 1, m)) \in Int
         /\ \A m \in 1 .. Len(o) :
               /\ m - 1 \in 0 .. Len(o) /\ m \in 0 .. Len(o) /\ o[m] \in TaxRow
               /\ SubSeq(o, 1, m) = Append(SubSeq(o, 1, m - 1), o[m])
               /\ Walk(Append(SubSeq(o, 1, m - 1), o[m])) = WalkStep(Walk(SubSeq(o, 1, m - 1)), o[m])
  <1>1. /\ SubSeq(o, 1, 0) = << >> /\ SubSeq(o, 1, Len(o)) = o
        /\ \A m \in 0 .. Len(o) : SubSeq(o, 1, m) \in Seq(TaxRow)
        /\ \A m \in 1 .. Len(o) : SubSeq(o, 1, m) = Append(SubSeq(o, 1, m - 1), o[m])
    BY EveryPrefix
  <1>2. \A x \in TaxRow : x.qty \in Int
    BY DEF TaxRow
  <1>3. /\ Walk(<< >>) = 0
        /\ \A d \in Seq(TaxRow) : Walk(d) \in Int
        /\ \A d \in Seq(TaxRow), x \in TaxRow : Walk(Append(d, x)) = WalkStep(Walk(d), x)
    BY <1>2, WalkUnfold
  <1>4. Len(o) \in Nat /\ \A m \in 1 .. Len(o) : o[m] \in TaxRow /\ m - 1 \in 0 .. Len(o) /\ m \in 0 .. Len(o)
    BY ElementOfSeq
  <1> QED BY <1>1, <1>3, <1>4

LEMMA FifoThroughout ==
  ASSUME NEW fx, WonRates(fx), NEW o \in Seq(TaxRow), NeverOversold(o), NEW cost, CostSoFar(cost, o, fx)
  PROVE  \E lots : FifoExact(lots, o, cost[Len(o)], fx)
  <1> DEFINE N == Len(o)
             d(m) == SubSeq(o, 1, m)
             good == {m \in 0 .. N : \E lots : FifoExact(lots, d(m), cost[m], fx)}
  <1>1. /\ N \in Nat /\ d(0) = << >> /\ d(N) = o /\ Walk(<< >>) = 0 /\ 0 \in 0 .. N /\ N \in 0 .. N
        /\ \A m \in 0 .. N : d(m) \in Seq(TaxRow) /\ Walk(d(m)) \in Int
        /\ \A m \in 1 .. N :
               /\ m - 1 \in 0 .. N /\ m \in 0 .. N /\ o[m] \in TaxRow
               /\ d(m) = Append(d(m - 1), o[m])
               /\ Walk(Append(d(m - 1), o[m])) = WalkStep(Walk(d(m - 1)), o[m])
    BY TaxPrefixes
  <1>2. \A m \in 1 .. N : o[m].type # "BUY" => Walk(d(m - 1)) >= o[m].qty
    <2> SUFFICES ASSUME NEW m \in 1 .. N, o[m].type # "BUY" PROVE Walk(d(m - 1)) >= o[m].qty
      OBVIOUS
    <2>1. o[m] \in TaxRow /\ m \in DOMAIN o
      BY <1>1
    <2>2. o[m].type = "SELL"
      BY <2>1 DEF TaxRow
    <2> QED BY <2>1, <2>2 DEF NeverOversold
  <1>3. /\ cost[0] = 0 /\ \A m \in 0 .. N : cost[m] \in Int
        /\ \A m \in 1 .. N : cost[m] = IF o[m].type = "BUY" THEN cost[m - 1] + LotCost(o[m], fx) ELSE cost[m - 1]
    BY DEF CostSoFar
  <1>4. FifoExact(<< >>, << >>, 0, fx)
    <2>1. \A y \in TaxYears : FifoWalk(<< >>, y, fx).lots = << >> /\ FifoBases(<< >>, fx)[y] = Zero
      BY FifoUnfold, BasisUnfold DEF FifoBases, FifoStart
    <2>2. RatioSum(FifoBases(<< >>, fx), TaxYears) = Zero
      BY <2>1, NoYear
    <2>3. WonCost(<< >>, fx) = 0 /\ SharesOf(<< >>) = 0 /\ << >> \in Seq(LotRow) /\ Walk(<< >>) = 0
      BY <1>1, WonCostUnfold, SharesUnfold DEF WonRates
    <2>4. Plus(Whole(0), Zero) = Whole(0)
      BY PlusLaws, WholeIsOver
    <2> QED BY <2>1, <2>2, <2>3, <2>4 DEF FifoExact
  <1>5. 0 \in good
    BY <1>1, <1>3, <1>4
  <1> HIDE DEF N, d
  <1>6. ASSUME NEW m \in 1 .. N, m - 1 \in good PROVE m \in good
    <2>1. PICK lots : FifoExact(lots, d(m - 1), cost[m - 1], fx)
      BY <1>6
    <2>2. /\ d(m - 1) \in Seq(TaxRow) /\ Walk(d(m - 1)) \in Int /\ o[m] \in TaxRow /\ cost[m - 1] \in Int
          /\ d(m) = Append(d(m - 1), o[m]) /\ m \in 0 .. N
          /\ Walk(Append(d(m - 1), o[m])) = WalkStep(Walk(d(m - 1)), o[m])
      BY <1>1, <1>3
    <2>3. CASE o[m].type = "BUY"
      <3>1. cost[m] = cost[m - 1] + LotCost(o[m], fx)
        BY <1>3, <2>3
      <3>2. FifoExact(Append(lots, o[m]), Append(d(m - 1), o[m]), cost[m - 1] + LotCost(o[m], fx), fx)
        BY <2>1, <2>2, <2>3, FifoBuys
      <3> QED BY <2>2, <3>1, <3>2
    <2>4. CASE o[m].type # "BUY"
      <3>1. cost[m] = cost[m - 1] /\ Walk(d(m - 1)) >= o[m].qty
        BY <1>2, <1>3, <2>4
      <3>2. FifoExact(LotsAfter(lots, o[m].qty), Append(d(m - 1), o[m]), cost[m - 1], fx)
        BY <2>1, <2>2, <2>4, <3>1, FifoSells
      <3> QED BY <2>2, <3>1, <3>2
    <2> QED BY <2>3, <2>4
  <1>7. N \in good
    <2> HIDE DEF good
    <2> QED BY <1>1, <1>5, <1>6, StepByStep
  <1> QED BY <1>1, <1>7 DEF N

AverageBases(d, fx) == [y \in TaxYears |-> BasisOf(AverageWalk(d, y, fx).sales)]

AverageExact(avg, d, c, fx) ==
    /\ avg \in Fractions /\ Walk(d) \in Nat
    /\ \A y \in TaxYears : AverageWalk(d, y, fx).qty = Walk(d) /\ AverageWalk(d, y, fx).avg = avg
    /\ Plus(Scale(Walk(d), avg), RatioSum(AverageBases(d, fx), TaxYears)) = Whole(c)

\* One row, in the report of one year.
AverageRow(d, x, y, fx) ==
    LET now == AverageWalk(d, y, fx)
        next == AverageWalk(Append(d, x), y, fx)
    IN /\ now.sales \in Seq(SaleRow) /\ BasisOf(now.sales) \in Fractions
       /\ x.type = "BUY" => /\ next.qty = now.qty + x.qty /\ next.sales = now.sales
                            /\ next.avg = NewAverage(now.qty, now.avg, x, fx)
       /\ x.type # "BUY" => /\ next.qty = now.qty - x.qty /\ next.avg = now.avg
                            /\ next.sales = IF YearOf[x.at] = y
                                              THEN Append(now.sales, Sale(x, fx, Scale(x.qty, now.avg)))
                                            ELSE now.sales

LEMMA AverageRows ==
  ASSUME NEW fx, WonRates(fx), NEW y, NEW d \in Seq(TaxRow), NEW x \in TaxRow
  PROVE  AverageRow(d, x, y, fx)
  <1> DEFINE now == AverageWalk(d, y, fx)
  <1>1. now \in AverageAcc /\ AverageWalk(Append(d, x), y, fx) = AverageStep(now, x, YearOf, y, fx)
    BY AverageUnfold
  <1> HIDE DEF now
  <1>2. LET next == AverageStep(now, x, YearOf, y, fx)
            basis == Scale(x.qty, now.avg)
        IN  /\ next \in AverageAcc /\ basis \in Fractions /\ x.qty \in Nat /\ x.qty > 0
            /\ x.type = "BUY" => /\ next.qty = now.qty + x.qty /\ next.sales = now.sales
                                 /\ next.avg = NewAverage(now.qty, now.avg, x, fx)
            /\ x.type # "BUY" => /\ next.qty = now.qty - x.qty /\ next.avg = now.avg
                                 /\ next.sales = IF YearOf[x.at] = y
                                                   THEN Append(now.sales, Sale(x, fx, basis))
                                                 ELSE now.sales
    BY <1>1, AverageStepParts
  <1>3. now.sales \in Seq(SaleRow)
    BY <1>1 DEF AverageAcc
  <1>4. BasisOf(now.sales) \in Fractions
    BY <1>3, BasisUnfold
  <1> QED BY <1>1, <1>2, <1>3, <1>4 DEF AverageRow, now

LEMMA AverageTotals ==
  ASSUME NEW fx, WonRates(fx), NEW d \in Seq(TaxRow)
  PROVE  /\ \A y \in TaxYears : AverageWalk(d, y, fx).sales \in Seq(SaleRow) /\ AverageBases(d, fx)[y] \in Fractions
         /\ RatioSum(AverageBases(d, fx), TaxYears) \in Fractions
  <1>1. \A y \in TaxYears : AverageWalk(d, y, fx).sales \in Seq(SaleRow)
    <2>1. \A y : AverageWalk(d, y, fx) \in AverageAcc
      BY AverageUnfold
    <2> QED BY <2>1 DEF AverageAcc
  <1>2. \A y \in TaxYears : AverageBases(d, fx)[y] \in Fractions
    BY <1>1, BasisUnfold DEF AverageBases
  <1>3. RatioSum(AverageBases(d, fx), TaxYears) \in Fractions
    BY <1>2, TaxYearsFinite, TotalUnfold DEF Addends
  <1> QED BY <1>1, <1>2, <1>3

LEMMA AverageBuys ==
  ASSUME NEW fx, WonRates(fx), NEW d \in Seq(TaxRow), NEW x \in TaxRow, x.type = "BUY",
         NEW c \in Int, NEW avg, AverageExact(avg, d, c, fx),
         Walk(Append(d, x)) = WalkStep(Walk(d), x)
  PROVE  AverageExact(NewAverage(Walk(d), avg, x, fx), Append(d, x), c + LotCost(x, fx), fx)
  <1> DEFINE e == Append(d, x)
             q == Walk(d)
             l == LotCost(x, fx)
             new == NewAverage(q, avg, x, fx)
  <1>1. /\ avg \in Fractions /\ q \in Nat
        /\ \A y \in TaxYears : AverageWalk(d, y, fx).qty = q /\ AverageWalk(d, y, fx).avg = avg
        /\ Plus(Scale(q, avg), RatioSum(AverageBases(d, fx), TaxYears)) = Whole(c)
    BY DEF AverageExact
  <1>2. x \in LotRow /\ x.qty \in Nat \ {0} /\ Walk(e) = q + x.qty
    BY <1>1, WalkTakes
  <1>3. ASSUME NEW y \in TaxYears
        PROVE  /\ AverageWalk(e, y, fx).qty = q + x.qty /\ AverageWalk(e, y, fx).avg = new
               /\ AverageWalk(e, y, fx).sales = AverageWalk(d, y, fx).sales
    <2>1. AverageRow(d, x, y, fx)
      BY AverageRows
    <2>2. AverageWalk(d, y, fx).qty = q /\ AverageWalk(d, y, fx).avg = avg
      BY <1>1
    <2> HIDE DEF q
    <2> QED BY <2>1, <2>2 DEF AverageRow
  <1>4. AverageBases(e, fx) = AverageBases(d, fx)
    BY <1>3 DEF AverageBases
  <1>5. RatioSum(AverageBases(d, fx), TaxYears) \in Fractions
    BY AverageTotals
  <1>6. l \in Int /\ Whole(l) \in Fractions /\ Scale(q, avg) \in Fractions
    <2>1. l \in Int
      BY <1>2, WonCostUnfold DEF WonRates
    <2> QED BY <1>1, <2>1, ScaleTyped, WholeIsOver
  <1> HIDE DEF e, q, l
  <1>7. q + x.qty \in Denominators /\ q + x.qty > 0 /\ q + x.qty \in Nat
    BY <1>1, <1>2 DEF Denominators
  <1>8. new \in Fractions /\ Scale(q + x.qty, new) = Plus(Scale(q, avg), Whole(l))
    <2>1. new = Divide(Plus(Scale(q, avg), Whole(l)), Whole(q + x.qty))
      BY <1>7 DEF NewAverage, l
    <2>2. Plus(Scale(q, avg), Whole(l)) \in Fractions
      BY <1>6, PlusLaws
    <2> HIDE DEF new
    <2> QED BY <1>7, <2>1, <2>2, SharesOfAverage
  <1> HIDE DEF new
  <1>9. Plus(Scale(Walk(e), new), RatioSum(AverageBases(e, fx), TaxYears)) = Whole(c + l)
    <2>1. Whole(c + l) = Plus(Whole(c), Whole(l))
      BY <1>6, WholeOperations
    <2>2. Plus(Plus(Scale(q, avg), Whole(l)), RatioSum(AverageBases(d, fx), TaxYears)) = Plus(Whole(c), Whole(l))
      BY <1>1, <1>5, <1>6, MovedCosts
    <2> QED BY <1>2, <1>4, <1>8, <2>1, <2>2
  <1>10. AverageExact(new, e, c + l, fx)
    BY <1>2, <1>3, <1>7, <1>8, <1>9 DEF AverageExact
  <1> QED BY <1>10 DEF new, e, l, q

LEMMA AverageSells ==
  ASSUME NEW fx, WonRates(fx), NEW d \in Seq(TaxRow), NEW x \in TaxRow, x.type # "BUY",
         NEW c \in Int, NEW avg, AverageExact(avg, d, c, fx),
         Walk(Append(d, x)) = WalkStep(Walk(d), x), Walk(d) >= x.qty
  PROVE  AverageExact(avg, Append(d, x), c, fx)
  <1> DEFINE e == Append(d, x)
             q == Walk(d)
             b == Scale(x.qty, avg)
             y0 == YearOf[x.at]
  <1>1. /\ avg \in Fractions /\ q \in Nat
        /\ \A y \in TaxYears : AverageWalk(d, y, fx).qty = q /\ AverageWalk(d, y, fx).avg = avg
        /\ Plus(Scale(q, avg), RatioSum(AverageBases(d, fx), TaxYears)) = Whole(c)
    BY DEF AverageExact
  <1>2. x.qty \in Nat /\ x.at \in Instants /\ Walk(e) = q - x.qty /\ q >= x.qty
    BY <1>1, WalkTakes
  <1>3. ASSUME NEW y \in TaxYears
        PROVE  /\ AverageWalk(e, y, fx).qty = q - x.qty /\ AverageWalk(e, y, fx).avg = avg
               /\ AverageWalk(e, y, fx).sales = IF y0 = y THEN Append(AverageWalk(d, y, fx).sales, Sale(x, fx, b))
                                                ELSE AverageWalk(d, y, fx).sales
    <2>1. AverageRow(d, x, y, fx)
      BY AverageRows
    <2>2. AverageWalk(d, y, fx).qty = q /\ AverageWalk(d, y, fx).avg = avg
      BY <1>1
    <2> HIDE DEF q
    <2> QED BY <2>1, <2>2 DEF AverageRow
  <1>4. b \in Fractions /\ Sale(x, fx, b) \in SaleRow /\ Sale(x, fx, b).basis = b
    <2>1. b \in Fractions
      BY <1>1, <1>2, ScaleTyped
    <2> QED BY <2>1, SaleTyped
  <1> HIDE DEF e, q, b, y0
  <1>5. \A y \in TaxYears : AverageWalk(d, y, fx).sales \in Seq(SaleRow) /\ AverageBases(d, fx)[y] \in Fractions
    BY AverageTotals
  <1>6. y0 \in TaxYears
    BY <1>2, TaxYearsFinite DEF y0
  <1>7. InOneYear(AverageBases(d, fx), AverageBases(e, fx), y0, b)
    <2>1. AverageBases(e, fx)[y0] = Plus(AverageBases(d, fx)[y0], b)
      <3>1. AverageWalk(e, y0, fx).sales = Append(AverageWalk(d, y0, fx).sales, Sale(x, fx, b))
        BY <1>3, <1>6
      <3>2. BasisOf(AverageWalk(e, y0, fx).sales) = Plus(BasisOf(AverageWalk(d, y0, fx).sales), b)
        BY <1>4, <1>5, <1>6, <3>1, BasisUnfold
      <3> QED BY <1>6, <3>2 DEF AverageBases
    <2>2. \A z \in TaxYears : z # y0 => AverageBases(e, fx)[z] = AverageBases(d, fx)[z]
      BY <1>3 DEF AverageBases
    <2> QED BY <2>1, <2>2 DEF InOneYear
  <1>8. /\ RatioSum(AverageBases(d, fx), TaxYears) \in Fractions
        /\ RatioSum(AverageBases(e, fx), TaxYears) = Plus(RatioSum(AverageBases(d, fx), TaxYears), b)
    BY <1>4, <1>5, <1>6, <1>7, OneYear
  <1>9. Scale(q - x.qty, avg) \in Fractions /\ Plus(Scale(q - x.qty, avg), b) = Scale(q, avg)
    <2>1. q - x.qty \in Int /\ x.qty \in Int /\ (q - x.qty) + x.qty = q
      BY <1>1, <1>2
    <2>2. Plus(Scale(q - x.qty, avg), Scale(x.qty, avg)) = Scale((q - x.qty) + x.qty, avg)
      BY <1>1, <2>1, SharesOfAverage
    <2>3. Scale(q - x.qty, avg) \in Fractions
      BY <1>1, <2>1, ScaleTyped
    <2> QED BY <2>1, <2>2, <2>3 DEF b
  <1>10. Plus(Scale(Walk(e), avg), RatioSum(AverageBases(e, fx), TaxYears)) = Whole(c)
    BY <1>1, <1>2, <1>4, <1>8, <1>9, MovedCosts
  <1>11. Walk(e) \in Nat
    BY <1>1, <1>2
  <1>12. AverageExact(avg, e, c, fx)
    BY <1>1, <1>2, <1>3, <1>10, <1>11 DEF AverageExact
  <1> QED BY <1>12 DEF e

LEMMA AverageThroughout ==
  ASSUME NEW fx, WonRates(fx), NEW o \in Seq(TaxRow), NeverOversold(o), NEW cost, CostSoFar(cost, o, fx)
  PROVE  \E avg : AverageExact(avg, o, cost[Len(o)], fx)
  <1> DEFINE N == Len(o)
             d(m) == SubSeq(o, 1, m)
             good == {m \in 0 .. N : \E avg : AverageExact(avg, d(m), cost[m], fx)}
  <1>1. /\ N \in Nat /\ d(0) = << >> /\ d(N) = o /\ Walk(<< >>) = 0 /\ 0 \in 0 .. N /\ N \in 0 .. N
        /\ \A m \in 0 .. N : d(m) \in Seq(TaxRow) /\ Walk(d(m)) \in Int
        /\ \A m \in 1 .. N :
               /\ m - 1 \in 0 .. N /\ m \in 0 .. N /\ o[m] \in TaxRow
               /\ d(m) = Append(d(m - 1), o[m])
               /\ Walk(Append(d(m - 1), o[m])) = WalkStep(Walk(d(m - 1)), o[m])
    BY TaxPrefixes
  <1>2. \A m \in 1 .. N : o[m].type # "BUY" => Walk(d(m - 1)) >= o[m].qty
    <2> SUFFICES ASSUME NEW m \in 1 .. N, o[m].type # "BUY" PROVE Walk(d(m - 1)) >= o[m].qty
      OBVIOUS
    <2>1. o[m] \in TaxRow /\ m \in DOMAIN o
      BY <1>1
    <2>2. o[m].type = "SELL"
      BY <2>1 DEF TaxRow
    <2> QED BY <2>1, <2>2 DEF NeverOversold
  <1>3. /\ cost[0] = 0 /\ \A m \in 0 .. N : cost[m] \in Int
        /\ \A m \in 1 .. N : cost[m] = IF o[m].type = "BUY" THEN cost[m - 1] + LotCost(o[m], fx) ELSE cost[m - 1]
    BY DEF CostSoFar
  <1>4. AverageExact(Zero, << >>, 0, fx)
    <2>1. \A y \in TaxYears : AverageWalk(<< >>, y, fx) = AverageStart /\ AverageBases(<< >>, fx)[y] = Zero
      BY AverageUnfold, BasisUnfold DEF AverageBases, AverageStart
    <2>2. RatioSum(AverageBases(<< >>, fx), TaxYears) = Zero
      BY <2>1, NoYear
    <2>3. Zero \in Fractions /\ Scale(0, Zero) = Zero /\ Plus(Zero, Zero) = Zero /\ Whole(0) = Zero
      BY PlusLaws, SharesOfAverage DEF Zero, Whole
    <2> QED BY <1>1, <2>1, <2>2, <2>3 DEF AverageExact, AverageStart
  <1>5. 0 \in good
    BY <1>1, <1>3, <1>4
  <1> HIDE DEF N, d
  <1>6. ASSUME NEW m \in 1 .. N, m - 1 \in good PROVE m \in good
    <2>1. PICK avg : AverageExact(avg, d(m - 1), cost[m - 1], fx)
      BY <1>6
    <2>2. /\ d(m - 1) \in Seq(TaxRow) /\ o[m] \in TaxRow /\ cost[m - 1] \in Int
          /\ d(m) = Append(d(m - 1), o[m]) /\ m \in 0 .. N
          /\ Walk(Append(d(m - 1), o[m])) = WalkStep(Walk(d(m - 1)), o[m])
      BY <1>1, <1>3
    <2>3. CASE o[m].type = "BUY"
      <3>1. cost[m] = cost[m - 1] + LotCost(o[m], fx)
        BY <1>3, <2>3
      <3>2. AverageExact(NewAverage(Walk(d(m - 1)), avg, o[m], fx), Append(d(m - 1), o[m]),
                         cost[m - 1] + LotCost(o[m], fx), fx)
        BY <2>1, <2>2, <2>3, AverageBuys
      <3> QED BY <2>2, <3>1, <3>2
    <2>4. CASE o[m].type # "BUY"
      <3>1. cost[m] = cost[m - 1] /\ Walk(d(m - 1)) >= o[m].qty
        BY <1>2, <1>3, <2>4
      <3>2. AverageExact(avg, Append(d(m - 1), o[m]), cost[m - 1], fx)
        BY <2>1, <2>2, <2>4, <3>1, AverageSells
      <3> QED BY <2>2, <3>1, <3>2
    <2> QED BY <2>3, <2>4
  <1>7. N \in good
    <2> HIDE DEF good
    <2> QED BY <1>1, <1>5, <1>6, StepByStep
  <1> QED BY <1>1, <1>7 DEF N

-----------------------------------------------------------------------------
\* Over a closed position both reports have taken all that the BUYs cost.
LEMMA TaxOf == IInv => TaxBasisExhausted
  <1> SUFFICES ASSUME IInv, NEW s \in Symbols,
                      NeverOversold(OrderedOf(trades, s)), Walk(OrderedOf(trades, s)) = 0,
                      NEW method \in {"fifo", "average"}
               PROVE  Basis(method, s) = Whole(WonCost(BuyLots(OrderedOf(trades, s)), WonRate(s)))
    BY DEF TaxBasisExhausted
  <1> DEFINE o == OrderedOf(trades, s)
             fx == WonRate(s)
             bases == [y \in TaxYears |-> BasisOf(SalesOf(method, o, YearOf, y, fx))]
  <1>1. o \in Seq(TaxRow) /\ WonRates(fx)
    BY TaxOrdered, WonRateTyped
  <1>2. Basis(method, s) = RatioSum(bases, TaxYears)
    <2>1. Basis(method, s) = Sum(bases)
      BY DEF Basis, BasisOf, TaxYears
    <2>2. Sum(bases) = RatioSum(bases, DOMAIN bases)
      BY SumIsTotal
    <2> QED BY <2>1, <2>2
  <1>3. NeverOversold(o) /\ Walk(o) = 0
    OBVIOUS
  <1>4. method = "fifo" => bases = FifoBases(o, fx)
    BY DEF SalesOf, SalesFifo, FifoBases, FifoWalk, FifoStart
  <1>5. method # "fifo" => bases = AverageBases(o, fx)
    BY DEF SalesOf, SalesAverage, AverageBases, AverageWalk, AverageStart
  <1> HIDE DEF o, fx, bases
  <1>6. PICK cost : CostSoFar(cost, o, fx)
    BY <1>1, CostsAdd
  <1>7. cost[Len(o)] = WonCost(BuyLots(o), fx)
    BY <1>6 DEF CostSoFar
  <1>8. CASE method = "fifo"
    <2>1. PICK lots : FifoExact(lots, o, cost[Len(o)], fx)
      BY <1>1, <1>3, <1>6, FifoThroughout
    <2>2. /\ lots \in Seq(LotRow) /\ \A i \in DOMAIN lots : lots[i].qty > 0
          /\ SharesOf(lots) = 0
          /\ Plus(Whole(WonCost(lots, fx)), RatioSum(FifoBases(o, fx), TaxYears)) = Whole(cost[Len(o)])
      BY <1>3, <2>1 DEF FifoExact
    <2>3. lots = << >>
      BY <2>2, NoShares
    <2>4. WonCost(lots, fx) = 0
      BY <1>1, <2>3, WonCostUnfold DEF WonRates
    <2>5. \A y \in TaxYears : FifoBases(o, fx)[y] \in Fractions
      <3>1. \A y : FifoWalk(o, y, fx) \in FifoAcc
        BY <1>1, FifoUnfold
      <3>2. \A y : FifoWalk(o, y, fx).sales \in Seq(SaleRow)
        BY <3>1 DEF FifoAcc
      <3> QED BY <3>2, BasisUnfold DEF FifoBases
    <2>6. RatioSum(FifoBases(o, fx), TaxYears) \in Fractions
      BY <2>5, TaxYearsFinite, TotalUnfold DEF Addends
    <2>7. Plus(Zero, RatioSum(FifoBases(o, fx), TaxYears)) = Whole(cost[Len(o)])
      BY <2>2, <2>4 DEF Zero, Whole
    <2>8. RatioSum(FifoBases(o, fx), TaxYears) = Whole(cost[Len(o)])
      BY <2>6, <2>7, PlusLaws
    <2> QED BY <1>2, <1>4, <1>7, <1>8, <2>8 DEF o, fx
  <1>9. CASE method # "fifo"
    <2>1. PICK avg : AverageExact(avg, o, cost[Len(o)], fx)
      BY <1>1, <1>3, <1>6, AverageThroughout
    <2>2. avg \in Fractions /\ Plus(Scale(0, avg), RatioSum(AverageBases(o, fx), TaxYears)) = Whole(cost[Len(o)])
      BY <1>3, <2>1 DEF AverageExact
    <2>3. Scale(0, avg) = Zero /\ RatioSum(AverageBases(o, fx), TaxYears) \in Fractions
      BY <1>1, <2>2, SharesOfAverage, AverageTotals
    <2>4. RatioSum(AverageBases(o, fx), TaxYears) = Whole(cost[Len(o)])
      BY <2>2, <2>3, PlusLaws
    <2> QED BY <1>2, <1>5, <1>7, <1>9, <2>4 DEF o, fx
  <1> QED BY <1>8, <1>9

(***************************************************************************)
(* The tax report, by either method, takes all that was spent on a closed  *)
(* position as a cost once, whatever the years of its sales and the rates  *)
(* of its days (TaxBasisExhausted).                                        *)
(***************************************************************************)
THEOREM TaxBasisIsExhausted == Spec => []TaxBasisExhausted
  BY TaxOf, Invariance, PTL
=============================================================================
