----------------------- MODULE StatementImportProofs ------------------------
(***************************************************************************)
(* The tables of the statement import are sound and nothing committed is   *)
(* ever lost, for any brokers, books, statements and uploads.              *)
(***************************************************************************)
EXTENDS StatementImport, DataInduction

\* What a request saw is there still, but for the openings.
Older(v) ==
    /\ v.txs \subseteq tables.txs /\ v.divs \subseteq tables.divs
    /\ v.symbols \subseteq tables.symbols
    /\ \A x \in v.cash : IsOpening(x) \/ x \in tables.cash

\* The symbol and the day of a dividend are in its id.
IdsOfPairs == \A x \in tables.divs : x.id.sym = x.sym /\ x.id.day = x.at

\* The rows a request has inserted meet no key, of the tables or of another
\* request that is about to commit.
Held ==
    \A r \in Requests : Replied(r) =>
        /\ ~Conflict(NewRows(r))
        /\ \A q \in Requests \ {r} : Replied(q) => ~Clash(NewRows(r), NewRows(q))

IInv ==
    /\ TypeOK
    /\ IdsOfPairs
    /\ Held
    /\ \A r \in Requests : req[r] # Idle => Older(req[r].view)
    /\ job # Idle => job.symbols \subseteq tables.symbols
    /\ NothingLost

-----------------------------------------------------------------------------
(***************************************************************************)
(* What the parsers return.                                                *)
(***************************************************************************)
Stored == TradeRows \cup DividendRows \cup CashRows

\* The symbol and the day of a dividend are in its id.
PairInId(r) == r.rec = "dividend" => r.id.sym = r.sym /\ r.id.day = r.at

\* Lines in order, each with a record of this broker.
IsStatement(s, src) ==
    /\ DOMAIN s \subseteq Nat
    /\ \A k \in DOMAIN s : s[k] \in Stored /\ s[k].src = src /\ PairInId(s[k])

LEMMA RowTypes ==
  ASSUME NEW x \in BookRows
  PROVE  /\ RowId(x) \in Ids
         /\ x.day \in Int /\ x.qty \in Int /\ x.price \in Int /\ x.amount \in Int
         /\ x.fee \in Int /\ x.tax \in Int /\ x.qty * x.price \in Int
         /\ x.sym \in Symbols /\ x.cur \in Currencies
         /\ RowId(x).sym = x.sym /\ RowId(x).day = x.day
  BY DEF BookRows, RowId, Ids

LEMMA ImpactType == ASSUME NEW src, NEW x \in BookRows PROVE Impact(src, x) \in Int
  <1>1. /\ x.qty * x.price \in Int /\ x.fee \in Int /\ x.amount \in Int /\ x.tax \in Int
    BY RowTypes
  <1> DEFINE p == x.qty * x.price
  <1>2. p \in Int
    BY <1>1
  <1>3. /\ -p - x.fee \in Int /\ p - x.fee \in Int /\ x.amount - x.tax \in Int
        /\ x.amount - x.fee \in Int /\ -x.amount - x.fee \in Int
    <2> HIDE DEF p
    <2> QED BY <1>1, <1>2
  <1> HIDE <1>1, <1>2
  <1>4. CASE x.kind \in {"buy", "sell", "dividend", "interest"}
    BY <1>1, <1>3, <1>4 DEF Impact
  <1>5. CASE x.kind \notin {"buy", "sell", "dividend", "interest"}
    BY <1>3, <1>5 DEF Impact
  <1> QED BY <1>4, <1>5

LEMMA DeltaType == ASSUME NEW x \in BookRows PROVE Delta(x) \in Int
  <1>1. Impact("toss", x) \in Int
    BY ImpactType
  <1>2. x.amount \in Int /\ -x.amount \in Int
    BY RowTypes
  <1> QED BY <1>1, <1>2 DEF Delta

LEMMA MovedType == ASSUME NEW src, NEW x \in BookRows
                   PROVE Moved(src, x) \in Int /\ Gross(src, x) \in Int /\ Withheld(src, x) \in Int
  <1>1. x.amount \in Int /\ x.fee \in Int /\ x.tax \in Int
    BY RowTypes
  <1>2. Gross(src, x) \in Int /\ Withheld(src, x) \in Int
    BY <1>1 DEF Gross, Withheld
  <1>3. x.amount + x.fee \in Int /\ x.amount - x.fee \in Int
    BY <1>1
  <1> QED BY <1>2, <1>3 DEF Moved

\* Every broker's kinds are kinds of the cash table.
LEMMA KindTypes ==
  ASSUME NEW src \in Sources, NEW cur \in Currencies, NEW k \in DOMAIN CashKinds(src, cur)
  PROVE  CashKinds(src, cur)[k] \in Inflows \cup Outflows
  <1>1. CASE src = "toss"
    BY <1>1 DEF CashKinds, TossCash, Currencies, Inflows, Outflows
  <1>2. CASE src = "shinhan"
    BY <1>2 DEF CashKinds, ShinhanCash, Inflows, Outflows
  <1>3. CASE src = "kbank"
    BY <1>3 DEF CashKinds, KBankCash, Inflows, Outflows
  <1>4. CASE src = "upbit"
    BY <1>4 DEF CashKinds, UpbitCash, Inflows, Outflows
  <1> QED BY <1>1, <1>2, <1>3, <1>4, BookAssumption

LEMMA RecordTypes ==
  ASSUME NEW src \in Sources, NEW x \in BookRows, Recorded(src, x)
  PROVE  LET r == RecordOf(src, x) IN r \in Stored /\ r.src = src /\ PairInId(r)
  <1>1. CASE x.kind \in Trades(src)
    <2>1. TradeOf(src, x) \in TradeRows
      BY RowTypes DEF TradeOf, TradeRows
    <2>2. RecordOf(src, x) = TradeOf(src, x)
      BY <1>1 DEF RecordOf, Trades, TradeKinds
    <2>3. TradeOf(src, x).src = src /\ TradeOf(src, x).rec = "trade"
      BY DEF TradeOf
    <2> QED BY <2>1, <2>2, <2>3 DEF Stored, PairInId
  <1>2. CASE x.kind \notin Trades(src) /\ x.kind = "dividend"
    <2>1. DividendOf(src, x) \in DividendRows
      BY RowTypes, MovedType DEF DividendOf, DividendRows
    <2>2. RecordOf(src, x) = DividendOf(src, x)
      BY <1>2 DEF RecordOf
    <2> QED BY <2>1, <2>2, RowTypes DEF DividendOf, Stored, PairInId
  <1>3. CASE x.kind \notin Trades(src) /\ x.kind # "dividend"
    <2>1. x.kind \in DOMAIN CashKinds(src, x.cur)
      BY <1>3 DEF Recorded
    <2>2. CashOf(src, x) \in CashRows
      BY <2>1, RowTypes, MovedType, KindTypes DEF CashOf, CashRows
    <2>3. RecordOf(src, x) = CashOf(src, x)
      BY <1>3 DEF RecordOf
    <2> QED BY <2>2, <2>3 DEF CashOf, Stored, PairInId
  <1> QED BY <1>1, <1>2, <1>3

LEMMA BalanceType ==
  ASSUME NEW src \in Sources, NEW k \in DOMAIN Book[src], NEW cur
  PROVE  BalanceAfter(src, k, cur) \in Int
  <1> DEFINE f == [j \in DOMAIN Book[src] |-> Impact(src, Book[src][j])]
             S == {j \in 1 .. k : Book[src][j].cur = cur}
  <1>1. /\ Book[src] \in Seq(BookRows) /\ Start[src] \in Nat /\ k \in Nat
        /\ \A j \in 1 .. k : j \in DOMAIN Book[src] /\ Book[src][j] \in BookRows
    BY BookAssumption
  <1>2. IsFiniteSet(S)
    <2>1. IsFiniteSet(1 .. k) /\ S \subseteq 1 .. k
      BY <1>1, FS_Interval
    <2> QED BY <2>1, FS_Subset
  <1>3. \A j \in S : f[j] \in Int
    BY <1>1, ImpactType
  <1>4. SumFunctionOnSet(f, S) \in Int
    <2> HIDE DEF f, S
    <2> QED BY <1>2, <1>3, SumOnSet
  <1> QED BY <1>1, <1>4 DEF BalanceAfter

LEMMA OpeningType ==
  ASSUME NEW src \in Sources, NEW w, Opening(src, w) # << >>
  PROVE  LET o == Opening(src, w)[1] IN o \in CashRows /\ o.src = src
  <1> DEFINE krw == {k \in RowsIn(src, w) : Book[src][k].cur = "KRW"}
             k == Min(krw)
             x == Book[src][k]
             opening == BalanceAfter(src, k, "KRW") - Delta(x)
             o == [rec |-> "cash", src |-> src, at |-> x.day - 1, kind |-> "deposit",
                   id |-> [day |-> x.day, kind |-> "opening", sym |-> "", qty |-> 0,
                           price |-> 0, amount |-> opening, cur |-> "KRW"],
                   amount |-> opening, tax |-> 0, cur |-> "KRW"]
  <1>1. krw # {} /\ Opening(src, w) = <<o>>
    BY DEF Opening
  <1>2. Book[src] \in Seq(BookRows)
    BY BookAssumption
  <1>3. krw \subseteq DOMAIN Book[src] /\ DOMAIN Book[src] \subseteq Nat
    BY <1>2 DEF RowsIn
  <1>4. k \in DOMAIN Book[src]
    <2>1. \E m \in krw : \A j \in krw : m <= j
      <3> HIDE DEF krw
      <3> QED BY <1>1, <1>3, SmallestMember
    <2>2. k \in krw
      <3> HIDE DEF krw
      <3> QED BY <2>1 DEF Min
    <2> QED BY <1>3, <2>2
  <1> HIDE DEF krw, k
  <1>5. x \in BookRows
    BY <1>2, <1>4
  <1>6. opening \in Int
    BY <1>4, <1>5, BalanceType, DeltaType
  <1>7. x.day \in Int /\ x.day - 1 \in Int
    BY <1>5, RowTypes
  <1> HIDE DEF x, opening
  <1>8. o \in CashRows /\ o.src = src
    <2>1. [day |-> x.day, kind |-> "opening", sym |-> "", qty |-> 0,
           price |-> 0, amount |-> opening, cur |-> "KRW"] \in Ids
      BY <1>6, <1>7 DEF Ids, Symbols, Currencies
    <2>2. "deposit" \in Inflows \cup Outflows /\ "KRW" \in Currencies
      BY DEF Inflows, Currencies
    <2>3. ASSUME NEW i \in Ids, NEW at \in Int, NEW amount \in Int
          PROVE  [rec |-> "cash", src |-> src, at |-> at, kind |-> "deposit", id |-> i,
                  amount |-> amount, tax |-> 0, cur |-> "KRW"] \in CashRows
      BY <2>2 DEF CashRows
    <2> QED BY <1>6, <1>7, <2>1, <2>3
  <1> HIDE DEF o
  <1> QED BY <1>1, <1>8

LEMMA Statement ==
  ASSUME NEW src \in Sources, NEW w \in Windows[src]
  PROVE  IsStatement(Records[src][w], src)
  <1> DEFINE lines == {k \in RowsIn(src, w) : Recorded(src, Book[src][k])}
             opening == Opening(src, w)
             last == IF opening = << >> THEN {} ELSE {Len(Book[src]) + 1}
             s == Parsed(src, w)
  <1>1. Records[src][w] = s
    BY DEF Records
  <1>2. Book[src] \in Seq(BookRows)
    BY BookAssumption
  <1>3. lines \subseteq DOMAIN Book[src] /\ DOMAIN Book[src] \subseteq Nat /\ last \subseteq Nat
    BY <1>2 DEF RowsIn
  <1>4. DOMAIN s = lines \cup last
    BY DEF Parsed
  <1>5. ASSUME NEW k \in DOMAIN s PROVE s[k] \in Stored /\ s[k].src = src /\ PairInId(s[k])
    <2>1. CASE k \in lines
      <3>1. s[k] = RecordOf(src, Book[src][k]) /\ Book[src][k] \in BookRows
        BY <1>2, <1>3, <2>1 DEF Parsed
      <3> QED BY <2>1, <3>1, RecordTypes
    <2>2. CASE k \notin lines
      <3>1. opening # << >> /\ s[k] = opening[1]
        BY <1>4, <2>2 DEF Parsed
      <3>2. opening[1] \in CashRows /\ opening[1].src = src
        BY <3>1, OpeningType
      <3>3. opening[1].rec = "cash"
        BY <3>2 DEF CashRows
      <3> QED BY <3>1, <3>2, <3>3 DEF Stored, PairInId
    <2> QED BY <2>1, <2>2
  <1> HIDE DEF s
  <1> QED BY <1>1, <1>3, <1>4, <1>5 DEF IsStatement

-----------------------------------------------------------------------------
(***************************************************************************)
(* What an import makes of a statement.                                    *)
(***************************************************************************)
\* The lines of one kind.
LEMMA OfFacts ==
  ASSUME NEW s, NEW src, IsStatement(s, src), NEW rec
  PROVE  /\ IsStatement(Of(s, rec), src)
         /\ \A r : r \in Range(Of(s, rec)) <=> r \in Range(s) /\ r.rec = rec
  BY DEF IsStatement, Of, Restrict, Range

\* New rows are apart, by key, from each other and from what is known, and
\* every line has its key in one or the other.
LEMMA FreshFacts ==
  ASSUME NEW s, NEW src, IsStatement(s, src), NEW known
  PROVE  /\ Fresh(s, known) \subseteq Range(s)
         /\ \A x \in Fresh(s, known), r \in known : ~SameKey(r, x)
         /\ \A x, y \in Fresh(s, known) : SameKey(x, y) => x = y
         /\ \A x \in Range(s) : \E r \in known \cup Fresh(s, known) : SameKey(r, x)
  <1> DEFINE idx == {k \in DOMAIN s : /\ ~\E r \in known : SameKey(r, s[k])
                                      /\ ~\E j \in DOMAIN s : j < k /\ s[j].id = s[k].id}
  <1>1. Fresh(s, known) = {s[k] : k \in idx}
    BY DEF Fresh
  <1>2. DOMAIN s \subseteq Nat /\ \A k \in DOMAIN s : s[k].src = src
    BY DEF IsStatement
  <1>3. ASSUME NEW j \in idx, NEW k \in idx, SameKey(s[j], s[k]) PROVE s[j] = s[k]
    <2>1. ~(j < k) /\ ~(k < j) /\ j \in Nat /\ k \in Nat
      BY <1>2, <1>3 DEF SameKey
    <2>2. j = k
      BY <2>1
    <2> QED BY <2>2
  <1>4. ASSUME NEW k \in DOMAIN s PROVE \E r \in known \cup Fresh(s, known) : SameKey(r, s[k])
    <2> DEFINE T == {j \in DOMAIN s : s[j].id = s[k].id}
    <2>1. PICK m \in T : \A j \in T : m <= j
      <3>1. T \subseteq Nat /\ T # {}
        BY <1>2
      <3> HIDE DEF T
      <3> QED BY <3>1, SmallestMember
    <2>2. m \in DOMAIN s /\ SameKey(s[m], s[k])
      BY <1>2 DEF SameKey
    <2>3. ~\E j \in DOMAIN s : j < m /\ s[j].id = s[m].id
      <3> SUFFICES ASSUME NEW j \in DOMAIN s, j < m, s[j].id = s[m].id PROVE FALSE
        OBVIOUS
      <3>1. j \in T /\ j \in Nat /\ m \in Nat
        BY <1>2
      <3> QED BY <2>1, <3>1
    <2>4. CASE m \in idx
      BY <1>1, <2>2, <2>4
    <2>5. CASE m \notin idx
      <3>1. PICK r \in known : SameKey(r, s[m])
        BY <2>2, <2>3, <2>5
      <3> QED BY <2>2, <3>1 DEF SameKey
    <2> QED BY <2>4, <2>5
  <1>5. Fresh(s, known) \subseteq Range(s) /\ \A x \in Fresh(s, known), r \in known : ~SameKey(r, x)
    BY <1>1 DEF Range
  <1>6. \A x, y \in Fresh(s, known) : SameKey(x, y) => x = y
    BY <1>1, <1>3
  <1>7. \A x \in Range(s) : \E k \in DOMAIN s : x = s[k]
    BY DEF Range
  <1> QED BY <1>4, <1>5, <1>6, <1>7

\* New dividends are apart by symbol and day as well, and every line of one
\* has its symbol and day in the table or among them.
LEMMA DividendFacts ==
  ASSUME NEW v, NEW s, NEW src, IsStatement(s, src), \A x \in v.divs : PairInId(x) /\ x.rec = "dividend"
  PROVE  LET new == NewDividends(v, s)
         IN /\ new \subseteq Fresh(Of(s, "dividend"), v.divs)
            /\ \A x, y \in new : SamePair(x, y) => x = y
            /\ \A x \in new, r \in v.divs : ~SamePair(r, x)
            /\ \A x \in Range(s) : x.rec = "dividend" => \E r \in v.divs \cup new : SamePair(r, x)
  <1> DEFINE d == Of(s, "dividend")
             first == {k \in DOMAIN d : ~\E j \in DOMAIN d : j < k /\ SamePair(d[j], d[k])}
             new == NewDividends(v, s)
  <1>1. new = {r \in Fresh(d, v.divs) : (\E k \in first : r = d[k]) /\ ~\E x \in v.divs : SamePair(x, r)}
    BY DEF NewDividends
  <1>2. IsStatement(d, src) /\ \A k \in DOMAIN d : d[k].rec = "dividend"
    BY OfFacts DEF Of, Restrict
  <1>3. /\ DOMAIN d \subseteq Nat
        /\ \A k \in DOMAIN d : d[k].src = src /\ d[k].id.sym = d[k].sym /\ d[k].id.day = d[k].at
    BY <1>2 DEF IsStatement, PairInId
  <1>4. \A x \in Range(s) : x.rec = "dividend" => \E k \in DOMAIN d : x = d[k]
    BY DEF Of, Restrict, Range
  <1>5. Fresh(d, v.divs) = {d[k] : k \in {k \in DOMAIN d : /\ ~\E r \in v.divs : SameKey(r, d[k])
                                      /\ ~\E j \in DOMAIN d : j < k /\ d[j].id = d[k].id}}
    BY DEF Fresh
  <1> HIDE DEF d, new
  <1>6. ASSUME NEW x \in new, NEW y \in new, SamePair(x, y) PROVE x = y
    <2>1. PICK j \in first : x = d[j]
      BY <1>1
    <2>2. PICK k \in first : y = d[k]
      BY <1>1
    <2>3. ~(j < k) /\ ~(k < j) /\ j \in Nat /\ k \in Nat
      BY <1>3, <1>6, <2>1, <2>2 DEF SamePair
    <2>4. j = k
      BY <2>3
    <2> QED BY <2>1, <2>2, <2>4
  <1>7. ASSUME NEW k \in DOMAIN d PROVE \E r \in v.divs \cup new : SamePair(r, d[k])
    <2> DEFINE T == {j \in DOMAIN d : SamePair(d[j], d[k])}
    <2>1. PICK m \in T : \A j \in T : m <= j
      <3>1. T \subseteq Nat /\ T # {}
        BY <1>3 DEF SamePair
      <3> HIDE DEF T
      <3> QED BY <3>1, SmallestMember
    <2>2. m \in DOMAIN d /\ m \in Nat /\ SamePair(d[m], d[k])
      BY <1>3
    <2>3. ASSUME NEW j \in DOMAIN d, j < m PROVE ~SamePair(d[j], d[m]) /\ d[j].id # d[m].id
      <3>1. j \in Nat /\ j \notin T
        BY <1>3, <2>1, <2>2, <2>3
      <3>2. ~SamePair(d[j], d[m])
        BY <2>2, <3>1 DEF SamePair
      <3> QED BY <1>3, <2>2, <3>2 DEF SamePair
    <2>4. CASE \E r \in v.divs : SamePair(r, d[m])
      BY <2>2, <2>4 DEF SamePair
    <2>5. CASE ~\E r \in v.divs : SamePair(r, d[m])
      <3>1. ~\E r \in v.divs : SameKey(r, d[m])
        <4> SUFFICES ASSUME NEW r \in v.divs, SameKey(r, d[m]) PROVE FALSE
          OBVIOUS
        <4>1. r.id.sym = r.sym /\ r.id.day = r.at
          BY DEF PairInId
        <4> QED BY <1>3, <2>2, <2>5, <4>1 DEF SameKey, SamePair
      <3>2. d[m] \in Fresh(d, v.divs)
        BY <1>5, <2>2, <2>3, <3>1
      <3>3. m \in first
        BY <2>2, <2>3
      <3>4. d[m] \in new
        BY <1>1, <2>5, <3>2, <3>3
      <3> QED BY <2>2, <3>4
    <2> QED BY <2>4, <2>5
  <1>8. new \subseteq Fresh(d, v.divs) /\ \A x \in new, r \in v.divs : ~SamePair(r, x)
    BY <1>1
  <1>9. \A x \in Range(s) : x.rec = "dividend" => \E r \in v.divs \cup new : SamePair(r, x)
    BY <1>4, <1>7
  <1> QED BY <1>6, <1>8, <1>9 DEF d, new

\* What an import adds to the tables it saw.
LEMMA ImportFacts ==
  ASSUME NEW src \in Sources, NEW w \in Windows[src], NEW v \in Tables, \A x \in v.divs : PairInId(x)
  PROVE  LET new == Import(v, src, w)
             s   == Records[src][w]
         IN /\ new \in Tables
            /\ \A x \in new.divs : PairInId(x)
            /\ \A x \in new.txs : (\A r \in v.txs : ~SameKey(r, x)) /\ x.sym \in v.symbols \cup new.symbols
            /\ \A x \in new.cash, r \in v.cash : ~SameKey(r, x)
            /\ \A x \in new.divs : /\ \A r \in v.divs : ~SameKey(r, x) /\ ~SamePair(r, x)
                                   /\ x.sym \in v.symbols \cup new.symbols
            /\ new.symbols \cap v.symbols = {}
            /\ \A x, y \in new.txs : SameKey(x, y) => x = y
            /\ \A x, y \in new.cash : SameKey(x, y) => x = y
            /\ \A x, y \in new.divs : SameKey(x, y) \/ SamePair(x, y) => x = y
            /\ \A x \in Range(s) :
                  \/ x.rec = "trade" /\ \E r \in v.txs \cup new.txs : SameKey(r, x)
                  \/ x.rec = "cash" /\ \E r \in v.cash \cup new.cash : SameKey(r, x)
                  \/ x.rec = "dividend" /\ \E r \in v.divs \cup new.divs : SamePair(r, x)
  <1> DEFINE s     == Records[src][w]
             new   == Import(v, src, w)
             fresh == Fresh(Of(s, "dividend"), v.divs)
  <1>1. IsStatement(s, src)
    BY Statement
  <1>2. /\ new.txs = Fresh(Of(s, "trade"), v.txs) /\ new.cash = Fresh(Of(s, "cash"), v.cash)
        /\ new.divs = NewDividends(v, s)
        /\ new.symbols = {r.sym : r \in new.txs \cup fresh} \ v.symbols
        /\ new = [txs |-> new.txs, divs |-> new.divs, cash |-> new.cash, symbols |-> new.symbols]
    BY DEF Import
  <1>3. /\ v.divs \subseteq DividendRows
        /\ \A x \in v.divs : PairInId(x) /\ x.rec = "dividend"
    BY DEF Tables, DividendRows
  <1> HIDE DEF s, new
  <1>4. ASSUME NEW rec PROVE IsStatement(Of(s, rec), src) /\ Range(Of(s, rec)) = {r \in Range(s) : r.rec = rec}
    BY <1>1, OfFacts
  <1>5. \A x \in Range(s) : x \in Stored /\ PairInId(x)
    BY <1>1 DEF IsStatement, Range
  <1>6. /\ Stored = TradeRows \cup DividendRows \cup CashRows
        /\ \A x \in TradeRows : x.rec = "trade" /\ x.sym \in Symbols
        /\ \A x \in DividendRows : x.rec = "dividend" /\ x.sym \in Symbols
        /\ \A x \in CashRows : x.rec = "cash"
    BY DEF Stored, TradeRows, DividendRows, CashRows
  <1>7. /\ {r \in Range(s) : r.rec = "trade"} \subseteq TradeRows
        /\ {r \in Range(s) : r.rec = "dividend"} \subseteq DividendRows
        /\ {r \in Range(s) : r.rec = "cash"} \subseteq CashRows
    BY <1>5, <1>6
  <1>8. ASSUME NEW rec, NEW known
        PROVE  LET f == Fresh(Of(s, rec), known)
               IN /\ f \subseteq {r \in Range(s) : r.rec = rec}
                  /\ \A x \in f, r \in known : ~SameKey(r, x)
                  /\ \A x, y \in f : SameKey(x, y) => x = y
                  /\ \A x \in Range(s) : x.rec = rec => \E r \in known \cup f : SameKey(r, x)
    <2>1. IsStatement(Of(s, rec), src) /\ Range(Of(s, rec)) = {r \in Range(s) : r.rec = rec}
      BY <1>4
    <2> QED BY <2>1, FreshFacts
  <1>9. /\ new.divs \subseteq fresh
        /\ \A x, y \in new.divs : SamePair(x, y) => x = y
        /\ \A x \in new.divs, r \in v.divs : ~SamePair(r, x)
        /\ \A x \in Range(s) : x.rec = "dividend" => \E r \in v.divs \cup new.divs : SamePair(r, x)
    BY <1>1, <1>2, <1>3, DividendFacts
  <1>10. /\ new.txs \subseteq TradeRows /\ new.cash \subseteq CashRows /\ fresh \subseteq DividendRows
         /\ new.divs \subseteq DividendRows /\ \A x \in new.divs : PairInId(x)
    BY <1>2, <1>5, <1>7, <1>8, <1>9
  <1>11. new.symbols \subseteq Symbols
    BY <1>2, <1>6, <1>10
  <1>12. new \in Tables
    BY <1>2, <1>10, <1>11 DEF Tables
  <1>13. /\ \A x \in new.txs, r \in v.txs : ~SameKey(r, x)
         /\ \A x \in new.cash, r \in v.cash : ~SameKey(r, x)
         /\ \A x \in new.divs, r \in v.divs : ~SameKey(r, x)
         /\ \A x, y \in new.txs : SameKey(x, y) => x = y
         /\ \A x, y \in new.cash : SameKey(x, y) => x = y
         /\ \A x, y \in new.divs : SameKey(x, y) => x = y
    BY <1>2, <1>8, <1>9
  <1>14. /\ \A x \in new.txs \cup new.divs : x.sym \in v.symbols \cup new.symbols
         /\ new.symbols \cap v.symbols = {}
    BY <1>2, <1>9
  <1>15. ASSUME NEW x \in Range(s)
         PROVE  \/ x.rec = "trade" /\ \E r \in v.txs \cup new.txs : SameKey(r, x)
                \/ x.rec = "cash" /\ \E r \in v.cash \cup new.cash : SameKey(r, x)
                \/ x.rec = "dividend" /\ \E r \in v.divs \cup new.divs : SamePair(r, x)
    BY <1>2, <1>5, <1>6, <1>8, <1>9
  <1> HIDE DEF fresh
  <1> QED BY <1>9, <1>10, <1>12, <1>13, <1>14, <1>15 DEF s, new

-----------------------------------------------------------------------------
(***************************************************************************)
(* The steps.                                                              *)
(***************************************************************************)
\* Only openings ever leave the tables.
Grows ==
    /\ tables.txs \subseteq tables'.txs /\ tables.divs \subseteq tables'.divs
    /\ tables.symbols \subseteq tables'.symbols
    /\ \A x \in tables.cash : IsOpening(x) \/ x \in tables'.cash

LEMMA ThereStays == ASSUME Grows, NEW r, There(r) PROVE There(r)'
  <1>1. CASE r.rec = "cash" /\ ~IsOpening(r)
    <2>1. PICK x \in tables.cash : SameKey(x, r)
      BY <1>1 DEF There
    <2>2. ~IsOpening(x)
      BY <1>1, <2>1 DEF IsOpening, SameKey
    <2>3. x \in tables'.cash
      BY <2>2 DEF Grows
    <2> QED BY <1>1, <2>1, <2>3 DEF There
  <1>2. CASE ~(r.rec = "cash" /\ ~IsOpening(r))
    BY <1>2 DEF There, Grows
  <1> QED BY <1>1, <1>2

LEMMA StepInv ==
  ASSUME IInv, Grows, tables' \in Tables, UniqueKeys', KnownSymbols', IdsOfPairs', Held',
         req' \in [Requests -> {Idle} \cup Uploading],
         \A r \in Requests : \/ req'[r] \in {Idle, req[r]}
                             \/ /\ req[r] # Idle /\ req'[r].view = req[r].view
                                /\ req'[r].src = req[r].src /\ req'[r].w = req[r].w
                                /\ req'[r].new = req[r].new
                             \/ /\ req'[r].view = tables /\ req'[r].w \in Windows[req'[r].src]
                                /\ req'[r].new = Import(tables, req'[r].src, req'[r].w),
         job' \in {Idle} \cup [phase : {"fetch"}, divs : SUBSET DividendRows, symbols : SUBSET Symbols],
         job' # Idle => job'.symbols \subseteq tables.symbols,
         uploaded' \in [Sources -> SUBSET Spans], settled' \in BOOLEAN,
         \A src \in Sources : uploaded'[src] \subseteq Windows[src],
         \A src \in Sources : \A w \in uploaded'[src] :
            w \in uploaded[src] \/ \A r \in Range(Records[src][w]) : There(r)'
  PROVE  IInv'
  <1>1. ASSUME NEW r \in Requests, req'[r] # Idle
        PROVE  /\ req'[r].w \in Windows[req'[r].src] /\ Older(req[r].view)'
               /\ req'[r].new = Import(req'[r].view, req'[r].src, req'[r].w)
    <2>1. CASE /\ req[r] # Idle /\ req'[r].view = req[r].view
               /\ req'[r].src = req[r].src /\ req'[r].w = req[r].w
               /\ req'[r].new = req[r].new
      <3>1. /\ Older(req[r].view) /\ req[r].w \in Windows[req[r].src]
            /\ req[r].new = Import(req[r].view, req[r].src, req[r].w)
        BY <1>1, <2>1 DEF IInv, TypeOK
      <3> DEFINE v == req[r].view
      <3>2. Older(v)
        BY <3>1
      <3> HIDE DEF v
      <3>3. /\ v.txs \subseteq tables'.txs /\ v.divs \subseteq tables'.divs
            /\ v.symbols \subseteq tables'.symbols
            /\ \A x \in v.cash : IsOpening(x) \/ x \in tables'.cash
        BY <3>2 DEF Older, Grows
      <3> QED BY <2>1, <3>1, <3>3 DEF Older, v
    <2>2. CASE /\ req'[r].view = tables /\ req'[r].w \in Windows[req'[r].src]
               /\ req'[r].new = Import(tables, req'[r].src, req'[r].w)
      BY <2>2 DEF Older, Grows
    <2> QED BY <1>1, <2>1, <2>2
  <1>2. TypeOK'
    BY <1>1 DEF TypeOK
  <1>3. job' # Idle => job'.symbols \subseteq tables'.symbols
    BY DEF Grows
  <1>4. ASSUME NEW src \in Sources, NEW w \in uploaded'[src], NEW r \in Range(Records[src][w])
        PROVE  There(r)'
    <2>1. CASE w \in uploaded[src]
      <3>1. There(r)
        BY <2>1 DEF IInv, NothingLost
      <3> QED BY <3>1, ThereStays
    <2>2. CASE w \notin uploaded[src]
      BY <2>2
    <2> QED BY <2>1, <2>2
  <1>5. NothingLost'
    BY <1>4 DEF NothingLost
  <1> QED BY <1>1, <1>2, <1>3, <1>5 DEF IInv

LEMMA Same == ASSUME IInv, UNCHANGED tables
              PROVE  Grows /\ tables' \in Tables /\ UniqueKeys' /\ KnownSymbols' /\ IdsOfPairs'
  BY DEF IInv, TypeOK, Grows, UniqueKeys, KnownSymbols, IdsOfPairs

\* A key met in one direction is met in the other.
LEMMA ClashBothWays == \A a, b : Clash(a, b) => Clash(b, a)
  BY DEF Clash, SameKey, SamePair

\* No request has answered, and the tables meet none that has.
LEMMA StillHeld ==
  ASSUME IInv, \A r \in Requests : Replied(r)' => req'[r] = req[r],
         \A r \in Requests : Replied(r)' => ~Clash(NewRows(r), tables')
  PROVE  Held'
  <1>1. ASSUME NEW r \in Requests, Replied(r)'
        PROVE  Replied(r) /\ NewRows(r)' = NewRows(r)
    BY <1>1 DEF Replied, NewRows
  <1>2. ASSUME NEW r \in Requests, Replied(r)' PROVE ~Conflict(NewRows(r))'
    BY <1>1, <1>2 DEF Conflict, Clash, SameKey, SamePair
  <1>3. ASSUME NEW r \in Requests, Replied(r)', NEW q \in Requests \ {r}, Replied(q)'
        PROVE  ~Clash(NewRows(r), NewRows(q))'
    <2>1. ~Clash(NewRows(r), NewRows(q))
      BY <1>1, <1>3 DEF IInv, Held
    <2> QED BY <1>1, <1>3, <2>1 DEF Clash, SameKey, SamePair
  <1> QED BY <1>2, <1>3 DEF Held

LEMMA SameHeld ==
  ASSUME IInv, UNCHANGED tables, \A r \in Requests : Replied(r)' => req'[r] = req[r]
  PROVE  Held'
  <1>1. ASSUME NEW r \in Requests, Replied(r)' PROVE ~Clash(NewRows(r), tables')
    BY <1>1 DEF IInv, Held, Replied, Conflict
  <1> QED BY <1>1, StillHeld

LEMMA InitInv == Init => IInv
  <1> SUFFICES ASSUME Init PROVE IInv
    OBVIOUS
  <1>1. tables \in Tables
    BY DEF Init, Tables
  <1>2. req \in [Requests -> {Idle} \cup Uploading] /\ \A r \in Requests : req[r] = Idle
    BY DEF Init
  <1>3. uploaded \in [Sources -> SUBSET Spans] /\ \A src \in Sources : uploaded[src] = {}
    BY DEF Init
  <1>4. UniqueKeys /\ KnownSymbols /\ IdsOfPairs
    BY DEF Init, UniqueKeys, KnownSymbols, IdsOfPairs
  <1>5. NothingLost
    BY <1>3 DEF NothingLost
  <1>6. job = Idle /\ settled \in BOOLEAN
    BY DEF Init
  <1>7. Held
    BY <1>2 DEF Held, Replied, Idle
  <1> QED BY <1>1, <1>2, <1>3, <1>4, <1>5, <1>6, <1>7 DEF IInv, TypeOK

LEMMA TypesOf ==
  ASSUME IInv
  PROVE  /\ tables \in Tables /\ req \in [Requests -> {Idle} \cup Uploading]
         /\ job \in {Idle} \cup [phase : {"fetch"}, divs : SUBSET DividendRows, symbols : SUBSET Symbols]
         /\ job # Idle => job.symbols \subseteq tables.symbols
         /\ uploaded \in [Sources -> SUBSET Spans] /\ settled \in BOOLEAN
         /\ \A src \in Sources : uploaded[src] \subseteq Windows[src]
         /\ \A src \in Sources : Windows[src] \subseteq Spans
  BY StatementAssumption DEF IInv, TypeOK

LEMMA BeginInv ==
  ASSUME IInv, NEW r \in Requests, NEW src \in Sources, NEW w \in Windows[src], Begin(r, src, w)
  PROVE  IInv'
  <1> DEFINE new == Import(tables, src, w)
             u   == [phase |-> "import", src |-> src, w |-> w, view |-> tables, new |-> new]
  <1>0. new \in Tables
    <2>1. tables \in Tables /\ \A x \in tables.divs : PairInId(x)
      BY TypesOf DEF IInv, IdsOfPairs, PairInId
    <2> QED BY <2>1, ImportFacts
  <1> HIDE DEF new
  <1>1. /\ u \in Uploading /\ u.view = tables /\ u.w \in Windows[u.src]
        /\ u.src = src /\ u.w = w /\ u.new = new
    BY <1>0, TypesOf DEF Uploading
  <1>2. req' = [req EXCEPT ![r] = u] /\ UNCHANGED <<tables, job, uploaded, settled>>
    BY DEF Begin, new
  <1> HIDE DEF u
  <1>3. /\ req' \in [Requests -> {Idle} \cup Uploading]
        /\ \A q \in Requests : \/ req'[q] \in {Idle, req[q]}
                               \/ /\ req'[q].view = tables /\ req'[q].w \in Windows[req'[q].src]
                                  /\ req'[q].new = Import(tables, req'[q].src, req'[q].w)
    BY <1>1, <1>2, TypesOf DEF new
  <1>4. \A q \in Requests : Replied(q)' => req'[q] = req[q]
    BY <1>2, TypesOf DEF u, Replied
  <1>5. Held'
    BY <1>2, <1>4, SameHeld
  <1> QED BY <1>2, <1>3, <1>5, Same, StepInv, TypesOf

\* A request that ends.
LEMMA Ended ==
  ASSUME IInv, NEW r \in Requests, req' = [req EXCEPT ![r] = Idle]
  PROVE  /\ req' \in [Requests -> {Idle} \cup Uploading]
         /\ \A q \in Requests : req'[q] \in {Idle, req[q]}
         /\ \A q \in Requests : Replied(q)' => q # r /\ req'[q] = req[q]
  BY TypesOf DEF Replied, Idle

LEMMA AbortInv == ASSUME IInv, NEW r \in Requests, Abort(r) PROVE IInv'
  <1>1. req' = [req EXCEPT ![r] = Idle] /\ UNCHANGED <<tables, job, uploaded, settled>>
    BY DEF Abort
  <1>2. Held'
    BY <1>1, Ended, SameHeld
  <1> QED BY <1>1, <1>2, Ended, Same, StepInv, TypesOf

\* What the view of a request has, the tables have, and it is typed.
LEMMA Active ==
  ASSUME IInv, NEW r \in Requests, req[r].phase \in {"import", "replied"}
  PROVE  /\ req[r].src \in Sources /\ req[r].w \in Windows[req[r].src]
         /\ req[r].view \in Tables /\ Older(req[r].view)
         /\ \A x \in req[r].view.divs : PairInId(x)
         /\ NewRows(r) = Import(req[r].view, req[r].src, req[r].w)
  <1>1. req[r] # Idle /\ req[r] \in Uploading
    BY TypesOf DEF Idle
  <1>2. /\ req[r].w \in Windows[req[r].src] /\ Older(req[r].view)
        /\ NewRows(r) = Import(req[r].view, req[r].src, req[r].w)
    BY <1>1 DEF IInv, TypeOK, NewRows
  <1>3. req[r].src \in Sources /\ req[r].view \in Tables
    BY <1>1 DEF Uploading
  <1> QED BY <1>2, <1>3 DEF IInv, IdsOfPairs, Older, PairInId

\* What a request that answers has inserted meets no key: it waited for those
\* of the requests that have answered, and would have failed otherwise.
LEMMA ReplyInv == ASSUME IInv, NEW r \in Requests, Reply(r) PROVE IInv'
  <1> DEFINE u == IF Conflict(NewRows(r)) THEN Idle ELSE [req[r] EXCEPT !.phase = "replied"]
  <1>1. /\ req[r].phase = "import" /\ ~Waits(r)
        /\ req' = [req EXCEPT ![r] = u] /\ UNCHANGED <<tables, job, uploaded, settled>>
    BY DEF Reply
  <1>2. req[r] # Idle /\ req[r] \in Uploading
    BY <1>1, TypesOf DEF Idle
  <1>3. \/ u = Idle
        \/ /\ u \in Uploading /\ u.view = req[r].view /\ u.src = req[r].src /\ u.w = req[r].w
           /\ u.new = req[r].new /\ ~Conflict(NewRows(r))
    BY <1>2 DEF Uploading
  <1> HIDE DEF u
  <1>4. /\ req' \in [Requests -> {Idle} \cup Uploading] /\ req'[r] = u
        /\ \A q \in Requests \ {r} : req'[q] = req[q]
    BY <1>1, <1>3, TypesOf
  <1>5. \A q \in Requests : \/ req'[q] \in {Idle, req[q]}
                            \/ /\ req[q] # Idle /\ req'[q].view = req[q].view
                               /\ req'[q].src = req[q].src /\ req'[q].w = req[q].w
                               /\ req'[q].new = req[q].new
    BY <1>2, <1>3, <1>4
  <1>6. CASE u = Idle
    <2>1. Held'
      BY <1>1, <1>6, Ended, SameHeld
    <2> QED BY <1>1, <1>4, <1>5, <2>1, Same, StepInv, TypesOf
  <1>7. CASE u # Idle
    <2>1. \A q \in Requests : NewRows(q)' = NewRows(q)
      BY <1>3, <1>4, <1>7 DEF NewRows
    <2>2. \A q \in Requests : Replied(q)' => q = r \/ Replied(q)
      BY <1>4 DEF Replied
    <2>3. ASSUME NEW q \in Requests, Replied(q)' PROVE ~Conflict(NewRows(q))
      BY <1>3, <1>7, <2>2, <2>3 DEF IInv, Held
    <2>4. ASSUME NEW p \in Requests, Replied(p)', NEW q \in Requests \ {p}, Replied(q)'
          PROVE  ~Clash(NewRows(p), NewRows(q))
      <3>1. \A o \in Requests \ {r} : Replied(o) => ~Clash(NewRows(r), NewRows(o))
        BY <1>1 DEF Waits
      <3>2. CASE p = r
        BY <2>2, <2>4, <3>1, <3>2
      <3>3. CASE q = r
        BY <2>2, <2>4, <3>1, <3>3, ClashBothWays
      <3>4. CASE p # r /\ q # r
        BY <2>2, <2>4, <3>4 DEF IInv, Held
      <3> QED BY <3>2, <3>3, <3>4
    <2>5. \A q \in Requests : Replied(q)' => ~Conflict(NewRows(q))'
      BY <1>1, <2>1, <2>3 DEF Conflict, Clash, SameKey, SamePair
    <2>6. \A p \in Requests : Replied(p)' =>
             \A q \in Requests \ {p} : Replied(q)' => ~Clash(NewRows(p), NewRows(q))'
      BY <2>1, <2>4 DEF Clash, SameKey, SamePair
    <2>7. Held'
      BY <2>5, <2>6 DEF Held
    <2> QED BY <1>1, <1>4, <1>5, <2>7, Same, StepInv, TypesOf
  <1> QED BY <1>6, <1>7

LEMMA CollapsedKeeps ==
  ASSUME NEW own, NEW stored
  PROVE  Collapsed(own, stored) \subseteq stored /\ \A x \in stored : IsOpening(x) \/ x \in Collapsed(own, stored)
  BY DEF Collapsed

LEMMA CommitInv ==
  ASSUME IInv, NEW r \in Requests, Commit(r)
  PROVE  IInv'
  <1> DEFINE src == req[r].src
             w   == req[r].w
             v   == req[r].view
             new == Import(v, src, w)
             all == tables.cash \cup new.cash
  <1>0. Replied(r) /\ NewRows(r) = new /\ req' = [req EXCEPT ![r] = Idle] /\ UNCHANGED job
    BY Active DEF Commit, Replied
  <1>1. /\ src \in Sources /\ w \in Windows[src] /\ v \in Tables /\ Older(v)
        /\ \A x \in v.divs : PairInId(x)
    BY <1>0, Active DEF Replied
  <1>2. /\ tables'.txs = tables.txs \cup new.txs /\ tables'.divs = tables.divs \cup new.divs
        /\ tables'.symbols = tables.symbols \cup new.symbols
        /\ tables'.cash \subseteq all /\ \A x \in all : IsOpening(x) \/ x \in tables'.cash
        /\ tables' = [txs |-> tables'.txs, divs |-> tables'.divs, symbols |-> tables'.symbols,
                      cash |-> tables'.cash]
    BY <1>0, CollapsedKeeps DEF Commit
  <1>3. uploaded' = [uploaded EXCEPT ![src] = uploaded[src] \cup {w}] /\ settled' \in BOOLEAN
    BY <1>0, TypesOf DEF Commit
  <1>4. /\ \A x \in new.txs, y \in tables.txs : ~SameKey(x, y)
        /\ \A x \in new.cash, y \in tables.cash : ~SameKey(x, y)
        /\ \A x \in new.divs, y \in tables.divs : ~SamePair(x, y) /\ ~SameKey(x, y)
    BY <1>0 DEF IInv, Held, Conflict, Clash
  <1> DEFINE s == Records[src][w]
  <1>5. /\ new \in Tables
        /\ \A x \in new.divs : PairInId(x)
        /\ \A x \in new.txs : x.sym \in v.symbols \cup new.symbols
        /\ \A x \in new.divs : x.sym \in v.symbols \cup new.symbols
        /\ \A x, y \in new.txs : SameKey(x, y) => x = y
        /\ \A x, y \in new.cash : SameKey(x, y) => x = y
        /\ \A x, y \in new.divs : SameKey(x, y) \/ SamePair(x, y) => x = y
        /\ \A x \in Range(s) :
              \/ x.rec = "trade" /\ \E y \in v.txs \cup new.txs : SameKey(y, x)
              \/ x.rec = "cash" /\ \E y \in v.cash \cup new.cash : SameKey(y, x)
              \/ x.rec = "dividend" /\ \E y \in v.divs \cup new.divs : SamePair(y, x)
    <2> HIDE DEF src, w, v
    <2> QED BY <1>1, ImportFacts
  <1> HIDE DEF new, s, src, w, v
  <1>6. tables \in Tables /\ UniqueKeys /\ KnownSymbols /\ IdsOfPairs
    BY DEF IInv, TypeOK
  <1>7. /\ new.txs \subseteq TradeRows /\ new.divs \subseteq DividendRows
        /\ new.cash \subseteq CashRows /\ new.symbols \subseteq Symbols
        /\ tables.txs \subseteq TradeRows /\ tables.divs \subseteq DividendRows
        /\ tables.cash \subseteq CashRows /\ tables.symbols \subseteq Symbols
    BY <1>5, <1>6 DEF Tables
  <1>8. tables' \in Tables
    BY <1>2, <1>7 DEF Tables
  <1>9. Grows
    BY <1>2 DEF Grows
  <1>10. UniqueKeys'
    <2>1. \A x, y : /\ SameKey(x, y) <=> SameKey(y, x)
                    /\ SamePair(x, y) <=> SamePair(y, x)
      BY DEF SameKey, SamePair
    <2>2. \A x, y \in tables'.txs : SameKey(x, y) => x = y
      BY <1>2, <1>4, <1>5, <1>6, <2>1 DEF UniqueKeys
    <2>3. \A x, y \in tables'.cash : SameKey(x, y) => x = y
      <3>1. \A x, y \in all : SameKey(x, y) => x = y
        BY <1>4, <1>5, <1>6, <2>1 DEF UniqueKeys
      <3> QED BY <1>2, <3>1
    <2>4. \A x, y \in tables'.divs : SameKey(x, y) \/ SamePair(x, y) => x = y
      BY <1>2, <1>4, <1>5, <1>6, <2>1 DEF UniqueKeys
    <2> QED BY <2>2, <2>3, <2>4 DEF UniqueKeys, SameKey, SamePair
  <1>11. KnownSymbols'
    <2>1. v.symbols \subseteq tables.symbols
      BY <1>1 DEF Older
    <2> QED BY <1>2, <1>5, <1>6, <2>1 DEF KnownSymbols
  <1>12. IdsOfPairs'
    <2>1. \A x \in new.divs : x.rec = "dividend"
      BY <1>7 DEF DividendRows
    <2> QED BY <1>2, <1>5, <1>6, <2>1 DEF IdsOfPairs, PairInId
  <1>13. ASSUME NEW x \in Range(s) PROVE There(x)'
    <2>1. CASE x.rec = "trade" /\ \E y \in v.txs \cup new.txs : SameKey(y, x)
      <3>1. \E y \in tables'.txs : SameKey(y, x)
        BY <1>1, <1>2, <2>1 DEF Older
      <3> QED BY <2>1, <3>1 DEF There, SameKey
    <2>2. CASE x.rec = "cash" /\ \E y \in v.cash \cup new.cash : SameKey(y, x)
      <3>1. PICK y \in v.cash \cup new.cash : SameKey(y, x)
        BY <2>2
      <3>2. CASE IsOpening(y)
        BY <2>2, <3>1, <3>2 DEF There, IsOpening, SameKey
      <3>3. CASE ~IsOpening(y)
        <4>1. y \in all
          BY <1>1, <3>3 DEF Older
        <4>2. y \in tables'.cash
          BY <1>2, <3>3, <4>1
        <4> QED BY <2>2, <3>1, <4>2 DEF There, SameKey
      <3> QED BY <3>2, <3>3
    <2>3. CASE x.rec = "dividend" /\ \E y \in v.divs \cup new.divs : SamePair(y, x)
      <3>1. \E y \in tables'.divs : SamePair(y, x)
        BY <1>1, <1>2, <2>3 DEF Older
      <3> QED BY <2>3, <3>1 DEF There, SamePair
    <2> QED BY <1>5, <2>1, <2>2, <2>3
  <1>14. /\ uploaded' \in [Sources -> SUBSET Spans]
         /\ \A c \in Sources : uploaded'[c] \subseteq Windows[c]
         /\ \A c \in Sources : \A u \in uploaded'[c] : u \in uploaded[c] \/ (c = src /\ u = w)
    BY <1>1, <1>3, TypesOf
  <1>15. \A c \in Sources : \A u \in uploaded'[c] :
            u \in uploaded[c] \/ \A x \in Range(Records[c][u]) : There(x)'
    <2> SUFFICES ASSUME NEW c \in Sources, NEW u \in uploaded'[c], u \notin uploaded[c],
                        NEW x \in Range(Records[c][u])
                 PROVE  There(x)'
      OBVIOUS
    <2>1. c = src /\ u = w
      BY <1>14
    <2> QED BY <1>13, <2>1 DEF s
  <1>16. ASSUME NEW q \in Requests, Replied(q)' PROVE ~Clash(NewRows(q), tables')
    <2>1. q # r /\ req'[q] = req[q]
      BY <1>0, <1>16, Ended
    <2>2. Replied(q)
      BY <1>16, <2>1 DEF Replied
    <2>3. ~Clash(NewRows(q), tables) /\ ~Clash(NewRows(q), new)
      BY <1>0, <2>1, <2>2 DEF IInv, Held, Conflict
    <2> QED BY <1>2, <2>3 DEF Clash
  <1>17. Held'
    BY <1>0, <1>16, Ended, StillHeld
  <1> QED BY <1>0, <1>3, <1>8, <1>9, <1>10, <1>11, <1>12, <1>14, <1>15, <1>17, Ended, StepInv, TypesOf

LEMMA JobBeginInv == ASSUME IInv, JobBegin PROVE IInv'
  <1>1. /\ job' = [phase |-> "fetch", divs |-> tables.divs, symbols |-> tables.symbols]
        /\ UNCHANGED <<tables, req, uploaded, settled>>
    BY DEF JobBegin
  <1>2. tables.divs \subseteq DividendRows /\ tables.symbols \subseteq Symbols
    BY TypesOf DEF Tables
  <1>3. /\ job' \in {Idle} \cup [phase : {"fetch"}, divs : SUBSET DividendRows, symbols : SUBSET Symbols]
        /\ job'.symbols \subseteq tables.symbols
    BY <1>1, <1>2
  <1>4. Held'
    BY <1>1, SameHeld
  <1> QED BY <1>1, <1>3, <1>4, Same, StepInv, TypesOf

\* One declared dividend as a row.
LEMMA JobRowFacts ==
  ASSUME NEW k \in DOMAIN Declared
  PROVE  LET d == Declared[k]
             r == JobRow(d)
         IN /\ r \in DividendRows /\ PairInId(r) /\ r.sym = d.sym /\ r.at = d.day
            /\ k \in Nat
  <1> DEFINE d == Declared[k]
  <1>1. d \in [sym : Symbols, day : Int, amount : Int, cur : Currencies] /\ k \in Nat
    <2> DEFINE T == [sym : Symbols, day : Int, amount : Int, cur : Currencies]
    <2>1. Declared \in Seq(T)
      BY StatementAssumption
    <2> HIDE DEF T
    <2>2. Declared[k] \in T /\ k \in Nat
      BY <2>1
    <2> QED BY <2>2 DEF T
  <1> HIDE DEF d
  <1>2. d.sym \in Symbols /\ d.day \in Int /\ d.amount \in Int /\ d.cur \in Currencies
    BY <1>1
  <1>3. /\ JobRow(d).sym = d.sym /\ JobRow(d).at = d.day
        /\ JobRow(d).id.sym = d.sym /\ JobRow(d).id.day = d.day
    BY DEF JobRow
  <1>4. [day |-> d.day, kind |-> "declared", sym |-> d.sym, qty |-> 0,
         price |-> 0, amount |-> d.amount, cur |-> d.cur] \in Ids
    BY <1>2 DEF Ids
  <1>5. JobRow(d) \in DividendRows
    BY <1>2, <1>4 DEF JobRow, DividendRows
  <1> QED BY <1>1, <1>3, <1>5 DEF d, PairInId

LEMMA NewDividendIds ==
  ASSUME IInv, NEW r \in Requests, Replied(r)
  PROVE  \A x \in NewRows(r).divs : PairInId(x) /\ x.rec = "dividend"
  <1> DEFINE src == req[r].src
             w   == req[r].w
             v   == req[r].view
  <1>1. /\ src \in Sources /\ w \in Windows[src] /\ v \in Tables
        /\ \A x \in v.divs : PairInId(x)
    BY Active DEF Replied
  <1>2. NewRows(r) = Import(v, src, w)
    BY Active DEF Replied
  <1> HIDE DEF src, w, v
  <1>3. NewRows(r) \in Tables /\ \A x \in NewRows(r).divs : PairInId(x)
    BY <1>1, <1>2, ImportFacts
  <1> QED BY <1>3 DEF Tables, DividendRows

LEMMA JobFinishInv == ASSUME IInv, NEW answers, JobFinish(answers) PROVE IInv'
  <1> DEFINE quoted == {k \in DOMAIN Declared : Declared[k].sym \in job.symbols \cap answers}
             first  == {k \in quoted : ~\E j \in DOMAIN Declared : /\ j < k
                                                                  /\ Declared[j].sym = Declared[k].sym
                                                                  /\ Declared[j].day = Declared[k].day}
             new    == {r \in {JobRow(Declared[k]) : k \in first} : ~\E x \in job.divs : SamePair(x, r)}
  <1>1. /\ job.phase = "fetch" /\ job' = Idle /\ UNCHANGED <<req, uploaded, settled>>
        /\ tables' = IF \E x \in new, y \in tables.divs : SamePair(x, y) THEN tables
                     ELSE [tables EXCEPT !.divs = @ \cup new]
        /\ \A q \in Requests : Replied(q) => \A x \in new, y \in NewRows(q).divs : ~SamePair(x, y)
    BY DEF JobFinish
  <1>2. job.symbols \subseteq tables.symbols
    BY <1>1, TypesOf DEF Idle
  <1>3. ASSUME NEW x \in new
        PROVE  x \in DividendRows /\ PairInId(x) /\ x.rec = "dividend" /\ x.sym \in tables.symbols
    <2>1. PICK k \in first : x = JobRow(Declared[k])
      OBVIOUS
    <2>2. x \in DividendRows /\ PairInId(x) /\ x.sym = Declared[k].sym
      BY <2>1, JobRowFacts
    <2>3. Declared[k].sym \in tables.symbols
      BY <1>2
    <2> QED BY <2>2, <2>3 DEF DividendRows
  <1>4. ASSUME NEW x \in new, NEW y \in new, SamePair(x, y) PROVE x = y
    <2>1. PICK j \in first : x = JobRow(Declared[j])
      OBVIOUS
    <2>2. PICK k \in first : y = JobRow(Declared[k])
      OBVIOUS
    <2>3. /\ j \in Nat /\ x.sym = Declared[j].sym /\ x.at = Declared[j].day
          /\ k \in Nat /\ y.sym = Declared[k].sym /\ y.at = Declared[k].day
      BY <2>1, <2>2, JobRowFacts
    <2>4. ~(j < k) /\ ~(k < j)
      BY <1>4, <2>3 DEF SamePair
    <2>5. j = k
      BY <2>3, <2>4
    <2> QED BY <2>1, <2>2, <2>5
  <1> HIDE DEF new
  <1>5. CASE \E x \in new, y \in tables.divs : SamePair(x, y)
    <2>1. Held'
      BY <1>1, <1>5, SameHeld
    <2> QED BY <1>1, <1>5, <2>1, Same, StepInv, TypesOf
  <1>6. CASE ~\E x \in new, y \in tables.divs : SamePair(x, y)
    <2>1. tables \in Tables /\ UniqueKeys /\ KnownSymbols /\ IdsOfPairs
      BY DEF IInv, TypeOK
    <2>2. /\ tables'.divs = tables.divs \cup new /\ tables'.txs = tables.txs
          /\ tables'.cash = tables.cash /\ tables'.symbols = tables.symbols
          /\ tables' = [txs |-> tables.txs, divs |-> tables.divs \cup new, cash |-> tables.cash,
                        symbols |-> tables.symbols]
      BY <1>1, <1>6, <2>1 DEF Tables
    <2>3. tables' \in Tables
      BY <1>3, <2>1, <2>2 DEF Tables
    <2>4. Grows
      BY <2>2 DEF Grows
    <2>5. KnownSymbols' /\ IdsOfPairs'
      BY <1>3, <2>1, <2>2 DEF KnownSymbols, IdsOfPairs, PairInId
    <2>6. UniqueKeys'
      <3>1. \A x, y : SamePair(x, y) <=> SamePair(y, x)
        BY DEF SamePair
      <3>2. \A x, y \in tables'.divs : SamePair(x, y) => x = y
        BY <1>4, <1>6, <2>1, <2>2, <3>1 DEF UniqueKeys
      <3>3. \A x, y \in tables'.divs : SameKey(x, y) => SamePair(x, y)
        BY <2>5 DEF IdsOfPairs, SameKey, SamePair
      <3>4. \A x, y \in tables'.divs : SameKey(x, y) \/ SamePair(x, y) => x = y
        BY <3>2, <3>3
      <3> QED BY <2>1, <2>2, <3>4 DEF UniqueKeys, SameKey, SamePair
    <2>7. ASSUME NEW q \in Requests, Replied(q) PROVE ~Clash(NewRows(q), tables')
      <3>1. ~Clash(NewRows(q), tables)
        BY <2>7 DEF IInv, Held, Conflict
      <3>2. \A x \in NewRows(q).divs : PairInId(x) /\ x.rec = "dividend"
        BY <2>7, NewDividendIds
      <3>3. \A x \in NewRows(q).divs, y \in new : ~SamePair(x, y) /\ ~SameKey(x, y)
        BY <1>1, <1>3, <2>7, <3>2 DEF SamePair, SameKey, PairInId
      <3> QED BY <2>2, <3>1, <3>3 DEF Clash
    <2>8. Held'
      BY <1>1, <2>7, StillHeld DEF Replied
    <2> QED BY <1>1, <2>3, <2>4, <2>5, <2>6, <2>8, StepInv, TypesOf
  <1> QED BY <1>5, <1>6

LEMMA NextInv == IInv /\ [Next]_vars => IInv'
  <1> SUFFICES ASSUME IInv, [Next]_vars PROVE IInv'
    OBVIOUS
  <1>1. ASSUME UNCHANGED vars PROVE IInv'
    <2>1. Held'
      BY <1>1, SameHeld DEF vars
    <2> QED BY <1>1, <2>1, Same, StepInv, TypesOf DEF vars
  <1>2. CASE Next
    BY <1>2, BeginInv, ReplyInv, CommitInv, AbortInv, JobBeginInv, JobFinishInv DEF Next
  <1> QED BY <1>1, <1>2

-----------------------------------------------------------------------------
\* The inductive invariant holds in every state.
THEOREM Invariance == Spec => []IInv
  BY InitInv, NextInv, PTL DEF Spec

\* Every variable has its type, no two rows share a UNIQUE key, and no row is
\* without its symbol, whatever is uploaded, by whom and how often, and
\* whatever the dividend job adds in between.
THEOREM ImportTypeCorrect == Spec => []TypeOK
  <1>1. IInv => TypeOK
    BY DEF IInv
  <1> QED BY <1>1, Invariance, PTL

\* What an import committed stays (services/exchange_sync.py, import_records),
\* a row of its key for every line, whatever overlaps it and whatever is
\* uploaded later.
THEOREM NothingIsLost == Spec => []NothingLost
  <1>1. IInv => NothingLost
    BY DEF IInv
  <1> QED BY <1>1, Invariance, PTL

\* A statement can always be imported again.
THEOREM RetriesSucceed == Spec => []RetrySucceeds
  <1>1. ASSUME IInv, NEW r \in Requests, req[r] # Idle, req[r].view = tables
        PROVE  ~Conflict(Import(tables, req[r].src, req[r].w))
    <2> DEFINE src == req[r].src
               w   == req[r].w
               new == Import(tables, src, w)
    <2>1. req[r].phase \in {"import", "replied"}
      BY <1>1, TypesOf DEF Uploading
    <2>2. src \in Sources /\ w \in Windows[src] /\ tables \in Tables /\ \A x \in tables.divs : PairInId(x)
      BY <1>1, <2>1, Active
    <2>3. /\ \A x \in new.txs, y \in tables.txs : ~SameKey(y, x)
          /\ \A x \in new.cash, y \in tables.cash : ~SameKey(y, x)
          /\ \A x \in new.divs, y \in tables.divs : ~SamePair(y, x) /\ ~SameKey(y, x)
          /\ new.symbols \cap tables.symbols = {}
      <3> HIDE DEF src, w
      <3> QED BY <2>2, ImportFacts
    <2> HIDE DEF new
    <2> QED BY <2>3 DEF Conflict, Clash, SameKey, SamePair, new
  <1>2. IInv => RetrySucceeds
    BY <1>1 DEF RetrySucceeds
  <1> QED BY <1>2, Invariance, PTL
-----------------------------------------------------------------------------
(***************************************************************************)
(* The holdings query reads every row once, in the repository's order.     *)
(***************************************************************************)
LEMMA SetAsSequence ==
  ASSUME NEW S, IsFiniteSet(S)
  PROVE  LET s == SetToSeq(S)
             n == Cardinality(S)
         IN  /\ n \in Nat /\ s \in [1 .. n -> S]
             /\ \A p, q \in 1 .. n : s[p] = s[q] => p = q
             /\ \A x \in S : \E p \in 1 .. n : s[p] = x
  <1> DEFINE s == SetToSeq(S)
             n == Cardinality(S)
  <1>1. n \in Nat /\ ExistsBijection(1 .. n, S)
    BY FS_CardinalityType
  <1>2. PICK f \in [1 .. n -> S] : \A p, q \in 1 .. n : f[p] = f[q] => p = q
    BY <1>1 DEF ExistsBijection, Bijection, Injection, IsInjective
  <1>3. s = CHOOSE e \in [1 .. n -> S] : IsInjective(e)
    BY DEF SetToSeq
  <1> HIDE DEF s, n
  <1>4. s \in [1 .. n -> S] /\ IsInjective(s)
    <2>1. IsInjective(f)
      BY <1>2 DEF IsInjective
    <2> QED BY <1>2, <1>3, <2>1
  <1>5. \A p, q \in 1 .. n : s[p] = s[q] => p = q
    BY <1>4 DEF IsInjective
  <1>6. s \in Surjection(1 .. n, S)
    <2>1. s \in Injection(1 .. n, S)
      BY <1>4 DEF Injection
    <2>2. Cardinality(1 .. n) = n
      BY <1>1, FS_Interval
    <2>3. Cardinality(1 .. n) = Cardinality(S)
      BY <2>2 DEF n
    <2> QED BY <2>1, <2>3, FS_Injection
  <1>7. \A x \in S : \E p \in 1 .. n : s[p] = x
    BY <1>6 DEF Surjection
  <1>8. n \in Nat /\ s \in [1 .. n -> S]
    BY <1>1, <1>4
  <1> QED BY <1>5, <1>7, <1>8 DEF s, n

\* d reads every row of S once, in the repository's order.
Reads(d, S) ==
    /\ d \in Seq(S) /\ TimeOrdered(d)
    /\ \A p, q \in DOMAIN d : d[p] = d[q] => p = q
    /\ \A x \in S : \E p \in DOMAIN d : d[p] = x

LEMMA ReadingReads ==
  ASSUME NEW S, IsFiniteSet(S), \A x \in S : x.at \in Int
  PROVE  Reads(Reading(S), S)
  <1> DEFINE t == SetToSeq(S)
             n == Cardinality(S)
             ids == 1 .. n
             c == InOrder(t, ids)
  <1>1. /\ n \in Nat /\ t \in [ids -> S]
        /\ \A p, q \in ids : t[p] = t[q] => p = q
        /\ \A x \in S : \E p \in ids : t[p] = x
    BY SetAsSequence
  <1> HIDE DEF t, n
  <1>2. DOMAIN t = ids /\ Reading(S) = c
    BY <1>1 DEF Reading, t
  <1>3. IsFiniteSet(ids) /\ Cardinality(ids) = n
    BY <1>1, FS_Interval
  <1>4. Dated(t, ids)
    BY <1>1 DEF Dated
  <1> HIDE DEF ids, c
  <1>5. /\ DOMAIN c = 1 .. n /\ c = [p \in 1 .. n |-> c[p]]
        /\ \E h \in [1 .. n -> ids] :
              /\ \A p \in 1 .. n : c[p] = t[h[p]]
              /\ \A p, q \in 1 .. n : p < q => Precedes(t, h[p], h[q])
              /\ {h[p] : p \in 1 .. n} = ids
    <2>1. LET m == Cardinality(ids)
              e == InOrder(t, ids)
          IN  /\ m \in Nat /\ DOMAIN e = 1 .. m /\ e = [p \in 1 .. m |-> e[p]]
              /\ \E h \in [1 .. m -> ids] :
                    /\ \A p \in 1 .. m : e[p] = t[h[p]]
                    /\ \A p, q \in 1 .. m : p < q => Precedes(t, h[p], h[q])
                    /\ {h[p] : p \in 1 .. m} = ids
      BY <1>3, <1>4, OrderedPlaces
    <2> QED BY <1>3, <2>1 DEF c
  <1>6. PICK h \in [1 .. n -> ids] :
              /\ \A p \in 1 .. n : c[p] = t[h[p]]
              /\ \A p, q \in 1 .. n : p < q => Precedes(t, h[p], h[q])
              /\ {h[p] : p \in 1 .. n} = ids
    BY <1>5
  <1>7. \A i, j \in ids : /\ ~Precedes(t, i, i)
                          /\ ~(Precedes(t, i, j) /\ Precedes(t, j, i))
                          /\ Precedes(t, i, j) => t[i].at <= t[j].at
    BY <1>4, PrecedesOrder
  <1>8. \A p \in 1 .. n : h[p] \in ids /\ c[p] = t[h[p]] /\ c[p] \in S
    BY <1>1, <1>6
  <1>9. c \in Seq(S)
    <2>1. c \in [1 .. n -> S]
      BY <1>5, <1>8
    <2> QED BY <1>1, <2>1
  <1>10. TimeOrdered(c)
    <2>1. ASSUME NEW p \in 1 .. n, NEW q \in 1 .. n, p < q
          PROVE  c[p].at <= c[q].at /\ ~Earlier(c[q], c[p])
      <3>1. Precedes(t, h[p], h[q]) /\ h[p] \in ids /\ h[q] \in ids
        BY <1>6, <1>8, <2>1
      <3>2. t[h[p]].at <= t[h[q]].at /\ ~Precedes(t, h[q], h[p])
        BY <1>7, <3>1
      <3> QED BY <1>8, <3>2 DEF Precedes
    <2> QED BY <1>5, <2>1 DEF TimeOrdered
  <1>11. ASSUME NEW p \in 1 .. n, NEW q \in 1 .. n, c[p] = c[q] PROVE p = q
    <2>1. h[p] = h[q]
      BY <1>1, <1>8, <1>11
    <2>2. ~(p < q) /\ ~(q < p)
      BY <1>6, <1>7, <1>8, <2>1
    <2> QED BY <1>1, <2>2
  <1>12. ASSUME NEW x \in S PROVE \E p \in 1 .. n : c[p] = x
    <2>1. PICK i \in ids : t[i] = x
      BY <1>1
    <2>2. PICK p \in 1 .. n : h[p] = i
      BY <1>6
    <2> QED BY <1>8, <2>1, <2>2
  <1> QED BY <1>2, <1>5, <1>9, <1>10, <1>11, <1>12 DEF Reads

\* The shares of some rows.
RowShares(S) == SumFunctionOnSet([x \in S |-> Signed(x)], S)

\* Where no day leaves them below zero, the walk ends with them.
LEMMA WalkOfReading ==
  ASSUME NEW S, IsFiniteSet(S), Walkable(S),
         \A time \in Int : RowShares({x \in S : x.at <= time}) >= 0
  PROVE  Walk(Reading(S)) = RowShares(S)
  <1> DEFINE d == Reading(S)
  <1>1. Reads(d, S)
    BY ReadingReads DEF Walkable
  <1> HIDE DEF d
  <1>2. /\ d \in Seq(S) /\ TimeOrdered(d) /\ DOMAIN d = 1 .. Len(d) /\ Len(d) \in Nat
        /\ \A p \in DOMAIN d : d[p] \in S
    BY <1>1 DEF Reads
  <1>3. \A p \in DOMAIN d : Signs(d)[p] = Signed(d[p]) /\ Signs(d)[p] \in Int
    BY <1>2, SignsOf
  <1>4. IsFiniteSet(DOMAIN d)
    BY <1>2, FS_Interval
  <1>5. ASSUME NEW D \in SUBSET DOMAIN d, NEW T, T = {d[p] : p \in D}
        PROVE  Added(d, D) = RowShares(T)
    <2> DEFINE f == Signs(d)
               g == [x \in T |-> Signed(x)]
    <2>1. IsFiniteSet(D)
      BY <1>4, FS_Subset
    <2>2. \A p, q \in D : d[p] = d[q] => p = q
      BY <1>1 DEF Reads
    <2>3. \A p \in D : f[p] \in Int /\ g[d[p]] = f[p] /\ d[p] \in T
      BY <1>3, <1>5
    <2>4. \A y \in T : \E p \in D : d[p] = y
      BY <1>5
    <2> HIDE DEF f, g
    <2>5. Renaming(d, f, D, g, T)
      BY <2>2, <2>3, <2>4 DEF Renaming
    <2>6. SumFunctionOnSet(f, D) = SumFunctionOnSet(g, T)
      BY <2>1, <2>5, SumOverImage
    <2> QED BY <2>6 DEF Added, RowShares, f, g
  <1>6. ASSUME NEW time \in Int PROVE Added(d, By(d, time)) >= 0
    <2> DEFINE T == {x \in S : x.at <= time}
    <2>1. By(d, time) \in SUBSET DOMAIN d
      BY DEF By
    <2>2. T = {d[p] : p \in By(d, time)}
      BY <1>1, <1>2 DEF Reads, By
    <2>3. RowShares(T) >= 0
      OBVIOUS
    <2> HIDE DEF T
    <2> QED BY <1>5, <2>1, <2>2, <2>3
  <1>7. Added(d, DOMAIN d) = RowShares(S)
    <2>1. S = {d[p] : p \in DOMAIN d}
      BY <1>1, <1>2 DEF Reads
    <2> QED BY <1>5, <2>1
  <1>8. Walk(d) = Added(d, DOMAIN d)
    BY <1>2, <1>6, WalkOfWholeDays
  <1> QED BY <1>7, <1>8 DEF d

-----------------------------------------------------------------------------
(***************************************************************************)
(* The rows of a symbol are the lines of the statements that trade it.     *)
(***************************************************************************)
LEMMA BookFacts ==
  ASSUME NEW src \in Sources
  PROVE  /\ Len(Book[src]) \in Nat /\ DOMAIN Book[src] = 1 .. Len(Book[src])
         /\ IsFiniteSet(DOMAIN Book[src])
         /\ \A k \in DOMAIN Book[src] : /\ Book[src][k] \in BookRows
                                        /\ Book[src][k].day \in Int /\ Book[src][k].qty \in Int
         /\ \A j, k \in DOMAIN Book[src] : j < k => Book[src][j].day <= Book[src][k].day
  <1>1. Book[src] \in Seq(BookRows) /\ \A j, k \in DOMAIN Book[src] :
            j < k => Book[src][j].day <= Book[src][k].day
    BY BookAssumption
  <1>2. Len(Book[src]) \in Nat /\ DOMAIN Book[src] = 1 .. Len(Book[src])
    BY <1>1
  <1>3. IsFiniteSet(DOMAIN Book[src])
    BY <1>2, FS_Interval
  <1>4. \A k \in DOMAIN Book[src] : Book[src][k] \in BookRows
    BY <1>1
  <1>5. \A k \in DOMAIN Book[src] : Book[src][k].day \in Int /\ Book[src][k].qty \in Int
    BY <1>4, RowTypes
  <1> QED BY <1>1, <1>2, <1>3, <1>4, <1>5

\* What a line adds to the shares at the broker.
Gain(src, k) == IF Book[src][k].kind \in {"buy", "coin_in"} THEN Book[src][k].qty ELSE -Book[src][k].qty

Gains(src) == [k \in DOMAIN Book[src] |-> Gain(src, k)]

LEMMA SharesAreGains == \A src, D : Shares(src, D) = SumFunctionOnSet(Gains(src), D)
  BY DEF Shares, Gains, Gain

LEMMA TradeOfLine ==
  ASSUME NEW src \in Sources, NEW sym, NEW k \in TradesOf(src, sym)
  PROVE  LET x == TradeOf(src, Book[src][k])
         IN  /\ x.rec = "trade" /\ x.src = src /\ x.sym = sym /\ x.id = RowId(Book[src][k])
             /\ x.at = Book[src][k].day /\ x.qty = Book[src][k].qty /\ x.type \in {"BUY", "SELL"}
             /\ Signed(x) = Gain(src, k) /\ Gain(src, k) \in Int
             /\ k \in DOMAIN Book[src] /\ x.at \in Int
  <1>1. k \in DOMAIN Book[src] /\ Book[src][k].sym = sym
    BY DEF TradesOf
  <1>2. Book[src][k].qty \in Int /\ Book[src][k].day \in Int
    BY <1>1, BookFacts
  <1> DEFINE b == Book[src][k]
             x == TradeOf(src, b)
  <1>3. /\ x.rec = "trade" /\ x.src = src /\ x.sym = b.sym /\ x.id = RowId(b) /\ x.at = b.day /\ x.qty = b.qty
        /\ x.type = IF b.kind \in {"buy", "coin_in"} THEN "BUY" ELSE "SELL"
    BY DEF TradeOf
  <1>4. Gain(src, k) = IF b.kind \in {"buy", "coin_in"} THEN b.qty ELSE -b.qty
    BY DEF Gain
  <1> HIDE DEF b, x
  <1>5. x.type \in {"BUY", "SELL"} /\ Signed(x) = Gain(src, k)
    BY <1>3, <1>4 DEF Signed
  <1>6. b.qty \in Int /\ b.day \in Int /\ b.sym = sym
    BY <1>1, <1>2 DEF b
  <1>7. Gain(src, k) \in Int
    BY <1>4, <1>6
  <1> QED BY <1>1, <1>3, <1>5, <1>6, <1>7 DEF b, x

\* Two lines of a plain book have two ids.
LEMMA PlainIsApart ==
  ASSUME NEW src \in Sources, NEW sym, Plain(src, sym),
         NEW j \in TradesOf(src, sym), NEW k \in TradesOf(src, sym),
         RowId(Book[src][j]) = RowId(Book[src][k])
  PROVE  j = k
  <1> DEFINE stripped(i) == [Book[src][i] EXCEPT !.fee = 0, !.tax = 0]
  <1>1. j \in DOMAIN Book[src] /\ k \in DOMAIN Book[src]
    BY DEF TradesOf
  <1>2. Book[src][j] \in BookRows /\ Book[src][k] \in BookRows
    BY <1>1, BookFacts
  <1>3. ASSUME NEW x \in BookRows, NEW y \in BookRows, RowId(x) = RowId(y)
        PROVE  [x EXCEPT !.fee = 0, !.tax = 0] = [y EXCEPT !.fee = 0, !.tax = 0]
    <2>1. /\ x.day = y.day /\ x.kind = y.kind /\ x.sym = y.sym /\ x.qty = y.qty
          /\ x.price = y.price /\ x.amount = y.amount /\ x.cur = y.cur
      BY <1>3 DEF RowId
    <2> DEFINE u == [x EXCEPT !.fee = 0, !.tax = 0]
               v == [y EXCEPT !.fee = 0, !.tax = 0]
               F == {"day", "kind", "sym", "qty", "price", "amount", "fee", "tax", "cur"}
    <2>3. DOMAIN x = F /\ DOMAIN y = F
      BY DEF BookRows
    <2>4. DOMAIN u = F /\ DOMAIN v = F /\ u = [i \in F |-> u[i]] /\ v = [i \in F |-> v[i]]
      BY <2>3
    <2>5. \A i \in F : u[i] = v[i]
      BY <2>1, <2>3
    <2> HIDE DEF u, v, F
    <2>6. [i \in F |-> u[i]] = [i \in F |-> v[i]]
      BY <2>5
    <2>7. u = v
      BY <2>4, <2>6
    <2> QED BY <2>7 DEF u, v
  <1>4. stripped(j) = stripped(k)
    BY <1>2, <1>3
  <1> HIDE DEF stripped
  <1> QED BY <1>4 DEF Plain, stripped

\* The rows some lines become.
RowsOfLines(src, D) == {TradeOf(src, Book[src][k]) : k \in D}

LEMMA SharesOfLines ==
  ASSUME NEW src \in Sources, NEW sym, Plain(src, sym), NEW D \in SUBSET TradesOf(src, sym)
  PROVE  /\ IsFiniteSet(D) /\ IsFiniteSet(RowsOfLines(src, D))
         /\ RowShares(RowsOfLines(src, D)) = Shares(src, D)
         /\ Shares(src, D) \in Int
  <1> DEFINE T == RowsOfLines(src, D)
             f == Gains(src)
             g == [x \in T |-> Signed(x)]
             h == [k \in D |-> TradeOf(src, Book[src][k])]
  <1>1. IsFiniteSet(D)
    BY BookFacts, FS_Subset DEF TradesOf
  <1>2. \A k \in D : /\ h[k] \in T /\ f[k] = Gain(src, k) /\ f[k] \in Int
                     /\ g[h[k]] = f[k] /\ h[k].id = RowId(Book[src][k])
    <2> SUFFICES ASSUME NEW k \in D
                 PROVE  /\ h[k] \in T /\ f[k] = Gain(src, k) /\ f[k] \in Int
                        /\ g[h[k]] = f[k] /\ h[k].id = RowId(Book[src][k])
      OBVIOUS
    <2>1. k \in TradesOf(src, sym)
      OBVIOUS
    <2>2. h[k] = TradeOf(src, Book[src][k]) /\ h[k] \in T
      BY DEF RowsOfLines
    <2>3. /\ Signed(h[k]) = Gain(src, k) /\ Gain(src, k) \in Int
          /\ h[k].id = RowId(Book[src][k]) /\ k \in DOMAIN Book[src]
      BY <2>1, <2>2, TradeOfLine
    <2>4. f[k] = Gain(src, k)
      BY <2>3 DEF Gains
    <2>5. g[h[k]] = Signed(h[k])
      BY <2>2
    <2> HIDE DEF f, g, h, T
    <2> QED BY <2>2, <2>3, <2>4, <2>5
  <1>3. \A j, k \in D : h[j] = h[k] => j = k
    <2> SUFFICES ASSUME NEW j \in D, NEW k \in D, h[j] = h[k] PROVE j = k
      OBVIOUS
    <2>1. RowId(Book[src][j]) = RowId(Book[src][k])
      <3> HIDE DEF h
      <3> QED BY <1>2
    <2> QED BY <2>1, PlainIsApart
  <1>4. \A y \in T : \E k \in D : h[k] = y
    BY DEF RowsOfLines
  <1> HIDE DEF f, g, h, T
  <1>5. Renaming(h, f, D, g, T)
    BY <1>2, <1>3, <1>4 DEF Renaming
  <1>6. IsFiniteSet(T) /\ SumFunctionOnSet(f, D) = SumFunctionOnSet(g, T)
    BY <1>1, <1>5, SumOverImage
  <1>7. SumFunctionOnSet(f, D) \in Int
    BY <1>1, <1>2, SumOnSet
  <1>8. Shares(src, D) = SumFunctionOnSet(f, D)
    BY SharesAreGains DEF f
  <1> QED BY <1>1, <1>6, <1>7, <1>8 DEF RowShares, T, g

LEMMA FiniteSources == IsFiniteSet(Sources)
  <1>1. {"toss", "shinhan", "kbank", "upbit"} = {"toss"} \cup {"shinhan"} \cup {"kbank"} \cup {"upbit"}
    OBVIOUS
  <1>2. \A x, y : IsFiniteSet({x} \cup {y})
    BY FS_Singleton, FS_AddElement
  <1>3. \A x, y, z : IsFiniteSet({x} \cup {y} \cup {z})
    BY <1>2, FS_AddElement
  <1>4. IsFiniteSet({"toss"} \cup {"shinhan"} \cup {"kbank"} \cup {"upbit"})
    BY <1>3, FS_AddElement
  <1> QED BY <1>1, <1>4, BookAssumption, FS_Subset

\* Terms that are zero may be left out.
LEMMA SumOfTheRest ==
  ASSUME NEW S, IsFiniteSet(S), NEW A \in SUBSET S, NEW f, \A x \in S : f[x] \in Int,
         \A x \in S \ A : f[x] = 0
  PROVE  SumFunctionOnSet(f, S) = SumFunctionOnSet(f, A)
  <1> DEFINE Z == S \ A
  <1>1. IsFiniteSet(A) /\ IsFiniteSet(Z) /\ A \cap Z = {} /\ A \cup Z = S
    BY FS_Subset
  <1>2. \A x \in Z : f[x] \in Int /\ f[x] = -f[x]
    OBVIOUS
  <1>3. \A x \in A \cup Z : f[x] \in Int
    OBVIOUS
  <1> HIDE DEF Z
  <1>4. SumFunctionOnSet(f, Z) \in Int /\ SumFunctionOnSet(f, Z) = -SumFunctionOnSet(f, Z)
    <2>1. SumFunctionOnSet(f, Z) = -SumFunctionOnSet(f, Z)
      BY <1>1, <1>2, SumNegated
    <2> QED BY <1>1, <1>2, <2>1, SumOnSet
  <1>5. SumFunctionOnSet(f, A \cup Z) = SumFunctionOnSet(f, A) + SumFunctionOnSet(f, Z)
    BY <1>1, <1>3, SumSplit
  <1>6. SumFunctionOnSet(f, A) \in Int
    BY <1>1, <1>3, SumOnSet
  <1>7. \A a, z \in Int : z = -z => a + z = a
    OBVIOUS
  <1>8. SumFunctionOnSet(f, A) + SumFunctionOnSet(f, Z) = SumFunctionOnSet(f, A)
    BY <1>4, <1>6, <1>7
  <1> QED BY <1>1, <1>5, <1>8

LEMMA SharesOfBrokers ==
  ASSUME NEW sym, NEW L,
         \A src \in Traders(sym) : Plain(src, sym) /\ L[src] \in SUBSET TradesOf(src, sym)
  PROVE  LET U == UNION {RowsOfLines(src, L[src]) : src \in Traders(sym)}
         IN  /\ IsFiniteSet(U)
             /\ RowShares(U) = SumFunction([src \in Traders(sym) |-> Shares(src, L[src])])
  <1> DEFINE B == Traders(sym)
             T == [src \in B |-> RowsOfLines(src, L[src])]
             U == UNION {RowsOfLines(src, L[src]) : src \in B}
             f == [x \in U |-> Signed(x)]
             g == [src \in B |-> Shares(src, L[src])]
             class == [x \in U |-> x.src]
             A == {src \in B : L[src] # {}}
  <1>1. B \subseteq Sources /\ IsFiniteSet(B)
    BY FiniteSources, FS_Subset DEF Traders
  <1>2. ASSUME NEW src \in B
        PROVE  /\ IsFiniteSet(T[src]) /\ RowShares(T[src]) = g[src] /\ g[src] \in Int
               /\ L[src] = {} => g[src] = 0
               /\ \A x \in T[src] : x.src = src /\ Signed(x) \in Int /\ L[src] # {}
               /\ L[src] # {} => T[src] # {}
    <2>1. src \in Sources /\ Plain(src, sym) /\ L[src] \in SUBSET TradesOf(src, sym)
      BY <1>1
    <2>2. T[src] = RowsOfLines(src, L[src]) /\ g[src] = Shares(src, L[src])
      OBVIOUS
    <2>3. IsFiniteSet(T[src]) /\ RowShares(T[src]) = g[src] /\ g[src] \in Int
      <3> HIDE DEF T, g
      <3> QED BY <2>1, <2>2, SharesOfLines
    <2>4. Shares(src, {}) = 0
      BY SharesAreGains, FS_EmptySet, SumOnSet
    <2>5. ASSUME NEW x \in RowsOfLines(src, L[src]) PROVE x.src = src /\ Signed(x) \in Int /\ L[src] # {}
      <3>1. PICK k \in L[src] : x = TradeOf(src, Book[src][k])
        BY DEF RowsOfLines
      <3>2. k \in TradesOf(src, sym)
        BY <2>1
      <3>3. x.src = src /\ Signed(x) = Gain(src, k) /\ Gain(src, k) \in Int
        BY <2>1, <3>1, <3>2, TradeOfLine
      <3> QED BY <3>3
    <2>6. L[src] # {} => RowsOfLines(src, L[src]) # {}
      BY DEF RowsOfLines
    <2> HIDE DEF T, g
    <2> QED BY <2>2, <2>3, <2>4, <2>5, <2>6
  <1>3. U = UNION {T[src] : src \in B}
    OBVIOUS
  <1>4. IsFiniteSet(U)
    <2>1. T \in Surjection(B, {T[src] : src \in B})
      BY DEF Surjection
    <2>2. IsFiniteSet({T[src] : src \in B})
      BY <1>1, <2>1, FS_Surjection
    <2> HIDE DEF T, U, B
    <2> QED BY <1>2, <1>3, <2>2, FS_UNION
  <1>5. \A x \in U : \E src \in B : x \in T[src] /\ x.src = src
    <2> HIDE DEF T, U, B, g
    <2> QED BY <1>2, <1>3
  <1>6. \A x \in U : f[x] = Signed(x) /\ class[x] = x.src
    OBVIOUS
  <1>7. DOMAIN g = B
    OBVIOUS
  <1>8. A \subseteq B /\ \A src \in B : src \in A <=> L[src] # {}
    OBVIOUS
  <1>9. RowShares(U) = SumFunctionOnSet(f, U)
    BY DEF RowShares
  <1>10. \A src \in B : RowShares(T[src]) = SumFunctionOnSet([x \in T[src] |-> Signed(x)], T[src])
    BY DEF RowShares
  <1> HIDE DEF T, U, f, g, class, A, B
  <1>11. A = {class[x] : x \in U}
    <2>1. \A x \in U : class[x] \in A
      BY <1>2, <1>5, <1>6, <1>8
    <2>2. ASSUME NEW src \in A PROVE \E x \in U : class[x] = src
      <3>1. PICK x \in T[src] : x.src = src
        BY <1>2, <1>8
      <3>2. x \in U
        BY <1>3, <1>8
      <3> QED BY <1>6, <3>1, <3>2
    <2> QED BY <2>1, <2>2
  <1>12. ASSUME NEW b \in A PROVE g[b] = SumFunctionOnSet(f, {x \in U : class[x] = b})
    <2>1. b \in B
      BY <1>8
    <2>2. {x \in U : class[x] = b} = T[b]
      <3>1. \A x \in T[b] : x \in U /\ class[x] = b
        BY <1>2, <1>3, <1>6, <2>1
      <3>2. \A x \in U : class[x] = b => x \in T[b]
        BY <1>5, <1>6
      <3>3. \A x : x \in {x_1 \in U : class[x_1] = b} <=> x \in T[b]
        BY <3>1, <3>2
      <3> QED BY <3>3
    <2> DEFINE t == [x \in T[b] |-> Signed(x)]
    <2>3. \A x \in T[b] : t[x] \in Int /\ f[x] = t[x]
      BY <1>2, <1>3, <1>6, <2>1
    <2>4. g[b] = SumFunctionOnSet(t, T[b]) /\ IsFiniteSet(T[b])
      BY <1>2, <1>10, <2>1
    <2> HIDE DEF t
    <2>5. SumFunctionOnSet(t, T[b]) = SumFunctionOnSet(f, T[b])
      BY <2>3, <2>4, SumOnSet
    <2> QED BY <2>2, <2>4, <2>5
  <1>13. \A x \in U : f[x] \in Int
    BY <1>2, <1>5, <1>6
  <1>14. SumFunctionOnSet(g, A) = SumFunctionOnSet(f, U)
    <2>1. Classes(U, f, g, class, A)
      BY <1>4, <1>11, <1>12, <1>13 DEF Classes
    <2> QED BY <2>1, SumByClass
  <1>15. SumFunctionOnSet(g, B) = SumFunctionOnSet(g, A)
    <2>1. \A src \in B : g[src] \in Int
      BY <1>2
    <2>2. \A src \in B \ A : g[src] = 0
      BY <1>2, <1>8
    <2> QED BY <1>1, <1>8, <2>1, <2>2, SumOfTheRest
  <1>16. SumFunction(g) = SumFunctionOnSet(g, B)
    BY <1>7 DEF SumFunction
  <1> QED BY <1>4, <1>9, <1>14, <1>15, <1>16 DEF U, g, B

-----------------------------------------------------------------------------
(***************************************************************************)
(* Statements that start where the account does and leave no day out have  *)
(* every line up to the last day: no day they cover ends short.            *)
(***************************************************************************)
Covered(src, sym) == {k \in TradesOf(src, sym) : Book[src][k].day \in Days(src)}

CoveredBy(src, sym, time) == {k \in Covered(src, sym) : Book[src][k].day <= time}

LEMMA NoDayEndsShort ==
  ASSUME NEW src \in Sources, NEW sym, FromTheStart(src), Plain(src, sym), NEW time \in Int
  PROVE  Shares(src, CoveredBy(src, sym, time)) >= 0
  <1> DEFINE C == CoveredBy(src, sym, time)
             n == Len(Book[src])
             day(k) == Book[src][k].day
  <1>1. /\ n \in Nat /\ DOMAIN Book[src] = 1 .. n
        /\ \A k \in 1 .. n : day(k) \in Int
        /\ \A j, k \in 1 .. n : j < k => day(j) <= day(k)
    BY BookFacts
  <1>2. C \in SUBSET (1 .. n) /\ \A k \in C : k \in TradesOf(src, sym) /\ day(k) \in Days(src) /\ day(k) <= time
    BY <1>1 DEF CoveredBy, Covered, TradesOf
  <1>3. \A k \in TradesOf(src, sym) : k \in 1 .. n
    BY <1>1 DEF TradesOf
  <1>4. CASE C = {}
    <2>1. Shares(src, {}) = 0
      BY SharesAreGains, FS_EmptySet, SumOnSet
    <2> HIDE DEF C
    <2> QED BY <1>4, <2>1 DEF C
  <1>5. CASE C # {}
    <2> DEFINE m == Max(C)
               E == {j \in TradesOf(src, sym) : Book[src][j].day <= Book[src][m].day}
    <2>1. m \in C /\ \A k \in C : k <= m
      <3> HIDE DEF C, n
      <3> QED BY <1>1, <1>2, <1>5, LargestMember
    <2> HIDE DEF m
    <2>2. m \in 1 .. n /\ 1 \in 1 .. n /\ day(m) \in Days(src) /\ day(m) <= time /\ m \in TradesOf(src, sym)
      <3>1. m \in 1 .. n /\ day(m) \in Days(src) /\ day(m) <= time /\ m \in TradesOf(src, sym)
        <4> HIDE DEF C, n, day
        <4> QED BY <1>2, <2>1
      <3> QED BY <1>1, <3>1
    <2>3. day(1) \in Days(src)
      <3>1. Book[src] # << >>
        BY <1>1, <2>2
      <3> QED BY <3>1 DEF FromTheStart
    <2>4. day(1) .. day(m) \subseteq Days(src)
      BY <2>2, <2>3 DEF FromTheStart, Contiguous
    <2>5. ASSUME NEW k \in C PROVE day(k) <= day(m)
      <3>1. k \in 1 .. n /\ (k = m \/ k < m)
        <4> HIDE DEF C, n
        <4> QED BY <1>1, <1>2, <2>1, <2>2
      <3> HIDE DEF C, n, day
      <3> QED BY <1>1, <2>2, <3>1
    <2>6. ASSUME NEW k \in TradesOf(src, sym), day(k) <= day(m) PROVE k \in C
      <3>1. k \in 1 .. n /\ day(k) \in Int /\ day(1) \in Int /\ day(m) \in Int /\ (k = 1 \/ 1 < k)
        <4>1. k \in 1 .. n /\ day(k) \in Int /\ day(1) \in Int /\ day(m) \in Int
          <5> HIDE DEF n, day, C
          <5> QED BY <1>1, <1>3, <2>2
        <4>2. k = 1 \/ 1 < k
          <5> HIDE DEF n
          <5> QED BY <1>1, <4>1
        <4> QED BY <4>1, <4>2
      <3>2. day(1) <= day(k) /\ day(k) <= time
        <4> HIDE DEF n, day
        <4> QED BY <1>1, <2>2, <2>6, <3>1
      <3>3. day(k) \in day(1) .. day(m)
        <4> HIDE DEF n, day
        <4> QED BY <2>6, <3>1, <3>2
      <3>4. day(k) \in Days(src)
        <4> HIDE DEF n, day
        <4> QED BY <2>4, <3>3
      <3> QED BY <3>2, <3>4 DEF CoveredBy, Covered
    <2>7. C = E
      <3>1. \A k : k \in E <=> k \in TradesOf(src, sym) /\ day(k) <= day(m)
        OBVIOUS
      <3> HIDE DEF C, E, n, day
      <3> QED BY <1>2, <2>5, <2>6, <3>1
    <2>8. Shares(src, E) >= 0
      BY <2>2 DEF Plain
    <2> HIDE DEF C, E
    <2> QED BY <2>7, <2>8 DEF C
  <1> QED BY <1>4, <1>5

-----------------------------------------------------------------------------
(***************************************************************************)
(* Every stored transaction is a line of a statement that was answered     *)
(* with 200, and every line of one that trades is a stored transaction.    *)
(***************************************************************************)
FromLine(x, src, k) == Book[src][k].kind \in Trades(src) /\ x = TradeOf(src, Book[src][k])

TracedTo(x, src, w) == \E k \in RowsIn(src, w) : FromLine(x, src, k)

Traced == \A x \in tables.txs : \E src \in Sources : \E w \in uploaded[src] : TracedTo(x, src, w)

\* A record of a trade is a line that trades, and the other way round.
LEMMA TradeRecords ==
  ASSUME NEW src \in Sources, NEW w \in Windows[src]
  PROVE  /\ \A x \in Range(Records[src][w]) : x.rec = "trade" => TracedTo(x, src, w)
         /\ \A k \in RowsIn(src, w) : Book[src][k].kind \in Trades(src) =>
               TradeOf(src, Book[src][k]) \in Range(Records[src][w])
  <1> DEFINE lines == {k \in RowsIn(src, w) : Recorded(src, Book[src][k])}
             opening == Opening(src, w)
             last == IF opening = << >> THEN {} ELSE {Len(Book[src]) + 1}
             s == Parsed(src, w)
  <1>1. Records[src][w] = s
    BY DEF Records
  <1>2. /\ DOMAIN s = lines \cup last
        /\ \A k \in DOMAIN s : s[k] = IF k \in lines THEN RecordOf(src, Book[src][k]) ELSE opening[1]
    BY DEF Parsed
  <1>3. \A y : Book[src][y].kind \in Trades(src) => RecordOf(src, Book[src][y]) = TradeOf(src, Book[src][y])
    <2>1. "dividend" \notin Trades(src)
      BY DEF Trades, TradeKinds
    <2> QED BY <2>1 DEF RecordOf
  <1>4. \A y : Book[src][y].kind \notin Trades(src) => RecordOf(src, Book[src][y]).rec # "trade"
    BY DEF RecordOf, DividendOf, CashOf
  <1>5. opening # << >> => opening[1].rec = "cash"
    <2>1. opening # << >> => opening[1] \in CashRows
      BY OpeningType
    <2> QED BY <2>1 DEF CashRows
  <1>6. ASSUME NEW k \in DOMAIN s, s[k].rec = "trade" PROVE TracedTo(s[k], src, w)
    <2>1. CASE k \in lines
      <3>1. s[k] = RecordOf(src, Book[src][k]) /\ k \in RowsIn(src, w)
        BY <1>2, <2>1
      <3>2. Book[src][k].kind \in Trades(src)
        <4> HIDE DEF s
        <4> QED BY <1>4, <1>6, <3>1
      <3>3. s[k] = TradeOf(src, Book[src][k])
        BY <1>3, <3>1, <3>2
      <3> HIDE DEF s
      <3> QED BY <3>1, <3>2, <3>3 DEF TracedTo, FromLine
    <2>2. CASE k \notin lines
      <3>1. opening # << >> /\ s[k] = opening[1]
        BY <1>2, <2>2
      <3> HIDE DEF s, opening
      <3> QED BY <1>5, <1>6, <3>1
    <2> QED BY <2>1, <2>2
  <1>7. ASSUME NEW k \in RowsIn(src, w), Book[src][k].kind \in Trades(src)
        PROVE  TradeOf(src, Book[src][k]) \in Range(s)
    <2>1. k \in lines
      BY <1>7 DEF Recorded
    <2>2. k \in DOMAIN s /\ s[k] = TradeOf(src, Book[src][k])
      BY <1>2, <1>3, <1>7, <2>1
    <2> HIDE DEF s
    <2> QED BY <2>2 DEF Range
  <1>8. \A x \in Range(s) : \E k \in DOMAIN s : x = s[k]
    BY DEF Range
  <1> HIDE DEF s
  <1> QED BY <1>1, <1>6, <1>7, <1>8

\* Rows and statements are only added.
LEMMA StillTraced ==
  ASSUME Traced, \A src \in Sources : uploaded[src] \subseteq uploaded'[src],
         \A x \in tables'.txs : \/ x \in tables.txs
                                \/ \E src \in Sources : \E w \in uploaded'[src] : TracedTo(x, src, w)
  PROVE  Traced'
  <1>1. \A x \in tables.txs : \E src \in Sources : \E w \in uploaded'[src] : TracedTo(x, src, w)
    BY DEF Traced
  <1>2. \A x \in tables'.txs : \E src \in Sources : \E w \in uploaded'[src] : TracedTo(x, src, w)
    BY <1>1
  <1> QED BY <1>2 DEF Traced, TracedTo, RowsIn, FromLine

LEMMA CommitTraced ==
  ASSUME IInv, Traced, NEW r \in Requests, Commit(r)
  PROVE  Traced'
  <1> DEFINE src == req[r].src
             w   == req[r].w
             v   == req[r].view
             s   == Records[src][w]
             new == Import(v, src, w)
  <1>1. Replied(r) /\ NewRows(r) = new
    BY Active DEF Commit, Replied
  <1>2. src \in Sources /\ w \in Windows[src]
    BY <1>1, Active DEF Replied
  <1>3. tables'.txs = tables.txs \cup new.txs
    BY <1>1 DEF Commit
  <1>4. uploaded' = [uploaded EXCEPT ![src] = uploaded[src] \cup {w}] /\ DOMAIN uploaded = Sources
    BY TypesOf DEF Commit
  <1>5. (\A c \in Sources : uploaded[c] \subseteq uploaded'[c]) /\ w \in uploaded'[src]
    <2> HIDE DEF src, w
    <2> QED BY <1>2, <1>4
  <1>6. new.txs = Fresh(Of(s, "trade"), v.txs)
    BY DEF Import
  <1>7. \A x \in new.txs : x \in Range(s) /\ x.rec = "trade"
    <2> HIDE DEF src, w, v, s, new
    <2>1. IsStatement(s, src)
      BY <1>2, Statement DEF s
    <2>2. /\ IsStatement(Of(s, "trade"), src)
          /\ \A x : x \in Range(Of(s, "trade")) <=> x \in Range(s) /\ x.rec = "trade"
      BY <2>1, OfFacts
    <2>3. Fresh(Of(s, "trade"), v.txs) \subseteq Range(Of(s, "trade"))
      BY <2>2, FreshFacts
    <2> QED BY <1>6, <2>2, <2>3
  <1>8. \A x \in new.txs : TracedTo(x, src, w)
    <2> HIDE DEF src, w, v, new
    <2> QED BY <1>2, <1>7, TradeRecords
  <1> HIDE DEF src, w, v, s, new
  <1> QED BY <1>2, <1>3, <1>5, <1>8, StillTraced

LEMMA InitTraced == Init => Traced
  BY DEF Init, Traced

LEMMA NextTraced == IInv /\ Traced /\ [Next]_vars => Traced'
  <1> SUFFICES ASSUME IInv, Traced, [Next]_vars PROVE Traced'
    OBVIOUS
  <1>1. ASSUME UNCHANGED <<tables, uploaded>> PROVE Traced'
    BY <1>1, StillTraced
  <1>2. ASSUME NEW answers, JobFinish(answers) PROVE Traced'
    <2>1. tables'.txs = tables.txs /\ UNCHANGED uploaded
      <3>1. tables \in Tables
        BY TypesOf
      <3>2. \A D : [tables EXCEPT !.divs = D].txs = tables.txs
        BY <3>1 DEF Tables
      <3> QED BY <1>2, <3>2 DEF JobFinish
    <2> QED BY <2>1, StillTraced
  <1>3. CASE Next
    <2>1. \A r \in Requests, src \in Sources : \A w \in Windows[src] :
             Begin(r, src, w) => UNCHANGED <<tables, uploaded>>
      BY DEF Begin
    <2>2. \A r \in Requests : Reply(r) \/ Abort(r) => UNCHANGED <<tables, uploaded>>
      BY DEF Reply, Abort
    <2>3. JobBegin => UNCHANGED <<tables, uploaded>>
      BY DEF JobBegin
    <2> QED BY <1>1, <1>2, <1>3, <2>1, <2>2, <2>3, CommitTraced DEF Next
  <1>4. CASE UNCHANGED vars
    BY <1>1, <1>4 DEF vars
  <1> QED BY <1>3, <1>4

LEMMA RowsAreLines ==
  ASSUME IInv, Traced, NEW sym, \A src \in Traders(sym) : Plain(src, sym)
  PROVE  {x \in tables.txs : x.sym = sym}
         = UNION {RowsOfLines(src, Covered(src, sym)) : src \in Traders(sym)}
  <1> DEFINE S == {x \in tables.txs : x.sym = sym}
             U == UNION {RowsOfLines(src, Covered(src, sym)) : src \in Traders(sym)}
  <1>1. \A src \in Sources : uploaded[src] \subseteq Windows[src]
    BY TypesOf
  <1>2. ASSUME NEW x \in tables.txs
        PROVE  \E src \in Sources : \E k \in TradesOf(src, x.sym) :
                  Book[src][k].day \in Days(src) /\ x = TradeOf(src, Book[src][k])
    <2>0. PICK src \in Sources : \E w \in uploaded[src] : TracedTo(x, src, w)
      BY DEF Traced
    <2>1. PICK w \in uploaded[src] : TracedTo(x, src, w)
      BY <2>0
    <2>2. PICK k \in RowsIn(src, w) : Book[src][k].kind \in Trades(src) /\ x = TradeOf(src, Book[src][k])
      BY <2>1 DEF TracedTo, FromLine
    <2>3. x.sym = Book[src][k].sym
      BY <2>2 DEF TradeOf
    <2>4. k \in TradesOf(src, x.sym) /\ Book[src][k].day \in Days(src)
      BY <2>2, <2>3 DEF TradesOf, RowsIn, Days
    <2> QED BY <2>2, <2>4
  <1>3. ASSUME NEW x \in S PROVE x \in U
    <2>0. PICK src \in Sources : \E k \in TradesOf(src, sym) :
             Book[src][k].day \in Days(src) /\ x = TradeOf(src, Book[src][k])
      BY <1>2
    <2>1. PICK k \in TradesOf(src, sym) : Book[src][k].day \in Days(src) /\ x = TradeOf(src, Book[src][k])
      BY <2>0
    <2>2. src \in Traders(sym) /\ k \in Covered(src, sym)
      BY <2>1 DEF Traders, Covered
    <2>3. x \in RowsOfLines(src, Covered(src, sym))
      BY <2>1, <2>2 DEF RowsOfLines
    <2> QED BY <2>2, <2>3
  <1>4. ASSUME NEW src \in Traders(sym), NEW k \in Covered(src, sym)
        PROVE  TradeOf(src, Book[src][k]) \in S
    <2> DEFINE r == TradeOf(src, Book[src][k])
    <2>1. src \in Sources /\ k \in TradesOf(src, sym) /\ Book[src][k].day \in Days(src) /\ Plain(src, sym)
      BY DEF Traders, Covered
    <2>2. PICK w \in uploaded[src] : Book[src][k].day \in w[1] .. w[2]
      BY <2>1 DEF Days
    <2>3. k \in RowsIn(src, w) /\ Book[src][k].kind \in Trades(src) /\ w \in Windows[src]
      BY <1>1, <2>1, <2>2 DEF RowsIn, TradesOf
    <2>4. r \in Range(Records[src][w])
      BY <2>1, <2>3, TradeRecords
    <2>5. /\ r.rec = "trade" /\ r.src = src /\ r.sym = sym /\ r.id = RowId(Book[src][k])
      BY <2>1, TradeOfLine
    <2> HIDE DEF r
    <2>6. There(r)
      BY <2>1, <2>4 DEF IInv, NothingLost
    <2>7. PICK y \in tables.txs : SameKey(y, r)
      BY <2>5, <2>6 DEF There
    <2>0. PICK c \in Sources : \E j \in TradesOf(c, y.sym) : y = TradeOf(c, Book[c][j])
      BY <1>2
    <2>8. PICK j \in TradesOf(c, y.sym) : y = TradeOf(c, Book[c][j])
      BY <2>0
    <2>9. y.src = c /\ y.id = RowId(Book[c][j]) /\ y.sym = Book[c][j].sym
      BY <2>8 DEF TradeOf
    <2>10. c = src /\ RowId(Book[src][j]) = RowId(Book[src][k])
      BY <2>5, <2>7, <2>9 DEF SameKey
    <2>11. y.sym = sym
      <3>1. Book[src][k].sym = sym
        BY <2>1 DEF TradesOf
      <3>2. RowId(Book[src][j]).sym = Book[src][j].sym /\ RowId(Book[src][k]).sym = Book[src][k].sym
        BY DEF RowId
      <3> QED BY <2>9, <2>10, <3>1, <3>2
    <2>12. j = k
      BY <2>1, <2>8, <2>10, <2>11, PlainIsApart
    <2> QED BY <2>8, <2>10, <2>11, <2>12
  <1>5. ASSUME NEW x \in U PROVE x \in S
    <2>1. PICK src \in Traders(sym) : x \in RowsOfLines(src, Covered(src, sym))
      OBVIOUS
    <2>2. PICK k \in Covered(src, sym) : x = TradeOf(src, Book[src][k])
      BY <2>1 DEF RowsOfLines
    <2> QED BY <1>4, <2>2
  <1> HIDE DEF S, U
  <1>6. S = U
    BY <1>3, <1>5
  <1> QED BY <1>6 DEF S, U

LEMMA SharesMatch ==
  ASSUME IInv, Traced, NEW sym, \A src \in Traders(sym) : FromTheStart(src) /\ Plain(src, sym)
  PROVE  Walk(Reading({x \in tables.txs : x.sym = sym}))
         = SumFunction([src \in Traders(sym) |-> Shares(src, Covered(src, sym))])
  <1> DEFINE S == {x \in tables.txs : x.sym = sym}
             B == Traders(sym)
             L == [src \in B |-> Covered(src, sym)]
  <1>1. \A src \in B : Covered(src, sym) \in SUBSET TradesOf(src, sym) /\ src \in Sources
    BY DEF Covered, Traders
  <1>2. S = UNION {RowsOfLines(src, Covered(src, sym)) : src \in B}
    BY RowsAreLines
  <1>3. IsFiniteSet(S) /\ RowShares(S) = SumFunction([src \in B |-> Shares(src, Covered(src, sym))])
    <2>1. \A src \in B : Plain(src, sym) /\ L[src] \in SUBSET TradesOf(src, sym)
      BY <1>1
    <2>2. LET U == UNION {RowsOfLines(src, L[src]) : src \in B}
          IN  /\ IsFiniteSet(U)
              /\ RowShares(U) = SumFunction([src \in B |-> Shares(src, L[src])])
      <3> HIDE DEF L
      <3> QED BY <2>1, SharesOfBrokers
    <2>3. /\ {RowsOfLines(src, L[src]) : src \in B} = {RowsOfLines(src, Covered(src, sym)) : src \in B}
          /\ [src \in B |-> Shares(src, L[src])] = [src \in B |-> Shares(src, Covered(src, sym))]
      OBVIOUS
    <2> HIDE DEF S, L
    <2> QED BY <1>2, <2>2, <2>3
  <1>4. ASSUME NEW x \in S PROVE \E src \in B : \E k \in Covered(src, sym) : x = TradeOf(src, Book[src][k])
    <2> HIDE DEF S
    <2>1. PICK src \in B : x \in RowsOfLines(src, Covered(src, sym))
      BY <1>2
    <2> QED BY <2>1 DEF RowsOfLines
  <1>5. Walkable(S)
    <2> SUFFICES ASSUME NEW x \in S PROVE x.type \in {"BUY", "SELL"} /\ x.qty \in Nat /\ x.at \in Int
      BY DEF Walkable
    <2> HIDE DEF S
    <2>0. PICK src \in B : \E k \in Covered(src, sym) : x = TradeOf(src, Book[src][k])
      BY <1>4
    <2>1. PICK k \in Covered(src, sym) : x = TradeOf(src, Book[src][k])
      BY <2>0
    <2>2. src \in Sources /\ k \in TradesOf(src, sym)
      BY <1>1
    <2>3. /\ x.qty = Book[src][k].qty /\ x.type \in {"BUY", "SELL"} /\ x.at \in Int
          /\ k \in DOMAIN Book[src]
      BY <2>1, <2>2, TradeOfLine
    <2>4. Book[src][k].qty \in Int
      BY <2>2, <2>3, BookFacts
    <2>5. Book[src][k].qty >= 0
      BY <2>2 DEF Plain
    <2> QED BY <2>3, <2>4, <2>5
  <1>6. ASSUME NEW time \in Int PROVE RowShares({x \in S : x.at <= time}) >= 0
    <2> DEFINE l == [src \in B |-> CoveredBy(src, sym, time)]
               U == UNION {RowsOfLines(src, l[src]) : src \in B}
               g == [src \in B |-> Shares(src, l[src])]
    <2>1. \A src \in B : l[src] = CoveredBy(src, sym, time) /\ l[src] \in SUBSET Covered(src, sym)
      BY DEF CoveredBy
    <2>2. \A src \in B : Plain(src, sym) /\ l[src] \in SUBSET TradesOf(src, sym)
      <3> HIDE DEF l, B
      <3> QED BY <1>1, <2>1 DEF B
    <2>3. RowShares(U) = SumFunction(g)
      <3>1. LET u == UNION {RowsOfLines(src, l[src]) : src \in Traders(sym)}
            IN  /\ IsFiniteSet(u)
                /\ RowShares(u) = SumFunction([src \in Traders(sym) |-> Shares(src, l[src])])
        <4> HIDE DEF l
        <4> QED BY <2>2, SharesOfBrokers
      <3> QED BY <3>1
    <2>4. U = {x \in S : x.at <= time}
      <3>1. ASSUME NEW src \in B, NEW k \in Covered(src, sym)
            PROVE  /\ TradeOf(src, Book[src][k]).at = Book[src][k].day
                   /\ k \in CoveredBy(src, sym, time) <=> Book[src][k].day <= time
        <4>1. src \in Sources /\ k \in TradesOf(src, sym)
          BY <1>1
        <4> QED BY <4>1, TradeOfLine DEF CoveredBy
      <3>2. ASSUME NEW x \in U PROVE x \in S /\ x.at <= time
        <4>1. PICK src \in B : x \in RowsOfLines(src, l[src])
          OBVIOUS
        <4>2. PICK k \in CoveredBy(src, sym, time) : x = TradeOf(src, Book[src][k])
          BY <2>1, <4>1 DEF RowsOfLines
        <4>3. k \in Covered(src, sym)
          BY DEF CoveredBy
        <4>4. x \in RowsOfLines(src, Covered(src, sym))
          BY <4>2, <4>3 DEF RowsOfLines
        <4>5. x.at <= time
          BY <3>1, <4>2, <4>3
        <4> HIDE DEF S
        <4> QED BY <1>2, <4>4, <4>5
      <3>3. ASSUME NEW x \in S, x.at <= time PROVE x \in U
        <4>0. PICK src \in B : \E k \in Covered(src, sym) : x = TradeOf(src, Book[src][k])
          BY <1>4
        <4>1. PICK k \in Covered(src, sym) : x = TradeOf(src, Book[src][k])
          BY <4>0
        <4>2. k \in l[src]
          BY <2>1, <3>1, <3>3, <4>1
        <4>3. x \in RowsOfLines(src, l[src])
          BY <4>1, <4>2 DEF RowsOfLines
        <4> HIDE DEF l
        <4> QED BY <4>3
      <3> HIDE DEF U, S
      <3> QED BY <3>2, <3>3
    <2>5. \A src \in B : g[src] \in Nat
      <3> SUFFICES ASSUME NEW src \in B PROVE g[src] \in Nat
        OBVIOUS
      <3>1. src \in Sources /\ FromTheStart(src) /\ Plain(src, sym)
        BY <1>1
      <3>2. Shares(src, CoveredBy(src, sym, time)) >= 0
        BY <3>1, NoDayEndsShort
      <3>3. Shares(src, CoveredBy(src, sym, time)) \in Int
        <4>1. CoveredBy(src, sym, time) \in SUBSET TradesOf(src, sym)
          BY DEF CoveredBy, Covered
        <4> QED BY <3>1, <4>1, SharesOfLines
      <3>4. g[src] = Shares(src, CoveredBy(src, sym, time))
        OBVIOUS
      <3> HIDE DEF g
      <3> QED BY <3>2, <3>3, <3>4
    <2>6. SumFunction(g) \in Nat
      <3>1. IsFiniteSet(B)
        BY FiniteSources, FS_Subset DEF Traders
      <3>2. DOMAIN g = B
        OBVIOUS
      <3> HIDE DEF g, B
      <3>3. SumFunctionOnSet(g, B) \in Nat
        BY <2>5, <3>1, SumOfNaturals
      <3> QED BY <3>2, <3>3 DEF SumFunction
    <2> HIDE DEF U, S, g
    <2>7. RowShares({x \in S : x.at <= time}) \in Nat
      BY <2>3, <2>4, <2>6
    <2> QED BY <2>7
  <1> HIDE DEF S
  <1>7. Walk(Reading(S)) = RowShares(S)
    BY <1>3, <1>5, <1>6, WalkOfReading
  <1> QED BY <1>3, <1>7 DEF S

\* The walk behind the holdings table (repositories/portfolio.py,
\* list_holdings_with_aggregates) comes to what the brokers hold, for any books
\* in which no two trades are alike but for fee and tax and no broker is short
\* at the end of a day: whatever is uploaded, in whatever order, and though the
\* trades of a day have lost theirs.
THEOREM SharesAreTheBrokers == Spec => []SharesMatchBroker
  <1>1. IInv /\ Traced => SharesMatchBroker
    <2> SUFFICES ASSUME IInv, Traced, NEW sym \in tables.symbols,
                        \A src \in Traders(sym) : FromTheStart(src) /\ Plain(src, sym)
                 PROVE  Walk(Reading({x \in tables.txs : x.sym = sym}))
                        = SumFunction([src \in Traders(sym) |->
                              Shares(src, {k \in TradesOf(src, sym) : Book[src][k].day \in Days(src)})])
      BY DEF SharesMatchBroker
    <2> QED BY SharesMatch DEF Covered
  <1>2. Init => IInv /\ Traced
    BY InitInv, InitTraced
  <1>3. IInv /\ Traced /\ [Next]_vars => (IInv /\ Traced)'
    BY NextInv, NextTraced
  <1> QED BY <1>1, <1>2, <1>3, PTL DEF Spec
=============================================================================
