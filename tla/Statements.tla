----------------------------- MODULE Statements -----------------------------
(***************************************************************************)
(* Broker statements: the rows a broker books, what each of the four       *)
(* parsers (Toss, Shinhan, K-Bank, UpBit) makes of a statement of some of  *)
(* its days, and what the cash view makes of the stored records.           *)
(*                                                                         *)
(* A row is [day, kind, sym, qty, price, amount, fee, tax, cur].           *)
(***************************************************************************)
EXTENDS Integers, Sequences, FiniteSetsExt, Functions

CONSTANTS Book,     \* broker -> its rows, in order
          Start     \* broker -> KRW on the account before the first row

Sources == DOMAIN Book

TradeKinds == {"buy", "sell", "coin_in", "coin_out"}

\* "lending" stands for the kinds no parser knows.
BookKinds == TradeKinds \cup {"dividend", "deposit", "event", "refund", "withdraw", "tax",
                              "fx_in", "fx_out", "fx_in_cancel", "interest", "lending"}

Symbols    == STRING \cup {""}       \* "" on a row of no symbol
Currencies == {"KRW", "USD"}

BookRows == [day : Int, kind : BookKinds, sym : Symbols, qty : Int, price : Int, amount : Int,
             fee : Int, tax : Int, cur : Currencies]

ASSUME BookAssumption ==
    /\ Sources \subseteq {"toss", "shinhan", "kbank", "upbit"}
    /\ Book \in [Sources -> Seq(BookRows)] /\ Start \in [Sources -> Nat]
    /\ \A src \in Sources : \A j, k \in DOMAIN Book[src] :
          j < k => Book[src][j].day <= Book[src][k].day

Inflows    == {"deposit", "interest", "transfer_in"}
Outflows   == {"withdraw", "interest_tax", "transfer_out"}

\* What the digest in external_id is made of: neither fee nor tax.
\* Mutant: nor the quantity.
RowIdWithoutQty(x) ==
    [day |-> x.day, kind |-> x.kind, sym |-> x.sym, qty |-> 0,
     price |-> x.price, amount |-> x.amount, cur |-> x.cur]

RowId(x) ==
    [day |-> x.day, kind |-> x.kind, sym |-> x.sym, qty |-> x.qty,
     price |-> x.price, amount |-> x.amount, cur |-> x.cur]

(***************************************************************************)
(* The kinds of cash rows.  A longer kind may start with a shorter one:    *)
(* a cancelled exchange is not an exchange.  Toss has a table per section; *)
(* the won that come back from a cancelled exchange are money in there, as *)
(* every exchange is at Shinhan.                                           *)
(***************************************************************************)
TossCash ==
    [KRW |-> [deposit |-> "deposit", event |-> "deposit", withdraw |-> "withdraw",
              tax |-> "interest_tax", fx_in |-> "transfer_in", fx_out |-> "transfer_out",
              fx_in_cancel |-> "transfer_in", interest |-> "interest"],
     USD |-> [refund |-> "deposit", fx_in |-> "transfer_in", fx_out |-> "transfer_out",
              fx_in_cancel |-> "transfer_out", interest |-> "interest"]]

ShinhanCash == [deposit |-> "deposit", withdraw |-> "withdraw", tax |-> "interest_tax",
                fx_in |-> "transfer_in", fx_out |-> "transfer_in", interest |-> "interest"]

KBankCash == [deposit |-> "deposit", withdraw |-> "withdraw", interest |-> "interest"]

UpbitCash == [deposit |-> "deposit", withdraw |-> "withdraw"]

CashKinds(src, cur) ==
    CASE src = "toss"    -> TossCash[cur]
      [] src = "shinhan" -> ShinhanCash
      [] src = "kbank"   -> KBankCash
      [] src = "upbit"   -> UpbitCash

\* What a row does to the broker's own balance: the balance column.
Impact(src, x) ==
    CASE x.kind = "buy"      -> -(x.qty * x.price) - x.fee
      [] x.kind = "sell"     -> x.qty * x.price - x.fee
      [] x.kind = "dividend" -> IF x.cur = "KRW" THEN x.amount - x.tax ELSE x.amount
      [] x.kind = "interest" -> x.amount - x.tax
      [] x.kind \in {"deposit", "event", "refund", "fx_in"} -> x.amount - x.fee
      [] x.kind \in {"withdraw", "tax", "fx_out", "fx_in_cancel"} -> -x.amount - x.fee
      [] OTHER -> 0

\* A statement prints the balance after each row, and it runs along the rows
\* as they are printed, also where the trades of a day are printed backwards
\* (tests/fixtures/parsers/toss_securities/sample_extracted.txt:90-92).
BalanceAfter(src, k, cur) ==
    (IF cur = "KRW" THEN Start[src] ELSE 0)
    + SumFunctionOnSet([j \in DOMAIN Book[src] |-> Impact(src, Book[src][j])],
                       {j \in 1 .. k : Book[src][j].cur = cur})

(***************************************************************************)
(* One row to one record.  A kind the parser does not know is skipped.     *)
(***************************************************************************)
\* Shinhan's settled amount has the taxes in it already.
Withheld(src, x) == IF src = "toss" /\ x.cur = "KRW" THEN x.tax ELSE 0
Gross(src, x)    == IF src = "toss" THEN x.amount ELSE x.amount - x.tax

\* UpBit's withdrawal fee comes on top, a deposit fee off it.
Moved(src, x) ==
    CASE src = "upbit" /\ x.kind = "withdraw" -> x.amount + x.fee
      [] src = "upbit" /\ x.kind = "deposit"  -> x.amount - x.fee
      [] OTHER -> Gross(src, x)

\* Coins that only move in or out are booked at a price of 1.
TradeOf(src, x) ==
    [rec |-> "trade", src |-> src, id |-> RowId(x), at |-> x.day, sym |-> x.sym,
     type |-> IF x.kind \in {"buy", "coin_in"} THEN "BUY" ELSE "SELL",
     qty |-> x.qty, price |-> IF x.kind \in {"buy", "sell"} THEN x.price ELSE 1,
     fee |-> IF x.kind \in {"buy", "sell"} THEN x.fee ELSE 0, cur |-> x.cur]

DividendOf(src, x) ==
    [rec |-> "dividend", src |-> src, id |-> RowId(x), at |-> x.day, sym |-> x.sym,
     amount |-> Gross(src, x), tax |-> Withheld(src, x), cur |-> x.cur]

CashOf(src, x) ==
    [rec |-> "cash", src |-> src, id |-> RowId(x), at |-> x.day,
     kind |-> CashKinds(src, x.cur)[x.kind], amount |-> Moved(src, x),
     tax |-> IF x.kind = "interest" THEN Withheld(src, x) ELSE 0, cur |-> x.cur]

Trades(src)   == IF src = "kbank" THEN {}
                 ELSE IF src = "upbit" THEN TradeKinds ELSE {"buy", "sell"}
Pays(src)     == src \in {"toss", "shinhan"}

RecordOf(src, x) ==
    CASE x.kind \in Trades(src) -> TradeOf(src, x)
      [] x.kind = "dividend"    -> DividendOf(src, x)
      [] OTHER                  -> CashOf(src, x)

Recorded(src, x) ==
    \/ x.kind \in Trades(src) \cup DOMAIN CashKinds(src, x.cur)
    \/ x.kind = "dividend" /\ Pays(src)

Ids == [day : Int, kind : BookKinds \cup {"opening", "declared"}, sym : Symbols, qty : Int,
        price : Int, amount : Int, cur : Currencies]

TradeRows == [rec : {"trade"}, src : Sources, id : Ids, at : Int, sym : Symbols,
              type : {"BUY", "SELL"}, qty : Int, price : Int, fee : Int, cur : Currencies]

DividendRows == [rec : {"dividend"}, src : Sources \cup {"job"}, id : Ids, at : Int,
                 sym : Symbols, amount : Int, tax : Int, cur : Currencies]

CashRows == [rec : {"cash"}, src : Sources, id : Ids, at : Int, kind : Inflows \cup Outflows,
             amount : Int, tax : Int, cur : Currencies]

(***************************************************************************)
(* A statement shows the rows of some days.  Toss prints the balance after *)
(* each row; the parser works out what was there before the first won row, *)
(* and books it as a deposit of the day before.                            *)
(***************************************************************************)
RowsIn(src, w) == {k \in DOMAIN Book[src] : Book[src][k].day \in w[1] .. w[2]}

\* A row of a kind it does not know: no opening, rather than a wrong one.
Classified(x) ==
    x.kind \in {"buy", "sell", "dividend"} \cup DOMAIN TossCash.KRW

\* _row_signed_delta: what the parser takes the first row to have moved.
Delta(x) ==
    CASE x.kind \in {"buy", "sell", "dividend", "interest"} -> Impact("toss", x)
      [] OTHER -> IF TossCash.KRW[x.kind] \in Inflows THEN x.amount ELSE -x.amount

Opening(src, w) ==
    LET krw == {k \in RowsIn(src, w) : Book[src][k].cur = "KRW"}
    IN IF src # "toss" \/ krw = {} \/ ~Classified(Book[src][Min(krw)]) THEN << >>
       ELSE LET k == Min(krw)
                x == Book[src][k]
                opening == BalanceAfter(src, k, "KRW") - Delta(x)
            IN IF opening <= 0 THEN << >>
               ELSE <<[rec |-> "cash", src |-> src, at |-> x.day - 1, kind |-> "deposit",
                       id |-> [day |-> x.day, kind |-> "opening", sym |-> "", qty |-> 0,
                               price |-> 0, amount |-> opening, cur |-> "KRW"],
                       amount |-> opening, tax |-> 0, cur |-> "KRW"]>>

IsOpening(r) == r.rec = "cash" /\ r.id.kind = "opening"

\* What the parser returns, by line, the opening last.
Parsed(src, w) ==
    LET lines   == {k \in RowsIn(src, w) : Recorded(src, Book[src][k])}
        opening == Opening(src, w)
        last    == IF opening = << >> THEN {} ELSE {Len(Book[src]) + 1}
    IN [k \in lines \cup last |-> IF k \in lines THEN RecordOf(src, Book[src][k])
                                ELSE opening[1]]

(***************************************************************************)
(* The cash view: what a stored record adds to a balance.  Coins that only *)
(* moved do not count.                                                     *)
(***************************************************************************)
CashEffect(r) ==
    CASE r.rec = "trade"    -> IF r.id.kind \in {"coin_in", "coin_out"} THEN 0
                               ELSE IF r.type = "BUY" THEN -(r.qty * r.price) - r.fee
                               ELSE r.qty * r.price - r.fee
      [] r.rec = "dividend" -> r.amount - r.tax
      [] r.rec = "cash"     -> IF r.kind \in Inflows THEN r.amount - r.tax ELSE -r.amount
=============================================================================
