-------------------------- MODULE MCStatementImport --------------------------
(***************************************************************************)
(* Four days at four brokers.  Toss: two fills of a day at one price, a    *)
(* round trip, a dividend on the day Shinhan pays one too, an exchange     *)
(* that is cancelled; statements that overlap and that meet.               *)
(***************************************************************************)
EXTENDS StatementImport, TLC

Uploads == Permutations(Requests)

Row(day, kind, sym, qty, price, amount, fee, tax, cur) ==
    [day |-> day, kind |-> kind, sym |-> sym, qty |-> qty, price |-> price,
     amount |-> amount, fee |-> fee, tax |-> tax, cur |-> cur]

Cash(day, kind, amount, tax, cur) == Row(day, kind, "", 0, 0, amount, 0, tax, cur)

TossBook == <<
    Cash(1, "deposit", 20, 0, "KRW"),
    Row(2, "sell", "S", 1, 3, 0, 1, 0, "KRW"),
    Row(2, "buy", "S", 1, 2, 0, 0, 0, "KRW"),
    Row(2, "buy", "S", 2, 2, 0, 0, 0, "KRW"),
    Cash(3, "fx_out", 6, 0, "KRW"),
    Cash(3, "fx_in", 2, 0, "USD"),
    Cash(3, "fx_in", 3, 0, "USD"),
    Cash(3, "fx_in_cancel", 2, 0, "USD"),
    Row(4, "dividend", "S", 0, 0, 4, 0, 1, "KRW"),
    Row(4, "lending", "S", 1, 0, 0, 0, 0, "KRW"),
    Cash(4, "interest", 3, 1, "KRW") >>

ShinhanBook == <<
    Cash(1, "deposit", 9, 0, "KRW"),
    Row(1, "buy", "S", 2, 3, 0, 1, 0, "KRW"),
    Cash(2, "fx_in", 2, 0, "KRW"),
    Row(4, "dividend", "S", 0, 0, 5, 0, 1, "KRW") >>

KBankBook == <<Cash(1, "deposit", 5, 0, "KRW"), Cash(2, "interest", 2, 1, "KRW")>>

UpbitBook == <<
    Cash(1, "deposit", 9, 0, "KRW"),
    Row(2, "buy", "C", 1, 4, 0, 1, 0, "KRW"),
    Row(3, "coin_in", "C", 2, 0, 0, 1, 0, "KRW"),
    Row(3, "withdraw", "", 0, 0, 2, 1, 0, "KRW") >>

Books == [toss |-> TossBook, shinhan |-> ShinhanBook, kbank |-> KBankBook, upbit |-> UpbitBook]
Money == [toss |-> 7, shinhan |-> 0, kbank |-> 0, upbit |-> 0]
Files == [toss |-> {<<1, 2>>, <<2, 3>>, <<4, 4>>}, shinhan |-> {<<1, 4>>},
          kbank |-> {<<1, 2>>}, upbit |-> {<<1, 3>>}]

\* The won of an exchange, and of one that was cancelled.
CancelBook == TossBook \o <<Cash(5, "fx_in", 2, 0, "KRW"), Cash(5, "fx_in_cancel", 2, 0, "KRW")>>
JustCancel == [toss |-> CancelBook]
CancelFiles == [toss |-> {<<1, 4>>, <<5, 5>>}]

\* Two fills that are alike.
JustTwins == [upbit |-> <<Cash(1, "deposit", 9, 0, "KRW"), Row(2, "buy", "C", 1, 4, 0, 0, 0, "KRW"),
                          Row(2, "buy", "C", 1, 4, 0, 0, 0, "KRW")>>]
UpbitMoney == [upbit |-> 0]
UpbitFiles == [upbit |-> {<<1, 1>>, <<1, 2>>}]

JustToss == [toss |-> TossBook]
TossMoney == [toss |-> 0]
SomeMoney == [toss |-> 7]
TossFiles == [toss |-> {<<1, 2>>, <<2, 3>>, <<4, 4>>}]

Pairs == {{"toss", "shinhan"}, {"kbank", "upbit"}}
Alone == {{"toss"}}
Upbit == {{"upbit"}}

Known == <<[sym |-> "S", day |-> 2, amount |-> 1, cur |-> "KRW"],
           [sym |-> "S", day |-> 2, amount |-> 2, cur |-> "KRW"]>>
NoneKnown == << >>

\* The books trade as SharesMatchBroker asks of them.
ASSUME PlainBooks == Book # JustTwins => \A src \in Sources : \A sym \in {"S", "C"} : Plain(src, sym)
=============================================================================
