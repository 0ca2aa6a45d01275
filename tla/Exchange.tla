------------------------------ MODULE Exchange ------------------------------
(***************************************************************************)
(* The Upbit account the program mirrors.  It is not part of the program:  *)
(* what follows is the account as upbit_account.py reads it, a history of  *)
(* filled orders, wallet transfers and won movements, with the balances    *)
(* the history implies.                                                    *)
(***************************************************************************)
EXTENDS Holdings

CONSTANTS Coins,      \* coins the account may hold
          Events,     \* what may happen on the account
          Opening,    \* the account's history when the program first runs
          Fee,        \* the commission on an order, which the order list omits
          MaxEvents   \* bound: events in one behaviour

\* type is BUY for what enters the account (bought, deposited, transferred
\* in) and SELL for what leaves it; only an order has a price. An event
\* that moves nothing is not read: such orders and movements are dropped.
Event ==
    [kind : {"order", "transfer"}, coin : Coins, type : {"BUY", "SELL"}, qty : Nat \ {0}, price : Nat]
    \cup [kind : {"won"}, coin : {"KRW"}, type : {"BUY", "SELL"}, qty : Nat \ {0}, price : {0}]

ASSUME ExchangeAssumption ==
    /\ "KRW" \notin Coins
    /\ Events \subseteq Event
    /\ Opening \in Seq(Event)
    /\ Fee \in Nat /\ MaxEvents \in Nat

VARIABLE log  \* the events so far; an event's position is its uuid and its date

Kind(kind) == {n \in DOMAIN log : log[n].kind = kind}

CoinBalance(c) == SumFunction([n \in {m \in DOMAIN log : log[m].coin = c} |-> Signed(log[n])])

\* Every coin with a balance is listed; one without may or may not be.
HeldCoins == {c \in Coins : CoinBalance(c) > 0}

WonBalance ==
    SumFunction([n \in Kind("won") |-> Signed(log[n])])
    - SumFunction([n \in Kind("order") |-> Signed(log[n]) * log[n].price + Fee])

\* The account never goes below zero.
Happens ==
    /\ Len(log) < MaxEvents
    /\ \E e \in Events : log' = Append(log, e)
    /\ WonBalance' >= 0 /\ \A c \in Coins : CoinBalance(c)' >= 0
=============================================================================
