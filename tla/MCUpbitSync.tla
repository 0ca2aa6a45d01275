---------------------------- MODULE MCUpbitSync ----------------------------
(***************************************************************************)
(* Small account histories for UpbitSync.                                  *)
(***************************************************************************)
EXTENDS UpbitSync

CONSTANTS r1, r2

Order(t, q, p) == [kind |-> "order", coin |-> "BTC", type |-> t, qty |-> q, price |-> p]
Moved(t, q)    == [kind |-> "transfer", coin |-> "BTC", type |-> t, qty |-> q, price |-> 0]
Won(t, q)      == [kind |-> "won", coin |-> "KRW", type |-> t, qty |-> q, price |-> 0]

\* A won is two units: an order at 3 units leaves half a won.
AccountEvents ==
    {Order("BUY", 2, 3), Order("SELL", 1, 3), Moved("BUY", 1), Moved("SELL", 2),
     Won("SELL", 1)}

Funded == <<Won("BUY", 20)>>

OneManualRow ==
    {[asset |-> "BTC", type |-> "BUY", qty |-> 5, price |-> 3, at |-> 1, fee |-> 0,
      ext |-> <<"manual", 0>>]}
=============================================================================
