----------------------------- MODULE MCCatalog ------------------------------
(***************************************************************************)
(* Two symbols; searches that match both, in either order, and every other *)
(* request on one of them or on the other.                                 *)
(***************************************************************************)
EXTENDS Catalog

Names == <<"a", "b">>

Find(q, n)  == [kind |-> "search", q |-> q, limit |-> n]
Do(k, s)    == [kind |-> k, sym |-> s]

Payloads ==
    <<Find(<<"a", "b">>, 2), Find(<<"b", "a">>, 2), Find(<<"a">>, 1), Do("import", "b"),
      Do("register", "a"), Do("add", "a"), Do("remove", "a"), Do("trade", "a"), Do("import", "a")>>

Three(o, p, q) ==
    [c \in Callers |-> CASE c = "r1" -> o [] c = "r2" -> p [] c = "r3" -> q]

\* Every pair of requests, and the threes in which three can meet: at the
\* pool, in the queue for the list, around one asset.
ChosenMixes ==
    UNION {{Three(Payloads[i], Payloads[j], Nothing) : j \in i .. 9} : i \in 1 .. 9}
    \cup {Three(Payloads[1], Payloads[2], Payloads[2]),
          Three(Payloads[1], Payloads[2], Do("add", "a")),
          Three(Do("add", "a"), Do("remove", "a"), Do("trade", "a")),
          Three(Do("import", "a"), Do("remove", "a"), Do("add", "a")),
          Three(Do("import", "a"), Do("remove", "a"), Do("import", "a")),
          Three(Do("trade", "a"), Do("remove", "a"), Do("import", "a"))}

Lists == {{}, {"a", "b"}}
=============================================================================
