------------------------------ MODULE Catalog -------------------------------
(***************************************************************************)
(* The symbol master table, the declared assets and the requests that work *)
(* on them: search (the table first, then the source's list through        *)
(* SymbolCache, then an upsert), register, declare, remove, record a trade *)
(* and import a statement row.  A request decides on the snapshot of its   *)
(* first read, writes row by row under the locks of the database, replies, *)
(* and commits after the reply.  It holds a connection of the pool from    *)
(* its first read to its commit, also while it waits for the list.         *)
(***************************************************************************)
EXTENDS SymbolCache, Filtering, Integers, Relation

CONSTANTS ByName,      \* the symbols there are, in the order of their names
          Mixes,       \* what each caller asks for, or Nothing
          Pool         \* connections of the engine's pool

Symbols == ToSet(ByName)

\* A search is given by the symbols that match it, best match first.
Queries == {s \in BoundedSeq(Symbols, Len(ByName)) : IsInjective(s)}
Search  == [kind : {"search"}, q : Queries, limit : 1 .. 100]
Request == [kind : {"register", "add", "remove", "trade", "import"}, sym : Symbols]

ASSUME CatalogAssumption ==
    /\ Pool \in Nat \ {0}
    /\ ByName \in Seq(Symbols) /\ IsInjective(ByName)
    /\ Mixes \subseteq [Callers -> Search \cup Request \cup {Nothing}]
    /\ \A v \in Values : v \subseteq Symbols

VARIABLES symbols,     \* asset_symbols, committed
          held,        \* user_assets: symbol -> id, or 0
          traded,      \* the ids the transactions table has rows of
          nextId,      \* AUTO_INCREMENT of user_assets
          req          \* the requests

tables  == <<symbols, held, traded, nextId>>
catalog == <<tables, req>>

Write(table, how, sym, id) == [table |-> table, how |-> how, sym |-> sym, id |-> id]

New(op) == [phase |-> "new", op |-> op, hits |-> << >>, out |-> "none",
            todo |-> << >>, pend |-> {}]

Connected == {r \in Callers : req[r].phase \in {"asking", "writing", "replied"}}

-----------------------------------------------------------------------------
(***************************************************************************)
(* Row locks.  A foreign key locks its parent row, shared.                 *)
(***************************************************************************)
Locks(w) ==
    CASE w.table = "symbols" -> {<<"symbols", w.sym, "X">>}
      [] w.table = "assets" /\ w.how = "insert" ->
             {<<"assets", w.sym, "X">>, <<"symbols", w.sym, "S">>}
      [] w.table = "assets" /\ w.how = "delete" -> {<<"assets", w.sym, "X">>}
      [] w.table = "rows" -> {<<"assets", w.sym, "S">>}

Clash(k, l) == k[1] = l[1] /\ k[2] = l[2] /\ "X" \in {k[3], l[3]}

Keeps(r) == UNION {Locks(w) : w \in req[r].pend}

\* r cannot write its next row before o ends.
WaitsFor(r, o) ==
    /\ r # o /\ req[r].todo # << >>
    /\ \E k \in Locks(Head(req[r].todo)), l \in Keeps(o) : Clash(k, l)

Blocked(r) == \E o \in Callers : WaitsFor(r, o)

InCycle(r) ==
    TransitiveClosure([p \in Callers \X Callers |-> WaitsFor(p[1], p[2])], Callers)[r, r]

-----------------------------------------------------------------------------
(***************************************************************************)
(* What a request decides on its snapshot.                                 *)
(***************************************************************************)
FirstOf(s, n) == SubSeq(s, 1, Min({n, Len(s)}))

DbHits(op) ==
    FirstOf(Keep(ByName, symbols \cap ToSet(op.q)), op.limit)

\* The adapter is asked for twice what is missing, and what the table has
\* already is dropped afterwards.
NewCandidates(op, hits, list) ==
    LET quota == 2 * (op.limit - Len(hits))
    IN Keep(FirstOf(Keep(op.q, list), quota), Symbols \ ToSet(hits))

Known(s) == s \in symbols
Held(s)  == held[s] # 0

Refusal(op) ==
    CASE op.kind = "register" -> IF Known(op.sym) THEN "409" ELSE "none"
      [] op.kind = "add"      -> IF ~Known(op.sym) THEN "404"
                                 ELSE IF Held(op.sym) THEN "409" ELSE "none"
      [] op.kind = "remove"   -> IF Held(op.sym) THEN "none" ELSE "404"
      [] op.kind = "trade"    -> IF Held(op.sym) THEN "none" ELSE "404"
      [] op.kind = "import"   -> "none"

Unless(c, w) == IF c THEN << >> ELSE <<w>>

Writes(op) ==
    LET s == op.sym IN
    CASE op.kind = "register" -> <<Write("symbols", "insert", s, 0)>>
      [] op.kind = "add"      -> <<Write("assets", "insert", s, 0)>>
      [] op.kind = "remove"   -> <<Write("assets", "delete", s, held[s])>>
      [] op.kind = "trade"    -> <<Write("rows", "insert", s, held[s])>>
      [] op.kind = "import"   ->
             Unless(Known(s), Write("symbols", "insert", s, 0))
             \o Unless(Held(s), Write("assets", "insert", s, 0))
             \o <<Write("rows", "insert", s, held[s])>>

-----------------------------------------------------------------------------
(***************************************************************************)
(* The requests.                                                           *)
(***************************************************************************)
Arrive(r) ==
    /\ req[r].phase = "new" /\ req[r].op # Nothing
    /\ req' = [req EXCEPT ![r].phase = "queued"]
    /\ UNCHANGED <<tables, vars>>

CanConnect(r) == req[r].phase = "queued" /\ Cardinality(Connected) < Pool

\* pool_timeout of the engine.
PoolTimeout(r) ==
    /\ req[r].phase = "queued" /\ Cardinality(Connected) >= Pool
    /\ req' = [req EXCEPT ![r].phase = "done", ![r].out = "500"]
    /\ UNCHANGED <<tables, vars>>

BeginSearch(r) ==
    LET op == req[r].op
        hits == DbHits(op)
    IN /\ CanConnect(r) /\ op.kind = "search"
       /\ IF Len(hits) >= op.limit
            THEN req' = [req EXCEPT ![r].phase = "writing", ![r].hits = hits] /\ UNCHANGED vars
            ELSE req' = [req EXCEPT ![r].phase = "asking", ![r].hits = hits] /\ Ask(r)
       /\ UNCHANGED tables

\* The list has come, or the crypto loader's exception.
TakeList(r) ==
    LET op   == req[r].op
        list == IF reply[r] = Failure THEN {} ELSE reply[r]
        new  == NewCandidates(op, req[r].hits, list)
    IN /\ req[r].phase = "asking" /\ r \notin Waiting
       /\ req' = [req EXCEPT ![r].phase = "writing",
                             ![r].todo = [i \in DOMAIN new |->
                                             Write("symbols", "upsert", new[i], 0)]]
       /\ UNCHANGED <<tables, vars>>

Begin(r) ==
    LET op == req[r].op
        no == Refusal(op)
    IN /\ CanConnect(r) /\ op.kind # "search"
       /\ req' = [req EXCEPT ![r].phase = (IF no = "none" THEN "writing" ELSE "done"),
                             ![r].out = no,
                             ![r].todo = IF no = "none" THEN Writes(op) ELSE << >>]
       /\ UNCHANGED <<tables, vars>>

Fail(r) ==
    /\ req' = [req EXCEPT ![r].phase = "done", ![r].out = "500",
                          ![r].todo = << >>, ![r].pend = {}]
    /\ UNCHANGED <<tables, vars>>

\* The UNIQUE keys, and the foreign key of a transaction: its asset is there
\* still, or declared by the same session.
Accepted(r, w) ==
    CASE w.how = "upsert" \/ w.how = "delete" -> TRUE
      [] w.table = "symbols" -> ~Known(w.sym)
      [] w.table = "assets"  -> ~Held(w.sym)
      [] w.table = "rows"    -> \/ w.id # 0 /\ held[w.sym] = w.id
                                \/ Write("assets", "insert", w.sym, 0) \in req[r].pend

WriteRow(r) ==
    /\ req[r].phase = "writing" /\ req[r].todo # << >> /\ ~Blocked(r)
    /\ Accepted(r, Head(req[r].todo))
    /\ req' = [req EXCEPT ![r].todo = Tail(@), ![r].pend = @ \cup {Head(req[r].todo)}]
    /\ UNCHANGED <<tables, vars>>

\* IntegrityError: nobody catches it, the session is rolled back.
WriteFails(r) ==
    /\ req[r].phase = "writing" /\ req[r].todo # << >> /\ ~Blocked(r)
    /\ ~Accepted(r, Head(req[r].todo))
    /\ Fail(r)

\* The database breaks a deadlock by rolling one of its members back.
Victim(r) == Blocked(r) /\ InCycle(r) /\ Fail(r)

Reply(r) ==
    /\ req[r].phase = "writing" /\ req[r].todo = << >>
    /\ req' = [req EXCEPT ![r].phase = "replied", ![r].out = "ok"]
    /\ UNCHANGED <<tables, vars>>

Inserted(r, table) == {w \in req[r].pend : w.table = table /\ w.how # "delete"}
Deleted(r)         == {w \in req[r].pend : w.how = "delete" /\ held[w.sym] = w.id}

\* Mutant: transactions.user_asset_id is no foreign key, so a delete leaves
\* the rows and an insert under a deleted row goes in.
CommitWithoutCascade(r) ==
    /\ symbols' = symbols \cup {w.sym : w \in Inserted(r, "symbols")}
    /\ held' = [s \in Symbols |->
                   IF \E w \in Inserted(r, "assets") : w.sym = s THEN nextId
                   ELSE IF \E w \in Deleted(r) : w.sym = s THEN 0
                   ELSE held[s]]
    /\ nextId' = nextId + Cardinality(Inserted(r, "assets"))
    /\ traded' = traded \cup {held'[w.sym] : w \in Inserted(r, "rows")}

\* Mutant: an id is given out again.
CommitReusing(r) ==
    /\ symbols' = symbols \cup {w.sym : w \in Inserted(r, "symbols")}
    /\ held' = [s \in Symbols |->
                   IF \E w \in Inserted(r, "assets") : w.sym = s THEN 1
                   ELSE IF \E w \in Deleted(r) : w.sym = s THEN 0
                   ELSE held[s]]
    /\ traded' = (traded \ {w.id : w \in Deleted(r)})
                 \cup {held'[w.sym] : w \in Inserted(r, "rows")}
    /\ UNCHANGED nextId

\* A session declares one asset at the most.
CommitTables(r) ==
    /\ symbols' = symbols \cup {w.sym : w \in Inserted(r, "symbols")}
    /\ held' = [s \in Symbols |->
                   IF \E w \in Inserted(r, "assets") : w.sym = s THEN nextId
                   ELSE IF \E w \in Deleted(r) : w.sym = s THEN 0
                   ELSE held[s]]
    /\ nextId' = nextId + Cardinality(Inserted(r, "assets"))
    /\ traded' = (traded \ {w.id : w \in Deleted(r)})
                 \cup {held'[w.sym] : w \in Inserted(r, "rows")}

Commit(r) ==
    /\ req[r].phase = "replied"
    /\ req' = [req EXCEPT ![r].phase = "done", ![r].pend = {}]
    /\ CommitTables(r)
    /\ UNCHANGED vars

\* The commit fails after the client has had its reply.
CommitFails(r) ==
    /\ req[r].phase = "replied"
    /\ req' = [req EXCEPT ![r].phase = "done", ![r].pend = {}]
    /\ UNCHANGED <<tables, vars>>

\* Mutant: the loader keeps what it loads in a session of its own.
ListLoadsInSession ==
    Cardinality(Connected) < Pool /\ LoadEnds /\ UNCHANGED catalog

ListLoads == LoadEnds /\ UNCHANGED catalog
ListWoken == Woken /\ UNCHANGED catalog
Clock     == Tick /\ UNCHANGED catalog

\* The crypto list, whose loader may raise or bring nothing; the Korean one
\* may only bring nothing.
CatalogInit ==
    /\ Init /\ kind = "crypto"
    /\ symbols \in SUBSET Symbols
    /\ \E s \in {{}} \cup {{x} : x \in symbols} :
          /\ held = [x \in Symbols |-> IF x \in s THEN 1 ELSE 0]
          /\ traded = (IF s = {} THEN {} ELSE {1})
    /\ nextId = 2
    /\ \E mix \in Mixes : req = [r \in Callers |-> New(mix[r])]

Step(r) ==
    \/ BeginSearch(r) \/ TakeList(r) \/ Begin(r)
    \/ WriteRow(r) \/ WriteFails(r) \/ Victim(r)
    \/ Reply(r) \/ Commit(r)

CatalogNext ==
    \/ \E r \in Callers : Arrive(r) \/ Step(r) \/ PoolTimeout(r) \/ CommitFails(r)
    \/ ListLoads \/ ListWoken \/ Clock

\* A request runs on when nothing keeps it; that a loader ends is assumed as
\* in SymbolCache.
CatalogSpec ==
    /\ CatalogInit /\ [][CatalogNext]_<<catalog, vars>>
    /\ \A r \in Callers : WF_<<catalog, vars>>(Step(r))
    /\ WF_<<catalog, vars>>(ListLoads) /\ WF_<<catalog, vars>>(ListWoken)

-----------------------------------------------------------------------------
Writing == [table : {"symbols", "assets", "rows"}, how : {"insert", "upsert", "delete"},
            sym : Symbols, id : 0 .. nextId - 1]

Phases == {"new", "queued", "asking", "writing", "replied", "done"}

Requests == [phase : Phases, op : Search \cup Request \cup {Nothing}, hits : Seq(Symbols),
             out : {"none", "ok", "404", "409", "500"},
             todo : Seq(Writing), pend : SUBSET Writing]

CatalogTypeOK ==
    /\ TypeOK
    /\ symbols \subseteq Symbols
    /\ nextId \in Nat \ {0}
    /\ held \in [Symbols -> 0 .. nextId - 1] /\ traded \subseteq 1 .. nextId - 1
    /\ req \in [Callers -> Requests]
    /\ \A s, t \in Symbols : held[s] = held[t] => s = t \/ held[s] = 0

\* Every transaction belongs to an asset that is declared now, although a
\* trade or an import reads the asset on its snapshot and a remove, or a
\* remove and a new declaration, may commit before it writes
\* (models/transaction.py:39, services/transaction.py:64-66).
LedgerOfHeld == traded \subseteq {held[s] : s \in Symbols}

\* Searches that wait for a load, for rows or for a connection, requests
\* that wait for each other's rows: each of them ends.
RequestEnds == \A r \in Callers : req[r].phase = "queued" ~> req[r].phase = "done"

\* routers/user_asset.py:58, "Returns 409 if the symbol is already held", and
\* routers/symbol.py:85 for symbols: whoever declares what is there already
\* is told so.
ConflictAnswered ==
    \A r \in Callers :
        req[r].phase = "done" /\ req[r].out = "500" =>
            req[r].op.kind \notin {"add", "register"}
=============================================================================
