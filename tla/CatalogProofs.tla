--------------------------- MODULE CatalogProofs ----------------------------
(***************************************************************************)
(* SymbolCache implements SingleFlight, for any callers, lists and TTL;    *)
(* and in the Catalog built on it, whatever the callers ask for and        *)
(* however their requests overlap, every transaction belongs to an asset   *)
(* that is declared now.                                                   *)
(*                                                                         *)
(* The inductive invariant of the cache adds to the types that the lock is *)
(* not held by a caller of the queue, that the queue names nobody twice,   *)
(* and that a loader runs only over a stale list.                          *)
(*                                                                         *)
(* LedgerOfHeld says nothing of the rows a session has written and not yet *)
(* committed.  The inductive invariant does: a session that will insert an *)
(* asset holds the lock of a symbol nobody holds an asset of, a session    *)
(* that will insert a transaction holds the lock of the asset it points    *)
(* to (or inserts it itself), and no two sessions hold locks that clash;   *)
(* so a commit changes nothing another session relies on.                  *)
(***************************************************************************)
EXTENDS Catalog, DataInduction

(***************************************************************************)
(* The cache.                                                              *)
(***************************************************************************)
\* A caller waits in one place only (asyncio.Lock is not re-entrant).
NobodyWaitsTwice ==
    /\ \A i, j \in 1 .. Len(queue) : queue[i] = queue[j] => i = j
    /\ holder \notin ToSet(queue)

LoadsOnlyStale == holder # Nothing => Stale

IInv == TypeOK /\ NobodyWaitsTwice /\ LoadsOnlyStale

-----------------------------------------------------------------------------
(***************************************************************************)
(* The queue as a set.                                                     *)
(***************************************************************************)
LEMMA SetOfQueue ==
  ASSUME NEW q \in Seq(Callers)
  PROVE  ToSet(q) = {q[i] : i \in 1 .. Len(q)} /\ ToSet(q) \subseteq Callers
  BY DEF ToSet

LEMMA SetOfAppend ==
  ASSUME NEW q \in Seq(Callers), NEW r \in Callers
  PROVE  ToSet(Append(q, r)) = ToSet(q) \cup {r}
  <1> DEFINE t == Append(q, r)
  <1>1. /\ t \in Seq(Callers) /\ Len(q) \in Nat /\ Len(t) = Len(q) + 1
        /\ \A i \in 1 .. Len(q) : t[i] = q[i]
        /\ t[Len(q) + 1] = r
    BY AppendProperties
  <1>2. ToSet(q) = {q[i] : i \in 1 .. Len(q)} /\ ToSet(t) = {t[i] : i \in 1 .. Len(t)}
    BY <1>1, SetOfQueue
  <1>3. 1 .. Len(t) = (1 .. Len(q)) \cup {Len(q) + 1}
    BY <1>1
  <1>4. {t[i] : i \in 1 .. Len(t)} = {t[i] : i \in 1 .. Len(q)} \cup {t[Len(q) + 1]}
    BY <1>3
  <1>5. {t[i] : i \in 1 .. Len(q)} = {q[i] : i \in 1 .. Len(q)}
    BY <1>1
  <1> QED BY <1>1, <1>2, <1>4, <1>5

LEMMA SetOfTail ==
  ASSUME NEW q \in Seq(Callers), q # << >>,
         \A i, j \in 1 .. Len(q) : q[i] = q[j] => i = j
  PROVE  /\ Head(q) \in Callers /\ Tail(q) \in Seq(Callers)
         /\ ToSet(q) = {Head(q)} \cup ToSet(Tail(q))
         /\ Head(q) \notin ToSet(Tail(q))
         /\ \A i, j \in 1 .. Len(Tail(q)) : Tail(q)[i] = Tail(q)[j] => i = j
  <1> DEFINE t == Tail(q)
  <1>1. /\ Head(q) \in Callers /\ t \in Seq(Callers)
        /\ Len(q) \in Nat \ {0} /\ Len(t) = Len(q) - 1
        /\ \A i \in 1 .. Len(t) : t[i] = q[i + 1]
        /\ Head(q) = q[1]
    BY HeadTailProperties
  <1>2. ToSet(q) = {q[i] : i \in 1 .. Len(q)} /\ ToSet(t) = {t[i] : i \in 1 .. Len(t)}
    BY <1>1, SetOfQueue
  <1>3. ASSUME NEW x \in ToSet(q) PROVE x \in {q[1]} \cup ToSet(t)
    <2>1. PICK i \in 1 .. Len(q) : x = q[i]
      BY <1>2
    <2>2. CASE i = 1
      BY <2>1, <2>2
    <2>3. CASE i # 1
      <3>1. i - 1 \in 1 .. Len(t) /\ t[i - 1] = q[i]
        BY <1>1, <2>3
      <3> QED BY <1>2, <2>1, <3>1
    <2> QED BY <2>2, <2>3
  <1>4. ASSUME NEW x \in ToSet(t) PROVE x \in ToSet(q) /\ x # q[1]
    <2>1. PICK i \in 1 .. Len(t) : x = t[i]
      BY <1>2
    <2>2. i + 1 \in 1 .. Len(q) /\ x = q[i + 1] /\ 1 \in 1 .. Len(q) /\ i + 1 # 1
      BY <1>1, <2>1
    <2> QED BY <1>2, <2>2
  <1>5. q[1] \in ToSet(q)
    BY <1>1, <1>2
  <1>6. \A i, j \in 1 .. Len(t) : t[i] = t[j] => i = j
    <2> SUFFICES ASSUME NEW i \in 1 .. Len(t), NEW j \in 1 .. Len(t), t[i] = t[j]
                 PROVE  i = j
      OBVIOUS
    <2>1. i + 1 \in 1 .. Len(q) /\ j + 1 \in 1 .. Len(q) /\ q[i + 1] = q[j + 1]
      BY <1>1
    <2>2. i + 1 = j + 1
      BY <2>1
    <2> QED BY <2>2
  <1> QED BY <1>1, <1>3, <1>4, <1>5, <1>6

LEMMA AppendKeepsApart ==
  ASSUME NEW q \in Seq(Callers), NEW r \in Callers, r \notin ToSet(q),
         \A i, j \in 1 .. Len(q) : q[i] = q[j] => i = j
  PROVE  LET t == Append(q, r)
         IN \A i, j \in 1 .. Len(t) : t[i] = t[j] => i = j
  <1> DEFINE t == Append(q, r)
  <1>1. /\ Len(q) \in Nat /\ Len(t) = Len(q) + 1
        /\ \A i \in 1 .. Len(q) : t[i] = q[i]
        /\ t[Len(q) + 1] = r
    BY AppendProperties
  <1>2. \A i \in 1 .. Len(q) : q[i] # r
    BY SetOfQueue
  <1> SUFFICES ASSUME NEW i \in 1 .. Len(t), NEW j \in 1 .. Len(t), t[i] = t[j]
               PROVE  i = j
    OBVIOUS
  <1>3. CASE i \in 1 .. Len(q) /\ j \in 1 .. Len(q)
    BY <1>1, <1>3
  <1>4. CASE i = Len(q) + 1 \/ j = Len(q) + 1
    BY <1>1, <1>2, <1>4
  <1> QED BY <1>1, <1>3, <1>4

-----------------------------------------------------------------------------
(***************************************************************************)
(* The invariant.                                                          *)
(***************************************************************************)
LEMMA InitInv == Init => IInv
  <1> SUFFICES ASSUME Init PROVE IInv
    OBVIOUS
  <1>1. TypeOK
    BY SymbolCacheAssumption DEF Init, TypeOK
  <1>2. NobodyWaitsTwice
    BY DEF Init, NobodyWaitsTwice, ToSet
  <1> QED BY <1>1, <1>2 DEF Init, IInv, LoadsOnlyStale

\* A caller who does not wait is neither the holder nor in the queue.
LEMMA NotWaiting ==
  ASSUME TypeOK, NEW r \in Callers, r \notin Waiting
  PROVE  r # holder /\ r \notin ToSet(queue)
  BY SymbolCacheAssumption DEF Waiting, TypeOK

\* Entering the lock leaves a well-typed holder over a stale list, or none.
LEMMA EnterInv ==
  ASSUME IInv, NEW r \in Callers, holder = Nothing, Enter(r)
  PROVE  /\ holder' \in {r, Nothing} /\ (holder' # Nothing => Stale)
         /\ spent' \in 0 .. TTL
         /\ reply' \in [Callers -> Values \cup {Nothing, Failure}]
  BY SymbolCacheAssumption DEF Enter, IInv, TypeOK, Stale

LEMMA NextInv == IInv /\ [Next]_vars => IInv'
  <1> SUFFICES ASSUME IInv, [Next]_vars PROVE IInv'
    OBVIOUS
  <1> USE SymbolCacheAssumption
  <1>1. ASSUME NEW r \in Callers, AskHit(r) PROVE IInv'
    BY <1>1 DEF AskHit, IInv, TypeOK, NobodyWaitsTwice, LoadsOnlyStale, Stale, ToSet
  <1>2. ASSUME NEW r \in Callers, AskFree(r) PROVE IInv'
    <2>1. /\ holder' \in {r, Nothing} /\ (holder' # Nothing => Stale)
          /\ spent' \in 0 .. TTL
          /\ reply' \in [Callers -> Values \cup {Nothing, Failure}]
      BY <1>2, EnterInv DEF AskFree
    <2>2. TypeOK'
      BY <1>2, <2>1 DEF AskFree, IInv, TypeOK
    <2>3. NobodyWaitsTwice'
      BY <1>2 DEF AskFree, NobodyWaitsTwice, ToSet
    <2> QED BY <1>2, <2>1, <2>2, <2>3 DEF AskFree, IInv, LoadsOnlyStale, Stale
  <1>3. ASSUME NEW r \in Callers, AskQueue(r) PROVE IInv'
    <2>1. r # holder /\ r \notin ToSet(queue)
      BY <1>3, NotWaiting DEF AskQueue, IInv
    <2>2. TypeOK'
      BY <1>3, AppendProperties DEF AskQueue, IInv, TypeOK
    <2>3. ToSet(queue') = ToSet(queue) \cup {r}
      BY <1>3, SetOfAppend DEF AskQueue, IInv, TypeOK
    <2>4. \A i, j \in 1 .. Len(queue') : queue'[i] = queue'[j] => i = j
      BY <1>3, <2>1, AppendKeepsApart DEF AskQueue, IInv, TypeOK, NobodyWaitsTwice
    <2>5. NobodyWaitsTwice'
      BY <1>3, <2>1, <2>3, <2>4 DEF AskQueue, IInv, NobodyWaitsTwice
    <2> QED BY <1>3, <2>2, <2>5 DEF AskQueue, IInv, LoadsOnlyStale, Stale
  <1>4. ASSUME Woken PROVE IInv'
    <2>1. /\ Head(queue) \in Callers /\ Tail(queue) \in Seq(Callers)
          /\ Head(queue) \notin ToSet(Tail(queue))
          /\ ToSet(queue) = {Head(queue)} \cup ToSet(Tail(queue))
          /\ \A i, j \in 1 .. Len(Tail(queue)) : Tail(queue)[i] = Tail(queue)[j] => i = j
      BY <1>4, SetOfTail DEF Woken, IInv, TypeOK, NobodyWaitsTwice
    <2>2. /\ holder' \in {Head(queue), Nothing} /\ (holder' # Nothing => Stale)
          /\ spent' \in 0 .. TTL
          /\ reply' \in [Callers -> Values \cup {Nothing, Failure}]
      BY <1>4, <2>1, EnterInv DEF Woken
    <2>3. TypeOK'
      BY <1>4, <2>1, <2>2 DEF Woken, IInv, TypeOK
    <2>4. Nothing \notin ToSet(Tail(queue))
      BY <2>1, SetOfQueue
    <2>5. NobodyWaitsTwice'
      BY <1>4, <2>1, <2>2, <2>4 DEF Woken, NobodyWaitsTwice
    <2> QED BY <1>4, <2>2, <2>3, <2>5 DEF Woken, IInv, LoadsOnlyStale, Stale
  <1>5. ASSUME NEW v \in Values, Loaded(v) PROVE IInv'
    <2>1. TypeOK'
      BY <1>5 DEF Loaded, IInv, TypeOK, StampedEarly
    <2>2. NobodyWaitsTwice'
      <3>1. queue' = queue /\ holder' = Nothing
        BY <1>5 DEF Loaded
      <3>2. Nothing \notin ToSet(queue)
        BY SetOfQueue DEF IInv, TypeOK
      <3> QED BY <3>1, <3>2 DEF IInv, NobodyWaitsTwice
    <2> QED BY <1>5, <2>1, <2>2 DEF Loaded, IInv, LoadsOnlyStale
  <1>6. ASSUME LoadRaises PROVE IInv'
    <2>1. TypeOK'
      BY <1>6 DEF LoadRaises, IInv, TypeOK
    <2>2. NobodyWaitsTwice'
      <3>1. queue' = queue /\ holder' = Nothing
        BY <1>6 DEF LoadRaises
      <3>2. Nothing \notin ToSet(queue)
        BY SetOfQueue DEF IInv, TypeOK
      <3> QED BY <3>1, <3>2 DEF IInv, NobodyWaitsTwice
    <2> QED BY <1>6, <2>1, <2>2 DEF LoadRaises, IInv, LoadsOnlyStale
  <1>7. ASSUME Tick PROVE IInv'
    BY <1>7 DEF Tick, IInv, TypeOK, NobodyWaitsTwice, LoadsOnlyStale, Stale, ToSet
  <1>8. CASE UNCHANGED vars
    BY <1>8 DEF vars, IInv, TypeOK, NobodyWaitsTwice, LoadsOnlyStale, Stale, ToSet
  <1> QED BY <1>1, <1>2, <1>3, <1>4, <1>5, <1>6, <1>7, <1>8 DEF Next, Ask, LoadEnds

\* In every reachable state the lock has one holder, outside the queue, who
\* loads over a stale list (_symbol_cache.py:66-75).
THEOREM Invariance == Spec => []IInv
  BY InitInv, NextInv, PTL DEF Spec

\* The state of the caches is well-typed, for any TTL and number of callers.
THEOREM CacheTypeCorrect == Spec => []TypeOK
  <1>1. IInv => TypeOK
    BY DEF IInv
  <1> QED BY <1>1, Invariance, PTL

-----------------------------------------------------------------------------
(***************************************************************************)
(* The refinement: every step is a step of SingleFlight, or a stutter.     *)
(***************************************************************************)
LEMMA InitImplements == Init => SF!Init
  <1> SUFFICES ASSUME Init PROVE SF!Init
    OBVIOUS
  <1>1. Waiting = {}
    BY DEF Init, Waiting, ToSet
  <1> QED BY <1>1 DEF Init, SF!Init, Stale

\* Entering is a hit, or the start of the caller's load.
LEMMA EnterImplements ==
  ASSUME IInv, NEW r \in Callers, holder = Nothing, Enter(r), data' = data, age' = age,
         Waiting' \cup {r} = Waiting \cup {r}, r \in Waiting' <=> Stale
  PROVE  SF!Hit(r) \/ SF!Load(r)
  <1>1. Stale' <=> Stale
    BY DEF Stale
  <1>2. CASE Stale
    <2>1. holder' = r /\ reply' = reply
      BY <1>2 DEF Enter
    <2>2. Waiting' = Waiting \cup {r}
      BY <1>2
    <2>3. SF!Load(r)
      BY <1>1, <1>2, <2>1, <2>2 DEF SF!Load
    <2> QED BY <2>3
  <1>3. CASE ~Stale
    <2>1. reply' = [reply EXCEPT ![r] = data] /\ holder' = holder
      BY <1>3 DEF Enter
    <2>2. Waiting' = Waiting \ {r}
      BY <1>3
    <2>3. SF!Hit(r)
      BY <1>1, <1>3, <2>1, <2>2 DEF SF!Hit, SF!Answer
    <2> QED BY <2>3
  <1> QED BY <1>2, <1>3

LEMMA NextImplements == IInv /\ [Next]_vars => [SF!Next]_SF!vars
  <1> SUFFICES ASSUME IInv, [Next]_vars PROVE SF!Next \/ UNCHANGED SF!vars
    OBVIOUS
  <1> USE SymbolCacheAssumption
  <1>1. ASSUME NEW r \in Callers, AskHit(r) PROVE SF!Hit(r)
    <2>1. Waiting' = Waiting /\ (Stale' <=> Stale)
      BY <1>1 DEF AskHit, Waiting, Stale, ToSet
    <2>2. Waiting \ {r} = Waiting
      BY <1>1 DEF AskHit
    <2> QED BY <1>1, <2>1, <2>2 DEF AskHit, SF!Hit, SF!Answer
  <1>2. ASSUME NEW r \in Callers, AskFree(r) PROVE SF!Hit(r) \/ SF!Load(r)
    <2>1. ToSet(queue) = {} /\ ToSet(queue') = {}
      BY <1>2 DEF AskFree, ToSet
    <2>2. Waiting = {} /\ Waiting' = {holder'} \ {Nothing}
      BY <1>2, <2>1 DEF AskFree, Waiting
    <2>3. r # Nothing
      OBVIOUS
    <2>4. holder' = (IF Stale THEN r ELSE Nothing)
      BY <1>2 DEF AskFree, Enter
    <2>5. Waiting' \cup {r} = Waiting \cup {r} /\ (r \in Waiting' <=> Stale)
      BY <2>2, <2>3, <2>4
    <2> QED BY <1>2, <2>5, EnterImplements DEF AskFree
  <1>3. ASSUME NEW r \in Callers, AskQueue(r) PROVE SF!Ask(r)
    <2>1. ToSet(queue') = ToSet(queue) \cup {r}
      BY <1>3, SetOfAppend DEF AskQueue, IInv, TypeOK
    <2>2. Waiting' = Waiting \cup {r} /\ (Stale' <=> Stale)
      BY <1>3, <2>1 DEF AskQueue, Waiting, Stale
    <2> QED BY <1>3, <2>2 DEF AskQueue, SF!Ask
  <1>4. ASSUME Woken PROVE \E r \in Callers : SF!Hit(r) \/ SF!Load(r)
    <2> DEFINE r == Head(queue)
    <2>1. /\ r \in Callers /\ ToSet(queue) = {r} \cup ToSet(Tail(queue))
          /\ r \notin ToSet(Tail(queue))
      BY <1>4, SetOfTail DEF Woken, IInv, TypeOK, NobodyWaitsTwice
    <2>2. Waiting = {r} \cup ToSet(Tail(queue))
      BY <1>4, <2>1 DEF Woken, Waiting
    <2>3. Waiting' = ToSet(Tail(queue)) \cup ({holder'} \ {Nothing})
      BY <1>4 DEF Woken, Waiting
    <2>4. r # Nothing
      BY <2>1
    <2>5. holder' = (IF Stale THEN r ELSE Nothing)
      BY <1>4 DEF Woken, Enter
    <2>6. Waiting' \cup {r} = Waiting \cup {r} /\ (r \in Waiting' <=> Stale)
      BY <2>1, <2>2, <2>3, <2>4, <2>5
    <2> QED BY <1>4, <2>1, <2>6, EnterImplements DEF Woken
  <1>5. holder # Nothing => holder \in Waiting /\ Waiting \ {holder} = ToSet(queue)
    BY DEF Waiting, IInv, NobodyWaitsTwice
  <1>6. ASSUME NEW v \in Values, Loaded(v) PROVE SF!Loaded(v)
    <2>1. Waiting' = Waiting \ {holder}
      BY <1>5, <1>6 DEF Loaded, Waiting
    <2>2. (~Stale)' \in BOOLEAN
      BY DEF Stale
    <2> QED BY <1>5, <1>6, <2>1, <2>2 DEF Loaded, SF!Loaded, SF!Answer
  <1>7. ASSUME LoadRaises PROVE SF!LoadFailed
    <2>1. Waiting' = Waiting \ {holder}
      BY <1>5, <1>7 DEF LoadRaises, Waiting
    <2>2. Stale' <=> Stale
      BY <1>7 DEF LoadRaises, Stale
    <2> QED BY <1>5, <1>7, <2>1, <2>2 DEF LoadRaises, SF!LoadFailed, SF!Answer
  <1>8. ASSUME Tick PROVE SF!Expire \/ UNCHANGED SF!vars
    <2>1. Waiting' = Waiting /\ (Stale => Stale')
      BY <1>8 DEF Tick, Waiting, Stale, IInv, TypeOK, ToSet
    <2> QED BY <1>8, <2>1 DEF Tick, SF!Expire, SF!vars
  <1>9. CASE UNCHANGED vars
    <2>1. Waiting' = Waiting /\ (Stale' <=> Stale)
      BY <1>9 DEF vars, Waiting, Stale, ToSet
    <2> QED BY <1>9, <2>1 DEF vars, SF!vars
  <1> QED BY <1>1, <1>2, <1>3, <1>4, <1>6, <1>7, <1>8, <1>9
          DEF Next, Ask, LoadEnds, SF!Next

\* The symbol list and index caches keep the promise of SingleFlight: one
\* load at a time, none while the value is fresh, and no answer that was not
\* fresh or loaded for its caller (_symbol_cache.py:47-77, market_index.py:118-143).
THEOREM CacheIsSingleFlight == Spec => ImplementsSingleFlight
  <1>1. Spec => []IInv
    BY Invariance
  <1> QED BY <1>1, InitImplements, NextImplements, PTL DEF Spec, ImplementsSingleFlight, SF!Spec

-----------------------------------------------------------------------------
(***************************************************************************)
(* The catalog.                                                            *)
(***************************************************************************)
\* What a request may write: a search upserts symbols, a remove deletes an
\* asset, every other request inserts rows of its own symbol.
Own(op) ==
    IF op \in Search
      THEN {Write("symbols", "upsert", s, 0) : s \in Symbols}
    ELSE IF op.kind = "remove"
      THEN {Write("assets", "delete", op.sym, i) : i \in Nat}
    ELSE {Write(t, "insert", op.sym, 0) : t \in {"symbols", "assets"}}
         \cup {Write("rows", "insert", op.sym, i) : i \in Nat}

WritesItsOwn ==
    \A r \in Callers : \A w \in ToSet(req[r].todo) \cup req[r].pend : w \in Own(req[r].op)

Phased ==
    \A r \in Callers :
       /\ req[r].phase # "new" => req[r].op # Nothing
       /\ req[r].phase = "asking" => req[r].op \in Search
       /\ req[r].phase \in {"new", "queued", "asking"} => req[r].todo = << >>
       /\ req[r].phase \notin {"writing", "replied"} => req[r].pend = {}

\* What the pending rows of a session rely on.
Holds(w, pend) ==
    /\ w.table = "assets" /\ w.how = "insert" => held[w.sym] = 0
    /\ w.table = "rows" =>
          \/ w.id # 0 /\ held[w.sym] = w.id
          \/ Write("assets", "insert", w.sym, 0) \in pend

PendingHolds == \A r \in Callers : \A w \in req[r].pend : Holds(w, req[r].pend)

\* No two sessions keep locks that clash.
LocksApart ==
    \A r, o \in Callers :
       r # o => \A v \in req[r].pend, w \in req[o].pend :
                   \A k \in Locks(v), l \in Locks(w) : ~Clash(k, l)

CatalogInv ==
    /\ IInv /\ CatalogTypeOK /\ LedgerOfHeld
    /\ WritesItsOwn /\ Phased /\ PendingHolds /\ LocksApart

-----------------------------------------------------------------------------
(***************************************************************************)
(* What the requests read and write.                                       *)
(***************************************************************************)
LEMMA OpKinds ==
  ASSUME NEW op \in Search \cup Request \cup {Nothing}, op # Nothing
  PROVE  /\ op.kind = "search" <=> op \in Search
         /\ op.kind # "search" <=> op \in Request
  BY DEF Search, Request

LEMMA QueryType ==
  ASSUME NEW op \in Search PROVE op.q \in Seq(Symbols) /\ op.limit \in Int
  <1>1. PICK n \in Nat : op.q \in [1 .. n -> Symbols]
    BY DEF Search, Queries, BoundedSeq, SeqOf
  <1>2. op.q \in Seq(Symbols)
    BY <1>1
  <1>3. op.limit \in 1 .. 100
    BY DEF Search
  <1>4. 1 .. 100 \subseteq Int
    OBVIOUS
  <1> QED BY <1>2, <1>3, <1>4

LEMMA FirstOfType ==
  ASSUME NEW S, NEW s \in Seq(S), NEW n \in Int
  PROVE  FirstOf(s, n) \in Seq(S)
  <1> DEFINE m == Min({n, Len(s)})
  <1>1. \E x \in {n, Len(s)} : \A y \in {n, Len(s)} : x <= y
    <2>1. CASE n <= Len(s)
      BY <2>1
    <2>2. CASE ~(n <= Len(s))
      BY <2>2
    <2> QED BY <2>1, <2>2
  <1>2. m \in {n, Len(s)} /\ m <= Len(s)
    BY <1>1 DEF Min
  <1> HIDE DEF m
  <1>3. FirstOf(s, n) = SubSeq(s, 1, m)
    BY DEF FirstOf, m
  <1> QED BY <1>2, <1>3, SubSeqProperties

LEMMA HitsType ==
  ASSUME NEW op \in Search PROVE DbHits(op) \in Seq(Symbols)
  <1> DEFINE s == Keep(ByName, symbols \cap ToSet(op.q))
  <1>1. s \in Seq(Symbols)
    <2>1. ByName \in Seq(Symbols)
      BY CatalogAssumption
    <2>2. s \in Seq(Symbols \cap (symbols \cap ToSet(op.q)))
      BY <2>1, KeepMembers
    <2> QED BY <2>2
  <1>2. op.limit \in Int
    BY QueryType
  <1> HIDE DEF s
  <1>3. FirstOf(s, op.limit) \in Seq(Symbols)
    BY <1>1, <1>2, FirstOfType
  <1> QED BY <1>3 DEF DbHits, s

LEMMA CandidatesType ==
  ASSUME NEW op \in Search, NEW hits \in Seq(Symbols), NEW list
  PROVE  NewCandidates(op, hits, list) \in Seq(Symbols)
  <1> DEFINE s == Keep(op.q, list)
             n == 2 * (op.limit - Len(hits))
             t == FirstOf(s, n)
  <1>1. s \in Seq(Symbols)
    <2>1. s \in Seq(Symbols \cap list)
      BY QueryType, KeepMembers
    <2> QED BY <2>1
  <1>2. n \in Int
    <2>1. op.limit \in Int /\ Len(hits) \in Int
      BY QueryType
    <2> QED BY <2>1
  <1> HIDE DEF s, n
  <1>3. t \in Seq(Symbols)
    BY <1>1, <1>2, FirstOfType
  <1> HIDE DEF t
  <1>4. Keep(t, Symbols \ ToSet(hits)) \in Seq(Symbols \cap (Symbols \ ToSet(hits)))
    BY <1>3, KeepMembers
  <1> QED BY <1>4 DEF NewCandidates, s, n, t

LEMMA WritesType ==
  ASSUME CatalogTypeOK, NEW op \in Request
  PROVE  Writes(op) \in Seq(Own(op) \cap Writing)
  <1> DEFINE s == op.sym
             W == Own(op) \cap Writing
  <1> SUFFICES Writes(op) \in Seq(W)
    OBVIOUS
  <1>1. /\ s \in Symbols /\ op \notin Search
        /\ op.kind \in {"register", "add", "remove", "trade", "import"}
        /\ held[s] \in 0 .. nextId - 1 /\ nextId - 1 \in Nat /\ 0 \in 0 .. nextId - 1
    BY DEF Request, Search, CatalogTypeOK
  <1>2. CASE op.kind = "remove"
    <2>1. Write("assets", "delete", s, held[s]) \in W
      BY <1>1, <1>2 DEF Own, Writing, Write
    <2> HIDE DEF W
    <2> QED BY <1>2, <2>1 DEF Writes
  <1>3. CASE op.kind # "remove"
    <2>1. /\ Write("symbols", "insert", s, 0) \in W
          /\ Write("assets", "insert", s, 0) \in W
          /\ Write("rows", "insert", s, held[s]) \in W
      BY <1>1, <1>3 DEF Own, Writing, Write
    <2> HIDE DEF W
    <2>2. \A c, w : w \in W => Unless(c, w) \in Seq(W)
      BY DEF Unless
    <2>3. CASE op.kind = "import"
      <3> DEFINE a == Unless(Known(s), Write("symbols", "insert", s, 0))
                 b == Unless(Held(s), Write("assets", "insert", s, 0))
                 c == <<Write("rows", "insert", s, held[s])>>
      <3>1. a \in Seq(W) /\ b \in Seq(W) /\ c \in Seq(W)
        BY <2>1, <2>2
      <3>2. Writes(op) = a \o b \o c
        BY <2>3 DEF Writes
      <3> HIDE DEF a, b, c
      <3> QED BY <3>1, <3>2
    <2>4. CASE op.kind # "import"
      BY <1>1, <1>3, <2>1, <2>4 DEF Writes
    <2> QED BY <2>3, <2>4
  <1> QED BY <1>2, <1>3

LEMMA HeadOfTodo ==
  ASSUME CatalogTypeOK, WritesItsOwn, NEW r \in Callers, req[r].todo # << >>
  PROVE  LET w == Head(req[r].todo)
         IN /\ w \in Writing /\ w \in Own(req[r].op)
            /\ Tail(req[r].todo) \in Seq(Writing)
            /\ ToSet(Tail(req[r].todo)) \subseteq ToSet(req[r].todo)
  <1>1. req[r].todo \in Seq(Writing)
    BY DEF CatalogTypeOK, Requests
  <1>2. /\ Head(req[r].todo) \in Writing /\ Tail(req[r].todo) \in Seq(Writing)
        /\ ToSet(req[r].todo) = {Head(req[r].todo)} \cup ToSet(Tail(req[r].todo))
    BY <1>1, HeadAndTail
  <1> QED BY <1>2 DEF WritesItsOwn

\* Every write is one of those Locks, Accepted and the commit distinguish.
LEMMA OwnKinds ==
  ASSUME NEW op \in Search \cup Request, NEW w \in Own(op)
  PROVE  /\ w.sym \in Symbols
         /\ \/ op \in Search /\ w = Write("symbols", "upsert", w.sym, 0)
            \/ /\ op \in Request /\ op.kind = "remove" /\ w.sym = op.sym
               /\ w.id \in Nat /\ w = Write("assets", "delete", w.sym, w.id)
            \/ /\ op \in Request /\ op.kind # "remove" /\ w.sym = op.sym
               /\ w.id \in Nat
               /\ \/ w = Write("symbols", "insert", w.sym, 0)
                  \/ w = Write("assets", "insert", w.sym, 0)
                  \/ w = Write("rows", "insert", w.sym, w.id)
  <1>1. CASE op \in Search
    BY <1>1 DEF Own, Write
  <1>2. CASE op \notin Search
    <2>1. op \in Request /\ op.sym \in Symbols
      BY <1>2 DEF Request
    <2> QED BY <1>2, <2>1 DEF Own, Write
  <1> QED BY <1>1, <1>2

LEMMA LocksOf ==
  /\ \A s, i : Locks(Write("assets", "delete", s, i)) = {<<"assets", s, "X">>}
  /\ \A s, i : <<"assets", s, "X">> \in Locks(Write("assets", "insert", s, i))
  /\ \A s, i : Locks(Write("rows", "insert", s, i)) = {<<"assets", s, "S">>}
  BY DEF Locks, Write

-----------------------------------------------------------------------------
(***************************************************************************)
(* The invariant.                                                          *)
(***************************************************************************)
LEMMA CatalogInitInv == CatalogInit => CatalogInv
  <1> SUFFICES ASSUME CatalogInit PROVE CatalogInv
    OBVIOUS
  <1> USE CatalogAssumption
  <1>1. IInv
    BY InitInv DEF CatalogInit
  <1>2. PICK mix \in Mixes : req = [r \in Callers |-> New(mix[r])]
    BY DEF CatalogInit
  <1>3. \A r \in Callers : /\ mix[r] \in Search \cup Request \cup {Nothing}
                           /\ req[r] = New(mix[r])
    BY <1>2
  <1>4. PICK s \in {{}} \cup {{x} : x \in symbols} :
          /\ held = [x \in Symbols |-> IF x \in s THEN 1 ELSE 0]
          /\ traded = (IF s = {} THEN {} ELSE {1})
    BY DEF CatalogInit
  <1>5. symbols \subseteq Symbols /\ nextId = 2
    BY DEF CatalogInit
  <1>6. \A q \in Callers : New(mix[q]) \in Requests
    <2>1. \A S : << >> \in Seq(S)
      OBVIOUS
    <2> QED BY <1>3, <2>1 DEF New, Requests, Phases
  <1>7. req \in [Callers -> Requests]
    BY <1>2, <1>6
  <1>8. CatalogTypeOK
    BY <1>1, <1>4, <1>5, <1>7 DEF CatalogTypeOK, IInv
  <1>9. LedgerOfHeld
    BY <1>4, <1>5 DEF LedgerOfHeld
  <1>12. \A r \in Callers : req[r].phase = "new" /\ req[r].todo = << >> /\ req[r].pend = {}
    <2>1. \A op : New(op).phase = "new" /\ New(op).todo = << >> /\ New(op).pend = {}
      BY DEF New
    <2> QED BY <1>3, <2>1
  <1>13. ToSet(<< >>) = {}
    BY DEF ToSet
  <1>10. WritesItsOwn
    BY <1>12, <1>13 DEF WritesItsOwn
  <1>11. Phased /\ PendingHolds /\ LocksApart
    BY <1>12 DEF Phased, PendingHolds, LocksApart
  <1> QED BY <1>1, <1>8, <1>9, <1>10, <1>11 DEF CatalogInv

\* A step of one request that writes nothing: its pending rows stay, or go.
LEMMA CalmStep ==
  ASSUME CatalogInv, IInv', UNCHANGED tables, NEW r \in Callers,
         req' \in [Callers -> Requests], \A o \in Callers : o # r => req'[o] = req[o],
         req'[r].op = req[r].op, req'[r].op # Nothing,
         req'[r].phase = "asking" => req[r].op \in Search,
         req'[r].phase \in {"new", "queued", "asking"} => req'[r].todo = << >>,
         req'[r].phase \notin {"writing", "replied"} => req'[r].pend = {},
         req'[r].pend \in {{}, req[r].pend},
         \A w \in ToSet(req'[r].todo) : w \in Own(req[r].op)
  PROVE  CatalogInv'
  <1> USE DEF CatalogInv
  <1>1. UNCHANGED <<symbols, held, traded, nextId>>
    BY DEF tables
  <1>2. CatalogTypeOK'
    BY <1>1 DEF CatalogTypeOK, IInv, Requests, Writing
  <1>3. LedgerOfHeld'
    BY <1>1 DEF LedgerOfHeld
  <1>4. WritesItsOwn'
    BY DEF WritesItsOwn
  <1>5. Phased'
    BY DEF Phased
  <1>6. \A o \in Callers : req'[o].pend \in {{}, req[o].pend}
    OBVIOUS
  <1>7. PendingHolds'
    BY <1>1, <1>6 DEF PendingHolds, Holds
  <1>8. LocksApart'
    BY <1>6 DEF LocksApart
  <1> QED BY <1>2, <1>3, <1>4, <1>5, <1>7, <1>8

LEMMA KeepCache == ASSUME CatalogInv, UNCHANGED vars PROVE IInv'
  BY NextInv DEF CatalogInv

LEMMA ArriveInv ==
  ASSUME CatalogInv, NEW r \in Callers, Arrive(r) PROVE CatalogInv'
  <1>1. IInv' /\ UNCHANGED tables
    BY KeepCache DEF Arrive
  <1>2. req \in [Callers -> Requests]
    BY DEF CatalogInv, CatalogTypeOK
  <1>3. req' \in [Callers -> Requests] /\ \A o \in Callers : o # r => req'[o] = req[o]
    <2> DEFINE q == [req[r] EXCEPT !.phase = "queued"]
    <2>1. req' = [req EXCEPT ![r] = q]
      BY DEF Arrive
    <2>2. req[r] \in Requests
      BY <1>2
    <2>3. q \in Requests
      BY <1>2, <2>2 DEF Requests, Phases
    <2> HIDE DEF q
    <2> QED BY <1>2, <2>1, <2>3
  <1>4. /\ req'[r].op = req[r].op /\ req'[r].phase = "queued"
        /\ req'[r].todo = req[r].todo /\ req'[r].pend = req[r].pend
    BY <1>2 DEF Arrive, Requests
  <1>5. req[r].todo = << >> /\ req[r].pend = {} /\ req[r].op # Nothing
    BY DEF Arrive, CatalogInv, Phased
  <1>6. ToSet(<< >>) = {}
    BY DEF ToSet
  <1> QED BY <1>1, <1>3, <1>4, <1>5, <1>6, CalmStep

LEMMA PoolTimeoutInv ==
  ASSUME CatalogInv, NEW r \in Callers, PoolTimeout(r) PROVE CatalogInv'
  <1>1. IInv' /\ UNCHANGED tables
    BY KeepCache DEF PoolTimeout
  <1>2. req \in [Callers -> Requests]
    BY DEF CatalogInv, CatalogTypeOK
  <1>3. req' \in [Callers -> Requests] /\ \A o \in Callers : o # r => req'[o] = req[o]
    <2> DEFINE q == [req[r] EXCEPT !.phase = "done", !.out = "500"]
    <2>1. req' = [req EXCEPT ![r] = q]
      BY DEF PoolTimeout
    <2>2. req[r] \in Requests
      BY <1>2
    <2>3. q \in Requests
      BY <1>2, <2>2 DEF Requests, Phases
    <2> HIDE DEF q
    <2> QED BY <1>2, <2>1, <2>3
  <1>4. /\ req'[r].op = req[r].op /\ req'[r].phase = "done"
        /\ req'[r].todo = req[r].todo /\ req'[r].pend = req[r].pend
    BY <1>2 DEF PoolTimeout, Requests
  <1>5. req[r].todo = << >> /\ req[r].pend = {} /\ req[r].op # Nothing
    BY DEF PoolTimeout, CatalogInv, Phased
  <1>6. ToSet(<< >>) = {}
    BY DEF ToSet
  <1> QED BY <1>1, <1>3, <1>4, <1>5, <1>6, CalmStep

LEMMA BeginSearchInv ==
  ASSUME CatalogInv, NEW r \in Callers, BeginSearch(r) PROVE CatalogInv'
  <1> DEFINE found == DbHits(req[r].op)
  <1>1. UNCHANGED tables
    BY DEF BeginSearch
  <1>2. req \in [Callers -> Requests] /\ req[r].phase = "queued"
    BY DEF CatalogInv, CatalogTypeOK, BeginSearch, CanConnect
  <1>3. /\ req[r].op # Nothing /\ req[r].todo = << >> /\ req[r].pend = {}
        /\ req[r].op \in Search
    <2>1. req[r].op # Nothing /\ req[r].todo = << >> /\ req[r].pend = {}
      BY <1>2 DEF CatalogInv, Phased
    <2>2. req[r].op \in Search \cup Request \cup {Nothing} /\ req[r].op.kind = "search"
      BY <1>2 DEF BeginSearch, Requests
    <2> QED BY <2>1, <2>2, OpKinds
  <1>4. found \in Seq(Symbols)
    BY <1>3, HitsType
  <1>5. PICK p \in {"asking", "writing"} :
          req' = [req EXCEPT ![r].phase = p, ![r].hits = found]
    BY DEF BeginSearch
  <1>6. IInv'
    <2>1. UNCHANGED vars \/ Ask(r)
      BY DEF BeginSearch
    <2> QED BY <2>1, NextInv DEF CatalogInv, Next
  <1> HIDE DEF found
  <1>7. req' \in [Callers -> Requests] /\ \A o \in Callers : o # r => req'[o] = req[o]
    <2> DEFINE q == [req[r] EXCEPT !.phase = p, !.hits = found]
    <2>1. req' = [req EXCEPT ![r] = q]
      BY <1>5
    <2>2. req[r] \in Requests
      BY <1>2
    <2>3. q \in Requests
      BY <1>2, <1>4, <1>5, <2>2 DEF Requests, Phases
    <2> HIDE DEF q
    <2> QED BY <1>2, <2>1, <2>3
  <1>8. /\ req'[r].op = req[r].op /\ req'[r].phase = p
        /\ req'[r].todo = req[r].todo /\ req'[r].pend = req[r].pend
    BY <1>2, <1>5 DEF Requests
  <1>9. ToSet(<< >>) = {}
    BY DEF ToSet
  <1> QED BY <1>1, <1>3, <1>6, <1>7, <1>8, <1>9, CalmStep

LEMMA TakeListInv ==
  ASSUME CatalogInv, NEW r \in Callers, TakeList(r) PROVE CatalogInv'
  <1> DEFINE list == IF reply[r] = Failure THEN {} ELSE reply[r]
             new  == NewCandidates(req[r].op, req[r].hits, list)
             todo == [i \in DOMAIN new |-> Write("symbols", "upsert", new[i], 0)]
  <1>1. IInv' /\ UNCHANGED tables
    BY KeepCache DEF TakeList
  <1>2. req \in [Callers -> Requests] /\ req[r].phase = "asking" /\ req[r].hits \in Seq(Symbols)
    BY DEF CatalogInv, CatalogTypeOK, Requests, TakeList
  <1>3. req[r].op # Nothing /\ req[r].op \in Search /\ req[r].pend = {}
    BY <1>2 DEF CatalogInv, Phased
  <1>4. new \in Seq(Symbols)
    <2> HIDE DEF list
    <2> QED BY <1>2, <1>3, CandidatesType
  <1>5. req' = [req EXCEPT ![r].phase = "writing", ![r].todo = todo]
    BY DEF TakeList
  <1> HIDE DEF new
  <1>6. todo \in Seq(Own(req[r].op) \cap Writing)
    <2>1. nextId - 1 \in Nat
      BY DEF CatalogInv, CatalogTypeOK
    <2>2. \A s \in Symbols : Write("symbols", "upsert", s, 0) \in Own(req[r].op) \cap Writing
      BY <1>3, <2>1 DEF Own, Writing, Write
    <2>3. Len(new) \in Nat /\ DOMAIN new = 1 .. Len(new) /\ \A i \in DOMAIN new : new[i] \in Symbols
      BY <1>4
    <2> DEFINE W == Own(req[r].op) \cap Writing
    <2> SUFFICES todo \in Seq(W)
      OBVIOUS
    <2> HIDE DEF W
    <2>4. \A i \in 1 .. Len(new) : todo[i] \in W
      BY <2>2, <2>3 DEF W
    <2> QED BY <2>3, <2>4, IsASeq
  <1> HIDE DEF todo
  <1>7. ToSet(todo) \subseteq Own(req[r].op) \cap Writing
    BY <1>6, ElementsOf
  <1>8. todo \in Seq(Writing)
    BY <1>6
  <1>9. req' \in [Callers -> Requests] /\ \A o \in Callers : o # r => req'[o] = req[o]
    <2> DEFINE q == [req[r] EXCEPT !.phase = "writing", !.todo = todo]
    <2>1. req' = [req EXCEPT ![r] = q]
      BY <1>5
    <2>2. req[r] \in Requests
      BY <1>2
    <2>3. q \in Requests
      BY <1>2, <1>5, <1>8, <2>2 DEF Requests, Phases
    <2> HIDE DEF q
    <2> QED BY <1>2, <2>1, <2>3
  <1>10. /\ req'[r].op = req[r].op /\ req'[r].phase = "writing"
         /\ req'[r].todo = todo /\ req'[r].pend = req[r].pend
    BY <1>2, <1>5 DEF Requests
  <1> QED BY <1>1, <1>3, <1>7, <1>9, <1>10, CalmStep

LEMMA BeginInv ==
  ASSUME CatalogInv, NEW r \in Callers, Begin(r) PROVE CatalogInv'
  <1> DEFINE no   == Refusal(req[r].op)
             todo == IF no = "none" THEN Writes(req[r].op) ELSE << >>
  <1>1. IInv' /\ UNCHANGED tables
    BY KeepCache DEF Begin
  <1>2. req \in [Callers -> Requests] /\ req[r].phase = "queued"
    BY DEF CatalogInv, CatalogTypeOK, Begin, CanConnect
  <1>3. req[r].op # Nothing /\ req[r].pend = {} /\ req[r].op \in Request
    <2>1. req[r].op # Nothing /\ req[r].pend = {}
      BY <1>2 DEF CatalogInv, Phased
    <2>2. req[r].op \in Search \cup Request \cup {Nothing} /\ req[r].op.kind # "search"
      BY <1>2 DEF Begin, Requests
    <2> QED BY <2>1, <2>2, OpKinds
  <1>4. no \in {"none", "409", "404"}
    BY <1>3 DEF Refusal, Request
  <1>5. todo \in Seq(Own(req[r].op) \cap Writing)
    <2> DEFINE W == Own(req[r].op) \cap Writing
    <2>1. Writes(req[r].op) \in Seq(W)
      BY <1>3, WritesType DEF CatalogInv
    <2> HIDE DEF W
    <2>2. todo \in Seq(W)
      BY <2>1
    <2> QED BY <2>2 DEF W
  <1>6. PICK p \in {"writing", "done"} :
          req' = [req EXCEPT ![r].phase = p, ![r].out = no, ![r].todo = todo]
    BY DEF Begin
  <1> HIDE DEF todo, no
  <1>7. ToSet(todo) \subseteq Own(req[r].op) \cap Writing /\ todo \in Seq(Writing)
    BY <1>5, ElementsOf
  <1>8. req' \in [Callers -> Requests] /\ \A o \in Callers : o # r => req'[o] = req[o]
    <2> DEFINE q == [req[r] EXCEPT !.phase = p, !.out = no, !.todo = todo]
    <2>1. req' = [req EXCEPT ![r] = q]
      BY <1>6
    <2>2. req[r] \in Requests
      BY <1>2
    <2>3. q \in Requests
      BY <1>2, <1>4, <1>6, <1>7, <2>2 DEF Requests, Phases
    <2> HIDE DEF q
    <2> QED BY <1>2, <2>1, <2>3
  <1>9. /\ req'[r].op = req[r].op /\ req'[r].phase = p
        /\ req'[r].todo = todo /\ req'[r].pend = req[r].pend
    BY <1>2, <1>6 DEF Requests
  <1> QED BY <1>1, <1>3, <1>7, <1>8, <1>9, CalmStep

\* What has something left to write has been let in.
LEMMA Active ==
  ASSUME CatalogInv, NEW r \in Callers,
         req[r].phase \in {"writing", "replied"} \/ req[r].todo # << >>
  PROVE  req[r].op # Nothing
  BY DEF CatalogInv, Phased

LEMMA FailInv ==
  ASSUME CatalogInv, NEW r \in Callers, req[r].todo # << >>, Fail(r) PROVE CatalogInv'
  <1>1. IInv' /\ UNCHANGED tables
    BY KeepCache DEF Fail
  <1>2. req \in [Callers -> Requests] /\ req[r].op # Nothing
    BY Active DEF CatalogInv, CatalogTypeOK
  <1>3. \A S : << >> \in Seq(S)
    OBVIOUS
  <1>4. req' \in [Callers -> Requests] /\ \A o \in Callers : o # r => req'[o] = req[o]
    <2> DEFINE q == [req[r] EXCEPT !.phase = "done", !.out = "500", !.todo = << >>, !.pend = {}]
    <2>1. req' = [req EXCEPT ![r] = q]
      BY DEF Fail
    <2>2. req[r] \in Requests
      BY <1>2
    <2>3. q \in Requests
      BY <1>2, <1>3, <2>2 DEF Requests, Phases
    <2> HIDE DEF q
    <2> QED BY <1>2, <2>1, <2>3
  <1>5. /\ req'[r].op = req[r].op /\ req'[r].phase = "done"
        /\ req'[r].todo = << >> /\ req'[r].pend = {}
    BY <1>2 DEF Fail, Requests
  <1>6. ToSet(<< >>) = {}
    BY DEF ToSet
  <1> QED BY <1>1, <1>2, <1>4, <1>5, <1>6, CalmStep

LEMMA ReplyInv ==
  ASSUME CatalogInv, NEW r \in Callers, Reply(r) PROVE CatalogInv'
  <1>1. IInv' /\ UNCHANGED tables
    BY KeepCache DEF Reply
  <1>2. req \in [Callers -> Requests] /\ req[r].op # Nothing /\ req[r].todo = << >>
    BY Active DEF CatalogInv, CatalogTypeOK, Reply
  <1>3. req' \in [Callers -> Requests] /\ \A o \in Callers : o # r => req'[o] = req[o]
    <2> DEFINE q == [req[r] EXCEPT !.phase = "replied", !.out = "ok"]
    <2>1. req' = [req EXCEPT ![r] = q]
      BY DEF Reply
    <2>2. req[r] \in Requests
      BY <1>2
    <2>3. q \in Requests
      BY <1>2, <2>2 DEF Requests, Phases
    <2> HIDE DEF q
    <2> QED BY <1>2, <2>1, <2>3
  <1>4. /\ req'[r].op = req[r].op /\ req'[r].phase = "replied"
        /\ req'[r].todo = << >> /\ req'[r].pend = req[r].pend
    BY <1>2 DEF Reply, Requests
  <1>5. ToSet(<< >>) = {}
    BY DEF ToSet
  <1> QED BY <1>1, <1>2, <1>3, <1>4, <1>5, CalmStep

LEMMA CommitFailsInv ==
  ASSUME CatalogInv, NEW r \in Callers, CommitFails(r) PROVE CatalogInv'
  <1>1. IInv' /\ UNCHANGED tables
    BY KeepCache DEF CommitFails
  <1>2. req \in [Callers -> Requests] /\ req[r].op # Nothing
    BY Active DEF CatalogInv, CatalogTypeOK, CommitFails
  <1>3. req' \in [Callers -> Requests] /\ \A o \in Callers : o # r => req'[o] = req[o]
    <2> DEFINE q == [req[r] EXCEPT !.phase = "done", !.pend = {}]
    <2>1. req' = [req EXCEPT ![r] = q]
      BY DEF CommitFails
    <2>2. req[r] \in Requests
      BY <1>2
    <2>3. q \in Requests
      BY <1>2, <2>2 DEF Requests, Phases
    <2> HIDE DEF q
    <2> QED BY <1>2, <2>1, <2>3
  <1>4. /\ req'[r].op = req[r].op /\ req'[r].phase = "done"
        /\ req'[r].todo = req[r].todo /\ req'[r].pend = {}
    BY <1>2 DEF CommitFails, Requests
  <1>5. \A w \in ToSet(req[r].todo) : w \in Own(req[r].op)
    BY DEF CatalogInv, WritesItsOwn
  <1> QED BY <1>1, <1>2, <1>3, <1>4, <1>5, CalmStep

\* A row is written under locks nobody else keeps, once the tables accept it.
LEMMA WriteRowInv ==
  ASSUME CatalogInv, NEW r \in Callers, WriteRow(r) PROVE CatalogInv'
  <1> DEFINE w == Head(req[r].todo)
             q == [req[r] EXCEPT !.todo = Tail(@), !.pend = @ \cup {w}]
  <1>1. IInv' /\ UNCHANGED tables /\ UNCHANGED <<symbols, held, traded, nextId>>
    BY KeepCache DEF WriteRow, tables
  <1>2. /\ req \in [Callers -> Requests] /\ req[r] \in Requests
        /\ req[r].phase = "writing" /\ req[r].todo # << >>
        /\ Accepted(r, w) /\ ~Blocked(r)
    BY DEF CatalogInv, CatalogTypeOK, WriteRow
  <1>3. /\ w \in Writing /\ w \in Own(req[r].op) /\ Tail(req[r].todo) \in Seq(Writing)
        /\ ToSet(Tail(req[r].todo)) \subseteq ToSet(req[r].todo)
    BY <1>2, HeadOfTodo DEF CatalogInv
  <1>4. req[r].op \in Search \cup Request
    BY <1>2, Active DEF Requests
  <1>5. req' = [req EXCEPT ![r] = q]
    BY DEF WriteRow
  <1> HIDE DEF w
  <1>6. q \in Requests
    BY <1>2, <1>3 DEF Requests
  <1>7. /\ q.phase = "writing" /\ q.op = req[r].op /\ q.todo = Tail(req[r].todo)
        /\ q.pend = req[r].pend \cup {w}
    BY <1>2 DEF Requests
  <1> HIDE DEF q
  <1>8. /\ req' \in [Callers -> Requests] /\ req'[r] = q
        /\ \A o \in Callers : o # r => req'[o] = req[o]
    BY <1>2, <1>5, <1>6
  <1>9. CatalogTypeOK'
    BY <1>1, <1>8 DEF CatalogInv, CatalogTypeOK, IInv, Requests, Writing
  <1>10. LedgerOfHeld'
    BY <1>1 DEF CatalogInv, LedgerOfHeld
  <1>11. WritesItsOwn'
    BY <1>3, <1>7, <1>8 DEF CatalogInv, WritesItsOwn
  <1>12. Phased'
    BY <1>7, <1>8, <1>4, <1>2, Active DEF CatalogInv, Phased
  <1>13. Holds(w, q.pend)
    <2>1. /\ w.sym \in Symbols
          /\ \/ w = Write("symbols", "upsert", w.sym, 0)
             \/ w = Write("assets", "delete", w.sym, w.id)
             \/ w = Write("symbols", "insert", w.sym, 0)
             \/ w = Write("assets", "insert", w.sym, 0)
             \/ w = Write("rows", "insert", w.sym, w.id)
      BY <1>3, <1>4, OwnKinds
    <2>2. CASE w = Write("assets", "insert", w.sym, 0)
      <3>1. w.table = "assets" /\ w.how = "insert"
        BY <2>2 DEF Write
      <3> QED BY <1>2, <3>1 DEF Accepted, Held, Holds
    <2>3. CASE w = Write("rows", "insert", w.sym, w.id)
      <3>1. w.table = "rows" /\ w.how = "insert"
        BY <2>3 DEF Write
      <3>2. \/ w.id # 0 /\ held[w.sym] = w.id
            \/ Write("assets", "insert", w.sym, 0) \in req[r].pend
        BY <1>2, <3>1 DEF Accepted
      <3> QED BY <1>7, <3>1, <3>2 DEF Holds
    <2>4. CASE w.table = "symbols" \/ w.how = "delete"
      <3>1. ~(w.table = "assets" /\ w.how = "insert") /\ w.table # "rows"
        BY <2>1, <2>4 DEF Write
      <3> QED BY <3>1 DEF Holds
    <2>5. \A t, h, x, i : Write(t, h, x, i).table = t /\ Write(t, h, x, i).how = h
      BY DEF Write
    <2> QED BY <2>1, <2>2, <2>3, <2>4, <2>5
  <1>14. PendingHolds'
    <2> SUFFICES ASSUME NEW o \in Callers, NEW v \in req'[o].pend
                 PROVE  Holds(v, req[o].pend)'
      BY DEF PendingHolds
    <2>1. CASE o # r
      BY <1>1, <1>8, <2>1 DEF CatalogInv, PendingHolds, Holds
    <2>2. CASE o = r
      <3>1. Holds(v, q.pend)
        BY <1>7, <1>8, <1>13, <2>2 DEF CatalogInv, PendingHolds, Holds
      <3> QED BY <1>1, <1>8, <2>2, <3>1 DEF Holds
    <2> QED BY <2>1, <2>2
  <1>15. \A o \in Callers : o # r =>
            \A v \in req[o].pend : \A k \in Locks(w), l \in Locks(v) : ~Clash(k, l)
    BY <1>2 DEF Blocked, WaitsFor, Keeps, w
  <1>16. LocksApart'
    <2> SUFFICES ASSUME NEW a \in Callers, NEW o \in Callers, a # o,
                        NEW v \in req'[a].pend, NEW u \in req'[o].pend,
                        NEW k \in Locks(v), NEW l \in Locks(u), Clash(k, l)
                 PROVE  FALSE
      BY DEF LocksApart
    <2>1. CASE a # r /\ o # r
      BY <1>8, <2>1 DEF CatalogInv, LocksApart
    <2>2. CASE a = r
      BY <1>7, <1>8, <1>15, <2>2 DEF CatalogInv, LocksApart
    <2>3. CASE o = r
      <3>1. Clash(l, k)
        BY DEF Clash
      <3> QED BY <1>7, <1>8, <1>15, <2>3, <3>1 DEF CatalogInv, LocksApart
    <2> QED BY <2>1, <2>2, <2>3
  <1> QED BY <1>1, <1>9, <1>10, <1>11, <1>12, <1>14, <1>16 DEF CatalogInv

\* The rows of a commit: at most one asset declared or removed.
LEMMA AssetsOfCommit ==
  ASSUME CatalogInv, NEW r \in Callers, req[r].phase = "replied"
  PROVE  /\ Inserted(r, "assets") = {} \/ \E s \in Symbols :
               /\ Inserted(r, "assets") = {Write("assets", "insert", s, 0)}
               /\ held[s] = 0 /\ Deleted(r) = {}
               /\ \A w \in req[r].pend : w.sym = s
         /\ \A w \in Deleted(r) : /\ w \in req[r].pend /\ held[w.sym] = w.id
                                  /\ w.sym \in Symbols
                                  /\ <<"assets", w.sym, "X">> \in Locks(w)
                                  /\ Inserted(r, "rows") = {}
         /\ Inserted(r, "symbols") \subseteq [table : {"symbols"}, how : {"insert", "upsert"},
                                             sym : Symbols, id : {0}]
  <1>1. req[r].op \in Search \cup Request
    BY Active DEF CatalogInv, CatalogTypeOK, Requests
  <1>2. \A w \in req[r].pend : w \in Own(req[r].op)
    BY DEF CatalogInv, WritesItsOwn
  <1>3. ASSUME Inserted(r, "assets") # {}
        PROVE  \E s \in Symbols :
                  /\ Inserted(r, "assets") = {Write("assets", "insert", s, 0)}
                  /\ held[s] = 0 /\ Deleted(r) = {}
                  /\ \A w \in req[r].pend : w.sym = s
    <2>1. PICK w \in req[r].pend : w.table = "assets" /\ w.how # "delete"
      BY <1>3 DEF Inserted
    <2>2. /\ w.sym \in Symbols /\ w = Write("assets", "insert", w.sym, 0)
          /\ req[r].op \in Request /\ req[r].op.kind # "remove" /\ w.sym = req[r].op.sym
      BY <1>1, <1>2, <2>1, OwnKinds DEF Write
    <2>3. \A v \in req[r].pend : v.sym = w.sym /\ v.how # "delete"
      BY <1>1, <1>2, <2>2, OwnKinds DEF Write, Search, Request
    <2>4. \A v \in Inserted(r, "assets") : v = w
      BY <1>1, <1>2, <2>2, <2>3, OwnKinds DEF Inserted, Write
    <2>5. held[w.sym] = 0
      BY <2>2 DEF CatalogInv, PendingHolds, Holds, Write
    <2>6. Inserted(r, "assets") = {w} /\ Deleted(r) = {}
      BY <2>1, <2>3, <2>4 DEF Deleted, Inserted
    <2> QED BY <2>2, <2>3, <2>5, <2>6
  <1>4. ASSUME NEW w \in Deleted(r)
        PROVE  /\ w \in req[r].pend /\ held[w.sym] = w.id /\ w.sym \in Symbols
               /\ <<"assets", w.sym, "X">> \in Locks(w)
               /\ Inserted(r, "rows") = {}
    <2>1. w \in req[r].pend /\ held[w.sym] = w.id /\ w.how = "delete"
      BY DEF Deleted
    <2>2. /\ w.sym \in Symbols /\ w = Write("assets", "delete", w.sym, w.id)
          /\ req[r].op \in Request /\ req[r].op.kind = "remove"
      BY <1>1, <1>2, <2>1, OwnKinds DEF Write
    <2>3. \A v \in req[r].pend : v.table = "assets"
      BY <1>1, <1>2, <2>2, OwnKinds DEF Write, Search, Request
    <2> QED BY <2>1, <2>2, <2>3, LocksOf DEF Inserted
  <1>5. Inserted(r, "symbols") \subseteq [table : {"symbols"}, how : {"insert", "upsert"},
                                          sym : Symbols, id : {0}]
    BY <1>1, <1>2, OwnKinds DEF Inserted, Write
  <1> QED BY <1>3, <1>4, <1>5

\* What a commit does to the assets, by the one asset it declares, or not.
LEMMA HeldByCommit ==
  ASSUME CatalogInv, NEW r \in Callers, Commit(r)
  PROVE  /\ \/ /\ nextId' = nextId /\ Inserted(r, "assets") = {}
               /\ held' = [s \in Symbols |->
                             IF \E w \in Deleted(r) : w.sym = s THEN 0 ELSE held[s]]
            \/ \E t \in Symbols :
                  /\ nextId' = nextId + 1 /\ Deleted(r) = {} /\ held[t] = 0
                  /\ Inserted(r, "assets") = {Write("assets", "insert", t, 0)}
                  /\ \A w \in req[r].pend : w.sym = t
                  /\ held' = [s \in Symbols |-> IF s = t THEN nextId ELSE held[s]]
         /\ \A s \in Symbols : held'[s] # held[s] =>
               \E v \in req[r].pend : <<"assets", s, "X">> \in Locks(v)
  <1>1. /\ req[r].phase = "replied" /\ nextId \in Nat
        /\ nextId' = nextId + Cardinality(Inserted(r, "assets"))
        /\ held' = [s \in Symbols |->
                       IF \E w \in Inserted(r, "assets") : w.sym = s THEN nextId
                       ELSE IF \E w \in Deleted(r) : w.sym = s THEN 0
                       ELSE held[s]]
    BY DEF Commit, CommitTables, CatalogInv, CatalogTypeOK
  <1>2. \A w \in Deleted(r) : w \in req[r].pend /\ <<"assets", w.sym, "X">> \in Locks(w)
    BY <1>1, AssetsOfCommit
  <1>3. CASE Inserted(r, "assets") = {}
    <2>1. nextId' = nextId
      BY <1>1, <1>3, FS_EmptySet
    <2>2. held' = [s \in Symbols |-> IF \E w \in Deleted(r) : w.sym = s THEN 0 ELSE held[s]]
      BY <1>1, <1>3
    <2> QED BY <1>2, <1>3, <2>1, <2>2
  <1>4. CASE Inserted(r, "assets") # {}
    <2>1. PICK t \in Symbols :
             /\ Inserted(r, "assets") = {Write("assets", "insert", t, 0)}
             /\ held[t] = 0 /\ Deleted(r) = {}
             /\ \A w \in req[r].pend : w.sym = t
      BY <1>1, <1>4, AssetsOfCommit
    <2>2. Cardinality(Inserted(r, "assets")) = 1
      BY <2>1, FS_Singleton
    <2>3. nextId' = nextId + 1
      BY <1>1, <2>2
    <2>4. Write("assets", "insert", t, 0).sym = t
      BY DEF Write
    <2>5. held' = [s \in Symbols |-> IF s = t THEN nextId ELSE held[s]]
      BY <1>1, <2>1, <2>4
    <2>6. Write("assets", "insert", t, 0) \in req[r].pend
      BY <2>1 DEF Inserted
    <2> QED BY <2>1, <2>3, <2>5, <2>6, LocksOf
  <1> QED BY <1>3, <1>4

LEMMA TradedByCommit ==
  ASSUME CatalogInv, NEW r \in Callers, Commit(r)
  PROVE  /\ held' \in [Symbols -> 0 .. nextId' - 1] /\ nextId' \in Nat \ {0}
         /\ \A s, t \in Symbols : held'[s] = held'[t] => s = t \/ held'[s] = 0
         /\ traded' \subseteq 1 .. nextId' - 1
         /\ traded' \subseteq {held'[s] : s \in Symbols}
  <1>1. /\ nextId \in Nat \ {0} /\ held \in [Symbols -> 0 .. nextId - 1]
        /\ \A s, t \in Symbols : held[s] = held[t] => s = t \/ held[s] = 0
        /\ traded \subseteq 1 .. nextId - 1
        /\ \A x \in traded : \E s \in Symbols : x = held[s]
    BY DEF CatalogInv, CatalogTypeOK, LedgerOfHeld
  <1>2. /\ req[r].phase = "replied"
        /\ traded' = (traded \ {w.id : w \in Deleted(r)})
                     \cup {held'[w.sym] : w \in Inserted(r, "rows")}
    BY DEF Commit, CommitTables
  <1>3. \A w \in Inserted(r, "rows") :
           /\ w.sym \in Symbols
           /\ held[w.sym] # 0 \/ Write("assets", "insert", w.sym, 0) \in req[r].pend
    <2>1. req[r].op \in Search \cup Request
      BY <1>2, Active DEF CatalogInv, CatalogTypeOK, Requests
    <2>2. \A w \in req[r].pend : w \in Own(req[r].op) /\ Holds(w, req[r].pend)
      BY DEF CatalogInv, WritesItsOwn, PendingHolds
    <2> QED BY <2>1, <2>2, OwnKinds DEF Inserted, Holds
  <1>4. \A w \in Deleted(r) : held[w.sym] = w.id /\ Inserted(r, "rows") = {}
    BY <1>2, AssetsOfCommit
  <1>5. CASE /\ nextId' = nextId /\ Inserted(r, "assets") = {}
             /\ held' = [s \in Symbols |->
                           IF \E w \in Deleted(r) : w.sym = s THEN 0 ELSE held[s]]
    <2>1. held' \in [Symbols -> 0 .. nextId - 1]
      BY <1>1, <1>5
    <2>2. \A s, t \in Symbols : held'[s] = held'[t] => s = t \/ held'[s] = 0
      BY <1>1, <1>5
    <2>3. ASSUME NEW w \in Inserted(r, "rows")
          PROVE  w.sym \in Symbols /\ held'[w.sym] = held[w.sym] /\ held[w.sym] # 0
      <3>1. Write("assets", "insert", w.sym, 0) \notin req[r].pend
        BY <1>5 DEF Inserted, Write
      <3> QED BY <1>3, <1>4, <1>5, <3>1
    <2>4. ASSUME NEW x \in traded, x \notin {w.id : w \in Deleted(r)}
          PROVE  \E s \in Symbols : held'[s] = x
      <3>1. PICK s \in Symbols : x = held[s]
        BY <1>1
      <3>2. ~\E w \in Deleted(r) : w.sym = s
        BY <1>4, <2>4, <3>1
      <3> QED BY <1>5, <3>1, <3>2
    <2>5. traded' \subseteq 1 .. nextId - 1
      <3>1. \A w \in Inserted(r, "rows") : held'[w.sym] \in 1 .. nextId - 1
        BY <1>1, <2>3
      <3> QED BY <1>1, <1>2, <3>1
    <2>6. traded' \subseteq {held'[s] : s \in Symbols}
      BY <1>2, <2>3, <2>4
    <2> QED BY <1>1, <1>5, <2>1, <2>2, <2>5, <2>6
  <1>6. ASSUME NEW t \in Symbols, nextId' = nextId + 1, Deleted(r) = {}, held[t] = 0,
               \A w \in req[r].pend : w.sym = t,
               held' = [s \in Symbols |-> IF s = t THEN nextId ELSE held[s]]
        PROVE  /\ held' \in [Symbols -> 0 .. nextId' - 1] /\ nextId' \in Nat \ {0}
               /\ \A s, u \in Symbols : held'[s] = held'[u] => s = u \/ held'[s] = 0
               /\ traded' \subseteq 1 .. nextId' - 1
               /\ traded' \subseteq {held'[s] : s \in Symbols}
    <2>1. held' \in [Symbols -> 0 .. nextId]
      BY <1>1, <1>6
    <2>2. \A s, u \in Symbols : held'[s] = held'[u] => s = u \/ held'[s] = 0
      <3>1. \A s \in Symbols : held[s] # nextId
        BY <1>1
      <3> QED BY <1>1, <1>6, <3>1
    <2>3. \A w \in Inserted(r, "rows") : w.sym = t /\ held'[w.sym] = nextId
      BY <1>6 DEF Inserted
    <2>4. ASSUME NEW x \in traded PROVE \E s \in Symbols : held'[s] = x
      <3>1. PICK s \in Symbols : x = held[s]
        BY <1>1
      <3>2. s # t
        BY <1>1, <1>6, <3>1
      <3> QED BY <1>6, <3>1, <3>2
    <2>5. traded' \subseteq 1 .. nextId
      BY <1>1, <1>2, <2>3
    <2>6. traded' \subseteq {held'[s] : s \in Symbols}
      BY <1>2, <1>6, <2>3, <2>4
    <2> QED BY <1>1, <1>6, <2>1, <2>2, <2>5, <2>6
  <1> QED BY <1>5, <1>6, HeldByCommit

LEMMA CommitInv ==
  ASSUME CatalogInv, NEW r \in Callers, Commit(r) PROVE CatalogInv'
  <1> DEFINE q == [req[r] EXCEPT !.phase = "done", !.pend = {}]
  <1>1. IInv' /\ req[r].phase = "replied" /\ nextId \in Nat
    BY KeepCache DEF Commit, CatalogInv, CatalogTypeOK
  <1>2. req \in [Callers -> Requests] /\ req[r] \in Requests
    BY DEF CatalogInv, CatalogTypeOK
  <1>3. req' = [req EXCEPT ![r] = q]
    BY DEF Commit
  <1>4. /\ q.phase = "done" /\ q.op = req[r].op /\ q.todo = req[r].todo /\ q.pend = {}
        /\ q \in Requests
    BY <1>2 DEF Requests, Phases
  <1> HIDE DEF q
  <1>5. req'[r] = q /\ \A o \in Callers : o # r => req'[o] = req[o]
    BY <1>2, <1>3
  <1>6. /\ held' \in [Symbols -> 0 .. nextId' - 1] /\ nextId' \in Nat \ {0}
        /\ \A s, t \in Symbols : held'[s] = held'[t] => s = t \/ held'[s] = 0
        /\ traded' \subseteq 1 .. nextId' - 1
        /\ traded' \subseteq {held'[s] : s \in Symbols}
    BY TradedByCommit
  <1>7. nextId' \in {nextId, nextId + 1}
    BY HeldByCommit
  <1>8. Writing \subseteq Writing'
    BY <1>1, <1>7 DEF Writing
  <1>9. Requests \subseteq Requests' /\ q \in Requests'
    <2>1. \A s \in Seq(Writing) : s \in Seq(Writing')
      BY <1>8
    <2>2. Requests \subseteq Requests'
      BY <1>8, <2>1 DEF Requests
    <2> QED BY <1>4, <2>2
  <1>10. req' \in [Callers -> Requests']
    BY <1>2, <1>3, <1>9
  <1>11. symbols' \subseteq Symbols
    <2>1. Inserted(r, "symbols") \subseteq [table : {"symbols"}, how : {"insert", "upsert"},
                                            sym : Symbols, id : {0}]
      BY <1>1, AssetsOfCommit
    <2>2. symbols' = symbols \cup {w.sym : w \in Inserted(r, "symbols")}
      BY DEF Commit, CommitTables
    <2> QED BY <2>1, <2>2 DEF CatalogInv, CatalogTypeOK
  <1>12. CatalogTypeOK'
    BY <1>1, <1>6, <1>10, <1>11 DEF CatalogTypeOK, IInv
  <1>13. LedgerOfHeld'
    BY <1>6 DEF LedgerOfHeld
  <1>14. WritesItsOwn'
    BY <1>4, <1>5 DEF CatalogInv, WritesItsOwn
  <1>15. Phased'
    BY <1>1, <1>4, <1>5, Active DEF CatalogInv, Phased
  <1>16. LocksApart'
    BY <1>4, <1>5 DEF CatalogInv, LocksApart
  <1>17. ASSUME NEW o \in Callers, o # r, NEW w \in req[o].pend,
                (w.table = "assets" /\ w.how = "insert") \/ w.table = "rows"
         PROVE  held'[w.sym] = held[w.sym]
    <2>1. req[o].op \in Search \cup Request /\ w \in Own(req[o].op)
      <3>1. req[o].pend # {} /\ req[o] \in Requests
        BY <1>2, <1>17
      <3>2. req[o].phase \in {"writing", "replied"}
        BY <3>1 DEF CatalogInv, Phased
      <3> QED BY <3>1, <3>2, Active DEF CatalogInv, WritesItsOwn, Requests
    <2>2. /\ w.sym \in Symbols
          /\ w = Write("assets", "insert", w.sym, 0) \/ w = Write("rows", "insert", w.sym, w.id)
      BY <1>17, <2>1, OwnKinds DEF Write
    <2>3. \E m \in {"S", "X"} : <<"assets", w.sym, m>> \in Locks(w)
      BY <2>2, LocksOf
    <2>4. \A v \in req[r].pend : <<"assets", w.sym, "X">> \notin Locks(v)
      BY <1>17, <2>3 DEF CatalogInv, LocksApart, Clash
    <2> QED BY <2>2, <2>4, HeldByCommit
  <1>18. PendingHolds'
    <2> SUFFICES ASSUME NEW o \in Callers, NEW w \in req'[o].pend
                 PROVE  Holds(w, req[o].pend)'
      BY DEF PendingHolds
    <2>1. o # r /\ req'[o] = req[o]
      BY <1>4, <1>5
    <2>2. Holds(w, req[o].pend)
      BY <2>1 DEF CatalogInv, PendingHolds
    <2> QED BY <1>17, <2>1, <2>2 DEF Holds
  <1> QED BY <1>1, <1>12, <1>13, <1>14, <1>15, <1>16, <1>18 DEF CatalogInv

LEMMA SameTables ==
  ASSUME CatalogInv, IInv', UNCHANGED <<symbols, held, traded, nextId, req>>
  PROVE  CatalogInv'
  <1> USE DEF CatalogInv
  <1>1. CatalogTypeOK'
    BY DEF CatalogTypeOK, IInv, Requests, Writing
  <1>2. LedgerOfHeld' /\ WritesItsOwn' /\ Phased'
    BY DEF LedgerOfHeld, WritesItsOwn, Phased
  <1>3. PendingHolds'
    BY DEF PendingHolds, Holds
  <1>4. LocksApart'
    BY DEF LocksApart
  <1> QED BY <1>1, <1>2, <1>3, <1>4

\* The list and the clock touch no table and no request.
LEMMA CacheActionInv ==
  ASSUME CatalogInv, ListLoads \/ ListWoken \/ Clock PROVE CatalogInv'
  <1>1. IInv'
    <2>1. Next
      BY DEF ListLoads, ListWoken, Clock, Next
    <2> QED BY <2>1, NextInv DEF CatalogInv
  <1>2. UNCHANGED <<symbols, held, traded, nextId, req>>
    BY DEF ListLoads, ListWoken, Clock, catalog, tables
  <1> QED BY <1>1, <1>2, SameTables

LEMMA CatalogNextInv == CatalogInv /\ [CatalogNext]_<<catalog, vars>> => CatalogInv'
  <1> SUFFICES ASSUME CatalogInv, [CatalogNext]_<<catalog, vars>> PROVE CatalogInv'
    OBVIOUS
  <1>1. ASSUME NEW r \in Callers, Arrive(r) \/ Step(r) \/ PoolTimeout(r) \/ CommitFails(r)
        PROVE  CatalogInv'
    <2>1. CASE Arrive(r) \/ PoolTimeout(r) \/ CommitFails(r)
      BY <2>1, ArriveInv, PoolTimeoutInv, CommitFailsInv
    <2>2. CASE BeginSearch(r) \/ TakeList(r) \/ Begin(r)
      BY <2>2, BeginSearchInv, TakeListInv, BeginInv
    <2>3. CASE WriteRow(r) \/ Reply(r) \/ Commit(r)
      BY <2>3, WriteRowInv, ReplyInv, CommitInv
    <2>4. CASE WriteFails(r) \/ Victim(r)
      BY <2>4, FailInv DEF WriteFails, Victim, Blocked, WaitsFor
    <2> QED BY <1>1, <2>1, <2>2, <2>3, <2>4 DEF Step
  <1>2. CASE ListLoads \/ ListWoken \/ Clock
    BY <1>2, CacheActionInv
  <1>3. CASE UNCHANGED <<catalog, vars>>
    <2>1. IInv' /\ UNCHANGED <<symbols, held, traded, nextId, req>>
      BY <1>3, KeepCache DEF catalog, tables
    <2> QED BY <2>1, SameTables
  <1> QED BY <1>1, <1>2, <1>3 DEF CatalogNext

\* In every reachable state the sessions' locks are apart and every pending
\* row is one the tables will take (models/transaction.py:39, db/base.py:35-49).
THEOREM CatalogInvariance == CatalogSpec => []CatalogInv
  BY CatalogInitInv, CatalogNextInv, PTL DEF CatalogSpec

\* Tables and requests are well-typed, and an asset's id is its own, for any
\* symbols, requests and pool size.
THEOREM CatalogTypeCorrect == CatalogSpec => []CatalogTypeOK
  <1>1. CatalogInv => CatalogTypeOK
    BY DEF CatalogInv
  <1> QED BY <1>1, CatalogInvariance, PTL

\* No interleaving of declare, remove, trade and import leaves a transaction
\* without its asset, although each decides on a snapshot that may be stale
\* when it writes (services/transaction.py:64-66, services/user_asset.py:25-59).
THEOREM LedgerStaysOfHeld == CatalogSpec => []LedgerOfHeld
  <1>1. CatalogInv => LedgerOfHeld
    BY DEF CatalogInv
  <1> QED BY <1>1, CatalogInvariance, PTL

\* Requests move the list's cache by its own steps only, so what is proved of
\* the cache holds in the application: one load at a time, none while the list
\* is fresh (services/symbol.py, adapters/_symbol_cache.py:47-77).
THEOREM CacheWithinCatalog == CatalogSpec => SF!Init /\ [][SF!Next]_SF!vars
  <1>1. CatalogInit => Init
    BY DEF CatalogInit
  <1>2. [CatalogNext]_<<catalog, vars>> => [Next]_vars
    BY DEF CatalogNext, Step, Arrive, BeginSearch, TakeList, Begin, WriteRow, WriteFails, Victim,
           Fail, Reply, Commit, PoolTimeout, CommitFails, ListLoads, ListWoken, Clock, Next
  <1>3. CatalogInv => IInv
    BY DEF CatalogInv
  <1> QED BY <1>1, <1>2, <1>3, CatalogInvariance, InitImplements, NextImplements, PTL
          DEF CatalogSpec
=============================================================================
