---------------------------- MODULE SymbolCache -----------------------------
(***************************************************************************)
(* The in-memory caches in front of the market data sources: the KRX and   *)
(* crypto symbol lists (SymbolListCache) and the index quotes              *)
(* (MarketIndexService).  Coroutines of one event loop share the value and *)
(* an asyncio.Lock, which hands itself on in the order of arrival; what    *)
(* runs between two awaits is one step.                                    *)
(***************************************************************************)
EXTENDS Naturals, Sequences, FiniteSets, SequencesExt

CONSTANTS Callers,
          Values,      \* what a load may bring, the empty list among them
          Empty,       \* the empty list
          Nothing,     \* no value, no caller
          Failure,     \* the loader's exception, as the caller sees it
          TTL

ASSUME SymbolCacheAssumption ==
    /\ TTL \in Nat \ {0} /\ Empty \in Values
    /\ Nothing \notin Callers /\ Nothing \notin Values

Kinds == {"kr", "crypto", "index"}

VARIABLES kind,      \* which cache this is; never changes
          data,      \* _data, _cache
          age,       \* time since the stamp of data, up to TTL
          holder,    \* who holds the lock: the caller whose loader runs
          spent,     \* time since the holder took the lock, up to TTL
          queue,     \* who waits for the lock, in the order of arrival
          reply      \* the last answer of each caller

vars == <<kind, data, age, holder, spent, queue, reply>>

\* SymbolListCache looks before it locks and stamps what it has loaded;
\* MarketIndexService locks first and stamps before the fetch.
LooksFirst   == kind # "index"
StampedEarly == kind = "index"

Stale == data = Nothing \/ age = TTL

Waiting == ToSet(queue) \cup ({holder} \ {Nothing})

Init ==
    /\ kind \in Kinds
    /\ data = Nothing /\ age = 0
    /\ holder = Nothing /\ spent = 0 /\ queue = << >>
    /\ reply = [r \in Callers |-> Nothing]

\* Mutant: no second look once the lock is held.
EnterBlindly(r) ==
    holder' = r /\ spent' = 0 /\ reply' = reply

\* Under the lock: answer and leave, or start the loader.
Enter(r) ==
    IF Stale
      THEN holder' = r /\ spent' = 0 /\ reply' = reply
      ELSE reply' = [reply EXCEPT ![r] = data] /\ UNCHANGED <<holder, spent>>

AskHit(r) ==
    /\ r \notin Waiting
    /\ LooksFirst /\ ~Stale
    /\ reply' = [reply EXCEPT ![r] = data]
    /\ UNCHANGED <<kind, data, age, holder, spent, queue>>

\* A free lock without a queue is taken on the spot.
AskFree(r) ==
    /\ ~(LooksFirst /\ ~Stale)
    /\ holder = Nothing /\ queue = << >>
    /\ Enter(r)
    /\ UNCHANGED <<kind, data, age, queue>>

AskQueue(r) ==
    /\ r \notin Waiting
    /\ ~(LooksFirst /\ ~Stale)
    /\ holder # Nothing \/ queue # << >>
    /\ queue' = Append(queue, r)
    /\ UNCHANGED <<kind, data, age, holder, spent, reply>>

\* The lock was released: the first in the queue runs.
Woken ==
    /\ holder = Nothing /\ queue # << >>
    /\ Enter(Head(queue))
    /\ queue' = Tail(queue)
    /\ UNCHANGED <<kind, data, age>>

\* The loader returned.  pykrx and FinanceDataReader both down is an empty
\* list like any other, and so is an index download without rows.
Loaded(v) ==
    /\ holder # Nothing
    /\ data' = v /\ age' = (IF StampedEarly THEN spent ELSE 0)
    /\ reply' = [reply EXCEPT ![holder] = v]
    /\ holder' = Nothing
    /\ UNCHANGED <<kind, spent, queue>>

\* Mutant: a caller whose load failed goes back to the queue.
LoadRaisesRetried ==
    /\ holder # Nothing /\ kind # "kr"
    /\ queue' = Append(queue, holder)
    /\ holder' = Nothing
    /\ UNCHANGED <<kind, data, age, spent, reply>>

\* Mutant: the failure is kept in place of the list, for the next to find.
LoadRaisesKept ==
    /\ holder # Nothing /\ kind # "kr"
    /\ reply' = [reply EXCEPT ![holder] = Failure]
    /\ data' = Failure
    /\ holder' = Nothing
    /\ UNCHANGED <<kind, age, spent, queue>>

\* The loader raised; the Korean one never does.  The crypto search answers
\* without results, the index service with the quotes it has.
LoadRaises ==
    /\ holder # Nothing /\ kind # "kr"
    /\ reply' = [reply EXCEPT ![holder] =
                    IF kind = "index" /\ data # Nothing THEN data ELSE Failure]
    /\ holder' = Nothing
    /\ UNCHANGED <<kind, data, age, spent, queue>>

\* Time passes; past TTL it makes no difference.
Tick ==
    /\ age < TTL \/ spent < TTL
    /\ age' = (IF age < TTL THEN age + 1 ELSE age)
    /\ spent' = (IF spent < TTL THEN spent + 1 ELSE spent)
    /\ UNCHANGED <<kind, data, holder, queue, reply>>

Ask(r) == AskHit(r) \/ AskFree(r) \/ AskQueue(r)

LoadEnds == LoadRaises \/ \E v \in Values : Loaded(v)

Next == (\E r \in Callers : Ask(r)) \/ Woken \/ LoadEnds \/ Tick

\* The event loop runs what is ready.  That a loader ends is assumed of the
\* libraries behind it: the code sets no time limit.
Fairness == WF_vars(Woken) /\ WF_vars(LoadEnds)

Spec == Init /\ [][Next]_vars /\ Fairness

-----------------------------------------------------------------------------
TypeOK ==
    /\ kind \in Kinds
    /\ data \in Values \cup {Nothing}
    /\ age \in 0 .. TTL /\ spent \in 0 .. TTL
    /\ holder \in Callers \cup {Nothing}
    /\ queue \in Seq(Callers)
    /\ reply \in [Callers -> Values \cup {Nothing, Failure}]

SF == INSTANCE SingleFlight
        WITH kept <- data, fresh <- ~Stale, loading <- holder, asked <- Waiting

\* The lock, the look before and under it, and the stamps amount to the
\* promise of SingleFlight (_symbol_cache.py:18-22, "single-flight"): one
\* load at a time, none while the list is fresh, no answer that was not
\* fresh or loaded for its caller.
ImplementsSingleFlight == SF!Spec

\* Every search that waits for the list is answered, though every load may
\* fail and the list may expire before the next in the queue looks at it.
SearchAnswered == \A r \in Callers : r \in Waiting ~> r \notin Waiting
=============================================================================
