------------------------- MODULE PriceHistoryProofs -------------------------
(***************************************************************************)
(* Whatever jobs, back-fills, stops and midnights overlap: the cached      *)
(* price is the newest tick's, a back-fill leaves no hole, and no row is   *)
(* held by two transactions.                                               *)
(*                                                                         *)
(* A job's rows carry the day it started on, so midnight may pass before   *)
(* they are committed; the invariant says that no tick is newer than the   *)
(* job that runs.  A back-fill's rows are, symbol by symbol, a stretch of  *)
(* days from the day before the first trade, which ends where the table    *)
(* it read began, and the table only grows.                                *)
(***************************************************************************)
EXTENDS PriceHistory, DataInduction

\* The rows of the job: one per symbol, of the day it started on.
JobRows ==
    job # Idle =>
       LET rows == job.todo \cup job.pend IN
       /\ \A r \in rows : r.by = "tick" /\ r.day = job.day /\ r.price \in Prices
       /\ \A r, q \in rows : r.sym = q.sym => r = q
       /\ job.phase = "fetch" => rows = {}

NoTickAfterJob == job # Idle => \A s \in Symbols : \A d \in Ticks(s) : d <= job.day

\* From the day before the first trade to every row, and up to the oldest
\* row of the table, no day is missing.
Unbroken(rows, oldest) ==
    \A r \in rows :
       /\ FirstTrade[r.sym] - 1 .. r.day \subseteq Days(rows, r.sym)
       /\ oldest[r.sym] # Never =>
             FirstTrade[r.sym] - 1 .. oldest[r.sym] - 1 \subseteq Days(rows, r.sym)

FillRowsWhole ==
    \A f \in Fillers : fill[f] # Idle =>
       /\ \A r \in fill[f].todo \cup fill[f].pend : r.by = "fill"
       /\ \A r, q \in fill[f].todo : r.sym = q.sym
       /\ Unbroken(fill[f].todo, fill[f].oldest) /\ Unbroken(fill[f].pend, fill[f].oldest)

\* The oldest row a back-fill read is there still.
OldestStays ==
    \A f \in Fillers : fill[f] # Idle =>
       \A s \in Symbols : fill[f].oldest[s] # Never => fill[f].oldest[s] \in DOMAIN points[s]

IInv ==
    /\ TypeOK /\ CacheIsNewestTick
    /\ JobRows /\ NoTickAfterJob /\ FillRowsWhole /\ OldestStays

-----------------------------------------------------------------------------
(***************************************************************************)
(* Transactions and the rows they hold.                                    *)
(***************************************************************************)
LEMMA Running ==
  /\ Idle.phase = "idle"
  /\ \A t \in Jobs : t # Idle /\ t.phase # "idle"
  /\ \A t \in Fills : t # Idle /\ t.phase # "idle"
  <1>1. Idle.phase = "idle"
    BY DEF Idle
  <1>2. \A t \in Jobs : t.phase \in {"fetch", "write"}
    BY DEF Jobs
  <1>3. \A t \in Fills : t.phase \in {"fetch", "write"}
    BY DEF Fills
  <1> QED BY <1>1, <1>2, <1>3

LEMMA WhoWorks ==
  /\ "job" \in Owners /\ Work("job") = job
  /\ \A f \in Fillers : f \in Owners /\ f # "job" /\ Work(f) = fill[f]
  BY PriceHistoryAssumption DEF Owners, Work

\* One owner takes rows that nobody else holds, or lets some go.
LEMMA OneOwner ==
  ASSUME HeldOnce, NEW o \in Owners, NEW K, K \cap HeldAgainst(o) = {},
         Locked(Work(o))' \subseteq Locked(Work(o)) \cup K,
         \A p \in Owners : p # o => Locked(Work(p))' = Locked(Work(p))
  PROVE  HeldOnce'
  <1>1. ASSUME NEW p \in Owners, p # o PROVE Locked(Work(o))' \cap Locked(Work(p))' = {}
    <2>1. Locked(Work(p)) \subseteq HeldAgainst(o)
      BY <1>1 DEF HeldAgainst
    <2>2. Locked(Work(o)) \cap Locked(Work(p)) = {}
      BY <1>1 DEF HeldOnce
    <2> QED BY <1>1, <2>1, <2>2
  <1>2. ASSUME NEW p \in Owners, NEW q \in Owners, p # q
        PROVE  Locked(Work(p))' \cap Locked(Work(q))' = {}
    <2>1. CASE p = o \/ q = o
      BY <1>1, <1>2, <2>1
    <2>2. CASE p # o /\ q # o
      BY <1>2, <2>2 DEF HeldOnce
    <2> QED BY <2>1, <2>2
  <1> QED BY <1>2 DEF HeldOnce

LEMMA KeysOfUnion == \A A, B : Keys(A \cup B) = Keys(A) \cup Keys(B)
  BY DEF Keys

\* The table after a commit.
LEMMA UpsertedFacts ==
  ASSUME NEW rows, NEW s \in Symbols
  PROVE  /\ DOMAIN Upserted(rows)[s] = DOMAIN points[s] \cup Days(rows, s)
         /\ \A d \in Days(rows, s) : \E r \in rows :
               /\ r.sym = s /\ r.day = d
               /\ Upserted(rows)[s][d] = [price |-> r.price, by |-> r.by]
         /\ \A d \in DOMAIN points[s] \ Days(rows, s) : Upserted(rows)[s][d] = points[s][d]
  <1> DEFINE row(d) == CHOOSE r \in rows : r.sym = s /\ r.day = d
  <1>1. Upserted(rows)[s] = [d \in DOMAIN points[s] \cup Days(rows, s) |->
               IF d \in Days(rows, s) THEN [price |-> row(d).price, by |-> row(d).by]
               ELSE points[s][d]]
    BY DEF Upserted
  <1>2. ASSUME NEW d \in Days(rows, s) PROVE row(d) \in rows /\ row(d).sym = s /\ row(d).day = d
    <2>1. \E r \in rows : r.sym = s /\ r.day = d
      BY DEF Days
    <2> QED BY <2>1
  <1> HIDE DEF row
  <1> QED BY <1>1, <1>2

-----------------------------------------------------------------------------
(***************************************************************************)
(* The invariant.                                                          *)
(***************************************************************************)
LEMMA InitInv == Init => IInv
  <1> SUFFICES ASSUME Init PROVE IInv
    OBVIOUS
  <1> USE PriceHistoryAssumption
  <1>1. Min(Prices) \in Prices
    <2>1. \E m \in Prices : \A k \in Prices : m <= k
      BY SmallestMember
    <2> QED BY <2>1 DEF Min
  <1>2. \A s \in Symbols : DOMAIN points[s] = {}
    BY DEF Init
  <1>3. \A s \in Symbols : Ticks(s) = {}
    BY <1>2 DEF Ticks
  <1>4. job = Idle /\ \A f \in Fillers : fill[f] = Idle
    BY DEF Init
  <1>5. HeldOnce
    BY <1>4, WhoWorks DEF HeldOnce, Owners, Locked
  <1>6. TypeOK
    BY <1>1, <1>2, <1>5 DEF Init, TypeOK
  <1> QED BY <1>3, <1>4, <1>6
          DEF IInv, CacheIsNewestTick, JobRows, NoTickAfterJob, FillRowsWhole, OldestStays

\* The clock alone moves: what was well-typed stays so.
LEMMA Later ==
  ASSUME TypeOK, today' \in {today, today + 1}, today' <= LastDay
  PROVE  /\ Rows \subseteq Rows' /\ Jobs \subseteq Jobs' /\ Fills \subseteq Fills'
         /\ today' \in 1 .. LastDay
  <1>1. /\ today \in Nat /\ today' \in 1 .. LastDay
        /\ 0 .. today \subseteq 0 .. today' /\ 1 .. today \subseteq 1 .. today'
    BY PriceHistoryAssumption DEF TypeOK
  <1>2. Rows \subseteq Rows'
    BY <1>1 DEF Rows
  <1>3. Jobs \subseteq Jobs'
    BY <1>1, <1>2 DEF Jobs
  <1>4. Fills \subseteq Fills'
    BY <1>2 DEF Fills
  <1> QED BY <1>1, <1>2, <1>3, <1>4

LEMMA AroundInv ==
  ASSUME IInv, UNCHANGED <<points, cached, job, fill>>,
         up' \in BOOLEAN, market' \in [Symbols -> Prices], answers' \in [Symbols -> BOOLEAN],
         today' \in {today, today + 1}, today' <= LastDay
  PROVE  IInv'
  <1> USE DEF IInv
  <1>1. HeldOnce'
    BY ZenonT(40) DEF TypeOK, HeldOnce, Work, Locked
  <1>2. /\ Jobs \subseteq Jobs' /\ Fills \subseteq Fills' /\ today' \in 1 .. LastDay
        /\ 0 .. today \subseteq 0 .. today'
    BY Later, PriceHistoryAssumption DEF TypeOK
  <1>3. TypeOK'
    BY <1>1, <1>2 DEF TypeOK
  <1>4. \A s \in Symbols : Ticks(s)' = Ticks(s)
    BY DEF Ticks
  <1>5. CacheIsNewestTick'
    BY <1>4 DEF CacheIsNewestTick
  <1>6. NoTickAfterJob'
    BY <1>4 DEF NoTickAfterJob
  <1>7. JobRows' /\ FillRowsWhole' /\ OldestStays'
    BY DEF JobRows, FillRowsWhole, OldestStays, Unbroken
  <1> QED BY <1>3, <1>5, <1>6, <1>7

LEMMA StopInv == ASSUME IInv, Stop PROVE IInv'
  <1> USE DEF IInv
  <1>1. job' = Idle /\ \A f \in Fillers : fill'[f] = Idle
    BY DEF Stop
  <1>2. HeldOnce'
    BY <1>1, PriceHistoryAssumption DEF HeldOnce, Owners, Locked, Work
  <1>3. TypeOK'
    BY <1>2 DEF TypeOK, Stop
  <1>4. CacheIsNewestTick'
    BY DEF CacheIsNewestTick, Ticks, Stop
  <1>5. JobRows' /\ NoTickAfterJob' /\ FillRowsWhole' /\ OldestStays'
    BY <1>1 DEF JobRows, NoTickAfterJob, FillRowsWhole, OldestStays
  <1> QED BY <1>3, <1>4, <1>5

\* A step of the job that leaves the tables alone.
LEMMA JobStep ==
  ASSUME IInv, UNCHANGED <<up, today, market, answers, points, cached, fill>>,
         job' \in {Idle} \cup Jobs, JobRows', NoTickAfterJob',
         NEW K, K \cap HeldAgainst("job") = {}, Locked(job)' \subseteq Locked(job) \cup K
  PROVE  IInv'
  <1> USE DEF IInv
  <1>1. HeldOnce'
    <2>1. \A p \in Owners : p # "job" => Work(p)' = Work(p)
      BY DEF Work
    <2>2. Work("job") = job /\ Work("job")' = job' /\ "job" \in Owners
      BY DEF Work, Owners
    <2>3. Locked(Work("job"))' \subseteq Locked(Work("job")) \cup K
      BY <2>2 DEF Locked
    <2>4. \A p \in Owners : p # "job" => Locked(Work(p))' = Locked(Work(p))
      BY <2>1 DEF Locked
    <2> QED BY <2>2, <2>3, <2>4, OneOwner DEF TypeOK
  <1>2. TypeOK'
    BY <1>1 DEF TypeOK, Jobs, Fills, Rows
  <1>3. CacheIsNewestTick' /\ FillRowsWhole' /\ OldestStays'
    BY DEF CacheIsNewestTick, Ticks, FillRowsWhole, Unbroken, OldestStays
  <1> QED BY <1>2, <1>3

LEMMA JobTickInv == ASSUME IInv, JobTick PROVE IInv'
  <1>1. job' = [phase |-> "fetch", day |-> today, todo |-> {}, pend |-> {}]
    BY DEF JobTick
  <1>2. today \in 1 .. LastDay /\ today \in 1 .. today
    BY PriceHistoryAssumption DEF IInv, TypeOK
  <1>3. job' \in Jobs
    BY <1>1, <1>2 DEF Jobs
  <1>4. Locked(job)' = {}
    BY <1>1 DEF Locked, Keys
  <1>5. JobRows'
    BY <1>1 DEF JobRows
  <1>6. NoTickAfterJob'
    <2>1. \A s \in Symbols : \A d \in Ticks(s) : d \in 0 .. today
      BY DEF IInv, TypeOK, Ticks
    <2>2. \A s \in Symbols : Ticks(s)' = Ticks(s)
      BY DEF JobTick, Ticks
    <2> QED BY <1>1, <1>2, <2>1, <2>2 DEF NoTickAfterJob
  <1> QED BY <1>3, <1>4, <1>5, <1>6, JobStep DEF JobTick

LEMMA QuotedType == Quoted \subseteq Symbols
  BY DEF Quoted, Fetched, OfKind

LEMMA JobFetchInv == ASSUME IInv, JobFetch PROVE IInv'
  <1> DEFINE rows == {Row(s, job.day, market[s], "tick") : s \in Quoted}
  <1>1. job \in Jobs /\ today \in 1 .. LastDay
    BY Running DEF IInv, TypeOK, JobFetch
  <1>2. job' = [job EXCEPT !.phase = "write", !.todo = rows]
    BY DEF JobFetch
  <1>3. rows \subseteq Rows /\ \A r \in rows : r.price \in Prices
    <2>1. job.day \in 0 .. today
      BY <1>1 DEF Jobs
    <2>2. \A s \in Quoted : s \in Symbols /\ market[s] \in Prices
      BY QuotedType DEF IInv, TypeOK
    <2> QED BY <2>1, <2>2 DEF Row, Rows
  <1>4. /\ \A r \in rows : r.by = "tick" /\ r.day = job.day
        /\ \A r, q \in rows : r.sym = q.sym => r = q
    BY DEF Row
  <1> HIDE DEF rows
  <1>5. /\ job' \in Jobs /\ job'.pend = job.pend /\ job'.todo = rows /\ job'.day = job.day
    BY <1>1, <1>2, <1>3 DEF Jobs
  <1>6. job # Idle /\ job' # Idle /\ job'.phase = "write"
    BY <1>1, <1>2, <1>5, Running DEF Jobs
  <1>7. job.pend = {}
    BY <1>6 DEF JobFetch, IInv, JobRows
  <1>8. JobRows'
    BY <1>3, <1>4, <1>5, <1>6, <1>7 DEF JobRows
  <1>9. NoTickAfterJob'
    BY <1>5, <1>6 DEF IInv, NoTickAfterJob, JobFetch, Ticks
  <1>10. Locked(job)' = Locked(job)
    BY <1>5, <1>6 DEF Locked
  <1>11. {} \cap HeldAgainst("job") = {} /\ Locked(job)' \subseteq Locked(job) \cup {}
    BY <1>10
  <1> QED BY <1>5, <1>8, <1>9, <1>11, JobStep DEF JobFetch

LEMMA JobWriteInv == ASSUME IInv, JobWrite PROVE IInv'
  <1> DEFINE new == Batch(job)
  <1>1. job \in Jobs /\ job # Idle
    BY Running DEF IInv, TypeOK, JobWrite
  <1>2. job' = [job EXCEPT !.todo = @ \ new, !.pend = @ \cup new]
    BY DEF JobWrite
  <1>3. new \subseteq job.todo
    BY DEF Batch
  <1>4. Keys(new) \cap HeldAgainst("job") = {}
    BY DEF JobWrite, Waits
  <1> HIDE DEF new
  <1>5. /\ job' \in Jobs /\ job'.pend = job.pend \cup new /\ job'.todo = job.todo \ new
        /\ job'.day = job.day /\ job'.phase = job.phase
    BY <1>1, <1>2, <1>3 DEF Jobs
  <1>6. job' # Idle /\ job.phase = "write"
    BY <1>5, Running DEF JobWrite
  <1>7. job'.todo \cup job'.pend = job.todo \cup job.pend
    BY <1>3, <1>5
  <1>8. JobRows'
    BY <1>1, <1>5, <1>6, <1>7 DEF IInv, JobRows
  <1>9. NoTickAfterJob'
    BY <1>1, <1>5 DEF IInv, NoTickAfterJob, JobWrite, Ticks
  <1>10. Locked(job)' \subseteq Locked(job) \cup Keys(new)
    BY <1>1, <1>5, <1>6, KeysOfUnion DEF Locked
  <1> QED BY <1>4, <1>5, <1>8, <1>9, <1>10, JobStep DEF JobWrite

LEMMA JobGivesUpInv == ASSUME IInv, JobGivesUp PROVE IInv'
  <1>1. job' = Idle
    BY DEF JobGivesUp
  <1>2. Locked(job)' = {} /\ JobRows' /\ NoTickAfterJob'
    BY <1>1 DEF Locked, JobRows, NoTickAfterJob
  <1> QED BY <1>1, <1>2, JobStep DEF JobGivesUp

\* What any commit keeps: the types and the oldest rows.
LEMMA CommitTypes ==
  ASSUME IInv, NEW rows \in SUBSET Rows, points' = Upserted(rows), today' = today
  PROVE  \A s \in Symbols :
            /\ DOMAIN points[s] \subseteq DOMAIN points'[s]
            /\ DOMAIN points'[s] \subseteq 0 .. today'
            /\ \A d \in DOMAIN points'[s] :
                   /\ points'[s][d].price \in Prices \cup {Close}
                   /\ points'[s][d].by \in {"tick", "fill"}
  <1> SUFFICES ASSUME NEW s \in Symbols
               PROVE  /\ DOMAIN points[s] \subseteq DOMAIN points'[s]
                      /\ DOMAIN points'[s] \subseteq 0 .. today'
                      /\ \A d \in DOMAIN points'[s] :
                             /\ points'[s][d].price \in Prices \cup {Close}
                             /\ points'[s][d].by \in {"tick", "fill"}
    OBVIOUS
  <1>1. /\ DOMAIN points'[s] = DOMAIN points[s] \cup Days(rows, s)
        /\ \A d \in Days(rows, s) : \E r \in rows :
               /\ r.sym = s /\ r.day = d
               /\ points'[s][d] = [price |-> r.price, by |-> r.by]
        /\ \A d \in DOMAIN points[s] \ Days(rows, s) : points'[s][d] = points[s][d]
    BY UpsertedFacts
  <1>2. Days(rows, s) \subseteq 0 .. today
    BY DEF Days, Rows
  <1>3. DOMAIN points[s] \subseteq 0 .. today
    BY DEF IInv, TypeOK
  <1>4. ASSUME NEW d \in DOMAIN points'[s]
        PROVE  /\ points'[s][d].price \in Prices \cup {Close}
               /\ points'[s][d].by \in {"tick", "fill"}
    <2>1. CASE d \in Days(rows, s)
      <3>1. PICK r \in rows : points'[s][d] = [price |-> r.price, by |-> r.by]
        BY <1>1, <2>1
      <3>2. r.price \in Prices \cup {Close} /\ r.by \in {"tick", "fill"}
        BY DEF Rows
      <3> QED BY <3>1, <3>2
    <2>2. CASE d \notin Days(rows, s)
      BY <1>1, <2>2 DEF IInv, TypeOK
    <2> QED BY <2>1, <2>2
  <1> QED BY <1>1, <1>2, <1>3, <1>4

\* The price of the rows goes to the cache and to the newest day at once.
LEMMA JobCommitInv == ASSUME IInv, JobCommit PROVE IInv'
  <1> DEFINE rows == job.pend
  <1>1. job \in Jobs /\ job # Idle /\ rows \in SUBSET Rows
    BY Running DEF IInv, TypeOK, JobCommit, Jobs
  <1>2. /\ \A r \in rows : r.by = "tick" /\ r.day = job.day /\ r.price \in Prices
        /\ \A r, q \in rows : r.sym = q.sym => r = q
    BY <1>1 DEF IInv, JobRows
  <1>3. /\ points' = Upserted(rows) /\ cached' = Cached(rows) /\ job' = Idle
        /\ UNCHANGED <<up, today, market, answers, fill>>
    BY DEF JobCommit
  <1>4. \A s \in Symbols : \A d \in Ticks(s) : d <= job.day /\ d \in 0 .. today
    BY <1>1 DEF IInv, NoTickAfterJob, TypeOK, Ticks
  <1>5. job.day \in 1 .. today /\ today \in Nat
    BY <1>1 DEF IInv, TypeOK, Jobs
  <1> HIDE DEF rows
  <1>6. \A s \in Symbols :
           /\ DOMAIN points[s] \subseteq DOMAIN points'[s]
           /\ DOMAIN points'[s] \subseteq 0 .. today'
           /\ \A d \in DOMAIN points'[s] :
                  /\ points'[s][d].price \in Prices \cup {Close}
                  /\ points'[s][d].by \in {"tick", "fill"}
    BY <1>1, <1>3, CommitTypes
  <1>7. ASSUME NEW s \in Symbols, NEW r \in rows, r.sym = s
        PROVE  cached'[s] = r.price
    <2>1. \E q \in rows : q.sym = s
      BY <1>7
    <2>2. (CHOOSE q \in rows : q.sym = s) = r
      BY <1>2, <1>7
    <2> QED BY <1>3, <2>1, <2>2 DEF Cached
  <1>8. ASSUME NEW s \in Symbols, \A r \in rows : r.sym # s
        PROVE  /\ cached'[s] = cached[s] /\ DOMAIN points'[s] = DOMAIN points[s]
               /\ \A d \in DOMAIN points[s] : points'[s][d] = points[s][d]
    <2>1. Days(rows, s) = {}
      BY <1>8 DEF Days
    <2>2. ~\E r \in rows : r.sym = s
      BY <1>8
    <2>3. cached'[s] = cached[s]
      BY <1>3, <2>2 DEF Cached
    <2> QED BY <1>3, <2>1, <2>3, UpsertedFacts, SMTT(20)
  <1>9. ASSUME NEW s \in Symbols, NEW r \in rows, r.sym = s
        PROVE  /\ job.day \in DOMAIN points'[s] /\ points'[s][job.day].price = r.price
               /\ \A d \in DOMAIN points'[s] : d # job.day =>
                     d \in DOMAIN points[s] /\ points'[s][d] = points[s][d]
    <2>1. Days(rows, s) = {job.day}
      BY <1>2, <1>9 DEF Days
    <2>2. PICK q \in rows : /\ q.sym = s
                            /\ points'[s][job.day] = [price |-> q.price, by |-> q.by]
      BY <1>3, <2>1, UpsertedFacts
    <2>3. q = r
      BY <1>2, <1>9, <2>2
    <2>4. /\ DOMAIN points'[s] = DOMAIN points[s] \cup {job.day}
          /\ \A d \in DOMAIN points[s] \ {job.day} : points'[s][d] = points[s][d]
      BY <1>3, <2>1, UpsertedFacts
    <2> QED BY <2>2, <2>3, <2>4
  <1>10. cached' \in [Symbols -> Prices \cup {Missing}]
    <2>1. \A s \in Symbols : cached'[s] \in Prices \cup {Missing}
      BY <1>2, <1>7, <1>8 DEF IInv, TypeOK
    <2>2. cached' = [s \in Symbols |-> cached'[s]]
      BY <1>3 DEF Cached
    <2> QED BY <2>1, <2>2
  <1>11. CacheIsNewestTick'
    <2> SUFFICES ASSUME NEW s \in Symbols
                 PROVE  /\ cached'[s] = Missing => Ticks(s)' = {}
                        /\ \A d \in Ticks(s)' :
                              (\A e \in DOMAIN points'[s] : e <= d) =>
                                  points'[s][d].price = cached'[s]
      BY DEF CacheIsNewestTick
    <2>1. CASE \A r \in rows : r.sym # s
      <3>1. /\ cached'[s] = cached[s] /\ DOMAIN points'[s] = DOMAIN points[s]
            /\ \A d \in DOMAIN points[s] : points'[s][d] = points[s][d]
        BY <1>8, <2>1
      <3>2. Ticks(s)' = Ticks(s)
        BY <3>1 DEF Ticks
      <3> QED BY <3>1, <3>2 DEF IInv, CacheIsNewestTick, Ticks
    <2>2. ASSUME NEW r \in rows, r.sym = s
          PROVE  /\ cached'[s] # Missing
                 /\ \A d \in Ticks(s)' :
                       (\A e \in DOMAIN points'[s] : e <= d) =>
                           points'[s][d].price = cached'[s]
      <3>1. cached'[s] = r.price /\ r.price # Missing
        BY <1>2, <1>7, <2>2, PriceHistoryAssumption DEF Missing
      <3>2. ASSUME NEW d \in Ticks(s)', d # job.day, \A e \in DOMAIN points'[s] : e <= d
            PROVE  FALSE
        <4>1. d \in Ticks(s) /\ job.day <= d
          BY <1>9, <2>2, <3>2 DEF Ticks
        <4> QED BY <1>4, <1>5, <3>2, <4>1
      <3> QED BY <1>9, <2>2, <3>1, <3>2
    <2> QED BY <2>1, <2>2
  <1>12. HeldOnce'
    <2>1. \A p \in Owners : p # "job" => Locked(Work(p))' = Locked(Work(p))
      BY <1>3 DEF Work, Locked
    <2>2. Locked(Work("job"))' = {} /\ "job" \in Owners
      BY <1>3 DEF Work, Owners, Locked
    <2>3. HeldOnce
      BY DEF IInv, TypeOK
    <2> QED BY <2>1, <2>2, <2>3, OneOwner
  <1>13. TypeOK'
    BY <1>3, <1>6, <1>10, <1>12 DEF IInv, TypeOK, Fills, Rows
  <1>14. JobRows' /\ NoTickAfterJob'
    BY <1>3 DEF JobRows, NoTickAfterJob
  <1>15. FillRowsWhole'
    BY <1>3 DEF IInv, FillRowsWhole, Unbroken
  <1>16. OldestStays'
    BY <1>3, <1>6 DEF IInv, OldestStays
  <1> QED BY <1>11, <1>13, <1>14, <1>15, <1>16 DEF IInv

\* What a running back-fill has to satisfy.
Sound(t) ==
    /\ \A r \in t.todo \cup t.pend : r.by = "fill"
    /\ \A r, q \in t.todo : r.sym = q.sym
    /\ Unbroken(t.todo, t.oldest) /\ Unbroken(t.pend, t.oldest)
    /\ \A s \in Symbols : t.oldest[s] # Never => t.oldest[s] \in DOMAIN points[s]

\* A step of a back-fill that leaves the tables alone.
LEMMA FillStep ==
  ASSUME IInv, UNCHANGED <<up, today, market, answers, points, cached, job>>,
         NEW f \in Fillers, NEW t \in {Idle} \cup Fills, fill' = [fill EXCEPT ![f] = t],
         t # Idle => Sound(t),
         NEW K, K \cap HeldAgainst(f) = {}, Locked(t) \subseteq Locked(fill[f]) \cup K
  PROVE  IInv'
  <1> USE DEF IInv
  <1>1. /\ fill' \in [Fillers -> {Idle} \cup Fills] /\ fill'[f] = t
        /\ \A g \in Fillers : g # f => fill'[g] = fill[g]
    BY DEF TypeOK
  <1>2. HeldOnce'
    <2>1. f \in Owners /\ f # "job" /\ Work(f) = fill[f] /\ Work(f)' = t
      BY <1>1, PriceHistoryAssumption DEF Work, Owners
    <2>2. \A p \in Owners : p # f => Work(p)' = Work(p)
      BY <1>1 DEF Work, Owners
    <2>3. Locked(Work(f))' = Locked(t) /\ Locked(Work(f)) = Locked(fill[f])
      BY <2>1 DEF Locked
    <2>4. \A p \in Owners : p # f => Locked(Work(p))' = Locked(Work(p))
      BY <2>2 DEF Locked
    <2> QED BY <2>1, <2>3, <2>4, OneOwner DEF TypeOK
  <1>3. TypeOK'
    BY <1>1, <1>2 DEF TypeOK, Jobs, Fills, Rows
  <1>4. CacheIsNewestTick' /\ JobRows' /\ NoTickAfterJob'
    BY DEF CacheIsNewestTick, Ticks, JobRows, NoTickAfterJob
  <1>5. ASSUME NEW g \in Fillers, fill'[g] # Idle
        PROVE  /\ \A r \in fill'[g].todo \cup fill'[g].pend : r.by = "fill"
               /\ \A r, q \in fill'[g].todo : r.sym = q.sym
               /\ Unbroken(fill'[g].todo, fill'[g].oldest) /\ Unbroken(fill'[g].pend, fill'[g].oldest)
               /\ \A s \in Symbols : fill'[g].oldest[s] # Never =>
                     fill'[g].oldest[s] \in DOMAIN points[s]
    <2>1. CASE g = f
      BY <1>1, <1>5, <2>1 DEF Sound
    <2>2. CASE g # f
      BY <1>1, <1>5, <2>2 DEF FillRowsWhole, OldestStays
    <2> QED BY <2>1, <2>2
  <1>6. FillRowsWhole'
    BY <1>5 DEF FillRowsWhole, Unbroken, Days
  <1>7. OldestStays'
    BY <1>5 DEF OldestStays
  <1> QED BY <1>3, <1>4, <1>6, <1>7

LEMMA FillStartInv == ASSUME IInv, NEW f \in Fillers, FillStart(f) PROVE IInv'
  <1> DEFINE old == [s \in Symbols |-> Min(DOMAIN points[s] \cup {Never})]
             t   == [phase |-> "fetch", left |-> Mapped, oldest |-> old,
                     todo |-> {}, pend |-> {}]
  <1>1. \A s \in Symbols : /\ old[s] \in 0 .. Never
                           /\ old[s] # Never => old[s] \in DOMAIN points[s]
    <2> SUFFICES ASSUME NEW s \in Symbols
                 PROVE  /\ old[s] \in 0 .. Never
                        /\ old[s] # Never => old[s] \in DOMAIN points[s]
      OBVIOUS
    <2> DEFINE S == DOMAIN points[s] \cup {Never}
    <2>1. S \subseteq 0 .. Never /\ S \subseteq Nat
      BY PriceHistoryAssumption DEF IInv, TypeOK, Never
    <2>2. \E m \in S : \A k \in S : m <= k
      <3> HIDE DEF S
      <3>1. S # {}
        BY DEF S
      <3> QED BY <2>1, <3>1, SmallestMember
    <2>3. Min(S) \in S
      BY <2>2 DEF Min
    <2> QED BY <2>1, <2>3
  <1>2. fill' = [fill EXCEPT ![f] = t]
    BY DEF FillStart
  <1>3. t \in Fills
    <2>1. old \in [Symbols -> 0 .. Never]
      BY <1>1
    <2> HIDE DEF old
    <2> QED BY <2>1, PriceHistoryAssumption DEF Fills
  <1>4. Sound(t)
    <2> HIDE DEF old
    <2> QED BY <1>1 DEF Sound, Unbroken
  <1>5. Locked(t) = {} /\ {} \cap HeldAgainst(f) = {}
    BY DEF Locked, Keys
  <1> HIDE DEF t
  <1>6. Locked(t) \subseteq Locked(fill[f]) \cup {}
    BY <1>5
  <1> QED BY <1>2, <1>3, <1>4, <1>5, <1>6, FillStep DEF FillStart

\* What is missing of a symbol, up to today, is a whole stretch.
LEMMA FillRowsFacts ==
  ASSUME IInv, NEW s \in Symbols, NEW oldest \in [Symbols -> 0 .. Never],
         oldest[s] # Never => oldest[s] \in DOMAIN points[s]
  PROVE  LET rows == FillRows(s, oldest[s])
         IN /\ rows \in SUBSET Rows /\ \A r \in rows : r.by = "fill" /\ r.sym = s
            /\ Unbroken(rows, oldest)
  <1> DEFINE rows == FillRows(s, oldest[s])
             from == FirstTrade[s] - 1
             span == {e \in from .. today : e < oldest[s]}
  <1>1. /\ from \in Nat /\ today \in Nat /\ oldest[s] \in Nat /\ Never \in Nat
        /\ market[s] \in Prices /\ today < Never
        /\ oldest[s] # Never => oldest[s] <= today
    BY PriceHistoryAssumption DEF IInv, TypeOK, Never
  <1>2. rows = {Row(s, d, IF d = today THEN market[s] ELSE Close, "fill") : d \in span}
    BY DEF FillRows
  <1>3. span \subseteq 0 .. today
    BY <1>1
  <1>4. rows \in SUBSET Rows /\ \A r \in rows : r.by = "fill" /\ r.sym = s /\ r.day \in span
    <2> HIDE DEF span
    <2> QED BY <1>1, <1>2, <1>3 DEF Row, Rows
  <1>5. Days(rows, s) = span
    <2> HIDE DEF span, rows
    <2>1. \A d \in span : \E r \in rows : r.sym = s /\ r.day = d
      <3>1. ASSUME NEW d \in span PROVE \E r \in rows : r.sym = s /\ r.day = d
        <4> DEFINE r == Row(s, d, IF d = today THEN market[s] ELSE Close, "fill")
        <4>1. r \in rows
          BY <1>2
        <4>2. r.sym = s /\ r.day = d
          BY DEF Row
        <4> QED BY <4>1, <4>2
      <3> QED BY <3>1
    <2> QED BY <1>4, <2>1 DEF Days
  <1>6. \A d \in span : from .. d \subseteq span
    BY <1>1
  <1>7. oldest[s] # Never => from .. oldest[s] - 1 \subseteq span
    BY <1>1
  <1> HIDE DEF rows, span
  <1>8. Unbroken(rows, oldest)
    BY <1>4, <1>5, <1>6, <1>7 DEF Unbroken
  <1> QED BY <1>4, <1>8 DEF rows

LEMMA FillFetchInv == ASSUME IInv, NEW f \in Fillers, FillFetch(f) PROVE IInv'
  <1>1. fill[f] \in Fills /\ fill[f] # Idle
    BY Running DEF IInv, TypeOK, FillFetch
  <1>0. PICK s \in fill[f].left :
          LET rows == IF answers[s] THEN FillRows(s, fill[f].oldest[s]) ELSE {}
          IN fill' = [fill EXCEPT ![f].left = @ \ {s}, ![f].todo = rows,
                                 ![f].phase = IF rows = {} THEN "fetch" ELSE "write"]
    BY DEF FillFetch
  <1> DEFINE rows == IF answers[s] THEN FillRows(s, fill[f].oldest[s]) ELSE {}
  <1>2. /\ rows = (IF answers[s] THEN FillRows(s, fill[f].oldest[s]) ELSE {})
        /\ fill' = [fill EXCEPT ![f].left = @ \ {s}, ![f].todo = rows,
                               ![f].phase = IF rows = {} THEN "fetch" ELSE "write"]
    BY <1>0
  <1> HIDE DEF rows
  <1>3. s \in Symbols /\ fill[f].oldest \in [Symbols -> 0 .. Never]
    BY <1>1 DEF Fills
  <1>4. /\ rows \in SUBSET Rows /\ \A r \in rows : r.by = "fill" /\ r.sym = s
        /\ Unbroken(rows, fill[f].oldest)
    <2>1. fill[f].oldest[s] # Never => fill[f].oldest[s] \in DOMAIN points[s]
      BY <1>1, <1>3 DEF IInv, OldestStays
    <2>2. CASE answers[s]
      BY <1>2, <1>3, <2>1, <2>2, FillRowsFacts
    <2>3. CASE ~answers[s]
      BY <1>2, <2>3 DEF Unbroken
    <2> QED BY <2>2, <2>3
  <1> DEFINE t == [fill[f] EXCEPT !.left = @ \ {s}, !.todo = rows,
                                  !.phase = IF rows = {} THEN "fetch" ELSE "write"]
  <1>5. fill' = [fill EXCEPT ![f] = t]
    BY <1>2
  <1>6. t \in Fills /\ t.todo = rows /\ t.pend = fill[f].pend /\ t.oldest = fill[f].oldest
    BY <1>1, <1>4 DEF Fills
  <1> HIDE DEF t
  <1>7. Sound(t)
    BY <1>1, <1>4, <1>6 DEF Sound, IInv, FillRowsWhole, OldestStays
  <1>8. Locked(t) = Locked(fill[f])
    BY <1>1, <1>6, Running DEF Locked
  <1>9. {} \cap HeldAgainst(f) = {} /\ Locked(t) \subseteq Locked(fill[f]) \cup {}
    BY <1>8
  <1> QED BY <1>5, <1>6, <1>7, <1>9, FillStep DEF FillFetch

LEMMA FillWriteInv == ASSUME IInv, NEW f \in Fillers, FillWrite(f) PROVE IInv'
  <1> DEFINE t == [fill[f] EXCEPT !.phase = "fetch", !.todo = {},
                                  !.pend = @ \cup fill[f].todo]
  <1>1. fill[f] \in Fills /\ fill[f] # Idle
    BY Running DEF IInv, TypeOK, FillWrite
  <1>2. fill' = [fill EXCEPT ![f] = t]
    BY DEF FillWrite
  <1>3. /\ t \in Fills /\ t.todo = {} /\ t.pend = fill[f].pend \cup fill[f].todo
        /\ t.oldest = fill[f].oldest
    BY <1>1 DEF Fills
  <1> HIDE DEF t
  <1>4. Sound(t)
    <2>1. Unbroken(t.pend, t.oldest)
      BY <1>1, <1>3 DEF IInv, FillRowsWhole, Unbroken, Days
    <2>2. Unbroken(t.todo, t.oldest)
      BY <1>3 DEF Unbroken
    <2> QED BY <1>1, <1>3, <2>1, <2>2 DEF Sound, IInv, FillRowsWhole, OldestStays
  <1>5. Batch(fill[f]) = fill[f].todo
    <2>1. \A r \in fill[f].todo : Id[r.sym] \in Nat
      BY <1>1, PriceHistoryAssumption DEF Fills, Rows
    <2>2. \A r, q \in fill[f].todo : Id[r.sym] <= Id[q.sym]
      BY <1>1, <2>1 DEF IInv, FillRowsWhole
    <2> QED BY <2>2 DEF Batch
  <1>6. Keys(fill[f].todo) \cap HeldAgainst(f) = {}
    BY <1>5 DEF FillWrite, Waits
  <1>7. Locked(t) \subseteq Locked(fill[f]) \cup Keys(fill[f].todo)
    BY <1>1, <1>3, Running, KeysOfUnion DEF Locked
  <1> QED BY <1>2, <1>3, <1>4, <1>6, <1>7, FillStep DEF FillWrite

LEMMA FillGivesUpInv == ASSUME IInv, NEW f \in Fillers, FillGivesUp(f) PROVE IInv'
  <1>1. fill' = [fill EXCEPT ![f] = Idle]
    BY DEF FillGivesUp
  <1>2. {} \cap HeldAgainst(f) = {} /\ Locked(Idle) \subseteq Locked(fill[f]) \cup {}
    BY DEF Locked
  <1> QED BY <1>1, <1>2, FillStep DEF FillGivesUp

\* A back-fill may replace a tick; the newest row is no tick's then.
LEMMA FillCommitInv == ASSUME IInv, NEW f \in Fillers, FillCommit(f) PROVE IInv'
  <1> DEFINE rows == fill[f].pend
  <1>1. /\ fill[f] \in Fills /\ fill[f] # Idle /\ rows \in SUBSET Rows
        /\ \A r \in rows : r.by = "fill"
    BY Running DEF IInv, TypeOK, FillCommit, Fills, FillRowsWhole
  <1>2. /\ points' = Upserted(rows) /\ fill' = [fill EXCEPT ![f] = Idle]
        /\ UNCHANGED <<up, today, market, answers, cached, job>>
    BY DEF FillCommit
  <1> HIDE DEF rows
  <1>3. \A s \in Symbols :
           /\ DOMAIN points[s] \subseteq DOMAIN points'[s]
           /\ DOMAIN points'[s] \subseteq 0 .. today'
           /\ \A d \in DOMAIN points'[s] :
                  /\ points'[s][d].price \in Prices \cup {Close}
                  /\ points'[s][d].by \in {"tick", "fill"}
    BY <1>1, <1>2, CommitTypes
  <1>4. /\ fill' \in [Fillers -> {Idle} \cup Fills] /\ fill'[f] = Idle
        /\ \A g \in Fillers : g # f => fill'[g] = fill[g]
    BY <1>2 DEF IInv, TypeOK
  <1>5. HeldOnce'
    <2>1. f \in Owners /\ f # "job" /\ Work(f)' = Idle
      BY <1>4, PriceHistoryAssumption DEF Work, Owners
    <2>2. \A p \in Owners : p # f => Locked(Work(p))' = Locked(Work(p))
      BY <1>2, <1>4 DEF Work, Owners, Locked
    <2>3. Locked(Work(f))' = {}
      BY <2>1 DEF Locked
    <2>4. HeldOnce /\ {} \cap HeldAgainst(f) = {} /\ Locked(Work(f))' \subseteq Locked(Work(f)) \cup {}
      BY <2>3 DEF IInv, TypeOK
    <2> QED BY <2>1, <2>2, <2>4, OneOwner
  <1>6. TypeOK'
    BY <1>2, <1>3, <1>4, <1>5 DEF IInv, TypeOK, Jobs, Fills, Rows
  <1>7. ASSUME NEW s \in Symbols, NEW d \in Ticks(s)'
        PROVE  d \in Ticks(s) /\ points'[s][d] = points[s][d]
    <2>1. d \in DOMAIN points'[s] /\ points'[s][d].by = "tick"
      BY DEF Ticks
    <2>2. d \notin Days(rows, s)
      <3> SUFFICES ASSUME d \in Days(rows, s) PROVE FALSE
        OBVIOUS
      <3>1. PICK r \in rows : points'[s][d] = [price |-> r.price, by |-> r.by]
        BY <1>2, UpsertedFacts
      <3> QED BY <1>1, <2>1, <3>1
    <2> QED BY <1>2, <2>1, <2>2, UpsertedFacts DEF Ticks
  <1>8. CacheIsNewestTick'
    <2> SUFFICES ASSUME NEW s \in Symbols
                 PROVE  /\ cached'[s] = Missing => Ticks(s)' = {}
                        /\ \A d \in Ticks(s)' :
                              (\A e \in DOMAIN points'[s] : e <= d) =>
                                  points'[s][d].price = cached'[s]
      BY DEF CacheIsNewestTick
    <2>1. cached'[s] = Missing => Ticks(s)' = {}
      BY <1>2, <1>7 DEF IInv, CacheIsNewestTick
    <2>2. ASSUME NEW d \in Ticks(s)', \A e \in DOMAIN points'[s] : e <= d
          PROVE  points'[s][d].price = cached'[s]
      <3>1. \A e \in DOMAIN points[s] : e <= d
        BY <1>3, <2>2
      <3> QED BY <1>2, <1>7, <3>1 DEF IInv, CacheIsNewestTick
    <2> QED BY <2>1, <2>2
  <1>9. JobRows'
    BY <1>2 DEF IInv, JobRows
  <1>10. NoTickAfterJob'
    BY <1>2, <1>7 DEF IInv, NoTickAfterJob
  <1>11. FillRowsWhole'
    BY <1>4 DEF IInv, FillRowsWhole, Unbroken, Days
  <1>12. OldestStays'
    BY <1>3, <1>4 DEF IInv, OldestStays
  <1> QED BY <1>6, <1>8, <1>9, <1>10, <1>11, <1>12 DEF IInv

LEMMA NextInv == IInv /\ [Next]_vars => IInv'
  <1> SUFFICES ASSUME IInv, [Next]_vars PROVE IInv'
    OBVIOUS
  <1>0. today \in 1 .. LastDay /\ today <= LastDay /\ up \in BOOLEAN
        /\ market \in [Symbols -> Prices] /\ answers \in [Symbols -> BOOLEAN]
    BY PriceHistoryAssumption DEF IInv, TypeOK
  <1>1. CASE Job
    BY <1>1, JobTickInv, JobFetchInv, JobWriteInv, JobCommitInv, JobGivesUpInv DEF Job
  <1>2. ASSUME NEW f \in Fillers, Fill(f) PROVE IInv'
    BY <1>2, FillStartInv, FillFetchInv, FillWriteInv, FillCommitInv, FillGivesUpInv DEF Fill
  <1>3. CASE Stop
    BY <1>3, StopInv
  <1>4. CASE Start
    BY <1>0, <1>4, AroundInv DEF Start
  <1>5. CASE NextDay
    BY <1>0, <1>5, PriceHistoryAssumption, AroundInv DEF NextDay
  <1>6. ASSUME NEW s \in Moving, NEW p \in Prices, Moves(s, p) PROVE IInv'
    BY <1>0, <1>6, AroundInv DEF Moves
  <1>7. ASSUME NEW s \in Flaky, Fails(s) PROVE IInv'
    <2>1. s \in Symbols /\ (~answers[s]) \in BOOLEAN
      BY PriceHistoryAssumption
    <2>2. answers' \in [Symbols -> BOOLEAN]
      BY <1>0, <1>7, <2>1 DEF Fails
    <2> QED BY <1>0, <1>7, <2>2, AroundInv DEF Fails
  <1>8. CASE UNCHANGED vars
    BY <1>0, <1>8, AroundInv DEF vars
  <1> QED BY <1>1, <1>2, <1>3, <1>4, <1>5, <1>6, <1>7, <1>8 DEF Next

\* In every reachable state, also after stops and midnights, the job's rows
\* are the newest ticks and the back-fills' rows are whole
\* (services/price_refresh.py:141-185, services/price_history_backfill.py:116-218).
THEOREM Invariance == Spec => []IInv
  BY InitInv, NextInv, PTL DEF Spec

\* The tables and transactions are well-typed and no row is held twice.
THEOREM PricesTypeCorrect == Spec => []TypeOK
  <1>1. IInv => TypeOK
    BY DEF IInv
  <1> QED BY <1>1, Invariance, PTL

\* The cached price is that of the newest tick, for any symbols, days and
\* number of back-fills (repositories/asset_symbol.py:230-254).
THEOREM CacheStaysNewestTick == Spec => []CacheIsNewestTick
  <1>1. IInv => CacheIsNewestTick
    BY DEF IInv
  <1> QED BY <1>1, Invariance, PTL

\* The step in which a back-fill ends with rows written is its commit.
LEMMA CommitCovers ==
  ASSUME IInv, [Next]_vars, NEW f \in Fillers, fill[f] # Idle, fill'[f] = Idle,
         points' # points, NEW r \in fill[f].pend
  PROVE  LET from   == FirstTrade[r.sym] - 1
             oldest == fill[f].oldest[r.sym]
         IN /\ from .. r.day \subseteq DOMAIN points'[r.sym]
            /\ oldest # Never => from .. oldest \subseteq DOMAIN points'[r.sym]
  <1> DEFINE from   == FirstTrade[r.sym] - 1
             oldest == fill[f].oldest[r.sym]
             rows   == fill[f].pend
  <1>1. FillCommit(f)
    <2>1. ASSUME NEW g \in Fillers, g # f, FillCommit(g) PROVE FALSE
      BY <2>1 DEF FillCommit, IInv, TypeOK
    <2> QED BY <2>1 DEF Next, vars, Job, JobTick, JobFetch, JobWrite, JobCommit, JobGivesUp, Fill,
                    FillStart, FillFetch, FillWrite, FillGivesUp, Stop, Start, NextDay, Moves, Fails
  <1>2. fill[f] \in Fills /\ rows \in SUBSET Rows /\ r.sym \in Symbols
    BY DEF IInv, TypeOK, Fills, Rows
  <1>3. DOMAIN points'[r.sym] = DOMAIN points[r.sym] \cup Days(rows, r.sym)
    BY <1>1, <1>2, UpsertedFacts DEF FillCommit
  <1>4. /\ from .. r.day \subseteq Days(rows, r.sym)
        /\ oldest # Never => /\ from .. oldest - 1 \subseteq Days(rows, r.sym)
                             /\ oldest \in DOMAIN points[r.sym]
    BY <1>2 DEF IInv, FillRowsWhole, OldestStays, Unbroken
  <1>5. oldest \in Nat /\ from \in Nat
    BY <1>2, PriceHistoryAssumption DEF Fills
  <1> HIDE DEF from, oldest, rows
  <1>6. oldest # Never => from .. oldest \subseteq DOMAIN points'[r.sym]
    BY <1>3, <1>4, <1>5
  <1> QED BY <1>3, <1>4, <1>6 DEF from, oldest

\* A back-fill covers the days from the one before the first trade to the
\* last it wrote and to the oldest it knew, whatever else was committed
\* (services/price_history_backfill.py:164-218).
THEOREM FillsCover == Spec => FillCovers
  <1>1. IInv /\ [Next]_vars =>
          [\A f \in Fillers :
             fill[f] # Idle /\ fill'[f] = Idle /\ points' # points =>
                 \A r \in fill[f].pend :
                     LET from   == FirstTrade[r.sym] - 1
                         oldest == fill[f].oldest[r.sym]
                     IN /\ from .. r.day \subseteq DOMAIN points'[r.sym]
                        /\ oldest # Never => from .. oldest \subseteq DOMAIN points'[r.sym]]_vars
    BY CommitCovers
  <1> QED BY <1>1, Invariance, PTL DEF Spec, FillCovers
=============================================================================
