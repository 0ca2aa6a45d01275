-------------------------- MODULE FxRefreshProofs ---------------------------
(***************************************************************************)
(* The rate of now and the newest snapshot are the same, but for a pair    *)
(* whose look-up failed alone, for any currencies and any number of        *)
(* failures.                                                               *)
(*                                                                         *)
(* The inductive invariant says what a session that can still commit has   *)
(* pending: the snapshots of its rates, but for the pair between its two   *)
(* statements and those whose look-up failed.                              *)
(***************************************************************************)
EXTENDS FxRefresh, DataInduction

AtWork == job.phase \in {"upsert", "snapshot"}

\* An answer is at hand, and a snapshot follows a quote.
AnswerAtHand ==
    /\ AtWork => job.value \in Rates
    /\ job.phase = "snapshot" => job.got # << >>

\* A pair's rate has its snapshot.
Paired(p) ==
    /\ p \in DOMAIN job.rates <=> p \in DOMAIN job.snaps
    /\ p \in DOMAIN job.rates => job.rates[p] = job.snaps[p]

\* The pair between its two statements.
Between == IF job.phase = "snapshot" THEN {Head(job.got)} ELSE {}

PendingAgree ==
    job.dead = FALSE =>
        /\ \A p \in Between : p \in DOMAIN job.rates /\ job.rates[p] = job.value
        /\ \A p \in Pairs : p \in Between \cup job.lost \/ Paired(p)

IInv == TypeOK /\ AnswerAtHand /\ PendingAgree /\ RateIsNewestSnapshot

-----------------------------------------------------------------------------
(***************************************************************************)
(* Operators.                                                              *)
(***************************************************************************)
LEMMA Constants ==
  /\ Bases \in Seq(Currencies) /\ MaxMoves \in Nat /\ MaxFaults \in Nat
  /\ Absent = MaxMoves + 1
  <1>1. Bases \in Seq(STRING) /\ MaxMoves \in Nat /\ MaxFaults \in Nat
    BY FxRefreshAssumption
  <1>2. Bases \in Seq(Currencies)
    BY <1>1, ElementsOf DEF Currencies
  <1> QED BY <1>1, <1>2 DEF Absent

LEMMA RateTypes ==
  ASSUME market \in 0 .. MaxMoves
  PROVE  Rates \subseteq Int /\ Absent \notin Rates /\ market \in Rates /\ \A v \in Rates : v <= market
  BY Constants DEF Rates

LEMMA PutFacts ==
  ASSUME NEW f \in Rows, NEW p \in Pairs, NEW v \in Rates
  PROVE  /\ Put(f, p, v) \in Rows /\ DOMAIN Put(f, p, v) = DOMAIN f \cup {p}
         /\ \A q \in DOMAIN Put(f, p, v) : q # p => q \in DOMAIN f /\ Put(f, p, v)[q] = f[q]
         /\ Put(f, p, v)[p] = v
  <1>1. PICK P \in SUBSET Pairs : f \in [P -> Rates]
    BY DEF Rows
  <1>2. Put(f, p, v) \in [P \cup {p} -> Rates]
    BY <1>1 DEF Put
  <1>3. P \cup {p} \in SUBSET Pairs
    OBVIOUS
  <1> QED BY <1>1, <1>2, <1>3 DEF Rows, Put

LEMMA RowsFacts ==
  ASSUME NEW f \in Rows
  PROVE  DOMAIN f \subseteq Pairs /\ \A p \in DOMAIN f : f[p] \in Rates
  BY DEF Rows

LEMMA MergedFacts ==
  ASSUME NEW t \in [Pairs -> Rates \cup {Absent}], NEW f \in Rows
  PROVE  Merged(t, f) \in [Pairs -> Rates \cup {Absent}]
  BY RowsFacts DEF Merged

LEMMA IdleTypes == /\ Idle \in Jobs /\ Idle.phase = "idle" /\ Idle.rates = Idle.snaps /\ Idle.lost = {}
                   /\ DOMAIN Idle.rates = {} /\ Idle.dead = FALSE
  <1>1. None \in [{} -> Rates]
    BY DEF None
  <1>2. None \in Rows /\ DOMAIN None = {}
    BY <1>1 DEF Rows, None
  <1> HIDE DEF Rows, None
  <1> QED BY <1>2 DEF Idle, Jobs

\* What a base is quoted against, and the quotes that came.
LEMMA QuotesTypes ==
  ASSUME NEW base \in Currencies, NEW A
  PROVE  LET got == Keep(Quotes(base), A)
         IN [i \in DOMAIN got |-> <<base, got[i]>>] \in Seq(Pairs)
  <1> DEFINE others == Currencies \ {base}
             got    == Keep(Quotes(base), A)
  <1>1. Quotes(base) \in Seq(Currencies \cap others)
    BY Constants, KeepMembers DEF Quotes
  <1>2. Currencies \cap others = others
    OBVIOUS
  <1>3. Quotes(base) \in Seq(others)
    BY <1>1, <1>2
  <1>4. got \in Seq(others \cap A)
    <2> HIDE DEF others
    <2> QED BY <1>3, KeepMembers
  <1> HIDE DEF got
  <1>5. Len(got) \in Nat /\ DOMAIN got = 1 .. Len(got)
    BY <1>4
  <1>6. ASSUME NEW i \in DOMAIN got PROVE <<base, got[i]>> \in Pairs
    <2>1. got[i] \in others \cap A
      BY <1>4
    <2> QED BY <2>1 DEF Pairs
  <1>7. [i \in 1 .. Len(got) |-> <<base, got[i]>>] \in Seq(Pairs)
    BY <1>5, <1>6
  <1> QED BY <1>5, <1>7 DEF got

LEMMA FailedType ==
  ASSUME NEW base, NEW x, NEW y, NEW z
  PROVE  Failed(base, <<x, y, z>>) \in Nat
  <1> DEFINE a == <<x, y, z>>
             S == {i \in DOMAIN a : /\ \A k \in 1 .. i - 1 : a[k] = FetchError
                                    /\ a[i] # ToSet(Quotes(base))}
  <1>1. S \subseteq 1 .. 3
    <2>1. DOMAIN a = 1 .. 3
      OBVIOUS
    <2> HIDE DEF a
    <2> QED BY <2>1
  <1>2. IsFiniteSet(S)
    <2> HIDE DEF S
    <2>1. \A n \in Nat : IsFiniteSet(1 .. n)
      BY FS_Interval
    <2>2. IsFiniteSet(1 .. 3)
      BY <2>1
    <2> QED BY <1>1, <2>2, FS_Subset
  <1>3. Cardinality(S) \in Nat
    BY <1>2, FS_CardinalityType
  <1> QED BY <1>3 DEF Failed

LEMMA FaultType ==
  ASSUME IInv, NEW n \in Nat, Fault(n)
  PROVE  faults' \in 0 .. MaxFaults
  BY Constants DEF IInv, TypeOK, Fault

-----------------------------------------------------------------------------
(***************************************************************************)
(* The steps.                                                              *)
(***************************************************************************)
\* A step of the job, of the process or of nobody, but no commit.
LEMMA StepInv ==
  ASSUME IInv, up' \in BOOLEAN, UNCHANGED <<market, rate, newest, orphans>>, faults' \in 0 .. MaxFaults,
         job' \in Jobs, AnswerAtHand', PendingAgree'
  PROVE  IInv'
  BY DEF IInv, TypeOK, RateIsNewestSnapshot, Rates, Jobs, Rows

\* A job that rests, or that starts on a new session.
LEMMA EmptySession ==
  ASSUME IInv, job' \in Jobs, job'.phase \in {"idle", "fetch"},
         job'.dead = FALSE => job'.rates = job'.snaps
  PROVE  AnswerAtHand' /\ PendingAgree'
  BY DEF AnswerAtHand, PendingAgree, AtWork, Between, Paired

LEMMA InitInv == Init => IInv
  <1> SUFFICES ASSUME Init PROVE IInv
    OBVIOUS
  <1>1. job = Idle /\ rate = [p \in Pairs |-> Absent] /\ newest = rate
    BY DEF Init
  <1>2. TypeOK
    BY <1>1, IdleTypes, Constants DEF Init, TypeOK
  <1>3. AnswerAtHand /\ PendingAgree
    BY <1>1, IdleTypes DEF AnswerAtHand, PendingAgree, AtWork, Between, Paired
  <1> QED BY <1>1, <1>2, <1>3 DEF IInv, RateIsNewestSnapshot

LEMMA Typed ==
  ASSUME IInv
  PROVE  /\ job \in Jobs /\ up \in BOOLEAN /\ faults \in 0 .. MaxFaults /\ market \in 0 .. MaxMoves
         /\ rate \in [Pairs -> Rates \cup {Absent}] /\ newest \in [Pairs -> Rates \cup {Absent}]
         /\ orphans \in SUBSET Pairs
  BY DEF IInv, TypeOK, RateIsNewestSnapshot

LEMMA JobTickInv == ASSUME IInv, JobTick PROVE IInv'
  <1>1. /\ job' = [Idle EXCEPT !.phase = "fetch", !.bases = Bases]
        /\ UNCHANGED <<up, market, rate, newest, orphans, faults>>
    BY DEF JobTick
  <1>2. /\ job' \in Jobs' /\ job'.phase = "fetch" /\ job'.rates = job'.snaps
        /\ DOMAIN job'.rates = {}
    <2>1. job' \in Jobs
      BY <1>1, IdleTypes, Constants DEF Jobs
    <2>2. job'.phase = "fetch" /\ job'.rates = Idle.rates /\ job'.snaps = Idle.snaps
      BY <1>1 DEF Idle
    <2> QED BY <1>1, <2>1, <2>2, IdleTypes DEF Jobs, Rates, Rows
  <1>3. job' \in Jobs
    BY <1>1, <1>2 DEF Jobs, Rates, Rows
  <1> QED BY <1>1, <1>2, <1>3, EmptySession, StepInv, Typed

LEMMA JobFetchInv == ASSUME IInv, JobFetch PROVE IInv'
  <1> DEFINE base == Head(job.bases)
  <1>1. PICK frankfurter, cdn, mirror \in Answers(base), value \in 0 .. market :
           LET came == Chained(frankfurter, cdn, mirror)
               got  == Keep(Quotes(base), IF came \in {FetchError, OtherError} THEN {} ELSE came)
           IN /\ Fault(Failed(base, <<frankfurter, cdn, mirror>>) + (IF value = market THEN 0 ELSE 1))
              /\ frankfurter # FetchError => cdn = {} /\ mirror = {}
              /\ cdn # FetchError => mirror = {}
              /\ job' = [job EXCEPT !.phase = "upsert", !.bases = Tail(@), !.value = value,
                                    !.got = [i \in DOMAIN got |-> <<base, got[i]>>]]
    BY DEF JobFetch
  <1> DEFINE came == Chained(frankfurter, cdn, mirror)
             A == IF came \in {FetchError, OtherError} THEN {} ELSE came
             q == [i \in DOMAIN Keep(Quotes(base), A) |-> <<base, Keep(Quotes(base), A)[i]>>]
  <1>2. /\ job.phase = "fetch" /\ job.bases # << >> /\ UNCHANGED <<up, market, rate, newest, orphans>>
        /\ job' = [job EXCEPT !.phase = "upsert", !.bases = Tail(@), !.value = value, !.got = q]
    BY <1>1 DEF JobFetch
  <1>3. job.bases \in Seq(Currencies)
    BY Typed DEF Jobs
  <1>4. base \in Currencies /\ Tail(job.bases) \in Seq(Currencies)
    BY <1>2, <1>3, HeadAndTail
  <1>5. q \in Seq(Pairs)
    <2> HIDE DEF base
    <2> QED BY <1>4, QuotesTypes
  <1>6. faults' \in 0 .. MaxFaults
    <2> DEFINE n == Failed(base, <<frankfurter, cdn, mirror>>)
               m == n + (IF value = market THEN 0 ELSE 1)
    <2>1. n \in Nat
      <3> HIDE DEF base
      <3> QED BY FailedType
    <2>2. Fault(m)
      BY <1>1
    <2> HIDE DEF n
    <2>3. m \in Nat
      BY <2>1
    <2> QED BY <2>2, <2>3, FaultType
  <1> HIDE DEF q, base
  <1>7. value \in Rates
    BY DEF Rates
  <1>8. /\ job' \in Jobs /\ job'.phase = "upsert" /\ job'.value = value /\ job'.lost = job.lost
        /\ job'.rates = job.rates /\ job'.snaps = job.snaps /\ job'.dead = job.dead
    BY <1>2, <1>4, <1>5, <1>7, Typed DEF Jobs
  <1>9. PendingAgree'
    BY <1>2, <1>8 DEF IInv, PendingAgree, Between, Paired
  <1>10. AnswerAtHand'
    BY <1>2, <1>7, <1>8 DEF AnswerAtHand, Rates
  <1> QED BY <1>2, <1>6, <1>8, <1>9, <1>10, StepInv, Typed

\* The quote in hand.
LEMMA InHand ==
  ASSUME IInv, AtWork, job.got # << >>
  PROVE  /\ Head(job.got) \in Pairs /\ Tail(job.got) \in Seq(Pairs) /\ job.value \in Rates
         /\ job.rates \in Rows /\ job.snaps \in Rows
  <1>1. job.got \in Seq(Pairs) /\ job.rates \in Rows /\ job.snaps \in Rows
    BY Typed DEF Jobs
  <1>2. Head(job.got) \in Pairs /\ Tail(job.got) \in Seq(Pairs)
    BY <1>1, HeadAndTail
  <1> QED BY <1>1, <1>2 DEF IInv, AnswerAtHand

LEMMA JobUpsertInv == ASSUME IInv, JobUpsert PROVE IInv'
  <1> DEFINE w == Put(job.rates, Head(job.got), job.value)
  <1>1. /\ job.phase = "upsert" /\ job.got # << >> /\ ~job.dead
        /\ job' = [job EXCEPT !.phase = "snapshot", !.rates = w]
        /\ UNCHANGED <<up, market, rate, newest, orphans, faults>>
    BY DEF JobUpsert
  <1>2. AtWork
    BY <1>1 DEF AtWork
  <1>3. w \in Rows
    BY <1>1, <1>2, InHand, PutFacts
  <1> HIDE DEF w
  <1>4. /\ job' \in Jobs /\ job'.phase = "snapshot" /\ job'.rates = w /\ job'.snaps = job.snaps
        /\ job'.got = job.got /\ job'.value = job.value /\ job'.dead = job.dead /\ job'.lost = job.lost
    BY <1>1, <1>3, Typed DEF Jobs
  <1>5. AnswerAtHand'
    BY <1>1, <1>2, <1>4, InHand DEF AnswerAtHand, Rates
  <1>6. PendingAgree'
    <2> DEFINE head == Head(job.got)
    <2>1. /\ DOMAIN w = DOMAIN job.rates \cup {head} /\ w[head] = job.value
          /\ \A p \in DOMAIN w : p # head => w[p] = job.rates[p]
      BY <1>1, <1>2, InHand, PutFacts, ZenonT(40) DEF w
    <2>2. job.dead = FALSE => \A p \in Pairs : p \in job.lost \/ Paired(p)
      BY <1>1 DEF IInv, PendingAgree, Between
    <2> HIDE DEF head
    <2>3. Between' = {head}
      BY <1>4 DEF Between, head
    <2> QED BY <1>4, <2>1, <2>2, <2>3 DEF PendingAgree, Paired
  <1> QED BY <1>1, <1>4, <1>5, <1>6, StepInv, Typed

LEMMA UpsertFailsInv == ASSUME IInv, UpsertFails PROVE IInv'
  <1>1. PICK d \in {job.dead, TRUE} : job' = [job EXCEPT !.got = Tail(@), !.dead = d]
    BY DEF UpsertFails
  <1>2. /\ job.phase = "upsert" /\ job.got # << >> /\ UNCHANGED <<up, market, rate, newest, orphans>>
        /\ Fault(IF job.dead THEN 0 ELSE 1)
    BY DEF UpsertFails
  <1>3. faults' \in 0 .. MaxFaults
    BY <1>2, FaultType
  <1>4. AtWork
    BY <1>2 DEF AtWork
  <1>5. d \in BOOLEAN
    BY Typed DEF Jobs
  <1>6. /\ job' \in Jobs /\ job'.phase = "upsert" /\ job'.rates = job.rates /\ job'.dead = d
        /\ job'.snaps = job.snaps /\ job'.value = job.value /\ job'.lost = job.lost
    BY <1>1, <1>2, <1>4, <1>5, InHand, Typed DEF Jobs
  <1>7. AnswerAtHand'
    BY <1>2, <1>4, <1>6, InHand DEF AnswerAtHand, Rates
  <1>8. PendingAgree'
    BY <1>2, <1>6 DEF IInv, PendingAgree, Between, Paired
  <1> QED BY <1>2, <1>3, <1>6, <1>7, <1>8, StepInv, Typed

LEMMA JobSnapshotInv == ASSUME IInv, JobSnapshot PROVE IInv'
  <1> DEFINE head == Head(job.got)
             w    == Put(job.snaps, head, job.value)
  <1>1. /\ job.phase = "snapshot"
        /\ job' = [job EXCEPT !.phase = "upsert", !.snaps = w, !.lost = @ \ {head}, !.got = Tail(@)]
        /\ UNCHANGED <<up, market, rate, newest, orphans, faults>>
    BY DEF JobSnapshot
  <1>2. AtWork /\ job.got # << >>
    BY <1>1 DEF AtWork, IInv, AnswerAtHand
  <1>3. w \in Rows
    BY <1>2, InHand, PutFacts
  <1>4. /\ DOMAIN w = DOMAIN job.snaps \cup {head} /\ w[head] = job.value
        /\ \A p \in DOMAIN w : p # head => w[p] = job.snaps[p]
    BY <1>2, InHand, PutFacts, ZenonT(40)
  <1>5. job.dead = FALSE => /\ head \in DOMAIN job.rates /\ job.rates[head] = job.value
                            /\ \A p \in Pairs : p = head \/ p \in job.lost \/ Paired(p)
    BY <1>1 DEF IInv, PendingAgree, Between
  <1>6. job.lost \ {head} \in SUBSET Pairs
    BY Typed DEF Jobs
  <1> HIDE DEF w, head
  <1>7. /\ job' \in Jobs /\ job'.phase = "upsert" /\ job'.rates = job.rates /\ job'.snaps = w
        /\ job'.value = job.value /\ job'.dead = job.dead /\ job'.lost = job.lost \ {head}
    BY <1>1, <1>2, <1>3, <1>6, InHand, Typed DEF Jobs
  <1>8. AnswerAtHand'
    BY <1>1, <1>2, <1>7, InHand DEF AnswerAtHand, Rates
  <1>9. PendingAgree'
    <2>1. Between' = {}
      BY <1>7 DEF Between
    <2>2. ASSUME job.dead = FALSE, NEW p \in Pairs, p \notin job'.lost PROVE Paired(p)'
      <3>1. CASE p = head
        BY <1>4, <1>5, <1>7, <2>2, <3>1 DEF Paired
      <3>2. CASE p # head
        BY <1>4, <1>5, <1>7, <2>2, <3>2 DEF Paired
      <3> QED BY <3>1, <3>2
    <2> QED BY <1>7, <2>1, <2>2 DEF PendingAgree, Paired
  <1> QED BY <1>1, <1>7, <1>8, <1>9, StepInv, Typed

LEMMA LookupFailsInv == ASSUME IInv, LookupFails PROVE IInv'
  <1> DEFINE head == Head(job.got)
  <1>1. /\ job.phase = "snapshot" /\ UNCHANGED <<up, market, rate, newest, orphans>> /\ Fault(1)
        /\ job' = [job EXCEPT !.phase = "upsert", !.lost = @ \cup {head}, !.got = Tail(@)]
    BY DEF LookupFails
  <1>2. AtWork /\ job.got # << >>
    BY <1>1 DEF AtWork, IInv, AnswerAtHand
  <1>3. faults' \in 0 .. MaxFaults
    BY <1>1, FaultType
  <1>4. job.lost \cup {head} \in SUBSET Pairs
    BY <1>2, InHand, Typed DEF Jobs
  <1>5. job.dead = FALSE => \A p \in Pairs : p = head \/ p \in job.lost \/ Paired(p)
    BY <1>1 DEF IInv, PendingAgree, Between
  <1> HIDE DEF head
  <1>6. /\ job' \in Jobs /\ job'.phase = "upsert" /\ job'.rates = job.rates /\ job'.snaps = job.snaps
        /\ job'.value = job.value /\ job'.dead = job.dead /\ job'.lost = job.lost \cup {head}
    BY <1>1, <1>2, <1>4, InHand, Typed DEF Jobs
  <1>7. AnswerAtHand'
    BY <1>1, <1>2, <1>6, InHand DEF AnswerAtHand, Rates
  <1>8. PendingAgree'
    BY <1>5, <1>6 DEF PendingAgree, Between, Paired
  <1> QED BY <1>1, <1>3, <1>6, <1>7, <1>8, StepInv, Typed

LEMMA SnapshotFailsInv == ASSUME IInv, SnapshotFails PROVE IInv'
  <1>1. /\ job.phase = "snapshot" /\ UNCHANGED <<up, market, rate, newest, orphans>> /\ Fault(1)
        /\ job' = [job EXCEPT !.phase = "upsert", !.dead = TRUE, !.got = Tail(@)]
    BY DEF SnapshotFails
  <1>2. AtWork /\ job.got # << >>
    BY <1>1 DEF AtWork, IInv, AnswerAtHand
  <1>3. faults' \in 0 .. MaxFaults
    BY <1>1, FaultType
  <1>4. /\ job' \in Jobs /\ job'.phase = "upsert" /\ job'.rates = job.rates
        /\ job'.value = job.value /\ job'.dead = TRUE
    BY <1>1, <1>2, InHand, Typed DEF Jobs
  <1>5. AnswerAtHand' /\ PendingAgree'
    BY <1>1, <1>2, <1>4, InHand DEF AnswerAtHand, PendingAgree, Rates
  <1> QED BY <1>1, <1>3, <1>4, <1>5, StepInv, Typed

LEMMA JobNextBaseInv == ASSUME IInv, JobNextBase PROVE IInv'
  <1>1. /\ job.phase = "upsert" /\ job' = [job EXCEPT !.phase = "fetch"]
        /\ UNCHANGED <<up, market, rate, newest, orphans, faults>>
    BY DEF JobNextBase
  <1>2. /\ job' \in Jobs /\ job'.phase = "fetch" /\ job'.rates = job.rates
        /\ job'.snaps = job.snaps /\ job'.dead = job.dead /\ job'.lost = job.lost
    BY <1>1, Typed DEF Jobs
  <1>3. AnswerAtHand' /\ PendingAgree'
    BY <1>1, <1>2 DEF IInv, AnswerAtHand, AtWork, PendingAgree, Between, Paired
  <1> QED BY <1>1, <1>2, <1>3, StepInv, Typed

\* The session's rows are in both tables: the same rows, in the same place,
\* but for the pairs whose look-up failed.
LEMMA JobCommitFacts ==
  ASSUME IInv, JobCommit
  PROVE  /\ rate' \in [Pairs -> Rates \cup {Absent}] /\ newest' \in [Pairs -> Rates \cup {Absent}]
         /\ orphans' \in SUBSET Pairs
         /\ \A p \in Pairs \ orphans' : rate'[p] = newest'[p]
  <1>1. /\ job.phase = "fetch" /\ ~job.dead
        /\ rate' = Merged(rate, job.rates) /\ newest' = Merged(newest, job.snaps)
        /\ orphans' = (orphans \ DOMAIN job.rates) \cup job.lost
    BY DEF JobCommit, Finished
  <1>2. job.rates \in Rows /\ job.snaps \in Rows /\ job.lost \in SUBSET Pairs /\ job.dead = FALSE
    BY <1>1, Typed DEF Jobs
  <1>3. ASSUME NEW p \in Pairs \ orphans' PROVE rate'[p] = newest'[p]
    <2>1. p \notin job.lost
      BY <1>1
    <2>2. Paired(p)
      BY <1>1, <1>2, <2>1 DEF IInv, PendingAgree, Between
    <2>3. CASE p \in DOMAIN job.rates
      BY <1>1, <2>2, <2>3 DEF Merged, Paired
    <2>4. CASE p \notin DOMAIN job.rates
      <3>1. rate[p] = newest[p]
        BY <1>1, <2>4 DEF IInv, RateIsNewestSnapshot
      <3> QED BY <1>1, <2>2, <2>4, <3>1 DEF Merged, Paired
    <2> QED BY <2>3, <2>4
  <1> QED BY <1>1, <1>2, <1>3, MergedFacts, Typed

LEMMA JobCommitInv == ASSUME IInv, JobCommit PROVE IInv'
  <1>1. job' = Idle /\ UNCHANGED <<up, market, faults>>
    BY DEF JobCommit
  <1>2. AnswerAtHand' /\ PendingAgree'
    BY <1>1, IdleTypes DEF AnswerAtHand, PendingAgree, AtWork, Between, Paired
  <1>3. job' \in Jobs
    BY <1>1, IdleTypes
  <1>4. TypeOK'
    BY <1>1, <1>3, JobCommitFacts DEF IInv, TypeOK, Rates, Jobs, Rows
  <1> QED BY <1>2, <1>4, JobCommitFacts DEF IInv, RateIsNewestSnapshot

LEMMA CommitFailsInv == ASSUME IInv, CommitFails PROVE IInv'
  <1>1. /\ Fault(IF job.dead THEN 0 ELSE 1) /\ job' = [Idle EXCEPT !.dead = job.dead]
        /\ UNCHANGED <<up, market, rate, newest, orphans>>
    BY DEF CommitFails
  <1>2. job.dead \in BOOLEAN
    BY Typed DEF Jobs
  <1>3. /\ job' \in Jobs /\ job'.phase = "idle" /\ job'.rates = Idle.rates
        /\ job'.snaps = Idle.snaps
    BY <1>1, <1>2, IdleTypes DEF Jobs
  <1>4. faults' \in 0 .. MaxFaults
    BY <1>1, FaultType
  <1> QED BY <1>1, <1>3, <1>4, EmptySession, IdleTypes, StepInv, Typed

LEMMA StopInv == ASSUME IInv, Stop PROVE IInv'
  <1>1. Fault(1) /\ up' = FALSE /\ job' = Idle /\ UNCHANGED <<market, rate, newest, orphans>>
    BY DEF Stop
  <1>2. faults' \in 0 .. MaxFaults
    BY <1>1, FaultType
  <1> QED BY <1>1, <1>2, EmptySession, IdleTypes, StepInv, Typed

LEMMA StillInv == ASSUME IInv, up' \in BOOLEAN, UNCHANGED <<market, rate, newest, orphans, job, faults>> PROVE IInv'
  <1>1. AnswerAtHand' /\ PendingAgree'
    BY DEF IInv, AnswerAtHand, PendingAgree, AtWork, Between, Paired, Rates
  <1> QED BY <1>1, StepInv, Typed

LEMMA MarketMovesInv == ASSUME IInv, MarketMoves PROVE IInv'
  <1>1. /\ market' = market + 1 /\ market' \in 0 .. MaxMoves
        /\ UNCHANGED <<up, rate, newest, orphans, job, faults>>
    BY Constants, Typed DEF MarketMoves
  <1>2. Rates \subseteq Rates'
    BY <1>1, Typed, Constants DEF Rates
  <1>3. \A f \in Rows : f \in Rows'
    BY <1>2 DEF Rows
  <1>4. job' \in Jobs'
    <2> SUFFICES job \in Jobs'
      BY <1>1
    <2> QED BY <1>2, <1>3, Typed DEF Jobs
  <1>5. rate' \in [Pairs -> Rates' \cup {Absent}] /\ newest' \in [Pairs -> Rates' \cup {Absent}]
    BY <1>1, <1>2, Typed
  <1>6. TypeOK'
    BY <1>1, <1>4, <1>5, Typed DEF TypeOK
  <1>7. AnswerAtHand' /\ PendingAgree'
    BY <1>1, <1>2 DEF IInv, AnswerAtHand, PendingAgree, AtWork, Between, Paired
  <1> QED BY <1>1, <1>6, <1>7 DEF IInv, RateIsNewestSnapshot

LEMMA NextInv == IInv /\ [Next]_vars => IInv'
  <1> SUFFICES ASSUME IInv, [Next]_vars PROVE IInv'
    OBVIOUS
  <1>1. ASSUME Start PROVE IInv'
    BY <1>1, StillInv DEF Start
  <1>2. ASSUME UNCHANGED vars PROVE IInv'
    BY <1>2, StillInv, Typed DEF vars
  <1>3. ASSUME JobStep PROVE IInv'
    BY <1>3, JobFetchInv, JobUpsertInv, UpsertFailsInv, JobSnapshotInv, LookupFailsInv,
       SnapshotFailsInv, JobNextBaseInv, JobCommitInv, CommitFailsInv DEF JobStep
  <1> QED BY <1>1, <1>2, <1>3, JobTickInv, StopInv, MarketMovesInv DEF Next

-----------------------------------------------------------------------------
\* The inductive invariant holds in every state.
THEOREM Invariance == Spec => []IInv
  BY InitInv, NextInv, PTL DEF Spec

\* Every variable has its type: among them, no rate is of a currency against
\* itself, and none is newer than the market.
THEOREM RatesTypeCorrect == Spec => []TypeOK
  <1>1. IInv => TypeOK
    BY DEF IInv
  <1> QED BY <1>1, Invariance, PTL

\* Whatever else fails and whenever the process stops, the rate a conversion
\* reads now is the one of the newest snapshot (fx_rate.py:74-107).
THEOREM RatesAgree == Spec => []RateIsNewestSnapshot
  <1>1. IInv => RateIsNewestSnapshot
    BY DEF IInv
  <1> QED BY <1>1, Invariance, PTL

=============================================================================
