----------------------------- MODULE FxRefresh ------------------------------
(***************************************************************************)
(* The hourly job that keeps the exchange rates: for each base currency it *)
(* asks the chain of sources, and for each rate that came it upserts       *)
(* fx_rates (the rate of now) and inserts a row of fx_rate_snapshots (the  *)
(* rates of the past), all in one session.  What fails is skipped and left *)
(* to the next tick.  The process may stop at any point and start again.   *)
(***************************************************************************)
EXTENDS Filtering, Integers, FiniteSets, Functions

CONSTANTS Bases,       \* the supported currencies, in the order of the loop
          MaxMoves,    \* bound: how often the rates of the market change
          MaxFaults    \* bound: how often something fails, or a source lags

ASSUME FxRefreshAssumption ==
    /\ Bases \in Seq(STRING) /\ Bases # << >> /\ IsInjective(Bases)
    /\ MaxMoves \in Nat /\ MaxFaults \in Nat

VARIABLES up,          \* the process runs
          market,      \* the rates of the market, as the number of their changes
          rate,        \* fx_rates: pair -> rate, or Absent
          newest,      \* fx_rate_snapshots: pair -> rate of its newest row, or Absent
          orphans,     \* the pairs whose rate was stored by a tick that failed to
                       \* look for their snapshot
          job,
          faults       \* how often something failed so far

vars == <<up, market, rate, newest, orphans, job, faults>>

Currencies == ToSet(Bases)
Pairs  == {p \in Currencies \X Currencies : p[1] # p[2]}
Absent == MaxMoves + 1

\* Mutant: the base is asked for itself.
QuotesOfAll(base) == Bases

Quotes(base) == Keep(Bases, Currencies \ {base})

None == [p \in {} |-> Absent]

\* One row written, over the one of its pair if there is one.
Put(rows, pair, value) ==
    [p \in DOMAIN rows \cup {pair} |-> IF p = pair THEN value ELSE rows[p]]

\* The rows a session has pending, committed over a table.
Merged(table, rows) ==
    [p \in Pairs |-> IF p \in DOMAIN rows THEN rows[p] ELSE table[p]]

Idle == [phase |-> "idle", bases |-> << >>, got |-> << >>, value |-> Absent,
         rates |-> None, snaps |-> None, lost |-> {}, dead |-> FALSE]

-----------------------------------------------------------------------------
(***************************************************************************)
(* The sources.  An answer is a set of quotes, an FxFetchError, or another *)
(* exception; the quotes may be older than the market's.                   *)
(***************************************************************************)
FetchError == {"fetch error"}
OtherError == {"other error"}

Answers(base) == SUBSET ToSet(Quotes(base)) \cup {FetchError, OtherError}

\* FawazCurrencyApiAdapter: the mirror is asked when the CDN fails.
Fawaz(cdn, mirror) == IF cdn = FetchError THEN mirror ELSE cdn

\* ChainedFxAdapter: the first answer counts, however few quotes it has, and
\* only an FxFetchError leads on to the next source.
Chained(frankfurter, cdn, mirror) ==
    IF frankfurter = FetchError THEN Fawaz(cdn, mirror) ELSE frankfurter

\* Who was asked and failed, or left quotes out.
Failed(base, answers) ==
    LET full(a)  == a = ToSet(Quotes(base))
        asked(i) == \A k \in 1 .. i - 1 : answers[k] = FetchError
    IN Cardinality({i \in DOMAIN answers : asked(i) /\ ~full(answers[i])})

Fault(n) == faults + n <= MaxFaults /\ faults' = faults + n

-----------------------------------------------------------------------------
(***************************************************************************)
(* The job.  One instance at most runs (max_instances=1, coalesce).        *)
(***************************************************************************)
\* Mutant: the session of the tick before is used again.
TickSameSession ==
    /\ up /\ job.phase = "idle"
    /\ job' = [Idle EXCEPT !.phase = "fetch", !.bases = Bases, !.dead = job.dead]
    /\ UNCHANGED <<up, market, rate, newest, orphans, faults>>

JobTick ==
    /\ up /\ job.phase = "idle"
    /\ job' = [Idle EXCEPT !.phase = "fetch", !.bases = Bases]
    /\ UNCHANGED <<up, market, rate, newest, orphans, faults>>

JobFetch ==
    /\ up /\ job.phase = "fetch" /\ job.bases # << >>
    /\ LET base == Head(job.bases) IN
       \E frankfurter, cdn, mirror \in Answers(base), value \in 0 .. market :
          LET came == Chained(frankfurter, cdn, mirror)
              got  == Keep(Quotes(base), IF came \in {FetchError, OtherError} THEN {} ELSE came)
          IN /\ Fault(Failed(base, <<frankfurter, cdn, mirror>>) + (IF value = market THEN 0 ELSE 1))
             \* who was not asked has no answer to choose
             /\ frankfurter # FetchError => cdn = {} /\ mirror = {}
             /\ cdn # FetchError => mirror = {}
             /\ job' = [job EXCEPT !.phase = "upsert", !.bases = Tail(@), !.value = value,
                                   !.got = [i \in DOMAIN got |-> <<base, got[i]>>]]
    /\ UNCHANGED <<up, market, rate, newest, orphans>>

\* Mutant: no `continue` after a failed upsert.
UpsertFailsThrough ==
    /\ up /\ job.phase = "upsert" /\ job.got # << >> /\ ~job.dead
    /\ Fault(1)
    /\ job' = [job EXCEPT !.phase = "snapshot"]
    /\ UNCHANGED <<up, market, rate, newest, orphans>>

JobUpsert ==
    /\ up /\ job.phase = "upsert" /\ job.got # << >> /\ ~job.dead
    /\ job' = [job EXCEPT !.phase = "snapshot", !.rates = Put(@, Head(job.got), job.value)]
    /\ UNCHANGED <<up, market, rate, newest, orphans, faults>>

\* The statement alone fails, or the connection with it.  In a session that
\* has failed every statement does.
UpsertFails ==
    /\ up /\ job.phase = "upsert" /\ job.got # << >>
    /\ Fault(IF job.dead THEN 0 ELSE 1)
    /\ \E dead \in {job.dead, TRUE} :
          job' = [job EXCEPT !.got = Tail(@), !.dead = dead]
    /\ UNCHANGED <<up, market, rate, newest, orphans>>

JobSnapshot ==
    /\ up /\ job.phase = "snapshot"
    /\ job' = [job EXCEPT !.phase = "upsert", !.snaps = Put(@, Head(job.got), job.value),
                          !.lost = @ \ {Head(job.got)}, !.got = Tail(@)]
    /\ UNCHANGED <<up, market, rate, newest, orphans, faults>>

\* The look-up before the insert fails and nothing else: the session can
\* still commit what it has.
LookupFails ==
    /\ up /\ job.phase = "snapshot"
    /\ Fault(1)
    /\ job' = [job EXCEPT !.phase = "upsert", !.lost = @ \cup {Head(job.got)}, !.got = Tail(@)]
    /\ UNCHANGED <<up, market, rate, newest, orphans>>

\* A failed flush, or a connection lost at the look-up before it, leaves a
\* session that can only be rolled back.
SnapshotFails ==
    /\ up /\ job.phase = "snapshot"
    /\ Fault(1)
    /\ job' = [job EXCEPT !.phase = "upsert", !.dead = TRUE, !.got = Tail(@)]
    /\ UNCHANGED <<up, market, rate, newest, orphans>>

JobNextBase ==
    /\ up /\ job.phase = "upsert" /\ job.got = << >>
    /\ job' = [job EXCEPT !.phase = "fetch"]
    /\ UNCHANGED <<up, market, rate, newest, orphans, faults>>

Finished == up /\ job.phase = "fetch" /\ job.bases = << >>

JobCommit ==
    /\ Finished /\ ~job.dead
    /\ rate' = Merged(rate, job.rates)
    /\ newest' = Merged(newest, job.snaps)
    /\ orphans' = (orphans \ DOMAIN job.rates) \cup job.lost
    /\ job' = Idle
    /\ UNCHANGED <<up, market, faults>>

\* fx_refresh_job logs what the commit raises; the session is closed.
CommitFails ==
    /\ Finished
    /\ Fault(IF job.dead THEN 0 ELSE 1)
    /\ job' = [Idle EXCEPT !.dead = job.dead]
    /\ UNCHANGED <<up, market, rate, newest, orphans>>

Stop ==
    /\ up /\ Fault(1) /\ up' = FALSE /\ job' = Idle
    /\ UNCHANGED <<market, rate, newest, orphans>>

Start ==
    /\ ~up /\ up' = TRUE
    /\ UNCHANGED <<market, rate, newest, orphans, job, faults>>

MarketMoves ==
    /\ market < MaxMoves /\ market' = market + 1
    /\ UNCHANGED <<up, rate, newest, orphans, job, faults>>

Init ==
    /\ up = TRUE /\ market = 0 /\ job = Idle /\ faults = 0
    /\ rate = [p \in Pairs |-> Absent] /\ newest = rate /\ orphans = {}

JobStep ==
    \/ JobFetch \/ JobUpsert \/ UpsertFails \/ JobSnapshot \/ LookupFails
    \/ SnapshotFails \/ JobNextBase \/ JobCommit \/ CommitFails

Next == JobTick \/ JobStep \/ Stop \/ Start \/ MarketMoves

\* The scheduler ticks while the process runs, the job's awaits end (the
\* sources have a timeout), and a stopped process is started again.
Fairness == WF_vars(JobTick) /\ WF_vars(JobStep) /\ WF_vars(Start)

Spec == Init /\ [][Next]_vars /\ Fairness

-----------------------------------------------------------------------------
Rates == 0 .. market

\* Pairs and the rates they got.
Rows == UNION {[P -> Rates] : P \in SUBSET Pairs}

Jobs == [phase : {"idle", "fetch", "upsert", "snapshot"}, bases : Seq(Currencies),
         got : Seq(Pairs), value : Rates \cup {Absent}, rates : Rows, snaps : Rows, lost : SUBSET Pairs,
         dead : BOOLEAN]

TypeOK ==
    /\ up \in BOOLEAN /\ market \in 0 .. MaxMoves /\ faults \in 0 .. MaxFaults
    /\ rate \in [Pairs -> Rates \cup {Absent}]
    /\ newest \in [Pairs -> Rates \cup {Absent}]
    /\ orphans \in SUBSET Pairs
    /\ job \in Jobs

\* What a conversion reads now (fx_rates, get_latest) is what a conversion at
\* this instant reads of the snapshots (get_rates_at_batch), whichever step
\* of whichever tick failed: holdings and the split of their profit use one
\* each and must agree (services/portfolio.py:239-500).  One failure alone
\* parts them: the look-up inside insert_snapshot, until the pair's next rate.
RateIsNewestSnapshot == \A p \in Pairs \ orphans : rate[p] = newest[p]

\* Once nothing fails or lags any more and the market rests, every pair gets
\* its rate and its snapshot: neither a failed tick nor a dead session nor a
\* restart keeps a pair from the next tick (fx_refresh_job.py:22-24).
EventuallyRated == <>[](\A p \in Pairs : rate[p] = market /\ newest[p] = market)
=============================================================================
