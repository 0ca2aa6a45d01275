---------------------------- MODULE SingleFlight ----------------------------
(***************************************************************************)
(* What a shared cache promises its callers, with no lock, queue or clock  *)
(* in sight: one load at a time, none while the kept value is fresh, and   *)
(* an answer for every caller: the kept value while it is fresh, or what   *)
(* the caller's own load came to.                                          *)
(***************************************************************************)
CONSTANTS Callers, Values, Nothing, Failure

VARIABLES kept,      \* the value, or Nothing before the first load
          fresh,     \* kept may be handed out without loading
          loading,   \* the caller whose load runs, or Nothing
          asked,     \* the callers without an answer
          reply      \* the last answer of each caller

vars == <<kept, fresh, loading, asked, reply>>

Answer(r, v) == reply' = [reply EXCEPT ![r] = v] /\ asked' = asked \ {r}

Init ==
    /\ kept = Nothing /\ fresh = FALSE /\ loading = Nothing
    /\ asked = {} /\ reply = [r \in Callers |-> Nothing]

Ask(r) ==
    /\ r \notin asked
    /\ asked' = asked \cup {r}
    /\ UNCHANGED <<kept, fresh, loading, reply>>

Hit(r) ==
    /\ fresh /\ Answer(r, kept)
    /\ UNCHANGED <<kept, fresh, loading>>

\* The first caller may ask and load at once.
Load(r) ==
    /\ ~fresh /\ loading = Nothing
    /\ loading' = r
    /\ asked' = asked \cup {r}
    /\ UNCHANGED <<kept, fresh, reply>>

\* A slow load may be out of date when it arrives.
Loaded(v) ==
    /\ loading \in asked
    /\ kept' = v /\ fresh' \in BOOLEAN /\ loading' = Nothing
    /\ Answer(loading, v)

\* The caller is told, or makes do with what is kept.
LoadFailed ==
    /\ loading \in asked
    /\ loading' = Nothing
    /\ Answer(loading, Failure) \/ (kept # Nothing /\ Answer(loading, kept))
    /\ UNCHANGED <<kept, fresh>>

Expire ==
    /\ fresh /\ fresh' = FALSE
    /\ UNCHANGED <<kept, loading, asked, reply>>

Next ==
    \/ \E r \in Callers : Ask(r) \/ Hit(r) \/ Load(r)
    \/ \E v \in Values : Loaded(v)
    \/ LoadFailed
    \/ Expire

Spec == Init /\ [][Next]_vars

\* Every caller gets an answer, whoever loads.
Answered == \A r \in Callers : r \in asked ~> r \notin asked

Promise == Spec /\ Answered
=============================================================================
