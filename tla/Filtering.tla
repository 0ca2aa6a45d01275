----------------------------- MODULE Filtering -----------------------------
(***************************************************************************)
(* The comprehension [x for x in s if x in A], which keeps the order.  It  *)
(* is SelectSeq of the Sequences module, written as a recursive function   *)
(* because the proof system knows nothing of SelectSeq.                    *)
(***************************************************************************)
EXTENDS Integers, SequencesExt

Keep(s, A) ==
    LET kept[n \in 0 .. Len(s)] ==
            IF n = 0 THEN << >>
            ELSE IF s[n] \in A THEN Append(kept[n - 1], s[n]) ELSE kept[n - 1]
    IN kept[Len(s)]
=============================================================================
