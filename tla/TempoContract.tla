---------------------------- MODULE TempoContract ----------------------------
(***************************************************************************)
(* What a Tempo run promises of the code it accepts (the flow in           *)
(* swamp/README.md): a candidate is edited, then tested, then measured,    *)
(* then reviewed, and only then does it become the best revision.  Failing *)
(* any of these sends it back to be edited again, or drops it; nothing     *)
(* else ever replaces the best revision.                                   *)
(***************************************************************************)
CONSTANT Revisions

VARIABLES best, candidate, stage

contractVars == <<best, candidate, stage>>

Init ==
    /\ best \in Revisions
    /\ candidate = best
    /\ stage = "none"

Edit ==
    /\ stage = "none"
    /\ stage' = "edited"
    /\ candidate' \in Revisions
    /\ UNCHANGED best

Pass ==
    /\ \/ stage = "edited" /\ stage' = "tested"
       \/ stage = "tested" /\ stage' = "measured"
       \/ stage = "measured" /\ stage' = "approved"
    /\ UNCHANGED <<best, candidate>>

Accept ==
    /\ stage = "approved"
    /\ best' = candidate
    /\ stage' = "none"
    /\ UNCHANGED candidate

\* The candidate is sent back to be edited, or dropped for the best revision.
Return ==
    /\ stage' = "none"
    /\ candidate' \in {candidate, best}
    /\ UNCHANGED best

Next == Edit \/ Pass \/ Accept \/ Return

Spec == Init /\ [][Next]_contractVars
===============================================================================
