------------------------------ MODULE PlanPromise ------------------------------
(***************************************************************************)
(* What the execution of an approved plan promises, whatever lives, pauses, *)
(* splits and failed snapshots it takes (stage/skeleton.go, dispatchExecute *)
(* and forkresume.go): the steps are recorded done in plan order, one at a  *)
(* time; a life that ends early goes back no further than the prefix its    *)
(* evidence supports, which is never lost; and verification is handed the   *)
(* plan once, and only when every step of it is recorded done.              *)
(***************************************************************************)
EXTENDS Naturals

CONSTANT NSteps     \* steps of the approved plan

VARIABLES
    done,   \* the steps recorded done: 1..done
    kept,   \* of these, the prefix another life may resume from
    handed  \* whether verification has the work

vars == <<done, kept, handed>>

Init == done = 0 /\ kept = 0 /\ handed = FALSE

\* The next step is done.  Its evidence extends the kept prefix, or is missing.
FinishStep ==
    /\ ~ handed /\ done < NSteps
    /\ done' = done + 1
    /\ kept' \in IF kept = done THEN {kept, done + 1} ELSE {kept}
    /\ UNCHANGED handed

\* Another life begins where the evidence ends.
Resume ==
    /\ ~ handed
    /\ done' = kept
    /\ UNCHANGED <<kept, handed>>

HandOver ==
    /\ done = NSteps
    /\ handed' = TRUE
    /\ UNCHANGED <<done, kept>>

Next == FinishStep \/ Resume \/ HandOver

Spec == Init /\ [][Next]_vars
=============================================================================
