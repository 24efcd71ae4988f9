---------------------------- MODULE EffectJournal ----------------------------
(***************************************************************************)
(* The effect journal (src/internal/gates/effects.go) for class A, the only  *)
(* class production code proposes: a proposal is approved, executed and      *)
(* finished, each in a transaction of its own, and an `executing` row found  *)
(* by a recovery pass is in doubt and goes back to `approved`.               *)
(***************************************************************************)
EXTENDS Integers

CONSTANTS
    Effect,     \* effect ids
    MaxStamp    \* bound on approvals: one instant each

VARIABLES
    estate,     \* effects.state; "none" before the row exists
    stamp,      \* effects.approved_ts, 0 when null
    clock,      \* the last approval instant given
    doubt       \* what ReconcileInDoubt listed and has not resolved yet

journal == <<estate, stamp, clock, doubt>>

JournalInit ==
    /\ estate = [e \in Effect |-> "none"] /\ stamp = [e \in Effect |-> 0]
    /\ clock = 0 /\ doubt = {}

Propose(e) ==
    /\ estate[e] = "none"
    /\ estate' = [estate EXCEPT ![e] = "proposed"]
    /\ UNCHANGED <<stamp, clock, doubt>>

Approve(e) ==
    /\ estate[e] = "proposed" /\ clock < MaxStamp
    /\ estate' = [estate EXCEPT ![e] = "approved"]
    /\ clock' = clock + 1
    /\ stamp' = [stamp EXCEPT ![e] = clock + 1]
    /\ UNCHANGED doubt

\* The human's refusal of a proposal.
Deny(e) ==
    /\ estate[e] = "proposed"
    /\ estate' = [estate EXCEPT ![e] = "failed"]
    /\ UNCHANGED <<stamp, clock, doubt>>

\* Committed before the act itself.
BeginExecute(e) ==
    /\ estate[e] = "approved"
    /\ estate' = [estate EXCEPT ![e] = "executing"]
    /\ UNCHANGED <<stamp, clock, doubt>>

\* BeginExecute on an approval older than effects.approval_expiry: the reset
\* commits although the call fails.
ExpireApproval(e) ==
    /\ estate[e] = "approved"
    /\ estate' = [estate EXCEPT ![e] = "proposed"]
    /\ stamp' = [stamp EXCEPT ![e] = 0]
    /\ UNCHANGED <<clock, doubt>>

\* Succeed and Fail want an `executing` row.
Finish(e, to) ==
    /\ estate[e] = "executing"
    /\ estate' = [estate EXCEPT ![e] = to]
    /\ UNCHANGED <<stamp, clock, doubt>>

\* ReconcileInDoubt lists the rows outside any transaction ...
ListInDoubt ==
    /\ doubt' = {e \in Effect : estate[e] = "executing"}
    /\ UNCHANGED <<estate, stamp, clock>>

\* ... and returns each that is still `executing` to `approved`.
ResolveInDoubt(e) ==
    /\ e \in doubt
    /\ doubt' = doubt \ {e}
    /\ estate' = IF estate[e] = "executing" THEN [estate EXCEPT ![e] = "approved"] ELSE estate
    /\ UNCHANGED <<stamp, clock>>
=============================================================================
