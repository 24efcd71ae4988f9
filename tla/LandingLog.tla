----------------------------- MODULE LandingLog -----------------------------
(***************************************************************************)
(* What accepting promises, whatever is driven twice, expired, re-driven,    *)
(* raced or cut short by a crash (src/internal/accept/accept.go): the        *)
(* project's branch is a log that only grows, an effect enters it at most    *)
(* once and never under a claim it did not make, and a deliverable is        *)
(* accepted only when an effect claimed for it is in the log.                *)
(***************************************************************************)
EXTENDS Naturals, Sequences

CONSTANTS
    Effect,
    Deliverable,
    None        \* no claim yet, and an entry of somebody else

VARIABLES
    log,        \* whose commits the branch holds, in order
    work,       \* the deliverable each effect was claimed for
    accepted    \* the deliverables recorded accepted

vars == <<log, work, accepted>>

InLog(e) == \E i \in DOMAIN log : log[i] = e

Init == log = <<>> /\ work = [e \in Effect |-> None] /\ accepted = {}

Claim(e, d) ==
    /\ work[e] = None /\ d \notin accepted
    /\ work' = [work EXCEPT ![e] = d]
    /\ UNCHANGED <<log, accepted>>

Land(e) ==
    /\ work[e] # None /\ ~ InLog(e)
    /\ log' = Append(log, e)
    /\ UNCHANGED <<work, accepted>>

OthersLand ==
    /\ log' = Append(log, None)
    /\ UNCHANGED <<work, accepted>>

Accept(e) ==
    /\ InLog(e)
    /\ accepted' = accepted \cup {work[e]}
    /\ UNCHANGED <<log, work>>

Next ==
    \/ \E e \in Effect : \/ \E d \in Deliverable : Claim(e, d)
                         \/ Land(e) \/ Accept(e)
    \/ OthersLand

Spec == Init /\ [][Next]_vars
=============================================================================
