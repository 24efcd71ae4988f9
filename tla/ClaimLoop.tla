----------------------------- MODULE ClaimLoop ------------------------------
(***************************************************************************)
(* The scheduler (src/internal/scheduler): the Enqueue ingress and the      *)
(* claim loop.  One goroutine runs claim passes, one at a time.  A pass     *)
(* lists, then writes one transaction per listed row; each list may be      *)
(* stale by the time its rows are written.                                  *)
(*                                                                          *)
(* One owner and one lane: the per-(user, lane) counters are independent.   *)
(* All work is interactive, so the background stop and the pause flag do    *)
(* not hold a candidate back, and the priority order is left open.          *)
(***************************************************************************)
EXTENDS DispatchLegs

CONSTANT LaneCap      \* the lane's declared concurrency cap

ASSUME LaneCapAssumption == LaneCap \in Nat \ {0}

VARIABLES
    pass,       \* the claim pass in flight
    admitting   \* runs a live caller has created and not yet enqueued

claimVars == <<pass, admitting>>

\* at: what the pass does next; todo: its list; ended: the listed runs read as
\* terminal; active: its own count of the lane's occupied slots.
IdlePass == [at |-> "idle", todo |-> {}, ended |-> {}, active |-> 0]
Pass == [ at : {"idle", "materialize", "settle", "claim"}, todo : SUBSET Run,
          ended : SUBSET Run, active : Nat ]

ClaimTypeOK == pass \in Pass /\ admitting \subseteq Run
ClaimInit   == pass = IdlePass /\ admitting = {}

\* Mutant: the self-heal also closes the row of a run still being dispatched.
EndedOrStuck(s) == IsTerminal(s) \/ s \in {"crashed", "claimed"}

Ended(s)      == IsTerminal(s) \/ s = "crashed"
ActiveRows    == { r \in Run : queue[r] \in {"queued", "claimed"} }
OccupiedRuns  == { r \in Run : state[r] \in Occupied }
Next1(r)      == pass' = [pass EXCEPT !.todo = @ \ {r}]

-----------------------------------------------------------------------------
\* launchRole: create the run, then (a second transaction) enqueue it.
Create(r) ==
    /\ r \in Root /\ state[r] = "absent"
    /\ state' = [state EXCEPT ![r] = "new"]
    /\ Append(r)
    /\ admitting' = admitting \cup {r}
    /\ UNCHANGED <<gen, attempts, origin, lease, cards, queue, receipts, column, legVars, pass>>

\* Enqueue: new -> queued and the queue row, in one transaction; any state but
\* new and queued is an error to its caller.
Enqueue(r) ==
    /\ r \in admitting
    /\ admitting' = admitting \ {r}
    /\ \/ state[r] = "new" /\ Transition(r, "queued") /\ Materialize(r)
       \/ state[r] = "queued" /\ Materialize(r) /\ UNCHANGED <<state, gen, runEvent>>
       \/ state[r] \notin {"new", "queued"} /\ UNCHANGED <<state, gen, runEvent, queue>>
    /\ UNCHANGED <<attempts, origin, lease, cards, receipts, column, legVars, pass>>

\* A pass begins by listing the queued runs that have no active queue row.
PassStart ==
    /\ pass.at = "idle"
    /\ pass' = [IdlePass EXCEPT !.at = "materialize",
                  !.todo = { r \in Run : state[r] = "queued" } \ ActiveRows]
    /\ UNCHANGED <<store, legVars, admitting>>

MaterializeOrphan(r) ==
    /\ pass.at = "materialize" /\ r \in pass.todo
    /\ Materialize(r) /\ Next1(r)
    /\ UNCHANGED <<runRow, runEvent, cards, receipts, column, legVars, admitting>>

\* settleEndedRows lists the active rows of ended runs with the state it read.
ListEndedRows ==
    /\ pass.at = "materialize" /\ pass.todo = {}
    /\ LET ended == { r \in ActiveRows : Ended(state[r]) }
       IN  pass' = [pass EXCEPT !.at = "settle", !.todo = ended,
                                !.ended = { r \in ended : IsTerminal(state[r]) }]
    /\ UNCHANGED <<store, legVars, admitting>>

\* One transaction per row.  A run listed as crashed settles its queue row
\* only: no receipt.
SettleEndedRow(r) ==
    /\ pass.at = "settle" /\ r \in pass.todo
    /\ IF r \in ActiveRows
          THEN /\ queue' = [queue EXCEPT ![r] = "done"]
               /\ receipts' = receipts \cup ({r} \cap pass.ended)
          ELSE UNCHANGED <<queue, receipts>>
    /\ Next1(r)
    /\ UNCHANGED <<runRow, runEvent, cards, column, legVars, admitting>>

\* The candidates and the occupied slots are read once per pass.
ReadCandidates ==
    /\ pass.at = "settle" /\ pass.todo = {}
    /\ pass' = [at |-> "claim", ended |-> {},
                todo |-> { r \in Run : queue[r] = "queued" /\ state[r] = "queued" },
                active |-> Cardinality(OccupiedRuns)]
    /\ UNCHANGED <<store, legVars, admitting>>

\* claimOne: the queue row's compare-and-swap, the transition and the lease
\* in one transaction, then the dispatch goroutine.  A lost swap skips the
\* candidate; a refused transition rolls back and ends the pass.
Claim(r) ==
    /\ pass.at = "claim" /\ r \in pass.todo /\ pass.active < LaneCap
    /\ queue[r] = "queued" /\ CanTransition(state[r], "claimed")
    /\ queue' = [queue EXCEPT ![r] = "claimed"]
    /\ Transition(r, "claimed")
    /\ lease' = [lease EXCEPT ![r] = "live"]
    /\ legs' = legs \cup {[run |-> r, gen |-> gen[r], by |-> "dispatch", pc |-> "claimed"]}
    /\ pass' = [pass EXCEPT !.todo = @ \ {r}, !.active = @ + 1]
    /\ UNCHANGED <<attempts, origin, cards, receipts, column, marks, admitting>>

ClaimLost(r) ==
    /\ pass.at = "claim" /\ r \in pass.todo /\ pass.active < LaneCap
    /\ \/ queue[r] # "queued" /\ Next1(r)
       \/ queue[r] = "queued" /\ ~CanTransition(state[r], "claimed") /\ pass' = IdlePass
    /\ UNCHANGED <<store, legVars, admitting>>

\* Every remaining candidate meets a full lane.
PassEnd ==
    /\ pass.at = "claim" /\ (pass.todo = {} \/ pass.active >= LaneCap)
    /\ pass' = IdlePass
    /\ UNCHANGED <<store, legVars, admitting>>

PassStep ==
    \/ PassStart \/ ListEndedRows \/ ReadCandidates \/ PassEnd
    \/ \E r \in Run : MaterializeOrphan(r) \/ SettleEndedRow(r) \/ Claim(r) \/ ClaimLost(r)
=============================================================================
