------------------------------ MODULE RunStore ------------------------------
(***************************************************************************)
(* The durable tables every actor of the run lifecycle shares: `runs`      *)
(* (state, generation, lease, origin, recovery attempts), the newest       *)
(* `run_events` row of a run, its `queue` row, its gate ask, its recovery   *)
(* card, its receipt, and the task's board column.                          *)
(*                                                                          *)
(* SQLite runs on one connection, so every write transaction is one atomic  *)
(* step; what a caller read outside the transaction may be stale.  The      *)
(* operators below are the transaction bodies; each constrains the store    *)
(* variables it changes and its caller says the rest is UNCHANGED.          *)
(*                                                                          *)
(* Time is what the code compares it with.  A lease is live, or lapsed      *)
(* (past its deadline and past any wake grace); the newest event of a run   *)
(* is fresh, stale (silent longer than recovery.dead_after) or ancient      *)
(* (longer than recovery.stale_finalize).                                   *)
(***************************************************************************)
EXTENDS RunFSM, FiniteSets

CONSTANTS
    Run,          \* run ids: the roots and the ids successors may take
    Root,         \* the runs a role launch creates
    NoFork,       \* roots of a class the platform never forks
    NoRun,        \* not a run id: the origin of a root
    MaxAttempts   \* recovery.max_attempts

ASSUME RunAssumption ==
    IsFiniteSet(Run) /\ Root \subseteq Run /\ NoFork \subseteq Root /\ NoRun \notin Run
ASSUME AttemptsAssumption == MaxAttempts \in Nat

VARIABLES
    state,      \* runs.state, "absent" while the id has no row
    gen,        \* runs.generation, the fencing counter
    attempts,   \* runs.recovery_attempts
    origin,     \* runs.parent_run_id and dispatch_id: of whom, at which generation, by whom
    lease,      \* runs.lease_deadline_ts, against the clock
    cursor,     \* age of the run's newest event
    flagged,    \* runs whose newest event is run.wedged
    ask,        \* the gate card the run parked on
    card,       \* the recovery ladder's terminal card
    queue,      \* the run's queue row
    receipts,   \* runs with a materialized receipt
    column      \* the task's board column

runRow   == <<state, gen, attempts, origin, lease>>
runEvent == <<cursor, flagged>>
cards    == <<ask, card>>
store    == <<state, gen, attempts, origin, lease, cursor, flagged, ask, card,
              queue, receipts, column>>

Origin == [of : Run, gen : Nat, by : {"interruption", "answer"}]
Root0  == [of |-> NoRun, gen |-> 0, by |-> "launch"]

StoreTypeOK ==
    /\ state \in [Run -> State \cup {"absent"}]
    /\ gen \in [Run -> Nat]
    /\ attempts \in [Run -> Nat]
    /\ origin \in [Run -> Origin \cup {Root0}]
    /\ lease \in [Run -> {"none", "live", "lapsed"}]
    /\ cursor \in [Run -> {"fresh", "stale", "ancient"}]
    /\ flagged \subseteq Run
    /\ ask \in [Run -> {"none", "open", "closed"}]
    /\ card \in [Run -> {"none", "open", "closed"}]
    /\ queue \in [Run -> {"none", "queued", "claimed", "done"}]
    /\ receipts \subseteq Run
    /\ column \in {"moving", "attention", "cancelled"}

StoreInit ==
    /\ state = [r \in Run |-> "absent"]
    /\ gen = [r \in Run |-> 0]
    /\ attempts = [r \in Run |-> 0]
    /\ origin = [r \in Run |-> Root0]
    /\ lease = [r \in Run |-> "none"]
    /\ cursor = [r \in Run |-> "fresh"]
    /\ flagged = {}
    /\ ask = [r \in Run |-> "none"]
    /\ card = [r \in Run |-> "none"]
    /\ queue = [r \in Run |-> "none"]
    /\ receipts = {}
    /\ column = "moving"

Exists(r) == state[r] # "absent"
ChildrenOf(p) == { r \in Run : origin[r].of = p }

-----------------------------------------------------------------------------
(* Transaction bodies.                                                      *)

\* AppendTx: the newest event of r is now this one.  Its fence is Fenced.
Append(r) == /\ cursor' = [cursor EXCEPT ![r] = "fresh"]
             /\ flagged' = flagged \ {r}

\* checkGeneration: an append carries exactly the row's generation.
Fenced(r, g) == g = gen[r]

\* TransitionTx: re-reads the row, checks the edge, bumps on a resume and
\* appends the event at the new generation.  The caller's generation is not
\* part of it.
Transition(r, to) ==
    /\ CanTransition(state[r], to)
    /\ state' = [state EXCEPT ![r] = to]
    /\ gen' = [gen EXCEPT ![r] = GenerationAfter(state[r], to, @)]
    /\ Append(r)

\* RenewLeaseTx: fenced by the generation and by the states a holder drives;
\* every other case is a silent no-op.
Renew(r, g) ==
    lease' = IF Fenced(r, g) /\ state[r] \in Occupied
                THEN [lease EXCEPT ![r] = "live"] ELSE lease

\* materializeQueueRowTx: insert a row unless an active one exists.
Materialize(r) ==
    queue' = IF queue[r] \in {"queued", "claimed"} THEN queue
             ELSE [queue EXCEPT ![r] = "queued"]

\* settleTerminal: close a claimed row and materialize the receipt.
SettleTerminal(r) ==
    /\ queue' = IF queue[r] = "claimed" THEN [queue EXCEPT ![r] = "done"] ELSE queue
    /\ receipts' = receipts \cup {r}

\* Mutant: the takeover forgets to fence the superseded generation.
BirthUnfenced(r, p, g, by, n) ==
    /\ origin' = [origin EXCEPT ![r] = [of |-> p, gen |-> g, by |-> by]]
    /\ attempts' = [attempts EXCEPT ![r] = n]
    /\ gen' = [gen EXCEPT ![r] = g]

\* A takeover: BumpGenerationTx fences p, CreateTx gives birth to its successor
\* r, queued at generation g with one dispatch id and n attempts spent.
Birth(r, p, g, by, n) ==
    /\ origin' = [origin EXCEPT ![r] = [of |-> p, gen |-> g, by |-> by]]
    /\ attempts' = [attempts EXCEPT ![r] = n]
    /\ gen' = [gen EXCEPT ![p] = @ + 1, ![r] = g]
=============================================================================
