------------------------------- MODULE RunFSM -------------------------------
(***************************************************************************)
(* The run state machine of src/internal/run/run.go: the eleven stored     *)
(* states, the ratified edges between them, which states are terminal and  *)
(* which edge bumps the fencing generation.  Constant-level only; every    *)
(* other module of the run lifecycle is built on these operators.          *)
(***************************************************************************)
EXTENDS Integers

State == { "new", "queued", "claimed", "running", "parked", "draining",
           "completed", "crashed", "finalized", "tombstoned", "died-at-gate" }

\* The ratified edge set (the map `transitions`).
Edges == [ s \in State |->
    CASE s = "new"      -> { "queued" }
      [] s = "queued"   -> { "claimed", "finalized" }
      [] s = "claimed"  -> { "running", "crashed" }
      [] s = "running"  -> { "parked", "draining", "completed", "crashed", "tombstoned" }
      [] s = "draining" -> { "parked", "completed", "crashed" }
      [] s = "parked"   -> { "running", "died-at-gate", "finalized" }
      [] s = "crashed"  -> { "completed", "tombstoned", "finalized" }
      [] OTHER          -> {} ]

\* "absent" is a run id with no row yet: it has no outgoing edge.
CanTransition(from, to) == from \in State /\ to \in Edges[from]

\* No further transition: a crashed run is NOT terminal, recovery supersedes it.
IsTerminal(s) == s \in State /\ Edges[s] = {}

\* Mutant: a resume hands the generation back instead of on.
GenerationAfterBack(from, to, g) == IF from = "parked" /\ to = "running" THEN g - 1 ELSE g

\* parked -> running is the resume: the only edge that takes over the run.
Bumps(from, to) == from = "parked" /\ to = "running"
GenerationAfter(from, to, g) == IF Bumps(from, to) THEN g + 1 ELSE g

\* The states that hold a lane slot and that the recovery ladder observes.
Occupied == { "claimed", "running", "draining" }

\* The states a kanban column counts as still moving (attentionTx).
Unfinished == { "new", "queued", "claimed", "running", "draining", "parked" }
=============================================================================
