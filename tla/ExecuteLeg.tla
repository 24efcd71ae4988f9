------------------------------ MODULE ExecuteLeg ------------------------------
(***************************************************************************)
(* The execute leg of one task: the plan's steps driven in order, each in   *)
(* one or two engine sessions, the task ledger that records them, the       *)
(* worktree they write, the snapshots taken of it, and the resume of a      *)
(* recovery successor from what its lineage finished.                       *)
(*                                                                          *)
(* A tree is the sequence of pieces of work it holds, each [step, by,       *)
(* whole]: the plan step, the run that did it and whether its session       *)
(* ended.  Ledger writes, file writes, git commands and run transitions     *)
(* are separate, so the process may die between any two of them.            *)
(*                                                                          *)
(* The recovery ladder is reduced to what it promises (RunLifecycle): a     *)
(* running run nobody drives is crashed, a crashed one is superseded while  *)
(* the budget lasts.                                                        *)
(***************************************************************************)
EXTENDS Naturals, Sequences, FiniteSets

CONSTANTS
    NSteps,     \* steps of the approved plan
    NoTree,     \* no worktree, or no evidence
    MaxForks,   \* recovery.max_attempts
    MaxFaults,  \* bound: deaths of the process, failed steps of the leg
    MaxLapses,  \* bound: step-close snapshots that fail
    MaxStrays,  \* bound: sessions whose worktree cannot be resolved
    MaxPauses   \* bound: times the owner pauses automation

ASSUME PlanAssumption == NSteps \in Nat \ {0} /\ MaxForks \in Nat

VARIABLES
    backed,     \* whether the task belongs to a registered project
    run,        \* the lineage's newest execute run
    leg,        \* the goroutine that drives it
    items,      \* per step, its ledger status and the run that wrote it
    evidence,   \* per step, the snapshot its ledger item names
    forwarded,  \* steps handed forward in state.next_actions
    disk,       \* the tree of the working directory
    filed,      \* the deliverable file: the run whose text it is, or 0
    registered, \* runs that put the deliverable in the ledger
    hold,       \* the owner's pause switch and how often it was thrown
    handover,   \* the board column and the verify run
    tally       \* faults, lapses and strays so far

ledger == <<items, evidence, forwarded, registered>>
vars == <<backed, run, leg, ledger, disk, filed, hold, handover, tally>>

Step    == 1..NSteps
Lineage == 1..(1 + MaxForks)
Work    == [step : Step, by : Lineage, whole : BOOLEAN]

ASSUME NoTreeAssumption == NoTree \notin Seq(Work)

NoLeg      == [at |-> "none"]
LegAt(pc)  == leg' = [leg EXCEPT !.at = pc]
Driving    == leg # NoLeg

Init ==
    /\ backed \in BOOLEAN
    /\ run = [n |-> 1, st |-> "queued"]
    /\ leg = NoLeg
    /\ items = [i \in Step |-> [status |-> "absent", by |-> 0]]
    /\ evidence = [i \in Step |-> NoTree]
    /\ forwarded = {} /\ registered = {}
    /\ disk = NoTree /\ filed = 0
    /\ hold = [on |-> FALSE, thrown |-> 0]
    /\ handover = [column |-> "executing", verify |-> "absent"]
    /\ tally = [faults |-> 0, lapses |-> 0, strays |-> 0]

-----------------------------------------------------------------------------
(* The worktree.                                                            *)

\* The tree a snapshot commit records; a task without a project has none.
Snapshot == IF backed THEN disk ELSE NoTree

\* The attempt's base, recorded when the worktree is made.
Base == IF backed /\ disk # NoTree THEN <<>> ELSE NoTree

Opened == IF disk = NoTree THEN <<>> ELSE disk

\* The working directory with step i's work by run n in it, begun or whole.
Begun(i, n) ==
    LET w == [step |-> i, by |-> n, whole |-> FALSE]
    IN  IF w \in { Opened[k] : k \in DOMAIN Opened } THEN Opened ELSE Append(Opened, w)
Ended(i, n) ==
    [k \in DOMAIN disk |->
        IF disk[k].step = i /\ disk[k].by = n THEN [disk[k] EXCEPT !.whole = TRUE] ELSE disk[k]]

-----------------------------------------------------------------------------
(* The resume point.                                                        *)

\* Recorded done, with a snapshot to resume on.
Finished(i) == items[i].status = "done_unverified" /\ evidence[i] # NoTree

\* The length of the finished prefix of the plan.
ResumeIndex ==
    CHOOSE k \in 0..NSteps :
        /\ \A i \in 1..k : Finished(i)
        /\ k < NSteps => ~ Finished(k + 1)

ResumeTree == IF ResumeIndex > 0 THEN evidence[ResumeIndex] ELSE Base

-----------------------------------------------------------------------------
(* The leg.  `step` is the plan step it drives, `sub` the session of that   *)
(* step, `from` the resume point, `tree` what it restores and then what its *)
(* step-close snapshot returned, `astray` whether a session of this step    *)
(* worked outside the worktree.                                             *)

Dispatch ==
    /\ run.st = "queued" /\ ~ Driving
    /\ run' = [run EXCEPT !.st = "running"]
    /\ LET fork == run.n > 1
           from == IF fork THEN ResumeIndex ELSE 0
       IN  leg' = [at |-> "restore", step |-> from + 1, sub |-> 1, from |-> from,
                   tree |-> IF fork THEN ResumeTree ELSE NoTree, astray |-> FALSE]
    /\ UNCHANGED <<backed, ledger, disk, filed, hold, handover, tally>>

\* Mutant: the successor drives whatever the dead run left on disk.
RestoreNothing ==
    /\ leg.at = "restore"
    /\ disk' = disk
    /\ LegAt("seed")
    /\ UNCHANGED <<backed, run, ledger, filed, hold, handover, tally>>

\* A successor puts the worktree back on the tree it resumes from; nothing
\* to restore is not an error.
Restore ==
    /\ leg.at = "restore"
    /\ disk' = IF leg.tree # NoTree THEN leg.tree ELSE disk
    /\ LegAt("seed")
    /\ UNCHANGED <<backed, run, ledger, filed, hold, handover, tally>>

\* Mutant: one step too many.
OnwardPast(i) ==
    leg' = [leg EXCEPT !.at = IF i <= NSteps + 1 THEN "boundary" ELSE "stageclose",
                       !.step = i, !.sub = 1, !.astray = FALSE]

\* Where the leg goes when `i` is the next step to drive.
Onward(i) ==
    leg' = [leg EXCEPT !.at = IF i <= NSteps THEN "boundary" ELSE "stageclose",
                       !.step = i, !.sub = 1, !.astray = FALSE]

\* Mutant: one item too many is left as the dead run wrote it.
SeedPast ==
    /\ leg.at = "seed"
    /\ items' = [i \in Step |-> IF i <= leg.from + 1 THEN items[i]
                                ELSE [status |-> "pending", by |-> run.n]]
    /\ Onward(leg.from + 1)
    /\ UNCHANGED <<backed, run, evidence, forwarded, registered, disk, filed, hold, handover, tally>>

\* What the lineage finished stays done, the rest is pending; an empty
\* evidence ref in the write leaves the recorded one.
Seed ==
    /\ leg.at = "seed"
    /\ items' = [i \in Step |-> IF i <= leg.from THEN items[i]
                                ELSE [status |-> "pending", by |-> run.n]]
    /\ Onward(leg.from + 1)
    /\ UNCHANGED <<backed, run, evidence, forwarded, registered, disk, filed, hold, handover, tally>>

\* The owner's pause is read between sessions: a held leg parks and returns.
PausePark ==
    /\ leg.at = "boundary" /\ hold.on
    /\ run' = [run EXCEPT !.st = "parked"]
    /\ leg' = NoLeg
    /\ UNCHANGED <<backed, ledger, disk, filed, hold, handover, tally>>

\* A session opens the worktree, made on the first call, and writes in it.
StartSession ==
    /\ leg.at = "boundary" /\ ~ hold.on
    /\ disk' = Begun(leg.step, run.n)
    /\ LegAt("session")
    /\ UNCHANGED <<backed, run, ledger, filed, hold, handover, tally>>

\* A worktree that cannot be resolved is a warning: the session works in the
\* run's plain directory.
StraySession ==
    /\ leg.at = "boundary" /\ ~ hold.on
    /\ backed /\ tally.strays < MaxStrays
    /\ leg' = [leg EXCEPT !.at = "session", !.astray = TRUE]
    /\ tally' = [tally EXCEPT !.strays = @ + 1]
    /\ UNCHANGED <<backed, run, ledger, disk, filed, hold, handover>>

\* Mutant: every overflow of a step splits it again.
SplitAgain ==
    /\ leg.at = "session"
    /\ items' = [items EXCEPT ![leg.step] = [status |-> "in_progress", by |-> run.n]]
    /\ forwarded' = {leg.step}
    /\ leg' = [leg EXCEPT !.at = "boundary", !.sub = 2]
    /\ UNCHANGED <<backed, run, evidence, registered, disk, filed, hold, handover, tally>>

\* The first overflow of a step ends its session at a checkpoint: the item is
\* handed forward and a second session continues it.
Split ==
    /\ leg.at = "session" /\ leg.sub = 1
    /\ items' = [items EXCEPT ![leg.step] = [status |-> "in_progress", by |-> run.n]]
    /\ forwarded' = {leg.step}
    /\ leg' = [leg EXCEPT !.at = "boundary", !.sub = 2]
    /\ UNCHANGED <<backed, run, evidence, registered, disk, filed, hold, handover, tally>>

\* Mutant: only a fresh attempt files the deliverable.
EndSessionOnce ==
    /\ leg.at = "session"
    /\ disk' = IF leg.astray THEN disk ELSE Ended(leg.step, run.n)
    /\ LegAt(IF leg.step = NSteps /\ run.n = 1 THEN "file" ELSE "close")
    /\ UNCHANGED <<backed, run, ledger, filed, hold, handover, tally>>

\* The session ends with its result; the last step's is the deliverable.
EndSession ==
    /\ leg.at = "session"
    /\ disk' = IF leg.astray THEN disk ELSE Ended(leg.step, run.n)
    /\ LegAt(IF leg.step = NSteps THEN "file" ELSE "close")
    /\ UNCHANGED <<backed, run, ledger, filed, hold, handover, tally>>

\* The file is replaced by rename, then named in the ledger.
FileDeliverable ==
    /\ leg.at = "file"
    /\ filed' = run.n
    /\ LegAt("register")
    /\ UNCHANGED <<backed, run, ledger, disk, registered, hold, handover, tally>>

RegisterDeliverable ==
    /\ leg.at = "register"
    /\ registered' = registered \cup {run.n}
    /\ LegAt("close")
    /\ UNCHANGED <<backed, run, items, evidence, forwarded, disk, filed, hold, handover, tally>>

\* The step-close snapshot; a failed one is a warning and an absence.
CloseSnapshot ==
    /\ leg.at = "close"
    /\ \/ /\ leg' = [leg EXCEPT !.at = "record", !.tree = Snapshot]
          /\ UNCHANGED tally
       \/ /\ backed /\ tally.lapses < MaxLapses
          /\ leg' = [leg EXCEPT !.at = "record", !.tree = NoTree]
          /\ tally' = [tally EXCEPT !.lapses = @ + 1]
    /\ UNCHANGED <<backed, run, ledger, disk, filed, hold, handover>>

\* Done, with its evidence; an absent one leaves what the item names.
RecordDone ==
    /\ leg.at = "record"
    /\ items' = [items EXCEPT ![leg.step] = [status |-> "done_unverified", by |-> run.n]]
    /\ evidence' = [evidence EXCEPT ![leg.step] = IF leg.tree # NoTree THEN leg.tree ELSE @]
    /\ Onward(leg.step + 1)
    /\ UNCHANGED <<backed, run, forwarded, registered, disk, filed, hold, handover, tally>>

\* The stage close: nothing is handed forward any more, and every step of the
\* plan has to be accounted for.
StageClose ==
    /\ leg.at = "stageclose"
    /\ forwarded' = {}
    /\ IF \A i \in Step : items[i].status = "done_unverified"
          THEN LegAt("legsnap") /\ UNCHANGED run
          ELSE leg' = NoLeg /\ run' = [run EXCEPT !.st = "crashed"]
    /\ UNCHANGED <<backed, items, evidence, registered, disk, filed, hold, handover, tally>>

\* The leg-close snapshot changes no tree; then the run completes.
Complete ==
    /\ leg.at = "legsnap"
    /\ run' = [run EXCEPT !.st = "completed"]
    /\ LegAt("board")
    /\ UNCHANGED <<backed, ledger, disk, filed, hold, handover, tally>>

MoveBoard ==
    /\ leg.at = "board"
    /\ handover' = [handover EXCEPT !.column = "verifying"]
    /\ LegAt("create")
    /\ UNCHANGED <<backed, run, ledger, disk, filed, hold, tally>>

CreateVerify ==
    /\ leg.at = "create"
    /\ handover' = [handover EXCEPT !.verify = "new"]
    /\ LegAt("enqueue")
    /\ UNCHANGED <<backed, run, ledger, disk, filed, hold, tally>>

EnqueueVerify ==
    /\ leg.at = "enqueue"
    /\ handover' = [handover EXCEPT !.verify = "queued"]
    /\ leg' = NoLeg
    /\ UNCHANGED <<backed, run, ledger, disk, filed, hold, tally>>

LegStep ==
    \/ Restore \/ Seed \/ PausePark \/ StartSession \/ StraySession \/ Split \/ EndSession
    \/ FileDeliverable \/ RegisterDeliverable \/ CloseSnapshot \/ RecordDone \/ StageClose
    \/ Complete \/ MoveBoard \/ CreateVerify \/ EnqueueVerify

-----------------------------------------------------------------------------
(* What befalls the leg, and what drives it again.                          *)

\* A failed step: the run is crashed while it runs; after its completion the
\* error only ends the leg.
LegFails ==
    /\ Driving /\ leg.at \notin {"legsnap", "board"} /\ tally.faults < MaxFaults
    /\ leg' = NoLeg
    /\ run' = IF run.st = "running" THEN [run EXCEPT !.st = "crashed"] ELSE run
    /\ tally' = [tally EXCEPT !.faults = @ + 1]
    /\ UNCHANGED <<backed, ledger, disk, filed, hold, handover>>

ProcessDies ==
    /\ Driving /\ tally.faults < MaxFaults
    /\ leg' = NoLeg
    /\ tally' = [tally EXCEPT !.faults = @ + 1]
    /\ UNCHANGED <<backed, run, ledger, disk, filed, hold, handover>>

Reap ==
    /\ run.st = "running" /\ ~ Driving
    /\ run' = [run EXCEPT !.st = "crashed"]
    /\ UNCHANGED <<backed, leg, ledger, disk, filed, hold, handover, tally>>

\* The successor shares the task's worktree; a plain directory is its own.
Fork ==
    /\ run.st = "crashed" /\ run.n \in 1..MaxForks
    /\ run' = [n |-> run.n + 1, st |-> "queued"]
    /\ disk' = IF backed THEN disk ELSE NoTree
    /\ UNCHANGED <<backed, leg, ledger, filed, hold, handover, tally>>

\* The owner pauses, and lifts the pause.
ThrowHold ==
    /\ hold.on \/ hold.thrown < MaxPauses
    /\ hold' = [on |-> ~ hold.on, thrown |-> IF hold.on THEN hold.thrown ELSE hold.thrown + 1]
    /\ UNCHANGED <<backed, run, leg, ledger, disk, filed, handover, tally>>

\* A person resumes the parked run; no leg is started for it.
ResumeRun ==
    /\ run.st = "parked"
    /\ run' = [run EXCEPT !.st = "running"]
    /\ UNCHANGED <<backed, leg, ledger, disk, filed, hold, handover, tally>>

Next ==
    \/ Dispatch \/ LegStep \/ LegFails \/ ProcessDies \/ Reap \/ Fork \/ ThrowHold \/ ResumeRun

\* The scheduler, the ladder and a leg that is alive go on; faults, pauses and
\* people are under no obligation.
Fairness == WF_vars(Dispatch) /\ WF_vars(LegStep) /\ WF_vars(Reap) /\ WF_vars(Fork)

Spec     == Init /\ [][Next]_vars
FairSpec == Spec /\ Fairness

-----------------------------------------------------------------------------
(* Properties.                                                              *)

Tree == Seq(Work)

ExecuteTypeOK ==
    /\ backed \in BOOLEAN
    /\ run \in [n : Lineage, st : {"queued", "running", "parked", "crashed", "completed"}]
    /\ Driving => leg.step \in 1..(NSteps + 1) /\ leg.sub \in 1..2 /\ leg.from \in 0..NSteps
    /\ \A i \in Step :
          /\ items[i] \in [status : {"absent", "pending", "in_progress", "done_unverified"},
                           by : {0} \cup Lineage]
          /\ evidence[i] # NoTree => evidence[i] \in Tree
    /\ forwarded \subseteq Step /\ registered \subseteq Lineage
    /\ disk # NoTree => disk \in Tree
    /\ filed \in {0} \cup Lineage

\* The whole work of steps 1..k in plan order and nothing else.
WholeUpTo(tree, k) ==
    /\ Len(tree) = k
    /\ \A i \in 1..k : tree[i].step = i /\ tree[i].whole

\* A step's first session opens on the finished work of exactly the steps
\* before it: no residue of a dead attempt, no step missing, however many
\* lives, pauses and failed snapshots came between (stage/skeleton.go:727).
\* A session that worked outside the worktree forfeits it.
StepsBuildOnFinishedWork ==
    [][leg.at = "boundary" /\ leg'.at = "session" /\ leg.sub = 1 =>
          IF backed THEN tally.strays > 0 \/ WholeUpTo(Opened, leg.step - 1)
                    ELSE \A k \in DOMAIN Opened : Opened[k].by = run.n /\ Opened[k].whole]_vars

\* A last step recorded done means its own text is the deliverable on file and
\* in the ledger, whichever life wrote it.
DoneMeansDelivered ==
    items[NSteps].status = "done_unverified" => filed = items[NSteps].by /\ filed \in registered

\* Verification is handed a tree that holds the whole of every step.
WholeWorkIsVerified ==
    handover.verify # "absent" /\ backed /\ tally.strays = 0 => WholeUpTo(disk, NSteps)

\* No life of the lineage loses finished steps: the prefix to resume from only
\* grows, and a step recorded done stays so, by the run that recorded it and on
\* its snapshot, whoever writes the ledger (stage/skeleton.go:773).  Only a
\* successor's seed takes one back, and only past the prefix it resumes from.
ProgressIsKept ==
    [][/\ ResumeIndex' >= ResumeIndex
       /\ \A i \in Step : items[i].status = "done_unverified" =>
             \/ items'[i] = items[i] /\ evidence'[i] = evidence[i]
             \/ leg.at = "seed" /\ i > ResumeIndex /\ items'[i].status = "pending"]_vars

\* The execution ends: completed, parked for a person, or out of lives.  One
\* split per step is what bounds it.
ExecutionSettles ==
    <>[](/\ leg = NoLeg
         /\ \/ run.st \in {"completed", "parked"}
            \/ run = [n |-> 1 + MaxForks, st |-> "crashed"])

\* The leg implements PlanPromise: `done` is the recorded prefix of the plan,
\* `kept` the prefix a successor resumes from.
DonePrefix ==
    CHOOSE k \in 0..NSteps : \A i \in Step : items[i].status = "done_unverified" <=> i <= k

Promise == INSTANCE PlanPromise WITH
    done <- DonePrefix, kept <- ResumeIndex, handed <- handover.verify # "absent"

PlanIsKept == Promise!Spec
=============================================================================
