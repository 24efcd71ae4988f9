------------------------- MODULE ExecuteLegProofs -------------------------
(***************************************************************************)
(* Proofs about ExecuteLeg, for every number of steps and forks and every   *)
(* bound on faults, lapses, strays and pauses: the plan's record is a        *)
(* prefix of the plan, the leg implements PlanPromise, no life loses         *)
(* finished steps, and a last step recorded done has its deliverable.  The   *)
(* second half is about the trees: every step opens on the whole work of     *)
(* the steps before it, and verification is handed the whole work.           *)
(***************************************************************************)
EXTENDS ExecuteLeg, TLAPS

\* The points of a leg: driving a step, driving its run, past the run's end.
Stepping == {"boundary", "session", "file", "register", "close", "record"}
Running  == {"restore", "seed"} \cup Stepping \cup {"stageclose", "legsnap"}
After    == {"board", "create", "enqueue"}

\* The plan's first k steps are recorded done and no others.
DoneUpTo(k) == \A i \in Step : items[i].status = "done_unverified" <=> i <= k

\* The lineage may be resumed after k steps.
KeptUpTo(k) == /\ \A i \in 1..k : Finished(i)
               /\ k < NSteps => ~ Finished(k + 1)

Status    == {"absent", "pending", "in_progress", "done_unverified"}
RunStatus == {"queued", "running", "parked", "crashed", "completed"}

\* The shape of the records: nothing is said of the trees.
LegShape ==
    leg = NoLeg
    \/ /\ leg = [at |-> leg.at, step |-> leg.step, sub |-> leg.sub, from |-> leg.from,
                 tree |-> leg.tree, astray |-> leg.astray]
       /\ leg.at \in Running \cup After
       /\ leg.step \in 1..(NSteps + 1) /\ leg.from \in 0..NSteps

Others ==
    /\ run \in [n : Lineage, st : RunStatus]
    /\ items \in [Step -> [status : Status, by : {0} \cup Lineage]]
    /\ evidence = [i \in Step |-> evidence[i]]
    /\ handover = [column |-> handover.column, verify |-> handover.verify]

Shape == LegShape /\ Others

\* A leg drives a running run; only a completed one is handed over.
Standing ==
    /\ leg.at \in Running => run.st = "running"
    /\ leg.at \in After => run.st = "completed"
    /\ handover.verify # "absent" => run.st = "completed"

\* The record of the plan, and where the leg stands in it.
Recorded ==
    /\ \E k \in 0..NSteps : DoneUpTo(k)
    /\ \E k \in 0..NSteps : KeptUpTo(k)

Placed ==
    /\ run.n = 1 /\ run.st = "queued" => DoneUpTo(0)
    /\ leg.at \in {"restore", "seed"} => KeptUpTo(leg.from)
    /\ leg.at \in Stepping => leg.step <= NSteps /\ DoneUpTo(leg.step - 1)
    /\ leg.at = "stageclose" => DoneUpTo(NSteps)
    /\ leg.at = "legsnap" \/ run.st = "completed" => DoneUpTo(NSteps)

Course == Recorded /\ Placed

\* The deliverable on its way into the ledger.
Filing ==
    /\ DoneMeansDelivered
    /\ leg.at \in {"file", "register"} => leg.step = NSteps
    /\ leg.at = "register" => filed = run.n
    /\ leg.at \in {"close", "record"} /\ leg.step = NSteps => filed = run.n /\ run.n \in registered

IInv == Shape /\ Standing /\ Course /\ Filing

-----------------------------------------------------------------------------
(* The two readings of the record.                                          *)

LEMMA PlanTypes == NSteps \in Nat /\ NSteps > 0 /\ MaxForks \in Nat
BY PlanAssumption DEF PlanAssumption

LEMMA StepOrEnd == \A f \in 0..NSteps : f + 1 <= NSteps \/ f = NSteps
BY PlanTypes

LEMMA DonePrefixIs ==
    ASSUME NEW k \in 0..NSteps, DoneUpTo(k) PROVE DonePrefix = k
<1> USE PlanTypes
<1> DEFINE Fits(m) == \A i \in Step : items[i].status = "done_unverified" <=> i <= m
<1>1. k \in 0..NSteps /\ Fits(k)
  BY DEF DoneUpTo
<1>2. ASSUME NEW m \in 0..NSteps, Fits(m) PROVE m = k
  <2>1. CASE m < k
    BY <1>1, <1>2, <2>1, m + 1 \in Step DEF Step
  <2>2. CASE k < m
    BY <1>1, <1>2, <2>2, k + 1 \in Step DEF Step
  <2> QED
    BY <2>1, <2>2
<1> HIDE DEF Fits
<1>3. (CHOOSE m \in 0..NSteps : Fits(m)) = k
  BY <1>1, <1>2
<1> QED
  BY <1>3 DEF DonePrefix, Fits

LEMMA ResumeIndexIs ==
    ASSUME NEW k \in 0..NSteps, KeptUpTo(k) PROVE ResumeIndex = k
<1> USE PlanTypes
<1> DEFINE Fits(m) == /\ \A i \in 1..m : Finished(i)
                      /\ m < NSteps => ~ Finished(m + 1)
<1>1. k \in 0..NSteps /\ Fits(k)
  BY DEF KeptUpTo
<1>2. ASSUME NEW m \in 0..NSteps, Fits(m) PROVE m = k
  <2>1. CASE m < k
    BY <1>1, <1>2, <2>1, m + 1 \in 1..k, m < NSteps
  <2>2. CASE k < m
    BY <1>1, <1>2, <2>2, k + 1 \in 1..m, k < NSteps
  <2> QED
    BY <2>1, <2>2
<1> HIDE DEF Fits
<1>3. (CHOOSE m \in 0..NSteps : Fits(m)) = k
  BY <1>1, <1>2
<1> QED
  BY <1>3 DEF ResumeIndex, Fits

\* The lineage resumes after steps that are recorded done.
LEMMA KeptIsDone ==
    ASSUME NEW k \in 0..NSteps, KeptUpTo(k), NEW d \in 0..NSteps, DoneUpTo(d)
    PROVE  k <= d
<1> USE PlanTypes
<1>1. CASE k = 0
  BY <1>1
<1>2. CASE k > 0
  <2>1. Finished(k)
    BY <1>2 DEF KeptUpTo
  <2> QED
    BY <1>2, <2>1 DEF Finished, DoneUpTo, Step
<1> QED
  BY <1>1, <1>2
-----------------------------------------------------------------------------
(* The invariant is inductive.                                              *)

LEMMA ShapeInductive ==
    Shape /\ Course /\ [Next]_vars => Shape'
<1> SUFFICES ASSUME Shape, Course, [Next]_vars
             PROVE  Shape'
  OBVIOUS
<1> USE PlanTypes DEF Shape, LegShape, Others, LegAt, Onward, Driving, NoLeg, ledger, Running, Stepping, After, Status, RunStatus
<1>1. CASE Dispatch
  <2>1. PICK k \in 0..NSteps : KeptUpTo(k)
    BY DEF Course, Recorded, Placed
  <2>2. ResumeIndex \in 0..NSteps
    BY <2>1, ResumeIndexIs
  <2> DEFINE from == IF run.n > 1 THEN ResumeIndex ELSE 0
             tree == IF run.n > 1 THEN ResumeTree ELSE NoTree
  <2>3. leg' = [at |-> "restore", step |-> from + 1, sub |-> 1, from |-> from,
                tree |-> tree, astray |-> FALSE]
    BY <1>1 DEF Dispatch
  <2>4. from \in 0..NSteps
    BY <2>2
  <2> HIDE DEF from, tree
  <2>5. LegShape'
    BY <2>3, <2>4
  <2>6. Others'
    BY <1>1 DEF Dispatch
  <2> QED
    BY <2>5, <2>6
<1>2. CASE Restore
  BY <1>2 DEF Restore
<1>3. CASE Seed
  <2>1. LegShape'
    <3>1. leg = [at |-> leg.at, step |-> leg.step, sub |-> leg.sub, from |-> leg.from,
                 tree |-> leg.tree, astray |-> leg.astray]
      BY <1>3 DEF Seed
    <3>2. leg' = [at |-> IF leg.from + 1 <= NSteps THEN "boundary" ELSE "stageclose",
                  step |-> leg.from + 1, sub |-> 1, from |-> leg.from,
                  tree |-> leg.tree, astray |-> FALSE]
      BY <1>3, <3>1 DEF Seed
    <3>3. (IF leg.from + 1 <= NSteps THEN "boundary" ELSE "stageclose") \in Running \cup After
      OBVIOUS
    <3>4. leg.from \in 0..NSteps /\ leg.from + 1 \in 1..(NSteps + 1)
      BY <1>3 DEF Seed
    <3> QED
      BY <3>2, <3>3, <3>4
  <2>2. items' \in [Step -> [status : Status, by : {0} \cup Lineage]]
    BY <1>3 DEF Seed
  <2>3. Others'
    BY <1>3, <2>2 DEF Seed
  <2> QED
    BY <2>1, <2>3
<1>4. CASE PausePark
  BY <1>4 DEF PausePark
<1>5. CASE StartSession
  BY <1>5 DEF StartSession
<1>6. CASE StraySession
  <2>1. LegShape'
    <3>1. leg = [at |-> leg.at, step |-> leg.step, sub |-> leg.sub, from |-> leg.from,
                 tree |-> leg.tree, astray |-> leg.astray]
      BY <1>6 DEF StraySession
    <3>2. leg' = [at |-> "session", step |-> leg.step, sub |-> leg.sub, from |-> leg.from,
                  tree |-> leg.tree, astray |-> TRUE]
      BY <1>6, <3>1 DEF StraySession
    <3> QED
      BY <1>6, <3>1, <3>2 DEF StraySession
  <2>2. Others'
    BY <1>6 DEF StraySession
  <2> QED
    BY <2>1, <2>2
<1>7. CASE Split
  <2>1. LegShape'
    <3>1. leg = [at |-> leg.at, step |-> leg.step, sub |-> leg.sub, from |-> leg.from,
                 tree |-> leg.tree, astray |-> leg.astray]
      BY <1>7 DEF Split
    <3>2. leg' = [at |-> "boundary", step |-> leg.step, sub |-> 2, from |-> leg.from,
                  tree |-> leg.tree, astray |-> leg.astray]
      BY <1>7, <3>1 DEF Split
    <3> QED
      BY <1>7, <3>1, <3>2 DEF Split
  <2>2. items' \in [Step -> [status : Status, by : {0} \cup Lineage]]
    BY <1>7 DEF Split
  <2>3. Others'
    BY <1>7, <2>2 DEF Split
  <2> QED
    BY <2>1, <2>3
<1>8. CASE EndSession
  BY <1>8 DEF EndSession
<1>9. CASE FileDeliverable
  BY <1>9 DEF FileDeliverable
<1>10. CASE RegisterDeliverable
  BY <1>10 DEF RegisterDeliverable
<1>11. CASE CloseSnapshot
  <2>1. \E t : leg' = [leg EXCEPT !.at = "record", !.tree = t]
    BY <1>11 DEF CloseSnapshot
  <2>2. LegShape'
    <3> PICK t : leg' = [leg EXCEPT !.at = "record", !.tree = t]
      BY <2>1
    <3>1. leg = [at |-> leg.at, step |-> leg.step, sub |-> leg.sub, from |-> leg.from,
                 tree |-> leg.tree, astray |-> leg.astray]
      BY <1>11 DEF CloseSnapshot
    <3>2. leg' = [at |-> "record", step |-> leg.step, sub |-> leg.sub, from |-> leg.from,
                  tree |-> t, astray |-> leg.astray]
      BY <1>11, <3>1 DEF CloseSnapshot
    <3> QED
      BY <1>11, <3>1, <3>2 DEF CloseSnapshot
  <2>3. Others'
    BY <1>11 DEF CloseSnapshot
  <2> QED
    BY <2>2, <2>3
<1>12. CASE RecordDone
  <2>1. leg.at = "record" /\ leg.step \in 1..NSteps
    BY <1>12 DEF RecordDone, Course, Recorded, Placed
  <2>3. LegShape'
    <3>1. leg = [at |-> leg.at, step |-> leg.step, sub |-> leg.sub, from |-> leg.from,
                 tree |-> leg.tree, astray |-> leg.astray]
      BY <1>12 DEF RecordDone
    <3>2. leg' = [at |-> IF leg.step + 1 <= NSteps THEN "boundary" ELSE "stageclose",
                  step |-> leg.step + 1, sub |-> 1, from |-> leg.from,
                  tree |-> leg.tree, astray |-> FALSE]
      BY <1>12, <3>1, <2>1 DEF RecordDone
    <3>3. (IF leg.step + 1 <= NSteps THEN "boundary" ELSE "stageclose") \in Running \cup After
      OBVIOUS
    <3>4. leg.from \in 0..NSteps /\ leg.step + 1 \in 1..(NSteps + 1)
      BY <1>12, <2>1
    <3> QED
      BY <3>2, <3>3, <3>4
  <2>4. items' \in [Step -> [status : Status, by : {0} \cup Lineage]]
    BY <1>12 DEF RecordDone
  <2>5. evidence' = [i \in Step |-> evidence'[i]]
    BY <1>12 DEF RecordDone
  <2>6. Others'
    BY <1>12, <2>4, <2>5 DEF RecordDone
  <2> QED
    BY <2>3, <2>6
<1>13. CASE StageClose
  BY <1>13 DEF StageClose
<1>14. CASE Complete
  BY <1>14 DEF Complete
<1>15. CASE MoveBoard
  BY <1>15 DEF MoveBoard
<1>16. CASE CreateVerify
  BY <1>16 DEF CreateVerify
<1>17. CASE EnqueueVerify
  BY <1>17 DEF EnqueueVerify
<1>18. CASE LegFails
  BY <1>18 DEF LegFails
<1>19. CASE ProcessDies
  BY <1>19 DEF ProcessDies
<1>20. CASE Reap
  BY <1>20 DEF Reap
<1>21. CASE Fork
  <2>1. run' = [n |-> run.n + 1, st |-> "queued"] /\ run.n \in 1..MaxForks
    BY <1>21 DEF Fork
  <2>2. run' \in [n : Lineage, st : RunStatus]
    BY <2>1 DEF Lineage
  <2>3. UNCHANGED <<items, evidence, leg, handover>>
    BY <1>21 DEF Fork
  <2>4. LegShape'
    BY <2>3
  <2>5. Others'
    BY <2>2, <2>3
  <2> QED
    BY <2>4, <2>5
<1>22. CASE ThrowHold
  BY <1>22 DEF ThrowHold
<1>23. CASE ResumeRun
  BY <1>23 DEF ResumeRun
<1>24. CASE UNCHANGED vars
  BY <1>24 DEF vars, ledger
<1> QED
  BY <1>1, <1>2, <1>3, <1>4, <1>5, <1>6, <1>7, <1>8, <1>9, <1>10, <1>11, <1>12, <1>13, <1>14, <1>15, <1>16, <1>17, <1>18, <1>19, <1>20, <1>21, <1>22, <1>23, <1>24 DEF Next, LegStep

LEMMA StandingInductive ==
    Shape /\ Standing /\ [Next]_vars => Standing'
<1> SUFFICES ASSUME Shape, Standing, [Next]_vars
             PROVE  Standing'
  OBVIOUS
<1> USE PlanTypes DEF Shape, LegShape, Others, Standing, LegAt, Onward, Driving, NoLeg, ledger, Running, Stepping, After, RunStatus
<1>1. CASE Dispatch
  BY <1>1 DEF Dispatch
<1>2. CASE Restore
  BY <1>2 DEF Restore
<1>3. CASE Seed
  BY <1>3 DEF Seed
<1>4. CASE PausePark
  BY <1>4 DEF PausePark
<1>5. CASE StartSession
  BY <1>5 DEF StartSession
<1>6. CASE StraySession
  BY <1>6 DEF StraySession
<1>7. CASE Split
  BY <1>7 DEF Split
<1>8. CASE EndSession
  BY <1>8 DEF EndSession
<1>9. CASE FileDeliverable
  BY <1>9 DEF FileDeliverable
<1>10. CASE RegisterDeliverable
  BY <1>10 DEF RegisterDeliverable
<1>11. CASE CloseSnapshot
  BY <1>11 DEF CloseSnapshot
<1>12. CASE RecordDone
  BY <1>12 DEF RecordDone
<1>13. CASE StageClose
  BY <1>13 DEF StageClose
<1>14. CASE Complete
  BY <1>14 DEF Complete
<1>15. CASE MoveBoard
  BY <1>15 DEF MoveBoard
<1>16. CASE CreateVerify
  BY <1>16 DEF CreateVerify
<1>17. CASE EnqueueVerify
  BY <1>17 DEF EnqueueVerify
<1>18. CASE LegFails
  BY <1>18 DEF LegFails
<1>19. CASE ProcessDies
  BY <1>19 DEF ProcessDies
<1>20. CASE Reap
  BY <1>20 DEF Reap
<1>21. CASE Fork
  BY <1>21 DEF Fork
<1>22. CASE ThrowHold
  BY <1>22 DEF ThrowHold
<1>23. CASE ResumeRun
  BY <1>23 DEF ResumeRun
<1>24. CASE UNCHANGED vars
  BY <1>24 DEF vars, ledger
<1> QED
  BY <1>1, <1>2, <1>3, <1>4, <1>5, <1>6, <1>7, <1>8, <1>9, <1>10, <1>11, <1>12, <1>13, <1>14, <1>15, <1>16, <1>17, <1>18, <1>19, <1>20, <1>21, <1>22, <1>23, <1>24 DEF Next, LegStep

\* A step recorded done extends what the lineage may resume after, when it is
\* the next one and has evidence, and changes nothing else of it.
LEMMA RecordKeeps ==
    ASSUME Shape, Course, RecordDone
    PROVE  \E k \in 0..NSteps : \E j \in IF k = leg.step - 1 THEN {k, k + 1} ELSE {k} :
                j \in 0..NSteps /\ KeptUpTo(k) /\ KeptUpTo(j)'
<1> USE PlanTypes
<1>1. PICK t \in Step : t = leg.step /\ DoneUpTo(t - 1)
  BY DEF RecordDone, Course, Recorded, Placed, Stepping, Shape, LegShape, NoLeg, Step
<1>2. items' = [items EXCEPT ![t] = [status |-> "done_unverified", by |-> run.n]]
  BY <1>1 DEF RecordDone
<1>3. \A i \in Step \ {t} : evidence'[i] = evidence[i] /\ items'[i] = items[i]
  BY <1>1, <1>2 DEF RecordDone, Shape, Others
<1>4. PICK k \in 0..NSteps : KeptUpTo(k)
  BY DEF Course, Recorded, Placed
<1>5. \A i \in Step \ {t} : Finished(i)' <=> Finished(i)
  BY <1>3 DEF Finished
<1>6. k <= t - 1
  <2>1. t - 1 \in 0..NSteps
    BY <1>1 DEF Step
  <2> QED
    BY <1>1, <1>4, <2>1, KeptIsDone
<1>7. \A i \in 1..k : Finished(i)'
  BY <1>1, <1>4, <1>5, <1>6 DEF KeptUpTo, Step
<1>8. CASE k < t - 1
  <2>1. k + 1 \in Step \ {t} /\ ~ Finished(k + 1)
    BY <1>1, <1>4, <1>8 DEF KeptUpTo, Step
  <2>2. KeptUpTo(k)'
    BY <1>5, <1>7, <2>1 DEF KeptUpTo
  <2> QED
    BY <1>4, <2>2
<1>9. CASE k = t - 1 /\ ~ Finished(t)'
  <2>1. k + 1 = t
    BY <1>9 DEF Step
  <2>2. KeptUpTo(k)'
    BY <1>7, <1>9, <2>1 DEF KeptUpTo
  <2> QED
    BY <1>1, <1>4, <1>9, <2>2
<1>10. CASE k = t - 1 /\ Finished(t)'
  <2>1. \A i \in 1..t : Finished(i)'
    <3>1. \A i \in 1..t : i \in 1..k \/ i = t
      BY <1>10 DEF Step
    <3> QED
      BY <1>7, <1>10, <3>1
  <2>2. ASSUME t < NSteps PROVE ~ Finished(t + 1)'
    <3>1. t + 1 \in Step \ {t} /\ ~ (t + 1 <= t - 1)
      BY <1>1, <2>2 DEF Step
    <3>2. ~ Finished(t + 1)
      BY <1>1, <3>1 DEF DoneUpTo, Finished
    <3>3. Finished(t + 1)' <=> Finished(t + 1)
      BY <1>5, <3>1
    <3> QED
      BY <3>2, <3>3
  <2>3. KeptUpTo(t)'
    BY <2>1, <2>2 DEF KeptUpTo
  <2>4. t = k + 1 /\ t \in 0..NSteps
    BY <1>1, <1>10 DEF Step
  <2>5. KeptUpTo(k + 1)' /\ k + 1 \in {k, k + 1} /\ k + 1 \in 0..NSteps /\ k = leg.step - 1
    BY <1>1, <2>3, <2>4, <1>10
  <2> QED
    BY <1>4, <2>5
<1> QED
  BY <1>1, <1>4, <1>6, <1>8, <1>9, <1>10 DEF Step

\* The seed leaves done what the lineage may resume after, and nothing else.
LEMMA SeedResumes ==
    ASSUME Shape, Standing, Course, Seed
    PROVE  \E f \in 0..NSteps : /\ f = leg.from /\ run.st = "running"
                                /\ KeptUpTo(f) /\ KeptUpTo(f)' /\ DoneUpTo(f)'
<1> USE PlanTypes DEF Shape, LegShape, Others, Standing, LegAt, Onward, NoLeg, Running, Stepping, Status
<1>1. PICK f \in 0..NSteps : f = leg.from /\ KeptUpTo(f) /\ run.st = "running"
  BY DEF Seed, Course, Placed
<1>2. items' = [i \in Step |-> IF i <= f THEN items[i] ELSE [status |-> "pending", by |-> run.n]]
      /\ evidence' = evidence
  BY <1>1 DEF Seed
<1>3. DoneUpTo(f)'
  <2> SUFFICES ASSUME NEW i \in Step PROVE items'[i].status = "done_unverified" <=> i <= f
    BY DEF DoneUpTo
  <2>1. CASE i <= f
    <3>1. Finished(i)
      BY <1>1, <2>1 DEF KeptUpTo, Step
    <3> QED
      BY <1>2, <2>1, <3>1 DEF Finished
  <2>2. CASE ~ (i <= f)
    BY <1>2, <2>2
  <2> QED
    BY <2>1, <2>2
<1>4. KeptUpTo(f)'
  <2>1. ASSUME NEW i \in 1..f PROVE Finished(i)'
    <3>1. Finished(i) /\ i \in Step /\ i <= f
      BY <1>1, <2>1 DEF KeptUpTo, Step
    <3>2. items'[i] = items[i]
      BY <1>2, <3>1
    <3> QED
      BY <1>2, <3>1, <3>2 DEF Finished
  <2>2. ASSUME f < NSteps PROVE ~ Finished(f + 1)'
    <3>1. f + 1 \in Step /\ ~ (f + 1 <= f)
      BY <1>1, <2>2 DEF Step
    <3> QED
      BY <1>2, <3>1 DEF Finished
  <2> QED
    BY <2>1, <2>2 DEF KeptUpTo
<1> QED
  BY <1>1, <1>3, <1>4

\* A split changes neither reading of the record.
LEMMA SplitKeeps ==
    ASSUME Shape, Standing, Course, Split
    PROVE  /\ \A i \in Step : items'[i].status = "done_unverified" <=> items[i].status = "done_unverified"
           /\ \A d \in 0..NSteps : DoneUpTo(d) => DoneUpTo(d)'
           /\ \A k \in 0..NSteps : KeptUpTo(k) => KeptUpTo(k)'
<1> USE PlanTypes DEF Shape, LegShape, Others, Standing, LegAt, Onward, NoLeg, Running, Stepping, Status
<1>1. leg.at = "session" /\ leg.step \in Step /\ DoneUpTo(leg.step - 1)
  BY DEF Split, Course, Placed, Step
<1>2. items' = [items EXCEPT ![leg.step] = [status |-> "in_progress", by |-> run.n]]
      /\ evidence' = evidence
  BY DEF Split
<1>3. \A i \in Step : items'[i].status = "done_unverified" <=> items[i].status = "done_unverified"
  BY <1>1, <1>2 DEF DoneUpTo, Step
<1>4. \A i \in Step : Finished(i)' <=> Finished(i)
  BY <1>2, <1>3 DEF Finished
<1>5. ASSUME NEW k \in 0..NSteps, KeptUpTo(k) PROVE KeptUpTo(k)'
  <2>1. \A i \in 1..k : i \in Step
    BY DEF Step
  <2>2. k < NSteps => k + 1 \in Step
    BY DEF Step
  <2> QED
    BY <1>4, <1>5, <2>1, <2>2 DEF KeptUpTo
<1>6. ASSUME NEW d \in 0..NSteps, DoneUpTo(d) PROVE DoneUpTo(d)'
  BY <1>3, <1>6 DEF DoneUpTo
<1> QED
  BY <1>3, <1>5, <1>6

\* A step recorded done is the next one of the plan.
LEMMA RecordExtends ==
    ASSUME Shape, Standing, Course, RecordDone
    PROVE  \E t \in Step : /\ t = leg.step /\ leg.at = "record" /\ run.st = "running"
                           /\ DoneUpTo(t - 1) /\ DoneUpTo(t)'
<1> USE PlanTypes DEF Shape, LegShape, Others, Standing, LegAt, Onward, NoLeg, Running, Stepping, Status
<1>1. PICK t \in Step : t = leg.step /\ leg.at = "record" /\ run.st = "running" /\ DoneUpTo(t - 1)
  BY DEF RecordDone, Course, Placed, Step
<1>2. items' = [items EXCEPT ![t] = [status |-> "done_unverified", by |-> run.n]]
  BY <1>1 DEF RecordDone
<1>3. DoneUpTo(t)'
  <2> SUFFICES ASSUME NEW i \in Step PROVE items'[i].status = "done_unverified" <=> i <= t
    BY DEF DoneUpTo
  <2>1. CASE i = t
    <3>1. items'[t] = [status |-> "done_unverified", by |-> run.n]
      BY <1>2
    <3>2. i <= t
      BY <2>1 DEF Step
    <3> QED
      BY <2>1, <3>1, <3>2
  <2>2. CASE i # t
    <3>1. items'[i] = items[i] /\ (i <= t - 1 <=> i <= t)
      BY <1>2, <2>2 DEF Step
    <3> QED
      BY <1>1, <3>1 DEF DoneUpTo
  <2> QED
    BY <2>1, <2>2
<1> QED
  BY <1>1, <1>3

LEMMA CourseInductive ==
    Shape /\ Standing /\ Course /\ [Next]_vars => Course'
<1> SUFFICES ASSUME Shape, Standing, Course, [Next]_vars
             PROVE  Course'
  OBVIOUS
<1> USE PlanTypes DEF Shape, LegShape, Others, Standing, LegAt, Onward, Driving, NoLeg, ledger, Running, Stepping, After, RunStatus, Status
<1>1. CASE Dispatch
  <2>1. leg = NoLeg /\ run.st = "queued" /\ UNCHANGED <<items, evidence>>
    BY <1>1 DEF Dispatch
  <2>2. run' = [run EXCEPT !.st = "running"]
    BY <1>1 DEF Dispatch
  <2>3. PICK k \in 0..NSteps : KeptUpTo(k)
    BY DEF Course, Recorded, Placed
  <2>4. ResumeIndex = k
    BY <2>3, ResumeIndexIs
  <2>5. PICK f \in 0..NSteps : leg'.at = "restore" /\ leg'.from = f /\ f = IF run.n > 1 THEN k ELSE 0
    BY <1>1, <2>4 DEF Dispatch
  <2>6. run.n \in Nat /\ run.n >= 1
    BY DEF Lineage
  <2>7. ASSUME run.n = 1 PROVE KeptUpTo(0)
    <3>1. DoneUpTo(0)
      BY <2>1, <2>7 DEF Course, Placed
    <3>2. ~ Finished(1)
      BY <3>1 DEF DoneUpTo, Finished, Step
    <3> QED
      BY <3>2 DEF KeptUpTo
  <2>8. KeptUpTo(f)
    BY <2>3, <2>5, <2>7, <2>6
  <2>9. KeptUpTo(f)'
    BY <2>1, <2>8 DEF KeptUpTo, Finished
  <2>10. Recorded'
    BY <2>1 DEF Course, Recorded, DoneUpTo, KeptUpTo, Finished
  <2>11. KeptUpTo(leg.from)'
    BY <2>5, <2>9 DEF KeptUpTo
  <2> QED
    BY <2>2, <2>5, <2>10, <2>11 DEF Course, Placed
<1>2. CASE Restore
  <2>1. UNCHANGED <<items, evidence, run>>
    BY <1>2 DEF Restore
  <2>2. Recorded'
    BY <2>1 DEF Course, Recorded, DoneUpTo, KeptUpTo, Finished
  <2>3. leg'.at = "seed" /\ leg'.from = leg.from /\ leg'.step = leg.step
    <3>1. leg = [at |-> leg.at, step |-> leg.step, sub |-> leg.sub, from |-> leg.from,
                 tree |-> leg.tree, astray |-> leg.astray]
      BY <1>2 DEF Restore
    <3> QED
      BY <1>2, <3>1 DEF Restore
  <2>4. (KeptUpTo(leg.from))'
    BY ZenonT(60), <1>2, <2>1, <2>3 DEF Restore, Course, Placed, DoneUpTo, KeptUpTo, Finished
  <2>5. run.st = "running"
    BY <1>2 DEF Restore
  <2> QED
    BY <2>1, <2>2, <2>3, <2>4, <2>5 DEF Course, Placed
<1>3. CASE Seed
  <2>1. PICK f \in 0..NSteps : /\ f = leg.from /\ run.st = "running"
                               /\ KeptUpTo(f) /\ KeptUpTo(f)' /\ DoneUpTo(f)'
    BY <1>3, SeedResumes
  <2>2. run' = run
    BY <1>3 DEF Seed
  <2>3. leg'.at = (IF f + 1 <= NSteps THEN "boundary" ELSE "stageclose") /\ leg'.step = f + 1
    <3>1. leg = [at |-> leg.at, step |-> leg.step, sub |-> leg.sub, from |-> leg.from,
                 tree |-> leg.tree, astray |-> leg.astray]
      BY <1>3 DEF Seed
    <3> QED
      BY <1>3, <2>1, <3>1 DEF Seed
  <2>4. leg'.step - 1 = f
    BY <2>1, <2>3
  <2>5. DoneUpTo(leg.step - 1)'
    BY <2>1, <2>4 DEF DoneUpTo
  <2>6. Recorded'
    BY <2>1 DEF Recorded
  <2>7. CASE f + 1 <= NSteps
    BY <2>1, <2>2, <2>3, <2>5, <2>6, <2>7 DEF Course, Placed
  <2>8. CASE f = NSteps
    BY <2>1, <2>2, <2>3, <2>6, <2>8 DEF Course, Placed
  <2>9. f + 1 <= NSteps \/ f = NSteps
    BY StepOrEnd
  <2> QED
    BY <2>7, <2>8, <2>9
<1>4. CASE PausePark
  <2>1. UNCHANGED <<items, evidence>>
    BY <1>4 DEF PausePark
  <2>2. Recorded'
    BY <2>1 DEF Course, Recorded, Placed, DoneUpTo, KeptUpTo, Finished
  <2>3. Placed'
    BY <1>4, <2>1 DEF PausePark, Course, Placed, DoneUpTo, KeptUpTo, Finished
  <2> QED
    BY <2>2, <2>3 DEF Course, Recorded, Placed
<1>5. CASE StartSession
  <2>1. UNCHANGED <<items, evidence>>
    BY <1>5 DEF StartSession
  <2>2. Recorded'
    BY <2>1 DEF Course, Recorded, Placed, DoneUpTo, KeptUpTo, Finished
  <2>3. Placed'
    BY <1>5, <2>1 DEF StartSession, Course, Placed, DoneUpTo, KeptUpTo, Finished
  <2> QED
    BY <2>2, <2>3 DEF Course, Recorded, Placed
<1>6. CASE StraySession
  <2>1. UNCHANGED <<items, evidence>>
    BY <1>6 DEF StraySession
  <2>2. Recorded'
    BY <2>1 DEF Course, Recorded, Placed, DoneUpTo, KeptUpTo, Finished
  <2>3. Placed'
    BY <1>6, <2>1 DEF StraySession, Course, Placed, DoneUpTo, KeptUpTo, Finished
  <2> QED
    BY <2>2, <2>3 DEF Course, Recorded, Placed
<1>7. CASE Split
  <2>1. leg.at = "session" /\ leg.step \in Step /\ run.st = "running" /\ DoneUpTo(leg.step - 1)
    BY <1>7 DEF Split, Course, Placed, Step
  <2>2. leg'.at = "boundary" /\ leg'.step = leg.step /\ run' = run
    <3>1. leg = [at |-> leg.at, step |-> leg.step, sub |-> leg.sub, from |-> leg.from,
                 tree |-> leg.tree, astray |-> leg.astray]
      BY <1>7 DEF Split
    <3> QED
      BY <1>7, <3>1 DEF Split
  <2>3. PICK d \in 0..NSteps : d = leg.step - 1 /\ DoneUpTo(d)'
    BY <1>7, <2>1, SplitKeeps DEF Step
  <2>4. DoneUpTo(leg.step - 1)'
    BY <2>2, <2>3 DEF DoneUpTo
  <2>5. Recorded'
    BY <1>7, <2>3, SplitKeeps DEF Course, Recorded
  <2> QED
    BY <2>1, <2>2, <2>4, <2>5 DEF Course, Placed, Step
<1>8. CASE EndSession
  <2>1. UNCHANGED <<items, evidence>>
    BY <1>8 DEF EndSession
  <2>2. Recorded'
    BY <2>1 DEF Course, Recorded, Placed, DoneUpTo, KeptUpTo, Finished
  <2>3. Placed'
    BY <1>8, <2>1 DEF EndSession, Course, Placed, DoneUpTo, KeptUpTo, Finished
  <2> QED
    BY <2>2, <2>3 DEF Course, Recorded, Placed
<1>9. CASE FileDeliverable
  <2>1. UNCHANGED <<items, evidence>>
    BY <1>9 DEF FileDeliverable
  <2>2. Recorded'
    BY <2>1 DEF Course, Recorded, Placed, DoneUpTo, KeptUpTo, Finished
  <2>3. Placed'
    BY <1>9, <2>1 DEF FileDeliverable, Course, Placed, DoneUpTo, KeptUpTo, Finished
  <2> QED
    BY <2>2, <2>3 DEF Course, Recorded, Placed
<1>10. CASE RegisterDeliverable
  <2>1. UNCHANGED <<items, evidence>>
    BY <1>10 DEF RegisterDeliverable
  <2>2. Recorded'
    BY <2>1 DEF Course, Recorded, Placed, DoneUpTo, KeptUpTo, Finished
  <2>3. Placed'
    BY <1>10, <2>1 DEF RegisterDeliverable, Course, Placed, DoneUpTo, KeptUpTo, Finished
  <2> QED
    BY <2>2, <2>3 DEF Course, Recorded, Placed
<1>11. CASE CloseSnapshot
  <2>1. UNCHANGED <<items, evidence, run>>
    BY <1>11 DEF CloseSnapshot
  <2>2. Recorded'
    BY <2>1 DEF Course, Recorded, DoneUpTo, KeptUpTo, Finished
  <2>3. leg'.at = "record" /\ leg'.from = leg.from /\ leg'.step = leg.step
    <3>1. leg = [at |-> leg.at, step |-> leg.step, sub |-> leg.sub, from |-> leg.from,
                 tree |-> leg.tree, astray |-> leg.astray]
      BY <1>11 DEF CloseSnapshot
    <3> QED
      BY <1>11, <3>1 DEF CloseSnapshot
  <2>4. (leg.step <= NSteps /\ DoneUpTo(leg.step - 1))'
    BY <1>11, <2>1, <2>3 DEF CloseSnapshot, Course, Placed, DoneUpTo, KeptUpTo, Finished
  <2>5. run.st = "running"
    BY <1>11 DEF CloseSnapshot
  <2> QED
    BY <2>1, <2>2, <2>3, <2>4, <2>5 DEF Course, Placed
<1>12. CASE RecordDone
  <2>1. PICK t \in Step : /\ t = leg.step /\ leg.at = "record" /\ run.st = "running"
                          /\ DoneUpTo(t - 1) /\ DoneUpTo(t)'
    BY <1>12, RecordExtends
  <2>2. run' = run
    BY <1>12 DEF RecordDone
  <2>3. leg'.at = (IF t + 1 <= NSteps THEN "boundary" ELSE "stageclose") /\ leg'.step = t + 1
    <3>1. leg = [at |-> leg.at, step |-> leg.step, sub |-> leg.sub, from |-> leg.from,
                 tree |-> leg.tree, astray |-> leg.astray]
      BY <1>12 DEF RecordDone
    <3> QED
      BY <1>12, <2>1, <3>1 DEF RecordDone
  <2>4. leg'.step - 1 = t
    BY <2>1, <2>3 DEF Step
  <2>5. DoneUpTo(leg.step - 1)'
    BY <2>1, <2>4 DEF DoneUpTo
  <2>6. \E j \in 0..NSteps : KeptUpTo(j)'
    BY <1>12, RecordKeeps
  <2>7. Recorded'
    <3>1. t \in 0..NSteps
      BY DEF Step
    <3> QED
      BY <2>1, <2>6, <3>1 DEF Recorded
  <2>8. CASE t + 1 <= NSteps
    BY <2>1, <2>2, <2>3, <2>5, <2>7, <2>8 DEF Course, Placed
  <2>9. CASE t = NSteps
    BY <2>1, <2>2, <2>3, <2>7, <2>9 DEF Course, Placed, Step
  <2>10. t + 1 <= NSteps \/ t = NSteps
    BY <2>1 DEF Step
  <2> QED
    BY <2>8, <2>9, <2>10
<1>13. CASE StageClose
  <2>1. UNCHANGED <<items, evidence>> /\ DoneUpTo(NSteps)
    BY <1>13 DEF StageClose, Course, Placed
  <2>2. leg'.at = "legsnap" /\ run' = run
    <3>1. \A i \in Step : items[i].status = "done_unverified"
      BY <2>1 DEF DoneUpTo, Step
    <3> QED
      BY <1>13, <3>1 DEF StageClose
  <2>3. run.st = "running"
    BY <1>13 DEF StageClose
  <2>4. DoneUpTo(NSteps)' /\ Recorded'
    BY <2>1 DEF Course, Recorded, DoneUpTo, KeptUpTo, Finished
  <2> QED
    BY <2>2, <2>3, <2>4 DEF Course, Placed
<1>14. CASE Complete
  <2>1. UNCHANGED <<items, evidence>>
    BY <1>14 DEF Complete
  <2>2. Recorded'
    BY <2>1 DEF Course, Recorded, Placed, DoneUpTo, KeptUpTo, Finished
  <2>3. Placed'
    BY <1>14, <2>1 DEF Complete, Course, Placed, DoneUpTo, KeptUpTo, Finished
  <2> QED
    BY <2>2, <2>3 DEF Course, Recorded, Placed
<1>15. CASE MoveBoard
  <2>1. UNCHANGED <<items, evidence>>
    BY <1>15 DEF MoveBoard
  <2>2. Recorded'
    BY <2>1 DEF Course, Recorded, Placed, DoneUpTo, KeptUpTo, Finished
  <2>3. Placed'
    BY <1>15, <2>1 DEF MoveBoard, Course, Placed, DoneUpTo, KeptUpTo, Finished
  <2> QED
    BY <2>2, <2>3 DEF Course, Recorded, Placed
<1>16. CASE CreateVerify
  <2>1. UNCHANGED <<items, evidence>>
    BY <1>16 DEF CreateVerify
  <2>2. Recorded'
    BY <2>1 DEF Course, Recorded, Placed, DoneUpTo, KeptUpTo, Finished
  <2>3. Placed'
    BY <1>16, <2>1 DEF CreateVerify, Course, Placed, DoneUpTo, KeptUpTo, Finished
  <2> QED
    BY <2>2, <2>3 DEF Course, Recorded, Placed
<1>17. CASE EnqueueVerify
  <2>1. UNCHANGED <<items, evidence>>
    BY <1>17 DEF EnqueueVerify
  <2>2. Recorded'
    BY <2>1 DEF Course, Recorded, Placed, DoneUpTo, KeptUpTo, Finished
  <2>3. Placed'
    BY <1>17, <2>1 DEF EnqueueVerify, Course, Placed, DoneUpTo, KeptUpTo, Finished
  <2> QED
    BY <2>2, <2>3 DEF Course, Recorded, Placed
<1>18. CASE LegFails
  <2>1. UNCHANGED <<items, evidence>>
    BY <1>18 DEF LegFails
  <2>2. Recorded'
    BY <2>1 DEF Course, Recorded, Placed, DoneUpTo, KeptUpTo, Finished
  <2>3. Placed'
    BY <1>18, <2>1 DEF LegFails, Course, Placed, DoneUpTo, KeptUpTo, Finished
  <2> QED
    BY <2>2, <2>3 DEF Course, Recorded, Placed
<1>19. CASE ProcessDies
  <2>1. UNCHANGED <<items, evidence>>
    BY <1>19 DEF ProcessDies
  <2>2. Recorded'
    BY <2>1 DEF Course, Recorded, Placed, DoneUpTo, KeptUpTo, Finished
  <2>3. Placed'
    BY <1>19, <2>1 DEF ProcessDies, Course, Placed, DoneUpTo, KeptUpTo, Finished
  <2> QED
    BY <2>2, <2>3 DEF Course, Recorded, Placed
<1>20. CASE Reap
  <2>1. UNCHANGED <<items, evidence>>
    BY <1>20 DEF Reap
  <2>2. Recorded'
    BY <2>1 DEF Course, Recorded, Placed, DoneUpTo, KeptUpTo, Finished
  <2>3. Placed'
    BY <1>20, <2>1 DEF Reap, Course, Placed, DoneUpTo, KeptUpTo, Finished
  <2> QED
    BY <2>2, <2>3 DEF Course, Recorded, Placed
<1>21. CASE Fork
  <2>1. UNCHANGED <<items, evidence>>
    BY <1>21 DEF Fork
  <2>2. Recorded'
    BY <2>1 DEF Course, Recorded, Placed, DoneUpTo, KeptUpTo, Finished
  <2>3. Placed'
    BY <1>21, <2>1 DEF Fork, Course, Placed, DoneUpTo, KeptUpTo, Finished
  <2> QED
    BY <2>2, <2>3 DEF Course, Recorded, Placed
<1>22. CASE ThrowHold
  <2>1. UNCHANGED <<items, evidence>>
    BY <1>22 DEF ThrowHold
  <2>2. Recorded'
    BY <2>1 DEF Course, Recorded, Placed, DoneUpTo, KeptUpTo, Finished
  <2>3. Placed'
    BY SMTT(30), <1>22, <2>1 DEF ThrowHold, Course, Placed, DoneUpTo, KeptUpTo, Finished
  <2> QED
    BY <2>2, <2>3 DEF Course, Recorded, Placed
<1>23. CASE ResumeRun
  <2>1. UNCHANGED <<items, evidence>>
    BY <1>23 DEF ResumeRun
  <2>2. Recorded'
    BY <2>1 DEF Course, Recorded, Placed, DoneUpTo, KeptUpTo, Finished
  <2>3. Placed'
    BY <1>23, <2>1 DEF ResumeRun, Course, Placed, DoneUpTo, KeptUpTo, Finished
  <2> QED
    BY <2>2, <2>3 DEF Course, Recorded, Placed
<1>24. CASE UNCHANGED vars
  BY <1>24 DEF vars, ledger, Course, Recorded, Placed, DoneUpTo, KeptUpTo, Finished
<1> QED
  BY <1>1, <1>2, <1>3, <1>4, <1>5, <1>6, <1>7, <1>8, <1>9, <1>10, <1>11, <1>12, <1>13, <1>14, <1>15, <1>16, <1>17, <1>18, <1>19, <1>20, <1>21, <1>22, <1>23, <1>24 DEF Next, LegStep

LEMMA FilingInductive ==
    Shape /\ Standing /\ Course /\ Filing /\ [Next]_vars => Filing'
<1> SUFFICES ASSUME Shape, Standing, Course, Filing, [Next]_vars
             PROVE  Filing'
  OBVIOUS
<1> USE PlanTypes DEF Shape, LegShape, Others, Standing, Filing, DoneMeansDelivered, LegAt, Onward, Driving, NoLeg, ledger, Running, Stepping, After, RunStatus, Status
<1>1. CASE Dispatch
  BY <1>1 DEF Dispatch
<1>2. CASE Restore
  BY <1>2 DEF Restore
<1>3. CASE Seed
  <2>1. leg'.at \in {"boundary", "stageclose"}
    <3>1. leg = [at |-> leg.at, step |-> leg.step, sub |-> leg.sub, from |-> leg.from,
                 tree |-> leg.tree, astray |-> leg.astray]
      BY <1>3 DEF Seed
    <3> QED
      BY <1>3, <3>1 DEF Seed
  <2>2. NSteps \in Step
    BY DEF Step
  <2>3. items'[NSteps].status = "done_unverified" => items'[NSteps] = items[NSteps]
    BY <1>3, <2>2 DEF Seed
  <2> QED
    BY <1>3, <2>1, <2>3 DEF Seed
<1>4. CASE PausePark
  BY <1>4 DEF PausePark
<1>5. CASE StartSession
  BY <1>5 DEF StartSession
<1>6. CASE StraySession
  BY <1>6 DEF StraySession
<1>7. CASE Split
  <2>1. NSteps \in Step /\ leg.step \in Step
    BY <1>7 DEF Split, Step, Course, Placed
  <2>2. items'[NSteps].status = "done_unverified" => items'[NSteps] = items[NSteps]
    BY <1>7, <2>1 DEF Split
  <2>3. leg'.at = "boundary"
    BY <1>7 DEF Split
  <2> QED
    BY <1>7, <2>2, <2>3 DEF Split
<1>8. CASE EndSession
  BY <1>8 DEF EndSession
<1>9. CASE FileDeliverable
  <2>1. leg.step = NSteps /\ DoneUpTo(NSteps - 1)
    BY <1>9 DEF FileDeliverable, Course, Placed
  <2>2. items[NSteps].status # "done_unverified"
    BY <2>1 DEF DoneUpTo, Step
  <2> QED
    BY <1>9, <2>1, <2>2 DEF FileDeliverable
<1>10. CASE RegisterDeliverable
  <2>1. leg.step = NSteps /\ filed = run.n
    BY <1>10 DEF RegisterDeliverable
  <2>2. leg'.at = "close" /\ leg'.step = leg.step /\ UNCHANGED <<items, filed, run>>
    BY <1>10 DEF RegisterDeliverable
  <2>3. registered' = registered \cup {run.n}
    BY <1>10 DEF RegisterDeliverable
  <2> QED
    BY <2>1, <2>2, <2>3
<1>11. CASE CloseSnapshot
  <2>1. UNCHANGED <<items, filed, registered, run>>
    BY <1>11 DEF CloseSnapshot
  <2>2. leg.at = "close" /\ leg'.at = "record" /\ leg'.step = leg.step
    <3>1. leg = [at |-> leg.at, step |-> leg.step, sub |-> leg.sub, from |-> leg.from,
                 tree |-> leg.tree, astray |-> leg.astray]
      BY <1>11 DEF CloseSnapshot
    <3> QED
      BY <1>11, <3>1 DEF CloseSnapshot
  <2> QED
    BY <2>1, <2>2
<1>12. CASE RecordDone
  <2>1. leg'.at \in {"boundary", "stageclose"}
    <3>1. leg = [at |-> leg.at, step |-> leg.step, sub |-> leg.sub, from |-> leg.from,
                 tree |-> leg.tree, astray |-> leg.astray]
      BY <1>12 DEF RecordDone
    <3> QED
      BY <1>12, <3>1 DEF RecordDone
  <2>2. NSteps \in Step /\ leg.step \in Step
    BY <1>12 DEF RecordDone, Step, Course, Placed
  <2>3. UNCHANGED <<filed, registered>>
    BY <1>12 DEF RecordDone
  <2>4. CASE leg.step = NSteps
    <3>1. items'[NSteps].by = run.n
      BY <1>12, <2>2, <2>4 DEF RecordDone
    <3>2. filed = run.n /\ run.n \in registered
      BY <1>12, <2>4 DEF RecordDone
    <3> QED
      BY <2>1, <2>3, <3>1, <3>2
  <2>5. CASE leg.step # NSteps
    <3>1. items'[NSteps] = items[NSteps]
      BY <1>12, <2>2, <2>5 DEF RecordDone
    <3> QED
      BY <2>1, <2>3, <3>1
  <2> QED
    BY <2>4, <2>5
<1>13. CASE StageClose
  BY <1>13 DEF StageClose
<1>14. CASE Complete
  BY <1>14 DEF Complete
<1>15. CASE MoveBoard
  BY <1>15 DEF MoveBoard
<1>16. CASE CreateVerify
  BY <1>16 DEF CreateVerify
<1>17. CASE EnqueueVerify
  BY <1>17 DEF EnqueueVerify
<1>18. CASE LegFails
  BY <1>18 DEF LegFails
<1>19. CASE ProcessDies
  BY <1>19 DEF ProcessDies
<1>20. CASE Reap
  BY <1>20 DEF Reap
<1>21. CASE Fork
  BY <1>21 DEF Fork
<1>22. CASE ThrowHold
  BY <1>22 DEF ThrowHold
<1>23. CASE ResumeRun
  BY <1>23 DEF ResumeRun
<1>24. CASE UNCHANGED vars
  BY <1>24 DEF vars, ledger
<1> QED
  BY <1>1, <1>2, <1>3, <1>4, <1>5, <1>6, <1>7, <1>8, <1>9, <1>10, <1>11, <1>12, <1>13, <1>14, <1>15, <1>16, <1>17, <1>18, <1>19, <1>20, <1>21, <1>22, <1>23, <1>24 DEF Next, LegStep

\* The invariant: the record is a prefix of the plan, and the leg stands at its
\* end (dispatchExecute with resumeFrom).
THEOREM Invariant == Spec => []IInv
<1>1. Init => IInv
  <2> SUFFICES ASSUME Init PROVE IInv
    OBVIOUS
  <2> USE PlanTypes DEF Init
  <2>1. Shape
    BY DEF Shape, LegShape, Others, Lineage, RunStatus, Status, Step
  <2>2. Standing
    BY DEF Standing, NoLeg, Running, Stepping, After
  <2>3. NSteps \in Step /\ 1 \in Step /\ 0 \in 0..NSteps
    BY DEF Step
  <2>4. DoneUpTo(0) /\ KeptUpTo(0)
    BY <2>3 DEF DoneUpTo, KeptUpTo, Finished, Step
  <2>5. Course
    BY <2>3, <2>4 DEF Course, Recorded, Placed, NoLeg, Stepping
  <2>6. Filing
    BY <2>3 DEF Filing, DoneMeansDelivered, NoLeg
  <2> QED
    BY <2>1, <2>2, <2>5, <2>6 DEF IInv
<1>2. IInv /\ [Next]_vars => IInv'
  BY ShapeInductive, StandingInductive, CourseInductive, FilingInductive DEF IInv
<1> QED
  BY <1>1, <1>2, PTL DEF Spec

\* A last step recorded done has its own text on file and in the ledger.
THEOREM Delivered == Spec => []DoneMeansDelivered
<1>1. IInv => DoneMeansDelivered
  BY DEF IInv, Filing
<1> QED
  BY <1>1, Invariant, PTL

-----------------------------------------------------------------------------
(* The refinement.                                                          *)

ReadingsMatch ==
    \A k \in 0..NSteps : /\ DoneUpTo(k) => DonePrefix = k
                         /\ KeptUpTo(k) => ResumeIndex = k

LEMMA Readings == ReadingsMatch
BY DonePrefixIs, ResumeIndexIs DEF ReadingsMatch

Verified == handover.verify # "absent"

\* A step that leaves the ledger's items and the verify run alone is a stutter.
LEMMA QuietStutters ==
    ASSUME UNCHANGED <<items, evidence>>, Verified' = Verified
    PROVE  UNCHANGED Promise!vars
<1>1. DonePrefix' = DonePrefix /\ ResumeIndex' = ResumeIndex
  BY DEF DonePrefix, ResumeIndex, Finished
<1> QED
  BY <1>1 DEF Promise!vars, Verified

LEMMA StepMaps ==
    IInv /\ ReadingsMatch /\ ReadingsMatch' /\ [Next]_vars
        => [Promise!Next]_(Promise!vars)
<1> SUFFICES ASSUME IInv, ReadingsMatch, ReadingsMatch', [Next]_vars
             PROVE  [Promise!Next]_(Promise!vars)
  OBVIOUS
<1> USE PlanTypes DEF IInv
<1>1. PICK d \in 0..NSteps, k \in 0..NSteps : DoneUpTo(d) /\ KeptUpTo(k)
  BY DEF Course, Recorded
<1>2. DonePrefix = d /\ ResumeIndex = k
  BY <1>1 DEF ReadingsMatch
<1>3. CASE Seed
  <2>1. PICK f \in 0..NSteps : f = leg.from /\ KeptUpTo(f) /\ KeptUpTo(f)' /\ DoneUpTo(f)'
    BY <1>3, SeedResumes
  <2>2. f = k /\ DonePrefix' = k /\ ResumeIndex' = k
    BY <1>2, <2>1 DEF ReadingsMatch
  <2>3. ~ Verified /\ UNCHANGED handover
    BY <1>3 DEF Seed, Standing, Running, Verified
  <2>4. Promise!Resume
    BY <1>2, <2>2, <2>3 DEF Promise!Resume, Verified
  <2> QED
    BY <2>4 DEF Promise!Next
<1>4. CASE Split
  <2>1. DoneUpTo(d)' /\ KeptUpTo(k)'
    BY <1>1, <1>4, SplitKeeps
  <2>2. DonePrefix' = d /\ ResumeIndex' = k /\ UNCHANGED handover
    BY <1>4, <2>1 DEF ReadingsMatch, Split
  <2> QED
    BY <1>2, <2>2 DEF Promise!vars
<1>5. CASE RecordDone
  <2>1. PICK m \in 0..NSteps : \E j \in IF m = leg.step - 1 THEN {m, m + 1} ELSE {m} :
                j \in 0..NSteps /\ KeptUpTo(m) /\ KeptUpTo(j)'
    BY <1>5, RecordKeeps
  <2>2. PICK t \in Step : t = leg.step /\ DoneUpTo(t - 1) /\ DoneUpTo(t)'
    BY <1>5, RecordExtends
  <2>3. t - 1 \in 0..NSteps /\ t \in 0..NSteps
    BY DEF Step
  <2>4. m = k /\ DonePrefix = t - 1 /\ DonePrefix' = t
    BY <1>2, <2>1, <2>2, <2>3 DEF ReadingsMatch
  <2>5. ResumeIndex' \in IF k = DonePrefix THEN {k, DonePrefix + 1} ELSE {k}
    BY <2>1, <2>2, <2>3, <2>4 DEF ReadingsMatch
  <2>6. ~ Verified /\ UNCHANGED handover
    BY <1>5 DEF RecordDone, Standing, Running, Stepping, Verified
  <2>7. Promise!FinishStep
    BY <1>2, <2>3, <2>4, <2>5, <2>6 DEF Promise!FinishStep, Verified, Step
  <2> QED
    BY <2>7 DEF Promise!Next
<1>6. CASE CreateVerify \/ EnqueueVerify
  <2>1. UNCHANGED <<items, evidence>> /\ run.st = "completed"
    BY <1>6 DEF CreateVerify, EnqueueVerify, ledger, Standing, After
  <2>2. Verified'
    BY <1>6 DEF CreateVerify, EnqueueVerify, Verified, Shape, Others
  <2>3. DoneUpTo(NSteps)
    BY <2>1 DEF Course, Placed
  <2>4. DonePrefix = NSteps
    BY <2>3 DEF ReadingsMatch
  <2>5. DonePrefix' = DonePrefix /\ ResumeIndex' = ResumeIndex
    BY <2>1 DEF DonePrefix, ResumeIndex, Finished
  <2>6. Promise!HandOver
    BY <2>2, <2>4, <2>5 DEF Promise!HandOver, Verified
  <2> QED
    BY <2>6 DEF Promise!Next
<1>7. CASE MoveBoard
  <2>1. UNCHANGED <<items, evidence>>
    BY <1>7 DEF MoveBoard, ledger
  <2>2. Verified' = Verified
    BY <1>7 DEF MoveBoard, Verified, Shape, Others
  <2> QED
    BY <2>1, <2>2, QuietStutters
<1>8. ASSUME UNCHANGED <<items, evidence, handover>>
      PROVE  [Promise!Next]_(Promise!vars)
  BY <1>8, QuietStutters DEF Verified
<1>9. CASE Dispatch \/ Reap \/ Fork \/ ThrowHold \/ ResumeRun \/ LegFails \/ ProcessDies
  BY <1>8, <1>9 DEF Dispatch, Reap, Fork, ThrowHold, ResumeRun, LegFails, ProcessDies, ledger
<1>10. CASE Restore \/ PausePark \/ StartSession \/ StraySession \/ EndSession
  BY <1>8, <1>10 DEF Restore, PausePark, StartSession, StraySession, EndSession, ledger
<1>11. CASE FileDeliverable \/ RegisterDeliverable \/ CloseSnapshot \/ StageClose \/ Complete
  BY <1>8, <1>11 DEF FileDeliverable, RegisterDeliverable, CloseSnapshot, StageClose, Complete, ledger
<1>12. CASE UNCHANGED vars
  BY <1>8, <1>12 DEF vars, ledger
<1> QED
  BY <1>3, <1>4, <1>5, <1>6, <1>7, <1>9, <1>10, <1>11, <1>12 DEF Next, LegStep

\* The execute leg implements PlanPromise: its initial state maps to the
\* promise's, and each of its steps to a step of it or a stutter.
THEOREM Implements == Spec => PlanIsKept
<1>1. Init => Promise!Init
  <2> SUFFICES ASSUME Init PROVE Promise!Init
    OBVIOUS
  <2> USE PlanTypes DEF Init
  <2>1. 0 \in 0..NSteps /\ DoneUpTo(0) /\ KeptUpTo(0)
    BY DEF DoneUpTo, KeptUpTo, Finished, Step
  <2>2. DonePrefix = 0 /\ ResumeIndex = 0
    BY <2>1, Readings DEF ReadingsMatch
  <2> QED
    BY <2>2 DEF Promise!Init
<1> QED
  BY <1>1, Readings, StepMaps, Invariant, PTL DEF Spec, PlanIsKept, Promise!Spec

\* Nobody writes a step that is recorded done, but a seed the ones past its
\* resume point.
LEMMA DoneIsKept ==
    ASSUME IInv, ReadingsMatch, [Next]_vars, NEW i \in Step, items[i].status = "done_unverified"
    PROVE  \/ items'[i] = items[i] /\ evidence'[i] = evidence[i]
           \/ leg.at = "seed" /\ i > ResumeIndex /\ items'[i].status = "pending"
<1> USE PlanTypes
<1>1. CASE Seed
  <2>1. leg.at = "seed" /\ leg.from \in 0..NSteps /\ ResumeIndex = leg.from
    BY <1>1 DEF Seed, IInv, Shape, LegShape, NoLeg, Course, Placed, ReadingsMatch
  <2>2. /\ items'[i] = IF i <= leg.from THEN items[i] ELSE [status |-> "pending", by |-> run.n]
        /\ evidence' = evidence
    BY <1>1 DEF Seed
  <2> QED
    BY <2>1, <2>2 DEF Step
<1>2. CASE Split \/ RecordDone
  <2>1. leg.at \in Stepping
    BY <1>2 DEF Split, RecordDone, Stepping
  <2>2. leg.step \in 1..(NSteps + 1) /\ DoneUpTo(leg.step - 1)
    BY <2>1 DEF IInv, Shape, LegShape, NoLeg, Stepping, Course, Placed
  <2>3. i # leg.step
    BY <2>2 DEF DoneUpTo, Step
  <2>4. /\ items' = [items EXCEPT ![leg.step] = items'[leg.step]]
        /\ evidence' = [evidence EXCEPT ![leg.step] = evidence'[leg.step]]
    BY <1>2 DEF Split, RecordDone, IInv, Shape, Others
  <2>5. items'[i] = items[i] /\ evidence'[i] = evidence[i]
    BY <2>3, <2>4 DEF IInv, Shape, Others
  <2> QED
    BY <2>5
<1>3. CASE UNCHANGED <<items, evidence>>
  BY <1>3
<1>4. Seed \/ Split \/ RecordDone \/ UNCHANGED <<items, evidence>>
  <2>1. CASE Dispatch \/ Reap \/ Fork \/ ThrowHold \/ ResumeRun \/ LegFails \/ ProcessDies
    BY <2>1 DEF Dispatch, Reap, Fork, ThrowHold, ResumeRun, LegFails, ProcessDies, ledger
  <2>2. CASE Restore \/ PausePark \/ StartSession \/ StraySession \/ EndSession
    BY <2>2 DEF Restore, PausePark, StartSession, StraySession, EndSession, ledger
  <2>3. CASE FileDeliverable \/ RegisterDeliverable \/ CloseSnapshot \/ StageClose \/ Complete
    BY <2>3 DEF FileDeliverable, RegisterDeliverable, CloseSnapshot, StageClose, Complete, ledger
  <2>4. CASE MoveBoard \/ CreateVerify \/ EnqueueVerify
    BY <2>4 DEF MoveBoard, CreateVerify, EnqueueVerify, ledger
  <2>5. CASE UNCHANGED vars
    BY <2>5 DEF vars, ledger
  <2> QED
    BY <2>1, <2>2, <2>3, <2>4, <2>5 DEF Next, LegStep
<1> QED
  BY <1>1, <1>2, <1>3, <1>4

\* No life of the lineage loses finished steps: the prefix a successor resumes
\* from never shrinks, and a step recorded done keeps its record and its
\* snapshot through every step of every run, but that a successor's seed sets
\* those past its resume point back to pending.
THEOREM NothingIsLost == Spec => ProgressIsKept
<1>1. IInv /\ [Promise!Next]_(Promise!vars) /\ ReadingsMatch => ResumeIndex' >= ResumeIndex
  <2> SUFFICES ASSUME IInv, [Promise!Next]_(Promise!vars), ReadingsMatch
               PROVE  ResumeIndex' >= ResumeIndex
    OBVIOUS
  <2>1. ResumeIndex \in Nat
    BY PlanTypes DEF IInv, Course, Recorded, ReadingsMatch
  <2> QED
    BY <2>1 DEF Promise!Next, Promise!vars, Promise!FinishStep, Promise!Resume, Promise!HandOver
<1> DEFINE Kept == /\ ResumeIndex' >= ResumeIndex
                   /\ \A i \in Step : items[i].status = "done_unverified" =>
                         \/ items'[i] = items[i] /\ evidence'[i] = evidence[i]
                         \/ leg.at = "seed" /\ i > ResumeIndex /\ items'[i].status = "pending"
<1>2. IInv /\ [Promise!Next]_(Promise!vars) /\ ReadingsMatch /\ [Next]_vars => Kept
  BY <1>1, DoneIsKept
<1> QED
  BY <1>2, Readings, StepMaps, Invariant, PTL DEF Spec, ProgressIsKept

-----------------------------------------------------------------------------
(* The trees: what the worktree and the snapshots of it hold.                *)

\* A project's worktree that every session of the lineage worked in.
Clean == backed /\ tally.strays = 0

\* The finished steps before i, and the work on i that run n has begun.
Underway(t, i, n) ==
    /\ Len(t) = i
    /\ \A k \in 1..(i - 1) : t[k].step = k /\ t[k].whole
    /\ t[i] = [step |-> i, by |-> n, whole |-> FALSE]

Filling == {"file", "register", "close", "record"}
Fresh   == leg.at = "boundary" /\ leg.sub = 1
Midway  == leg.at = "session" \/ (leg.at = "boundary" /\ leg.sub = 2)

Typed ==
    /\ backed \in BOOLEAN
    /\ tally \in [faults : Nat, lapses : Nat, strays : Nat]
    /\ Driving => leg.sub \in 1..2 /\ leg.astray \in BOOLEAN
    /\ Driving /\ leg.tree # NoTree => leg.tree \in Tree
    /\ \A i \in Step : evidence[i] # NoTree => evidence[i] \in Tree
    /\ disk # NoTree => disk \in Tree
    /\ forwarded \subseteq Step /\ registered \subseteq Lineage
    /\ filed \in {0} \cup Lineage

\* A session that is not in the worktree has gone astray from it.
Sessions ==
    /\ leg.at = "session" => disk # NoTree \/ leg.astray
    /\ Driving /\ leg.astray => backed /\ tally.strays > 0

\* Where the worktree stands while the leg goes through the plan.
Grown == Clean =>
    /\ \A i \in Step : evidence[i] # NoTree => WholeUpTo(evidence[i], i)
    /\ run.n = 1 /\ run.st = "queued" => disk = NoTree
    /\ leg.at = "restore" => \/ leg.tree # NoTree /\ WholeUpTo(leg.tree, leg.from)
                             \/ leg.tree = NoTree /\ leg.from = 0 /\ disk = NoTree
    /\ leg.at = "seed" => WholeUpTo(Opened, leg.from)
    /\ Fresh => WholeUpTo(Opened, leg.step - 1)
    /\ Midway => disk # NoTree /\ Underway(disk, leg.step, run.n)
    /\ leg.at \in Filling => disk # NoTree /\ WholeUpTo(disk, leg.step)
    /\ leg.at = "record" /\ leg.tree # NoTree => WholeUpTo(leg.tree, leg.step)
    /\ leg.at \in {"stageclose", "legsnap"} \/ run.st = "completed"
         => disk # NoTree /\ WholeUpTo(disk, NSteps)

\* A plain directory is one run's own, and nothing of it is kept.
Plain == ~ backed =>
    /\ \A i \in Step : evidence[i] = NoTree
    /\ Driving => leg.tree = NoTree
    /\ run.st = "queued" \/ leg.at \in {"restore", "seed"} => disk = NoTree
    /\ \A k \in DOMAIN Opened : Opened[k].by = run.n
    /\ Fresh \/ leg.at \in Filling => \A k \in DOMAIN Opened : Opened[k].whole
    /\ Midway => \A k \in DOMAIN Opened : Opened[k].whole \/ Opened[k].step = leg.step

Trees == Typed /\ Sessions /\ Grown /\ Plain

LEMMA NoTreeIsNone == NoTree \notin Tree /\ <<>> \in Tree /\ <<>> # NoTree
<1>1. NoTree \notin Tree
  BY NoTreeAssumption DEF Tree
<1>2. <<>> \in Tree
  BY DEF Tree
<1> QED
  BY <1>1, <1>2

LEMMA OpenedTypes ==
  ASSUME Typed
  PROVE  Opened \in Tree /\ (disk # NoTree => Opened = disk)
  BY NoTreeIsNone DEF Typed, Opened

\* Opening a session puts the step's piece in the worktree, once.
LEMMA BegunIs ==
  ASSUME Typed, NEW i \in Step, NEW n \in Lineage
  PROVE  LET w == [step |-> i, by |-> n, whole |-> FALSE]
         IN  /\ w \in Work /\ Begun(i, n) \in Tree /\ Begun(i, n) # NoTree
             /\ Begun(i, n) \in {Opened, Append(Opened, w)}
             /\ (\A k \in DOMAIN Opened : Opened[k] # w) => Begun(i, n) = Append(Opened, w)
             /\ \A k \in DOMAIN Opened : Opened[k] = w => Begun(i, n) = Opened
<1> DEFINE w == [step |-> i, by |-> n, whole |-> FALSE]
<1>1. w \in Work
  BY DEF Work
<1>2. Opened \in Seq(Work)
  BY OpenedTypes DEF Tree
<1>3. Begun(i, n) = IF w \in { Opened[k] : k \in DOMAIN Opened } THEN Opened ELSE Append(Opened, w)
  BY DEF Begun
<1> HIDE DEF w
<1>4. Append(Opened, w) \in Seq(Work)
  BY <1>1, <1>2
<1>5. Begun(i, n) \in Tree /\ Begun(i, n) # NoTree
  BY <1>2, <1>3, <1>4, NoTreeIsNone DEF Tree
<1>6. /\ Begun(i, n) \in {Opened, Append(Opened, w)}
      /\ (\A k \in DOMAIN Opened : Opened[k] # w) => Begun(i, n) = Append(Opened, w)
      /\ \A k \in DOMAIN Opened : Opened[k] = w => Begun(i, n) = Opened
  BY <1>3
<1> QED
  BY <1>1, <1>5, <1>6 DEF w

LEMMA BegunGrows ==
  ASSUME Typed, NEW i \in Step, NEW n \in Lineage, WholeUpTo(Opened, i - 1)
  PROVE  Underway(Begun(i, n), i, n)
<1> DEFINE w == [step |-> i, by |-> n, whole |-> FALSE]
<1>1. Opened \in Seq(Work) /\ w \in Work /\ i \in Nat
  BY OpenedTypes DEF Tree, Work, Step
<1>2. \A k \in DOMAIN Opened : Opened[k].step = k /\ k # i /\ w.step = i
  BY <1>1 DEF WholeUpTo
<1>3. Begun(i, n) = Append(Opened, w)
  BY <1>2, BegunIs
<1> HIDE DEF w
<1>4. /\ Len(Append(Opened, w)) = i /\ Append(Opened, w)[i] = w
      /\ \A k \in 1..(i - 1) : Append(Opened, w)[k] = Opened[k]
  BY <1>1 DEF WholeUpTo
<1> QED
  BY <1>3, <1>4 DEF Underway, WholeUpTo, w

LEMMA BegunAgain ==
  ASSUME Typed, NEW i \in Step, NEW n \in Lineage, disk # NoTree, Underway(disk, i, n)
  PROVE  Begun(i, n) = disk
<1>1. Opened = disk /\ disk \in Seq(Work)
  BY OpenedTypes DEF Typed, Tree
<1>2. i \in DOMAIN disk /\ disk[i] = [step |-> i, by |-> n, whole |-> FALSE]
  BY <1>1 DEF Underway, Step
<1> QED
  BY <1>1, <1>2, BegunIs

\* A session's end makes its step's piece whole.
LEMMA EndedIs ==
  ASSUME Typed, NEW i \in Step, NEW n \in Lineage, disk # NoTree
  PROVE  /\ Ended(i, n) \in Tree /\ Ended(i, n) # NoTree /\ DOMAIN Ended(i, n) = DOMAIN disk
         /\ Len(Ended(i, n)) = Len(disk)
         /\ \A k \in DOMAIN disk :
              /\ Ended(i, n)[k].step = disk[k].step /\ Ended(i, n)[k].by = disk[k].by
              /\ Ended(i, n)[k].whole = (disk[k].whole \/ (disk[k].step = i /\ disk[k].by = n))
<1>1. disk \in Seq(Work)
  BY DEF Typed, Tree
<1>2. \A k \in DOMAIN disk : disk[k] \in Work
  BY <1>1
<1>3. \A k \in DOMAIN disk : [disk[k] EXCEPT !.whole = TRUE] \in Work
  BY <1>2 DEF Work
<1>4. Ended(i, n) \in Seq(Work) /\ Len(Ended(i, n)) = Len(disk)
  BY <1>1, <1>2, <1>3 DEF Ended
<1>5. \A k \in DOMAIN disk :
              /\ Ended(i, n)[k].step = disk[k].step /\ Ended(i, n)[k].by = disk[k].by
              /\ Ended(i, n)[k].whole = (disk[k].whole \/ (disk[k].step = i /\ disk[k].by = n))
  BY <1>2 DEF Ended, Work
<1> QED
  BY <1>4, <1>5, NoTreeIsNone DEF Tree, Ended

LEMMA EndedGrows ==
  ASSUME Typed, NEW i \in Step, NEW n \in Lineage, disk # NoTree, Underway(disk, i, n)
  PROVE  WholeUpTo(Ended(i, n), i)
<1>1. disk \in Seq(Work) /\ DOMAIN disk = 1..i /\ i \in Nat
  BY DEF Typed, Tree, Underway, Step
<1>2. ASSUME NEW k \in 1..i PROVE Ended(i, n)[k].step = k /\ Ended(i, n)[k].whole
  <2>1. disk[k].step = k /\ (disk[k].whole \/ (disk[k].step = i /\ disk[k].by = n))
    BY <1>1 DEF Underway
  <2> QED
    BY ZenonT(60), <1>1, <2>1, EndedIs
<1>3. Len(Ended(i, n)) = i
  BY EndedIs DEF Underway
<1> QED
  BY <1>2, <1>3 DEF WholeUpTo

-----------------------------------------------------------------------------
(* The leg's record, field by field.                                         *)

SameStep == leg'.step = leg.step /\ leg'.sub = leg.sub /\ leg'.from = leg.from
SameTree == leg'.tree = leg.tree /\ leg'.astray = leg.astray

LEMMA AtMoves ==
  ASSUME LegShape, Driving, NEW pc, pc # "none", LegAt(pc)
  PROVE  leg'.at = pc /\ SameStep /\ SameTree /\ Driving'
<1>1. leg = [at |-> leg.at, step |-> leg.step, sub |-> leg.sub, from |-> leg.from,
             tree |-> leg.tree, astray |-> leg.astray]
  BY DEF LegShape, Driving
<1>2. leg' = [at |-> pc, step |-> leg.step, sub |-> leg.sub, from |-> leg.from,
              tree |-> leg.tree, astray |-> leg.astray]
  BY <1>1 DEF LegAt
<1>3. leg'.at = pc /\ SameStep /\ SameTree
  BY <1>2 DEF SameStep, SameTree
<1> QED
  BY <1>3 DEF Driving, NoLeg

LEMMA OnMoves ==
  ASSUME LegShape, Driving, NEW i, Onward(i)
  PROVE  /\ leg'.at = IF i <= NSteps THEN "boundary" ELSE "stageclose"
         /\ leg'.step = i /\ leg'.sub = 1 /\ leg'.from = leg.from
         /\ leg'.tree = leg.tree /\ leg'.astray = FALSE /\ Driving'
<1>1. leg = [at |-> leg.at, step |-> leg.step, sub |-> leg.sub, from |-> leg.from,
             tree |-> leg.tree, astray |-> leg.astray]
  BY DEF LegShape, Driving
<1>2. leg' = [at |-> IF i <= NSteps THEN "boundary" ELSE "stageclose", step |-> i, sub |-> 1,
              from |-> leg.from, tree |-> leg.tree, astray |-> FALSE]
  BY <1>1 DEF Onward
<1>3. /\ leg'.at = IF i <= NSteps THEN "boundary" ELSE "stageclose"
      /\ leg'.step = i /\ leg'.sub = 1 /\ leg'.from = leg.from
      /\ leg'.tree = leg.tree /\ leg'.astray = FALSE
  BY <1>2
<1> QED
  BY <1>3 DEF Driving, NoLeg

LEMMA FieldMoves ==
  ASSUME LegShape, Driving
  PROVE  /\ \A pc, tree : pc # "none" /\ leg' = [leg EXCEPT !.at = pc, !.tree = tree]
              => leg'.at = pc /\ leg'.tree = tree /\ leg'.astray = leg.astray /\ SameStep /\ Driving'
         /\ leg' = [leg EXCEPT !.at = "session", !.astray = TRUE]
              => leg'.at = "session" /\ leg'.astray = TRUE /\ leg'.tree = leg.tree /\ SameStep /\ Driving'
         /\ leg' = [leg EXCEPT !.at = "boundary", !.sub = 2]
              => /\ leg'.at = "boundary" /\ leg'.sub = 2 /\ leg'.step = leg.step
                 /\ leg'.from = leg.from /\ SameTree /\ Driving'
<1>1. leg = [at |-> leg.at, step |-> leg.step, sub |-> leg.sub, from |-> leg.from,
             tree |-> leg.tree, astray |-> leg.astray]
  BY DEF LegShape, Driving
<1>2. ASSUME NEW pc, NEW tree, pc # "none", leg' = [leg EXCEPT !.at = pc, !.tree = tree]
      PROVE  leg'.at = pc /\ leg'.tree = tree /\ leg'.astray = leg.astray /\ SameStep /\ Driving'
  <2>1. leg' = [at |-> pc, step |-> leg.step, sub |-> leg.sub, from |-> leg.from,
                tree |-> tree, astray |-> leg.astray]
    BY <1>1, <1>2
  <2>2. leg'.at = pc /\ leg'.tree = tree /\ leg'.astray = leg.astray /\ SameStep
    BY <2>1 DEF SameStep
  <2> QED
    BY <1>2, <2>2 DEF Driving, NoLeg
<1>3. ASSUME leg' = [leg EXCEPT !.at = "session", !.astray = TRUE]
      PROVE  leg'.at = "session" /\ leg'.astray = TRUE /\ leg'.tree = leg.tree /\ SameStep /\ Driving'
  <2>1. leg' = [at |-> "session", step |-> leg.step, sub |-> leg.sub, from |-> leg.from,
                tree |-> leg.tree, astray |-> TRUE]
    BY <1>1, <1>3
  <2>2. leg'.at = "session" /\ leg'.astray = TRUE /\ leg'.tree = leg.tree /\ SameStep
    BY <2>1 DEF SameStep
  <2> QED
    BY <2>2 DEF Driving, NoLeg
<1>4. ASSUME leg' = [leg EXCEPT !.at = "boundary", !.sub = 2]
      PROVE  /\ leg'.at = "boundary" /\ leg'.sub = 2 /\ leg'.step = leg.step
             /\ leg'.from = leg.from /\ SameTree /\ Driving'
  <2>1. leg' = [at |-> "boundary", step |-> leg.step, sub |-> 2, from |-> leg.from,
                tree |-> leg.tree, astray |-> leg.astray]
    BY <1>1, <1>4
  <2>2. leg'.at = "boundary" /\ leg'.sub = 2 /\ leg'.step = leg.step /\ leg'.from = leg.from /\ SameTree
    BY <2>1 DEF SameTree
  <2> QED
    BY <2>2 DEF Driving, NoLeg
<1> QED
  BY ZenonT(60), <1>2, <1>3, <1>4

LEMMA DrivingAt ==
  /\ leg.at \in Running \cup After => Driving
  /\ leg = NoLeg => leg.at = "none" /\ ~ Driving
  /\ "none" \notin Running \cup After
  BY DEF Driving, NoLeg, Running, Stepping, After

\* What a successor restores: the snapshot of the last finished step, or the
\* attempt's base, or nothing where there is no worktree.
LEMMA ResumeIs ==
  ASSUME Shape, Course, Typed
  PROVE  /\ ResumeIndex \in 0..NSteps /\ KeptUpTo(ResumeIndex)
         /\ ResumeIndex > 0 => /\ ResumeIndex \in Step /\ ResumeTree = evidence[ResumeIndex]
                               /\ ResumeTree # NoTree /\ ResumeTree \in Tree
         /\ ResumeIndex = 0 => ResumeTree = IF backed /\ disk # NoTree THEN <<>> ELSE NoTree
<1> USE PlanTypes
<1>1. PICK k \in 0..NSteps : KeptUpTo(k)
  BY DEF Course, Recorded
<1>2. ResumeIndex = k
  BY <1>1, ResumeIndexIs
<1>3. CASE k > 0
  <2>1. k \in Step /\ Finished(k)
    BY <1>1, <1>3 DEF KeptUpTo, Step
  <2> QED
    BY <1>1, <1>2, <1>3, <2>1 DEF ResumeTree, Finished, Typed
<1>4. CASE k = 0
  BY <1>1, <1>2, <1>4 DEF ResumeTree, Base
<1> QED
  BY <1>2, <1>3, <1>4

\* What a dispatch gives its leg.
LEMMA DispatchIs ==
  ASSUME Shape, Course, Typed, Dispatch
  PROVE  /\ leg'.at = "restore" /\ leg'.sub = 1 /\ leg'.astray = FALSE /\ Driving'
         /\ leg'.from = IF run.n > 1 THEN ResumeIndex ELSE 0
         /\ leg'.tree = IF run.n > 1 THEN ResumeTree ELSE NoTree
         /\ run'.n = run.n /\ run'.st = "running" /\ run.st = "queued"
<1> DEFINE from == IF run.n > 1 THEN ResumeIndex ELSE 0
           tree == IF run.n > 1 THEN ResumeTree ELSE NoTree
<1>1. leg' = [at |-> "restore", step |-> from + 1, sub |-> 1, from |-> from,
              tree |-> tree, astray |-> FALSE]
  BY DEF Dispatch
<1>2. run'.n = run.n /\ run'.st = "running" /\ run.st = "queued"
  BY DEF Dispatch, Shape, Others
<1> HIDE DEF from, tree
<1>3. leg'.at = "restore" /\ leg'.sub = 1 /\ leg'.astray = FALSE /\ leg'.from = from /\ leg'.tree = tree
  BY <1>1
<1> QED
  BY <1>2, <1>3 DEF Driving, NoLeg, from, tree

\* A leg between sessions, or in one, is at a step of the plan.
LEMMA AtAStep ==
  ASSUME Shape, Course, leg.at \in Stepping
  PROVE  leg.step \in Step /\ run.n \in Lineage /\ LegShape /\ Driving
<1>1. Driving /\ leg.step \in 1..(NSteps + 1)
  BY DrivingAt DEF Shape, LegShape, Running, Driving
<1> QED
  BY <1>1, PlanTypes DEF Shape, Others, Course, Placed, Step

-----------------------------------------------------------------------------
(* The trees' invariant is inductive.                                        *)

\* The task keeps the kind of worktree it has; what strayed stays so.
LEMMA CleanStays ==
  ASSUME Typed, [Next]_vars
  PROVE  /\ backed' = backed
         /\ Clean' => Clean /\ UNCHANGED tally.strays
         /\ StraySession => ~ Clean'
<1>1. tally = [faults |-> tally.faults, lapses |-> tally.lapses, strays |-> tally.strays]
      /\ tally.strays \in Nat
  BY DEF Typed
<1>2. ASSUME StraySession PROVE backed' = backed /\ ~ Clean'
  <2>1. tally' = [faults |-> tally.faults, lapses |-> tally.lapses, strays |-> tally.strays + 1]
    BY <1>1, <1>2 DEF StraySession
  <2>2. tally'.strays = tally.strays + 1
    BY <2>1
  <2>3. backed' = backed
    BY <1>2 DEF StraySession
  <2> QED
    BY <1>1, <2>2, <2>3 DEF Clean
<1>3. CASE CloseSnapshot \/ LegFails \/ ProcessDies
  <2>1. tally'.strays = tally.strays
    BY <1>1, <1>3 DEF CloseSnapshot, LegFails, ProcessDies
  <2>2. backed' = backed
    BY <1>3 DEF CloseSnapshot, LegFails, ProcessDies
  <2> QED
    BY <1>2, <2>1, <2>2 DEF Clean
<1>4. ASSUME UNCHANGED <<backed, tally>>
      PROVE  backed' = backed /\ (Clean' => Clean /\ UNCHANGED tally.strays)
  BY <1>4 DEF Clean
<1>5. CASE Dispatch \/ Restore \/ Seed \/ PausePark \/ StartSession \/ Split \/ EndSession
  BY <1>2, <1>4, <1>5 DEF Dispatch, Restore, Seed, PausePark, StartSession, Split, EndSession
<1>6. CASE FileDeliverable \/ RegisterDeliverable \/ RecordDone \/ StageClose \/ Complete
  BY <1>2, <1>4, <1>6 DEF FileDeliverable, RegisterDeliverable, RecordDone, StageClose, Complete
<1>7. CASE MoveBoard \/ CreateVerify \/ EnqueueVerify
  BY <1>2, <1>4, <1>7 DEF MoveBoard, CreateVerify, EnqueueVerify
<1>8. CASE Reap \/ Fork \/ ThrowHold \/ ResumeRun \/ UNCHANGED vars
  BY <1>2, <1>4, <1>8 DEF Reap, Fork, ThrowHold, ResumeRun, vars
<1> QED
  BY <1>2, <1>3, <1>5, <1>6, <1>7, <1>8 DEF Next, LegStep

LEMMA TypedInductive ==
  Shape /\ Standing /\ Course /\ Typed /\ Sessions /\ [Next]_vars => Typed'
<1> SUFFICES ASSUME Shape, Standing, Course, Typed, Sessions, [Next]_vars
             PROVE  Typed'
  OBVIOUS
<1> USE PlanTypes, NoTreeIsNone DEF Shape, Others
<1> DEFINE Rest == /\ forwarded' \subseteq Step /\ registered' \subseteq Lineage
                   /\ filed' \in {0} \cup Lineage
                   /\ tally' \in [faults : Nat, lapses : Nat, strays : Nat]
                   /\ backed' \in BOOLEAN
           Sound == Driving' => /\ leg'.sub \in 1..2 /\ leg'.astray \in BOOLEAN
                                /\ leg'.tree # NoTree => leg'.tree \in Tree
           Kept  == \A i \in Step : evidence'[i] # NoTree => evidence'[i] \in Tree
           Held  == disk' # NoTree => disk' \in Tree
<1>0. ASSUME Rest, Sound, Kept, Held PROVE Typed'
  BY <1>0 DEF Typed
<1>a. ASSUME UNCHANGED leg PROVE Sound
  BY <1>a DEF Typed, Driving
<1>b. ASSUME UNCHANGED evidence PROVE Kept
  BY <1>b DEF Typed
<1>c. ASSUME UNCHANGED disk PROVE Held
  BY <1>c DEF Typed
<1>d. ASSUME SameTree, leg'.sub \in {leg.sub, 1, 2}, Driving PROVE Sound
  BY <1>d DEF Typed, SameTree, SameStep
<1>e. ASSUME leg' = NoLeg PROVE Sound
  BY <1>e DEF Driving
<1>f. ASSUME UNCHANGED <<backed, tally, forwarded, registered, filed>> PROVE Rest
  BY <1>f DEF Typed
<1>g. ASSUME NEW pc, pc # "none", Driving, LegAt(pc) PROVE Sound
  BY <1>d, <1>g, AtMoves DEF SameStep
<1> HIDE DEF Rest, Sound, Kept, Held
<1>1. CASE Dispatch
  <2>1. Sound
    <3>1. leg'.sub = 1 /\ leg'.astray = FALSE /\ leg'.tree \in {NoTree, ResumeTree}
      BY <1>1, DispatchIs
    <3>2. ResumeTree # NoTree => ResumeTree \in Tree
      BY ResumeIs
    <3>3. leg'.sub \in 1..2 /\ (leg'.tree # NoTree => leg'.tree \in Tree)
      BY <3>1, <3>2
    <3>4. leg'.astray \in BOOLEAN
      BY <3>1, Zenon
    <3> QED
      BY <3>3, <3>4 DEF Sound
  <2>2. UNCHANGED <<backed, tally, forwarded, registered, filed, evidence, disk>>
    BY <1>1 DEF Dispatch, ledger
  <2> QED
    BY <2>1, <2>2, <1>0, <1>b, <1>c, <1>f
<1>2. CASE Restore
  <2>1. leg.at = "restore" /\ LegAt("seed") /\ disk' = IF leg.tree # NoTree THEN leg.tree ELSE disk
    BY <1>2 DEF Restore
  <2>2. Driving
    BY <2>1, DrivingAt DEF Running
  <2>3. Held
    BY <2>1, <2>2 DEF Typed, Held
  <2>4. UNCHANGED <<backed, tally, forwarded, registered, filed, evidence>>
    BY <1>2 DEF Restore, ledger
  <2> QED
    BY <2>1, <2>2, <2>3, <2>4, <1>0, <1>b, <1>g, <1>f
<1>3. CASE Seed \/ RecordDone
  <2>1. Driving /\ \E i \in {leg.from + 1, leg.step + 1} : Onward(i)
    BY <1>3, DrivingAt DEF Seed, RecordDone, Running, Stepping
  <2>2. Sound
    <3>1. PICK i : Onward(i)
      BY <2>1
    <3>2. leg'.sub = 1 /\ leg'.tree = leg.tree /\ leg'.astray = FALSE
      BY <2>1, <3>1, OnMoves
    <3>3. leg'.sub \in 1..2 /\ (leg'.tree # NoTree => leg'.tree \in Tree)
      BY <2>1, <3>2 DEF Typed
    <3>4. leg'.astray \in BOOLEAN
      BY <3>2, Zenon
    <3> QED
      BY <3>3, <3>4 DEF Sound
  <2>3. Kept
    <3>1. CASE Seed
      BY <1>b, <3>1 DEF Seed
    <3>2. CASE RecordDone
      <4>1. leg.step \in Step /\ Driving
        BY <3>2, AtAStep DEF RecordDone, Stepping
      <4>2. \A i \in Step : evidence'[i] \in {evidence[i], leg.tree}
        BY <3>2, <4>1 DEF RecordDone
      <4> QED
        BY <4>1, <4>2 DEF Typed, Kept
    <3> QED
      BY <1>3, <3>1, <3>2
  <2>4. UNCHANGED <<backed, tally, forwarded, registered, filed, disk>>
    BY <1>3 DEF Seed, RecordDone
  <2> QED
    BY <2>2, <2>3, <2>4, <1>0, <1>c, <1>f
<1>4. CASE StartSession
  <2>1. leg.at = "boundary" /\ LegAt("session") /\ disk' = Begun(leg.step, run.n)
    BY <1>4 DEF StartSession
  <2>2. leg.step \in Step /\ run.n \in Lineage /\ Driving
    BY <2>1, AtAStep DEF Stepping
  <2>3. Held
    BY <2>1, <2>2, BegunIs DEF Held
  <2>4. UNCHANGED <<backed, tally, forwarded, registered, filed, evidence>>
    BY <1>4 DEF StartSession, ledger
  <2> QED
    BY <2>1, <2>2, <2>3, <2>4, <1>0, <1>b, <1>g, <1>f
<1>5. CASE StraySession
  <2>1. leg.at = "boundary" /\ leg' = [leg EXCEPT !.at = "session", !.astray = TRUE]
    BY <1>5 DEF StraySession
  <2>2. Driving
    BY <2>1, DrivingAt DEF Running, Stepping
  <2>3. leg'.astray = TRUE /\ leg'.tree = leg.tree /\ leg'.sub = leg.sub
    BY <2>1, <2>2, FieldMoves DEF SameStep
  <2>4. Sound
    BY <2>2, <2>3 DEF Typed, Sound
  <2>5. tally' = [tally EXCEPT !.strays = @ + 1]
    BY <1>5 DEF StraySession
  <2>6. UNCHANGED <<backed, forwarded, registered, filed, evidence, disk>>
    BY <1>5 DEF StraySession, ledger
  <2>7. Rest
    BY <2>5, <2>6 DEF Rest, Typed
  <2> QED
    BY <2>4, <2>6, <2>7, <1>0, <1>b, <1>c
<1>6. CASE Split
  <2>1. leg.at = "session" /\ leg' = [leg EXCEPT !.at = "boundary", !.sub = 2] /\ forwarded' = {leg.step}
    BY <1>6 DEF Split
  <2>2. Driving /\ leg.step \in Step
    BY <2>1, AtAStep DEF Stepping
  <2>3. Sound
    BY <2>1, <2>2, <1>d, FieldMoves
  <2>4. UNCHANGED <<backed, tally, registered, filed, evidence, disk>>
    BY <1>6 DEF Split
  <2>5. Rest
    BY <2>1, <2>2, <2>4 DEF Rest, Typed
  <2> QED
    BY <2>3, <2>4, <2>5, <1>0, <1>b, <1>c
<1>7. CASE EndSession
  <2>1. leg.at = "session" /\ \E pc \in {"file", "close"} : LegAt(pc)
    BY <1>7 DEF EndSession
  <2>2. Driving /\ leg.step \in Step /\ run.n \in Lineage
    BY <2>1, AtAStep DEF Stepping
  <2>3. disk' = IF leg.astray THEN disk ELSE Ended(leg.step, run.n)
    BY <1>7 DEF EndSession
  <2>4. Held
    BY <2>1, <2>2, <2>3, EndedIs DEF Held, Typed, Sessions
  <2>5. UNCHANGED <<backed, tally, forwarded, registered, filed, evidence>>
    BY <1>7 DEF EndSession, ledger
  <2> QED
    BY <2>1, <2>2, <2>4, <2>5, <1>0, <1>b, <1>g, <1>f
<1>8. CASE FileDeliverable \/ RegisterDeliverable
  <2>1. leg.at \in {"file", "register"} /\ \E pc \in {"register", "close"} : LegAt(pc)
    BY <1>8 DEF FileDeliverable, RegisterDeliverable
  <2>2. Driving /\ run.n \in Lineage
    BY <2>1, AtAStep DEF Stepping
  <2>3. UNCHANGED <<backed, tally, forwarded, evidence, disk>> /\ filed' \in {filed, run.n}
        /\ registered' \in {registered, registered \cup {run.n}}
    BY <1>8 DEF FileDeliverable, RegisterDeliverable, ledger
  <2>4. Rest
    BY <2>2, <2>3 DEF Rest, Typed
  <2> QED
    BY <2>1, <2>2, <2>3, <2>4, <1>0, <1>b, <1>c, <1>g
<1>9. CASE CloseSnapshot
  <2>1. leg.at = "close" /\ \E t \in {Snapshot, NoTree} : leg' = [leg EXCEPT !.at = "record", !.tree = t]
    BY <1>9 DEF CloseSnapshot
  <2>2. Driving
    BY <2>1, AtAStep DEF Stepping
  <2>3. leg'.sub = leg.sub /\ leg'.astray = leg.astray /\ leg'.tree \in {Snapshot, NoTree}
    <3>1. PICK t \in {Snapshot, NoTree} : leg' = [leg EXCEPT !.at = "record", !.tree = t]
      BY <2>1
    <3> QED
      BY <2>2, <3>1, FieldMoves DEF SameStep
  <2>4. Sound
    BY <2>2, <2>3 DEF Typed, Sound, Snapshot
  <2>5. tally' = tally \/ tally' = [tally EXCEPT !.lapses = @ + 1]
    BY <1>9 DEF CloseSnapshot
  <2>6. UNCHANGED <<backed, forwarded, registered, filed, evidence, disk>>
    BY <1>9 DEF CloseSnapshot, ledger
  <2>7. Rest
    BY <2>5, <2>6 DEF Rest, Typed
  <2> QED
    BY <2>4, <2>6, <2>7, <1>0, <1>b, <1>c
<1>10. CASE StageClose
  <2>1. leg.at = "stageclose" /\ (LegAt("legsnap") \/ leg' = NoLeg) /\ forwarded' = {}
    BY <1>10 DEF StageClose
  <2>2. Driving
    BY <2>1, DrivingAt DEF Running
  <2>3. Sound
    BY <2>1, <2>2, <1>e, <1>g
  <2>4. UNCHANGED <<backed, tally, registered, filed, evidence, disk>>
    BY <1>10 DEF StageClose
  <2>5. Rest
    BY <2>1, <2>4 DEF Rest, Typed
  <2> QED
    BY <2>3, <2>4, <2>5, <1>0, <1>b, <1>c
<1>11. CASE Complete \/ MoveBoard \/ CreateVerify
  <2>1. leg.at \in {"legsnap", "board", "create"} /\ \E pc \in {"board", "create", "enqueue"} : LegAt(pc)
    BY <1>11 DEF Complete, MoveBoard, CreateVerify
  <2>2. Driving
    BY <2>1, DrivingAt DEF Running, After
  <2>3. UNCHANGED <<backed, tally, forwarded, registered, filed, evidence, disk>>
    BY <1>11 DEF Complete, MoveBoard, CreateVerify, ledger
  <2> QED
    BY <2>1, <2>2, <2>3, <1>0, <1>b, <1>c, <1>f, <1>g
<1>12. CASE PausePark \/ EnqueueVerify
  <2>1. UNCHANGED <<backed, tally, forwarded, registered, filed, evidence, disk>> /\ leg' = NoLeg
    BY <1>12 DEF PausePark, EnqueueVerify, ledger
  <2> QED
    BY <2>1, <1>0, <1>b, <1>c, <1>e, <1>f
<1>13. CASE LegFails \/ ProcessDies
  <2>1. UNCHANGED <<backed, forwarded, registered, filed, evidence, disk>> /\ leg' = NoLeg
        /\ tally' = [tally EXCEPT !.faults = @ + 1]
    BY <1>13 DEF LegFails, ProcessDies, ledger
  <2>2. Rest
    BY <2>1 DEF Rest, Typed
  <2> QED
    BY <2>1, <2>2, <1>0, <1>b, <1>c, <1>e
<1>14. CASE Fork
  <2>1. UNCHANGED <<backed, tally, forwarded, registered, filed, evidence, leg>> /\ disk' \in {disk, NoTree}
    BY <1>14 DEF Fork, ledger
  <2>2. Held
    BY <2>1 DEF Held, Typed
  <2> QED
    BY <2>1, <2>2, <1>0, <1>a, <1>b, <1>f
<1>15. CASE Reap \/ ThrowHold \/ ResumeRun \/ UNCHANGED vars
  <2>1. UNCHANGED <<backed, tally, forwarded, registered, filed, evidence, leg, disk>>
    BY <1>15 DEF Reap, ThrowHold, ResumeRun, vars, ledger
  <2> QED
    BY <2>1, <1>0, <1>a, <1>b, <1>c, <1>f
<1> QED
  BY <1>1, <1>2, <1>3, <1>4, <1>5, <1>6, <1>7, <1>8, <1>9, <1>10, <1>11, <1>12, <1>13, <1>14, <1>15 DEF Next, LegStep

LEMMA SessionsInductive ==
  Shape /\ Standing /\ Course /\ Typed /\ Sessions /\ [Next]_vars => Sessions'
<1> SUFFICES ASSUME Shape, Standing, Course, Typed, Sessions, [Next]_vars
             PROVE  Sessions'
  OBVIOUS
<1> USE PlanTypes, NoTreeIsNone DEF Shape, Others
<1> DEFINE Open  == leg'.at = "session" => disk' # NoTree \/ leg'.astray
           Stray == Driving' /\ leg'.astray => backed' /\ tally'.strays > 0
<1>0. ASSUME Open, Stray PROVE Sessions'
  BY <1>0 DEF Sessions
<1>a. backed' = backed /\ (tally.strays > 0 => tally'.strays > 0)
  <2>1. CASE StraySession
    BY <2>1 DEF StraySession, Typed
  <2>2. CASE CloseSnapshot \/ LegFails \/ ProcessDies
    <3>1. tally'.strays = tally.strays /\ backed' = backed
      BY <2>2 DEF CloseSnapshot, LegFails, ProcessDies, Typed
    <3> QED
      BY <3>1
  <2>3. CASE Dispatch \/ Restore \/ Seed \/ PausePark \/ StartSession \/ Split \/ EndSession
    BY <2>3 DEF Dispatch, Restore, Seed, PausePark, StartSession, Split, EndSession
  <2>4. CASE FileDeliverable \/ RegisterDeliverable \/ RecordDone \/ StageClose \/ Complete
    BY <2>4 DEF FileDeliverable, RegisterDeliverable, RecordDone, StageClose, Complete
  <2>5. CASE MoveBoard \/ CreateVerify \/ EnqueueVerify
    BY <2>5 DEF MoveBoard, CreateVerify, EnqueueVerify
  <2>6. CASE Reap \/ Fork \/ ThrowHold \/ ResumeRun \/ UNCHANGED vars
    BY <2>6 DEF Reap, Fork, ThrowHold, ResumeRun, vars
  <2> QED
    BY <2>1, <2>2, <2>3, <2>4, <2>5, <2>6 DEF Next, LegStep
<1>b. ASSUME Driving, leg'.astray = leg.astray PROVE Stray
  BY <1>a, <1>b DEF Sessions
<1>c. ASSUME leg' = NoLeg PROVE Open /\ Stray
  BY <1>c DEF Driving, NoLeg
<1>d. ASSUME NEW pc, pc \notin {"none", "session"}, Driving, LegAt(pc) PROVE Open /\ Stray
  BY <1>b, <1>d, AtMoves DEF SameTree
<1>e. ASSUME UNCHANGED leg PROVE Stray /\ (leg.at # "session" \/ disk' = disk => Open)
  BY <1>a, <1>e DEF Driving, Sessions
<1> HIDE DEF Open, Stray
<1>1. CASE Dispatch
  <2>1. leg'.at = "restore" /\ leg'.astray = FALSE
    BY <1>1, DispatchIs
  <2> QED
    BY <2>1, <1>0 DEF Open, Stray
<1>2. CASE Restore
  BY <1>2, <1>0, <1>d, DrivingAt DEF Restore, Running
<1>3. CASE Seed \/ RecordDone
  <2>1. Driving /\ \E i \in {leg.from + 1, leg.step + 1} : Onward(i)
    BY <1>3, DrivingAt DEF Seed, RecordDone, Running, Stepping
  <2>2. PICK i : Onward(i)
    BY <2>1
  <2>3. leg'.at \in {"boundary", "stageclose"} /\ leg'.astray = FALSE
    BY <2>1, <2>2, OnMoves
  <2> QED
    BY <2>3, <1>0 DEF Open, Stray
<1>4. CASE StartSession
  <2>1. leg.at = "boundary" /\ LegAt("session") /\ disk' = Begun(leg.step, run.n)
    BY <1>4 DEF StartSession
  <2>2. leg.step \in Step /\ run.n \in Lineage /\ Driving
    BY <2>1, AtAStep DEF Stepping
  <2>3. disk' # NoTree
    BY <2>1, <2>2, BegunIs
  <2>4. leg'.astray = leg.astray
    BY <2>1, <2>2, AtMoves DEF SameTree
  <2> QED
    BY <2>2, <2>3, <2>4, <1>0, <1>b DEF Open
<1>5. CASE StraySession
  <2>1. leg.at = "boundary" /\ leg' = [leg EXCEPT !.at = "session", !.astray = TRUE]
        /\ backed /\ tally' = [tally EXCEPT !.strays = @ + 1]
    BY <1>5 DEF StraySession
  <2>2. leg'.astray = TRUE
    BY <2>1, DrivingAt, FieldMoves DEF Running, Stepping
  <2>3. tally'.strays > 0
    BY <2>1 DEF Typed
  <2> QED
    BY <2>1, <2>2, <2>3, <1>a, <1>0 DEF Open, Stray
<1>6. CASE Split
  <2>1. leg.at = "session" /\ leg' = [leg EXCEPT !.at = "boundary", !.sub = 2]
    BY <1>6 DEF Split
  <2>2. Driving
    BY <2>1, AtAStep DEF Stepping
  <2>3. leg'.at = "boundary" /\ leg'.astray = leg.astray
    BY <2>1, <2>2, FieldMoves DEF SameTree
  <2> QED
    BY <2>2, <2>3, <1>0, <1>b DEF Open
<1>7. CASE EndSession \/ FileDeliverable \/ RegisterDeliverable
  <2>1. leg.at \in Stepping /\ \E pc \in {"file", "register", "close"} : LegAt(pc)
    BY <1>7 DEF EndSession, FileDeliverable, RegisterDeliverable, Stepping
  <2> QED
    BY <2>1, <1>0, <1>d, DrivingAt DEF Running
<1>8. CASE CloseSnapshot
  <2>1. leg.at = "close" /\ \E t \in {Snapshot, NoTree} : leg' = [leg EXCEPT !.at = "record", !.tree = t]
    BY <1>8 DEF CloseSnapshot
  <2>2. Driving
    BY <2>1, AtAStep DEF Stepping
  <2>3. leg'.at = "record" /\ leg'.astray = leg.astray
    <3>1. PICK t \in {Snapshot, NoTree} : leg' = [leg EXCEPT !.at = "record", !.tree = t]
      BY <2>1
    <3> QED
      BY <2>2, <3>1, FieldMoves
  <2> QED
    BY <2>2, <2>3, <1>0, <1>b DEF Open
<1>9. CASE StageClose \/ Complete \/ MoveBoard \/ CreateVerify
  <2>1. /\ leg.at \in {"stageclose", "legsnap", "board", "create"}
        /\ leg' = NoLeg \/ \E pc \in {"legsnap", "board", "create", "enqueue"} : LegAt(pc)
    BY <1>9 DEF StageClose, Complete, MoveBoard, CreateVerify
  <2>2. Driving
    BY <2>1, DrivingAt DEF Running, After
  <2> QED
    BY <2>1, <2>2, <1>0, <1>c, <1>d
<1>10. CASE PausePark \/ EnqueueVerify \/ LegFails \/ ProcessDies
  BY <1>10, <1>0, <1>c DEF PausePark, EnqueueVerify, LegFails, ProcessDies
<1>11. CASE Fork
  <2>1. UNCHANGED leg /\ leg.at # "session"
    BY <1>11 DEF Fork, Standing, Running, Stepping
  <2> QED
    BY <2>1, <1>0, <1>e
<1>12. CASE Reap \/ ThrowHold \/ ResumeRun \/ UNCHANGED vars
  <2>1. UNCHANGED <<leg, disk>>
    BY <1>12 DEF Reap, ThrowHold, ResumeRun, vars
  <2> QED
    BY <2>1, <1>0, <1>e
<1> QED
  BY <1>1, <1>2, <1>3, <1>4, <1>5, <1>6, <1>7, <1>8, <1>9, <1>10, <1>11, <1>12 DEF Next, LegStep

\* The close records the tree its snapshot returned.
LEMMA CloseMoves ==
  ASSUME LegShape, Driving, NEW t, leg' = [leg EXCEPT !.at = "record", !.tree = t]
  PROVE  leg'.at = "record" /\ leg'.step = leg.step /\ leg'.tree = t
  BY FieldMoves DEF SameStep

LEMMA StepArith == \A i \in Step : (i + 1) - 1 = i /\ (i + 1 <= NSteps \/ i = NSteps)
BY PlanTypes DEF Step

LEMMA GrownInductive ==
  Shape /\ Standing /\ Course /\ Trees /\ [Next]_vars => Grown'
<1> SUFFICES ASSUME Shape, Standing, Course, Trees, [Next]_vars, Clean'
             PROVE  Grown'
  BY DEF Grown
<1> USE PlanTypes, NoTreeIsNone DEF Shape, Others, Trees
<1>x. /\ Clean /\ backed' = backed /\ ~ StraySession
      /\ Driving => ~ leg.astray
  <2>1. Clean /\ backed' = backed /\ ~ StraySession
    BY CleanStays
  <2>2. ~ (tally.strays > 0)
    BY <2>1 DEF Clean
  <2> QED
    BY <2>1, <2>2 DEF Sessions
<1> DEFINE Kept  == \A i \in Step : evidence'[i] # NoTree => WholeUpTo(evidence'[i], i)
           Young == run'.n = 1 /\ run'.st = "queued" => disk' = NoTree
           Over  == run'.st = "completed" => disk' # NoTree /\ WholeUpTo(disk', NSteps)
           Open  == IF disk' = NoTree THEN <<>> ELSE disk'
           Ready ==
             /\ leg'.at = "restore" => \/ leg'.tree # NoTree /\ WholeUpTo(leg'.tree, leg'.from)
                                       \/ leg'.tree = NoTree /\ leg'.from = 0 /\ disk' = NoTree
             /\ leg'.at = "seed" => WholeUpTo(Open, leg'.from)
             /\ leg'.at = "boundary" /\ leg'.sub = 1 => WholeUpTo(Open, leg'.step - 1)
             /\ leg'.at = "session" \/ (leg'.at = "boundary" /\ leg'.sub = 2)
                  => disk' # NoTree /\ Underway(disk', leg'.step, run'.n)
             /\ leg'.at \in {"file", "register", "close", "record"}
                  => disk' # NoTree /\ WholeUpTo(disk', leg'.step)
             /\ leg'.at = "record" /\ leg'.tree # NoTree => WholeUpTo(leg'.tree, leg'.step)
             /\ leg'.at \in {"stageclose", "legsnap"} => disk' # NoTree /\ WholeUpTo(disk', NSteps)
<1>0. ASSUME Kept, Young, Over, Ready PROVE Grown'
  BY <1>0 DEF Grown, Opened, Fresh, Midway, Filling
<1>1. /\ \A i \in Step : evidence[i] # NoTree => WholeUpTo(evidence[i], i)
      /\ run.n = 1 /\ run.st = "queued" => disk = NoTree
      /\ leg.at = "restore" => \/ leg.tree # NoTree /\ WholeUpTo(leg.tree, leg.from)
                               \/ leg.tree = NoTree /\ leg.from = 0 /\ disk = NoTree
      /\ leg.at = "seed" => WholeUpTo(Opened, leg.from)
      /\ leg.at = "boundary" /\ leg.sub = 1 => WholeUpTo(Opened, leg.step - 1)
      /\ leg.at = "session" \/ (leg.at = "boundary" /\ leg.sub = 2)
           => disk # NoTree /\ Underway(disk, leg.step, run.n)
      /\ leg.at \in {"file", "register", "close", "record"} => disk # NoTree /\ WholeUpTo(disk, leg.step)
      /\ leg.at = "record" /\ leg.tree # NoTree => WholeUpTo(leg.tree, leg.step)
      /\ leg.at \in {"stageclose", "legsnap"} \/ run.st = "completed"
           => disk # NoTree /\ WholeUpTo(disk, NSteps)
  BY <1>x DEF Grown, Fresh, Midway, Filling
<1>2. WholeUpTo(<<>>, 0) /\ ~ WholeUpTo(<<>>, NSteps)
  BY DEF WholeUpTo
<1>a. ASSUME UNCHANGED evidence PROVE Kept
  BY <1>1, <1>a
<1>b. ASSUME UNCHANGED <<run, disk>> PROVE Young /\ Over
  BY <1>1, <1>b
<1>c. ASSUME leg' = NoLeg PROVE Ready
  BY <1>c DEF NoLeg
<1>d. ASSUME run'.st \notin {"queued", "completed"} PROVE Young /\ Over
  BY <1>d
<1>e. ASSUME run'.st = run.st, run'.n = run.n, run.st = "running" PROVE Young /\ Over
  BY <1>e
<1>f. ASSUME UNCHANGED run, leg.at \in Running PROVE Young /\ Over
  BY <1>e, <1>f DEF Standing
<1>g. Opened = IF disk = NoTree THEN <<>> ELSE disk
  BY DEF Opened
<1> HIDE DEF Kept, Young, Over
<1>3. CASE Dispatch
  <2>1. /\ leg'.at = "restore" /\ run'.st = "running" /\ run.st = "queued"
        /\ leg'.from = IF run.n > 1 THEN ResumeIndex ELSE 0
        /\ leg'.tree = IF run.n > 1 THEN ResumeTree ELSE NoTree
    BY <1>3, DispatchIs
  <2>2. UNCHANGED <<evidence, disk>>
    BY <1>3 DEF Dispatch, ledger
  <2>3. run.n = 1 \/ run.n > 1
    BY DEF Lineage
  <2>4. CASE run.n > 1 /\ ResumeIndex > 0
    <3>1. ResumeTree # NoTree /\ WholeUpTo(ResumeTree, ResumeIndex)
      BY <1>1, <2>4, ResumeIs
    <3>2. Ready
      BY <2>1, <2>4, <3>1
    <3> QED
      BY <1>0, <1>a, <1>d, <2>1, <2>2, <3>2
  <2>5. CASE run.n > 1 /\ ~ (ResumeIndex > 0)
    <3>1. ResumeIndex = 0 /\ ResumeTree = IF disk # NoTree THEN <<>> ELSE NoTree
      BY <1>x, <2>5, ResumeIs DEF Clean
    <3>2. Ready
      BY <1>2, <2>1, <2>2, <2>5, <3>1
    <3> QED
      BY <1>0, <1>a, <1>d, <2>1, <2>2, <3>2
  <2>6. CASE run.n = 1
    <3>1. Ready
      BY <1>1, <2>1, <2>2, <2>6
    <3> QED
      BY <1>0, <1>a, <1>d, <2>1, <2>2, <3>1
  <2> QED
    BY <2>3, <2>4, <2>5, <2>6
<1>4. CASE Restore
  <2>1. leg.at = "restore" /\ LegAt("seed") /\ disk' = IF leg.tree # NoTree THEN leg.tree ELSE disk
    BY <1>4 DEF Restore
  <2>2. leg'.at = "seed" /\ leg'.from = leg.from
    BY <2>1, AtMoves, DrivingAt DEF SameStep, Running
  <2>3. UNCHANGED <<run, evidence>>
    BY <1>4 DEF Restore, ledger
  <2>4. WholeUpTo(Open, leg.from)
    BY <1>1, <1>2, <2>1
  <2>5. Ready
    BY <2>2, <2>4
  <2> QED
    BY <1>0, <1>a, <1>f, <2>1, <2>3, <2>5 DEF Running
<1>5. CASE Seed
  <2>1. leg.at = "seed" /\ Onward(leg.from + 1) /\ UNCHANGED <<run, evidence, disk>>
    BY <1>5 DEF Seed
  <2>2. /\ leg'.at = IF leg.from + 1 <= NSteps THEN "boundary" ELSE "stageclose"
        /\ leg'.step = leg.from + 1 /\ leg'.sub = 1
    BY <2>1, OnMoves, DrivingAt DEF Running
  <2>3. leg.from \in 0..NSteps /\ leg'.step - 1 = leg.from
    BY <2>1, <2>2, DrivingAt DEF LegShape, NoLeg
  <2>4. WholeUpTo(Open, leg.from)
    BY <1>1, <1>g, <2>1
  <2>5. Ready
    <3>1. CASE leg.from + 1 <= NSteps
      BY <2>2, <2>3, <2>4, <3>1
    <3>2. CASE leg.from = NSteps
      <4>1. disk' # NoTree /\ Open = disk'
        BY <1>2, <2>4, <3>2
      <4> QED
        BY <2>2, <2>3, <2>4, <3>2, <4>1
    <3> QED
      BY <2>3, <3>1, <3>2
  <2> QED
    BY <1>0, <1>a, <1>b, <2>1, <2>5
<1>6. CASE StartSession
  <2>1. leg.at = "boundary" /\ LegAt("session") /\ disk' = Begun(leg.step, run.n)
        /\ UNCHANGED <<run, evidence>>
    BY <1>6 DEF StartSession, ledger
  <2>2. leg.step \in Step /\ run.n \in Lineage /\ Driving
    BY <2>1, AtAStep DEF Stepping
  <2>3. leg'.at = "session" /\ leg'.step = leg.step
    BY <2>1, <2>2, AtMoves DEF SameStep
  <2>4. disk' # NoTree
    BY <2>1, <2>2, BegunIs
  <2>5. Underway(Begun(leg.step, run.n), leg.step, run.n)
    <3>1. CASE leg.sub = 1
      BY <1>1, <2>1, <2>2, <3>1, BegunGrows
    <3>2. CASE leg.sub = 2
      <4>1. disk # NoTree /\ Underway(disk, leg.step, run.n)
        BY <1>1, <2>1, <3>2
      <4> QED
        BY <2>2, <4>1, BegunAgain
    <3> QED
      BY <2>2, <3>1, <3>2 DEF Typed
  <2>6. Ready
    BY <2>1, <2>3, <2>4, <2>5
  <2> QED
    BY <1>0, <1>a, <1>f, <2>1, <2>6 DEF Running, Stepping
<1>7. CASE Split
  <2>1. leg.at = "session" /\ leg' = [leg EXCEPT !.at = "boundary", !.sub = 2]
        /\ UNCHANGED <<run, evidence, disk>>
    BY <1>7 DEF Split
  <2>2. leg'.at = "boundary" /\ leg'.sub = 2 /\ leg'.step = leg.step
    BY <2>1, AtAStep, FieldMoves DEF Stepping
  <2>3. Ready
    BY <1>1, <2>1, <2>2
  <2> QED
    BY <1>0, <1>a, <1>b, <2>1, <2>3
<1>8. CASE EndSession
  <2>1. leg.at = "session" /\ UNCHANGED <<run, evidence>>
        /\ disk' = (IF leg.astray THEN disk ELSE Ended(leg.step, run.n))
        /\ \E pc \in {"file", "close"} : LegAt(pc)
    BY <1>8 DEF EndSession, ledger
  <2>2. leg.step \in Step /\ run.n \in Lineage /\ Driving
    BY <2>1, AtAStep DEF Stepping
  <2>3. leg'.at \in {"file", "close"} /\ leg'.step = leg.step
    BY <2>1, <2>2, AtMoves DEF SameStep
  <2>4. disk' = Ended(leg.step, run.n)
    BY <1>x, <2>1, <2>2
  <2>5. disk' # NoTree /\ WholeUpTo(Ended(leg.step, run.n), leg.step)
    BY <1>1, <2>1, <2>2, <2>4, EndedIs, EndedGrows
  <2>6. Ready
    BY <2>3, <2>4, <2>5
  <2> QED
    BY <1>0, <1>a, <1>f, <2>1, <2>6 DEF Running, Stepping
<1>9. CASE FileDeliverable \/ RegisterDeliverable
  <2>1. leg.at \in {"file", "register"} /\ UNCHANGED <<run, evidence, disk>>
        /\ \E pc \in {"register", "close"} : LegAt(pc)
    BY <1>9 DEF FileDeliverable, RegisterDeliverable, ledger
  <2>2. Driving
    BY <2>1, AtAStep DEF Stepping
  <2>3. leg'.at \in {"register", "close"} /\ leg'.step = leg.step
    BY <2>1, <2>2, AtMoves DEF SameStep
  <2>4. Ready
    BY <1>1, <2>1, <2>3
  <2> QED
    BY <1>0, <1>a, <1>b, <2>1, <2>4
<1>10. CASE CloseSnapshot
  <2>1. leg.at = "close" /\ UNCHANGED <<run, evidence, disk>>
        /\ \E t \in {Snapshot, NoTree} : leg' = [leg EXCEPT !.at = "record", !.tree = t]
    BY <1>10 DEF CloseSnapshot, ledger
  <2>2. leg'.at = "record" /\ leg'.step = leg.step /\ leg'.tree \in {disk, NoTree}
    <3>1. PICK t \in {Snapshot, NoTree} : leg' = [leg EXCEPT !.at = "record", !.tree = t]
      BY <2>1
    <3>2. Snapshot = disk
      BY <1>x DEF Snapshot, Clean
    <3>3. Driving
      BY <2>1, AtAStep DEF Stepping
    <3>4. leg'.at = "record" /\ leg'.step = leg.step /\ leg'.tree = t
      BY <3>1, <3>3, CloseMoves
    <3> QED
      BY <3>1, <3>2, <3>4
  <2>3. Ready
    BY <1>1, <2>1, <2>2
  <2> QED
    BY <1>0, <1>a, <1>b, <2>1, <2>3
<1>11. CASE RecordDone
  <2>1. leg.at = "record" /\ Onward(leg.step + 1) /\ UNCHANGED <<run, disk>>
    BY <1>11 DEF RecordDone
  <2>2. leg.step \in Step /\ Driving
    BY <2>1, AtAStep DEF Stepping
  <2>3. /\ leg'.at = IF leg.step + 1 <= NSteps THEN "boundary" ELSE "stageclose"
        /\ leg'.step = leg.step + 1 /\ leg'.sub = 1
    BY <2>1, <2>2, OnMoves
  <2>4. leg'.step - 1 = leg.step /\ (leg.step + 1 <= NSteps \/ leg.step = NSteps)
    BY <2>2, <2>3, StepArith
  <2>5. disk # NoTree /\ WholeUpTo(disk, leg.step)
    BY <1>1, <2>1
  <2>6. Ready
    BY <2>1, <2>3, <2>4, <2>5
  <2>7. \A i \in Step : evidence'[i] = evidence[i]
                        \/ (i = leg.step /\ evidence'[i] = leg.tree /\ leg.tree # NoTree)
    BY <1>11, <2>2 DEF RecordDone
  <2>8. Kept
    BY <1>1, <2>1, <2>7 DEF Kept
  <2> QED
    BY <1>0, <1>b, <2>1, <2>6, <2>8
<1>12. CASE StageClose
  <2>1. leg.at = "stageclose" /\ UNCHANGED <<evidence, disk>> /\ run.st = "running"
    BY <1>12 DEF StageClose, Standing, Running
  <2>2. Ready
    <3>1. CASE LegAt("legsnap")
      <4>1. leg'.at = "legsnap"
        BY <2>1, <3>1, AtMoves, DrivingAt DEF Running
      <4> QED
        BY <1>1, <2>1, <4>1
    <3> QED
      BY <1>12, <1>c, <3>1 DEF StageClose
  <2>3. run'.st \in {"running", "crashed"}
    BY <1>12, <2>1 DEF StageClose
  <2> QED
    BY <1>0, <1>a, <1>d, <2>1, <2>2, <2>3
<1>13. CASE Complete \/ MoveBoard \/ CreateVerify
  <2>1. leg.at \in {"legsnap", "board", "create"} /\ UNCHANGED <<evidence, disk>>
        /\ (\E pc \in {"board", "create", "enqueue"} : LegAt(pc))
        /\ run'.st = "completed"
    BY <1>13 DEF Complete, MoveBoard, CreateVerify, ledger, Standing, After
  <2>2. leg'.at \in {"board", "create", "enqueue"}
    BY <2>1, AtMoves, DrivingAt DEF Running, After
  <2>3. Ready
    BY <2>2
  <2>4. disk # NoTree /\ WholeUpTo(disk, NSteps)
    BY <1>1, <2>1, <1>13 DEF Standing, After
  <2>5. Young /\ Over
    BY <2>1, <2>4 DEF Young, Over
  <2> QED
    BY <1>0, <1>a, <2>1, <2>3, <2>5
<1>14. CASE PausePark \/ LegFails \/ ProcessDies \/ EnqueueVerify
  <2>1. leg' = NoLeg /\ UNCHANGED <<evidence, disk>>
        /\ (run' = run \/ run'.st \in {"parked", "crashed"})
    BY <1>14 DEF PausePark, LegFails, ProcessDies, EnqueueVerify, ledger
  <2> QED
    BY <1>0, <1>a, <1>b, <1>c, <1>d, <2>1
<1>15. CASE Fork
  <2>1. UNCHANGED <<evidence, disk, leg>> /\ run' = [n |-> run.n + 1, st |-> "queued"] /\ run.n \in 1..MaxForks
    BY <1>15, <1>x DEF Fork, ledger, Clean
  <2>2. run'.n > 1 /\ run'.st = "queued"
    BY <2>1
  <2>3. Young /\ Over
    BY <2>2 DEF Young, Over
  <2>4. leg.at \notin Running
    BY <1>15 DEF Fork, Standing
  <2>5. Ready
    BY <2>1, <2>4 DEF Running, Stepping
  <2> QED
    BY <1>0, <1>a, <2>1, <2>3, <2>5
<1>16. CASE Reap \/ ResumeRun
  <2>1. UNCHANGED <<evidence, disk, leg>> /\ run'.st \in {"running", "crashed"} /\ run'.n = run.n
    BY <1>16 DEF Reap, ResumeRun, ledger
  <2>2. leg.at \notin Running
    BY <1>16 DEF Reap, ResumeRun, Standing, Driving, NoLeg, Running, Stepping
  <2>3. Ready
    BY <2>1, <2>2 DEF Running, Stepping
  <2> QED
    BY <1>0, <1>a, <1>d, <2>1, <2>3
<1>17. CASE ThrowHold \/ UNCHANGED vars
  <2>1. UNCHANGED <<evidence, disk, leg, run>>
    BY <1>17 DEF ThrowHold, vars, ledger
  <2>2. Ready
    BY <1>1, <1>g, <2>1
  <2> QED
    BY <1>0, <1>a, <1>b, <2>1, <2>2
<1> QED
  BY <1>x, <1>3, <1>4, <1>5, <1>6, <1>7, <1>8, <1>9, <1>10, <1>11, <1>12, <1>13, <1>14, <1>15, <1>16, <1>17 DEF Next, LegStep

LEMMA PlainInductive ==
  Shape /\ Standing /\ Course /\ Trees /\ [Next]_vars => Plain'
<1> SUFFICES ASSUME Shape, Standing, Course, Trees, [Next]_vars, ~ backed'
             PROVE  Plain'
  BY DEF Plain
<1> USE PlanTypes, NoTreeIsNone DEF Shape, Others, Trees
<1>x. ~ backed /\ ~ StraySession /\ (Driving => ~ leg.astray)
  BY CleanStays DEF Sessions, StraySession
<1> DEFINE Open  == IF disk' = NoTree THEN <<>> ELSE disk'
           Kept  == \A i \in Step : evidence'[i] = NoTree
           Loose == Driving' => leg'.tree = NoTree
           Empty == run'.st = "queued" \/ leg'.at \in {"restore", "seed"} => disk' = NoTree
           Own   == \A k \in DOMAIN Open : Open[k].by = run'.n
           Ready == (leg'.at = "boundary" /\ leg'.sub = 1) \/ leg'.at \in {"file", "register", "close", "record"}
                      => \A k \in DOMAIN Open : Open[k].whole
           Amid  == leg'.at = "session" \/ (leg'.at = "boundary" /\ leg'.sub = 2)
                      => \A k \in DOMAIN Open : Open[k].whole \/ Open[k].step = leg'.step
<1>0. ASSUME Kept, Loose, Empty, Own, Ready, Amid PROVE Plain'
  BY <1>0 DEF Plain, Opened, Fresh, Midway, Filling
<1>1. /\ \A i \in Step : evidence[i] = NoTree
      /\ Driving => leg.tree = NoTree
      /\ run.st = "queued" \/ leg.at \in {"restore", "seed"} => disk = NoTree
      /\ \A k \in DOMAIN Opened : Opened[k].by = run.n
      /\ (leg.at = "boundary" /\ leg.sub = 1) \/ leg.at \in {"file", "register", "close", "record"}
           => \A k \in DOMAIN Opened : Opened[k].whole
      /\ leg.at = "session" \/ (leg.at = "boundary" /\ leg.sub = 2)
           => \A k \in DOMAIN Opened : Opened[k].whole \/ Opened[k].step = leg.step
  BY <1>x DEF Plain, Fresh, Midway, Filling
<1>2. DOMAIN <<>> = {}
  OBVIOUS
<1>g. Opened = IF disk = NoTree THEN <<>> ELSE disk
  BY DEF Opened
<1>a. ASSUME UNCHANGED evidence PROVE Kept
  BY <1>1, <1>a
<1>b. ASSUME UNCHANGED disk, run'.n = run.n PROVE Own
  BY <1>1, <1>b, <1>g
<1>c. ASSUME leg' = NoLeg PROVE Loose /\ Ready /\ Amid /\ (run'.st # "queued" => Empty)
  BY <1>c DEF NoLeg, Driving
<1>d. ASSUME disk' = NoTree PROVE Empty /\ Own /\ Ready /\ Amid
  BY <1>d, <1>2
<1>e. ASSUME run'.st # "queued", leg'.at \notin {"restore", "seed"} PROVE Empty
  BY <1>e
<1>f. ASSUME leg.at \in Running \cup After PROVE run.st # "queued" /\ leg # NoLeg /\ Driving
  BY <1>f, DrivingAt DEF Standing
<1>h. ASSUME Driving, leg'.tree = leg.tree PROVE Loose
  BY <1>1, <1>h
<1>i. ASSUME Kept, Own, disk' = disk, run'.st # "queued", Driving, leg'.tree = leg.tree,
             leg'.at \notin {"restore", "seed", "boundary", "session", "file", "register", "close", "record"}
      PROVE  Plain'
  BY <1>0, <1>e, <1>h, <1>i
<1> HIDE DEF Open, Kept, Loose, Empty, Own, Ready, Amid
<1>3. CASE Dispatch
  <2>1. leg'.tree = IF run.n > 1 THEN ResumeTree ELSE NoTree
    BY <1>3, DispatchIs
  <2>2. ResumeTree = NoTree
    <3>1. ~ (ResumeIndex > 0)
      BY <1>1, ResumeIs
    <3> QED
      BY <1>x, <3>1, ResumeIs
  <2>3. Loose
    BY <2>1, <2>2 DEF Loose
  <2>4. UNCHANGED evidence /\ disk' = NoTree
    BY <1>1, <1>3 DEF Dispatch, ledger
  <2> QED
    BY <1>0, <1>a, <1>d, <2>3, <2>4
<1>4. CASE Restore \/ Seed
  <2>1. leg.at \in {"restore", "seed"} /\ UNCHANGED <<run, evidence>>
        /\ (LegAt("seed") \/ Onward(leg.from + 1))
    BY <1>4 DEF Restore, Seed, ledger
  <2>2. leg.tree = NoTree /\ disk = NoTree /\ Driving
    BY <1>1, <1>f, <2>1 DEF Running
  <2>3. disk' = NoTree
    BY <1>4, <2>2 DEF Restore, Seed
  <2>4. leg'.tree = leg.tree
    BY <2>1, <2>2, AtMoves, OnMoves DEF SameTree
  <2> QED
    BY <1>0, <1>a, <1>d, <1>h, <2>1, <2>2, <2>3, <2>4
<1>5. CASE StartSession
  <2>1. leg.at = "boundary" /\ LegAt("session") /\ disk' = Begun(leg.step, run.n)
        /\ UNCHANGED <<run, evidence>>
    BY <1>5 DEF StartSession, ledger
  <2>2. leg.step \in Step /\ run.n \in Lineage /\ Driving /\ run.st # "queued"
    BY <2>1, <1>f, AtAStep DEF Stepping, Running
  <2>3. leg'.at = "session" /\ leg'.step = leg.step /\ leg'.tree = leg.tree
    BY <2>1, <2>2, AtMoves DEF SameStep, SameTree
  <2> DEFINE w == [step |-> leg.step, by |-> run.n, whole |-> FALSE]
  <2>4. /\ disk' # NoTree /\ disk' \in {Opened, Append(Opened, w)} /\ w \in Work
    BY <2>1, <2>2, BegunIs
  <2>5. w.step = leg.step /\ w.by = run.n
    OBVIOUS
  <2> HIDE DEF w
  <2>6. Opened \in Seq(Work)
    BY OpenedTypes DEF Tree
  <2>7. \A k \in DOMAIN disk' : (k \in DOMAIN Opened /\ disk'[k] = Opened[k]) \/ disk'[k] = w
    <3>1. CASE disk' = Opened
      BY <3>1
    <3>2. CASE disk' = Append(Opened, w)
      <4>1. DOMAIN disk' = 1..(Len(Opened) + 1) /\ DOMAIN Opened = 1..Len(Opened) /\ Len(Opened) \in Nat
        BY <2>4, <2>6, <3>2
      <4>2. \A k \in 1..Len(Opened) : disk'[k] = Opened[k]
        BY <2>4, <2>6, <3>2
      <4>3. disk'[Len(Opened) + 1] = w
        BY <2>4, <2>6, <3>2
      <4> QED
        BY <4>1, <4>2, <4>3
    <3> QED
      BY <2>4, <3>1, <3>2
  <2>8. \A k \in DOMAIN Opened : Opened[k].whole \/ Opened[k].step = leg.step
    <3>1. leg.sub = 1 \/ leg.sub = 2
      BY <2>2 DEF Typed
    <3> QED
      BY <1>1, <2>1, <3>1
  <2>9. Open = disk'
    BY <2>4 DEF Open
  <2>10. Own
    BY <1>1, <2>1, <2>5, <2>7, <2>9 DEF Own
  <2>11. Amid
    BY <2>3, <2>5, <2>7, <2>8, <2>9 DEF Amid
  <2>12. Ready
    BY <2>3 DEF Ready
  <2> QED
    BY <1>0, <1>a, <1>e, <1>h, <2>1, <2>2, <2>3, <2>10, <2>11, <2>12
<1>6. CASE Split
  <2>1. leg.at = "session" /\ leg' = [leg EXCEPT !.at = "boundary", !.sub = 2]
        /\ UNCHANGED <<run, evidence, disk>>
    BY <1>6 DEF Split
  <2>2. Driving /\ run.st # "queued"
    BY <2>1, <1>f DEF Running, Stepping
  <2>3. leg'.at = "boundary" /\ leg'.sub = 2 /\ leg'.step = leg.step /\ leg'.tree = leg.tree
    BY <2>1, <2>2, FieldMoves DEF SameTree
  <2>4. Amid /\ Ready
    BY <1>1, <1>g, <2>1, <2>3 DEF Amid, Ready, Open
  <2> QED
    BY <1>0, <1>a, <1>b, <1>e, <1>h, <2>1, <2>2, <2>3, <2>4
<1>7. CASE EndSession
  <2>1. leg.at = "session" /\ UNCHANGED <<run, evidence>>
        /\ disk' = (IF leg.astray THEN disk ELSE Ended(leg.step, run.n))
        /\ \E pc \in {"file", "close"} : LegAt(pc)
    BY <1>7 DEF EndSession, ledger
  <2>2. leg.step \in Step /\ run.n \in Lineage /\ Driving /\ run.st # "queued"
    BY <2>1, <1>f, AtAStep DEF Stepping, Running
  <2>3. leg'.at \in {"file", "close"} /\ leg'.tree = leg.tree
    BY <2>1, <2>2, AtMoves DEF SameTree
  <2>4. disk # NoTree /\ Opened = disk
    BY <1>x, <1>g, <2>1, <2>2 DEF Sessions
  <2>5. /\ disk' # NoTree /\ DOMAIN disk' = DOMAIN disk
        /\ \A k \in DOMAIN disk :
              /\ disk'[k].by = disk[k].by
              /\ disk'[k].whole = (disk[k].whole \/ (disk[k].step = leg.step /\ disk[k].by = run.n))
    <3>1. disk' = Ended(leg.step, run.n)
      BY <1>x, <2>1, <2>2
    <3> QED
      BY <2>2, <2>4, <3>1, EndedIs
  <2>6. Open = disk'
    BY <2>5 DEF Open
  <2>7. Own
    BY <1>1, <2>1, <2>4, <2>5, <2>6 DEF Own
  <2>8. Ready
    BY ZenonT(60), <1>1, <2>1, <2>4, <2>5, <2>6 DEF Ready
  <2>9. Amid
    BY <2>3 DEF Amid
  <2> QED
    BY <1>0, <1>a, <1>e, <1>h, <2>1, <2>2, <2>3, <2>7, <2>8, <2>9
<1>8. CASE FileDeliverable \/ RegisterDeliverable
  <2>1. leg.at \in {"file", "register"} /\ UNCHANGED <<run, evidence, disk>>
        /\ \E pc \in {"register", "close"} : LegAt(pc)
    BY <1>8 DEF FileDeliverable, RegisterDeliverable, ledger
  <2>2. Driving /\ run.st # "queued"
    BY <2>1, <1>f DEF Running, Stepping
  <2>3. leg'.at \in {"register", "close"} /\ leg'.tree = leg.tree
    BY <2>1, <2>2, AtMoves DEF SameTree
  <2>4. Amid /\ Ready
    BY <1>1, <1>g, <2>1, <2>3 DEF Amid, Ready, Open
  <2> QED
    BY <1>0, <1>a, <1>b, <1>e, <1>h, <2>1, <2>2, <2>3, <2>4
<1>9. CASE CloseSnapshot
  <2>1. leg.at = "close" /\ UNCHANGED <<run, evidence, disk>>
        /\ \E t \in {Snapshot, NoTree} : leg' = [leg EXCEPT !.at = "record", !.tree = t]
    BY <1>9 DEF CloseSnapshot, ledger
  <2>2. Driving /\ run.st # "queued"
    BY <2>1, <1>f DEF Running, Stepping
  <2>3. leg'.at = "record" /\ leg'.tree = NoTree
    <3>1. PICK t \in {Snapshot, NoTree} : leg' = [leg EXCEPT !.at = "record", !.tree = t]
      BY <2>1
    <3>2. t = NoTree
      BY <1>x, <3>1 DEF Snapshot
    <3>3. leg'.at = "record" /\ leg'.tree = t
      BY <2>2, <3>1, CloseMoves
    <3> QED
      BY <3>2, <3>3
  <2>4. Amid /\ Ready
    BY <1>1, <1>g, <2>1, <2>3 DEF Amid, Ready, Open
  <2>5. Loose
    BY <2>3 DEF Loose
  <2> QED
    BY <1>0, <1>a, <1>b, <1>e, <2>1, <2>2, <2>3, <2>4, <2>5
<1>10. CASE RecordDone
  <2>1. leg.at = "record" /\ Onward(leg.step + 1) /\ UNCHANGED <<run, disk>>
    BY <1>10 DEF RecordDone
  <2>2. leg.step \in Step /\ Driving /\ run.st # "queued"
    BY <2>1, <1>f, AtAStep DEF Stepping, Running
  <2>3. leg'.at \in {"boundary", "stageclose"} /\ leg'.sub = 1 /\ leg'.tree = leg.tree
    BY <2>1, <2>2, OnMoves
  <2>4. Amid /\ Ready
    BY <1>1, <1>g, <2>1, <2>3 DEF Amid, Ready, Open
  <2>5. leg.tree = NoTree
    BY <1>1, <2>2
  <2>6. \A i \in Step : evidence'[i] = evidence[i]
    BY <1>10, <2>2, <2>5 DEF RecordDone
  <2>7. Kept
    BY <1>1, <2>6 DEF Kept
  <2> QED
    BY <1>0, <1>b, <1>e, <1>h, <2>1, <2>2, <2>3, <2>4, <2>7
<1>11. CASE StageClose
  <2>1. leg.at = "stageclose" /\ UNCHANGED <<evidence, disk>> /\ run.st = "running"
    BY <1>11 DEF StageClose, Standing, Running
  <2>2. run'.st \in {"running", "crashed"} /\ run'.n = run.n
    BY <1>11, <2>1 DEF StageClose
  <2>3. CASE LegAt("legsnap")
    <3>1. leg'.at = "legsnap" /\ leg'.tree = leg.tree /\ Driving
      BY <2>1, <2>3, AtMoves, DrivingAt DEF Running, SameTree
    <3> QED
      BY <1>a, <1>b, <1>i, <2>1, <2>2, <3>1
  <2>4. CASE leg' = NoLeg
    BY <1>0, <1>a, <1>b, <1>c, <2>1, <2>2, <2>4
  <2> QED
    BY <1>11, <2>3, <2>4 DEF StageClose
<1>12. CASE Complete \/ MoveBoard \/ CreateVerify
  <2>1. leg.at \in {"legsnap", "board", "create"} /\ UNCHANGED <<evidence, disk>>
        /\ (\E pc \in {"board", "create", "enqueue"} : LegAt(pc))
        /\ run'.st = "completed" /\ run'.n = run.n
    BY <1>12 DEF Complete, MoveBoard, CreateVerify, ledger, Standing, After
  <2>2. leg'.at \in {"board", "create", "enqueue"} /\ leg'.tree = leg.tree /\ Driving
    BY <2>1, AtMoves, DrivingAt DEF Running, After, SameTree
  <2> QED
    BY <1>a, <1>b, <1>i, <2>1, <2>2
<1>13. CASE PausePark \/ LegFails \/ ProcessDies \/ EnqueueVerify
  <2>1. leg' = NoLeg /\ UNCHANGED <<evidence, disk>> /\ run'.n = run.n
        /\ (run' = run \/ run'.st \in {"parked", "crashed"})
    BY <1>13 DEF PausePark, LegFails, ProcessDies, EnqueueVerify, ledger
  <2>2. run.st # "queued"
    <3>1. leg.at \in Running \cup After
      BY <1>13 DEF PausePark, LegFails, ProcessDies, EnqueueVerify, LegShape, Driving, Running, Stepping, After
    <3> QED
      BY <3>1, <1>f
  <2> QED
    BY <1>0, <1>a, <1>b, <1>c, <2>1, <2>2
<1>14. CASE Fork
  <2>1. UNCHANGED <<evidence, leg>> /\ disk' = NoTree
    BY <1>14, <1>x DEF Fork, ledger
  <2>2. Loose
    BY <1>1, <2>1 DEF Loose, Driving
  <2> QED
    BY <1>0, <1>a, <1>d, <2>1, <2>2
<1>15. CASE Reap \/ ResumeRun
  <2>1. UNCHANGED <<evidence, disk, leg>> /\ run'.st \in {"running", "crashed"} /\ run'.n = run.n
    BY <1>15 DEF Reap, ResumeRun, ledger
  <2>2. leg = NoLeg
    BY <1>15 DEF Reap, ResumeRun, Standing, Driving, LegShape
  <2> QED
    BY <1>0, <1>a, <1>b, <1>c, <2>1, <2>2
<1>16. CASE ThrowHold \/ UNCHANGED vars
  <2>1. UNCHANGED <<evidence, disk, leg, run>>
    BY <1>16 DEF ThrowHold, vars, ledger
  <2>2. Kept /\ Own
    BY <1>a, <1>b, <2>1
  <2>3. Loose /\ Empty
    BY <1>1, <2>1 DEF Loose, Empty, Driving
  <2>4. Ready /\ Amid
    BY <1>1, <1>g, <2>1 DEF Ready, Amid, Open
  <2> QED
    BY <1>0, <2>2, <2>3, <2>4
<1> QED
  BY <1>x, <1>3, <1>4, <1>5, <1>6, <1>7, <1>8, <1>9, <1>10, <1>11, <1>12, <1>13, <1>14, <1>15, <1>16 DEF Next, LegStep

\* What the worktree holds at every point of the leg, with the record it is
\* held against (WorkspaceCwd, stepCloseSnapshot, RestoreSnapshot).
THEOREM TreesHold == Spec => [](IInv /\ Trees)
<1>1. Init => Trees
  <2> SUFFICES ASSUME Init PROVE Trees
    OBVIOUS
  <2> USE PlanTypes, NoTreeIsNone DEF Init
  <2>1. ~ Driving /\ leg.at = "none" /\ Opened = <<>> /\ DOMAIN Opened = {}
    BY DEF Driving, NoLeg, Opened
  <2>2. Typed
    BY <2>1 DEF Typed
  <2>3. Sessions
    BY <2>1 DEF Sessions
  <2>4. Grown
    BY <2>1 DEF Grown, Fresh, Midway, Filling
  <2>5. Plain
    BY <2>1 DEF Plain, Fresh, Midway, Filling
  <2> QED
    BY <2>2, <2>3, <2>4, <2>5 DEF Trees
<1>2. IInv /\ Trees /\ [Next]_vars => Trees'
  BY TypedInductive, SessionsInductive, GrownInductive, PlainInductive DEF Trees, IInv
<1> QED
  BY <1>1, <1>2, Invariant, PTL DEF Spec

\* Every record, ledger item and tree of the execute leg has its type
\* (dispatchExecute and the ledger it writes).
THEOREM TypeCorrect == Spec => []ExecuteTypeOK
<1>1. IInv /\ Trees => ExecuteTypeOK
  <2> SUFFICES ASSUME IInv, Trees PROVE ExecuteTypeOK
    OBVIOUS
  <2>1. Driving => leg.step \in 1..(NSteps + 1) /\ leg.sub \in 1..2 /\ leg.from \in 0..NSteps
    BY DEF IInv, Shape, LegShape, Trees, Typed, Driving
  <2>2. run \in [n : Lineage, st : {"queued", "running", "parked", "crashed", "completed"}]
    BY DEF IInv, Shape, Others, RunStatus
  <2>3. \A i \in Step : items[i] \in [status : {"absent", "pending", "in_progress", "done_unverified"},
                                      by : {0} \cup Lineage]
    BY DEF IInv, Shape, Others, Status
  <2> QED
    BY <2>1, <2>2, <2>3 DEF Trees, Typed, ExecuteTypeOK
<1> QED
  BY <1>1, TreesHold, PTL

\* Verification is created only over the whole of every step
\* (CheckStageClose, then dispatchExecute's launch).
THEOREM VerifiedIsWhole == Spec => []WholeWorkIsVerified
<1>1. IInv /\ Trees => WholeWorkIsVerified
  BY DEF IInv, Standing, Trees, Grown, Clean, WholeWorkIsVerified
<1> QED
  BY <1>1, TreesHold, PTL

\* Each step's first session opens on the finished work of exactly the steps
\* before it, through every death, fork, pause and failed snapshot (runStep's
\* loop over restoreBaseline).
THEOREM StepsBuild == Spec => StepsBuildOnFinishedWork
<1>1. IInv /\ Trees /\ [Next]_vars =>
        (leg.at = "boundary" /\ leg'.at = "session" /\ leg.sub = 1 =>
          IF backed THEN tally.strays > 0 \/ WholeUpTo(Opened, leg.step - 1)
                    ELSE \A k \in DOMAIN Opened : Opened[k].by = run.n /\ Opened[k].whole)
  <2> SUFFICES ASSUME Trees, leg.at = "boundary", leg.sub = 1
               PROVE  IF backed THEN tally.strays > 0 \/ WholeUpTo(Opened, leg.step - 1)
                                ELSE \A k \in DOMAIN Opened : Opened[k].by = run.n /\ Opened[k].whole
    OBVIOUS
  <2>1. Fresh
    BY DEF Fresh
  <2>2. CASE backed
    <3>1. tally.strays = 0 \/ tally.strays > 0
      BY DEF Trees, Typed
    <3> QED
      BY <2>1, <2>2, <3>1 DEF Trees, Grown, Clean
  <2>3. CASE ~ backed
    BY <2>1, <2>3 DEF Trees, Plain
  <2> QED
    BY <2>2, <2>3
<1> QED
  BY <1>1, TreesHold, PTL DEF Spec, StepsBuildOnFinishedWork
=============================================================================
