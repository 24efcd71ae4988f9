------------------------- MODULE RunLifecycleProofs -------------------------
(***************************************************************************)
(* Proofs about RunLifecycle, for any set of runs, attempt budget and lane   *)
(* cap, and for any number of crashes, suspends, parks and human requests:   *)
(* types, lineages and their fence, receipts; then what a step does to rows, *)
(* asks and legs (Shift), the queue, and who holds a run when the ladder     *)
(* judges it.                                                                *)
(***************************************************************************)
EXTENDS RunLifecycle, FiniteSetTheorems, TLAPS

-----------------------------------------------------------------------------
(* What the transaction bodies do to the types of the tables they write.     *)

LEMMA EdgesStayInState == \A from, to : CanTransition(from, to) => to \in State /\ from \in State
  BY DEF CanTransition, Edges, State

LEMMA AppendTypes ==
  ASSUME StoreTypeOK, NEW r \in Run, Append(r)
  PROVE  cursor' \in [Run -> {"fresh", "stale", "ancient"}] /\ flagged' \subseteq Run
  BY DEF StoreTypeOK, Append

LEMMA TransitionTypes ==
  ASSUME StoreTypeOK, NEW r \in Run, NEW to, Transition(r, to)
  PROVE  /\ state' \in [Run -> State \cup {"absent"}] /\ gen' \in [Run -> Nat]
         /\ cursor' \in [Run -> {"fresh", "stale", "ancient"}] /\ flagged' \subseteq Run
<1>1. to \in State
  BY EdgesStayInState DEF Transition
<1>2. GenerationAfter(state[r], to, gen[r]) \in Nat
  BY DEF StoreTypeOK, GenerationAfter
<1>3. state' \in [Run -> State \cup {"absent"}] /\ gen' \in [Run -> Nat]
  BY <1>1, <1>2 DEF StoreTypeOK, Transition
<1> QED
  BY <1>3, AppendTypes DEF Transition

LEMMA RenewTypes ==
  ASSUME StoreTypeOK, NEW r \in Run, NEW g, Renew(r, g)
  PROVE  lease' \in [Run -> {"none", "live", "lapsed"}]
  BY DEF StoreTypeOK, Renew

LEMMA MaterializeTypes ==
  ASSUME StoreTypeOK, NEW r \in Run, Materialize(r)
  PROVE  queue' \in [Run -> {"none", "queued", "claimed", "done"}]
  BY DEF StoreTypeOK, Materialize

LEMMA SettleTypes ==
  ASSUME StoreTypeOK, NEW r \in Run, SettleTerminal(r)
  PROVE  queue' \in [Run -> {"none", "queued", "claimed", "done"}] /\ receipts' \subseteq Run
  BY DEF StoreTypeOK, SettleTerminal

LEMMA BirthTypes ==
  ASSUME StoreTypeOK, NEW r \in Run, NEW p \in Run, NEW g \in Nat,
         NEW by \in {"interruption", "answer"}, NEW n \in Nat, Birth(r, p, g, by, n)
  PROVE  /\ origin' \in [Run -> Origin \cup {Root0}]
         /\ attempts' \in [Run -> Nat] /\ gen' \in [Run -> Nat]
<1>1. [of |-> p, gen |-> g, by |-> by] \in Origin
  BY DEF Origin
<1>2. origin' \in [Run -> Origin \cup {Root0}]
  BY <1>1 DEF StoreTypeOK, Birth
<1>3. attempts' \in [Run -> Nat] /\ gen' \in [Run -> Nat]
  BY DEF StoreTypeOK, Birth
<1> QED
  BY <1>2, <1>3

-----------------------------------------------------------------------------
(* The legs and the claim loop keep their types.                             *)

LEMMA LegAtTypes ==
  ASSUME LegsTypeOK, NEW l \in legs, NEW pc \in {"claimed", "working", "unwinding", "filing", "ended"}
  PROVE  (LegAt(l, pc) => legs' \subseteq Leg) /\ (LegReturns(l) => legs' \subseteq Leg)
<1>1. [l EXCEPT !.pc = pc] \in Leg /\ [l EXCEPT !.pc = "ended"] \in Leg
  BY DEF LegsTypeOK, Leg
<1> QED
  BY <1>1 DEF LegsTypeOK, LegAt, LegReturns

LEMMA LegStepTypes ==
  ASSUME StoreTypeOK, LegsTypeOK, NEW l \in legs, LegStep(l)
  PROVE  StoreTypeOK' /\ LegsTypeOK'
<1>0. l.run \in Run
  BY DEF LegsTypeOK, Leg
<1>1. CASE LegBeat(l)
  BY <1>0, <1>1, RenewTypes DEF StoreTypeOK, LegsTypeOK, LegBeat, runEvent, cards, legVars
<1>2. CASE LegStart(l)
  BY <1>0, <1>2, TransitionTypes, LegAtTypes DEF StoreTypeOK, LegsTypeOK, LegStart, runEvent, cards
<1>3. CASE LegProgress(l)
  BY <1>0, <1>3, AppendTypes, LegAtTypes DEF StoreTypeOK, LegsTypeOK, LegProgress, runRow, runEvent, cards
<1>4. CASE LegFail(l)
  BY <1>4, LegAtTypes DEF StoreTypeOK, LegsTypeOK, LegFail, store
<1>5. CASE LegUnwind(l)
  BY <1>5, LegAtTypes DEF StoreTypeOK, LegsTypeOK, LegUnwind, store
<1>6. CASE LegFileCrash(l)
  BY <1>0, <1>6, TransitionTypes, LegAtTypes DEF StoreTypeOK, LegsTypeOK, LegFileCrash, runEvent, cards
<1>7. CASE LegComplete(l)
  BY <1>0, <1>7, TransitionTypes, LegAtTypes DEF StoreTypeOK, LegsTypeOK, LegComplete, runEvent, cards
<1>8. CASE LegGate(l)
  BY <1>0, <1>8, TransitionTypes, LegAtTypes DEF StoreTypeOK, LegsTypeOK, LegGate, runEvent
<1>9. CASE LegPausePark(l)
  BY <1>0, <1>9, TransitionTypes, LegAtTypes DEF StoreTypeOK, LegsTypeOK, LegPausePark, cards
<1>10. CASE LegSettle(l)
  BY <1>0, <1>10, SettleTypes DEF StoreTypeOK, LegsTypeOK, LegSettle, runRow, runEvent, cards
<1> QED
  BY <1>1, <1>2, <1>3, <1>4, <1>5, <1>6, <1>7, <1>8, <1>9, <1>10 DEF LegStep

ClaimStep == PassStep \/ \E r \in Run : Create(r) \/ Enqueue(r)

LEMMA ClaimStepTypes ==
  ASSUME StoreTypeOK, LegsTypeOK, ClaimTypeOK, ClaimStep
  PROVE  StoreTypeOK' /\ LegsTypeOK' /\ ClaimTypeOK'
<1>1. ASSUME NEW r \in Run, Create(r) PROVE StoreTypeOK' /\ LegsTypeOK' /\ ClaimTypeOK'
  BY <1>1, AppendTypes
  DEF StoreTypeOK, LegsTypeOK, ClaimTypeOK, Create, State, cards, legVars
<1>2. ASSUME NEW r \in Run, Enqueue(r) PROVE StoreTypeOK' /\ LegsTypeOK' /\ ClaimTypeOK'
  BY <1>2, TransitionTypes, MaterializeTypes
  DEF StoreTypeOK, LegsTypeOK, ClaimTypeOK, Enqueue, runEvent, cards, legVars
<1>3. ASSUME NEW r \in Run, MaterializeOrphan(r) PROVE StoreTypeOK' /\ LegsTypeOK' /\ ClaimTypeOK'
  <2>1. pass' \in Pass
    BY <1>3 DEF ClaimTypeOK, MaterializeOrphan, Next1, Pass
  <2> QED
    BY <1>3, <2>1, MaterializeTypes
    DEF StoreTypeOK, LegsTypeOK, ClaimTypeOK, MaterializeOrphan, runRow, runEvent, cards, legVars
<1>4. ASSUME NEW r \in Run, SettleEndedRow(r) PROVE StoreTypeOK' /\ LegsTypeOK' /\ ClaimTypeOK'
  <2>1. pass' \in Pass
    BY <1>4 DEF ClaimTypeOK, SettleEndedRow, Next1, Pass
  <2> QED
    BY <1>4, <2>1
    DEF StoreTypeOK, LegsTypeOK, ClaimTypeOK, SettleEndedRow, runRow, runEvent, cards, legVars
<1>5. ASSUME NEW r \in Run, Claim(r) PROVE StoreTypeOK' /\ LegsTypeOK' /\ ClaimTypeOK'
  <2>1. pass' \in Pass
    <3>1. pass' = [pass EXCEPT !.todo = @ \ {r}, !.active = @ + 1]
      BY <1>5 DEF Claim
    <3>2. pass \in Pass /\ pass.todo \ {r} \in SUBSET Run /\ pass.active + 1 \in Nat
      BY DEF ClaimTypeOK, Pass
    <3> QED
      BY <3>1, <3>2 DEF Pass
  <2>2. legs' \subseteq Leg
    BY <1>5 DEF StoreTypeOK, LegsTypeOK, Claim, Leg
  <2>3. StoreTypeOK'
    BY <1>5, TransitionTypes DEF StoreTypeOK, Claim, cards
  <2> QED
    BY <1>5, <2>1, <2>2, <2>3 DEF LegsTypeOK, ClaimTypeOK, Claim
<1>6. ASSUME NEW r \in Run, ClaimLost(r) PROVE StoreTypeOK' /\ LegsTypeOK' /\ ClaimTypeOK'
  <2>1. IdlePass \in Pass /\ [pass EXCEPT !.todo = @ \ {r}] \in Pass
    BY DEF ClaimTypeOK, IdlePass, Pass
  <2>2. pass' \in Pass
    BY <1>6, <2>1 DEF ClaimLost, Next1
  <2> QED
    BY <1>6, <2>2 DEF StoreTypeOK, LegsTypeOK, ClaimTypeOK, ClaimLost, store, legVars
<1>7. ASSUME PassStart \/ ListEndedRows \/ ReadCandidates \/ PassEnd
      PROVE  StoreTypeOK' /\ LegsTypeOK' /\ ClaimTypeOK'
  <2>1. UNCHANGED <<store, legVars, admitting>>
    BY <1>7 DEF PassStart, ListEndedRows, ReadCandidates, PassEnd
  <2>2. PassStart => pass' \in Pass
    <3> DEFINE todo == { r \in Run : state[r] = "queued" } \ ActiveRows
    <3>1. todo \in SUBSET Run
      OBVIOUS
    <3>2. [at |-> "materialize", todo |-> todo, ended |-> {}, active |-> 0] \in Pass
      BY <3>1 DEF Pass
    <3> QED
      BY <3>2 DEF PassStart, IdlePass
  <2>3. ListEndedRows => pass' \in Pass
    BY DEF ClaimTypeOK, ListEndedRows, ActiveRows, Pass
  <2>4. ReadCandidates => pass' \in Pass
    <3>1. Cardinality(OccupiedRuns) \in Nat
      BY RunAssumption, FS_Subset, FS_CardinalityType DEF RunAssumption, OccupiedRuns
    <3> QED
      BY <3>1 DEF ReadCandidates, Pass
  <2>5. PassEnd => pass' \in Pass
    BY DEF PassEnd, IdlePass, Pass
  <2> QED
    BY <1>7, <2>1, <2>2, <2>3, <2>4, <2>5
    DEF StoreTypeOK, LegsTypeOK, ClaimTypeOK, store, legVars
<1> QED
  BY <1>1, <1>2, <1>3, <1>4, <1>5, <1>6, <1>7 DEF ClaimStep, PassStep

-----------------------------------------------------------------------------
(* The ladder keeps its types.                                               *)

LEMMA EndWithCardTypes ==
  ASSUME StoreTypeOK, NEW r \in Run, NEW to \in State, EndWithCard(r, to),
         UNCHANGED <<lease, ask, queue, receipts>>
  PROVE  StoreTypeOK'
  BY AppendTypes DEF StoreTypeOK, EndWithCard

LEMMA ForkTypes ==
  ASSUME StoreTypeOK, NEW r \in Run, NEW g \in Nat, NEW from \in State \cup {"absent"},
         NEW age, Fork(r, g, from), UNCHANGED <<lease, ask, queue, receipts>>
  PROVE  StoreTypeOK'
<1> DEFINE appended == IF state[r] = from THEN {} ELSE {r}
<1>0. appended \subseteq Run
  OBVIOUS
<1>1. CASE Dispatched(r, g)
  <2>1. /\ state' = [state EXCEPT ![r] = from] /\ flagged' = flagged \ appended
        /\ cursor' = [q \in Run |-> IF q \in appended THEN "fresh" ELSE cursor[q]]
        /\ UNCHANGED <<gen, attempts, origin, card, column>>
    BY <1>1 DEF Fork
  <2> QED
    BY <2>1 DEF StoreTypeOK
<1>2. CASE ~Dispatched(r, g)
  <2>1. PICK s \in Run \ Root :
          /\ state' = [state EXCEPT ![r] = from, ![s] = "queued"]
          /\ Birth(s, r, g + 1, "interruption", attempts[r] + 1)
          /\ cursor' = [q \in Run |-> IF q \in appended \cup {s} THEN "fresh" ELSE cursor[q]]
          /\ flagged' = flagged \ (appended \cup {s})
    BY <1>2 DEF Fork
  <2>2. attempts[r] + 1 \in Nat /\ g + 1 \in Nat
    BY DEF StoreTypeOK
  <2>3. /\ origin' \in [Run -> Origin \cup {Root0}]
        /\ attempts' \in [Run -> Nat] /\ gen' \in [Run -> Nat]
    BY <2>1, <2>2, BirthTypes
  <2>4. state' \in [Run -> State \cup {"absent"}]
    BY <2>1 DEF StoreTypeOK, State
  <2>5. card' = card /\ column' = column
    BY DEF Fork
  <2> QED
    BY <2>1, <2>3, <2>4, <2>5 DEF StoreTypeOK
<1> QED
  BY <1>1, <1>2

LEMMA BoundTypes ==
  ASSUME StoreTypeOK, NEW r \in Run, NEW g \in Nat, NEW from \in State \cup {"absent"},
         NEW age, Bound(r, g, from, age), UNCHANGED <<lease, ask, queue, receipts>>
  PROVE  StoreTypeOK'
<1>1. CASE EndWithCard(r, EndState(r, age))
  BY <1>1, EndWithCardTypes DEF EndState, State
<1>2. CASE UNCHANGED <<state, gen, attempts, origin, runEvent, card, column>>
  BY <1>2 DEF StoreTypeOK, runEvent
<1>3. CASE Fork(r, g, from)
  BY <1>3, ForkTypes
<1> QED
  BY <1>1, <1>2, <1>3 DEF Bound

\* A verdict is only ever taken on a listed row.
Judging == sweep.verdict # "none" => sweep.now \in Snapshot

LEMMA SweepTypes ==
  ASSUME StoreTypeOK, LadderTypeOK, Judging, SweepStep
  PROVE  LadderTypeOK' /\ Judging'
<1> USE DEF LadderTypeOK, Judging
<1>0. /\ sweep.todo \in SUBSET Snapshot /\ sweep.at \in {"idle", "observe", "crashed"}
      /\ \A r \in Run : Snap(r) \in Snapshot
  BY DEF Sweep, Snap, Snapshot, StoreTypeOK
<1>1. ASSUME NEW at \in {"idle", "observe", "crashed"}, NEW todo \in SUBSET Snapshot
      PROVE  /\ [IdleSweep EXCEPT !.at = at, !.todo = todo] \in Sweep
             /\ [IdleSweep EXCEPT !.at = at, !.todo = todo].verdict = "none"
  BY DEF IdleSweep, Sweep, Verdicts
<1>2. ASSUME NEW X \in SUBSET Run PROVE { Snap(r) : r \in X } \in SUBSET Snapshot
  BY <1>0
<1>3. CASE Decided
  BY <1>0, <1>1, <1>3 DEF Decided
<1>4. CASE SweepStart \/ SweepListCrashed
  BY ZenonT(60), <1>1, <1>2, <1>4 DEF SweepStart, SweepListCrashed
<1>5. CASE SweepEnd
  BY <1>5 DEF SweepEnd, IdleSweep, Sweep, Verdicts
<1>6. ASSUME NEW s \in sweep.todo, SweepClassify(s) PROVE LadderTypeOK' /\ Judging'
  <2>1. PICK probe \in Probes, harvested \in Harvests :
          LET v == Classify(probe, harvested, s.lease, cursor[s.run], s.run \in flagged)
          IN  sweep' = IF v = "leave"
                         THEN [sweep EXCEPT !.todo = @ \ {s}]
                         ELSE [sweep EXCEPT !.todo = @ \ {s}, !.now = s, !.verdict = v,
                                            !.recs = harvested, !.age = cursor[s.run]]
    BY <1>6 DEF SweepClassify
  <2> DEFINE v == Classify(probe, harvested, s.lease, cursor[s.run], s.run \in flagged)
  <2>2. v = "leave" \/ v \in {"harvest", "flag", "crash"}
    BY DEF Classify
  <2>3. /\ s \in Snapshot /\ s.run \in Run /\ harvested \in BOOLEAN
        /\ cursor[s.run] \in {"fresh", "stale", "ancient"}
    BY <1>0, ProbesAssumption DEF ProbesAssumption, Snapshot, StoreTypeOK
  <2>4. sweep.verdict = "none"
    BY <1>6 DEF SweepClassify
  <2>5. CASE v = "leave"
    BY <1>0, <2>1, <2>4, <2>5 DEF Sweep
  <2>6. CASE v \in {"harvest", "flag", "crash"}
    <3>1. sweep' = [sweep EXCEPT !.todo = @ \ {s}, !.now = s, !.verdict = v,
                                 !.recs = harvested, !.age = cursor[s.run]]
      BY <2>1, <2>6
    <3> HIDE DEF v
    <3> QED
      BY <1>0, <2>3, <2>6, <3>1 DEF Sweep, Verdicts
  <2> QED
    BY <2>2, <2>5, <2>6
<1>7. ASSUME NEW s \in sweep.todo, SweepReadCrashed(s) PROVE LadderTypeOK' /\ Judging'
  <2>1. PICK harvested \in Harvests :
          sweep' = [sweep EXCEPT !.todo = @ \ {s}, !.now = s, !.recs = harvested,
                      !.verdict = IF harvested THEN "harvest" ELSE "crash",
                      !.age = cursor[s.run]]
    BY <1>7 DEF SweepReadCrashed
  <2>2. /\ s \in Snapshot /\ s.run \in Run /\ harvested \in BOOLEAN
        /\ cursor[s.run] \in {"fresh", "stale", "ancient"}
    BY <1>0, ProbesAssumption DEF ProbesAssumption, Snapshot, StoreTypeOK
  <2> QED
    BY <1>0, <2>1, <2>2 DEF Sweep, Verdicts
<1> QED
  BY <1>3, <1>4, <1>5, <1>6, <1>7
  DEF SweepStep, SweepHarvest, SweepFlagWedged, SweepCrashAndBound, SweepBoundCrashed

LEMMA SweepStoreTypes ==
  ASSUME StoreTypeOK, LadderTypeOK, Judging, SweepStep
  PROVE  StoreTypeOK'
<1>0. sweep.verdict # "none" => sweep.now.run \in Run /\ sweep.now.gen \in Nat
  BY DEF Judging, Snapshot
<1>1. CASE UNCHANGED store
  BY <1>1 DEF StoreTypeOK, store
<1>2. CASE SweepHarvest
  BY <1>0, <1>2, TransitionTypes DEF StoreTypeOK, SweepHarvest, runEvent, cards
<1>3. CASE SweepFlagWedged
  BY <1>0, <1>3 DEF StoreTypeOK, SweepFlagWedged, runEvent, runRow, cards
<1>4. CASE SweepCrashAndBound
  <2> DEFINE r == sweep.now.run
  <2>1. r \in Run /\ gen[r] \in Nat /\ "crashed" \in State
    BY <1>0, <1>4 DEF SweepCrashAndBound, StoreTypeOK, State
  <2>2. \/ Bound(r, gen[r], "crashed", sweep.age)
        \/ UNCHANGED <<state, gen, attempts, origin, runEvent, card, column>>
    BY <1>4 DEF SweepCrashAndBound
  <2>3. UNCHANGED <<lease, ask, queue, receipts>>
    BY <1>4 DEF SweepCrashAndBound
  <2> HIDE DEF r
  <2>4. Bound(r, gen[r], "crashed", sweep.age) => StoreTypeOK'
    BY <2>1, <2>3, BoundTypes
  <2> QED
    BY <2>2, <2>3, <2>4 DEF StoreTypeOK, runEvent
<1>5. CASE SweepBoundCrashed
  <2> DEFINE r == sweep.now.run
  <2>1. r \in Run /\ sweep.now.gen \in Nat /\ state[r] \in State \cup {"absent"}
    BY <1>0, <1>5 DEF SweepBoundCrashed, StoreTypeOK
  <2>2. \/ Bound(r, sweep.now.gen, state[r], sweep.age)
        \/ UNCHANGED <<state, gen, attempts, origin, runEvent, card, column>>
    BY <1>5 DEF SweepBoundCrashed
  <2>3. UNCHANGED <<lease, ask, queue, receipts>>
    BY <1>5 DEF SweepBoundCrashed
  <2> HIDE DEF r
  <2>4. Bound(r, sweep.now.gen, state[r], sweep.age) => StoreTypeOK'
    BY <2>1, <2>3, BoundTypes
  <2> QED
    BY <2>2, <2>3, <2>4 DEF StoreTypeOK, runEvent
<1> QED
  BY <1>1, <1>2, <1>3, <1>4, <1>5
  DEF SweepStep, SweepStart, SweepListCrashed, SweepEnd, SweepClassify, SweepReadCrashed

-----------------------------------------------------------------------------
(* The owner's verbs keep their types.                                       *)

\* A request past its first read knows the run it is about.
Addressed == verb.at \in {"apply", "settle", "resume", "beat", "retry", "kanban"} => verb.run \in Run

LEMMA VerbTypes ==
  ASSUME StoreTypeOK, VerbTypeOK, Addressed,
         VerbFollows \/ \E r \in Run : VerbStarts(r) \/ AnswerGate(r)
  PROVE  VerbTypeOK' /\ Addressed'
<1> USE DEF VerbTypeOK, Addressed, Verb
<1>0. IdleVerb \in Verb /\ IdleVerb.at = "idle"
  BY DEF IdleVerb
<1>1. ASSUME NEW at \in {"settle", "cancel", "beat"},
             verb.at \in {"apply", "settle", "resume"}, VerbAt(at)
      PROVE  VerbTypeOK' /\ Addressed'
  BY <1>1 DEF VerbAt
<1>2. CASE CancelApply
  BY <1>0, <1>1, <1>2 DEF CancelApply
<1>3. CASE CancelSettle
  BY <1>1, <1>3 DEF CancelSettle
<1>4. CASE CancelEnd \/ ResumeBeat \/ RetryAdmit
  BY <1>0, <1>4 DEF CancelEnd, ResumeBeat, RetryAdmit
<1>5. ASSUME NEW r \in verb.todo, CancelRead(r) PROVE VerbTypeOK' /\ Addressed'
  <2>1. r \in Run /\ state[r] \in State \cup {"absent"}
    BY DEF StoreTypeOK
  <2>2. \/ verb' = IdleVerb
        \/ verb' = [verb EXCEPT !.todo = @ \ {r}]
        \/ verb' = [verb EXCEPT !.at = "apply", !.run = r, !.seen = state[r], !.todo = @ \ {r}]
    BY <1>5 DEF CancelRead
  <2>3. verb.at = "cancel"
    BY <1>5 DEF CancelRead
  <2> QED
    BY <1>0, <2>1, <2>2, <2>3
<1>6. CASE ResumeApply
  BY <1>0, <1>1, <1>6 DEF ResumeApply
<1>7. CASE RetryApply
  BY <1>0, <1>7 DEF RetryApply
<1>8. ASSUME NEW r \in Run, VerbStarts(r) PROVE VerbTypeOK' /\ Addressed'
  <2>0. state[r] \in State \cup {"absent"} /\ "parked" \in State
    BY DEF StoreTypeOK, State
  <2>1. CASE CancelRun(r)
    BY <2>1 DEF CancelRun, IdleVerb
  <2>2. CASE LadderCancel(r)
    BY <2>2 DEF LadderCancel, IdleVerb
  <2>3. CASE ResumeRead(r)
    BY <2>0, <2>3 DEF ResumeRead, IdleVerb
  <2>4. CASE RetryRead(r)
    BY <2>0, <2>4 DEF RetryRead, IdleVerb
  <2> QED
    BY <1>8, <2>1, <2>2, <2>3, <2>4 DEF VerbStarts
<1>9. ASSUME NEW r \in Run, AnswerGate(r) PROVE VerbTypeOK' /\ Addressed'
  BY <1>9 DEF AnswerGate
<1> QED
  BY <1>2, <1>3, <1>4, <1>5, <1>6, <1>7, <1>8, <1>9 DEF VerbFollows, CancelStep

LEMMA VerbStoreTypes ==
  ASSUME StoreTypeOK, LegsTypeOK, VerbTypeOK, Addressed,
         VerbFollows \/ \E r \in Run : VerbStarts(r) \/ AnswerGate(r)
  PROVE  StoreTypeOK' /\ LegsTypeOK'
<1>0. /\ verb.at \in {"apply", "settle", "resume", "beat", "retry", "kanban"} => verb.run \in Run
      /\ verb.todo \subseteq Run
  BY DEF Addressed, VerbTypeOK, Verb
<1>1. CASE CancelApply
  <2>1. StoreTypeOK'
    BY <1>0, <1>1, TransitionTypes DEF StoreTypeOK, CancelApply, runEvent
  <2>2. LegsTypeOK'
    BY <1>1 DEF LegsTypeOK, CancelApply
  <2> QED
    BY <2>1, <2>2
<1>2. CASE CancelSettle
  BY <1>0, <1>2, SettleTypes DEF StoreTypeOK, LegsTypeOK, CancelSettle, runRow, runEvent, cards, legVars
<1>3. CASE CancelEnd
  <2>1. card' \in [Run -> {"none", "open", "closed"}]
    BY <1>3 DEF CancelEnd, StoreTypeOK
  <2>2. column' \in {"moving", "attention", "cancelled"}
    BY <1>3 DEF CancelEnd, StoreTypeOK
  <2> QED
    BY <1>3, <2>1, <2>2 DEF StoreTypeOK, LegsTypeOK, CancelEnd, runRow, runEvent, legVars
<1>4. ASSUME NEW r \in verb.todo, CancelRead(r) PROVE StoreTypeOK' /\ LegsTypeOK'
  <2>1. r \in Run /\ gen[r] \in Nat
    BY <1>0 DEF StoreTypeOK
  <2>2. marks' \subseteq Run \X Nat
    BY <1>4, <2>1 DEF CancelRead, LegsTypeOK
  <2> QED
    BY <1>4, <2>2 DEF StoreTypeOK, LegsTypeOK, CancelRead, store
<1>5. CASE ResumeApply
  BY <1>0, <1>5, TransitionTypes DEF StoreTypeOK, LegsTypeOK, ResumeApply, runEvent, cards, legVars
<1>6. CASE ResumeBeat
  BY <1>0, <1>6, RenewTypes DEF StoreTypeOK, LegsTypeOK, ResumeBeat, runEvent, cards, legVars
<1>7. CASE RetryApply
  <2> DEFINE r == verb.run
  <2>0. verb.at = "retry"
    BY <1>7 DEF RetryApply
  <2>1. r \in Run /\ gen[r] + 1 \in Nat
    BY <1>0, <2>0 DEF StoreTypeOK
  <2>2. LegsTypeOK' /\ UNCHANGED <<lease, ask, queue, receipts, column>>
    BY <1>7 DEF LegsTypeOK, RetryApply, legVars
  <2>3. CASE UNCHANGED <<state, gen, attempts, origin, runEvent, card>>
    BY <2>2, <2>3 DEF StoreTypeOK, runEvent
  <2>4. CASE /\ card' = [card EXCEPT ![r] = "closed"]
             /\ \E s \in Run \ Root :
                  /\ state' = [state EXCEPT ![s] = "queued"]
                  /\ Birth(s, r, gen[r] + 1, "answer", 0)
                  /\ cursor' = [cursor EXCEPT ![s] = "fresh"]
                  /\ flagged' = flagged \ {s}
    <3>1. PICK s \in Run :
            /\ state' = [state EXCEPT ![s] = "queued"]
            /\ Birth(s, r, gen[r] + 1, "answer", 0)
            /\ cursor' = [cursor EXCEPT ![s] = "fresh"]
            /\ flagged' = flagged \ {s}
      BY <2>4
    <3> HIDE DEF r
    <3>2. /\ origin' \in [Run -> Origin \cup {Root0}]
          /\ attempts' \in [Run -> Nat] /\ gen' \in [Run -> Nat]
      BY <2>1, <3>1, BirthTypes
    <3>3. state' \in [Run -> State \cup {"absent"}]
      BY <3>1 DEF StoreTypeOK, State
    <3> QED
      BY <2>2, <2>4, <3>1, <3>2, <3>3 DEF StoreTypeOK
  <2> QED
    BY <1>7, <2>3, <2>4 DEF RetryApply
<1>8. CASE RetryAdmit
  BY <1>0, <1>8, MaterializeTypes DEF StoreTypeOK, LegsTypeOK, RetryAdmit, runRow, runEvent, cards, legVars
<1>9. ASSUME NEW r \in Run, VerbStarts(r) PROVE StoreTypeOK' /\ LegsTypeOK'
  BY ZenonT(60), <1>9 DEF StoreTypeOK, LegsTypeOK, VerbStarts, CancelRun, LadderCancel, ResumeRead, RetryRead, store, legVars
<1>10. ASSUME NEW r \in Run, AnswerGate(r) PROVE StoreTypeOK' /\ LegsTypeOK'
  <2>1. [run |-> r, gen |-> gen[r] + 1, by |-> "answer", pc |-> "working"] \in Leg
    BY DEF Leg, StoreTypeOK
  <2>2. StoreTypeOK'
    BY <1>10, TransitionTypes DEF StoreTypeOK, AnswerGate, runEvent
  <2>3. LegsTypeOK'
    BY <1>10, <2>1 DEF LegsTypeOK, AnswerGate
  <2> QED
    BY <2>2, <2>3
<1> QED
  BY <1>1, <1>2, <1>3, <1>4, <1>5, <1>6, <1>7, <1>8, <1>9, <1>10 DEF VerbFollows, CancelStep

LEMMA ParkTypes ==
  ASSUME StoreTypeOK, LegsTypeOK, NEW r \in Run,
         ParkInFlight(r) \/ \E park \in BOOLEAN : ParkAndFlag(r, park)
  PROVE  StoreTypeOK' /\ LegsTypeOK'
<1>1. CASE ParkInFlight(r)
  BY <1>1, TransitionTypes DEF StoreTypeOK, LegsTypeOK, ParkInFlight, cards, legVars
<1>2. ASSUME NEW park \in BOOLEAN, ParkAndFlag(r, park) PROVE StoreTypeOK' /\ LegsTypeOK'
  BY <1>2, TransitionTypes, AppendTypes DEF StoreTypeOK, LegsTypeOK, ParkAndFlag, cards, legVars
<1> QED
  BY <1>1, <1>2

-----------------------------------------------------------------------------
(* Type correctness.                                                         *)

TypeInv == TypeOK /\ Judging /\ Addressed

LEMMA SpendTypes ==
  ASSUME spent \in Spent, NEW what \in {"crashes", "naps", "parks", "verbs"}, NEW max, Spend(what, max),
         max = CASE what = "crashes" -> MaxCrashes [] what = "naps" -> MaxNaps
                 [] what = "parks" -> MaxParks [] what = "verbs" -> MaxVerbs
  PROVE  spent' \in Spent
<1> USE BoundsAssumption DEF BoundsAssumption, Spent, Spend
<1>1. CASE what = "crashes"
  BY <1>1
<1>2. CASE what = "naps"
  BY <1>2
<1>3. CASE what = "parks"
  BY <1>3
<1>4. CASE what = "verbs"
  BY <1>4
<1> QED
  BY <1>1, <1>2, <1>3, <1>4

LEMMA TimeTypes == TypeInv /\ TimeActs => TypeInv'
<1> SUFFICES ASSUME TypeInv, TimeActs PROVE TypeInv'
  OBVIOUS
<1> USE DEF TypeInv, TypeOK
<1>1. ASSUME NEW r \in Run, Lapse(r) PROVE TypeInv'
  BY <1>1 DEF Lapse, StoreTypeOK, LegsTypeOK, ClaimTypeOK, LadderTypeOK, VerbTypeOK, Judging, Addressed,
              runEvent, cards, legVars, claimVars
<1>2. ASSUME NEW r \in Run, GoSilent(r) PROVE TypeInv'
  BY <1>2 DEF GoSilent, StoreTypeOK, LegsTypeOK, ClaimTypeOK, LadderTypeOK, VerbTypeOK, Judging, Addressed,
              runRow, cards, legVars, claimVars
<1>3. CASE Nap
  <2>1. spent' \in Spent
    BY <1>3, SpendTypes DEF Nap
  <2>2. StoreTypeOK'
    BY <1>3 DEF Nap, StoreTypeOK, cards
  <2> QED
    BY <1>3, <2>1, <2>2
    DEF Nap, LegsTypeOK, ClaimTypeOK, LadderTypeOK, VerbTypeOK, Judging, Addressed, legVars, claimVars
<1>4. CASE ProcessCrash
  <2>1. spent' \in Spent
    BY <1>4, SpendTypes DEF ProcessCrash
  <2>2. StoreTypeOK'
    BY <1>4 DEF ProcessCrash, StoreTypeOK, store
  <2>3. LegsTypeOK' /\ ClaimTypeOK'
    BY <1>4 DEF ProcessCrash, LegsTypeOK, ClaimTypeOK, IdlePass, Pass
  <2>4. LadderTypeOK' /\ Judging'
    BY <1>4 DEF ProcessCrash, LadderTypeOK, Judging, IdleSweep, Sweep, Verdicts
  <2>5. VerbTypeOK' /\ Addressed'
    BY <1>4 DEF ProcessCrash, VerbTypeOK, Addressed, IdleVerb, Verb
  <2> QED
    BY <2>1, <2>2, <2>3, <2>4, <2>5
<1> QED
  BY <1>1, <1>2, <1>3, <1>4 DEF TimeActs

LEMMA TypeInductive == TypeInv /\ [Next]_vars => TypeInv'
<1> SUFFICES ASSUME TypeInv, [Next]_vars PROVE TypeInv'
  OBVIOUS
<1> USE DEF TypeInv, TypeOK
<1>1. CASE ClaimActs
  BY <1>1, ClaimStepTypes
  DEF ClaimActs, ClaimStep, LadderTypeOK, VerbTypeOK, Judging, Addressed
<1>2. CASE LegActs
  BY <1>2, LegStepTypes
  DEF LegActs, ClaimTypeOK, LadderTypeOK, VerbTypeOK, Judging, Addressed, claimVars
<1>3. CASE LadderActs
  BY <1>3, SweepTypes, SweepStoreTypes
  DEF LadderActs, LegsTypeOK, ClaimTypeOK, VerbTypeOK, Addressed, legVars, claimVars
<1>4. CASE VerbActs \/ AnswerActs
  BY <1>4, VerbTypes, VerbStoreTypes
  DEF VerbActs, AnswerActs, ClaimTypeOK, LadderTypeOK, Judging, claimVars
<1>5. CASE VerbRequests
  BY <1>5, VerbTypes, VerbStoreTypes, SpendTypes
  DEF VerbRequests, ClaimTypeOK, LadderTypeOK, Judging, claimVars
<1>6. CASE ParkActs
  <2>1. PICK r \in Run : ParkInFlight(r) \/ \E park \in BOOLEAN : ParkAndFlag(r, park)
    BY <1>6 DEF ParkActs
  <2>2. StoreTypeOK' /\ LegsTypeOK'
    BY <2>1, ParkTypes
  <2>3. UNCHANGED verb
    BY <2>1 DEF ParkInFlight, ParkAndFlag
  <2> QED
    BY <1>6, <2>2, <2>3, SpendTypes
    DEF ParkActs, ClaimTypeOK, LadderTypeOK, VerbTypeOK, Judging, Addressed, claimVars
<1>7. CASE TimeActs
  BY <1>7, TimeTypes
<1>8. CASE UNCHANGED vars
  BY <1>8 DEF vars, store, legVars, claimVars, StoreTypeOK, LegsTypeOK, ClaimTypeOK,
              LadderTypeOK, VerbTypeOK, Judging, Addressed
<1> QED
  BY <1>1, <1>2, <1>3, <1>4, <1>5, <1>6, <1>7, <1>8 DEF Next

LEMMA TypeInitially == Init => TypeInv
<1> SUFFICES ASSUME Init PROVE TypeInv
  OBVIOUS
<1>1. StoreTypeOK
  BY DEF Init, StoreInit, StoreTypeOK
<1>2. LegsTypeOK /\ ClaimTypeOK
  BY DEF Init, LegsInit, ClaimInit, LegsTypeOK, ClaimTypeOK, IdlePass, Pass
<1>3. LadderTypeOK /\ Judging
  BY DEF Init, LadderInit, LadderTypeOK, Judging, IdleSweep, Sweep, Verdicts
<1>4. VerbTypeOK /\ Addressed
  BY DEF Init, VerbInit, VerbTypeOK, Addressed, IdleVerb, Verb
<1>5. spent \in Spent
  BY BoundsAssumption DEF BoundsAssumption, Init, Spent
<1> QED
  BY <1>1, <1>2, <1>3, <1>4, <1>5 DEF TypeInv, TypeOK

\* Every table, leg, pass, sweep and request keeps its type: no generation goes
\* below zero, no row leaves the stored states, no bound is exceeded.
THEOREM TypeCorrect == Spec => []TypeOK
<1>1. TypeInv => TypeOK
  BY DEF TypeInv
<1> QED
  BY <1>1, TypeInitially, TypeInductive, PTL DEF Spec

-----------------------------------------------------------------------------
(* The edges of the state machine.                                           *)

LEMMA EdgeTable ==
    /\ Edges["new"] = { "queued" } /\ Edges["queued"] = { "claimed", "finalized" }
    /\ Edges["claimed"] = { "running", "crashed" }
    /\ Edges["running"] = { "parked", "draining", "completed", "crashed", "tombstoned" }
    /\ Edges["draining"] = { "parked", "completed", "crashed" }
    /\ Edges["parked"] = { "running", "died-at-gate", "finalized" }
    /\ Edges["crashed"] = { "completed", "tombstoned", "finalized" }
    /\ Edges["completed"] = {} /\ Edges["finalized"] = {}
    /\ Edges["tombstoned"] = {} /\ Edges["died-at-gate"] = {}
  BY DEF Edges, State

Terminal == { "completed", "finalized", "tombstoned", "died-at-gate" }

LEMMA Terminals == \A s : IsTerminal(s) <=> s \in Terminal
  BY EdgeTable DEF IsTerminal, State, Terminal

LEMMA NoEdgeFromTerminal == \A s, t : CanTransition(s, t) => ~IsTerminal(s)
  BY DEF CanTransition, IsTerminal

LEMMA CrashedOnlyEnds == \A t : CanTransition("crashed", t) => IsTerminal(t)
  BY EdgeTable, Terminals DEF CanTransition, Terminal

LEMMA OnlyOccupiedCrash == \A s : CanTransition(s, "crashed") => s \in Occupied
  BY EdgeTable DEF CanTransition, State, Occupied

\* One step of one row: it stays, takes an edge, is born, or crashes and is
\* decided in one transaction.
Move(s, t) == \/ t = s \/ CanTransition(s, t)
              \/ s = "absent" /\ t \in {"new", "queued"}
              \/ CanTransition(s, "crashed") /\ CanTransition("crashed", t)

\* Once crashed or terminal, a row stays so; once terminal, it never moves.
LEMMA MovesEnd ==
  ASSUME NEW s \in State \cup {"absent"}, NEW t, Move(s, t)
  PROVE  /\ Ended(s) => Ended(t)
         /\ IsTerminal(s) => t = s
         /\ t = "absent" => s = "absent"
<1>1. ~Ended("absent") /\ ~Ended("new") /\ ~Ended("queued")
  BY Terminals DEF Ended, Terminal
<1>2. \A q \in Occupied : ~Ended(q)
  BY Terminals DEF Ended, Terminal, Occupied
<1>3. CASE t = s
  BY <1>3
<1>4. CASE CanTransition(s, t)
  BY <1>4, NoEdgeFromTerminal, CrashedOnlyEnds, EdgesStayInState DEF Ended, State
<1>5. CASE s = "absent" /\ t \in {"new", "queued"}
  BY <1>1, <1>5 DEF Ended
<1>6. CASE CanTransition(s, "crashed") /\ CanTransition("crashed", t)
  BY <1>2, <1>6, OnlyOccupiedCrash, CrashedOnlyEnds, EdgesStayInState DEF Ended, State
<1> QED
  BY <1>3, <1>4, <1>5, <1>6 DEF Move

-----------------------------------------------------------------------------
(* What each actor may do to a lineage.                                      *)

\* Rows move along the edges, the generation of a row only grows.
Moving == \A q \in Run : /\ Move(state[q], state'[q])
                         /\ state[q] # "absent" => gen[q] <= gen'[q]
Quiet  == Moving /\ UNCHANGED <<origin, attempts>>

\* Every leg was there, or took over a waiting row at its generation.
Inherited == \A k \in legs' : \/ \E l \in legs : l.run = k.run /\ l.gen = k.gen
                              \/ k.run \in Run /\ k.gen <= gen'[k.run]
                                 /\ state[k.run] \in {"queued", "parked"}

LEMMA StillQuiet ==
  ASSUME StoreTypeOK, UNCHANGED <<state, gen, origin, attempts>>
  PROVE  Quiet
  BY DEF StoreTypeOK, Quiet, Moving, Move

LEMMA TransitionQuiet ==
  ASSUME StoreTypeOK, NEW r \in Run, NEW to, Transition(r, to), UNCHANGED <<origin, attempts>>
  PROVE  Quiet
<1>1. \A q \in Run : gen[q] <= gen'[q]
  BY DEF StoreTypeOK, Transition, GenerationAfter
<1>2. \A q \in Run : Move(state[q], state'[q])
  BY DEF StoreTypeOK, Transition, Move
<1> QED
  BY <1>1, <1>2 DEF Quiet, Moving

LEMMA LegStepEffect ==
  ASSUME StoreTypeOK, LegsTypeOK, NEW l \in legs, LegStep(l)
  PROVE  Quiet /\ Inherited /\ UNCHANGED card
<1>0. l.run \in Run /\ l \in Leg
  BY DEF LegsTypeOK, Leg
<1>1. ASSUME NEW pc PROVE (LegAt(l, pc) => Inherited) /\ (LegReturns(l) => Inherited)
  BY <1>0 DEF LegAt, LegReturns, Inherited, Leg
<1>2. UNCHANGED legs \/ legs' = legs \ {l} => Inherited
  BY DEF Inherited
<1>3. Inherited
  BY <1>1, <1>2
  DEF LegStep, LegBeat, LegStart, LegProgress, LegFail, LegUnwind, LegFileCrash, LegComplete,
      LegGate, LegPausePark, LegSettle, legVars
<1>4. UNCHANGED <<origin, attempts, card>>
  BY DEF LegStep, LegBeat, LegStart, LegProgress, LegFail, LegUnwind, LegFileCrash, LegComplete,
      LegGate, LegPausePark, LegSettle, store, runRow, cards
<1>5. UNCHANGED <<state, gen>> \/ \E to \in State : Transition(l.run, to)
  BY DEF LegStep, LegBeat, LegStart, LegProgress, LegFail, LegUnwind, LegFileCrash, LegComplete,
      LegGate, LegPausePark, LegSettle, store, runRow, State
<1> QED
  BY <1>0, <1>3, <1>4, <1>5, StillQuiet, TransitionQuiet

LEMMA ClaimStepEffect ==
  ASSUME StoreTypeOK, LegsTypeOK, ClaimTypeOK, ClaimStep
  PROVE  Quiet /\ Inherited /\ UNCHANGED card
<1>1. CASE UNCHANGED <<state, gen, origin, attempts, card, legs>>
  BY <1>1, StillQuiet DEF Inherited
<1>2. ASSUME NEW r \in Run, Create(r) PROVE Quiet /\ Inherited /\ UNCHANGED card
  BY <1>2 DEF Create, Quiet, Moving, Move, Inherited, StoreTypeOK, cards, legVars
<1>3. ASSUME NEW r \in Run, Enqueue(r) PROVE Quiet /\ Inherited /\ UNCHANGED card
  BY <1>3, StillQuiet, TransitionQuiet DEF Enqueue, Inherited, cards, legVars
<1>4. ASSUME NEW r \in Run, Claim(r) PROVE Quiet /\ Inherited /\ UNCHANGED card
  <2>1. Quiet /\ UNCHANGED card
    BY <1>4, TransitionQuiet DEF Claim, cards
  <2>2. legs' = legs \cup {[run |-> r, gen |-> gen[r], by |-> "dispatch", pc |-> "claimed"]}
    BY <1>4 DEF Claim
  <2>3. state[r] = "queued"
    <3>1. CanTransition(state[r], "claimed")
      BY <1>4 DEF Claim
    <3> QED
      BY <3>1, EdgeTable DEF CanTransition, State
  <2>4. gen[r] <= gen'[r]
    BY <2>1, <2>3 DEF Quiet, Moving
  <2> QED
    BY <2>1, <2>2, <2>3, <2>4 DEF Inherited
<1> QED
  BY <1>1, <1>2, <1>3, <1>4
  DEF ClaimStep, PassStep, PassStart, ListEndedRows, ReadCandidates, PassEnd, MaterializeOrphan,
      SettleEndedRow, ClaimLost, store, runRow, cards, legVars

\* A takeover of p: it has ended or crashes in this very step, its successor
\* s is new, and its generation moves on.
Takeover(s, p) ==
    /\ Moving /\ state[s] = "absent" /\ state'[s] # "absent" /\ Ended(state'[p])
    /\ gen[p] < gen'[p]
    /\ origin'[s].of = p
    /\ \A q \in Run \ {s} : origin'[q] = origin[q] /\ attempts'[q] = attempts[q]
    /\ attempts'[s] <= MaxAttempts

LEMMA BirthTakesOver ==
  ASSUME StoreTypeOK, NEW s \in Run, NEW p \in Run, s # p, NEW g \in Nat, NEW by, NEW n \in Nat,
         Birth(s, p, g, by, n)
  PROVE  /\ \A q \in Run \ {s} : gen[q] <= gen'[q]
         /\ gen[p] < gen'[p] /\ origin'[s].of = p /\ attempts'[s] = n
         /\ \A q \in Run \ {s} : origin'[q] = origin[q] /\ attempts'[q] = attempts[q]
<1>1. gen' = [gen EXCEPT ![p] = @ + 1, ![s] = g] /\ gen \in [Run -> Nat]
  BY DEF Birth, StoreTypeOK
<1>2. \A q \in Run \ {s} : gen[q] <= gen'[q]
  BY <1>1
<1>3. gen[p] < gen'[p]
  BY <1>1
<1>4. origin'[s].of = p /\ \A q \in Run \ {s} : origin'[q] = origin[q]
  BY DEF Birth, StoreTypeOK
<1>5. attempts'[s] = n /\ \A q \in Run \ {s} : attempts'[q] = attempts[q]
  BY DEF Birth, StoreTypeOK
<1> QED
  BY <1>2, <1>3, <1>4, <1>5

CardsTurn == \A q \in Run : card'[q] = card[q] \/ (card[q] = "open" /\ card'[q] = "closed")

\* What a request does: a quiet step, or the retry's takeover at an open card.
LEMMA VerbEffect ==
  ASSUME StoreTypeOK, LegsTypeOK, VerbTypeOK, Addressed,
         \A q \in Run : card[q] # "none" => IsTerminal(state[q]),
         VerbFollows \/ \E r \in Run : VerbStarts(r) \/ AnswerGate(r)
  PROVE  /\ Inherited /\ CardsTurn
         /\ \/ Quiet
            \/ /\ UNCHANGED legs
               /\ \E s, p \in Run : Takeover(s, p) /\ card[p] = "open" /\ card'[p] = "closed"
<1>0. verb.at \in {"apply", "settle", "resume", "beat", "retry", "kanban"} => verb.run \in Run
  BY DEF Addressed
<1>1. ASSUME UNCHANGED <<legs, card>> PROVE Inherited /\ CardsTurn
  BY <1>1 DEF Inherited, CardsTurn
<1>2. CASE CancelApply
  <2>1. UNCHANGED <<origin, attempts, legs, card>>
    BY <1>2 DEF CancelApply
  <2>2. verb.at = "apply"
    BY <1>2 DEF CancelApply
  <2>3. UNCHANGED <<state, gen>> \/ Transition(verb.run, CancelTo(verb.seen))
    BY <1>2 DEF CancelApply
  <2> QED
    BY <1>0, <1>1, <2>1, <2>2, <2>3, StillQuiet, TransitionQuiet
<1>3. CASE ResumeApply
  BY <1>0, <1>1, <1>3, StillQuiet, TransitionQuiet DEF ResumeApply, cards, legVars
<1>4. CASE CancelEnd
  <2>1. UNCHANGED <<state, gen, origin, attempts, legs>>
    BY <1>4 DEF CancelEnd, runRow, legVars
  <2>2. CardsTurn
    BY <1>4 DEF CancelEnd, CardsTurn, StoreTypeOK
  <2> QED
    BY <2>1, <2>2, StillQuiet DEF Inherited
<1>5. ASSUME NEW r \in Run, AnswerGate(r)
      PROVE  Quiet /\ Inherited /\ CardsTurn
  <2>1. CASE state[r] = "parked"
    <3>1. /\ Transition(r, "running") /\ UNCHANGED <<origin, attempts, card>>
          /\ legs' = legs \cup {[run |-> r, gen |-> gen[r] + 1, by |-> "answer", pc |-> "working"]}
      BY <1>5, <2>1 DEF AnswerGate
    <3>2. gen'[r] = gen[r] + 1
      BY <2>1, <3>1 DEF Transition, GenerationAfter, Bumps, StoreTypeOK
    <3>3. gen[r] + 1 <= gen'[r]
      BY <3>2 DEF StoreTypeOK
    <3>4. Inherited
      BY <2>1, <3>1, <3>3 DEF Inherited
    <3> QED
      BY <3>1, <3>4, TransitionQuiet DEF CardsTurn
  <2>2. CASE state[r] # "parked"
    BY <1>1, <1>5, <2>2, StillQuiet DEF AnswerGate
  <2> QED
    BY <2>1, <2>2
<1>6. CASE RetryApply
  <2> DEFINE r == verb.run
  <2>0. verb.at = "retry"
    BY <1>6 DEF RetryApply
  <2>1. r \in Run
    BY <1>0, <2>0
  <2>2. UNCHANGED legs
    BY <1>6 DEF RetryApply, legVars
  <2>3. CASE UNCHANGED <<state, gen, attempts, origin, runEvent, card>>
    BY <1>1, <2>2, <2>3, StillQuiet
  <2>4. CASE /\ card[r] = "open" /\ card' = [card EXCEPT ![r] = "closed"]
             /\ \E s \in Run \ Root :
                  /\ state[s] = "absent" /\ state' = [state EXCEPT ![s] = "queued"]
                  /\ Birth(s, r, gen[r] + 1, "answer", 0)
    <3>1. PICK s \in Run : /\ state[s] = "absent" /\ state' = [state EXCEPT ![s] = "queued"]
                            /\ Birth(s, r, gen[r] + 1, "answer", 0)
      BY <2>4
    <3>2. IsTerminal(state[r]) /\ s # r
      BY <2>1, <2>4, <3>1 DEF IsTerminal, State
    <3> HIDE DEF r
    <3>3. gen[r] + 1 \in Nat
      BY <2>1 DEF StoreTypeOK
    <3>4. /\ \A q \in Run \ {s} : gen[q] <= gen'[q]
          /\ gen[r] < gen'[r] /\ origin'[s].of = r /\ attempts'[s] = 0
          /\ \A q \in Run \ {s} : origin'[q] = origin[q] /\ attempts'[q] = attempts[q]
      BY <2>1, <3>1, <3>2, <3>3, BirthTakesOver
    <3>5. \A q \in Run : Move(state[q], state'[q])
      BY <3>1 DEF Move, StoreTypeOK
    <3>6. state'[s] # "absent" /\ Ended(state'[r])
      BY <2>1, <3>1, <3>2 DEF StoreTypeOK, Ended
    <3>7. Takeover(s, r)
      BY <3>1, <3>4, <3>5, <3>6, AttemptsAssumption DEF Takeover, Moving, AttemptsAssumption
    <3>8. CardsTurn /\ card'[r] = "closed"
      BY <2>1, <2>4 DEF CardsTurn, StoreTypeOK
    <3> QED
      BY <2>1, <2>2, <2>4, <3>7, <3>8 DEF Inherited
  <2> QED
    BY <1>6, <2>3, <2>4 DEF RetryApply
<1>7. CASE UNCHANGED <<state, gen, origin, attempts, legs, card>>
  BY <1>1, <1>7, StillQuiet
<1> QED
  BY <1>2, <1>3, <1>4, <1>5, <1>6, <1>7
  DEF VerbFollows, CancelStep, VerbStarts, CancelSettle, CancelRead, ResumeBeat, RetryAdmit,
      CancelRun, LadderCancel, ResumeRead, RetryRead, store, runRow, cards, legVars

LEMMA ParkEffect ==
  ASSUME StoreTypeOK, NEW r \in Run,
         ParkInFlight(r) \/ \E park \in BOOLEAN : ParkAndFlag(r, park)
  PROVE  Quiet /\ Inherited /\ UNCHANGED card
<1>1. CASE ParkInFlight(r)
  BY <1>1, TransitionQuiet DEF ParkInFlight, Inherited, cards, legVars
<1>2. ASSUME NEW park \in BOOLEAN, ParkAndFlag(r, park) PROVE Quiet /\ Inherited /\ UNCHANGED card
  BY <1>2, StillQuiet, TransitionQuiet DEF ParkAndFlag, Inherited, cards, legVars
<1> QED
  BY <1>1, <1>2

LEMMA TimeEffect ==
  ASSUME StoreTypeOK, TimeActs
  PROVE  Quiet /\ Inherited /\ UNCHANGED card
<1>1. UNCHANGED <<state, gen, origin, attempts, card>>
  BY DEF TimeActs, Nap, ProcessCrash, Lapse, GoSilent, store, runRow, cards
<1>2. UNCHANGED legs \/ legs' = {}
  BY DEF TimeActs, Nap, ProcessCrash, Lapse, GoSilent, legVars
<1> QED
  BY <1>1, <1>2, StillQuiet DEF Inherited

-----------------------------------------------------------------------------
(* What the ladder may do to a lineage.                                      *)

\* The bound decision's takeover, at a row of which `from` is the state.
LEMMA ForkEffect ==
  ASSUME StoreTypeOK, NEW r \in Run, NEW g \in Nat, NEW from, Fork(r, g, from),
         Ended(from), Move(state[r], from), state[r] # "absent", ~Exhausted(r)
  PROVE  /\ UNCHANGED card
         /\ Quiet \/ \E s \in Run : Takeover(s, r)
<1>1. CASE Dispatched(r, g)
  <2>1. state' = [state EXCEPT ![r] = from] /\ UNCHANGED <<gen, attempts, origin, card>>
    BY <1>1 DEF Fork
  <2> QED
    BY <2>1 DEF Quiet, Moving, Move, StoreTypeOK
<1>2. CASE ~Dispatched(r, g)
  <2>1. PICK s \in Run \ Root :
          /\ state[s] = "absent" /\ state' = [state EXCEPT ![r] = from, ![s] = "queued"]
          /\ Birth(s, r, g + 1, "interruption", attempts[r] + 1)
    BY <1>2 DEF Fork
  <2>2. attempts[r] + 1 \in Nat /\ g + 1 \in Nat /\ s # r /\ attempts[r] + 1 <= MaxAttempts
    BY <2>1, AttemptsAssumption DEF StoreTypeOK, Exhausted, AttemptsAssumption
  <2>3. /\ \A q \in Run \ {s} : gen[q] <= gen'[q]
        /\ gen[r] < gen'[r] /\ origin'[s].of = r /\ attempts'[s] = attempts[r] + 1
        /\ \A q \in Run \ {s} : origin'[q] = origin[q] /\ attempts'[q] = attempts[q]
    BY <2>1, <2>2, BirthTakesOver
  <2>4. state'[r] = from /\ state'[s] = "queued" /\ \A q \in Run \ {r, s} : state'[q] = state[q]
    BY <2>1, <2>2 DEF StoreTypeOK
  <2>5. \A q \in Run : Move(state[q], state'[q])
    BY <2>1, <2>4 DEF Move
  <2>6. Takeover(s, r)
    BY <2>1, <2>2, <2>3, <2>4, <2>5 DEF Takeover, Moving
  <2>7. UNCHANGED card
    BY DEF Fork
  <2> QED
    BY <2>6, <2>7
<1> QED
  BY <1>1, <1>2

\* The bound decision opens a card only on a row without one, which it ends.
CardOpens(r) == /\ card[r] = "none" /\ IsTerminal(state'[r]) /\ UNCHANGED origin
                /\ card' = [card EXCEPT ![r] = "open"]

LEMMA BoundEffect ==
  ASSUME StoreTypeOK, NEW r \in Run, NEW g \in Nat, NEW from, NEW age, Bound(r, g, from, age),
         Ended(from), state[r] # "absent",
         \A t : t = from \/ CanTransition(from, t) => Move(state[r], t)
  PROVE  \/ Quiet /\ (UNCHANGED card \/ CardOpens(r))
         \/ UNCHANGED card /\ \E s \in Run : Takeover(s, r)
<1>1. CASE /\ CanTransition(from, EndState(r, age)) /\ card[r] = "none"
           /\ EndWithCard(r, EndState(r, age))
  <2> DEFINE to == EndState(r, age)
  <2>1. IsTerminal(to) /\ Move(state[r], to)
    BY <1>1, Terminals DEF EndState, Terminal
  <2>2. /\ state' = [state EXCEPT ![r] = to] /\ card' = [card EXCEPT ![r] = "open"]
        /\ UNCHANGED <<gen, attempts, origin>>
    BY <1>1 DEF EndWithCard
  <2> HIDE DEF to
  <2>3. Quiet
    BY <2>1, <2>2 DEF Quiet, Moving, Move, StoreTypeOK
  <2> QED
    BY <1>1, <2>1, <2>2, <2>3 DEF CardOpens, StoreTypeOK
<1>2. CASE UNCHANGED <<state, gen, attempts, origin, runEvent, card, column>>
  BY <1>2, StillQuiet
<1>3. CASE ~Exhausted(r) /\ Fork(r, g, from)
  BY <1>3, ForkEffect
<1> QED
  BY <1>1, <1>2, <1>3 DEF Bound

\* Where the sweep decides: a row it crashes, or a listed crash without successor.
Decides(r) == /\ sweep.verdict = "crash" /\ r = sweep.now.run /\ r \in Run /\ Decided
              /\ state[r] # "absent" /\ Ended(state'[r])
              /\ \/ sweep.at = "observe" /\ ~Ended(state[r])
                 \/ sweep.at = "crashed" /\ ~Superseded(r)

LEMMA SweepEffect ==
  ASSUME StoreTypeOK, LadderTypeOK, Judging, SweepStep,
         sweep.at = "crashed" /\ sweep.verdict # "none" => Ended(state[sweep.now.run])
  PROVE  \/ Quiet /\ UNCHANGED card
         \/ Quiet /\ \E r \in Run : Decides(r) /\ CardOpens(r)
         \/ UNCHANGED card /\ \E s, r \in Run : Takeover(s, r) /\ Decides(r)
<1> DEFINE r == sweep.now.run
<1>0. sweep.verdict # "none" => r \in Run /\ sweep.now.gen \in Nat
  BY DEF Judging, Snapshot
<1>1. CASE UNCHANGED <<state, gen, origin, attempts, card>>
  BY <1>1, StillQuiet
<1>2. CASE SweepHarvest
  BY <1>0, <1>2, StillQuiet, TransitionQuiet DEF SweepHarvest, cards
<1>3. CASE SweepCrashAndBound
  <2>1. r \in Run /\ gen[r] \in Nat /\ sweep.verdict = "crash" /\ sweep.at = "observe" /\ Decided
    BY <1>0, <1>3 DEF SweepCrashAndBound, StoreTypeOK
  <2>2. \/ CanTransition(state[r], "crashed") /\ Bound(r, gen[r], "crashed", sweep.age)
        \/ UNCHANGED <<state, gen, attempts, origin, card>>
    BY <1>3 DEF SweepCrashAndBound
  <2> HIDE DEF r
  <2>3. CASE CanTransition(state[r], "crashed") /\ Bound(r, gen[r], "crashed", sweep.age)
    <3>1. state[r] \in Occupied
      BY <2>3, OnlyOccupiedCrash
    <3>2. ~Ended(state[r]) /\ state[r] # "absent" /\ Ended("crashed")
      BY <3>1, Terminals DEF Ended, Terminal, Occupied
    <3>3. \A t : t = "crashed" \/ CanTransition("crashed", t) => Move(state[r], t)
      BY <2>3 DEF Move
    <3>4. \/ Quiet /\ (UNCHANGED card \/ CardOpens(r))
          \/ UNCHANGED card /\ \E s \in Run : Takeover(s, r)
      BY <2>1, <2>3, <3>2, <3>3, BoundEffect
    <3>5. CardOpens(r) \/ (\E s \in Run : Takeover(s, r)) => Decides(r)
      BY <2>1, <3>2 DEF CardOpens, Takeover, Decides, Ended, r
    <3> QED
      BY <2>1, <3>4, <3>5
  <2> QED
    BY <2>2, <2>3, StillQuiet
<1>4. CASE SweepBoundCrashed
  <2>1. r \in Run /\ sweep.now.gen \in Nat /\ sweep.verdict = "crash" /\ sweep.at = "crashed" /\ Decided
    BY <1>0, <1>4 DEF SweepBoundCrashed
  <2>2. \/ ~Superseded(r) /\ Bound(r, sweep.now.gen, state[r], sweep.age)
        \/ UNCHANGED <<state, gen, attempts, origin, card>>
    BY <1>4 DEF SweepBoundCrashed
  <2>3. Ended(state[r])
    BY <2>1
  <2> HIDE DEF r
  <2>4. CASE ~Superseded(r) /\ Bound(r, sweep.now.gen, state[r], sweep.age)
    <3>1. state[r] # "absent"
      BY <2>3, Terminals DEF Ended, Terminal
    <3>2. \A t : t = state[r] \/ CanTransition(state[r], t) => Move(state[r], t)
      BY DEF Move
    <3>3. \/ Quiet /\ (UNCHANGED card \/ CardOpens(r))
          \/ UNCHANGED card /\ \E s \in Run : Takeover(s, r)
      BY <2>1, <2>3, <2>4, <3>1, <3>2, BoundEffect
    <3>4. CardOpens(r) \/ (\E s \in Run : Takeover(s, r)) => Decides(r)
      BY <2>1, <2>4, <3>1 DEF CardOpens, Takeover, Decides, Ended, r
    <3> QED
      BY <2>1, <3>3, <3>4
  <2> QED
    BY <2>2, <2>4, StillQuiet
<1> QED
  BY <1>1, <1>2, <1>3, <1>4
  DEF SweepStep, SweepStart, SweepFlagWedged, SweepListCrashed, SweepEnd, SweepClassify,
      SweepReadCrashed, store, runRow, cards

-----------------------------------------------------------------------------
(* The fence and the single successor.                                       *)

\* A leg works on a row that is there, at a generation it has reached.
LegsKnow == \A l \in legs : state[l.run] # "absent" /\ l.gen <= gen[l.run]

\* A superseded row has ended, and every leg on it is a generation behind.
ParentsEnded == \A c \in Run : origin[c].of \in Run => Ended(state[origin[c].of])
ParentsFence == \A l \in legs, c \in Run : origin[c].of = l.run => l.gen < gen[l.run]

\* What a pass has listed as crashed stays ended, whoever moves it meanwhile.
ListIsEnded ==
    sweep.at = "crashed" => /\ \A s \in sweep.todo : Ended(state[s.run])
                            /\ sweep.verdict # "none" => Ended(state[sweep.now.run])

\* Only an ended row has a card.
CardsEnd == \A r \in Run : card[r] # "none" => IsTerminal(state[r])

\* A row with an open card has no successor: the retry is the one to come.
OpenCardIsChildless == \A r, c \in Run : card[r] = "open" => origin[c].of # r

\* The pass decides each crashed run once, and finds no card on it.
DecidedOnce ==
    sweep.at = "crashed" =>
        /\ \A s, t \in sweep.todo : s.run = t.run => s = t
        /\ \A s \in sweep.todo : card[s.run] = "none"
        /\ sweep.verdict # "none" => /\ card[sweep.now.run] = "none"
                                     /\ \A s \in sweep.todo : s.run # sweep.now.run

SingleSuccessor ==
    \A c, d \in Run : origin[c].of \in Run /\ origin[d].of = origin[c].of => c = d

Lineage == /\ LegsKnow /\ ParentsEnded /\ ParentsFence /\ ListIsEnded /\ CardsEnd
           /\ OpenCardIsChildless /\ DecidedOnce /\ SingleSuccessor /\ AttemptsBounded

\* One step as a lineage sees it.
Effect == /\ Inherited
          /\ \/ Quiet /\ CardsTurn
             \/ Quiet /\ \E r \in Run : Decides(r) /\ CardOpens(r)
             \/ UNCHANGED <<card, legs>> /\ \E s, r \in Run : Takeover(s, r) /\ Decides(r)
             \/ /\ CardsTurn /\ UNCHANGED legs
                /\ \E s, r \in Run : Takeover(s, r) /\ card[r] = "open" /\ card'[r] = "closed"

LEMMA StepEffect == TypeInv /\ Lineage /\ [Next]_vars => Effect
<1> SUFFICES ASSUME TypeInv, Lineage, [Next]_vars PROVE Effect
  OBVIOUS
<1> USE DEF TypeInv, TypeOK
<1>0. UNCHANGED card => CardsTurn
  BY DEF CardsTurn
<1>1. CASE ClaimActs
  BY <1>0, <1>1, ClaimStepEffect DEF ClaimActs, ClaimStep, Effect
<1>2. CASE LegActs
  BY <1>0, <1>2, LegStepEffect DEF LegActs, Effect
<1>3. CASE LadderActs
  <2>1. Inherited /\ UNCHANGED legs
    BY <1>3 DEF LadderActs, legVars, Inherited
  <2>2. SweepStep /\ (sweep.at = "crashed" /\ sweep.verdict # "none" => Ended(state[sweep.now.run]))
    BY <1>3 DEF LadderActs, Lineage, ListIsEnded
  <2> QED
    BY <1>0, <2>1, <2>2, SweepEffect DEF Effect
<1>4. CASE VerbActs \/ AnswerActs \/ VerbRequests
  <2>1. VerbFollows \/ \E r \in Run : VerbStarts(r) \/ AnswerGate(r)
    BY <1>4 DEF VerbActs, AnswerActs, VerbRequests
  <2>2. \A r \in Run : card[r] # "none" => IsTerminal(state[r])
    BY DEF Lineage, CardsEnd
  <2> QED
    BY <2>1, <2>2, VerbEffect DEF Effect
<1>5. CASE ParkActs
  BY <1>0, <1>5, ParkEffect DEF ParkActs, Effect
<1>6. CASE TimeActs
  BY <1>0, <1>6, TimeEffect DEF Effect
<1>7. CASE UNCHANGED vars
  <2>1. UNCHANGED <<state, gen, origin, attempts, card, legs>>
    BY <1>7 DEF vars, store, legVars
  <2> QED
    BY <1>0, <2>1, StillQuiet DEF Effect, Inherited
<1> QED
  BY <1>1, <1>2, <1>3, <1>4, <1>5, <1>6, <1>7 DEF Next

\* How a pass moves on between two steps.
SweepMoves ==
    \/ UNCHANGED sweep
    \/ sweep'.at # "crashed"
    \/ Decided
    \/ SweepListCrashed
    \/ \E s \in sweep.todo : SweepReadCrashed(s)

LEMMA StepSweeps == TypeInv /\ [Next]_vars => SweepMoves
<1> SUFFICES ASSUME TypeInv, [Next]_vars PROVE SweepMoves
  OBVIOUS
<1>1. CASE LadderActs
  <2>1. SweepStep
    BY <1>1 DEF LadderActs
  <2>2. SweepStart \/ SweepEnd => sweep'.at # "crashed"
    <3>1. \A todo : [IdleSweep EXCEPT !.at = "observe", !.todo = todo].at = "observe"
      BY DEF IdleSweep
    <3>2. SweepStart => sweep'.at = "observe"
      BY <3>1 DEF SweepStart
    <3>3. SweepEnd => sweep'.at = "idle"
      BY DEF SweepEnd, IdleSweep
    <3> QED
      BY <3>2, <3>3
  <2>3. ASSUME NEW s \in sweep.todo, SweepClassify(s) PROVE sweep'.at # "crashed"
    BY <2>3 DEF SweepClassify, TypeInv, TypeOK, LadderTypeOK, Sweep
  <2>4. SweepHarvest \/ SweepFlagWedged \/ SweepCrashAndBound \/ SweepBoundCrashed => Decided
    BY DEF SweepHarvest, SweepFlagWedged, SweepCrashAndBound, SweepBoundCrashed
  <2> QED
    BY <2>1, <2>2, <2>3, <2>4 DEF SweepStep, SweepMoves
<1>2. CASE ProcessCrash
  BY <1>2 DEF ProcessCrash, IdleSweep, SweepMoves
<1>3. CASE UNCHANGED sweep
  BY <1>3 DEF SweepMoves
<1>4. UNCHANGED sweep \/ LadderActs \/ ProcessCrash
  BY DEF Next, ClaimActs, LegActs, VerbActs, AnswerActs, VerbRequests, ParkActs, TimeActs,
         ParkInFlight, ParkAndFlag, VerbStarts, Lapse, GoSilent, Nap, vars
<1> QED
  BY <1>1, <1>2, <1>3, <1>4

LEMMA RowTypes ==
  ASSUME TypeInv
  PROVE  /\ \A q \in Run : state[q] \in State \cup {"absent"}
         /\ \A q \in Run : gen[q] \in Nat
         /\ \A q \in Run : origin[q].of \in Run \cup {NoRun}
         /\ card \in [Run -> {"none", "open", "closed"}]
         /\ \A l \in legs : l.run \in Run /\ l.gen \in Nat
  BY DEF TypeInv, TypeOK, StoreTypeOK, LegsTypeOK, Origin, Root0, Leg

LEMMA EffectMoves == Effect => Moving /\ Inherited
  BY DEF Effect, Quiet, Takeover

LEMMA EndedStays ==
  ASSUME TypeInv, Moving, NEW q \in Run, Ended(state[q])
  PROVE  Ended(state'[q])
  BY RowTypes, MovesEnd DEF Moving

LEMMA TerminalStays ==
  ASSUME TypeInv, Moving, NEW q \in Run, IsTerminal(state[q])
  PROVE  IsTerminal(state'[q])
  BY RowTypes, MovesEnd DEF Moving

LEMMA RowStays ==
  ASSUME TypeInv, Moving, NEW q \in Run, state[q] # "absent"
  PROVE  state'[q] # "absent" /\ gen[q] <= gen'[q]
  BY RowTypes, MovesEnd DEF Moving

\* A takeover finds no earlier successor and no open card on the row it decides.
LEMMA TakenOverIsFree ==
  ASSUME TypeInv, Lineage, NEW r \in Run, Decides(r) \/ card[r] = "open"
  PROVE  \A c \in Run : origin[c].of # r
<1>1. CASE card[r] = "open"
  BY <1>1 DEF Lineage, OpenCardIsChildless
<1>2. CASE Decides(r) /\ ~Ended(state[r])
  BY <1>2 DEF Lineage, ParentsEnded
<1>3. CASE Decides(r) /\ ~Superseded(r)
  BY <1>3 DEF Superseded, ChildrenOf
<1> QED
  BY <1>1, <1>2, <1>3 DEF Decides

LEMMA DecidedHasNoCard ==
  ASSUME Lineage, NEW r \in Run, Decides(r)
  PROVE  card[r] = "none"
<1>1. CASE ~Ended(state[r])
  BY <1>1 DEF Lineage, CardsEnd, Ended
<1>2. CASE sweep.at = "crashed"
  BY <1>2 DEF Lineage, DecidedOnce, Decides
<1> QED
  BY <1>1, <1>2 DEF Decides

LEMMA LegsInductive ==
  ASSUME TypeInv, TypeInv', Lineage, Effect
  PROVE  LegsKnow' /\ ParentsFence' /\ ParentsEnded'
<1>0. \A q \in Run : gen'[q] \in Nat
  BY DEF TypeInv, TypeOK, StoreTypeOK
<1>1. Moving /\ Inherited
  BY EffectMoves
<1>2. ~Ended("queued") /\ ~Ended("parked")
  BY Terminals DEF Ended, Terminal
<1>3. LegsKnow'
  <2>1. ASSUME NEW k \in legs' PROVE state'[k.run] # "absent" /\ k.gen <= gen'[k.run]
    <3>1. ASSUME NEW l \in legs, l.run = k.run, l.gen = k.gen
          PROVE  state'[k.run] # "absent" /\ k.gen <= gen'[k.run]
      <4>1. l.run \in Run /\ l.gen \in Nat /\ gen[l.run] \in Nat
        BY RowTypes
      <4>2. state[l.run] # "absent" /\ l.gen <= gen[l.run]
        BY DEF Lineage, LegsKnow
      <4>3. state'[l.run] # "absent" /\ gen[l.run] <= gen'[l.run]
        BY <1>1, <4>1, <4>2, RowStays
      <4> QED
        BY <1>0, <3>1, <4>1, <4>2, <4>3
    <3>2. ASSUME k.run \in Run, k.gen <= gen'[k.run], state[k.run] \in {"queued", "parked"}
          PROVE  state'[k.run] # "absent" /\ k.gen <= gen'[k.run]
      BY <1>1, <3>2, RowStays
    <3> QED
      BY <1>1, <3>1, <3>2 DEF Inherited
  <2> QED
    BY <2>1 DEF LegsKnow
<1>4. CASE Quiet
  <2>1. UNCHANGED origin
    BY <1>4 DEF Quiet
  <2>2. ParentsEnded'
    BY <1>1, <2>1, EndedStays DEF Lineage, ParentsEnded
  <2>3. ASSUME NEW k \in legs', NEW c \in Run, origin[c].of = k.run PROVE k.gen < gen'[k.run]
    <3>1. ASSUME NEW l \in legs, l.run = k.run, l.gen = k.gen PROVE k.gen < gen'[k.run]
      <4>1. l.run \in Run /\ l.gen \in Nat /\ gen[l.run] \in Nat
        BY RowTypes
      <4>2. state[l.run] # "absent" /\ l.gen < gen[l.run]
        BY <2>3, <3>1 DEF Lineage, LegsKnow, ParentsFence
      <4>3. gen[l.run] <= gen'[l.run]
        BY <1>1, <4>1, <4>2, RowStays
      <4> QED
        BY <1>0, <3>1, <4>1, <4>2, <4>3
    <3>2. ~(k.run \in Run /\ state[k.run] \in {"queued", "parked"})
      BY <1>2, <2>3 DEF Lineage, ParentsEnded
    <3> QED
      BY <1>1, <3>1, <3>2 DEF Inherited
  <2> QED
    BY <1>3, <2>1, <2>2, <2>3 DEF ParentsFence
<1>5. ASSUME NEW s \in Run, NEW r \in Run, Takeover(s, r), UNCHANGED legs
      PROVE  ParentsFence' /\ ParentsEnded'
  <2>1. /\ origin'[s].of = r /\ \A q \in Run \ {s} : origin'[q] = origin[q]
        /\ gen[r] < gen'[r] /\ Ended(state'[r])
    BY <1>5 DEF Takeover
  <2>2. ASSUME NEW c \in Run, origin'[c].of \in Run PROVE Ended(state'[origin'[c].of])
    <3>1. CASE c = s
      BY <2>1, <3>1
    <3>2. CASE c # s
      <4>1. origin'[c].of = origin[c].of /\ Ended(state[origin[c].of])
        BY <2>1, <2>2, <3>2 DEF Lineage, ParentsEnded
      <4> QED
        BY <1>1, <2>2, <4>1, EndedStays
    <3> QED
      BY <3>1, <3>2
  <2>3. ASSUME NEW k \in legs, NEW c \in Run, origin'[c].of = k.run PROVE k.gen < gen'[k.run]
    <3>1. k.run \in Run /\ k.gen \in Nat /\ gen[k.run] \in Nat
      BY RowTypes
    <3>2. k.gen <= gen[k.run] /\ state[k.run] # "absent"
      BY DEF Lineage, LegsKnow
    <3>3. gen[k.run] <= gen'[k.run]
      BY <1>1, <3>1, <3>2, RowStays
    <3>4. CASE c = s
      BY <1>0, <2>1, <2>3, <3>1, <3>2, <3>4
    <3>5. CASE c # s
      <4>1. k.gen < gen[k.run]
        BY <2>1, <2>3, <3>5 DEF Lineage, ParentsFence
      <4> QED
        BY <1>0, <3>1, <3>3, <4>1
    <3> QED
      BY <3>4, <3>5
  <2> QED
    BY <1>5, <2>2, <2>3 DEF ParentsFence, ParentsEnded
<1> QED
  BY <1>3, <1>4, <1>5 DEF Effect

LEMMA CardsInductive ==
  ASSUME TypeInv, Lineage, Effect
  PROVE  CardsEnd' /\ OpenCardIsChildless'
<1>0. Moving /\ card \in [Run -> {"none", "open", "closed"}]
  BY RowTypes, EffectMoves
<1>1. ASSUME NEW q \in Run, card[q] # "none" PROVE IsTerminal(state'[q])
  BY <1>0, <1>1, TerminalStays DEF Lineage, CardsEnd
<1>2. CASE Quiet /\ CardsTurn
  <2>1. CardsEnd'
    BY <1>1, <1>2 DEF CardsTurn, CardsEnd
  <2>2. OpenCardIsChildless'
    BY <1>2 DEF Quiet, CardsTurn, Lineage, OpenCardIsChildless
  <2> QED
    BY <2>1, <2>2
<1>3. ASSUME NEW r \in Run, Quiet, Decides(r), CardOpens(r)
      PROVE  CardsEnd' /\ OpenCardIsChildless'
  <2>1. /\ IsTerminal(state'[r]) /\ UNCHANGED origin /\ card'[r] = "open"
        /\ \A q \in Run \ {r} : card'[q] = card[q]
    BY <1>0, <1>3 DEF CardOpens
  <2>2. \A c \in Run : origin[c].of # r
    BY <1>3, TakenOverIsFree
  <2>3. CardsEnd'
    BY <1>1, <2>1 DEF CardsEnd
  <2>4. OpenCardIsChildless'
    BY <2>1, <2>2 DEF Lineage, OpenCardIsChildless
  <2> QED
    BY <2>3, <2>4
<1>4. ASSUME NEW s \in Run, NEW r \in Run, Takeover(s, r), CardsTurn, card'[r] # "open"
      PROVE  CardsEnd' /\ OpenCardIsChildless'
  <2>1. origin'[s].of = r /\ \A q \in Run \ {s} : origin'[q] = origin[q]
    BY <1>4 DEF Takeover
  <2>2. CardsEnd'
    BY <1>1, <1>4 DEF CardsTurn, CardsEnd
  <2>3. ASSUME NEW q \in Run, NEW c \in Run, card'[q] = "open" PROVE origin'[c].of # q
    <3>1. card[q] = "open" /\ q # r
      BY <1>4, <2>3 DEF CardsTurn
    <3> QED
      BY <2>1, <3>1 DEF Lineage, OpenCardIsChildless
  <2> QED
    BY <2>2, <2>3 DEF OpenCardIsChildless
<1>5. ASSUME NEW s \in Run, NEW r \in Run, Takeover(s, r), Decides(r), UNCHANGED card
      PROVE  CardsEnd' /\ OpenCardIsChildless'
  <2>1. card[r] = "none"
    BY <1>5, DecidedHasNoCard
  <2>2. card'[r] # "open" /\ CardsTurn
    BY <1>5, <2>1 DEF CardsTurn
  <2> QED
    BY <1>4, <1>5, <2>2
<1> QED
  BY <1>2, <1>3, <1>4, <1>5 DEF Effect

LEMMA SuccessorInductive ==
  ASSUME TypeInv, Lineage, Effect
  PROVE  SingleSuccessor' /\ AttemptsBounded'
<1>1. CASE Quiet
  BY <1>1 DEF Quiet, Lineage, SingleSuccessor, AttemptsBounded
<1>2. ASSUME NEW s \in Run, NEW r \in Run, Takeover(s, r), Decides(r) \/ card[r] = "open"
      PROVE  SingleSuccessor' /\ AttemptsBounded'
  <2>1. /\ origin'[s].of = r /\ \A q \in Run \ {s} : origin'[q] = origin[q] /\ attempts'[q] = attempts[q]
        /\ attempts'[s] <= MaxAttempts
    BY <1>2 DEF Takeover
  <2>2. \A c \in Run : origin[c].of # r
    BY <1>2, TakenOverIsFree
  <2>3. SingleSuccessor'
    BY <2>1, <2>2 DEF Lineage, SingleSuccessor
  <2>4. AttemptsBounded'
    BY <2>1 DEF Lineage, AttemptsBounded
  <2> QED
    BY <2>3, <2>4
<1> QED
  BY <1>1, <1>2 DEF Effect

LEMMA ListInductive ==
  ASSUME TypeInv, Lineage, Effect, SweepMoves
  PROVE  ListIsEnded' /\ DecidedOnce'
<1>0. /\ Moving /\ card \in [Run -> {"none", "open", "closed"}]
      /\ sweep.todo \subseteq Snapshot /\ (sweep.verdict # "none" => sweep.now \in Snapshot)
      /\ \A s \in Snapshot : s.run \in Run
  BY RowTypes, EffectMoves DEF TypeInv, TypeOK, LadderTypeOK, Sweep, Judging, Snapshot
<1>1. \A q \in Run : Ended(state[q]) => Ended(state'[q])
  BY <1>0, EndedStays
<1>2. ASSUME sweep.at = "crashed", NEW s \in sweep.todo
      PROVE  /\ Ended(state'[s.run]) /\ card'[s.run] = "none"
             /\ \A t \in sweep.todo : s.run = t.run => s = t
             /\ sweep.verdict # "none" => s.run # sweep.now.run
  <2>1. /\ s.run \in Run /\ Ended(state[s.run]) /\ card[s.run] = "none"
        /\ \A t \in sweep.todo : s.run = t.run => s = t
        /\ sweep.verdict # "none" => s.run # sweep.now.run
    BY <1>0, <1>2 DEF Lineage, ListIsEnded, DecidedOnce
  <2>2. CASE CardsTurn \/ UNCHANGED card
    BY <1>1, <2>1, <2>2 DEF CardsTurn
  <2>3. ASSUME NEW r \in Run, Decides(r), CardOpens(r) PROVE card'[s.run] = "none"
    <3>1. r # s.run
      BY <2>1, <2>3 DEF Decides
    <3> QED
      BY <1>0, <2>1, <2>3, <3>1 DEF CardOpens
  <2> QED
    BY <1>1, <2>1, <2>2, <2>3 DEF Effect
<1>3. CASE UNCHANGED sweep
  <2>1. ~\E r \in Run : Decides(r)
    BY <1>3 DEF Decides, Decided, IdleSweep
  <2>2. CardsTurn
    BY <2>1 DEF Effect, CardsTurn
  <2>3. ASSUME sweep.at = "crashed", sweep.verdict # "none"
        PROVE  Ended(state'[sweep.now.run]) /\ card'[sweep.now.run] = "none"
    BY <1>0, <1>1, <2>2, <2>3 DEF Lineage, ListIsEnded, DecidedOnce, CardsTurn
  <2> QED
    BY <1>2, <1>3, <2>3 DEF ListIsEnded, DecidedOnce
<1>4. CASE sweep'.at # "crashed"
  BY <1>4 DEF ListIsEnded, DecidedOnce
<1>5. CASE Decided
  <2>1. sweep'.at = sweep.at /\ sweep'.todo = sweep.todo /\ sweep'.verdict = "none"
    BY <1>5 DEF Decided, IdleSweep
  <2> QED
    BY <1>2, <2>1 DEF ListIsEnded, DecidedOnce
<1>6. CASE SweepListCrashed
  <2> DEFINE todo == { Snap(r) : r \in { q \in Run : state[q] = "crashed" } }
  <2>1. sweep' = [IdleSweep EXCEPT !.at = "crashed", !.todo = todo] /\ UNCHANGED store
    BY <1>6 DEF SweepListCrashed
  <2>2. sweep'.todo = todo /\ sweep'.verdict = "none"
    BY <2>1 DEF IdleSweep
  <2>3. \A s \in todo : s.run \in Run /\ state[s.run] = "crashed" /\ s = Snap(s.run)
    BY DEF Snap
  <2>4. ~IsTerminal("crashed") /\ Ended("crashed")
    BY Terminals DEF Terminal, Ended
  <2>5. \A s \in todo : Ended(state'[s.run]) /\ card'[s.run] = "none"
    BY <2>1, <2>3, <2>4 DEF Lineage, CardsEnd, store
  <2>6. \A s, t \in todo : s.run = t.run => s = t
    BY <2>3
  <2> HIDE DEF todo
  <2> QED
    BY <2>2, <2>5, <2>6 DEF ListIsEnded, DecidedOnce
<1>7. ASSUME NEW s \in sweep.todo, SweepReadCrashed(s) PROVE ListIsEnded' /\ DecidedOnce'
  <2>1. sweep.at = "crashed"
    BY <1>7 DEF SweepReadCrashed
  <2>2. sweep'.todo = sweep.todo \ {s} /\ sweep'.now = s
    BY <1>0, <1>7 DEF SweepReadCrashed, TypeInv, TypeOK, LadderTypeOK, Sweep
  <2> QED
    BY <1>2, <2>1, <2>2 DEF ListIsEnded, DecidedOnce
<1> QED
  BY <1>3, <1>4, <1>5, <1>6, <1>7 DEF SweepMoves

LEMMA LineageInductive == TypeInv /\ Lineage /\ [Next]_vars => Lineage'
<1> SUFFICES ASSUME TypeInv, Lineage, [Next]_vars PROVE Lineage'
  OBVIOUS
<1>1. TypeInv' /\ Effect /\ SweepMoves
  BY TypeInductive, StepEffect, StepSweeps
<1> QED
  BY <1>1, LegsInductive, CardsInductive, SuccessorInductive, ListInductive DEF Lineage

LEMMA LineageInitially == Init => Lineage
<1> SUFFICES ASSUME Init PROVE Lineage
  OBVIOUS
<1>1. \A c \in Run : origin[c].of = NoRun /\ card[c] = "none" /\ attempts[c] = 0
  BY DEF Init, StoreInit, Root0
<1>2. legs = {} /\ sweep.at = "idle"
  BY DEF Init, LegsInit, LadderInit, IdleSweep
<1> QED
  BY <1>1, <1>2, RunAssumption, AttemptsAssumption
  DEF Lineage, LegsKnow, ParentsEnded, ParentsFence, ListIsEnded, CardsEnd, OpenCardIsChildless,
      DecidedOnce, SingleSuccessor, AttemptsBounded, RunAssumption, AttemptsAssumption

LEMMA LineageAlways == Spec => [](TypeInv /\ Lineage)
  BY TypeInitially, TypeInductive, LineageInitially, LineageInductive, PTL DEF Spec

\* The takeover fence, for any number of runs and requests: a leg that outlives
\* its run's takeover is at an older generation, where AppendTx and
\* RenewLeaseTx refuse it.
THEOREM TakeoverFences == Spec => []SupersededIsFenced
<1>1. TypeInv /\ Lineage => SupersededIsFenced
  <2> SUFFICES ASSUME TypeInv, Lineage, NEW p \in Run, ChildrenOf(p) # {}, NEW l \in legs, Drives(l, p)
               PROVE  FALSE
    BY DEF SupersededIsFenced, Driven
  <2>1. PICK c \in Run : origin[c].of = p
    BY DEF ChildrenOf
  <2>2. l.run = p /\ l.gen = gen[p]
    BY DEF Drives
  <2>3. l.gen < gen[p] /\ gen[p] \in Nat
    BY <2>1, <2>2, RowTypes DEF Lineage, ParentsFence
  <2> QED
    BY <2>2, <2>3
<1> QED
  BY <1>1, LineageAlways, PTL

\* SuccessorOfTx and the dispatch id: no run is ever taken over twice, by the
\* ladder and a person together.
THEOREM TakenOverOnce == Spec => []OneSuccessor
<1>1. TypeInv /\ Lineage => OneSuccessor
  <2> SUFFICES ASSUME TypeInv, Lineage, NEW p \in Run PROVE Cardinality(ChildrenOf(p)) <= 1
    BY DEF OneSuccessor
  <2>1. CASE ChildrenOf(p) = {}
    BY <2>1, FS_EmptySet
  <2>2. CASE ChildrenOf(p) # {}
    <3>1. PICK c \in Run : origin[c].of = p
      BY <2>2 DEF ChildrenOf
    <3>2. ChildrenOf(p) = {c}
      BY <3>1 DEF ChildrenOf, Lineage, SingleSuccessor
    <3> QED
      BY <3>2, FS_Singleton
  <2> QED
    BY <2>1, <2>2
<1> QED
  BY <1>1, LineageAlways, PTL

\* recovery.max_attempts bounds every lineage between two human grants.
THEOREM BudgetHolds == Spec => []AttemptsBounded
<1>1. Lineage => AttemptsBounded
  BY DEF Lineage
<1> QED
  BY <1>1, LineageAlways, PTL

-----------------------------------------------------------------------------
(* Receipts.                                                                 *)

\* What a pass has listed as ended stays ended.
ListedAreTerminal == \A r \in pass.ended : IsTerminal(state[r])

\* A receipt is added only for a row read or listed as terminal, and a pass
\* lists only terminal rows.
LEMMA ReceiptEffect ==
  ASSUME TypeInv, [Next]_vars
  PROVE  /\ \A r \in receipts' \ receipts : IsTerminal(state[r]) \/ r \in pass.ended
         /\ \A r \in pass'.ended : IsTerminal(state[r]) \/ r \in pass.ended
<1>1. CASE UNCHANGED <<receipts, pass>>
  BY <1>1
<1>2. CASE LegActs
  <2>1. PICK l \in legs : LegStep(l)
    BY <1>2 DEF LegActs
  <2>2. UNCHANGED receipts \/ LegSettle(l)
    BY <2>1 DEF LegStep, LegBeat, LegStart, LegProgress, LegFail, LegUnwind, LegFileCrash,
                LegComplete, LegGate, LegPausePark, store
  <2>3. UNCHANGED receipts \/ (IsTerminal(state[l.run]) /\ receipts' = receipts \cup {l.run})
    BY <2>2 DEF LegSettle, SettleTerminal
  <2> QED
    BY <1>2, <2>3 DEF LegActs, claimVars
<1>3. CASE ClaimActs
  <2>1. \/ UNCHANGED <<receipts, pass>>
        \/ UNCHANGED receipts /\ pass'.ended \subseteq pass.ended
        \/ PassStart \/ ListEndedRows \/ ReadCandidates \/ PassEnd
        \/ \E r \in Run : SettleEndedRow(r) \/ Claim(r) \/ ClaimLost(r) \/ MaterializeOrphan(r)
    BY <1>3 DEF ClaimActs, PassStep, Create, Enqueue
  <2>2. PassStart \/ ReadCandidates \/ PassEnd => UNCHANGED receipts /\ pass'.ended = {}
    <3>1. PassStart => UNCHANGED receipts /\ pass'.ended = {}
      <4> DEFINE unqueued == { r \in Run : state[r] = "queued" } \ ActiveRows
      <4>1. PassStart => pass' = [IdlePass EXCEPT !.at = "materialize", !.todo = unqueued]
        BY DEF PassStart
      <4> HIDE DEF unqueued
      <4>2. [IdlePass EXCEPT !.at = "materialize", !.todo = unqueued].ended = {}
        BY DEF IdlePass
      <4> QED
        BY <4>1, <4>2 DEF PassStart, store
    <3>2. ReadCandidates => UNCHANGED receipts /\ pass'.ended = {}
      <4> DEFINE candidates == { r \in Run : queue[r] = "queued" /\ state[r] = "queued" }
                 occupied == Cardinality(OccupiedRuns)
      <4>1. ReadCandidates => pass' = [at |-> "claim", ended |-> {}, todo |-> candidates, active |-> occupied]
        BY DEF ReadCandidates
      <4> HIDE DEF candidates, occupied
      <4> QED
        BY <4>1 DEF ReadCandidates, store
    <3>3. PassEnd => UNCHANGED receipts /\ pass'.ended = {}
      BY DEF PassEnd, IdlePass, store
    <3> QED
      BY <3>1, <3>2, <3>3
  <2>3. ASSUME ListEndedRows
        PROVE  UNCHANGED receipts /\ \A r \in pass'.ended : IsTerminal(state[r])
    BY <2>3 DEF ListEndedRows, store, TypeInv, TypeOK, ClaimTypeOK, Pass
  <2>4. ASSUME NEW r \in Run, SettleEndedRow(r)
        PROVE  receipts' \subseteq receipts \cup pass.ended /\ pass'.ended = pass.ended
    BY <2>4 DEF SettleEndedRow, Next1, TypeInv, TypeOK, ClaimTypeOK, Pass
  <2>5. ASSUME NEW r \in Run, Claim(r) \/ ClaimLost(r) \/ MaterializeOrphan(r)
        PROVE  UNCHANGED receipts /\ pass'.ended \subseteq pass.ended
    <3>1. pass \in Pass
      BY DEF TypeInv, TypeOK, ClaimTypeOK
    <3>2. Next1(r) => pass'.ended = pass.ended
      BY <3>1 DEF Next1, Pass
    <3>3. Claim(r) => UNCHANGED receipts /\ pass'.ended = pass.ended
      BY <3>1 DEF Claim, Pass
    <3>4. ClaimLost(r) => UNCHANGED receipts /\ (Next1(r) \/ pass' = IdlePass)
      BY DEF ClaimLost, store
    <3>5. MaterializeOrphan(r) => UNCHANGED receipts /\ Next1(r)
      BY DEF MaterializeOrphan
    <3> QED
      BY <2>5, <3>2, <3>3, <3>4, <3>5 DEF IdlePass
  <2> QED
    BY <2>1, <2>2, <2>3, <2>4, <2>5
<1>4. CASE VerbActs
  <2>1. VerbFollows /\ UNCHANGED pass
    BY <1>4 DEF VerbActs, claimVars
  <2>2. UNCHANGED receipts \/ CancelSettle
    BY <2>1 DEF VerbFollows, CancelStep, CancelApply, CancelEnd, CancelRead, ResumeApply, ResumeBeat,
                RetryApply, RetryAdmit, store
  <2>3. UNCHANGED receipts \/ (IsTerminal(state[verb.run]) /\ receipts' = receipts \cup {verb.run})
    BY <2>2 DEF CancelSettle, SettleTerminal
  <2> QED
    BY <2>1, <2>3
<1>5. CASE ProcessCrash
  BY <1>5 DEF ProcessCrash, IdlePass, store
<1>6. CASE LadderActs \/ AnswerActs \/ VerbRequests \/ ParkActs \/ Nap \/ UNCHANGED vars
           \/ \E r \in Run : Lapse(r) \/ GoSilent(r)
  <2>1. UNCHANGED pass
    BY <1>6 DEF LadderActs, AnswerActs, VerbRequests, ParkActs, Nap, Lapse, GoSilent, vars, claimVars
  <2>2. UNCHANGED receipts
    BY <1>6 DEF LadderActs, AnswerActs, VerbRequests, ParkActs, Nap, Lapse, GoSilent, vars,
                SweepStep, SweepStart, SweepClassify, SweepHarvest, SweepFlagWedged, SweepCrashAndBound,
                SweepListCrashed, SweepReadCrashed, SweepBoundCrashed, SweepEnd,
                AnswerGate, VerbStarts, CancelRun, LadderCancel, ResumeRead, RetryRead,
                ParkInFlight, ParkAndFlag, store
  <2> QED
    BY <2>1, <2>2
<1> QED
  BY <1>1, <1>2, <1>3, <1>4, <1>5, <1>6 DEF Next, TimeActs

\* Whoever settles, from whatever list: a receipt is only ever materialized for
\* a run that has ended, and such a run never moves again.
THEOREM ReceiptsAssertTheEnd == Spec => []ReceiptsAreFinal
<1> DEFINE Settled == ReceiptsAreFinal /\ ListedAreTerminal
<1>1. Init => Settled
  BY DEF Init, StoreInit, ClaimInit, IdlePass, ReceiptsAreFinal, ListedAreTerminal
<1>2. TypeInv /\ Lineage /\ Settled /\ [Next]_vars => Settled'
  <2> SUFFICES ASSUME TypeInv, Lineage, Settled, [Next]_vars PROVE Settled'
    OBVIOUS
  <2>1. Moving /\ TypeInv'
    BY StepEffect, EffectMoves, TypeInductive
  <2>2. receipts' \subseteq Run /\ pass'.ended \subseteq Run
    BY <2>1 DEF TypeInv, TypeOK, StoreTypeOK, ClaimTypeOK, Pass
  <2>3. \A r \in receipts' \cup pass'.ended : IsTerminal(state[r])
    BY ReceiptEffect DEF ReceiptsAreFinal, ListedAreTerminal
  <2>4. \A r \in receipts' \cup pass'.ended : IsTerminal(state'[r])
    BY <2>1, <2>2, <2>3, TerminalStays
  <2> QED
    BY <2>4 DEF ReceiptsAreFinal, ListedAreTerminal
<1> QED
  BY <1>1, <1>2, LineageAlways, PTL DEF Spec

-----------------------------------------------------------------------------
(* What one step does to the rows, the asks and the legs.                    *)

\* The generation stays, a park stays a park, and nobody starts a claimed row.
HeldRow(r) == /\ gen'[r] = gen[r]
              /\ state[r] = "parked" => state'[r] = "parked"
              /\ state[r] = "claimed" => state'[r] # "running"

Released(r)  == state[r] = "parked" /\ gen'[r] = gen[r] + 1 /\ Transition(r, "running")
Started(r)   == \E l \in legs : /\ l.run = r /\ l.pc = "claimed" /\ gen'[r] = gen[r]
                                /\ state[r] = "claimed" /\ LegAt(l, "working")
Cancelled(r) == CancelApply /\ verb.run = r /\ gen'[r] = gen[r] /\ state'[r] # "running"

RowShift == \A r \in Run : \/ HeldRow(r) \/ state[r] = "absent"
                           \/ state[r] # "parked" /\ Ended(state'[r])
                           \/ Started(r) \/ Cancelled(r)
                           \/ Released(r) /\ (AnswerGate(r) \/ (ResumeApply /\ verb.run = r))

\* An ask opens only with its park, by the leg that parks.
Asked(r) == /\ state[r] # "parked" /\ state'[r] = "parked"
            /\ \E l \in legs : l.run = r /\ l.pc = "working" /\ LegReturns(l)

AskShift == \A r \in Run : ask'[r] = ask[r] \/ ask'[r] = "closed" \/ Asked(r)

\* A leg goes on, ends, or takes over a waiting row: a claim or an answer.
Claimed(r)  == /\ Claim(r) /\ state[r] = "queued" /\ state'[r] = "claimed" /\ gen'[r] = gen[r]
               /\ legs' = legs \cup {[run |-> r, gen |-> gen[r], by |-> "dispatch", pc |-> "claimed"]}
Answered(r) == /\ AnswerGate(r) /\ Released(r) /\ ask[r] = "open"
               /\ legs' = legs \cup {[run |-> r, gen |-> gen[r] + 1, by |-> "answer", pc |-> "working"]}

LegShift == \/ legs' \subseteq legs
            \/ \E l \in legs, pc \in {"working", "unwinding", "filing", "ended"} :
                 l.pc # "ended" /\ LegAt(l, pc)
            \/ \E r \in Run : Claimed(r) \/ Answered(r)

Shift == RowShift /\ AskShift /\ LegShift

LEMMA NothingHeld ==
  ASSUME UNCHANGED <<state, gen>>
  PROVE  RowShift
  BY DEF RowShift, HeldRow

LEMMA TransitionHolds ==
  ASSUME StoreTypeOK, NEW r \in Run, NEW to \in {"queued", "claimed", "crashed", "completed", "parked"},
         Transition(r, to)
  PROVE  \A q \in Run : HeldRow(q)
<1>1. CanTransition(state[r], to) /\ state' = [state EXCEPT ![r] = to]
  BY DEF Transition
<1>2. gen' = gen
  BY DEF Transition, GenerationAfter, Bumps, StoreTypeOK
<1>3. state[r] = "parked" => FALSE
  BY <1>1, EdgeTable DEF CanTransition
<1> QED
  BY <1>1, <1>2, <1>3 DEF HeldRow, StoreTypeOK

\* A claimed leg finds its run claimed or ended, and is alone with it.
FreshLegs == \A l, m \in legs : l.pc = "claimed" =>
                 /\ state[l.run] = "claimed" \/ Ended(state[l.run])
                 /\ (m.pc = "claimed" /\ m.run = l.run) => m = l

LEMMA LegShifts ==
  ASSUME StoreTypeOK, LegsTypeOK, FreshLegs, NEW l \in legs, LegStep(l)
  PROVE  Shift
<1>0. l.run \in Run /\ l \in Leg
  BY DEF LegsTypeOK, Leg
<1>1. ASSUME UNCHANGED ask PROVE AskShift
  BY <1>1 DEF AskShift
<1>2. ASSUME legs' \subseteq legs PROVE LegShift
  BY <1>2 DEF LegShift
<1>3. ASSUME l.pc # "ended", NEW pc \in {"working", "unwinding", "filing", "ended"},
             LegAt(l, pc) \/ LegReturns(l)
      PROVE  LegShift
  BY <1>3 DEF LegShift, LegReturns
<1>4. CASE LegBeat(l)
  BY <1>1, <1>2, <1>4, NothingHeld DEF LegBeat, cards, legVars, Shift
<1>5. CASE LegStart(l)
  <2>1. AskShift /\ LegShift
    BY <1>1, <1>3, <1>5 DEF LegStart, cards
  <2>2. CASE UNCHANGED <<state, gen>>
    BY <2>1, <2>2, NothingHeld DEF Shift
  <2>3. CASE CanTransition(state[l.run], "running") /\ Transition(l.run, "running") /\ LegAt(l, "working")
    <3>1. state[l.run] = "claimed"
      <4>1. state[l.run] = "claimed" \/ Ended(state[l.run])
        BY <1>5 DEF FreshLegs, LegStart
      <4>2. state[l.run] \in {"claimed", "parked"}
        BY <2>3, EdgeTable DEF CanTransition, State
      <4> QED
        BY <4>1, <4>2, Terminals DEF Ended, Terminal
    <3>2. gen' = gen /\ state' = [state EXCEPT ![l.run] = "running"]
      BY <2>3, <3>1 DEF Transition, GenerationAfter, Bumps, StoreTypeOK
    <3>3. Started(l.run)
      BY <1>5, <2>3, <3>1, <3>2 DEF Started, LegStart
    <3>4. \A q \in Run \ {l.run} : HeldRow(q)
      BY <3>2 DEF HeldRow, StoreTypeOK
    <3> QED
      BY <2>1, <3>3, <3>4 DEF Shift, RowShift
  <2> QED
    BY <1>5, <2>2, <2>3 DEF LegStart
<1>6. CASE LegProgress(l) \/ LegFail(l)
  BY <1>1, <1>2, <1>3, <1>6, NothingHeld DEF LegProgress, LegFail, runRow, cards, store, Shift
<1>7. CASE LegUnwind(l)
  BY <1>1, <1>2, <1>3, <1>7, NothingHeld DEF LegUnwind, store, Shift
<1>8. CASE LegFileCrash(l)
  <2>1. AskShift /\ LegShift
    BY <1>1, <1>3, <1>8 DEF LegFileCrash, cards
  <2> QED
    BY <1>0, <1>8, <2>1, NothingHeld, TransitionHolds DEF LegFileCrash, Shift, RowShift
<1>9. CASE LegComplete(l)
  <2>1. AskShift /\ LegShift
    BY <1>1, <1>3, <1>9 DEF LegComplete, cards
  <2> QED
    BY <1>0, <1>9, <2>1, NothingHeld, TransitionHolds DEF LegComplete, Shift, RowShift
<1>10. CASE LegGate(l)
  <2>1. RowShift
    BY <1>0, <1>10, NothingHeld, TransitionHolds DEF LegGate, RowShift
  <2>2. LegShift
    BY <1>3, <1>10 DEF LegGate
  <2>3. CASE Transition(l.run, "parked") /\ ask' = [ask EXCEPT ![l.run] = "open"] /\ LegReturns(l)
    <3>1. state[l.run] # "parked" /\ state'[l.run] = "parked"
      BY <1>0, <2>3, EdgeTable DEF Transition, CanTransition, StoreTypeOK
    <3>2. Asked(l.run)
      BY <1>10, <2>3, <3>1 DEF Asked, LegGate
    <3> QED
      BY <2>1, <2>2, <2>3, <3>2 DEF Shift, AskShift, StoreTypeOK
  <2> QED
    BY <1>1, <1>10, <2>1, <2>2, <2>3 DEF LegGate, Shift
<1>11. CASE LegPausePark(l)
  <2>1. AskShift /\ LegShift
    BY <1>1, <1>3, <1>11 DEF LegPausePark, cards
  <2> QED
    BY <1>0, <1>11, <2>1, TransitionHolds DEF LegPausePark, Shift, RowShift
<1>12. CASE LegSettle(l)
  BY <1>1, <1>2, <1>12, NothingHeld DEF LegSettle, runRow, cards, Shift
<1> QED
  BY <1>4, <1>5, <1>6, <1>7, <1>8, <1>9, <1>10, <1>11, <1>12 DEF LegStep

LEMMA ClaimShifts ==
  ASSUME StoreTypeOK, ClaimStep
  PROVE  Shift
<1>1. UNCHANGED ask
  BY DEF ClaimStep, PassStep, PassStart, ListEndedRows, ReadCandidates, PassEnd, MaterializeOrphan,
         SettleEndedRow, Claim, ClaimLost, Create, Enqueue, store, cards
<1>2. AskShift
  BY <1>1 DEF AskShift
<1>3. ASSUME UNCHANGED legs PROVE LegShift
  BY <1>3 DEF LegShift
<1>4. CASE UNCHANGED <<state, gen, legs>>
  BY <1>2, <1>3, <1>4, NothingHeld DEF Shift
<1>5. ASSUME NEW r \in Run, Create(r) PROVE Shift
  <2>1. RowShift
    BY <1>5 DEF Create, RowShift, HeldRow, StoreTypeOK
  <2> QED
    BY <1>2, <1>3, <1>5, <2>1 DEF Create, legVars, Shift
<1>6. ASSUME NEW r \in Run, Enqueue(r) PROVE Shift
  <2>1. RowShift
    BY <1>6, NothingHeld, TransitionHolds DEF Enqueue, RowShift
  <2> QED
    BY <1>2, <1>3, <1>6, <2>1 DEF Enqueue, legVars, Shift
<1>7. ASSUME NEW r \in Run, Claim(r) PROVE Shift
  <2>1. Transition(r, "claimed") /\ CanTransition(state[r], "claimed")
    BY <1>7 DEF Claim
  <2>2. state[r] = "queued" /\ state'[r] = "claimed" /\ gen'[r] = gen[r]
    BY <2>1, EdgeTable DEF Transition, CanTransition, State, StoreTypeOK, GenerationAfter, Bumps
  <2>3. Claimed(r)
    BY <1>7, <2>2 DEF Claimed, Claim
  <2> QED
    BY <1>2, <2>1, <2>3, TransitionHolds DEF Shift, LegShift, RowShift
<1> QED
  BY <1>4, <1>5, <1>6, <1>7
  DEF ClaimStep, PassStep, PassStart, ListEndedRows, ReadCandidates, PassEnd, MaterializeOrphan,
      SettleEndedRow, ClaimLost, store, runRow, legVars

\* A request to resume holds on to a park that has no open ask.
ResumeWaits == verb.at = "resume" => state[verb.run] = "parked" /\ ask[verb.run] # "open"

LEMMA VerbShifts ==
  ASSUME TypeInv, Lineage, ResumeWaits, VerbActs \/ AnswerActs \/ VerbRequests
  PROVE  Shift
<1>0. /\ StoreTypeOK
      /\ verb.at \in {"apply", "settle", "resume", "beat", "retry", "kanban"} => verb.run \in Run
  BY DEF TypeInv, TypeOK, Addressed
<1>1. ASSUME UNCHANGED ask PROVE AskShift
  BY <1>1 DEF AskShift
<1>2. ASSUME UNCHANGED legs PROVE LegShift
  BY <1>2 DEF LegShift
<1>3. CASE CancelApply
  <2> DEFINE r == verb.run
  <2>0. r \in Run
    BY <1>0, <1>3 DEF CancelApply
  <2>1. LegShift
    BY <1>2, <1>3 DEF CancelApply
  <2>2. AskShift
    BY <1>0, <1>3 DEF CancelApply, AskShift, StoreTypeOK
  <2>3. CASE Transition(r, CancelTo(verb.seen))
    <3>1. CancelTo(verb.seen) \in {"completed", "finalized"}
      BY DEF CancelTo
    <3>2. gen' = gen /\ \A q \in Run \ {r} : state'[q] = state[q]
      BY <1>0, <2>0, <2>3, <3>1 DEF Transition, GenerationAfter, Bumps, StoreTypeOK
    <3>3. \A q \in Run \ {r} : HeldRow(q)
      BY <3>2 DEF HeldRow
    <3>4. state'[r] # "running"
      BY <1>0, <2>0, <2>3, <3>1 DEF Transition, StoreTypeOK
    <3>5. Cancelled(r)
      BY <1>3, <3>2, <3>4 DEF Cancelled
    <3> QED
      BY <2>1, <2>2, <3>3, <3>5 DEF Shift, RowShift
  <2>4. CASE UNCHANGED <<state, gen>>
    BY <2>1, <2>2, <2>4, NothingHeld DEF Shift
  <2> QED
    BY <1>3, <2>3, <2>4 DEF CancelApply
<1>4. CASE ResumeApply
  <2> DEFINE r == verb.run
  <2>0. r \in Run
    BY <1>0, <1>4 DEF ResumeApply
  <2>1. LegShift /\ AskShift
    BY <1>1, <1>2, <1>4 DEF ResumeApply, legVars, cards
  <2>2. CASE Transition(r, "running")
    <3>1. state[r] = "parked"
      BY <1>4 DEF ResumeApply, ResumeWaits
    <3>2. gen'[r] = gen[r] + 1 /\ \A q \in Run \ {r} : HeldRow(q)
      BY <1>0, <2>0, <2>2, <3>1 DEF Transition, GenerationAfter, Bumps, HeldRow, StoreTypeOK
    <3>3. Released(r)
      BY <2>2, <3>1, <3>2 DEF Released
    <3> QED
      BY <1>4, <2>1, <3>2, <3>3 DEF Shift, RowShift
  <2>3. CASE UNCHANGED <<state, gen>>
    BY <2>1, <2>3, NothingHeld DEF Shift
  <2> QED
    BY <1>4, <2>2, <2>3 DEF ResumeApply
<1>5. ASSUME NEW r \in Run, AnswerGate(r) PROVE Shift
  <2>0. AskShift
    BY <1>0, <1>5 DEF AnswerGate, AskShift, StoreTypeOK
  <2>1. CASE state[r] = "parked"
    <3>1. /\ Transition(r, "running") /\ ask[r] = "open"
          /\ legs' = legs \cup {[run |-> r, gen |-> gen[r] + 1, by |-> "answer", pc |-> "working"]}
      BY <1>5, <2>1 DEF AnswerGate
    <3>2. gen'[r] = gen[r] + 1 /\ \A q \in Run \ {r} : HeldRow(q)
      BY <1>0, <2>1, <3>1 DEF Transition, GenerationAfter, Bumps, HeldRow, StoreTypeOK
    <3>3. Released(r) /\ Answered(r)
      BY <1>5, <2>1, <3>1, <3>2 DEF Released, Answered
    <3> QED
      BY <1>5, <2>0, <3>2, <3>3 DEF Shift, RowShift, LegShift
  <2>2. CASE state[r] # "parked"
    BY <1>2, <1>5, <2>0, <2>2, NothingHeld DEF AnswerGate, Shift
  <2> QED
    BY <2>1, <2>2
<1>6. CASE RetryApply
  <2> DEFINE r == verb.run
  <2>0. r \in Run /\ UNCHANGED <<ask, legs>>
    BY <1>0, <1>6 DEF RetryApply, legVars
  <2>1. CASE UNCHANGED <<state, gen>>
    BY <1>1, <1>2, <2>0, <2>1, NothingHeld DEF Shift
  <2>2. ASSUME card[r] = "open", NEW s \in Run, state[s] = "absent",
               state' = [state EXCEPT ![s] = "queued"], Birth(s, r, gen[r] + 1, "answer", 0)
        PROVE  Shift
    <3>1. IsTerminal(state[r])
      BY <2>0, <2>2 DEF Lineage, CardsEnd
    <3>2. state[r] # "parked" /\ state'[r] = state[r] /\ Ended(state[r])
      BY <1>0, <2>0, <2>2, <3>1, Terminals DEF StoreTypeOK, Ended, Terminal
    <3>3. \A q \in Run \ {r, s} : HeldRow(q)
      BY <1>0, <2>2 DEF Birth, HeldRow, StoreTypeOK
    <3> QED
      BY <1>1, <1>2, <2>0, <2>2, <3>2, <3>3 DEF Shift, RowShift
  <2> QED
    BY <1>6, <2>1, <2>2 DEF RetryApply
<1>7. CASE UNCHANGED <<state, gen, ask, legs>>
  BY <1>1, <1>2, <1>7, NothingHeld DEF Shift
<1> QED
  BY <1>3, <1>4, <1>5, <1>6, <1>7
  DEF VerbActs, AnswerActs, VerbRequests, VerbFollows, CancelStep, VerbStarts, CancelSettle, CancelRead,
      CancelEnd, ResumeBeat, RetryAdmit, CancelRun, LadderCancel, ResumeRead, RetryRead,
      store, runRow, cards, legVars

LEMMA ParkShifts ==
  ASSUME StoreTypeOK, ParkActs
  PROVE  Shift
<1>1. UNCHANGED <<ask, legs>>
  BY DEF ParkActs, ParkInFlight, ParkAndFlag, cards, legVars
<1>2. RowShift
  BY NothingHeld, TransitionHolds DEF ParkActs, ParkInFlight, ParkAndFlag, RowShift
<1> QED
  BY <1>1, <1>2 DEF Shift, AskShift, LegShift

LEMMA TimeShifts ==
  ASSUME TimeActs
  PROVE  Shift
<1>1. UNCHANGED <<state, gen, ask>> /\ legs' \subseteq legs
  BY DEF TimeActs, Nap, ProcessCrash, Lapse, GoSilent, store, runRow, cards, legVars
<1> QED
  BY <1>1, NothingHeld DEF Shift, AskShift, LegShift

LEMMA BoundShifts ==
  ASSUME StoreTypeOK, NEW r \in Run, NEW g \in Nat, NEW from, NEW age, Bound(r, g, from, age),
         Ended(from), state[r] # "parked"
  PROVE  RowShift
<1>1. CASE CanTransition(from, EndState(r, age)) /\ EndWithCard(r, EndState(r, age))
  <2> DEFINE to == EndState(r, age)
  <2>1. Ended(to)
    BY Terminals DEF EndState, Terminal, Ended
  <2>2. state' = [state EXCEPT ![r] = to] /\ UNCHANGED gen
    BY <1>1 DEF EndWithCard
  <2> HIDE DEF to
  <2> QED
    BY <2>1, <2>2 DEF RowShift, HeldRow, StoreTypeOK
<1>2. CASE UNCHANGED <<state, gen>>
  BY <1>2, NothingHeld
<1>3. CASE Fork(r, g, from)
  <2>1. CASE state' = [state EXCEPT ![r] = from] /\ UNCHANGED gen
    BY <2>1 DEF RowShift, HeldRow, StoreTypeOK
  <2>2. ASSUME NEW s \in Run \ Root, state[s] = "absent", state' = [state EXCEPT ![r] = from, ![s] = "queued"],
               Birth(s, r, g + 1, "interruption", attempts[r] + 1)
        PROVE  RowShift
    <3>1. CASE s = r
      <4>1. \A q \in Run \ {r} : HeldRow(q)
        BY <2>2, <3>1 DEF Birth, HeldRow, StoreTypeOK
      <4> QED
        BY <2>2, <3>1, <4>1 DEF RowShift
    <3>2. CASE s # r
      <4>1. \A q \in Run \ {r, s} : HeldRow(q)
        BY <2>2 DEF Birth, HeldRow, StoreTypeOK
      <4>2. state'[r] = from
        BY <2>2, <3>2 DEF StoreTypeOK
      <4> QED
        BY <2>2, <4>1, <4>2 DEF RowShift
    <3> QED
      BY <3>1, <3>2
  <2> QED
    BY <1>3, <2>1, <2>2 DEF Fork
<1> QED
  BY <1>1, <1>2, <1>3 DEF Bound

LEMMA SweepShifts ==
  ASSUME TypeInv, Lineage, LadderActs
  PROVE  Shift
<1> DEFINE r == sweep.now.run
<1>0. /\ StoreTypeOK
      /\ sweep.verdict # "none" => r \in Run /\ sweep.now.gen \in Nat
      /\ SweepStep /\ UNCHANGED legs
  BY DEF TypeInv, TypeOK, Judging, Snapshot, LadderActs, legVars
<1>1. UNCHANGED ask
  BY <1>0 DEF SweepStep, SweepStart, SweepHarvest, SweepFlagWedged, SweepCrashAndBound, SweepListCrashed,
              SweepBoundCrashed, SweepEnd, SweepClassify, SweepReadCrashed, store, cards
<1>2. AskShift /\ LegShift
  BY <1>0, <1>1 DEF AskShift, LegShift
<1>3. CASE UNCHANGED <<state, gen>>
  BY <1>2, <1>3, NothingHeld DEF Shift
<1>4. CASE SweepHarvest
  BY <1>0, <1>2, <1>4, NothingHeld, TransitionHolds DEF SweepHarvest, Shift, RowShift
<1>5. CASE SweepCrashAndBound
  <2>1. r \in Run /\ gen[r] \in Nat
    BY <1>0, <1>5 DEF SweepCrashAndBound, StoreTypeOK
  <2>2. \/ CanTransition(state[r], "crashed") /\ Bound(r, gen[r], "crashed", sweep.age)
        \/ UNCHANGED <<state, gen>>
    BY <1>5 DEF SweepCrashAndBound
  <2> HIDE DEF r
  <2>3. CanTransition(state[r], "crashed") => state[r] # "parked"
    BY OnlyOccupiedCrash DEF Occupied
  <2>4. Ended("crashed")
    BY DEF Ended
  <2> QED
    BY <1>0, <1>2, <2>1, <2>2, <2>3, <2>4, BoundShifts, NothingHeld DEF Shift
<1>6. CASE SweepBoundCrashed
  <2>1. r \in Run /\ sweep.now.gen \in Nat /\ Ended(state[r])
    BY <1>0, <1>6 DEF SweepBoundCrashed, Lineage, ListIsEnded
  <2>2. Bound(r, sweep.now.gen, state[r], sweep.age) \/ UNCHANGED <<state, gen>>
    BY <1>6 DEF SweepBoundCrashed
  <2> HIDE DEF r
  <2>3. state[r] # "parked"
    BY <2>1, Terminals DEF Ended, Terminal
  <2> QED
    BY <1>0, <1>2, <2>1, <2>2, <2>3, BoundShifts, NothingHeld DEF Shift
<1> QED
  BY <1>0, <1>3, <1>4, <1>5, <1>6
  DEF SweepStep, SweepStart, SweepFlagWedged, SweepListCrashed, SweepEnd, SweepClassify,
      SweepReadCrashed, store, runRow

LEMMA StepShifts ==
  ASSUME TypeInv, Lineage, FreshLegs, ResumeWaits, [Next]_vars
  PROVE  Shift
<1> USE DEF TypeInv, TypeOK
<1>1. CASE ClaimActs
  BY <1>1, ClaimShifts DEF ClaimActs, ClaimStep
<1>2. CASE LegActs
  BY <1>2, LegShifts DEF LegActs
<1>3. CASE UNCHANGED vars
  BY <1>3, NothingHeld DEF vars, store, legVars, Shift, AskShift, LegShift
<1> QED
  BY <1>1, <1>2, <1>3, SweepShifts, VerbShifts, ParkShifts, TimeShifts DEF Next

-----------------------------------------------------------------------------
(* Legs, requests and the asks they leave.                                   *)

\* Only a run that was claimed has legs.
LegsStarted == \A l \in legs : state[l.run] \notin {"absent", "new", "queued"}

Handover == FreshLegs /\ LegsStarted /\ ResumeWaits

\* Once claimed, a row is never waiting again; a claimed row starts or ends.
LEMMA MovesOn ==
  ASSUME NEW s \in State \cup {"absent"}, NEW t, Move(s, t)
  PROVE  /\ s \notin {"absent", "new", "queued"} => t \notin {"absent", "new", "queued"}
         /\ s = "claimed" => t \in {"claimed", "running"} \/ Ended(t)
<1>1. CASE s \in {"absent", "new", "queued"}
  BY <1>1
<1>2. CASE s \notin {"absent", "new", "queued"}
  <2>1. ~CanTransition(s, "queued") /\ ~CanTransition(s, "new") /\ ~CanTransition(s, "absent")
    BY <1>2, EdgeTable DEF CanTransition, State
  <2>2. ~CanTransition("crashed", "queued") /\ ~CanTransition("crashed", "new") /\ ~CanTransition("crashed", "absent")
    BY EdgeTable DEF CanTransition, State
  <2>3. t \notin {"absent", "new", "queued"}
    BY <1>2, <2>1, <2>2 DEF Move
  <2>4. CanTransition("claimed", t) => t = "running" \/ Ended(t)
    BY EdgeTable DEF CanTransition, State, Ended
  <2>5. CanTransition("crashed", t) => Ended(t)
    BY CrashedOnlyEnds DEF Ended
  <2> QED
    BY <1>2, <2>3, <2>4, <2>5 DEF Move
<1> QED
  BY <1>1, <1>2

LEMMA StartedStays ==
  ASSUME TypeInv, Moving, NEW q \in Run, state[q] \notin {"absent", "new", "queued"}
  PROVE  state'[q] \notin {"absent", "new", "queued"}
  BY RowTypes, MovesOn DEF Moving

\* A waiting request to resume was just read, or nothing has touched the verb.
LEMMA ResumeIsHeld ==
  ASSUME VerbTypeOK, [Next]_vars, verb'.at = "resume"
  PROVE  /\ ~CancelApply /\ ~ResumeApply
         /\ UNCHANGED verb \/ \E r \in Run : ResumeRead(r) /\ verb'.run = r
<1>1. ASSUME NEW at, VerbAt(at), at # "resume" PROVE FALSE
  BY <1>1 DEF VerbAt, VerbTypeOK, Verb
<1>2. verb' # IdleVerb
  BY DEF IdleVerb
<1>3. ~CancelApply /\ ~ResumeApply /\ ~CancelSettle
  BY <1>1, <1>2 DEF CancelApply, ResumeApply, CancelSettle
<1>4. ~CancelEnd /\ ~ResumeBeat /\ ~RetryAdmit /\ ~ProcessCrash
  BY <1>2 DEF CancelEnd, ResumeBeat, RetryAdmit, ProcessCrash
<1>5. ~RetryApply /\ \A r \in verb.todo : ~CancelRead(r)
  BY <1>2 DEF RetryApply, CancelRead, VerbTypeOK, Verb
<1>6. ASSUME NEW r \in Run, VerbStarts(r) PROVE ResumeRead(r) /\ verb'.run = r
  BY <1>6 DEF VerbStarts, CancelRun, LadderCancel, RetryRead, ResumeRead, IdleVerb
<1>7. CASE VerbActs
  BY <1>3, <1>4, <1>5, <1>7 DEF VerbActs, VerbFollows, CancelStep
<1>8. CASE VerbRequests
  BY <1>3, <1>6, <1>8 DEF VerbRequests
<1>9. CASE UNCHANGED verb
  BY <1>3, <1>9
<1> QED
  BY <1>4, <1>7, <1>8, <1>9
  DEF Next, ClaimActs, LegActs, LadderActs, AnswerActs, AnswerGate, ParkActs, ParkInFlight,
      ParkAndFlag, TimeActs, Nap, Lapse, GoSilent, vars

LEMMA HandoverInductive ==
  ASSUME TypeInv, Lineage, Handover, [Next]_vars
  PROVE  Shift /\ Handover'
<1>0. Shift /\ Moving
  BY StepShifts, StepEffect, EffectMoves DEF Handover
<1>1. \A l \in legs : l.run \in Run /\ l \in Leg
  BY DEF TypeInv, TypeOK, LegsTypeOK, Leg
<1>2. LegsStarted'
  <2>1. CASE legs' \subseteq legs
    BY <1>0, <1>1, <2>1, StartedStays DEF Handover, LegsStarted
  <2>2. ASSUME NEW l \in legs, NEW pc, LegAt(l, pc) PROVE LegsStarted'
    <3>1. [l EXCEPT !.pc = pc].run = l.run
      BY <1>1 DEF Leg
    <3> QED
      BY <1>0, <1>1, <2>2, <3>1, StartedStays DEF Handover, LegsStarted, LegAt
  <2>3. ASSUME NEW r \in Run, Claimed(r) \/ Answered(r) PROVE LegsStarted'
    <3>1. state'[r] \in {"claimed", "running"}
      BY <2>3 DEF Claimed, Answered, Released, Transition, TypeInv, TypeOK, StoreTypeOK
    <3>2. \A k \in legs' : k \in legs \/ k.run = r
      BY <2>3 DEF Claimed, Answered
    <3> QED
      BY <1>0, <1>1, <3>1, <3>2, StartedStays DEF Handover, LegsStarted
  <2> QED
    BY <1>0, <2>1, <2>2, <2>3 DEF Shift, LegShift
<1>3. FreshLegs'
  <2>1. ASSUME NEW k \in legs', k.pc = "claimed", k \notin legs
        PROVE  \E r \in Run : /\ Claimed(r)
                              /\ k = [run |-> r, gen |-> gen[r], by |-> "dispatch", pc |-> "claimed"]
    <3>1. ASSUME NEW l \in legs, NEW pc \in {"working", "unwinding", "filing", "ended"}, LegAt(l, pc)
          PROVE  FALSE
      BY <1>1, <2>1, <3>1 DEF LegAt, Leg
    <3>2. ASSUME NEW r \in Run, Answered(r) PROVE FALSE
      BY <2>1, <3>2 DEF Answered
    <3>3. PICK r \in Run : Claimed(r)
      BY <1>0, <2>1, <3>1, <3>2 DEF Shift, LegShift
    <3> QED
      BY <2>1, <3>3 DEF Claimed
  <2>2. ASSUME NEW k \in legs', k.pc = "claimed"
        PROVE  state'[k.run] = "claimed" \/ Ended(state'[k.run])
    <3>1. CASE k \notin legs
      BY <2>1, <2>2, <3>1 DEF Claimed
    <3>2. CASE k \in legs
      <4> DEFINE r == k.run
      <4>1. r \in Run /\ (state[r] = "claimed" \/ Ended(state[r]))
        BY <1>1, <2>2, <3>2 DEF Handover, FreshLegs
      <4>2. CASE Ended(state[r])
        BY <1>0, <4>1, <4>2, EndedStays
      <4>3. CASE state[r] = "claimed"
        <5>1. state'[r] \in {"claimed", "running"} \/ Ended(state'[r])
          BY <1>0, <4>1, <4>3, RowTypes, MovesOn DEF Moving
        <5>2. ~Started(r)
          <6>1. ASSUME NEW l \in legs, l.run = r, l.pc = "claimed", LegAt(l, "working") PROVE FALSE
            <7>1. l = k
              BY <2>2, <3>2, <6>1 DEF Handover, FreshLegs
            <7>2. [l EXCEPT !.pc = "working"].pc = "working"
              BY <1>1 DEF Leg
            <7> QED
              BY <2>2, <6>1, <7>1, <7>2 DEF LegAt
          <6> QED
            BY <6>1 DEF Started
        <5> QED
          BY <1>0, <4>1, <4>3, <5>1, <5>2 DEF Shift, RowShift, HeldRow, Cancelled, Released
      <4> QED
        BY <4>1, <4>2, <4>3
    <3> QED
      BY <3>1, <3>2
  <2>3. ASSUME NEW k \in legs', NEW m \in legs', k.pc = "claimed", m.pc = "claimed", m.run = k.run
        PROVE  m = k
    <3>1. CASE k \in legs /\ m \in legs
      BY <2>3, <3>1 DEF Handover, FreshLegs
    <3>2. ASSUME NEW r \in Run, Claimed(r) PROVE \A l \in legs : l.run # r
      BY <3>2 DEF Claimed, Handover, LegsStarted
    <3> QED
      BY <2>1, <2>3, <3>1, <3>2
  <2> QED
    BY <2>2, <2>3 DEF FreshLegs
<1>4. ResumeWaits'
  <2> SUFFICES ASSUME verb'.at = "resume"
               PROVE  state'[verb'.run] = "parked" /\ ask'[verb'.run] # "open"
    BY DEF ResumeWaits
  <2>0. VerbTypeOK
    BY DEF TypeInv, TypeOK
  <2>1. ~CancelApply /\ ~ResumeApply
    BY <2>0, ResumeIsHeld
  <2>2. ASSUME NEW r \in Run, ResumeRead(r), verb'.run = r
        PROVE  state'[verb'.run] = "parked" /\ ask'[verb'.run] # "open"
    BY <2>2 DEF ResumeRead, store
  <2>3. CASE UNCHANGED verb
    <3> DEFINE r == verb.run
    <3>1. r \in Run /\ state[r] = "parked" /\ ask[r] # "open"
      BY <2>3 DEF TypeInv, Addressed, Handover, ResumeWaits
    <3>2. ~Released(r) \/ ~AnswerGate(r)
      BY <3>1 DEF AnswerGate
    <3>3. state'[r] = "parked"
      BY <1>0, <2>1, <3>1, <3>2 DEF Shift, RowShift, HeldRow, Started, Cancelled
    <3>4. ask'[r] # "open"
      BY <1>0, <3>1 DEF Shift, AskShift, Asked
    <3> QED
      BY <2>3, <3>3, <3>4
  <2> QED
    BY <2>0, <2>2, <2>3, ResumeIsHeld
<1> QED
  BY <1>0, <1>2, <1>3, <1>4 DEF Handover

LEMMA HandoverInitially == Init => Handover
  BY DEF Init, LegsInit, VerbInit, IdleVerb, Handover, FreshLegs, LegsStarted, ResumeWaits

LEMMA HandoverAlways == Spec => [](TypeInv /\ Lineage /\ Handover)
<1>1. TypeInv /\ Lineage /\ Handover /\ [Next]_vars => Handover'
  BY HandoverInductive
<1> QED
  BY <1>1, HandoverInitially, LineageAlways, PTL DEF Spec

\* Gates, answers, parks, resumes, sweeps and crashes together never leave the
\* open card of a run behind its park; the cancel that applies what it read of a
\* row that has moved since (stage/cancel.go) is the one step that does.
THEOREM OnlyRacesOrphanCards == Spec => OnlyRacesOrphan
<1> DEFINE Orphans == \A r \in Run : /\ ask'[r] = "open" /\ state'[r] # "parked"
                                     => \/ ask[r] = "open" /\ state[r] # "parked"
                                        \/ RacedCancel(r)
<1>1. TypeInv /\ Lineage /\ Handover /\ [Next]_vars => Orphans
  <2> SUFFICES ASSUME TypeInv, Lineage, Handover, [Next]_vars, NEW r \in Run,
                      ask'[r] = "open", state'[r] # "parked", ask[r] # "open" \/ state[r] = "parked"
               PROVE  RacedCancel(r)
    OBVIOUS
  <2>0. Shift /\ StoreTypeOK
    BY HandoverInductive DEF TypeInv, TypeOK
  <2>1. ask[r] = "open" /\ state[r] = "parked"
    BY <2>0 DEF Shift, AskShift, Asked
  <2>2. ~AnswerGate(r)
    BY <2>0 DEF AnswerGate, StoreTypeOK
  <2>3. ~(ResumeApply /\ verb.run = r)
    BY <2>1 DEF ResumeApply, Handover, ResumeWaits
  <2>4. Cancelled(r)
    BY <2>0, <2>1, <2>2, <2>3 DEF Shift, RowShift, HeldRow, Started
  <2>5. verb.seen # "parked"
    <3> SUFFICES ASSUME verb.seen = "parked" PROVE FALSE
      OBVIOUS
    <3>1. CancelApply /\ verb.run = r
      BY <2>4 DEF Cancelled
    <3>2. state'[r] # state[r]
      BY <2>1
    <3>3. ask' = [ask EXCEPT ![r] = "closed"]
      BY <2>1, <3>1, <3>2 DEF CancelApply
    <3> QED
      BY <2>0, <3>3 DEF StoreTypeOK
  <2> QED
    BY <2>1, <2>4, <2>5 DEF RacedCancel, Cancelled
<1>2. Orphans => [Orphans]_vars
  OBVIOUS
<1> QED
  BY <1>1, HandoverAlways, PTL DEF Spec, OnlyRacesOrphan

-----------------------------------------------------------------------------
(* The queue and the run table.                                              *)

\* What a pass has listed without a row still waits or was cancelled; what it
\* has listed as ended stays ended.
OrphansWait  == pass.at = "materialize" => \A r \in pass.todo : state[r] = "queued" \/ IsTerminal(state[r])
EndedRowsEnd == pass.at = "settle" => \A r \in pass.todo : Ended(state[r])

QueueInv == QueueAgrees /\ OrphansWait /\ EndedRowsEnd

\* One step of a run's row and of its queue row: only a claim claims; a row is
\* queued for a waiting run and done for an ended one.
Queued(r) == /\ queue'[r] = "queued" /\ queue[r] \notin {"queued", "claimed"}
             /\ \/ state'[r] = "queued"
                \/ pass.at = "materialize" /\ r \in pass.todo /\ state'[r] = state[r]
Done(r)   == /\ queue'[r] = "done"
             /\ \/ IsTerminal(state[r]) \/ IsTerminal(state'[r])
                \/ pass.at = "settle" /\ r \in pass.todo

QueueShift ==
    \A r \in Run : /\ state'[r] = "claimed" => state[r] = "claimed" \/ Claim(r)
                   /\ queue'[r] = queue[r] \/ Claim(r) \/ Queued(r) \/ Done(r)

\* What a pass lists is so when it lists it.
PassShift ==
    /\ pass'.at = "materialize" =>
         \A r \in pass'.todo : state'[r] = "queued" \/ (pass.at = "materialize" /\ r \in pass.todo)
    /\ pass'.at = "settle" =>
         \A r \in pass'.todo : Ended(state'[r]) \/ (pass.at = "settle" /\ r \in pass.todo)

LEMMA NothingClaimed ==
  ASSUME UNCHANGED <<state, queue>>
  PROVE  QueueShift
  BY DEF QueueShift

LEMMA TransitionClaimsNone ==
  ASSUME StoreTypeOK, NEW r \in Run, NEW to, to # "claimed", Transition(r, to)
  PROVE  \A q \in Run : state'[q] = "claimed" => state[q] = "claimed"
  BY DEF Transition, StoreTypeOK

LEMMA SettleIsDone ==
  ASSUME StoreTypeOK, NEW r \in Run, IsTerminal(state[r]), SettleTerminal(r)
  PROVE  \A q \in Run : queue'[q] = queue[q] \/ Done(q)
  BY DEF SettleTerminal, Done, StoreTypeOK

LEMMA MaterializeQueues ==
  ASSUME StoreTypeOK, NEW r \in Run, Materialize(r),
         state'[r] = "queued" \/ (pass.at = "materialize" /\ r \in pass.todo /\ state'[r] = state[r])
  PROVE  \A q \in Run : queue'[q] = queue[q] \/ Queued(q)
  BY DEF Materialize, Queued, StoreTypeOK

LEMMA LegQueues ==
  ASSUME StoreTypeOK, LegsTypeOK, NEW l \in legs, LegStep(l)
  PROVE  QueueShift
<1>0. l.run \in Run
  BY DEF LegsTypeOK, Leg
<1>1. CASE LegSettle(l)
  BY <1>0, <1>1, SettleIsDone DEF LegSettle, runRow, QueueShift
<1>2. CASE ~LegSettle(l)
  <2>1. UNCHANGED queue
    BY <1>2 DEF LegStep, LegBeat, LegStart, LegProgress, LegFail, LegUnwind, LegFileCrash, LegComplete,
                LegGate, LegPausePark, store
  <2>2. UNCHANGED state \/ \E to \in {"running", "crashed", "completed", "parked"} : Transition(l.run, to)
    BY <1>2 DEF LegStep, LegBeat, LegStart, LegProgress, LegFail, LegUnwind, LegFileCrash, LegComplete,
                LegGate, LegPausePark, store, runRow
  <2> QED
    BY <1>0, <2>1, <2>2, TransitionClaimsNone DEF QueueShift
<1> QED
  BY <1>1, <1>2

LEMMA ClaimQueues ==
  ASSUME StoreTypeOK, ClaimTypeOK, ClaimStep
  PROVE  QueueShift /\ PassShift
<1>0. pass \in Pass
  BY DEF ClaimTypeOK
<1>1. ASSUME UNCHANGED pass PROVE PassShift
  BY <1>1 DEF PassShift
<1>2. ASSUME NEW r \in Run, Next1(r) PROVE PassShift
  <2>1. pass'.at = pass.at /\ pass'.todo = pass.todo \ {r}
    BY <1>0, <1>2 DEF Next1, Pass
  <2> QED
    BY <2>1 DEF PassShift
<1>3. ASSUME NEW r \in Run, Create(r) PROVE QueueShift /\ PassShift
  BY <1>1, <1>3 DEF Create, QueueShift, StoreTypeOK
<1>4. ASSUME NEW r \in Run, Enqueue(r) PROVE QueueShift /\ PassShift
  <2>1. PassShift
    BY <1>1, <1>4 DEF Enqueue
  <2>2. CASE Transition(r, "queued") /\ Materialize(r)
    <3>1. state'[r] = "queued"
      BY <2>2 DEF Transition, StoreTypeOK
    <3> QED
      BY <2>1, <2>2, <3>1, TransitionClaimsNone, MaterializeQueues DEF QueueShift
  <2>3. CASE state[r] = "queued" /\ Materialize(r) /\ UNCHANGED state
    BY <2>1, <2>3, MaterializeQueues DEF QueueShift
  <2>4. CASE UNCHANGED <<state, queue>>
    BY <2>1, <2>4, NothingClaimed
  <2> QED
    BY <1>4, <2>2, <2>3, <2>4 DEF Enqueue
<1>5. CASE PassStart
  <2> DEFINE unqueued == { r \in Run : state[r] = "queued" } \ ActiveRows
  <2>1. pass' = [IdlePass EXCEPT !.at = "materialize", !.todo = unqueued] /\ UNCHANGED <<state, queue>>
    BY <1>5 DEF PassStart, store
  <2>2. \A r \in unqueued : state'[r] = "queued"
    BY <2>1
  <2> HIDE DEF unqueued
  <2>3. pass'.at = "materialize" /\ pass'.todo = unqueued
    BY <2>1 DEF IdlePass
  <2> QED
    BY <2>1, <2>2, <2>3, NothingClaimed DEF PassShift
<1>6. ASSUME NEW r \in Run, MaterializeOrphan(r) PROVE QueueShift /\ PassShift
  <2>1. UNCHANGED state
    BY <1>6 DEF MaterializeOrphan, runRow
  <2>2. \A q \in Run : queue'[q] = queue[q] \/ Queued(q)
    BY <1>6, <2>1, MaterializeQueues DEF MaterializeOrphan
  <2> QED
    BY <1>2, <1>6, <2>1, <2>2 DEF MaterializeOrphan, QueueShift
<1>7. CASE ListEndedRows
  <2> DEFINE ended == { r \in ActiveRows : Ended(state[r]) }
             over  == { r \in ended : IsTerminal(state[r]) }
  <2>1. pass' = [pass EXCEPT !.at = "settle", !.todo = ended, !.ended = over] /\ UNCHANGED <<state, queue>>
    BY <1>7 DEF ListEndedRows, store
  <2>2. \A r \in ended : Ended(state'[r])
    BY <2>1
  <2> HIDE DEF ended, over
  <2>3. pass'.at = "settle" /\ pass'.todo = ended
    BY <1>0, <2>1 DEF Pass
  <2> QED
    BY <2>1, <2>2, <2>3, NothingClaimed DEF PassShift
<1>8. ASSUME NEW r \in Run, SettleEndedRow(r) PROVE QueueShift /\ PassShift
  <2>1. PassShift /\ UNCHANGED state
    BY <1>2, <1>8 DEF SettleEndedRow, runRow
  <2>2. \A q \in Run : queue'[q] = queue[q] \/ Done(q)
    BY <1>8 DEF SettleEndedRow, Done, StoreTypeOK
  <2> QED
    BY <2>1, <2>2 DEF QueueShift
<1>9. CASE ReadCandidates
  <2> DEFINE candidates == { r \in Run : queue[r] = "queued" /\ state[r] = "queued" }
             occupied == Cardinality(OccupiedRuns)
  <2>1. pass' = [at |-> "claim", ended |-> {}, todo |-> candidates, active |-> occupied]
        /\ UNCHANGED <<state, queue>>
    BY <1>9 DEF ReadCandidates, store
  <2> HIDE DEF candidates, occupied
  <2>2. pass'.at = "claim"
    BY <2>1
  <2> QED
    BY <2>1, <2>2, NothingClaimed DEF PassShift
<1>10. ASSUME NEW r \in Run, Claim(r) PROVE QueueShift /\ PassShift
  <2>1. pass'.at = "claim"
    BY <1>0, <1>10 DEF Claim, Pass
  <2>2. /\ state' = [state EXCEPT ![r] = "claimed"]
        /\ queue' = [queue EXCEPT ![r] = "claimed"]
    BY <1>10 DEF Claim, Transition
  <2> QED
    BY <1>10, <2>1, <2>2 DEF QueueShift, PassShift, StoreTypeOK
<1>11. ASSUME NEW r \in Run, ClaimLost(r) PROVE QueueShift /\ PassShift
  <2>1. PassShift
    BY <1>2, <1>11 DEF ClaimLost, IdlePass, PassShift
  <2> QED
    BY <1>11, <2>1, NothingClaimed DEF ClaimLost, store
<1>12. CASE PassEnd
  BY <1>12, NothingClaimed DEF PassEnd, IdlePass, PassShift, store
<1> QED
  BY <1>3, <1>4, <1>5, <1>6, <1>7, <1>8, <1>9, <1>10, <1>11, <1>12 DEF ClaimStep, PassStep

LEMMA VerbQueues ==
  ASSUME TypeInv, VerbActs \/ AnswerActs \/ VerbRequests
  PROVE  QueueShift
<1>0. /\ StoreTypeOK
      /\ verb.at \in {"apply", "settle", "resume", "beat", "retry", "kanban"} => verb.run \in Run
  BY DEF TypeInv, TypeOK, Addressed
<1>1. CASE UNCHANGED <<state, queue>>
  BY <1>1, NothingClaimed
<1>2. CASE CancelApply
  <2> DEFINE r == verb.run
             to == CancelTo(verb.seen)
  <2>0. r \in Run /\ to \in {"completed", "finalized"}
    BY <1>0, <1>2 DEF CancelApply, CancelTo
  <2>1. CASE Transition(r, to) /\ (queue' = queue \/ queue' = [queue EXCEPT ![r] = "done"])
    <3> HIDE DEF to
    <3>1. IsTerminal(state'[r])
      BY <1>0, <2>0, <2>1, Terminals DEF Transition, Terminal, StoreTypeOK
    <3>2. \A q \in Run : queue'[q] = queue[q] \/ Done(q)
      BY <1>0, <2>1, <3>1 DEF Done, StoreTypeOK
    <3> QED
      BY <1>0, <2>0, <2>1, <3>2, TransitionClaimsNone DEF QueueShift
  <2>2. CASE UNCHANGED <<state, queue>>
    BY <2>2, NothingClaimed
  <2> QED
    BY <1>2, <2>1, <2>2 DEF CancelApply
<1>3. CASE CancelSettle
  <2>1. verb.run \in Run /\ UNCHANGED state
    BY <1>0, <1>3 DEF CancelSettle, runRow
  <2> QED
    BY <1>0, <1>3, <2>1, SettleIsDone, NothingClaimed DEF CancelSettle, QueueShift
<1>4. CASE RetryAdmit
  <2>1. verb.run \in Run /\ UNCHANGED state
    BY <1>0, <1>4 DEF RetryAdmit, runRow
  <2> QED
    BY <1>0, <1>4, <2>1, MaterializeQueues, NothingClaimed DEF RetryAdmit, QueueShift
<1>5. CASE ResumeApply
  <2>1. verb.run \in Run /\ UNCHANGED queue
    BY <1>0, <1>5 DEF ResumeApply
  <2> QED
    BY <1>0, <1>5, <2>1, TransitionClaimsNone DEF ResumeApply, QueueShift
<1>6. ASSUME NEW r \in Run, AnswerGate(r) PROVE QueueShift
  BY <1>0, <1>6, TransitionClaimsNone DEF AnswerGate, QueueShift
<1>7. CASE RetryApply
  <2>1. UNCHANGED queue
    BY <1>7 DEF RetryApply
  <2>2. UNCHANGED state \/ \E s \in Run : state' = [state EXCEPT ![s] = "queued"]
    BY <1>7 DEF RetryApply
  <2> QED
    BY <1>0, <2>1, <2>2 DEF QueueShift, StoreTypeOK
<1> QED
  BY <1>1, <1>2, <1>3, <1>4, <1>5, <1>6, <1>7
  DEF VerbActs, AnswerActs, VerbRequests, VerbFollows, CancelStep, VerbStarts, CancelRead,
      CancelEnd, ResumeBeat, CancelRun, LadderCancel, ResumeRead, RetryRead, store, runRow

\* What the ladder writes on the rows: an end with its card, a crash with or
\* without its successor, or a harvest.
SweepRows ==
    \/ UNCHANGED state
    \/ \E r \in Run : Transition(r, "completed")
    \/ \E r \in Run, to \in {"finalized", "tombstoned"} : EndWithCard(r, to)
    \/ \E r \in Run : state' = [state EXCEPT ![r] = "crashed"]
    \/ \E r, s \in Run : state' = [state EXCEPT ![r] = "crashed", ![s] = "queued"]
    \/ \E s \in Run : state' = [state EXCEPT ![s] = "queued"]

LEMMA SweepWrites ==
  ASSUME TypeInv, LadderActs
  PROVE  SweepRows /\ UNCHANGED queue
<1> DEFINE r == sweep.now.run
<1>0. /\ StoreTypeOK
      /\ sweep.verdict # "none" => r \in Run
      /\ SweepStep
  BY DEF TypeInv, TypeOK, Judging, Snapshot, LadderActs
<1>1. UNCHANGED queue
  BY <1>0 DEF SweepStep, SweepStart, SweepHarvest, SweepFlagWedged, SweepCrashAndBound, SweepListCrashed,
              SweepBoundCrashed, SweepEnd, SweepClassify, SweepReadCrashed, store
<1>2. CASE UNCHANGED state
  BY <1>1, <1>2 DEF SweepRows
<1>3. CASE SweepHarvest
  BY <1>0, <1>1, <1>3 DEF SweepHarvest, SweepRows
<1>4. ASSUME r \in Run, NEW g, NEW from, NEW age, from \in {"crashed", state[r]}, Bound(r, g, from, age)
      PROVE  SweepRows
  <2> HIDE DEF r
  <2>1. EndState(r, age) \in {"finalized", "tombstoned"}
    BY DEF EndState
  <2>2. ASSUME EndWithCard(r, EndState(r, age)) PROVE SweepRows
    BY <1>4, <2>1, <2>2 DEF SweepRows
  <2>3. ASSUME state' = [state EXCEPT ![r] = from] PROVE SweepRows
    <3>1. CASE from = "crashed"
      BY <1>4, <2>3, <3>1 DEF SweepRows
    <3>2. CASE from = state[r]
      BY <1>0, <2>3, <3>2 DEF SweepRows, StoreTypeOK
    <3> QED
      BY <1>4, <3>1, <3>2
  <2>4. ASSUME NEW s \in Run, state' = [state EXCEPT ![r] = from, ![s] = "queued"] PROVE SweepRows
    <3>1. CASE from = "crashed"
      BY <1>4, <2>4, <3>1 DEF SweepRows
    <3>2. CASE from = state[r]
      <4>1. [state EXCEPT ![r] = from] = state
        BY <1>0, <3>2 DEF StoreTypeOK
      <4>2. state' = [state EXCEPT ![s] = "queued"]
        BY <2>4, <4>1
      <4> QED
        BY <4>2 DEF SweepRows
    <3> QED
      BY <1>4, <3>1, <3>2
  <2>5. Fork(r, g, from) => SweepRows
    BY <2>3, <2>4 DEF Fork
  <2> QED
    BY <1>2, <1>4, <2>2, <2>5 DEF Bound, SweepRows
<1>5. CASE SweepCrashAndBound
  <2>1. Bound(r, gen[r], "crashed", sweep.age) \/ UNCHANGED state
    BY <1>5 DEF SweepCrashAndBound
  <2>2. r \in Run
    BY <1>0, <1>5 DEF SweepCrashAndBound
  <2> HIDE DEF r
  <2> QED
    BY <1>1, <1>2, <1>4, <2>1, <2>2
<1>6. CASE SweepBoundCrashed
  <2>1. Bound(r, sweep.now.gen, state[r], sweep.age) \/ UNCHANGED state
    BY <1>6 DEF SweepBoundCrashed
  <2>2. r \in Run
    BY <1>0, <1>6 DEF SweepBoundCrashed
  <2> HIDE DEF r
  <2> QED
    BY <1>1, <1>2, <1>4, <2>1, <2>2
<1> QED
  BY <1>0, <1>1, <1>2, <1>3, <1>5, <1>6
  DEF SweepStep, SweepStart, SweepFlagWedged, SweepListCrashed, SweepEnd, SweepClassify,
      SweepReadCrashed, store, runRow

LEMMA StepQueues ==
  ASSUME TypeInv, [Next]_vars
  PROVE  QueueShift /\ PassShift
<1>0. StoreTypeOK /\ LegsTypeOK /\ ClaimTypeOK
  BY DEF TypeInv, TypeOK
<1>1. CASE ClaimActs
  BY <1>0, <1>1, ClaimQueues DEF ClaimActs, ClaimStep
<1>2. UNCHANGED pass => PassShift
  BY DEF PassShift
<1>3. CASE LegActs
  BY <1>0, <1>2, <1>3, LegQueues DEF LegActs, claimVars
<1>4. CASE LadderActs
  <2>1. SweepRows /\ UNCHANGED <<queue, pass>>
    BY <1>4, SweepWrites DEF LadderActs, claimVars
  <2>2. \A r \in Run : state'[r] = "claimed" => state[r] = "claimed"
    BY <1>0, <2>1, TransitionClaimsNone DEF SweepRows, EndWithCard, StoreTypeOK
  <2> QED
    BY <1>2, <2>1, <2>2 DEF QueueShift
<1>5. CASE VerbActs \/ AnswerActs \/ VerbRequests
  BY <1>2, <1>5, VerbQueues DEF VerbActs, AnswerActs, VerbRequests, claimVars
<1>6. CASE ParkActs
  <2>1. UNCHANGED <<queue, pass>>
    BY <1>6 DEF ParkActs, ParkInFlight, ParkAndFlag, claimVars
  <2>2. UNCHANGED state \/ \E r \in Run : Transition(r, "parked")
    BY <1>6 DEF ParkActs, ParkInFlight, ParkAndFlag
  <2> QED
    BY <1>0, <1>2, <2>1, <2>2, TransitionClaimsNone DEF QueueShift
<1>7. CASE TimeActs
  <2>1. UNCHANGED <<state, queue>> /\ (UNCHANGED pass \/ pass' = IdlePass)
    BY <1>7 DEF TimeActs, Nap, ProcessCrash, Lapse, GoSilent, runRow, store, claimVars
  <2> QED
    BY <1>2, <2>1, NothingClaimed DEF IdlePass, PassShift
<1>8. CASE UNCHANGED vars
  BY <1>2, <1>8, NothingClaimed DEF vars, store, claimVars
<1> QED
  BY <1>1, <1>3, <1>4, <1>5, <1>6, <1>7, <1>8 DEF Next

LEMMA WaitingMoves ==
  ASSUME TypeInv, Moving, QueueShift, NEW r \in Run, state[r] = "queued" \/ IsTerminal(state[r]), ~Claim(r)
  PROVE  state'[r] = "queued" \/ IsTerminal(state'[r])
<1>1. CASE IsTerminal(state[r])
  BY <1>1, TerminalStays
<1>2. CASE state[r] = "queued"
  <2>1. state'[r] # "claimed"
    BY <1>2 DEF QueueShift
  <2>2. \A t : CanTransition("queued", t) => t \in {"claimed", "finalized"}
    BY EdgeTable DEF CanTransition
  <2>3. state'[r] \in {"queued", "finalized"}
    BY <1>2, <2>1, <2>2 DEF Moving, Move
  <2> QED
    BY <2>3, Terminals DEF Terminal
<1> QED
  BY <1>1, <1>2

\* The queue and the run table agree through claims, forks, settles, cancels and
\* crashes, although every pass of the claim loop writes from lists that may be
\* stale (scheduler.go): no claimed run loses its row, no row of a started run
\* is claimable again.
THEOREM QueueAndRunsAgree == Spec => []QueueAgrees
<1>1. Init => QueueInv
  BY DEF Init, StoreInit, ClaimInit, IdlePass, QueueInv, QueueAgrees, OrphansWait, EndedRowsEnd
<1>2. TypeInv /\ Lineage /\ QueueInv /\ [Next]_vars => QueueInv'
  <2> SUFFICES ASSUME TypeInv, Lineage, QueueInv, [Next]_vars PROVE QueueInv'
    OBVIOUS
  <2>0. /\ Moving /\ QueueShift /\ PassShift
        /\ pass'.todo \subseteq Run /\ pass \in Pass
    BY StepEffect, EffectMoves, StepQueues, TypeInductive DEF TypeInv, TypeOK, ClaimTypeOK, Pass
  <2>1. ASSUME NEW r \in Run, Claim(r)
        PROVE  state'[r] = "claimed" /\ queue'[r] = "claimed" /\ pass.at = "claim" /\ pass'.at = "claim"
    BY <2>0, <2>1 DEF Claim, Transition, TypeInv, TypeOK, StoreTypeOK, Pass
  <2>2. ~IsTerminal("claimed") /\ ~Ended("claimed")
    BY Terminals DEF Terminal, Ended
  <2>3. ASSUME NEW r \in Run, state'[r] = "claimed" PROVE queue'[r] = "claimed"
    <3>1. CASE Claim(r)
      BY <2>1, <3>1
    <3>2. CASE ~Claim(r)
      <4>1. state[r] = "claimed" /\ queue[r] = "claimed"
        BY <2>0, <2>3, <3>2 DEF QueueShift, QueueInv, QueueAgrees
      <4>2. ~Queued(r) /\ ~Done(r)
        BY <2>2, <2>3, <4>1 DEF Queued, Done, QueueInv, EndedRowsEnd
      <4> QED
        BY <2>0, <3>2, <4>1, <4>2 DEF QueueShift
    <3> QED
      BY <3>1, <3>2
  <2>4. ASSUME NEW r \in Run, queue'[r] = "queued" PROVE state'[r] = "queued" \/ IsTerminal(state'[r])
    <3>1. ~Claim(r) /\ ~Done(r)
      BY <2>1, <2>4 DEF Done
    <3>2. CASE queue[r] = "queued"
      BY <2>0, <3>1, <3>2, WaitingMoves DEF QueueInv, QueueAgrees
    <3>3. CASE Queued(r)
      BY <3>3 DEF Queued, QueueInv, OrphansWait
    <3> QED
      BY <2>0, <2>4, <3>1, <3>2, <3>3 DEF QueueShift
  <2>5. ASSUME NEW r \in Run, queue'[r] = "claimed" PROVE state'[r] \notin {"absent", "new", "queued"}
    <3>1. ~Queued(r) /\ ~Done(r)
      BY <2>5 DEF Queued, Done
    <3>2. CASE queue[r] = "claimed"
      BY <2>0, <3>2, StartedStays DEF QueueInv, QueueAgrees
    <3> QED
      BY <2>0, <2>1, <2>5, <3>1, <3>2 DEF QueueShift
  <2>6. OrphansWait'
    <3> SUFFICES ASSUME pass'.at = "materialize", NEW r \in pass'.todo
                 PROVE  state'[r] = "queued" \/ IsTerminal(state'[r])
      BY DEF OrphansWait
    <3>1. r \in Run /\ ~Claim(r)
      BY <2>0, <2>1
    <3> QED
      BY <2>0, <3>1, WaitingMoves DEF PassShift, QueueInv, OrphansWait
  <2>7. EndedRowsEnd'
    BY <2>0, EndedStays DEF PassShift, QueueInv, EndedRowsEnd
  <2> QED
    BY <2>3, <2>4, <2>5, <2>6, <2>7 DEF QueueInv, QueueAgrees
<1>3. QueueInv => QueueAgrees
  BY DEF QueueInv
<1> QED
  BY <1>1, <1>2, <1>3, LineageAlways, PTL DEF Spec

\* boundTx: whatever a unit probe, the engine store or a run's silence say, a run
\* that a pass of the ladder ends has its card in the same transaction.
THEOREM LadderEndsWithDoor == Spec => EndsWithDoor
<1> DEFINE Door == \A r \in Run : /\ sweep' # sweep
                                  /\ state[r] \in Occupied \cup {"crashed"}
                                  /\ state'[r] \in {"finalized", "tombstoned"}
                                  => card'[r] = "open"
<1>1. TypeInv /\ [Next]_vars => Door
  <2> SUFFICES ASSUME TypeInv, [Next]_vars, sweep' # sweep, NEW r \in Run,
                      state[r] \in Occupied \cup {"crashed"}, state'[r] \in {"finalized", "tombstoned"}
               PROVE  card'[r] = "open"
    OBVIOUS
  <2>0. StoreTypeOK
    BY DEF TypeInv, TypeOK
  <2>1. ~UNCHANGED state
    BY DEF Occupied
  <2>2. LadderActs
    BY <2>1 DEF Next, ClaimActs, LegActs, VerbActs, AnswerActs, VerbRequests, ParkActs, TimeActs,
                ParkInFlight, ParkAndFlag, Lapse, GoSilent, Nap, ProcessCrash, store, vars
  <2>3. SweepRows
    BY <2>2, SweepWrites
  <2>4. ASSUME NEW q \in Run, NEW to, EndWithCard(q, to) PROVE card'[r] = "open"
    <3>1. q = r
      BY <2>0, <2>4 DEF EndWithCard, Occupied, StoreTypeOK
    <3> QED
      BY <2>0, <2>4, <3>1 DEF EndWithCard, StoreTypeOK
  <2> QED
    BY <2>0, <2>1, <2>3, <2>4 DEF SweepRows, Transition, Occupied, StoreTypeOK
<1>2. Door => [Door]_vars
  OBVIOUS
<1> QED
  BY <1>1, <1>2, TypeInitially, TypeInductive, PTL DEF Spec, EndsWithDoor

\* As long as no cancel meets a row that has moved since it was read, an open
\* gate card means a parked run, so that answering it resumes the run.
THEOREM AskedIsParked == Spec /\ [][\A r \in Run : ~RacedCancel(r)]_vars => []OpenAskIsParked
<1> DEFINE Clean   == \A r \in Run : ~RacedCancel(r)
           Orphans == \A r \in Run : /\ ask'[r] = "open" /\ state'[r] # "parked"
                                     => \/ ask[r] = "open" /\ state[r] # "parked"
                                        \/ RacedCancel(r)
<1>1. Init => OpenAskIsParked
  BY DEF Init, StoreInit, OpenAskIsParked
<1>2. OpenAskIsParked /\ [Clean]_vars /\ [Orphans]_vars => OpenAskIsParked'
  <2>1. CASE UNCHANGED vars
    BY <2>1 DEF OpenAskIsParked, vars, store
  <2>2. CASE Clean /\ Orphans
    BY <2>2 DEF OpenAskIsParked
  <2> QED
    BY <2>1, <2>2
<1>3. Spec => [][Orphans]_vars
  BY OnlyRacesOrphanCards DEF OnlyRacesOrphan
<1>4. Spec => Init
  BY DEF Spec
<1> HIDE DEF Clean, Orphans
<1>5. Spec /\ [][Clean]_vars => []OpenAskIsParked
  BY <1>1, <1>2, <1>3, <1>4, PTL
<1> QED
  BY <1>5 DEF Clean

-----------------------------------------------------------------------------
(* The ladder and the work that is driven, where no cancel and no resume     *)
(* moves a run itself.                                                       *)

HandsOff == ~CancelApply /\ ~ResumeApply

LEMMA StaysOff ==
  ASSUME TypeInv, [HandsOff]_vars
  PROVE  HandsOff
<1>1. CASE UNCHANGED vars
  <2>1. verb \in Verb /\ verb' = verb
    BY <1>1 DEF TypeInv, TypeOK, VerbTypeOK, vars
  <2>2. \A at : VerbAt(at) => verb.at = at
    BY <2>1 DEF VerbAt, Verb
  <2>3. verb.at = "apply" => verb' # IdleVerb /\ ~VerbAt("cancel") /\ ~VerbAt("settle")
    BY <2>1, <2>2 DEF IdleVerb
  <2>4. verb.at = "resume" => verb' # IdleVerb /\ ~VerbAt("beat")
    BY <2>1, <2>2 DEF IdleVerb
  <2> QED
    BY <2>3, <2>4 DEF HandsOff, CancelApply, ResumeApply
<1> QED
  BY <1>1

\* One leg at a time holds a run, at its generation, and none while its card
\* is open.
Holding(l)     == l \in legs /\ l.pc # "ended"
OneHolder      == \A l, m \in legs : Holding(l) /\ Holding(m) /\ l.run = m.run => l = m
HoldersCurrent == \A l \in legs : Holding(l) => l.gen = gen[l.run] \/ Ended(state[l.run])
AskedIsUnheld  == \A r \in Run, l \in legs :
                     state[r] = "parked" /\ ask[r] = "open" /\ Holding(l) => l.run # r

Holders == OpenAskIsParked /\ OneHolder /\ HoldersCurrent /\ AskedIsUnheld

\* Every leg that holds was holding at the same generation, or takes over.
LEMMA HoldersComeFrom ==
  ASSUME LegsTypeOK, LegShift, NEW k \in legs', k.pc # "ended"
  PROVE  \/ \E l \in legs : Holding(l) /\ l.run = k.run /\ l.gen = k.gen
         \/ \E r \in Run : k.run = r /\ (Claimed(r) \/ Answered(r)) /\ k.gen = gen'[r]
<1>1. CASE k \in legs
  BY <1>1 DEF Holding
<1>2. ASSUME NEW l \in legs, NEW pc, l.pc # "ended", LegAt(l, pc), k \notin legs
      PROVE  Holding(l) /\ l.run = k.run /\ l.gen = k.gen
  BY <1>2 DEF Holding, LegAt, LegsTypeOK, Leg
<1>3. ASSUME NEW r \in Run, Claimed(r) \/ Answered(r), k \notin legs
      PROVE  k.run = r /\ k.gen = gen'[r]
  BY <1>3 DEF Claimed, Answered, Released
<1> QED
  BY <1>1, <1>2, <1>3 DEF LegShift

LEMMA HoldersInductive ==
  ASSUME TypeInv, Lineage, Handover, Holders, [Next]_vars, HandsOff
  PROVE  Holders'
<1>a. LegsTypeOK /\ StoreTypeOK /\ \A l \in legs : l.run \in Run /\ l \in Leg
  BY DEF TypeInv, TypeOK, LegsTypeOK, Leg
<1>b. Shift /\ Moving
  BY HandoverInductive, StepEffect, EffectMoves
<1>0. /\ Shift /\ Moving /\ ~CancelApply /\ ~ResumeApply
      /\ LegsTypeOK /\ StoreTypeOK
      /\ \A l \in legs : l.run \in Run /\ l \in Leg
  BY <1>a, <1>b DEF HandsOff
<1>1. OpenAskIsParked'
  <2> SUFFICES ASSUME NEW r \in Run, ask'[r] = "open" PROVE state'[r] = "parked"
    BY DEF OpenAskIsParked
  <2>1. CASE Asked(r)
    BY <2>1 DEF Asked
  <2>2. CASE ask[r] = "open" /\ ask'[r] = ask[r]
    <3>1. state[r] = "parked" /\ ~AnswerGate(r)
      BY <1>0, <2>2 DEF Holders, OpenAskIsParked, AnswerGate, StoreTypeOK
    <3> QED
      BY <1>0, <3>1 DEF Shift, RowShift, HeldRow, Started, Cancelled
  <2> QED
    BY <1>0, <2>1, <2>2 DEF Shift, AskShift
<1>2. OneHolder'
  <2>1. CASE legs' \subseteq legs
    BY <2>1 DEF Holders, OneHolder, Holding
  <2>2. ASSUME NEW l \in legs, NEW pc, l.pc # "ended", LegAt(l, pc) PROVE OneHolder'
    <3>1. [l EXCEPT !.pc = pc].run = l.run
      BY <1>0 DEF Leg
    <3>2. \A k \in legs' : k = [l EXCEPT !.pc = pc] \/ (k \in legs /\ k # l)
      BY <2>2 DEF LegAt
    <3> QED
      BY <2>2, <3>1, <3>2 DEF Holders, OneHolder, Holding
  <2>3. ASSUME NEW r \in Run, Claimed(r) \/ Answered(r) PROVE OneHolder'
    <3>1. \A l \in legs : Holding(l) => l.run # r
      BY <2>3 DEF Claimed, Answered, Released, Handover, LegsStarted, Holders, AskedIsUnheld
    <3>2. \E n : n.run = r /\ legs' = legs \cup {n}
      BY <2>3 DEF Claimed, Answered
    <3> QED
      BY <3>1, <3>2 DEF Holders, OneHolder, Holding
  <2> QED
    BY <1>0, <2>1, <2>2, <2>3 DEF Shift, LegShift
<1>3. HoldersCurrent'
  <2> SUFFICES ASSUME NEW k \in legs', k.pc # "ended", k.gen # gen'[k.run]
               PROVE  Ended(state'[k.run])
    BY DEF HoldersCurrent, Holding
  <2>1. PICK l \in legs : Holding(l) /\ l.run = k.run /\ l.gen = k.gen
    BY <1>0, HoldersComeFrom DEF Shift
  <2> DEFINE r == k.run
  <2>2. r \in Run /\ (l.gen = gen[r] \/ Ended(state[r]))
    BY <1>0, <2>1 DEF Holders, HoldersCurrent
  <2>3. CASE Ended(state[r])
    BY <1>0, <2>2, <2>3, EndedStays
  <2>4. CASE gen'[r] # gen[r]
    <3>1. state[r] # "absent"
      BY <2>1 DEF Handover, LegsStarted
    <3>2. ~(Released(r) /\ AnswerGate(r))
      <4>1. l \in legs /\ Holding(l) /\ l.run = r
        BY <2>1
      <4> HIDE DEF r
      <4>2. ~(state[r] = "parked" /\ ask[r] = "open")
        BY <4>1, <2>2 DEF Holders, AskedIsUnheld
      <4> QED
        BY <4>2 DEF Released, AnswerGate
    <3> QED
      BY <1>0, <2>2, <2>4, <3>1, <3>2 DEF Shift, RowShift, HeldRow, Started, Cancelled
  <2> QED
    BY <2>1, <2>2, <2>3, <2>4
<1>4. AskedIsUnheld'
  <2> SUFFICES ASSUME NEW k \in legs', k.pc # "ended", k.run \in Run,
                      state'[k.run] = "parked", ask'[k.run] = "open"
               PROVE  FALSE
    BY DEF AskedIsUnheld, Holding
  <2> DEFINE r == k.run
  <2>1. CASE Asked(r)
    <3>1. PICK l \in legs : l.run = r /\ l.pc = "working" /\ LegReturns(l)
      BY <2>1 DEF Asked
    <3>2. [l EXCEPT !.pc = "ended"].pc = "ended"
      BY <1>0 DEF Leg
    <3>3. k \in legs /\ k # l
      BY <3>1, <3>2 DEF LegReturns, LegAt
    <3> QED
      BY <3>1, <3>3 DEF Holders, OneHolder, Holding
  <2>2. CASE ask[r] = "open"
    <3>1. state[r] = "parked"
      BY <2>2 DEF Holders, OpenAskIsParked
    <3>2. ASSUME NEW l \in legs, Holding(l), l.run = r PROVE FALSE
      BY <2>2, <3>1, <3>2 DEF Holders, AskedIsUnheld
    <3>3. ~Claimed(r) /\ ~Answered(r)
      BY <1>0, <3>1 DEF Claimed, Answered, Released, Transition, StoreTypeOK
    <3> QED
      BY <1>0, <3>2, <3>3, HoldersComeFrom DEF Shift
  <2> QED
    BY <1>0, <2>1, <2>2 DEF Shift, AskShift
<1> QED
  BY <1>0, <1>1, <1>2, <1>3, <1>4 DEF Holders

LEMMA HoldersAlways == Spec /\ [][HandsOff]_vars => [](TypeInv /\ Lineage /\ Handover /\ Holders)
<1>1. Init => Holders
  BY DEF Init, StoreInit, LegsInit, Holders, OpenAskIsParked, OneHolder, HoldersCurrent, AskedIsUnheld
<1>2. TypeInv /\ Lineage /\ Handover /\ Holders /\ [Next]_vars /\ [HandsOff]_vars => Holders'
  BY StaysOff, HoldersInductive
<1> QED
  BY <1>1, <1>2, HandoverAlways, PTL DEF Spec

\* Apart from a suspend, a run only goes silent, or its lease runs out, alone.
Fresher == \A q \in Run : cursor'[q] = cursor[q] \/ cursor'[q] = "fresh"
Beaten  == \A q \in Run : lease'[q] = lease[q] \/ lease'[q] = "live"
Fading  == /\ Fresher \/ \E r \in Run : GoSilent(r)
           /\ Beaten \/ \E r \in Run : Lapse(r)

LEMMA AppendFreshens ==
  ASSUME StoreTypeOK, NEW r \in Run
  PROVE  /\ Append(r) => Fresher
         /\ \A to : Transition(r, to) => Fresher
         /\ UNCHANGED cursor => Fresher
         /\ \A g : Renew(r, g) => Beaten
         /\ UNCHANGED lease => Beaten
  BY DEF Append, Transition, Renew, StoreTypeOK, Fresher, Beaten

LEMMA BoundFreshens ==
  ASSUME StoreTypeOK, NEW r \in Run, NEW g, NEW from, NEW age, Bound(r, g, from, age)
  PROVE  Fresher
<1>1. ASSUME NEW to, EndWithCard(r, to) PROVE Fresher
  BY <1>1, AppendFreshens DEF EndWithCard
<1>2. CASE Fork(r, g, from)
  BY <1>2 DEF Fork, Fresher
<1>3. CASE UNCHANGED runEvent
  BY <1>3 DEF runEvent, Fresher
<1> QED
  BY <1>1, <1>2, <1>3 DEF Bound

LEMMA LegsFade ==
  ASSUME StoreTypeOK, LegsTypeOK, NEW l \in legs, LegStep(l)
  PROVE  Fading
<1>0. l.run \in Run
  BY DEF LegsTypeOK, Leg
<1>1. CASE LegBeat(l)
  BY <1>0, <1>1, AppendFreshens DEF LegBeat, runEvent, Fading
<1>2. CASE LegProgress(l)
  BY <1>0, <1>2, AppendFreshens DEF LegProgress, runRow, runEvent, Fading
<1>3. CASE LegStart(l) \/ LegFileCrash(l) \/ LegComplete(l) \/ LegGate(l) \/ LegPausePark(l)
  BY <1>0, <1>3, AppendFreshens
  DEF LegStart, LegFileCrash, LegComplete, LegGate, LegPausePark, runEvent, Fading
<1>4. CASE LegFail(l) \/ LegUnwind(l) \/ LegSettle(l)
  BY <1>0, <1>4, AppendFreshens DEF LegFail, LegUnwind, LegSettle, store, runRow, runEvent, Fading
<1> QED
  BY <1>1, <1>2, <1>3, <1>4 DEF LegStep

LEMMA ClaimFades ==
  ASSUME StoreTypeOK, ClaimStep
  PROVE  Fading
<1>1. CASE UNCHANGED <<cursor, lease>>
  BY <1>1 DEF Fading, Fresher, Beaten
<1>2. ASSUME NEW r \in Run, Create(r) \/ Enqueue(r) PROVE Fading
  BY <1>2, AppendFreshens DEF Create, Enqueue, runEvent, Fading
<1>3. ASSUME NEW r \in Run, Claim(r) PROVE Fading
  <2>1. Fresher
    BY <1>3, AppendFreshens DEF Claim
  <2>2. Beaten
    BY <1>3 DEF Claim, Beaten, StoreTypeOK
  <2> QED
    BY <2>1, <2>2 DEF Fading
<1> QED
  BY <1>1, <1>2, <1>3
  DEF ClaimStep, PassStep, PassStart, ListEndedRows, ReadCandidates, PassEnd, MaterializeOrphan,
      SettleEndedRow, ClaimLost, store, runRow, runEvent

LEMMA LadderFades ==
  ASSUME TypeInv, LadderActs
  PROVE  Fading
<1> DEFINE r == sweep.now.run
<1>0. /\ StoreTypeOK
      /\ sweep.verdict # "none" => r \in Run
      /\ SweepStep
  BY DEF TypeInv, TypeOK, Judging, Snapshot, LadderActs
<1>1. Beaten
  BY <1>0 DEF SweepStep, SweepStart, SweepHarvest, SweepFlagWedged, SweepCrashAndBound, SweepListCrashed,
              SweepBoundCrashed, SweepEnd, SweepClassify, SweepReadCrashed, store, runRow, Beaten
<1>2. CASE UNCHANGED cursor
  BY <1>1, <1>2 DEF Fading, Fresher
<1>3. CASE SweepHarvest
  BY <1>0, <1>1, <1>3, AppendFreshens DEF SweepHarvest, runEvent, Fading
<1>4. CASE SweepFlagWedged
  <2>1. Fresher
    BY <1>0, <1>4 DEF SweepFlagWedged, runEvent, Fresher, StoreTypeOK
  <2> QED
    BY <1>1, <2>1 DEF Fading
<1>5. CASE SweepCrashAndBound \/ SweepBoundCrashed
  <2>1. r \in Run
    BY <1>0, <1>5 DEF SweepCrashAndBound, SweepBoundCrashed
  <2>2. UNCHANGED runEvent \/ \E g, from, age : Bound(r, g, from, age)
    BY <1>5 DEF SweepCrashAndBound, SweepBoundCrashed
  <2> HIDE DEF r
  <2>3. Fresher
    BY <1>0, <2>1, <2>2, BoundFreshens, AppendFreshens DEF runEvent
  <2> QED
    BY <1>1, <2>3 DEF Fading
<1> QED
  BY <1>0, <1>2, <1>3, <1>4, <1>5
  DEF SweepStep, SweepStart, SweepListCrashed, SweepEnd, SweepClassify, SweepReadCrashed, store

LEMMA VerbsFade ==
  ASSUME TypeInv, VerbActs \/ AnswerActs \/ VerbRequests \/ ParkActs
  PROVE  Fading
<1>0. /\ StoreTypeOK
      /\ verb.at \in {"apply", "settle", "resume", "beat", "retry", "kanban"} => verb.run \in Run
  BY DEF TypeInv, TypeOK, Addressed
<1>1. CASE UNCHANGED <<cursor, lease>>
  BY <1>1 DEF Fading, Fresher, Beaten
<1>2. CASE CancelApply \/ ResumeApply
  BY <1>0, <1>2, AppendFreshens DEF CancelApply, ResumeApply, runEvent, Fading
<1>3. CASE ResumeBeat
  BY <1>0, <1>3, AppendFreshens DEF ResumeBeat, runEvent, Fading
<1>4. CASE RetryApply
  <2>0. UNCHANGED lease
    BY <1>4 DEF RetryApply
  <2>1. CASE cursor' = cursor
    BY <2>0, <2>1, AppendFreshens DEF Fading, Beaten, Fresher
  <2>2. ASSUME NEW s \in Run, cursor' = [cursor EXCEPT ![s] = "fresh"] PROVE Fading
    <3>1. Fresher
      BY <1>0, <2>2 DEF Fresher, StoreTypeOK
    <3> QED
      BY <2>0, <3>1 DEF Fading, Beaten
  <2> QED
    BY <1>4, <2>1, <2>2 DEF RetryApply, runEvent
<1>5. ASSUME NEW r \in Run, AnswerGate(r) \/ ParkInFlight(r) \/ \E park \in BOOLEAN : ParkAndFlag(r, park)
      PROVE  Fading
  BY <1>0, <1>5, AppendFreshens DEF AnswerGate, ParkInFlight, ParkAndFlag, runEvent, Fading
<1> QED
  BY <1>1, <1>2, <1>3, <1>4, <1>5
  DEF VerbActs, AnswerActs, VerbRequests, ParkActs, VerbFollows, CancelStep, VerbStarts, CancelSettle,
      CancelRead, CancelEnd, RetryAdmit, CancelRun, LadderCancel, ResumeRead, RetryRead,
      store, runRow, runEvent

LEMMA AwakeFades ==
  ASSUME TypeInv, [Next]_vars, spent'.naps = 0
  PROVE  spent.naps = 0 /\ Fading
<1>0. StoreTypeOK /\ LegsTypeOK /\ spent \in Spent
  BY DEF TypeInv, TypeOK
<1>1. CASE ClaimActs
  BY <1>0, <1>1, ClaimFades DEF ClaimActs, ClaimStep
<1>2. CASE LegActs
  BY <1>0, <1>2, LegsFade DEF LegActs
<1>3. CASE LadderActs
  BY <1>3, LadderFades DEF LadderActs
<1>4. CASE VerbActs \/ AnswerActs
  BY <1>4, VerbsFade DEF VerbActs, AnswerActs
<1>5. CASE VerbRequests \/ ParkActs
  <2>1. spent.naps = 0
    BY <1>0, <1>5 DEF VerbRequests, ParkActs, Spend, Spent
  <2> QED
    BY <1>5, <2>1, VerbsFade
<1>6. CASE Nap
  BY <1>0, <1>6 DEF Nap, Spend, Spent
<1>7. CASE ProcessCrash
  BY <1>0, <1>7 DEF ProcessCrash, Spend, Spent, store, Fading, Fresher, Beaten
<1>8. ASSUME NEW r \in Run, Lapse(r) PROVE spent.naps = 0 /\ Fading
  BY <1>8 DEF Lapse, runEvent, Fading, Fresher
<1>9. ASSUME NEW r \in Run, GoSilent(r) PROVE spent.naps = 0 /\ Fading
  BY <1>9 DEF GoSilent, runRow, Fading, Beaten
<1>10. CASE UNCHANGED vars
  BY <1>10 DEF vars, store, Fading, Fresher, Beaten
<1> QED
  BY <1>1, <1>2, <1>3, <1>4, <1>5, <1>6, <1>7, <1>8, <1>9, <1>10 DEF Next, TimeActs

\* While the host is awake, work that is driven is beaten for before its run
\* is silent for longer than a lease.
DrivenIsBeaten == \A r \in Run : Driven(r) /\ state[r] \in Occupied
                                 => lease[r] = "live" \/ cursor[r] = "fresh"

\* Nobody drives the run and no answer will: it stays so.
Abandoned(r) == /\ ~Driven(r) /\ state[r] \notin {"absent", "new", "queued"}
                /\ state[r] = "parked" => ask[r] # "open"

ListedSilent == sweep.at = "observe" =>
    \A s \in sweep.todo : s.lease # "live" /\ cursor[s.run] # "fresh" => Abandoned(s.run)
CondemnedIsAbandoned == sweep.at = "observe" /\ sweep.verdict = "crash" => Abandoned(sweep.now.run)

Vigil == spent.naps = 0 => DrivenIsBeaten /\ ListedSilent /\ CondemnedIsAbandoned

Held == TypeInv /\ Lineage /\ Handover /\ Holders

\* What every step keeps that leaves the runs to their holders.
LEMMA HeldSteps ==
  ASSUME Held, [Next]_vars, HandsOff
  PROVE  /\ TypeInv' /\ Shift /\ Moving /\ Holders'
         /\ StoreTypeOK /\ LegsTypeOK /\ ~CancelApply /\ ~ResumeApply
         /\ \A l \in legs : l.run \in Run /\ l.gen \in Nat
<1>1. TypeInv' /\ Holders'
  BY TypeInductive, HoldersInductive DEF Held
<1>2. Shift /\ Moving
  BY HandoverInductive, StepEffect, EffectMoves DEF Held
<1>3. ~CancelApply /\ ~ResumeApply
  BY DEF HandsOff
<1>4. StoreTypeOK /\ LegsTypeOK /\ \A l \in legs : l.run \in Run /\ l.gen \in Nat
  BY RowTypes DEF Held, TypeInv, TypeOK
<1> QED
  BY <1>1, <1>2, <1>3, <1>4

LEMMA StaysAbandoned ==
  ASSUME Held, [Next]_vars, HandsOff, NEW r \in Run, Abandoned(r)
  PROVE  Abandoned(r)'
<1>0. /\ Shift /\ Moving /\ StoreTypeOK /\ LegsTypeOK
      /\ \A l \in legs : l.run \in Run /\ l.gen \in Nat
  BY HeldSteps
<1>1. state'[r] \notin {"absent", "new", "queued"}
  BY <1>0, StartedStays DEF Abandoned, Held
<1>2. ASSUME NEW l \in legs, Holding(l), l.run = r PROVE Ended(state[r]) /\ l.gen < gen[r]
  <2>1. l.gen # gen[r]
    BY <1>2 DEF Abandoned, Driven, Drives, Holding
  <2>2. l.gen <= gen[r] /\ Ended(state[r])
    BY <1>2, <2>1 DEF Held, Lineage, LegsKnow, Holders, HoldersCurrent
  <2> QED
    BY <1>0, <2>1, <2>2 DEF StoreTypeOK
<1>3. ~Claimed(r) /\ ~Answered(r)
  BY DEF Claimed, Answered, Released, Abandoned
<1>4. ~Driven(r)'
  <2> SUFFICES ASSUME NEW k \in legs', k.pc # "ended", k.run = r, k.gen = gen'[r] PROVE FALSE
    BY DEF Driven, Drives
  <2>1. PICK l \in legs : Holding(l) /\ l.run = r /\ l.gen = k.gen
    BY <1>0, <1>3, HoldersComeFrom DEF Shift
  <2>2. l.gen < gen[r] /\ gen[r] <= gen'[r]
    BY <1>0, <1>2, <2>1, RowStays DEF Held, Abandoned
  <2> QED
    BY <1>0, <2>1, <2>2, HeldSteps DEF StoreTypeOK, TypeInv, TypeOK
<1>5. state'[r] = "parked" => ask'[r] # "open"
  <2>1. CASE Asked(r)
    <3>1. PICK l \in legs : l.run = r /\ l.pc = "working"
      BY <2>1 DEF Asked
    <3>2. Ended(state'[r])
      BY <1>0, <1>2, <3>1, EndedStays DEF Held, Holding
    <3> QED
      BY <3>2, Terminals DEF Ended, Terminal
  <2>2. CASE ask'[r] = ask[r] /\ ask[r] = "open"
    BY <2>2 DEF Held, Holders, OpenAskIsParked, Abandoned
  <2> QED
    BY <1>0, <2>1, <2>2 DEF Shift, AskShift
<1> QED
  BY <1>1, <1>4, <1>5 DEF Abandoned

LEMMA BeatenInductive ==
  ASSUME Held, DrivenIsBeaten, [Next]_vars, HandsOff, Fading
  PROVE  DrivenIsBeaten'
<1>0. /\ Shift /\ Moving /\ StoreTypeOK /\ LegsTypeOK /\ TypeInv /\ ~CancelApply
      /\ \A l \in legs : l.run \in Run /\ l.gen \in Nat
  BY HeldSteps DEF Held
<1> SUFFICES ASSUME NEW r \in Run, NEW k \in legs', k.pc # "ended", k.run = r, k.gen = gen'[r],
                    state'[r] \in Occupied
             PROVE  lease'[r] = "live" \/ cursor'[r] = "fresh"
  BY DEF DrivenIsBeaten, Driven, Drives
<1>1. CASE Claimed(r)
  BY <1>0, <1>1 DEF Claimed, Claim, StoreTypeOK
<1>2. CASE Released(r)
  BY <1>0, <1>2 DEF Released, Transition, Append, StoreTypeOK
<1>3. CASE ~Claimed(r) /\ ~Released(r)
  <2>1. PICK l \in legs : Holding(l) /\ l.run = r /\ l.gen = gen'[r]
    BY <1>0, <1>3, HoldersComeFrom DEF Shift, Answered
  <2>2. ~Ended(state'[r]) /\ ~Ended(state[r])
    BY <1>0, Terminals, EndedStays DEF Occupied, Ended, Terminal
  <2>3. l.gen = gen[r] /\ Driven(r)
    BY <2>1, <2>2 DEF Held, Holders, HoldersCurrent, Holding, Driven, Drives
  <2>4. state[r] \in Occupied
    <3>1. state[r] \notin {"absent", "new", "queued"}
      BY <2>1 DEF Held, Handover, LegsStarted, Holding
    <3>2. state[r] # "parked"
      BY <1>0, <1>3, <2>2, <3>1 DEF Shift, RowShift, HeldRow, Started, Cancelled, Occupied
    <3> QED
      BY <1>0, <2>2, <3>1, <3>2, Terminals DEF StoreTypeOK, State, Occupied, Ended, Terminal
  <2>5. lease[r] = "live" \/ cursor[r] = "fresh"
    BY <2>3, <2>4 DEF DrivenIsBeaten
  <2>6. ASSUME NEW q \in Run, GoSilent(q) PROVE lease'[r] = "live" \/ cursor'[r] = "fresh"
    <3>1. lease' = lease /\ (q = r => lease[r] = "live")
      BY <2>3, <2>6 DEF GoSilent, runRow
    <3>2. q # r => cursor'[r] = cursor[r]
      BY <1>0, <2>6 DEF GoSilent, StoreTypeOK
    <3> QED
      BY <2>5, <3>1, <3>2
  <2>7. ASSUME NEW q \in Run, Lapse(q) PROVE lease'[r] = "live" \/ cursor'[r] = "fresh"
    <3>1. q # r /\ cursor' = cursor /\ lease' = [lease EXCEPT ![q] = "lapsed"]
      BY <2>3, <2>7 DEF Lapse, runEvent
    <3> QED
      BY <1>0, <2>5, <3>1 DEF StoreTypeOK
  <2>8. CASE Fresher /\ Beaten
    BY <2>5, <2>8 DEF Fresher, Beaten
  <2> QED
    BY <2>6, <2>7, <2>8 DEF Fading
<1> QED
  BY <1>1, <1>2, <1>3

\* How a pass moves on between two steps while it observes.
ObserveMoves ==
    \/ UNCHANGED sweep
    \/ sweep'.at # "observe"
    \/ SweepStart
    \/ Decided /\ sweep.at = "observe"
    \/ \E s \in sweep.todo : SweepClassify(s)

LEMMA StepObserves == TypeInv /\ [Next]_vars => ObserveMoves
<1> SUFFICES ASSUME TypeInv, [Next]_vars PROVE ObserveMoves
  OBVIOUS
<1>1. CASE LadderActs
  <2>1. SweepStep
    BY <1>1 DEF LadderActs
  <2>2. SweepListCrashed \/ SweepEnd => sweep'.at # "observe"
    <3>1. \A todo : [IdleSweep EXCEPT !.at = "crashed", !.todo = todo].at = "crashed"
      BY DEF IdleSweep
    <3>2. SweepListCrashed => sweep'.at = "crashed"
      BY <3>1 DEF SweepListCrashed
    <3>3. SweepEnd => sweep'.at = "idle"
      BY DEF SweepEnd, IdleSweep
    <3> QED
      BY <3>2, <3>3
  <2>3. ASSUME NEW s \in sweep.todo, SweepReadCrashed(s) PROVE sweep'.at # "observe"
    BY <2>3 DEF SweepReadCrashed, TypeInv, TypeOK, LadderTypeOK, Sweep
  <2>4. ASSUME Decided PROVE sweep'.at = sweep.at
    <3>1. \A at, todo : [IdleSweep EXCEPT !.at = at, !.todo = todo].at = at
      BY DEF IdleSweep
    <3> QED
      BY <2>4, <3>1 DEF Decided
  <2>5. SweepHarvest \/ SweepFlagWedged \/ SweepCrashAndBound \/ SweepBoundCrashed => Decided
    BY DEF SweepHarvest, SweepFlagWedged, SweepCrashAndBound, SweepBoundCrashed
  <2> QED
    BY <2>1, <2>2, <2>3, <2>4, <2>5 DEF SweepStep, ObserveMoves
<1>2. CASE ProcessCrash
  BY <1>2 DEF ProcessCrash, IdleSweep, ObserveMoves
<1>3. CASE UNCHANGED sweep
  BY <1>3 DEF ObserveMoves
<1>4. UNCHANGED sweep \/ LadderActs \/ ProcessCrash
  BY DEF Next, ClaimActs, LegActs, VerbActs, AnswerActs, VerbRequests, ParkActs, TimeActs,
         ParkInFlight, ParkAndFlag, VerbStarts, Lapse, GoSilent, Nap, vars
<1> QED
  BY <1>1, <1>2, <1>3, <1>4

\* A crash verdict without the unit's own word: the lease has run out and the
\* run is silent.
LEMMA CrashIsSilence ==
  ASSUME NEW probe, probe # "failed", NEW harvested, NEW leaseRead, NEW age, NEW lastWedged,
         Classify(probe, harvested, leaseRead, age, lastWedged) = "crash"
  PROVE  leaseRead # "live" /\ age # "fresh"
  BY DEF Classify

LEMMA VigilInductive ==
  ASSUME "failed" \notin Probes, Held, Vigil, [Next]_vars, HandsOff
  PROVE  Vigil'
<1> SUFFICES ASSUME spent'.naps = 0 PROVE (DrivenIsBeaten /\ ListedSilent /\ CondemnedIsAbandoned)'
  BY DEF Vigil
<1>0. /\ Fading /\ DrivenIsBeaten /\ ListedSilent /\ CondemnedIsAbandoned
      /\ ObserveMoves /\ TypeInv
  BY AwakeFades, StepObserves DEF Vigil, Held
<1>1. sweep \in Sweep /\ StoreTypeOK
  BY <1>0 DEF TypeInv, TypeOK, LadderTypeOK
<1>2. ASSUME SweepStart
      PROVE  /\ sweep'.todo = { Snap(r) : r \in { q \in Run : state[q] \in Occupied } }
             /\ sweep'.verdict = "none" /\ UNCHANGED store
  BY <1>2 DEF SweepStart, IdleSweep
<1>3. ASSUME Decided PROVE sweep'.todo = sweep.todo /\ sweep'.verdict = "none"
  BY <1>3 DEF Decided, IdleSweep
<1>4. ASSUME NEW s \in sweep.todo, SweepClassify(s)
      PROVE  /\ sweep'.todo \subseteq sweep.todo /\ sweep.at = "observe" /\ UNCHANGED store
             /\ \/ sweep'.verdict # "crash"
                \/ sweep'.now = s /\ s.lease # "live" /\ cursor[s.run] # "fresh"
  <2>1. PICK probe \in Probes, harvested \in Harvests :
          LET v == Classify(probe, harvested, s.lease, cursor[s.run], s.run \in flagged)
          IN  sweep' = IF v = "leave"
                         THEN [sweep EXCEPT !.todo = @ \ {s}]
                         ELSE [sweep EXCEPT !.todo = @ \ {s}, !.now = s, !.verdict = v,
                                            !.recs = harvested, !.age = cursor[s.run]]
    BY <1>4 DEF SweepClassify
  <2> DEFINE v == Classify(probe, harvested, s.lease, cursor[s.run], s.run \in flagged)
  <2>2. v = "crash" => s.lease # "live" /\ cursor[s.run] # "fresh"
    BY CrashIsSilence
  <2>3. sweep.verdict = "none" /\ sweep.at = "observe" /\ UNCHANGED store
    BY <1>4 DEF SweepClassify
  <2> HIDE DEF v
  <2>4. CASE v = "leave"
    BY <1>1, <2>1, <2>3, <2>4 DEF Sweep, v
  <2>5. CASE v # "leave"
    <3>1. sweep' = [sweep EXCEPT !.todo = @ \ {s}, !.now = s, !.verdict = v,
                                 !.recs = harvested, !.age = cursor[s.run]]
      BY <2>1, <2>5 DEF v
    <3>2. sweep'.todo = sweep.todo \ {s} /\ sweep'.now = s /\ sweep'.verdict = v
      BY <1>1, <3>1 DEF Sweep
    <3> QED
      BY <2>2, <2>3, <3>2
  <2> QED
    BY <2>4, <2>5
<1>5. DrivenIsBeaten'
  BY <1>0, BeatenInductive
<1>6. ListedSilent'
  <2> SUFFICES ASSUME sweep'.at = "observe", NEW s \in sweep'.todo,
                      s.lease # "live", cursor'[s.run] # "fresh"
               PROVE  Abandoned(s.run)'
    BY DEF ListedSilent
  <2>1. CASE SweepStart
    <3>1. PICK r \in Run : state[r] \in Occupied /\ s = Snap(r)
      BY <1>2, <2>1
    <3>2. s.run = r /\ s.lease = lease[r] /\ cursor'[r] = cursor[r]
      BY <1>2, <2>1, <3>1 DEF Snap, store
    <3>3. ~Driven(r)
      BY <1>0, <3>1, <3>2 DEF DrivenIsBeaten
    <3>4. Abandoned(r)
      BY <3>1, <3>3 DEF Abandoned, Occupied
    <3> QED
      BY <3>1, <3>2, <3>4, StaysAbandoned
  <2>2. CASE s \in sweep.todo /\ sweep.at = "observe"
    <3>1. s.run \in Run
      BY <1>1, <2>2 DEF Sweep, Snapshot
    <3>2. cursor[s.run] # "fresh"
      BY <1>0, <1>1, <2>2, <3>1 DEF Fading, Fresher, GoSilent, StoreTypeOK
    <3> QED
      BY <1>0, <2>2, <3>1, <3>2, StaysAbandoned DEF ListedSilent
  <2> QED
    BY <1>0, <1>3, <1>4, <2>1, <2>2 DEF ObserveMoves
<1>7. CondemnedIsAbandoned'
  <2>0. TypeInv'
    BY HeldSteps
  <2> SUFFICES ASSUME sweep'.at = "observe", sweep'.verdict = "crash", NEW r \in Run, r = sweep'.now.run
               PROVE  Abandoned(r)'
    BY <2>0 DEF CondemnedIsAbandoned, Abandoned, Driven, Drives, TypeInv, Judging, Snapshot
  <2>1. CASE UNCHANGED sweep
    BY <1>0, <2>1, StaysAbandoned DEF CondemnedIsAbandoned
  <2>2. ASSUME NEW s \in sweep.todo, SweepClassify(s) PROVE Abandoned(r)'
    BY <1>0, <1>4, <2>2, StaysAbandoned DEF ListedSilent
  <2> QED
    BY <1>0, <1>2, <1>3, <2>1, <2>2 DEF ObserveMoves
<1> QED
  BY <1>5, <1>6, <1>7

\* Until the host naps, and as long as no cancel and no resume moves a run
\* itself and no unit reports its own failure, the ladder never reaps work that
\* is being driven: the lease it listed and the silence it read together mean
\* that nobody is left.
THEOREM DrivenIsSafe ==
  ASSUME "failed" \notin Probes
  PROVE  Spec /\ [][~CancelApply /\ ~ResumeApply]_vars => DrivenIsNotReaped
<1> DEFINE Spared == \A r \in Run : Reaps(r) /\ spent.naps = 0 => ~Driven(r)
<1>1. Init => Vigil
  BY DEF Init, LegsInit, LadderInit, IdleSweep, Vigil, DrivenIsBeaten, Driven, ListedSilent,
         CondemnedIsAbandoned
<1>2. Held /\ Vigil /\ [Next]_vars /\ [HandsOff]_vars => Vigil'
  BY VigilInductive, StaysOff DEF Held
<1>3. Held /\ Vigil /\ [Next]_vars => [Spared]_vars
  BY DEF Vigil, CondemnedIsAbandoned, Abandoned, Reaps
<1>4. Spec /\ [][HandsOff]_vars => []Held
  BY HoldersAlways DEF Held
<1>5. Spec => [][Next]_vars /\ Init
  BY DEF Spec
<1> HIDE DEF Spared
<1>6. Spec /\ [][HandsOff]_vars => [][Spared]_vars
  BY <1>1, <1>2, <1>3, <1>4, <1>5, PTL
<1> QED
  BY <1>6 DEF Spared, DrivenIsNotReaped, HandsOff
=============================================================================
