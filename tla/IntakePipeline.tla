---------------------------- MODULE IntakePipeline ----------------------------
(***************************************************************************)
(* The intake of one task: the pipeline (intake.Pipeline) driven by the     *)
(* dispatch leg of each intake run and, beside it, by people's requests:    *)
(* an answer to a card, a change made at the approval card, the advance     *)
(* nudge (stage.Surface).  A driver loads the document, works on its copy   *)
(* and appends it again; what the planner, the critic and the checks say is *)
(* left open.  Two drivers are never kept apart by a lock: the drivers meet *)
(* only in the transactions of IntakeGates.                                 *)
(*                                                                          *)
(* The recovery ladder is reduced to what it promises (RunLifecycle): a     *)
(* running run nobody drives is crashed, a crashed one is superseded while  *)
(* the budget lasts.  The contents of the artifacts are left out.           *)
(***************************************************************************)
EXTENDS IntakeGates

CONSTANTS
    Request,        \* people's requests in flight
    CoverageRounds, \* intake.coverage_autofix_rounds
    CritiqueRounds, \* intake.critique_revise_rounds
    Budgets         \* bounds, one of which a behaviour is held to: requests,
                    \* faults (deaths of the process, failed steps of a
                    \* drive), snags (findings of a model or a check), and
                    \* the tiers a classifier may propose

ASSUME RoundsAssumption ==
    /\ CoverageRounds \in Nat /\ CritiqueRounds \in Nat
    /\ Budgets \subseteq [requests : Nat, faults : Nat, snags : Nat, tiers : SUBSET Tiers]
    /\ Request \cap Lineage = {}

VARIABLES
    drive,      \* what the leg of each run, and each request, is doing
    pins,       \* the approval card whose plan the task ledger pins
    exec,       \* the execute run
    left        \* what is left of the behaviour's budget

vars == <<gates, drive, pins, exec, left>>

Driver == Lineage \cup Request
Idle   == [at |-> "idle"]

\* A driver: st is its copy of the document, on the run it answers for, card
\* the card it answers (0 for none), turns the phases its loop has driven.
At(d, pc)   == drive[d].at = pc
Copy(d)     == drive[d].st
Entry(d, pc, st, t) ==
    [at |-> pc, st |-> st, on |-> drive[d].on, card |-> drive[d].card, turns |-> t]

With(d, pc, st) == drive' = [drive EXCEPT ![d] = Entry(d, pc, st, drive[d].turns)]
Goto(d, pc) == With(d, pc, Copy(d))
Ends(d)     == drive' = [drive EXCEPT ![d] = Idle]
Begins(d, pc, on, k) ==
    drive' = [drive EXCEPT ![d] = [at |-> pc, st |-> doc, on |-> on, card |-> k, turns |-> 0]]

Init ==
    /\ GatesInit
    /\ drive = [d \in Driver |-> Idle]
    /\ pins = 0 /\ exec = "absent" /\ left \in Budgets

Above(tier) == {t \in Tiers : t > tier}

\* Snags are not counted down from Endless.
Endless == 99
Spend(what) ==
    /\ left[what] > 0
    /\ left' = IF left[what] = Endless THEN left ELSE [left EXCEPT ![what] = @ - 1]

clarificationRoundLimit == 2
MaxTurns == 64      \* advanceLoaded's own guard

-----------------------------------------------------------------------------
(* The dispatch leg.                                                        *)

\* dispatchIntake, up to LoadState.
Dispatch(n) ==
    /\ runs[n] = "queued" /\ At(n, "idle")
    /\ runs' = [runs EXCEPT ![n] = "running"]
    /\ Begins(n, IF doc.run = n THEN "advance" ELSE "bind", n, 0)
    /\ UNCHANGED <<doc, asks, pins, exec, left>>

\* AdvanceDispatched of a successor: it parks on the card it inherits.
BindRun(n) ==
    /\ At(n, "bind")
    /\ IF CanRebind(Copy(n), n)
         THEN /\ Rebind(Copy(n), n)
              /\ IF Copy(n).ask # 0
                   THEN Ends(n)
                   ELSE With(n, "advance", [Copy(n) EXCEPT !.run = n])
         ELSE Goto(n, "fail") /\ UNCHANGED gates
    /\ UNCHANGED <<pins, exec, left>>

-----------------------------------------------------------------------------
(* The drive: advanceLoaded.                                                *)

\* Its entry.  A terminal document is the continuation's; a gate waits.
Advance(d) ==
    /\ At(d, "advance")
    /\ IF Over(Copy(d)) THEN Goto(d, "after")
       ELSE IF Copy(d).ask # 0 THEN Ends(d)
       ELSE Goto(d, IF runs[Copy(d).run] = "running" THEN "loop" ELSE "fail")
    /\ UNCHANGED <<gates, pins, exec, left>>

\* The drive is at a phase of its loop, classification done.
Turn(d, phase) ==
    At(d, "loop") /\ ~ Copy(d).triage /\ Copy(d).phase = phase /\ drive[d].turns < MaxTurns

\* A phase ends with its document appended.
Goes(d, st) ==
    /\ AppendState(st)
    /\ drive' = [drive EXCEPT ![d] = Entry(d, "loop", st, drive[d].turns + 1)]
    /\ UNCHANGED <<pins, exec>>

\* A phase ends at a card, or fails in the attempt to issue it.
Asks(d, st, kind) ==
    /\ st.cards < MaxCards
    /\ IF CanIssue(st) THEN Issue(st, kind) /\ Ends(d)
                       ELSE Goto(d, "fail") /\ UNCHANGED gates
    /\ UNCHANGED <<pins, exec>>

\* classifyStep: the family is adopted only over the default.
Classify(d) ==
    /\ At(d, "loop") /\ Copy(d).triage
    /\ \E tier \in left.tiers, known \in BOOLEAN :
        LET st == [Copy(d) EXCEPT !.triage = FALSE, !.tier = tier, !.family = @ \/ known]
        IN  AppendState(st) /\ With(d, "loop", st)
    /\ UNCHANGED <<pins, exec, left>>

\* The planner or the critic asks back; a planner's emission is refused.
Escalates(d) == Spend("snags") /\ Asks(d, Copy(d), "escalation")
Refused(d)   == Spend("snags") /\ Asks(d, Copy(d), "emission")

\* phaseInterview: the family question, a requested review, an interview
\* below its floor, and then the draft.
FamilyGate(d) == Copy(d).tier # Trivial /\ ~ Copy(d).family

AskFamily(d) ==
    Turn(d, "interview") /\ FamilyGate(d) /\ Asks(d, Copy(d), "family") /\ UNCHANGED left

Interview(d) ==
    /\ Turn(d, "interview") /\ ~ FamilyGate(d)
    /\ Copy(d).reinterview \/ Copy(d).tier # Trivial
    /\ Asks(d, [Copy(d) EXCEPT !.reinterview = FALSE], "interview")
    /\ UNCHANGED left

Draft(d) ==
    /\ Turn(d, "interview") /\ ~ FamilyGate(d) /\ ~ Copy(d).reinterview
    /\ \/ Goes(d, [Copy(d) EXCEPT !.draft = FALSE, !.phase = "spine"]) /\ UNCHANGED left
       \/ Copy(d).draft /\ (Escalates(d) \/ Refused(d))

\* Mutant: the pending revision is cleared before the planner has answered.
ReviseEarly(d) ==
    /\ Turn(d, "spine") /\ Copy(d).revise
    /\ \/ /\ Goes(d, [Copy(d) EXCEPT !.revise = FALSE, !.contested = FALSE])
          /\ UNCHANGED left
       \/ Spend("snags") /\ Asks(d, [Copy(d) EXCEPT !.revise = FALSE], "escalation")
       \/ Spend("snags") /\ Asks(d, [Copy(d) EXCEPT !.revise = FALSE], "emission")

\* phaseSpine: a pending revision first.  It stays pending until one is
\* accepted.
Revise(d) ==
    /\ Turn(d, "spine") /\ Copy(d).revise
    /\ \/ /\ Goes(d, [Copy(d) EXCEPT !.revise = FALSE, !.contested = FALSE])
          /\ UNCHANGED left
       \/ Escalates(d)
       \/ Refused(d)

\* Mutant: one round too many.
UncoveredLate(d, st) ==
    IF st.coverage <= CoverageRounds
      THEN Goes(d, [st EXCEPT !.coverage = @ + 1, !.revise = TRUE])
      ELSE Asks(d, st, "coverage")

\* The spine's findings: a gap is fixed by another revision while the rounds
\* last, then carded.
Uncovered(d, st) ==
    IF st.coverage < CoverageRounds
      THEN Goes(d, [st EXCEPT !.coverage = @ + 1, !.revise = TRUE])
      ELSE Asks(d, st, "coverage")

Unresearched(d, st) ==
    IF ~ st.bounced
      THEN Goes(d, [st EXCEPT !.bounced = TRUE, !.revise = TRUE])
      ELSE Asks(d, st, "research")

OpenMarkers(d, st) ==
    /\ st.asked < clarificationRoundLimit
    /\ Asks(d, [st EXCEPT !.asked = @ + 1], "clarification")

Clean(d, st) ==
    Goes(d, [st EXCEPT !.phase =
                IF st.tier >= Standard /\ ~ st.critiqued THEN "critique" ELSE "approval"])

\* The spine proper; its re-checks may raise the tier first.
Spine(d) ==
    /\ Turn(d, "spine") /\ ~ Copy(d).revise
    /\ \/ Clean(d, Copy(d)) /\ UNCHANGED left
       \/ /\ Spend("snags")
          /\ \E tier \in {Copy(d).tier} \cup Above(Copy(d).tier) :
                LET st == [Copy(d) EXCEPT !.tier = tier]
                IN  Uncovered(d, st) \/ Unresearched(d, st) \/ OpenMarkers(d, st)
       \/ /\ Spend("snags")
          /\ \E tier \in Above(Copy(d).tier) : Clean(d, [Copy(d) EXCEPT !.tier = tier])

\* phaseCritique's verdicts.
Pass(d) == Goes(d, [Copy(d) EXCEPT !.critiqued = TRUE, !.phase = "approval"])

\* Mutant: the round of a critique's revision is not counted.
ReviseVerdictUncounted(d) ==
    Goes(d, [Copy(d) EXCEPT !.revise = TRUE, !.phase = "spine"])

ReviseVerdict(d) ==
    IF Copy(d).attacks < CritiqueRounds
      THEN Goes(d, [Copy(d) EXCEPT !.attacks = @ + 1, !.revise = TRUE, !.phase = "spine"])
      ELSE Pass(d)

\* A tier can only be raised; the task re-enters at the new tier.
TierUp(d) ==
    \E tier \in Above(Copy(d).tier) :
        Goes(d, [Copy(d) EXCEPT !.tier = tier, !.critiqued = FALSE, !.phase = "interview"])

Critique(d) ==
    /\ Turn(d, "critique")
    /\ IF Copy(d).tier < Standard
         THEN Goes(d, [Copy(d) EXCEPT !.phase = "approval"]) /\ UNCHANGED left
         ELSE \/ Pass(d) /\ UNCHANGED left
              \/ /\ Spend("snags")
                 /\ ReviseVerdict(d) \/ TierUp(d) \/ Asks(d, Copy(d), "doubt")
              \/ Escalates(d)

\* phaseApproval: the band is approved ungated, the rest at a card.
AskApproval(d) ==
    /\ Turn(d, "approval") /\ Copy(d).tier # Trivial /\ Asks(d, Copy(d), "approval")
    /\ UNCHANGED left

ApproveUngated(d) ==
    /\ Turn(d, "approval") /\ Copy(d).tier = Trivial
    /\ Goto(d, "approve") /\ pins' = Copy(d).cards
    /\ UNCHANGED <<gates, exec, left>>

\* A seam, the store or the ledger fails under the drive.
StepFails(d) ==
    /\ At(d, "loop") /\ Spend("faults") /\ Goto(d, "fail")
    /\ UNCHANGED <<gates, pins, exec>>

-----------------------------------------------------------------------------
(* People: an answer, a change made at the approval card, a nudge.          *)

Requests(r) == At(r, "idle") /\ Spend("requests")

\* Surface.Answer reads which run the open card is bound to.
AnswerRead(r, k) ==
    /\ Requests(r) /\ Waiting(k)
    /\ Begins(r, "read", asks[k].run, k)
    /\ UNCHANGED <<gates, pins, exec>>

\* Pipeline.Answer: the card must be the gate the document waits at.
AnswerLoad(r) ==
    /\ At(r, "read")
    /\ IF Waiting(drive[r].card) /\ doc.ask = drive[r].card
         THEN With(r, "answer", doc)
         ELSE Goto(r, "fail")
    /\ UNCHANGED <<gates, pins, exec, left>>

\* What an answer makes of the document, by the kind of its card.
Cancelled(st) == [st EXCEPT !.phase = "cancelled"]
Revising(st)  == [st EXCEPT !.revise = TRUE, !.phase = "spine"]
Reviewed(st)  == [st EXCEPT !.reinterview = TRUE, !.phase = "interview"]

Interviewed(st) == {IF st.draft THEN st ELSE Revising(st)}
Clarified(st)   == {Revising(st)}
Named(st)       == { [st EXCEPT !.family = TRUE, !.tier = t] : t \in Tiers \ {Trivial} }
Gap(st)         == {st, Revising(st)}
Researched(st)  == {Revising(st)}
Retried(st)     == {st, Cancelled(st)}
Doubted(st)     == { [st EXCEPT !.critiqued = TRUE, !.phase = "approval"],
                     [Reviewed(st) EXCEPT !.critiqued = FALSE],
                     Cancelled(st) }
Contested(st)   == { [Revising(st) EXCEPT !.contested = TRUE], Reviewed(st), Cancelled(st) }

Answers(st, kind) ==
    CASE kind = "interview"     -> Interviewed(st)
      [] kind = "clarification" -> Clarified(st)
      [] kind = "escalation"    -> {st}
      [] kind = "family"        -> Named(st)
      [] kind = "coverage"      -> Gap(st)
      [] kind = "research"      -> Researched(st)
      [] kind = "doubt"         -> Doubted(st)
      [] kind = "emission"      -> Retried(st)
      [] kind = "approval"      -> Contested(st)

\* closeAndResume; a card somebody else closed meanwhile refuses.
AnswerCloses(r) ==
    /\ At(r, "answer")
    /\ LET k == drive[r].card IN
         IF CanClose(k)
           THEN \E st \in Answers(Copy(r), asks[k].kind) :
                  /\ Close(k, "answered", st)
                  /\ With(r, IF Over(st) THEN "after" ELSE "advance", [st EXCEPT !.ask = 0])
           ELSE Goto(r, "fail") /\ UNCHANGED gates
    /\ UNCHANGED <<pins, exec, left>>

\* An answer its card does not take.
AnswerRefused(r) ==
    /\ At(r, "answer")
    /\ Goto(r, "fail")
    /\ UNCHANGED <<gates, pins, exec, left>>

\* approve: the ledger is pinned before, and outside, the closing transaction.
ApprovePins(r) ==
    /\ At(r, "answer") /\ asks[drive[r].card].kind = "approval"
    /\ pins' = drive[r].card
    /\ Goto(r, "approve")
    /\ UNCHANGED <<gates, exec, left>>

ApproveCloses(d) ==
    /\ At(d, "approve")
    /\ LET st == [Copy(d) EXCEPT !.phase = "approved", !.ask = 0]
           k  == Copy(d).ask
       IN  IF k = 0 \/ CanClose(k)
             THEN /\ IF k = 0 THEN AppendState(st) ELSE Close(k, "approved", st)
                  /\ With(d, "after", st)
             ELSE Goto(d, "fail") /\ UNCHANGED gates
    /\ UNCHANGED <<pins, exec, left>>

\* Compose at the approval card: the document again, the card left open.
Compose(r) ==
    /\ At(r, "answer") /\ asks[drive[r].card].kind = "approval"
    /\ AppendState(Copy(r))
    /\ Ends(r)
    /\ UNCHANGED <<pins, exec, left>>

\* lowerStakesAtCard: LowerTier loads the document once more ...
LowerTierLoad(r) ==
    /\ At(r, "answer") /\ asks[drive[r].card].kind = "approval"
    /\ IF Over(doc) THEN Goto(r, "fail")
       ELSE \E tier \in {t \in Tiers \ {Trivial} : t < doc.tier} : With(r, "lower", [doc EXCEPT !.tier = tier])
    /\ UNCHANGED <<gates, pins, exec, left>>

\* ... and appends it; the card's snapshot is then refreshed while it is open.
LowerTierAppend(r) ==
    /\ At(r, "lower")
    /\ AppendState(Copy(r))
    /\ IF Waiting(Copy(r).ask) THEN Ends(r) ELSE Goto(r, "fail")
    /\ UNCHANGED <<pins, exec, left>>

\* Surface.Advance.
Nudge(r) ==
    /\ Requests(r)
    /\ Begins(r, "advance", doc.run, 0)
    /\ UNCHANGED <<gates, pins, exec>>

-----------------------------------------------------------------------------
(* The continuation, and the errors.                                        *)

\* afterIntake; finishIntake completes the run ...
AfterIntake(d) ==
    /\ At(d, "after")
    /\ IF Copy(d).phase = "approved"
         THEN /\ runs' = IF runs[Copy(d).run] = "running"
                           THEN [runs EXCEPT ![Copy(d).run] = "completed"] ELSE runs
              /\ Goto(d, "launch")
         ELSE Ends(d) /\ UNCHANGED runs
    /\ UNCHANGED <<doc, asks, pins, exec, left>>

\* ... and launches the execution, which only a new or queued run takes.
Launch(d) ==
    /\ At(d, "launch")
    /\ exec' = IF exec = "absent" THEN "queued" ELSE exec
    /\ IF exec \in {"absent", "queued"} THEN Ends(d) ELSE Goto(d, "fail")
    /\ UNCHANGED <<gates, pins, left>>

\* mapDriveErr, and the leg's own crash: a run found running gets its corpse,
\* whatever the error was.
DriveFails(d) ==
    /\ At(d, "fail") /\ Ends(d)
    /\ runs' = IF runs[drive[d].on] = "running"
                 THEN [runs EXCEPT ![drive[d].on] = "crashed"] ELSE runs
    /\ UNCHANGED <<doc, asks, pins, exec, left>>

\* The execute leg starts from the approved document and no other.
ExecuteStarts ==
    /\ exec = "queued"
    /\ exec' = IF doc.phase = "approved" THEN "started" ELSE "refused"
    /\ UNCHANGED <<gates, drive, pins, left>>

-----------------------------------------------------------------------------
(* Death and the ladder.                                                    *)

Drives(d, n) == ~ At(d, "idle") /\ (drive[d].on = n \/ Copy(d).run = n)

ProcessDies ==
    /\ Spend("faults")
    /\ drive' = [d \in Driver |-> Idle]
    /\ UNCHANGED <<gates, pins, exec>>

Reap ==
    /\ runs[Newest] = "running" /\ ~ \E d \in Driver : Drives(d, Newest)
    /\ runs' = [runs EXCEPT ![Newest] = "crashed"]
    /\ UNCHANGED <<doc, asks, drive, pins, exec, left>>

Fork ==
    /\ runs[Newest] = "crashed"
    /\ runs' = [n \in Lineage |->
                    IF n = Newest THEN "tombstoned"
                    ELSE IF n = Newest + 1 THEN "queued" ELSE runs[n]]
    /\ UNCHANGED <<doc, asks, drive, pins, exec, left>>

Phases(d) ==
    \/ Classify(d) \/ AskFamily(d) \/ Interview(d) \/ Draft(d) \/ Revise(d)
    \/ Spine(d) \/ Critique(d) \/ AskApproval(d) \/ ApproveUngated(d)

Drive(d) ==
    \/ Advance(d) \/ Phases(d) \/ StepFails(d) \/ ApproveCloses(d)
    \/ AfterIntake(d) \/ Launch(d) \/ DriveFails(d)

Person(r) ==
    \/ \E k \in Card : AnswerRead(r, k)
    \/ AnswerLoad(r) \/ AnswerCloses(r) \/ AnswerRefused(r) \/ ApprovePins(r)
    \/ Compose(r) \/ LowerTierLoad(r) \/ LowerTierAppend(r) \/ Nudge(r)

Next ==
    \/ \E n \in Lineage : Dispatch(n) \/ BindRun(n)
    \/ \E d \in Driver : Drive(d)
    \/ \E r \in Request : Person(r)
    \/ ExecuteStarts \/ ProcessDies \/ Reap \/ Fork

Spec == Init /\ [][Next]_vars

-----------------------------------------------------------------------------
DriveStates ==
    {Idle} \cup
    [at : {"bind", "advance", "loop", "approve", "read", "answer", "lower", "after",
           "launch", "fail"},
     st : Documents, on : Lineage, card : 0..MaxCards, turns : 0..MaxTurns]

\* The state is well typed, and no document has spent more rounds than it had.
IntakeTypeOK ==
    /\ doc \in Documents
    /\ doc.coverage <= CoverageRounds /\ doc.attacks <= CritiqueRounds
    /\ doc.asked <= clarificationRoundLimit /\ doc.ask <= doc.cards
    /\ \A k \in Card : asks[k] = NoAsk \/
         asks[k] \in [st : {"open", "answered", "approved"}, kind : CardKind, run : Lineage]
    /\ runs \in [Lineage -> {"absent", "queued", "running", "parked", "completed",
                             "finalized", "crashed", "tombstoned"}]
    /\ \A d \in Driver : drive[d] \in DriveStates
    /\ pins \in 0..MaxCards
    /\ exec \in {"absent", "queued", "started", "refused"}

\* "Gates wait": however many drivers there are, one card at most is open,
\* and the run it is bound to is parked until it is answered.
GatesWait ==
    \A j, k \in Card :
        /\ Waiting(k) => runs[asks[k].run] = "parked"
        /\ Waiting(j) /\ Waiting(k) => j = k

\* A task approved at a card is never asked anything again.
ApprovalIsFinal ==
    \A j, k \in Card : asks[k].st = "approved" /\ j > k => asks[j] = NoAsk

\* What the requester contested at an approval card is answered by an accepted
\* plan: a planner that asks back, or whose answer is refused, does not lose
\* the objection, and no plan goes past the spine before it.
ObjectionsAreHeard == doc.contested => doc.phase \notin {"critique", "approval", "approved"}

\* advanceLoaded's loop settles: whatever the models and the checks say, a
\* drive takes no more turns than the budgets of its rounds pay for, and so
\* (the settings allow two rounds of each) never meets its own guard.
TurnsPaidFor ==
    4 + 2 * (CoverageRounds + 1) + 3 * CritiqueRounds + 3 * Cardinality(Above(Standard))

DriveSettles ==
    \A d \in Driver : ~ At(d, "idle") => drive[d].turns <= TurnsPaidFor
=============================================================================
