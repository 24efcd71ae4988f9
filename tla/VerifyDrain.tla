----------------------------- MODULE VerifyDrain -----------------------------
(***************************************************************************)
(* The verification of one task: the drain loop (verify.Verifier), the      *)
(* dispatch leg and the card answers that drive it (stage), the review      *)
(* store it writes, and the human cancel beside it.                         *)
(*                                                                          *)
(* Each round mints the candidate revision, pays the judge, fills the       *)
(* revision's verdict slot, files the findings, and then ships, raises a    *)
(* card or pays a rework session for the next revision.  Every step is a    *)
(* transaction of its own, so the process may die between any two, a person *)
(* may cancel, and comments may arrive.                                     *)
(*                                                                          *)
(* The recovery ladder is reduced to what it promises (RunLifecycle): a run *)
(* nobody drives is crashed, and a crashed one is superseded by a queued    *)
(* successor while the budget lasts.  Pauses, and a leg that outlives the   *)
(* reaping of its run, are that module's subject and left out here.         *)
(***************************************************************************)
EXTENDS ReviewStore, Sequences, FiniteSets

CONSTANTS
    Client,         \* human requests in flight
    ReworkRounds,   \* verification.rework_rounds
    Patience,       \* verification.convergence_patience_rounds
    MaxForks,       \* recovery.max_attempts
    MaxGrants,      \* bound: card answers that buy another drain
    MaxFaults       \* bound: deaths of the process, failed steps, missing packs

ASSUME RoundsAssumption ==
    ReworkRounds \in Nat /\ Patience \in 1..ReworkRounds /\ MaxForks \in Nat

VARIABLES
    run,        \* the lineage's newest verify run
    marked,     \* <<run, generation>> at which a cancel was requested
    leg,        \* the goroutine that drives the run
    asks,       \* the cards raised, in order
    column,     \* the task's board column
    request,    \* what each client's request is doing
    malformed,  \* revisions whose shape the mechanical screen refuses
    recorded,   \* per run of the lineage, the rounds recorded under it
    grants,     \* card answers that resumed the drain
    faults      \* deaths, failed steps and missing packs so far

cards == <<asks, column, request, grants>>
tally == <<malformed, recorded, faults>>
vars == <<run, marked, leg, cards, tally, review>>

\* A round's blocker keys: what the stop rule compares is the set as a whole.
Blockers == {{}} \cup { {f} : f \in Finding }

Idle    == [at |-> "idle"]
NoLeg   == [at |-> "none"]
Lineage == 1..(1 + MaxForks)

\* A leg.  rounds: the history, what each round found and whether its text
\* was like the one before; start: the first round of this invocation;
\* seeded, last, recur, alike: the stop state; similar: the text it now
\* drives is like the last; batch: the comments it is consuming; kind: the
\* verdict, then the card it raises.
FreshLeg ==
    [at |-> "entry", rev |-> 1, rounds |-> <<>>, start |-> 1,
     seeded |-> FALSE, last |-> {}, recur |-> 0, alike |-> 0,
     similar |-> FALSE, batch |-> {}, kind |-> "none"]

\* The leg of an answered card: its pinned revision, its rounds, and the stop
\* state seeded with its final round.
ResumedLeg(card) ==
    [FreshLeg EXCEPT
        !.at = "guidance", !.rev = card.rev, !.rounds = card.rounds,
        !.start = Len(card.rounds) + 1,
        !.seeded = TRUE, !.last = card.rounds[Len(card.rounds)].found]

LegAt(pc)   == leg' = [leg EXCEPT !.at = pc]
Resumed     == leg.start > 1
NextRound   == Len(leg.rounds) + 1
LastRound   == leg.rounds[Len(leg.rounds)]
AttemptOf(r) == <<run.n, r>>

Init ==
    /\ run = [n |-> 1, st |-> "queued", gen |-> 1]
    /\ marked = {} /\ leg = NoLeg /\ asks = <<>>
    /\ column = "verifying"
    /\ request = [c \in Client |-> Idle]
    /\ malformed = {} /\ recorded = [n \in Lineage |-> 0]
    /\ grants = 0 /\ faults = 0
    /\ ReviewInit

-----------------------------------------------------------------------------
(* The run's transitions, as far as this leg takes them.                    *)

CanGo(to) ==
    CASE to = "running"                   -> run.st \in {"queued", "parked"}
      [] to \in {"completed", "parked", "crashed"} -> run.st = "running"
      [] to = "finalized"                 -> run.st \in {"queued", "parked"}
Moved(to) == [run EXCEPT !.st = to,
                         !.gen = IF run.st = "parked" /\ to = "running" THEN @ + 1 ELSE @]
Go(to)    == run' = Moved(to)

\* A failed step ends the leg.  A cancel requested at this generation is its
\* cause and leaves no corpse; else the run crashes where that edge exists.
LegDies ==
    /\ leg' = NoLeg
    /\ IF <<run.n, run.gen>> \in marked
          THEN marked' = marked \ {<<run.n, run.gen>>} /\ UNCHANGED run
          ELSE /\ UNCHANGED marked
               /\ IF CanGo("crashed") THEN Go("crashed") ELSE UNCHANGED run

-----------------------------------------------------------------------------
(* The drain.                                                               *)

\* claimed -> running, then the drain is entered at revision 1.
Dispatch ==
    /\ run.st = "queued" /\ leg = NoLeg
    /\ Go("running")
    /\ leg' = FreshLeg
    /\ UNCHANGED <<marked, cards, tally, review>>

\* The check pack is resolved before a fresh drain and before every round
\* after an invocation's first.  A missing one is an outage: a card.
Outage ==
    /\ faults < MaxFaults
    /\ leg.at \in {"entry", "next"} /\ ~ Resumed
    /\ leg' = [leg EXCEPT !.at = "raise", !.kind = "infra"]
    /\ faults' = faults + 1
    /\ UNCHANGED <<run, marked, cards, malformed, recorded, review>>

PackResolved ==
    /\ leg.at \in {"entry", "next"}
    /\ LegAt("mint")
    /\ UNCHANGED <<run, marked, cards, tally, review>>

\* The candidate passes to review.  A new one may be malformed, and then a
\* person decides, without a judge call.
Mint ==
    /\ leg.at = "mint"
    /\ IF Mintable(leg.rev)
          THEN /\ MintRevision(leg.rev)
               /\ malformed' \in IF leg.rev > current
                                    THEN {malformed, malformed \cup {leg.rev}} ELSE {malformed}
               /\ LegAt(IF leg.rev \in malformed' THEN "malformed" ELSE "judge")
               /\ UNCHANGED <<run, marked>>
          ELSE LegDies /\ UNCHANGED <<current, malformed>>
    /\ UNCHANGED <<cards, recorded, faults, verdicts, comments>>

Malformed ==
    /\ leg.at = "malformed"
    /\ recorded' = [recorded EXCEPT ![run.n] = @ + 1]
    /\ leg' = [leg EXCEPT !.at = "raise", !.kind = "malformed",
                          !.rounds = Append(@, [found |-> {}, alike |-> leg.similar])]
    /\ UNCHANGED <<run, marked, cards, malformed, faults, review>>

\* What the judge found becomes the round's record: no blocker ships, a
\* blocker asks for rework, and the judge may hand the decision to a person.
\* No session starts for a run that is no longer running.
Judge ==
    /\ leg.at = "judge"
    /\ IF run.st = "running"
          THEN /\ recorded' = [recorded EXCEPT ![run.n] = @ + 1]
               /\ \E ks \in Blockers, hand \in {"none", "escalate", "reopen"} :
                    /\ hand # "none" => ks # {}
                    /\ leg' = [leg EXCEPT
                           !.at = "verdict",
                           !.rounds = Append(@, [found |-> ks, alike |-> leg.similar]),
                           !.kind = IF hand # "none" THEN hand
                                    ELSE IF ks = {} THEN "ship" ELSE "revise"]
               /\ UNCHANGED <<run, marked>>
          ELSE LegDies /\ UNCHANGED recorded
    /\ UNCHANGED <<cards, malformed, faults, review>>

\* The verdict is pinned onto the revision it judged.
Verdict ==
    /\ leg.at = "verdict"
    /\ IF SlotFree(leg.rev)
          THEN SetVerdictRef(leg.rev) /\ LegAt("findings") /\ UNCHANGED <<run, marked>>
          ELSE LegDies /\ UNCHANGED verdicts
    /\ UNCHANGED <<cards, tally, current, comments>>

Findings ==
    /\ leg.at = "findings"
    /\ AddFindings(LastRound.found, leg.rev, run.n)
    /\ LegAt("decide")
    /\ UNCHANGED <<run, marked, cards, tally, current, verdicts>>

\* Mutant: a resumed drain does not compare its first round with the card's
\* last.
ObservedAfresh ==
    LET compared == leg.seeded /\ Len(leg.rounds) > leg.start
    IN  [recur |-> IF compared /\ LastRound.found # {} /\ LastRound.found = leg.last
                     THEN leg.recur + 1 ELSE 0,
         alike |-> IF compared /\ leg.similar THEN leg.alike + 1 ELSE 0]

\* stopState.observe: the rounds in a row that left the same blockers
\* standing, and those whose edits were cosmetic.
Observed ==
    [recur |-> IF leg.seeded /\ LastRound.found # {} /\ LastRound.found = leg.last
                 THEN leg.recur + 1 ELSE 0,
     alike |-> IF leg.seeded /\ leg.similar THEN leg.alike + 1 ELSE 0]

\* Mutant: the first round of an invocation is not counted.
AtCapLate == Len(leg.rounds) - leg.start >= ReworkRounds

\* The cap counts the rounds of this invocation.
AtCap == Len(leg.rounds) - leg.start + 1 >= ReworkRounds

\* SHIP ends the drain, the judge's escalation raises its card, and REVISE
\* meets the stop rules before another round is paid.
Decide ==
    /\ leg.at = "decide"
    /\ LET o     == Observed
           stops == AtCap \/ o.recur >= Patience \/ o.alike >= Patience
       IN  leg' = CASE leg.kind = "ship" -> [leg EXCEPT !.at = "ship"]
                    [] leg.kind \in {"escalate", "reopen"} -> [leg EXCEPT !.at = "raise"]
                    [] OTHER -> [leg EXCEPT
                          !.at = IF stops THEN "raise" ELSE "collect",
                          !.kind = IF stops THEN "cap" ELSE "revise",
                          !.recur = o.recur, !.alike = o.alike,
                          !.seeded = TRUE, !.last = LastRound.found]
    /\ UNCHANGED <<run, marked, cards, tally, review>>

\* A resumed drain first files the answer's guidance.
Guidance ==
    /\ leg.at = "guidance"
    /\ \E h \in Remark : AddFindings({h}, leg.rev, run.n)
    /\ LegAt("collect")
    /\ UNCHANGED <<run, marked, cards, tally, current, verdicts>>

\* The open comments are read, then stamped with the round they feed.
Collect ==
    /\ leg.at = "collect"
    /\ leg' = [leg EXCEPT !.at = "stamp", !.batch = OpenComments]
    /\ UNCHANGED <<run, marked, cards, tally, review>>

Stamp ==
    /\ leg.at = "stamp"
    /\ Drain(leg.batch, AttemptOf(NextRound))
    /\ LegAt("revise")
    /\ UNCHANGED <<run, marked, cards, tally, current, verdicts>>

\* A fresh session reworks the revision; its edits may be cosmetic.
Revise ==
    /\ leg.at = "revise"
    /\ IF run.st = "running"
          THEN /\ \E similar \in BOOLEAN :
                    leg' = [leg EXCEPT !.at = IF leg.start = NextRound THEN "mint" ELSE "next",
                                       !.rev = @ + 1, !.similar = similar, !.batch = {}]
               /\ UNCHANGED <<run, marked>>
          ELSE LegDies
    /\ UNCHANGED <<cards, tally, review>>

-----------------------------------------------------------------------------
(* The terminals of a drain.                                                *)

\* Mutant: the card of a resumed drain carries that drain's rounds alone.
CardOfInvocation ==
    [n |-> run.n, kind |-> leg.kind, rev |-> leg.rev, status |-> "open",
     rounds |-> SubSeq(leg.rounds, leg.start, Len(leg.rounds))]

\* The card carries the whole history; an outage's carries none.
Card ==
    [n |-> run.n, kind |-> leg.kind, rev |-> leg.rev, status |-> "open",
     rounds |-> IF leg.kind = "infra" THEN <<>> ELSE leg.rounds]

Raise ==
    /\ leg.at = "raise"
    /\ asks' = Append(asks, Card)
    /\ LegAt("attention")
    /\ UNCHANGED <<run, marked, column, request, grants, tally, review>>

\* verifyTerminal moves the board in a transaction of its own ...
Board ==
    /\ leg.at \in {"attention", "ship"}
    /\ column' = IF leg.at = "ship" THEN "done" ELSE "attention"
    /\ LegAt(IF leg.at = "ship" THEN "complete" ELSE "park")
    /\ UNCHANGED <<run, marked, asks, request, grants, tally, review>>

\* ... and then the run; a refused transition is a failed step.
Terminal ==
    /\ leg.at \in {"complete", "park"}
    /\ LET to == IF leg.at = "park" THEN "parked" ELSE "completed"
       IN  IF CanGo(to) THEN Go(to) /\ leg' = NoLeg /\ UNCHANGED marked ELSE LegDies
    /\ UNCHANGED <<cards, tally, review>>

\* The judge's transport, a git read or the disk fails under a step, or the
\* check pack is missing where a drain resumed with guidance needs it.
StepFails ==
    /\ faults < MaxFaults
    /\ leg.at \in {"entry", "mint", "judge", "findings", "guidance", "stamp", "revise"}
    /\ LegDies
    /\ faults' = faults + 1
    /\ UNCHANGED <<cards, malformed, recorded, review>>

LegStep ==
    \/ Dispatch \/ Outage \/ PackResolved \/ Mint \/ Malformed \/ Judge \/ Verdict \/ Findings
    \/ Decide \/ Guidance \/ Collect \/ Stamp \/ Revise \/ Raise \/ Board \/ Terminal

-----------------------------------------------------------------------------
(* Answers.                                                                 *)

Ask(c)         == asks[request[c].ask]
Requests(c, r) == request' = [request EXCEPT ![c] = r]

\* The verbs each card's category takes; a reopened specification has none.
Choices(kind) ==
    CASE kind \in {"cap", "malformed", "escalate"} -> {"accept", "revise", "cancel"}
      [] kind = "infra"  -> {"retry", "cancel"}
      [] kind = "reopen" -> {}

\* The card is read open and its run parked; then the decision is recorded.
AnswerRead(c) ==
    /\ request[c] = Idle
    /\ \E a \in DOMAIN asks :
         /\ asks[a].status = "open" /\ asks[a].n = run.n /\ run.st = "parked"
         /\ \E v \in Choices(asks[a].kind) :
              /\ v \in {"revise", "retry"} => grants < MaxGrants
              /\ Requests(c, [at |-> v, ask |-> a])
    /\ UNCHANGED <<run, marked, leg, asks, column, grants, tally, review>>

\* What a closed card told is history.
Closed(card, status) == [card EXCEPT !.status = status, !.rounds = <<>>]
Answered(a) == asks' = [asks EXCEPT ![a] = Closed(@, "answered")]

\* Mutant: the run moves although the card was closed by another answer.
AnswerTxUnchecked(c) == run.st = "parked" /\ Answered(request[c].ask)

\* The card closes and its run moves in one transaction, or neither does.
AnswerTx(c) == Ask(c).status = "open" /\ run.st = "parked" /\ Answered(request[c].ask)

\* retry and revise resume the run and drive the drain in the request.
AnswerResumes(c) ==
    /\ request[c].at \in {"retry", "revise"} /\ leg = NoLeg
    /\ AnswerTx(c)
    /\ Go("running")
    /\ leg' = IF request[c].at = "retry" THEN FreshLeg ELSE ResumedLeg(Ask(c))
    /\ grants' = grants + 1
    /\ Requests(c, Idle)
    /\ UNCHANGED <<marked, column, tally, review>>

\* accept completes the run by way of running, cancel finalizes it; the
\* board follows in a transaction of its own.
AnswerEnds(c) ==
    /\ request[c].at \in {"accept", "cancel"}
    /\ AnswerTx(c)
    /\ run' = IF request[c].at = "accept" THEN [Moved("running") EXCEPT !.st = "completed"]
                                          ELSE Moved("finalized")
    /\ Requests(c, [at |-> IF request[c].at = "accept" THEN "done" ELSE "cancelled"])
    /\ UNCHANGED <<marked, leg, column, grants, tally, review>>

\* Another answer or a cancel came first.
AnswerRefused(c) ==
    /\ request[c].at \in {"retry", "revise", "accept", "cancel"}
    /\ Ask(c).status # "open" \/ run.st # "parked"
    /\ Requests(c, Idle)
    /\ UNCHANGED <<run, marked, leg, asks, column, grants, tally, review>>

-----------------------------------------------------------------------------
(* A person cancels the task.                                               *)

\* cancelOne reads the run.  At a running one it leaves its mark, and the
\* ladder stops the session it finds; the leg then unwinds through the mark.
CancelRead(c) ==
    /\ request[c] = Idle
    /\ run.st \in {"queued", "running", "parked"}
    /\ Requests(c, [at |-> "kill", seen |-> run.st, n |-> run.n])
    /\ \/ /\ run.st = "running"
          /\ \/ /\ marked' = { m \in marked : m[1] # run.n } \cup {<<run.n, run.gen>>}
                /\ UNCHANGED leg
             \/ leg.at \in {"judge", "revise"} /\ leg' = NoLeg /\ UNCHANGED marked
       \/ run.st # "running" /\ UNCHANGED <<marked, leg>>
    /\ UNCHANGED <<run, asks, column, grants, tally, review>>

\* Then it moves the run by the edge of the state it read, a parked one with
\* its open cards.  Refused, it takes its mark back.
CancelApply(c) ==
    /\ request[c].at = "kill"
    /\ LET k  == request[c]
           to == IF k.seen = "running" THEN "completed" ELSE "finalized"
       IN  IF k.n = run.n /\ CanGo(to)
             THEN /\ Go(to)
                  /\ asks' = [a \in DOMAIN asks |->
                                IF k.seen = "parked" /\ asks[a].n = run.n /\ asks[a].status = "open"
                                  THEN Closed(asks[a], "cancelled") ELSE asks[a]]
                  /\ Requests(c, [at |-> "cancelled"])
                  /\ UNCHANGED marked
             ELSE /\ Requests(c, Idle)
                  /\ marked' = { m \in marked : m[1] # k.n }
                  /\ UNCHANGED <<run, asks>>
    /\ UNCHANGED <<leg, column, grants, tally, review>>

RequestBoard(c) ==
    /\ request[c].at \in {"done", "cancelled"}
    /\ column' = request[c].at
    /\ Requests(c, Idle)
    /\ UNCHANGED <<run, marked, leg, asks, grants, tally, review>>

\* A remark on the review surface, at any moment.
RemarkMade ==
    /\ \E h \in Remark : AddComment(h)
    /\ UNCHANGED <<run, marked, leg, cards, tally, current, verdicts>>

-----------------------------------------------------------------------------
(* The process and the ladder.                                              *)

ProcessDies ==
    /\ faults < MaxFaults
    /\ faults' = faults + 1
    /\ leg' = NoLeg /\ marked' = {}
    /\ request' = [c \in Client |-> Idle]
    /\ UNCHANGED <<run, asks, column, grants, malformed, recorded, review>>

\* A running run nobody drives is crashed by a sweep.
Reap ==
    /\ run.st = "running" /\ leg = NoLeg
    /\ Go("crashed")
    /\ UNCHANGED <<marked, leg, cards, tally, review>>

\* A crashed run is superseded while the budget lasts, then closed.
Superseded ==
    /\ run.st = "crashed"
    /\ run' = IF run.n < 1 + MaxForks THEN [n |-> run.n + 1, st |-> "queued", gen |-> 1]
                                      ELSE [run EXCEPT !.st = "tombstoned"]
    /\ UNCHANGED <<marked, leg, cards, tally, review>>

ClientStep(c) ==
    \/ AnswerRead(c) \/ AnswerResumes(c) \/ AnswerEnds(c) \/ AnswerRefused(c)
    \/ CancelRead(c) \/ CancelApply(c) \/ RequestBoard(c)

Next ==
    \/ LegStep \/ StepFails \/ RemarkMade \/ ProcessDies \/ Reap \/ Superseded
    \/ \E c \in Client : ClientStep(c)

Spec == Init /\ [][Next]_vars

\* A leg runs on until it ends and the ladder sweeps periodically; a request
\* once made is served.  People owe no request.
FairSpec ==
    /\ Spec
    /\ WF_vars(LegStep) /\ WF_vars(Reap) /\ WF_vars(Superseded)
    /\ \A c \in Client : WF_vars(AnswerResumes(c) \/ AnswerEnds(c) \/ AnswerRefused(c)
                                 \/ CancelApply(c) \/ RequestBoard(c))

-----------------------------------------------------------------------------
(* Properties.                                                              *)

\* An answer moves only the run that waits on its card: one that was read
\* against a card another answer has closed since never moves the run away
\* from the card it waits on now.
AnswerMovesItsOwnPark ==
    [][\A c \in Client :
          request[c].at \in {"accept", "revise", "retry", "cancel"} /\ request'[c] # request[c]
          /\ run' # run =>
             /\ run.st = "parked" /\ Ask(c).n = run.n /\ Ask(c).status = "open"
             /\ \A a \in DOMAIN asks : asks[a].n = run.n => a <= request[c].ask]_vars

\* What the rework session is briefed with is what the store marks consumed
\* by its attempt: a remark made between the read and the stamp is neither
\* lost nor silently marked as dealt with.
BriefIsWhatWasConsumed ==
    leg.at = "revise" =>
        { c \in comments : c.by = AttemptOf(NextRound) }
            = { [c EXCEPT !.by = AttemptOf(NextRound)] : c \in leg.batch }

\* The rounds recorded under the first n runs of the lineage.
Paid[n \in 0..(1 + MaxForks)] == IF n = 0 THEN 0 ELSE Paid[n - 1] + recorded[n]

\* The rounds a person pays for: one budget per run of the lineage and one per
\* card answered with a resume, however the drains died.
RoundsAreGranted == Paid[run.n] <= ReworkRounds * (run.n + grants)

\* The card a run waits on tells every round recorded under that run, across
\* all the drains that fed it.
CardTellsAll ==
    run.st = "parked" =>
        \A a \in DOMAIN asks :
            asks[a].status = "open" /\ asks[a].n = run.n /\ asks[a].kind # "infra" =>
                Len(asks[a].rounds) = recorded[run.n]

\* The last Patience rounds each repeated the blockers of the one before, or
\* each made cosmetic edits; a resume starts the count afresh, from the card's
\* last round.
Inert ==
    LET last    == Len(leg.rounds)
        counted == (last - Patience + 1)..last
        first   == IF leg.start = 1 THEN 2 ELSE leg.start
    IN  /\ \A k \in counted : k >= first
        /\ \/ \A k \in counted : leg.rounds[k].found # {} /\ leg.rounds[k].found = leg.rounds[k-1].found
           \/ \A k \in counted : leg.rounds[k].alike

\* The stop rules against their statement over the history: no further rework
\* is paid once the drain is inert or spent, and it stops for nothing else.
StopRule ==
    /\ leg.at \in {"collect", "stamp", "revise"} /\ ~ (Resumed /\ leg.start = NextRound) =>
          ~ Inert /\ ~ AtCap
    /\ leg.at = "raise" /\ leg.kind = "cap" => Inert \/ AtCap

\* A tombstoned verification had as many faults as the lineage has lives.
\* stage/answer.go:258 says of a drain that died after its answer that "a
\* recovered lineage re-verifies and terminates in its own card".
TombstoneIsEarned == run.st = "tombstoned" => faults > MaxForks
=============================================================================
