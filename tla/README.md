# Verification of the Sinet Agentic Control Hub

TLA+ models, TLC runs and TLAPS proofs of the coordination core of the hub: the
Go program under `internal/` that takes tasks, runs them through engine
sessions, recovers what a crash or a suspend interrupted, and lands accepted
work on a project's branch. All paths below are relative to the repository
(`src/` in `PROJECT.json`).

Every definition is a reading of the Go source; the documents were used to find
the code and to learn what it promises. `PROJECT.json` maps each definition to
its lines, lists each run and the mutant that shows each property bites, and
lists the hazards the properties are there for.

## 1. Inventory

The hub is one process over one SQLite file with a single writer connection: a
write transaction is one atomic step, everything a caller read before it may be
stale. Concurrency comes from goroutines (claim loop, dispatch legs, lease
keepers, sweep, watchdog, HTTP handlers), from the clock, from host suspends and
from process death. There is no distributed part except the git remote.

| component | state | operations | hard part | what makes it correct |
|---|---|---|---|---|
| run store (`run`) | `runs`: state, generation, lease, parent, attempts | `TransitionTx`, `BumpGenerationTx`, `RenewLeaseTx`, `CreateTx`, `SuccessorOfTx` | transitions are checked against the row's present state, appends and renewals against the generation | only ratified edges; a superseded holder can neither append nor renew |
| lease keeper (`run/lease.go`) | one timer per held run | `Hold`, `beat`, `Beat` | a beat is late, fails, or meets a suspend | a held run is not declared dead; an abandoned one is, in time |
| event log (`eventlog`) | `run_events` | `AppendTx`, `checkGeneration` | fencing of zombie writers | an append carries the row's generation |
| scheduler (`scheduler`) | `queue`, lane counters | `Enqueue`, claim pass, dispatch, settlement, park in flight | each pass works from lists read outside its transactions | queue and run rows agree; a receipt means an ended run; lane caps |
| recovery ladder (`recovery`) | the pass in flight | observe, classify, harvest, flag, crash-and-bound, fork | the act comes transactions after the reading | one successor per interruption, bounded attempts, nobody left undecided, no end without a card |
| stage skeleton (`stage`) | live sessions, cancel marks, worktrees | a leg per role (intake, execute, verify), handover to the next role, cancel, resume, card answers, pause | a leg is a chain of separate writes, any of which may be the last | a cancel ends what it names; finished steps stay finished; verification gets the whole work |
| task ledger (`ledger`) | typed updates in the event log, projected | state upserts, pins, assembly | a resume reads back what a dead attempt wrote | the record of the plan is a prefix of the plan |
| intake (`intake`) | one document appended to the event log, card rows | `Advance`, card answers, tier changes, approval | drivers hold private copies of the document, nothing but the card's closing keeps two apart | one card opens at a time and moves the task once; approved is final; objections are heard; a drive ends |
| verification (`verify`) | the drain's history on the stack, rounds in the event log, cards | drain rounds, stop rules, escalation, resume with guidance | the history crosses cards, crashes and runs | bounded rounds, no rework past the stop rules, cards that tell everything |
| review store (`review`) | deliverables, revisions, comments | mint, file findings, drain, verdict reference, accept | a drain reads before it stamps; a verdict slot fills once | a batch is what its session was told |
| port pool (`portpool`) | reservation and lock files | allocate, release, from several processes | only single file operations are atomic | a dead owner's port comes back; a live one's is not taken |
| previews (`preview`) | sessions in memory, listeners, routes of the proxy | launch, stop | the pool does not know what is bound; a stop is four releases | live means served, over means clean |
| watchdog (`watchdog`) | flags, suppressions | tier rules, `parkAndFlag` | parks a run its leg is driving | containment, never a kill |
| metering (`metering`) | receipts, caps | materialize per run end | | one receipt per ended run |
| effect journal (`gates`) | `effects` | propose, approve, begin, finish, deny, reconcile | at-least-once execution after a crash | no outcome is invented, a finished effect is not repeated |
| accept ceremony (`accept`, with `project`, `broker`, `review`) | effects, branches, deliverables, in-flight table | `Accept`, `executeAccept`, `ReDriveApproved` | push reply lost, other pushes, stacked accepts, re-drive beside live calls | work lands once, nothing is overwritten, accepted means landed |
| composition root (`shell`) | none durable | startup order, loops | HTTP is served before the ladder has run | |
| auth, settings, backup, retention, memory, push, chat, watchlist, history, benchmark, evals, conformance, worker, local, sandbox, web client | | | | not modelled, see section 7 |

Interaction: the claim loop turns a queued run into a claimed one and starts a
leg; the leg moves the run, and its keeper beats the lease; the ladder reads
leases and newest events and takes runs over; verbs, cards and the watchdog move
runs under a leg's feet; a leg notices only at its next transaction. A task is
three roles one after the other: its intake ends in an approved plan, its
execution works the plan through, its verification drains the deliverable
through judge and rework until it ships or a card asks a person. Each role's
last write launches the next one's run. A finished deliverable goes to the
accept ceremony, whose journal the ladder's pass also reconciles. Previews hold
ports of a pool that a second process may use.

## 2. Modules

```
RunFSM ── RunStore ─┬─ DispatchLegs ─┬─ ClaimLoop  ─┐
                    │                └─ OwnerVerbs ─┼─ RunLifecycle ─ MCRunLifecycle
                    └─ RecoveryLadder ──────────────┘        └─ RunLifecycleProofs
LeaseKeeper ─ LeaseKeeperProofs
IntakeGates ─ IntakePipeline ─ MCIntakePipeline
                  └─ IntakePipelineProofs
PlanPromise ··(implemented by)·· ExecuteLeg ─ ExecuteLegProofs
ReviewStore ─ VerifyDrain ─ MCVerifyDrain
                  └─ VerifyDrainProofs
EffectJournal ─ AcceptCeremony ─ MCAcceptCeremony
                     ├─ AcceptCeremonyProofs
                     └·(implements)·· LandingLog
PortPool ─ PreviewSessions ─ MCPreviewSessions
               └─ PreviewSessionsProofs
```

The run lifecycle is modelled once, whole. The three roles stand on what it
promises and do not repeat it: in IntakePipeline, ExecuteLeg and VerifyDrain a
running run nobody drives is crashed, and a crashed one is superseded while the
budget lasts (`Reap`, `Fork`).

* **RunFSM**: the states and ratified edges of `run/run.go`, terminality, the
  edge that bumps the generation.
* **RunStore**: the tables the actors share, and the transaction bodies
  (`Transition`, `Append`, `Renew`, `Birth`, `Materialize`, `SettleTerminal`).
  Time is kept as what the code compares it with: a lease is live or lapsed, a
  run's newest event fresh, stale (older than `recovery.dead_after`) or ancient
  (older than `recovery.stale_finalize`).
* **DispatchLegs**: the goroutine that drives a run, from the claim or from a
  card's answer. Its `pc` follows `dispatch`, `dispatchIntake`,
  `dispatchExecute` and `crashWith`; it holds the generation it was given.
* **ClaimLoop**: `launchRole`'s two transactions, `Enqueue`, and a claim pass:
  orphan rows, settlement of ended rows, candidates, one compare-and-swap claim
  per candidate.
* **RecoveryLadder**: a pass as the code walks it: list the occupied runs, read
  each one's probe, engine store and newest event, act in a later transaction,
  then list the crashed runs and take the bound decision for each.
* **OwnerVerbs**: cancel of a run and of a task, resume, gate answer, the ladder
  card's retry and cancel, the watchdog's and the maintenance parks.
* **RunLifecycle** composes them, adds time (`Lapse`, `GoSilent`), the host's
  suspend (`Nap`) and `ProcessCrash`, and states the properties.
* **LeaseKeeper** has real clocks: the keeper's grid of ticks, late and failed
  beats, the sweep's grace, suspends that stop timers and not the wall clock. It
  justifies what RunLifecycle takes for granted: `Lapse` only for undriven runs
  while the host has not napped.
* **EffectJournal** and **AcceptCeremony**: the class-A effects of
  `gates/effects.go` and the accept of `accept/accept.go`. A commit is the
  history it ends; a squash appends `<<effect, approval instant>>`, which is
  what makes a replay reproduce the same commit and an expired and renewed
  approval a different one.
* **LandingLog** is the abstract specification of accepting: a log that only
  grows, which an effect enters once, for a deliverable claimed before, and a
  deliverable is accepted only for an effect in it. AcceptCeremony maps the
  branch's entries to the log, the effects' pinned deliverables to the claims.
* **IntakeGates** is what an intake keeps: the document, whose newest appended
  copy is the state; the numbered cards; the lineage of intake runs. Its
  operations are the transactions: `Append`, `Issue` (card, park and document in
  one), `Close`.
* **IntakePipeline** has the drivers: the leg of each intake run and people's
  requests, each working on its own copy. The phases are `advanceLoaded`'s
  (classification, interview, drafting, revision, spine checks, critique,
  approval), and each kind of card has its answer. What the planner, the critic
  and the checks say is open.
* **ExecuteLeg** drives the steps of an approved plan: restore, seed, one or two
  sessions a step, deliverable, close snapshot, record, handover. A tree is the
  sequence of pieces of work it holds, each with its step, the run that did it
  and whether its session ended; that is enough to tell a resumed tree with a
  dead attempt's residue, or without a step, from a clean one.
* **PlanPromise** is the abstract specification of an execution: steps are
  recorded in order, another life goes back no further than the prefix its
  evidence supports, verification is handed the whole plan. ExecuteLeg maps
  `done` to the recorded prefix, `kept` to the prefix `resumeFrom` derives,
  `handed` to the existence of a verify run.
* **ReviewStore** and **VerifyDrain**: revisions, findings and remarks of one
  deliverable, and the drain that mints, judges, fills the verdict slot, files,
  and ships, raises a card, or collects, stamps and reworks. Its history and
  stop state are the leg's; a card carries them across to a resume. Two people
  answer, remark and cancel beside it.
* **PortPool**: the reservation directory one file operation at a time
  (`tryClaim`'s link, `reclaimAndClaim`'s lock, the breaking of a dead holder's,
  re-check, remove and link), with one call at a time inside a process. A
  release may fail and leave the reservation.
* **PreviewSessions** composes it with the hub's manager (reserve, bind, advance
  past squatted ports, route, stop in four steps), the proxy, other programs on
  the ports and clients of the pool's daemon. A route call that fails may have
  taken effect in part, in full, or take effect later (`RouteFails`,
  `StopRouteFails`, `RouteLands`); a release that fails is ignored by a launch
  (`LetGoFails`, `ReturnFails`) and keeps the session of a stop
  (`StopPortFails`, `StopGivesUp`). A session that may have left something behind
  is `over`, and its name is not used again.

Choices a reader should know:

* One owner and one lane (their counters are independent), interactive work
  only, and the priority order left open: any candidate may be next.
* One task; one human request in flight at a time, gate answers apart. Every
  request is read step, then apply step, except that `ladderRetry`'s read of the
  generation is in the applying transaction.
* Candidates and the occupied count are read together; both are used only in
  the pass that read them.
* `draining` and `running -> tombstoned` are in the edge table and no production
  caller takes them; `died-at-gate` likewise.
* A driven run is beaten for before `dead_after` (the settings refuse a
  heartbeat above half of it), and a sweep judges its list sooner than that.
* In AcceptCeremony `markInflight` is one step with the push's reply, and an
  approval expires only when it waited for a boot. The content-pinned arm (one
  transaction) and the sibling-freshness trigger are left out. Two approvals in
  the same second, or a signature kind that is not deterministic, are not
  modelled.
* A hold whose first pin or settings read fails never beats; `HeldIsNotReaped`
  does not speak of it (`beaten`).
* In IntakePipeline the contents of the artifacts, the lane pin and the delta
  cards (their only entry, `CheckApprovalStale`, has no production caller) are
  left out, as is the `Cancel` verb, which no route reaches.
* In ExecuteLeg a session's work is one piece however many files it touches; a
  task without a project has no tree and no evidence, so it resumes from step 1.
* In VerifyDrain the judge may give any verdict and any set of findings its
  schema allows; the research gate, integrity cards, canaries and the
  `Regenerate` seam, which nothing wires, are left out. A card for a changed
  specification takes no verb and only waits.
* In PreviewSessions only the static lane holds a port; checkouts and clones are
  left out, and two concurrent `Stop` calls of one session, which share its
  fields without a lock, are not modelled. Of the failures of the pool's own file
  operations only that of a release is.

## 3. Runs

| run | instance | what it asks |
|---|---|---|
| `core` | 3 run ids (one root, two successor ids), 1 attempt, lane of 1, one crash, one nap, one park; units gone or still active (1.6 million states) | the fence, one successor, budget, queue, receipts, cards, "driven is not reaped" under everything but human requests |
| `verbs` | one human request, no crash, naps or parks; units gone or finished, silence may be ancient (3.6 million states) | what a decision on a stale row can break: a second successor, a receipt for a run that goes on; harvest and finalize paths: no end by the ladder without a card |
| `live` | `LiveSpec`, one crash | no run and no corpse is left undecided |
| `leases` | heartbeat 1, dead_after 3, grace 1, sweep 2, delay 1, one beat in a row lost, horizon 15 | the keeper outruns the sweep; the sweep finds the abandoned |
| `intake` | two requests, four tiers, two cards, one successor, one round of each kind; budgets `Crowd`, `Faulty`, `Attacked`, `Alone` (2.6 million states) | gates, approval, objections and the end of every drive, whoever drives |
| `steps` | three steps, two successors, three faults, two failed snapshots, one stray session, one pause; fair (0.9 million states) | the plan's record, the trees and the deliverable across lives; the refinement of PlanPromise; the end of the execution |
| `drain` | two rework rounds, patience 1, two findings, one remark, two clients, one successor, one grant, one fault (6.5 million states) | rounds, stop rules, cards, batches and answers |
| `accept` | two effects, two deliverables, three approvals, two crashes, one foreign push, remote or not | lands once, accepted is landed, branches only grow |
| `previews` | two previews, one client of the daemon, two ports or one; settings `Crowded`, `Squatted`, `Troubled`, `Hurried`, `Pressed`, `Deadly`, `Scarce`; fair (1.3 million states) | the cap, what a live and an ended preview hold whatever calls fail, the pool's recovery from lost reservations and locks |
| `recovered`, `orphan`, `reclaim` | see section 6 | what a comment says and the code does not do |

Why the bounds are enough to matter. With `MaxAttempts = 1` a root is forked
once, its successor exhausts the budget, and the second spare id is there for a
human retry: every branch of the bound decision is taken. The invariants about
one lineage need a run, its successor, and one more. One nap makes every lease
of every live leg lapse at once, the hardest case for the fence; one crash at
any step loses a pass, a leg or a request half way. In `leases` the constants
are the smallest with which a beat may be both late and lost and a sweep fall
between; the horizon is past the bound of `DeadInTime`. In `accept` two effects
are needed to stack; three approvals allow one to expire and be given again;
two crashes allow the replay itself to be interrupted. `MaxGen` keeps resumes
from counting for ever. In `steps` three steps are the fewest with a first, a
middle and a last, and two successors let a resume be resumed; a lapse leaves a
recorded step without evidence, the only way a life goes back over recorded
work. In `drain` two rounds and patience 1 make the cap and the stop rule bite
at different rounds; a grant and a successor each begin a drain with a history.
In `intake` and `previews` the bounds would multiply, so a behaviour is held to
one of several budgets: many people and no fault, a fault and two people, an
attacked plan and two people, any findings and one person; and of previews a
full house with a client, squatters beside failing calls, hasty stops beside
either, or deaths. `Scarce` has one port and two deaths: a reclaimer that dies
leaves the only port locked, and no other port can stand in for it, so
`PoolRecovers` there rests on the breaking of the lock. Combinations across
budgets (a death during a hasty stop, say) are not checked. The budgets are initial values, not
constraints, and each behaviour is whole. Deadlock checking is off where tasks
really end.

Every property of a passing run has a mutant: an alternative body of one mapped
definition, the way a plausible bug would read, kept beside the original. TLC
finds the property violated under the run's own configuration.

## 4. Liveness and fairness

`LiveSpec` of RunLifecycle assumes weak fairness of the ladder's next step (the
sweep is a ticker loop that survives errors, and the startup pass runs before
the loops), of leases lapsing, and strong fairness of a run falling silent,
which is time passing: a sweep that has the run on its list postpones it, not
for ever. Nothing is assumed of legs, claim loop or people: a leg may hang for
ever, so `UndrivenIsDecided` is about runs nobody drives.

`FairSpec` of ExecuteLeg assumes that the scheduler dispatches a queued run, that
a leg that is alive goes on (every call it makes returns, if only by its
timeout), and that the ladder reaps and forks; not that faults stop, which a
bound does, nor that a person lifts a pause or resumes a parked run.
`ExecutionSettles` then says that the execution completes, is parked, or has used
up its lives.

`FairSpec` of PreviewSessions assumes that goroutines run on, that a client takes
its answer, that reservations and locks age, which is time passing, and that
somebody goes on asking for ports: a pool recovers a stale reservation only when
it is asked for one. Ageing waits only for the call that made the file, which
ends long before two days, or half a minute for a lock, have passed. `FairSpec` of VerifyDrain, which only
`recovered` uses, assumes a leg, the ladder and a request once made go on.

Liveness is model-checked only.

## 5. Proofs

`LeaseKeeperProofs`, for all cadences that `SettingsAssumption`,
`ToleranceAssumption` and `EnvironmentAssumption` admit:

* `TypeCorrect`.
* `HeldRunIsSpared` (`HeldIsNotReaped`). A reaping sweep finds `now` past the
  deadline. `OnTime` says the clock is at most `Delay` past the keeper's next
  tick, and `Covered` that the deadline is beyond that tick by `Delay` and by a
  heartbeat for every beat that may still be lost (`Reserve`). `Covered` is the
  strengthening: the invariant alone says nothing of how much lease is left when
  a beat fails.
* `AbandonedRunIsReaped` (`DeadInTime`). `LeaseSpends` bounds the lease left
  behind, `CursorSpends` the newest event, with the one wedge flag a sweep may
  take on the last live lease, `SweepFollows` the last sweep that found either
  unspent; the next sweep is one interval later.

`RunLifecycleProofs`, for any finite set of runs with any roots, forkable roots
or bounds (`RunAssumption`, `AttemptsAssumption`, `LaneCapAssumption`,
`MaxGenAssumption` and the assumptions on the environment's answers):

* `TypeCorrect` (`TypeOK`), one lemma per component.
* `TakeoverFences` (`SupersededIsFenced`), `TakenOverOnce` (`OneSuccessor`),
  `BudgetHolds` (`AttemptsBounded`). Three facts about one lineage that only hold
  together, within `Lineage`: a superseded row has ended and stays so
  (`ParentsEnded`), every leg still on it is a generation behind
  (`ParentsFence`), a card stands only on a terminal row (`CardsEnd`) that has no
  successor (`OpenCardIsChildless`), and the crashed runs a pass has listed are
  still ended, have no card and are decided once (`ListIsEnded`, `DecidedOnce`).
  Without the last two a pass could fork from a list that a retry has overtaken.
  The proof does not follow the actions one by one for each conjunct: lemmas
  `LegStepEffect` to `SweepEffect` reduce every step to one of four effects
  (`Effect`: quiet, a card opening, a takeover by the ladder, a takeover by the
  owner at a card), and each conjunct is preserved by the effects.
* `ReceiptsAssertTheEnd` (`ReceiptsAreFinal`). Strengthened with
  `ListedAreTerminal`: what a claim pass read as terminal still is when the
  receipt is written, because no edge leaves a terminal (`TerminalStays`).
* `QueueAndRunsAgree` (`QueueAgrees`). Strengthened with what the claim loop's
  lists still mean when it writes from them: a run listed without a row waits or
  has ended (`OrphansWait`), one listed as ended has (`EndedRowsEnd`). Every
  step is reduced to how it moves a row and its queue row (`Queued`, `Done`).
* `LadderEndsWithDoor` (`EndsWithDoor`), for any answers of the probes and the
  engine store; the runs check it for units that are gone, active or finished.
* `OnlyRacesOrphanCards` (`OnlyRacesOrphan`): among all steps, only a cancel that
  meets a row in another state than it read (`RacedCancel`) leaves an open gate
  card on a run that is not parked. It needs that a freshly claimed leg is alone
  with its run (`FreshLegs`), that a run with legs was claimed (`LegsStarted`)
  and that a resume's run waits without a card (`ResumeWaits`).
* `AskedIsParked` (`OpenAskIsParked`), as long as no cancel races. The hypothesis
  is needed: the run `orphan` shows the race.
* `DrivenIsSafe` (`DrivenIsNotReaped`), as long as no cancel and no resume moves
  a run and no unit reports a failure of its own. `Vigil` is the strengthening:
  until the host naps, a driven run's lease is live or its newest event fresh
  (`DrivenIsBeaten`), and what a sweep has listed with a lapsed lease and read
  as silent is abandoned for good (`ListedSilent`, `CondemnedIsAbandoned`). For
  good, because at most one leg holds a run (`Holders`) and an abandoned park has
  no card. A resume breaks just that: it starts no leg, so a sweep may condemn
  the run; the leg of the earlier generation, whose transition is not fenced,
  then parks it on a card, an answer drives it again, and the sweep reaps it. The
  runs leave requests out of this property for the same reason. A unit that
  answers `failed` is reaped whoever waits for it, by design.

`ExecuteLegProofs`, for any number of steps and successors and any bounds
(`PlanAssumption`). The first half does not depend on the trees:

* `Invariant`: `IInv` is the shape of the records (`Shape`), that a leg drives a
  running run and only a completed one is handed over (`Standing`), the course
  of the plan (`Course`) and the deliverable's way into the ledger (`Filing`).
  `Course` is the heart: the recorded steps and the steps with evidence are each
  a prefix of the plan (`Recorded`), and where the leg stands says which
  (`Placed`): between `restore` and `seed` it holds the resumable prefix it read,
  at a step exactly the earlier steps are recorded. Without `Placed` the seed
  could reopen a step in the middle.
* `Delivered` (`DoneMeansDelivered`) from `Filing`: the points between writing
  the file and recording the last step know whose file it is.
* `Implements` (`PlanIsKept`): ExecuteLeg refines PlanPromise. `DonePrefixIs` and
  `ResumeIndexIs` turn the two readings, which choose a prefix, into the ones
  `Course` states; `StepMaps` then goes through the actions: recording a step is
  `FinishStep`, seeding is `Resume`, creating the verify run is `HandOver`, and
  every other step leaves the three readings alone (`QuietStutters`).
* `NothingIsLost` (`ProgressIsKept`): no step of the system ever shrinks the
  prefix a successor resumes from, which the refinement says, and none changes
  the record or the snapshot of a step recorded done (`DoneIsKept`), with one
  exception: a successor's seed sets the steps past its resume point, whose
  snapshots were lost, back to pending.

The second half is about them (`NoTreeAssumption`: the marker for an absent tree
is no tree):

* `TreesHold`: `Trees` says what the worktree holds at each point of a leg.
  `Grown` is its heart: in a project's worktree that no stray session worked in,
  the evidence of step i is the whole of steps 1 to i, a leg between two steps
  stands on the whole of what it has recorded, and a leg inside a step on that
  and its own unfinished work (`Underway`). A dead attempt's residue is on disk
  only while no leg is past `restore`, which is why the successor must restore
  before it seeds. `Plain` is the same for a directory that is not backed.
* `VerifiedIsWhole` (`WholeWorkIsVerified`) and `StepsBuild`
  (`StepsBuildOnFinishedWork`) are read off it, `TypeCorrect` (`ExecuteTypeOK`)
  off both invariants.

`IntakePipelineProofs`, for any set of tiers with a highest, any number of cards,
successors, requests and rounds, and any budgets (`TiersAssumption`,
`BoundsAssumption`, `RoundsAssumption`):

* `Invariant`: `IInv` says what the tables say of each other (`Order`), what
  every document says of them (`Good`, of the stored one and of each driver's
  private copy, which may be far behind), and where a driver may stand with its
  copy (`Driving`). Nothing locks two drivers out of each other, so everything a
  driver may later append has to be known of its copy already.
* `GatesHold` (`GatesWait`): at most one run of the lineage is alive (`OneAlive`)
  and a card can be issued only for a running run, so no card is open beside it
  (`RunningIsAlone`); a successor takes an open card over by parking.
* `ApprovedStays` (`ApprovalIsFinal`): a copy that may still go on has not passed
  an approved card (`Unpassed`), because each card is issued at the next number
  its copy knows and that number must be free. `AnsweredStaysGood` and
  `IssueKeeps` carry this over to the copies of other drivers.
* `ObjectionsStay` (`ObjectionsAreHeard`): an objection is pending at the planner,
  in the spine, or its requester has cancelled (`Heard`); an answer moves a
  document only from the phase of its card (`Matched`).
* `DrivesSettle` (`DriveSettles`): `Rank` counts the turns the unspent rounds and
  the tiers not yet raised may still take; each turn lowers it by one
  (`RankFalls`, `GoesKeeps`), and it begins within what is paid for
  (`RankIsPaid`). The bound is closed in the constants, so the loop's own guard
  is met only if the settings pay for more turns than it allows.
* `TypeCorrect` (`IntakeTypeOK`).

`PreviewSessionsProofs`, for any range of ports, any finite set of previews, any
clients of the daemon and any settings (`RangeAssumption`, `PreviewAssumption`):

* `Invariant`: `IInv` has one part for the pool's calls (`Callers`), one for the
  cap (`Slots`), and for each preview where it stands (`Kept`) and what is
  reserved in its name (`Owning`). `CallMoves` is all the proof needs of the
  pool's protocol: a step of a call at most frees its port or takes it for the
  call's owner. Nothing says that a reservation is exclusive; a reclaim may take
  it from its owner, and the three theorems hold all the same. Of a preview that
  was stopped while it was launching `Kept` says nothing but that.
* `CapHolds` (`CapHeld`): the holder of the mutex has room for one more, and only
  it is between the check and the map. Without that part of `Slots` the count
  says nothing of the launch that is about to be counted. Sessions stopped while
  they were launching are not counted: such a launch may take a port anew.
* `LiveStaysServed` (`LiveIsServed`): a session's listener is its own from the
  bind to the close (`Listening`), whoever the port's reservation belongs to by
  then; a route call given up on can only land after the server it was for is
  closed (`Routed`).
* `OverStaysClean` (`OverIsClean`): a session that is over, and was not stopped
  while launching, has no listener and no place in the manager's list. A
  reservation in the name of a preview is at its port, among the ports it found
  bound, one whose release failed, or the answer its call has not handed over yet
  (`Owning`); each way out of a launch or a stop returns all but the third. A
  route is left only where `AddRoute` failed; a stop that failed anywhere is not
  over (`Stopping`).

`VerifyDrainProofs`, for any clients, findings, remarks and faults, any rounds,
patience, successors and grants (`AttemptAssumption`: the marker for no attempt
is no attempt, and the settings' own bounds):

* `DrainHolds`: `IInv` has eight parts. `Shape`, `Driven` and `Slots` are the
  types, that a leg drives a running run, and whose verdicts are filled. `Cards`
  says that the card a parked run waits on is the last one raised and the only
  open one of its run; `Wishes` that a request's card is that one or is closed.
  `Reckoned` counts: wherever the leg stands, the rounds recorded under its run
  are those of its history, and no attempt past them has consumed a comment. The
  exception is named: a drain that starts over where revision 1 is judged
  (`Doomed`) ends at its verdict slot, the defect the run `recovered` shows.
  `Paced` ties the stop counters to the history. The proof restates each action
  field by field as one of a few kinds (`StepKind`), and each part is preserved
  by the kinds.
* `CardTells` (`CardTellsAll`) from `Cards` and `Reckoned`; `BriefHolds`
  (`BriefIsWhatWasConsumed`), where `Reckoned` gives that the attempt about to be
  stamped has consumed nothing yet.
* `StopsAsRuled` (`StopRule`): `Trails` says that each counter is the longest run
  of equal (or alike) rounds at the end of the history, within the drain.
* `AnswersOwnPark` (`AnswerMovesItsOwnPark`): two people who read the same card
  hold two requests; the second finds the card closed (`Wishes`).
* `RoundsGranted` (`RoundsAreGranted`) is a second invariant on the first. What a
  recursive sum is for every input cannot be proved here, so `Purse` bounds
  every function that adds up the recorded rounds, and `Summed` says that one
  exists; the sum of the property is one. `Spent` is what the present drain has
  used of its grant: a fork and a resume each open a new grant, and a drain
  never exceeds its own (`Paced`).

`AcceptCeremonyProofs`, for any effects, deliverables, crashes and other pushes,
with and without a remote (`NamesAssumption`: the names are distinct):

* `CeremonyHolds`: an effect's base never changes once it is proposed and is
  always a prefix of the branch (`Based`), and its entry comes right after that
  base (`Placed`). So the lease of a push, and the fast-forward of a local
  landing, leave its commit one place only. `Drivers` and `Pinned` say where a
  driver may be with an effect the journal holds in each state; `InflightIsPushed`
  that the in-flight table never points at work that was not pushed.
* `LandsOnce` (`EffectLandsOnce`), `AcceptedHasLanded` (`AcceptedIsLanded`),
  `LocalNeverAhead` (`LocalFollowsRemote`) and `NeverAnOverwrite`
  (`BranchesOnlyGrow`) follow.
* `Implements` (`LandingIsKept`): AcceptCeremony refines LandingLog. `StepMaps`
  maps the start of an accept to `Claim`, a landing to `Land`, another's push to
  `OthersLand`, the review's record to `Accept`, everything else to a stutter.
  The refinement is proved and not among the runs' properties.

Only model-checked: the liveness properties `UndrivenIsDecided`, `CrashIsDecided`,
`ExecutionSettles` and `PoolRecovers`. All other properties of the passing runs
are theorems, two of them (`OpenAskIsParked`, `DrivenIsNotReaped`) under the
hypotheses above.

Out of the prover's reach and left to TLC: liveness, and `ENABLED`.

## 6. Where code and comments disagree

Three are runs TLC must find violated; the quotations are in `PROJECT.json`.

* `recovered`: `SetVerdictRef` fills a revision's verdict once, and a recovered
  verify run drains again from revision 1. Once a first round has been judged,
  each successor dies at recording its own, and the lineage is tombstoned
  although only one fault ever happened; `stage/answer.go:258` expects the
  recovered lineage to verify again and end in its own card.
* `orphan`: a cancel that read `queued` decides by the edge of the state the row
  has when it applies, and a parked row has the same edge. A run that was
  claimed, started and parked on a card in between is finalized by the branch
  that closes no ask, and its card stays open, although
  `stage/cancel.go:320` says that it never outlives the run. `OnlyRacesOrphanCards`
  proves that no other step does this.
* `reclaim`: the reclaim lock keeps reclaimers apart, and not the plain claims of
  another process. Between the re-check and the remove such a claim may link a
  fresh reservation, which is then removed (`portpool/portpool.go:249`: "never
  removes a fresh one"). It takes two processes, the hub and the pool's daemon,
  on one directory.

Others were found while modelling and are described here; the hazards in
`PROJECT.json` name them at their lines.

* A gate answer takes a parked run back to `running` in its own transaction; it
  does not re-contend for the slot, so a lane can exceed its cap
  (`scheduler/claim.go:53`).
* A crashed run's queue row is settled without a receipt; when the ladder
  tombstones the run nothing materializes one (`metering/receipt.go:148`).
* A task cancel at a ladder card leaves crashed runs alone and works from one
  list; the ladder's successor goes on (`stage/ladderanswer.go:168`).
* `TransitionTx` is not fenced by the generation, so a holder that outlived the
  takeover still moves the superseded row (`recovery/recovery.go:699`).
* `wake_grace` is added to a deadline that may be hours past, so a suspend longer
  than `dead_after + wake_grace` lets the first sweep reap a run whose keeper is
  about to beat (`settings/index.go:96`).
* A recovery pass returns a live accept call's `executing` row to `approved`; the
  call's failure is not recorded, the requester is told it failed, and the
  boot's re-drive lands the work (`accept/accept.go:510`).
* An intake drive that fails crashes the run if it reads `running`, whoever
  drives it (`stage/surface.go:148`, comment at 112).
* A preview stopped while it is launching leaves its listener, port and route
  (`preview/manager.go:465`); a live preview older than 48 hours may lose its
  reservation, though not its listener, to a reclaimer (`portpool/portpool.go:44`).
* A launch whose `AddRoute` fails closes its server and gives up its slot, and
  does not remove the route: when only the answer was lost, or Caddy is slow, the
  route stays and leads to a port that others may take (`preview/manager.go:438`).
  A launch also ignores a release that fails, which leaves the reservation until
  it is stale (`preview/manager.go:304`, `preview/manager.go:552`).

Nothing in the repository promises otherwise of these: a crash between
`launchRole`'s two transactions leaves a run `new` that no loop lists; an intake
that finishes late moves a cancelled task on (`stage/skeleton.go:543`); two
drivers of an intake append their copies over each other (a tier lowered beside
an approval, `intake/answer.go:1057`); remarks stamped by a drain that then dies
are not offered to another; a step redone after a failed snapshot keeps the
evidence of the earlier life (`ledger/store.go:408`); `forkTx` does not look at
the run's state; a crash between `Succeed` and `review.Accept` is never
re-driven; two accepts of one deliverable can both land; `ResumeRun`'s look for
an open ask is outside its transaction; the bind loop of a launch has no bound
of its own (`preview/manager.go:306`).

## 7. Not modelled, and plan

What is left, and why:

* **Content**: prompts, plans, findings, diffs, anchors, artifacts, evidence and
  entailment, prices and amounts. The models leave their outcome open; whether
  the outcome is right is not a question of state.
* **Request handling** (`api`): decoding, projection and authorisation around
  verbs that are modelled where they act. The reads (`reads.go`,
  `projection.go`) change nothing.
* **Tables and policy** (`intake/taxonomy.go`, `worker/routing.go`, plan
  documents, the settings' index): data, checked by its own tests.
* **Sequential keepers** (backup, retention, auth, settings, push, chat, memory,
  watchlist, local models): each is one loop or one transaction per request.
  They could be modelled; they interact little with the core, and what they do
  concurrently (a backup beside a retention pass, a lockout counter) is a
  transaction at a time on one writer.
* **Outside programs**: engines, git, the proxy, systemd, browsers. The models
  have what the code takes from them: any answer, late or none; of the proxy also
  a call that is carried out although its answer is lost, or after it was given
  up.

Next, in order: the order of claims (priority, background stop, pauses, pressure)
in ClaimLoop; the watchdog's rules and suppressions; the handover of a task
between the three roles as one composition, with the promises each role's module
proves as its interface.
