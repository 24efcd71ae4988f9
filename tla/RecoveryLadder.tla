--------------------------- MODULE RecoveryLadder ---------------------------
(***************************************************************************)
(* The recovery ladder (src/internal/recovery): at startup and on every     *)
(* sweep one pass observes the occupied runs, classifies each, and acts;    *)
(* then it takes the bound decision for crashed runs that have none.        *)
(*                                                                          *)
(* A pass works from rows it listed when it began: the lease and generation *)
(* it judges are the listed ones, the newest event is read run by run, and  *)
(* the act is a later transaction that re-reads only the run's state.       *)
(***************************************************************************)
EXTENDS RunStore

CONSTANTS
    Probes,       \* what a unit probe may answer; {"gone"} where no units run
    Harvests      \* whether the engine store may hold a finished result

ASSUME ProbesAssumption ==
    /\ Probes \subseteq {"active", "exit0", "failed", "gone"} /\ Probes # {}
    /\ Harvests \subseteq BOOLEAN /\ Harvests # {}

VARIABLE sweep        \* the reconcile pass in flight

Verdicts == {"none", "harvest", "leave", "flag", "crash"}
Snapshot == [run : Run, gen : Nat, lease : {"none", "live", "lapsed"}]
NoSnap   == [run |-> NoRun, gen |-> 0, lease |-> "none"]

\* now: the run under decision with what was read of it; verdict, recs and
\* age: its classification, whether records were mined, its silence.
IdleSweep == [at |-> "idle", todo |-> {}, now |-> NoSnap, verdict |-> "none",
              recs |-> FALSE, age |-> "fresh"]
Sweep == [ at : {"idle", "observe", "crashed"}, todo : SUBSET Snapshot,
           now : Snapshot \cup {NoSnap}, verdict : Verdicts, recs : BOOLEAN,
           age : {"fresh", "stale", "ancient"} ]

LadderTypeOK == sweep \in Sweep
LadderInit   == sweep = IdleSweep

Snap(r) == [run |-> r, gen |-> gen[r], lease |-> lease[r]]
Decided == sweep' = [IdleSweep EXCEPT !.at = sweep.at, !.todo = sweep.todo]

\* Mutant: silence alone is death, the lease is not asked.
ClassifyBySilence(probe, harvested, leaseRead, age, lastWedged) ==
    IF harvested \/ probe = "exit0" THEN "harvest"
    ELSE IF probe = "active" THEN IF lastWedged THEN "leave" ELSE "flag"
    ELSE IF age = "fresh" THEN "leave" ELSE "crash"

\* Mutant: a silent run is wedged, even where nobody holds its lease.
ClassifyAllWedged(probe, harvested, leaseRead, age, lastWedged) ==
    IF harvested \/ probe = "exit0" THEN "harvest"
    ELSE IF probe = "failed" THEN "crash"
    ELSE IF age = "fresh" \/ lastWedged THEN "leave" ELSE "flag"

\* reconcileRun's switch: a silent run is wedged while its unit is active or
\* its lease is held, and dead when neither vouches for it.
Classify(probe, harvested, leaseRead, age, lastWedged) ==
    IF harvested \/ probe = "exit0" THEN "harvest"
    ELSE IF probe = "failed" THEN "crash"
    ELSE IF age = "fresh" THEN "leave"
    ELSE IF probe = "active" \/ leaseRead = "live"
      THEN IF lastWedged THEN "leave" ELSE "flag"
      ELSE "crash"

-----------------------------------------------------------------------------
SweepStart ==
    /\ sweep.at = "idle"
    /\ sweep' = [IdleSweep EXCEPT !.at = "observe",
                   !.todo = { Snap(r) : r \in { q \in Run : state[q] \in Occupied } }]
    /\ UNCHANGED store

\* Probe the unit, mine the engine store, read the newest event.
SweepClassify(s) ==
    /\ sweep.at = "observe" /\ sweep.verdict = "none" /\ s \in sweep.todo
    /\ \E probe \in Probes, harvested \in Harvests :
         LET v == Classify(probe, harvested, s.lease, cursor[s.run], s.run \in flagged)
         IN  sweep' = IF v = "leave"
                        THEN [sweep EXCEPT !.todo = @ \ {s}]
                        ELSE [sweep EXCEPT !.todo = @ \ {s}, !.now = s, !.verdict = v,
                                           !.recs = harvested, !.age = cursor[s.run]]
    /\ UNCHANGED store

\* harvest: the mined records append at the listed generation, then the run
\* completes; a refused append or edge rolls both back.
SweepHarvest ==
    /\ sweep.verdict = "harvest"
    /\ IF /\ sweep.recs => Fenced(sweep.now.run, sweep.now.gen)
          /\ CanTransition(state[sweep.now.run], "completed")
          THEN Transition(sweep.now.run, "completed")
          ELSE UNCHANGED <<state, gen, runEvent>>
    /\ Decided
    /\ UNCHANGED <<attempts, origin, lease, cards, queue, receipts, column>>

\* flagWedged: an observation event, fenced at the listed generation.
SweepFlagWedged ==
    /\ sweep.verdict = "flag"
    /\ IF Fenced(sweep.now.run, sweep.now.gen)
          THEN /\ cursor' = [cursor EXCEPT ![sweep.now.run] = "fresh"]
               /\ flagged' = flagged \cup {sweep.now.run}
          ELSE UNCHANGED runEvent
    /\ Decided
    /\ UNCHANGED <<runRow, cards, queue, receipts, column>>

-----------------------------------------------------------------------------
\* boundTx on run r whose row was read at generation g.  `from` is the state it
\* decides from: "crashed" where the crash is part of the same transaction.

\* Mutant: the budget is compared before this attempt is counted.
ExhaustedLate(r) == attempts[r] > MaxAttempts

MustFinalize(r, age) == r \in NoFork \/ age = "ancient"
Exhausted(r)         == attempts[r] + 1 > MaxAttempts
EndState(r, age)     == IF MustFinalize(r, age) THEN "finalized" ELSE "tombstoned"

\* Mutant: the terminal commits without its card.
EndWithoutCard(r, to) ==
    /\ state' = [state EXCEPT ![r] = to]
    /\ Append(r)
    /\ UNCHANGED <<gen, attempts, origin, card, column>>

\* A ladder terminal and its card commit together; the task leaves its stage
\* column when nothing else is moving for it.
EndWithCard(r, to) ==
    /\ state' = [state EXCEPT ![r] = to]
    /\ card' = [card EXCEPT ![r] = "open"]
    /\ column' = IF column # "cancelled" /\ \A q \in Run \ {r} : state[q] \notin Unfinished
                   THEN "attention" ELSE column
    /\ Append(r)
    /\ UNCHANGED <<gen, attempts, origin>>

\* forkTx: one dispatch per interruption; fence the old generation, then
\* create the queued successor under a fresh id.  No check of r's state.
Dispatched(r, g) == \E q \in ChildrenOf(r) : origin[q].gen = g + 1 /\ origin[q].by = "interruption"

Fork(r, g, from) ==
    LET appended == IF state[r] = from THEN {} ELSE {r}      \* the crash event
    IN  /\ UNCHANGED <<card, column>>
        /\ IF Dispatched(r, g)
              THEN /\ state' = [state EXCEPT ![r] = from]
                   /\ cursor' = [q \in Run |-> IF q \in appended THEN "fresh" ELSE cursor[q]]
                   /\ flagged' = flagged \ appended
                   /\ UNCHANGED <<gen, attempts, origin>>
              ELSE \E s \in Run \ Root :
                   /\ state[s] = "absent"
                   /\ state' = [state EXCEPT ![r] = from, ![s] = "queued"]
                   /\ Birth(s, r, g + 1, "interruption", attempts[r] + 1)
                   /\ cursor' = [q \in Run |-> IF q \in appended \cup {s} THEN "fresh" ELSE cursor[q]]
                   /\ flagged' = flagged \ (appended \cup {s})

\* The decision, or none at all when its edge or its card is refused.
Bound(r, g, from, age) ==
    LET ends == MustFinalize(r, age) \/ Exhausted(r)
    IN  \/ ends /\ CanTransition(from, EndState(r, age)) /\ card[r] = "none"
           /\ EndWithCard(r, EndState(r, age))
        \/ ends /\ (~CanTransition(from, EndState(r, age)) \/ card[r] # "none")
           /\ UNCHANGED <<state, gen, attempts, origin, runEvent, card, column>>
        \/ ~ends /\ Fork(r, g, from)

\* crashAndBound: running -> crashed and the bound decision, one transaction.
\* The generation is the re-read row's, the state only has to admit the crash.
SweepCrashAndBound ==
    /\ sweep.verdict = "crash" /\ sweep.at = "observe"
    /\ LET r == sweep.now.run
       IN  IF CanTransition(state[r], "crashed")
             THEN Bound(r, gen[r], "crashed", sweep.age)
             ELSE UNCHANGED <<state, gen, attempts, origin, runEvent, card, column>>
    /\ Decided
    /\ UNCHANGED <<lease, ask, queue, receipts>>

\* The second list of the pass: every crashed run.
SweepListCrashed ==
    /\ sweep.at = "observe" /\ sweep.verdict = "none" /\ sweep.todo = {}
    /\ sweep' = [IdleSweep EXCEPT !.at = "crashed",
                   !.todo = { Snap(r) : r \in { q \in Run : state[q] = "crashed" } }]
    /\ UNCHANGED store

\* reconcileCrashed: mine the engine store, read the newest event.
SweepReadCrashed(s) ==
    /\ sweep.at = "crashed" /\ sweep.verdict = "none" /\ s \in sweep.todo
    /\ \E harvested \in Harvests :
         sweep' = [sweep EXCEPT !.todo = @ \ {s}, !.now = s, !.recs = harvested,
                     !.verdict = IF harvested THEN "harvest" ELSE "crash",
                     !.age = cursor[s.run]]
    /\ UNCHANGED store

\* Mutant: asks for the dispatch of the current generation, which the takeover
\* has already moved on from.
SupersededNow(r) == \E q \in ChildrenOf(r) : origin[q].gen = gen[r] + 1

\* Mutant: any bumped generation is read as a takeover, a resume's included.
SupersededByBump(r) == gen[r] > 0

\* SuccessorOfTx: somebody has taken the run over already.
Superseded(r) == ChildrenOf(r) # {}

\* Nothing to do for a run that has a successor; otherwise the bound decision
\* on the listed row, whatever the run's state has become.
SweepBoundCrashed ==
    /\ sweep.verdict = "crash" /\ sweep.at = "crashed"
    /\ LET r == sweep.now.run
       IN  IF ~Superseded(r)
             THEN Bound(r, sweep.now.gen, state[r], sweep.age)
             ELSE UNCHANGED <<state, gen, attempts, origin, runEvent, card, column>>
    /\ Decided
    /\ UNCHANGED <<lease, ask, queue, receipts>>

SweepEnd ==
    /\ sweep.at = "crashed" /\ sweep.verdict = "none" /\ sweep.todo = {}
    /\ sweep' = IdleSweep
    /\ UNCHANGED store

SweepStep ==
    \/ SweepStart \/ SweepHarvest \/ SweepFlagWedged \/ SweepCrashAndBound
    \/ SweepListCrashed \/ SweepBoundCrashed \/ SweepEnd
    \/ \E s \in sweep.todo : SweepClassify(s) \/ SweepReadCrashed(s)
=============================================================================
