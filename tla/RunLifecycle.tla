---------------------------- MODULE RunLifecycle ----------------------------
(***************************************************************************)
(* The run lifecycle of one task: the claim loop, the dispatch legs, the    *)
(* recovery ladder, the owner's verbs and the watchdog working on the same  *)
(* run store, with time passing, the host napping and the process crashing. *)
(***************************************************************************)
EXTENDS ClaimLoop, RecoveryLadder, OwnerVerbs

CONSTANTS             \* bounds on what the environment and people do
    MaxCrashes,       \* process crashes
    MaxNaps,          \* host suspends
    MaxParks,         \* watchdog and maintenance parks
    MaxVerbs,         \* cancel, resume and retry requests
    LongSilence       \* whether a silence may outlast recovery.stale_finalize

ASSUME BoundsAssumption ==
    {MaxCrashes, MaxNaps, MaxParks, MaxVerbs} \subseteq Nat /\ LongSilence \in BOOLEAN

VARIABLE spent        \* how much of each bound is used

vars == <<store, legVars, claimVars, sweep, verb, spent>>

Spent == [crashes : 0 .. MaxCrashes, naps : 0 .. MaxNaps, parks : 0 .. MaxParks, verbs : 0 .. MaxVerbs]

TypeOK == /\ StoreTypeOK /\ LegsTypeOK /\ ClaimTypeOK
          /\ LadderTypeOK /\ VerbTypeOK /\ spent \in Spent

Init == /\ StoreInit /\ LegsInit /\ ClaimInit /\ LadderInit /\ VerbInit
        /\ spent = [crashes |-> 0, naps |-> 0, parks |-> 0, verbs |-> 0]

Spend(what, max) == spent[what] < max /\ spent' = [spent EXCEPT ![what] = @ + 1]

-----------------------------------------------------------------------------
(* Time and failure.                                                        *)

\* A lease nobody beats runs out; a beating holder's does not.
Lapse(r) ==
    /\ state[r] \in Unfinished /\ lease[r] = "live" /\ ~Driven(r)
    /\ lease' = [lease EXCEPT ![r] = "lapsed"]
    /\ UNCHANGED <<state, gen, attempts, origin, runEvent, cards, queue, receipts, column,
                   legVars, claimVars, sweep, verb, spent>>

\* A run goes silent: an engine call may be long, an undriven run is mute.  A
\* driven run is beaten for before dead_after passes (the settings refuse a
\* heartbeat longer than half of it), and a sweep judges its list sooner.
GoSilent(r) ==
    /\ state[r] \in Occupied \cup {"crashed"}
    /\ Driven(r) => lease[r] = "live"
    /\ \A s \in sweep.todo : s.run # r
    /\ \/ cursor[r] = "fresh" /\ cursor' = [cursor EXCEPT ![r] = "stale"]
       \/ cursor[r] = "stale" /\ LongSilence /\ cursor' = [cursor EXCEPT ![r] = "ancient"]
    /\ UNCHANGED <<runRow, flagged, cards, queue, receipts, column,
                   legVars, claimVars, sweep, verb, spent>>

\* The host suspends for longer than dead_after and any grace: every lease is
\* past its deadline and every run silent when it wakes, the legs still there.
Nap ==
    /\ Spend("naps", MaxNaps)
    /\ lease' = [r \in Run |-> IF lease[r] = "live" THEN "lapsed" ELSE lease[r]]
    /\ cursor' = [r \in Run |-> IF state[r] \in Occupied /\ cursor[r] = "fresh"
                                  THEN "stale" ELSE cursor[r]]
    /\ UNCHANGED <<state, gen, attempts, origin, flagged, cards, queue, receipts, column,
                   legVars, claimVars, sweep, verb>>

\* The process dies and restarts: what it held in memory is gone.
ProcessCrash ==
    /\ Spend("crashes", MaxCrashes)
    /\ legs' = {} /\ marks' = {} /\ pass' = IdlePass /\ admitting' = {}
    /\ sweep' = IdleSweep /\ verb' = IdleVerb
    /\ UNCHANGED store

-----------------------------------------------------------------------------
ClaimActs    == /\ PassStep \/ \E r \in Run : Create(r) \/ Enqueue(r)
                /\ UNCHANGED <<sweep, verb, spent>>
LegActs      == /\ \E l \in legs : LegStep(l)
                /\ UNCHANGED <<claimVars, sweep, verb, spent>>
LadderActs   == SweepStep /\ UNCHANGED <<legVars, claimVars, verb, spent>>
VerbActs     == VerbFollows /\ UNCHANGED <<claimVars, sweep, spent>>
AnswerActs   == /\ \E r \in Run : AnswerGate(r)
                /\ UNCHANGED <<claimVars, sweep, spent>>
VerbRequests == /\ \E r \in Run : VerbStarts(r)
                /\ Spend("verbs", MaxVerbs)
                /\ UNCHANGED <<claimVars, sweep>>
ParkActs     == /\ \E r \in Run : ParkInFlight(r) \/ \E park \in BOOLEAN : ParkAndFlag(r, park)
                /\ Spend("parks", MaxParks)
                /\ UNCHANGED <<claimVars, sweep>>
TimeActs     == Nap \/ ProcessCrash \/ \E r \in Run : Lapse(r) \/ GoSilent(r)

Next == \/ ClaimActs \/ LegActs \/ LadderActs \/ VerbActs \/ AnswerActs
        \/ VerbRequests \/ ParkActs \/ TimeActs

Spec == Init /\ [][Next]_vars

-----------------------------------------------------------------------------
(* Safety.                                                                  *)

\* One dispatch per interruption, over the whole life of a run: no run is ever
\* superseded twice, by whatever mix of crash decisions, later sweeps that
\* worked from an old list, and retries at its card.
OneSuccessor == \A p \in Run : Cardinality(ChildrenOf(p)) <= 1

\* The takeover fence: from the moment a run has a successor, no leg of it can
\* append to its log or renew its lease, whatever that leg believes.
SupersededIsFenced == \A p \in Run : ChildrenOf(p) # {} => ~Driven(p)

\* The queue and the run table tell one story: a claimed run holds its claimed
\* row, a waiting row never belongs to a run that has started.
QueueAgrees ==
    \A r \in Run : /\ state[r] = "claimed" => queue[r] = "claimed"
                   /\ queue[r] = "queued" => state[r] = "queued" \/ IsTerminal(state[r])
                   /\ queue[r] = "claimed" => state[r] \notin {"absent", "new", "queued"}

\* A receipt asserts a run that ended, although it is materialized from a state
\* read before its transaction.
ReceiptsAreFinal == \A r \in receipts : IsTerminal(state[r])

\* An open gate card means a parked run: answering it is what resumes the run.
OpenAskIsParked == \A r \in Run : ask[r] = "open" => state[r] = "parked"

\* A lineage spends at most the attempts it was given between two human grants.
AttemptsBounded == \A r \in Run : attempts[r] <= MaxAttempts

\* A parked run's card does not outlive the run: no ended run has an open ask.
CardDiesWithItsRun == \A r \in Run : IsTerminal(state[r]) => ask[r] # "open"

\* A cancel applies its decision to a row that is no longer in the state it read.
RacedCancel(r) == CancelApply /\ verb.run = r /\ state[r] # verb.seen

\* However legs, parks, answers, sweeps and requests interleave, only a cancel
\* that raced leaves a run's card open behind the park.
OnlyRacesOrphan ==
    [][ \A r \in Run : /\ ask'[r] = "open" /\ state'[r] # "parked"
                       => \/ ask[r] = "open" /\ state[r] # "parked"
                          \/ RacedCancel(r) ]_vars

\* A run the ladder ends, ends with its door: the card is opened by the very
\* step of the pass that takes the interrupted run to a terminal.
EndsWithDoor ==
    [][ \A r \in Run : /\ sweep' # sweep
                       /\ state[r] \in Occupied \cup {"crashed"}
                       /\ state'[r] \in {"finalized", "tombstoned"}
                       => card'[r] = "open" ]_vars

\* The ladder's crash decision lands on run r in this step.
Reaps(r) == /\ sweep.verdict = "crash" /\ sweep.at = "observe" /\ sweep.now.run = r
            /\ sweep'.verdict = "none"
            /\ state[r] \in Occupied /\ state'[r] \notin Occupied

\* While the host has not napped, the ladder never reaps work that somebody in
\* this process is driving, however long an engine call is silent.
DrivenIsNotReaped ==
    [][ \A r \in Run : Reaps(r) /\ spent.naps = 0 => ~Driven(r) ]_vars

-----------------------------------------------------------------------------
(* Liveness: sweeps go on, and time passes.  Nothing is assumed of the legs,  *)
(* the claim loop or people.  GoSilent is strongly fair because a sweep that  *)
(* has the run on its list postpones it, again and again but never for good.  *)

LadderFairness == /\ WF_vars(LadderActs)
                  /\ \A r \in Run : WF_vars(Lapse(r)) /\ SF_vars(GoSilent(r))

LiveSpec == Spec /\ LadderFairness

\* A run nobody drives does not keep its slot for ever: the ladder decides it
\* or somebody takes it up.
UndrivenIsDecided ==
    \A r \in Run : (state[r] \in Occupied /\ ~Driven(r)) ~> (state[r] \notin Occupied \/ Driven(r))

\* A crash corpse is always decided: superseded, or ended.
CrashIsDecided ==
    \A r \in Run : (state[r] = "crashed") ~> (ChildrenOf(r) # {} \/ IsTerminal(state[r]))
=============================================================================
