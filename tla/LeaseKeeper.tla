---------------------------- MODULE LeaseKeeper -----------------------------
(***************************************************************************)
(* The lease of one claimed run against the clock: the keeper that renews   *)
(* it at recovery.heartbeat (src/internal/run/lease.go), and the sweep that *)
(* judges it by recovery.dead_after and recovery.wake_grace                 *)
(* (src/internal/recovery/recovery.go).  RunLifecycle keeps only the two    *)
(* facts this module is about: the lease of a driven run does not run out,  *)
(* and a run nobody drives is found dead in bounded time.                   *)
(*                                                                          *)
(* Time is the wall clock, one unit a step.  Timers run on the monotonic    *)
(* clock, which a suspend stops; the deadline and the events are wall-clock *)
(* columns, which it does not.                                              *)
(***************************************************************************)
EXTENDS Integers

CONSTANTS
    Heartbeat,      \* recovery.heartbeat
    DeadAfter,      \* recovery.dead_after
    Grace,          \* recovery.wake_grace
    SweepEvery,     \* recovery.sweep_interval
    Delay,          \* how late after its tick a beat may commit
    MaxMiss,        \* consecutive beats whose write may fail
    MaxNap,         \* the longest suspend
    SuspendCounts,  \* whether Go's monotonic clock runs through a suspend
    Horizon         \* bound on the clock

\* settings: recovery.dead_after must stay at least twice the heartbeat.
ASSUME SettingsAssumption ==
    /\ Heartbeat \in Nat \ {0} /\ DeadAfter \in Nat /\ Grace \in Nat /\ SweepEvery \in Nat \ {0}
    /\ DeadAfter >= 2 * Heartbeat
\* What that cross-check leaves for failed and late beats.
ASSUME ToleranceAssumption ==
    /\ Delay \in Nat /\ MaxMiss \in Nat
    /\ (MaxMiss + 1) * Heartbeat + Delay <= DeadAfter
ASSUME EnvironmentAssumption == MaxNap \in Nat /\ SuspendCounts \in BOOLEAN /\ Horizon \in Nat

VARIABLES
    now,        \* the wall clock
    deadline,   \* runs.lease_deadline_ts
    cursor,     \* when the run's newest event was appended
    wedged,     \* whether that event is run.wedged
    held,       \* a keeper holds the run
    beaten,     \* this hold has renewed at least once
    due,        \* the keeper's next tick
    misses,     \* beats failed in a row
    left,       \* when the run was last held (claimed, at first)
    firstPass,  \* no sweep yet in this process
    sweepAt,    \* the next sweep
    lastSweep,  \* Ladder.lastPass
    slept,      \* time suspended since lastSweep
    napped,     \* the host has been suspended
    reaped      \* the ladder declared the run dead

keeper == <<held, beaten, due, misses, left>>
ladder == <<firstPass, sweepAt, lastSweep, slept>>
vars   == <<now, deadline, cursor, wedged, keeper, ladder, napped, reaped>>

Moments == /\ now \in Nat /\ deadline \in Nat /\ cursor \in Nat
           /\ due \in Nat /\ misses \in 0 .. MaxMiss /\ left \in Nat
           /\ sweepAt \in Nat /\ lastSweep \in Nat /\ slept \in Nat
Flags   == /\ wedged \in BOOLEAN /\ held \in BOOLEAN /\ beaten \in BOOLEAN
           /\ firstPass \in BOOLEAN /\ napped \in BOOLEAN /\ reaped \in BOOLEAN
TypeOK  == Moments /\ Flags

\* claimOne has just committed: state, lease and event in one transaction.
Init ==
    /\ now = 0 /\ deadline = DeadAfter /\ cursor = 0 /\ wedged = FALSE
    /\ held = FALSE /\ beaten = FALSE /\ due = 0 /\ misses = 0 /\ left = 0
    /\ firstPass = FALSE /\ sweepAt \in 0 .. SweepEvery /\ lastSweep = 0 /\ slept = 0
    /\ napped = FALSE /\ reaped = FALSE

-----------------------------------------------------------------------------
\* A beat writes the deadline, or its write fails and the hold goes on.
Renewed == deadline' = now + DeadAfter /\ beaten' = TRUE /\ misses' = 0
Missed  == /\ misses < MaxMiss /\ misses' = misses + 1
           /\ UNCHANGED <<deadline, beaten>>

\* Hold renews at once, then arms the ticker.
Hold ==
    /\ ~held /\ ~reaped
    /\ held' = TRUE /\ due' = now + Heartbeat /\ misses' = 0
    /\ \/ deadline' = now + DeadAfter /\ beaten' = TRUE
       \/ beaten' = FALSE /\ UNCHANGED deadline
    /\ UNCHANGED <<now, cursor, wedged, left, ladder, napped, reaped>>

\* A tick of the keeper; the ticker keeps its grid.
Beat ==
    /\ held /\ ~reaped /\ now >= due
    /\ due' = due + Heartbeat
    /\ Renewed \/ Missed
    /\ UNCHANGED <<now, cursor, wedged, held, left, ladder, napped, reaped>>

\* The work lands an event.
Progress ==
    /\ held /\ ~reaped
    /\ cursor' = now /\ wedged' = FALSE
    /\ UNCHANGED <<now, deadline, keeper, ladder, napped, reaped>>

\* The advance returns, or its process dies: the startup ladder runs a first
\* pass at once.
Release ==
    /\ held /\ ~reaped
    /\ held' = FALSE /\ beaten' = FALSE /\ left' = now
    /\ UNCHANGED <<now, deadline, cursor, wedged, due, misses, ladder, napped, reaped>>

\* Mutant: a restart waits for the first periodic sweep.
RestartUnswept ==
    /\ ~reaped
    /\ held' = FALSE /\ beaten' = FALSE /\ left' = IF held THEN now ELSE left
    /\ firstPass' = TRUE /\ sweepAt' = now + SweepEvery
    /\ UNCHANGED <<now, deadline, cursor, wedged, due, misses, lastSweep, slept, napped, reaped>>

Restart ==
    /\ ~reaped
    /\ held' = FALSE /\ beaten' = FALSE /\ left' = IF held THEN now ELSE left
    /\ firstPass' = TRUE /\ sweepAt' = now
    /\ UNCHANGED <<now, deadline, cursor, wedged, due, misses, lastSweep, slept, napped, reaped>>

-----------------------------------------------------------------------------
\* A first pass, or a gap of more than two intervals, grants the wake grace.
Gap      == now - lastSweep - (IF SuspendCounts THEN 0 ELSE slept)
GraceNow == IF firstPass \/ Gap > 2 * SweepEvery THEN Grace ELSE 0

\* Mutant: a lease is dead a heartbeat before its deadline.
LeaseDeadEarly == now > deadline - Heartbeat

LeaseDead   == now > deadline + GraceNow
CursorFresh == now - cursor <= DeadAfter + GraceNow

\* One pass over this run: dead and silent is reaped, live and silent is
\* flagged once, everything else is left.
Sweep ==
    /\ ~reaped /\ now = sweepAt
    /\ reaped' = (LeaseDead /\ ~CursorFresh)
    /\ LET flag == ~LeaseDead /\ ~CursorFresh /\ ~wedged
       IN  /\ cursor' = IF flag THEN now ELSE cursor
           /\ wedged' = (wedged \/ flag)
    /\ firstPass' = FALSE /\ sweepAt' = now + SweepEvery /\ lastSweep' = now /\ slept' = 0
    /\ UNCHANGED <<now, deadline, keeper, napped>>

\* Time passes no further than a beat or a sweep that is due allows.
Tick ==
    /\ ~reaped /\ now < sweepAt /\ now < Horizon
    /\ held => now < due + Delay
    /\ now' = now + 1
    /\ UNCHANGED <<deadline, cursor, wedged, keeper, ladder, napped, reaped>>

\* The host suspends: the wall clock jumps, the armed timers do not.
Nap ==
    /\ ~reaped /\ ~napped
    /\ \E n \in 1 .. MaxNap :
         /\ now' = now + n /\ due' = due + n /\ sweepAt' = sweepAt + n /\ slept' = slept + n
    /\ napped' = TRUE
    /\ UNCHANGED <<deadline, cursor, wedged, held, beaten, misses, left, firstPass, lastSweep, reaped>>

Next == Hold \/ Beat \/ Progress \/ Release \/ Restart \/ Sweep \/ Tick \/ Nap

Spec == Init /\ [][Next]_vars

-----------------------------------------------------------------------------
\* The promise of lease.go: work that a keeper holds is not declared dead,
\* whatever it takes and however silent it is, with late beats and MaxMiss
\* beats in a row lost, as long as the host does not suspend.
HeldIsNotReaped == ~(reaped /\ held /\ beaten /\ ~napped)

\* The promise of the sweep: a run nobody holds is declared dead within
\* twice dead_after (a wedge flag taken on the last live lease restarts the
\* silence once) and one sweep, graces included.
DeadInTime ==
    ~held /\ ~reaped /\ ~napped => now <= left + 2 * (DeadAfter + Grace) + SweepEvery
=============================================================================
