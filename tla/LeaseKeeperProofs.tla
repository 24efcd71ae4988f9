-------------------------- MODULE LeaseKeeperProofs --------------------------
(***************************************************************************)
(* Proofs about LeaseKeeper, for every heartbeat, dead_after, grace, sweep   *)
(* interval, beat delay and number of lost beats that the assumptions of     *)
(* that module admit.                                                        *)
(***************************************************************************)
EXTENDS LeaseKeeper, TLAPS

LEMMA ConstantTypes ==
    /\ Heartbeat \in Nat /\ Heartbeat > 0 /\ DeadAfter \in Nat /\ Grace \in Nat
    /\ SweepEvery \in Nat /\ SweepEvery > 0 /\ Delay \in Nat /\ MaxMiss \in Nat
    /\ MaxNap \in Nat /\ Horizon \in Nat
<1>1. /\ Heartbeat \in Nat /\ Heartbeat > 0 /\ DeadAfter \in Nat /\ Grace \in Nat
      /\ SweepEvery \in Nat /\ SweepEvery > 0
  BY SettingsAssumption DEF SettingsAssumption
<1>2. Delay \in Nat /\ MaxMiss \in Nat
  BY ToleranceAssumption DEF ToleranceAssumption
<1>3. MaxNap \in Nat /\ Horizon \in Nat
  BY EnvironmentAssumption DEF EnvironmentAssumption
<1> QED
  BY <1>1, <1>2, <1>3

LEMMA FlagsInductive == Flags /\ [Next]_vars => Flags'
<1> SUFFICES ASSUME Flags, [Next]_vars PROVE Flags'
  OBVIOUS
<1>1. CASE Hold
  BY <1>1 DEF Flags, Hold, ladder
<1>2. CASE Beat
  BY <1>2 DEF Flags, Beat, Renewed, Missed, ladder
<1>3. CASE Progress
  BY <1>3 DEF Flags, Progress, keeper, ladder
<1>4. CASE Release
  BY <1>4 DEF Flags, Release, ladder
<1>5. CASE Restart
  BY <1>5 DEF Flags, Restart
<1>6. CASE Sweep
  BY <1>6 DEF Flags, Sweep, keeper
<1>7. CASE Tick
  BY <1>7 DEF Flags, Tick, keeper, ladder
<1>8. CASE Nap
  BY <1>8 DEF Flags, Nap
<1>9. CASE UNCHANGED vars
  BY <1>9 DEF Flags, vars, keeper, ladder
<1> QED
  BY <1>1, <1>2, <1>3, <1>4, <1>5, <1>6, <1>7, <1>8, <1>9 DEF Next

LEMMA MomentsInductive == Moments /\ [Next]_vars => Moments'
<1> SUFFICES ASSUME Moments, [Next]_vars PROVE Moments'
  OBVIOUS
<1> USE ConstantTypes
<1>1. CASE Hold
  BY <1>1 DEF Moments, Hold, ladder
<1>2. CASE Beat
  BY <1>2 DEF Moments, Beat, Renewed, Missed, ladder
<1>3. CASE Progress
  BY <1>3 DEF Moments, Progress, keeper, ladder
<1>4. CASE Release
  BY <1>4 DEF Moments, Release, ladder
<1>5. CASE Restart
  BY <1>5 DEF Moments, Restart
<1>6. CASE Sweep
  BY <1>6 DEF Moments, Sweep, keeper
<1>7. CASE Tick
  BY <1>7 DEF Moments, Tick, keeper, ladder
<1>8. CASE Nap
  BY <1>8 DEF Moments, Nap
<1>9. CASE UNCHANGED vars
  BY <1>9 DEF Moments, vars, keeper, ladder
<1> QED
  BY <1>1, <1>2, <1>3, <1>4, <1>5, <1>6, <1>7, <1>8, <1>9 DEF Next

\* The lease, the event cursor and every timer of the keeper and the sweep stay
\* moments of the clock, misses never pass what the environment may lose.
THEOREM TypeCorrect == Spec => []TypeOK
<1>1. Init => Moments
  BY ConstantTypes DEF Init, Moments
<1>2. Init => Flags
  BY DEF Init, Flags
<1> QED
  BY <1>1, <1>2, FlagsInductive, MomentsInductive, PTL DEF Spec, TypeOK

-----------------------------------------------------------------------------
(* The keeper outruns the sweep.                                             *)

\* How much longer the lease must last after m beats lost in a row.
Reserve(m) == (MaxMiss - m) * Heartbeat

\* A holder is never further behind its tick than a late commit allows.
OnTime == held /\ ~napped => now <= due + Delay

\* A lease that this hold has renewed outlasts every beat it may still lose.
Covered == held /\ beaten /\ ~napped => due + Reserve(misses) + Delay <= deadline

LEMMA ReserveFacts ==
    /\ \A m \in 0 .. MaxMiss : Reserve(m) \in Nat
    /\ \A m \in 0 .. MaxMiss : m < MaxMiss => Reserve(m) = Reserve(m + 1) + Heartbeat
    /\ Reserve(0) + Heartbeat + Delay <= DeadAfter
<1> USE ConstantTypes DEF Reserve
<1>1. \A m \in 0 .. MaxMiss : Reserve(m) \in Nat
  OBVIOUS
<1>2. \A m \in 0 .. MaxMiss : m < MaxMiss => Reserve(m) = Reserve(m + 1) + Heartbeat
  OBVIOUS
<1>3. Reserve(0) + Heartbeat + Delay <= DeadAfter
  BY ToleranceAssumption DEF ToleranceAssumption
<1> QED
  BY <1>1, <1>2, <1>3

LEMMA GraceFacts == Moments => GraceNow \in Nat /\ GraceNow <= Grace
  BY ConstantTypes DEF Moments, GraceNow

LEMMA OnTimeInductive == Moments /\ OnTime /\ [Next]_vars => OnTime'
<1> SUFFICES ASSUME Moments, OnTime, [Next]_vars PROVE OnTime'
  OBVIOUS
<1> USE ConstantTypes DEF Moments
<1>1. CASE Hold
  BY <1>1 DEF OnTime, Hold, ladder
<1>2. CASE Beat
  BY <1>2 DEF OnTime, Beat, Renewed, Missed, ladder
<1>3. CASE Progress
  BY <1>3 DEF OnTime, Progress, keeper, ladder
<1>4. CASE Release
  BY <1>4 DEF OnTime, Release, ladder
<1>5. CASE Restart
  BY <1>5 DEF OnTime, Restart
<1>6. CASE Sweep
  BY <1>6 DEF OnTime, Sweep, keeper, LeaseDead, CursorFresh
<1>7. CASE Tick
  BY <1>7 DEF OnTime, Tick, keeper, ladder
<1>8. CASE Nap
  BY <1>8 DEF OnTime, Nap
<1>9. CASE UNCHANGED vars
  BY <1>9 DEF OnTime, vars, keeper, ladder
<1> QED
  BY <1>1, <1>2, <1>3, <1>4, <1>5, <1>6, <1>7, <1>8, <1>9 DEF Next

LEMMA CoveredInductive == Moments /\ OnTime /\ Covered /\ [Next]_vars => Covered'
<1> SUFFICES ASSUME Moments, OnTime, Covered, [Next]_vars PROVE Covered'
  OBVIOUS
<1> USE ConstantTypes, ReserveFacts DEF Moments
<1>1. CASE Hold
  BY <1>1 DEF Covered, Hold, ladder
<1>2. CASE Beat
  <2>1. now >= due /\ due' = due + Heartbeat
    BY <1>2 DEF Beat
  <2>2. CASE Renewed
    BY <2>1, <2>2 DEF Covered, Renewed
  <2>3. CASE Missed
    <3>1. Reserve(misses) = Reserve(misses') + Heartbeat /\ Reserve(misses') \in Nat
      BY <2>3 DEF Missed
    <3>2. UNCHANGED <<deadline, beaten, held, napped>>
      BY <1>2, <2>3 DEF Beat, Missed
    <3> QED
      BY <2>1, <3>1, <3>2 DEF Covered
  <2> QED
    BY <1>2, <2>2, <2>3 DEF Beat
<1>3. CASE Progress
  BY <1>3 DEF Covered, Progress, keeper, ladder
<1>4. CASE Release
  BY <1>4 DEF Covered, Release, ladder
<1>5. CASE Restart
  BY <1>5 DEF Covered, Restart
<1>6. CASE Sweep
  BY <1>6 DEF Covered, Sweep, keeper, LeaseDead, CursorFresh
<1>7. CASE Tick
  BY <1>7 DEF Covered, Tick, keeper, ladder
<1>8. CASE Nap
  BY <1>8 DEF Covered, Nap
<1>9. CASE UNCHANGED vars
  BY <1>9 DEF Covered, vars, keeper, ladder
<1> QED
  BY <1>1, <1>2, <1>3, <1>4, <1>5, <1>6, <1>7, <1>8, <1>9 DEF Next

\* A step that declares a run dead found its lease past the deadline, so no
\* keeper on time had renewed it.
LEMMA ReapedInductive ==
    Moments /\ OnTime /\ Covered /\ HeldIsNotReaped /\ [Next]_vars => HeldIsNotReaped'
<1> SUFFICES ASSUME Moments, OnTime, Covered, HeldIsNotReaped, [Next]_vars
             PROVE  HeldIsNotReaped'
  OBVIOUS
<1> USE ConstantTypes DEF Moments
<1>1. CASE Hold
  BY <1>1 DEF HeldIsNotReaped, Hold, ladder
<1>2. CASE Beat
  BY <1>2 DEF HeldIsNotReaped, Beat, Renewed, Missed, ladder
<1>3. CASE Progress
  BY <1>3 DEF HeldIsNotReaped, Progress, keeper, ladder
<1>4. CASE Release
  BY <1>4 DEF HeldIsNotReaped, Release, ladder
<1>5. CASE Restart
  BY <1>5 DEF HeldIsNotReaped, Restart
<1>6. CASE Sweep
  <2>1. held /\ beaten /\ ~napped => ~LeaseDead
    BY GraceFacts, ReserveFacts DEF OnTime, Covered, LeaseDead
  <2> QED
    BY <1>6, <2>1 DEF HeldIsNotReaped, Sweep, keeper
<1>7. CASE Tick
  BY <1>7 DEF HeldIsNotReaped, Tick, keeper, ladder
<1>8. CASE Nap
  BY <1>8 DEF HeldIsNotReaped, Nap
<1>9. CASE UNCHANGED vars
  BY <1>9 DEF HeldIsNotReaped, vars, keeper, ladder
<1> QED
  BY <1>1, <1>2, <1>3, <1>4, <1>5, <1>6, <1>7, <1>8, <1>9 DEF Next

\* lease.go's promise, for every cadence the tolerance assumption admits: a run
\* that a keeper holds is never declared dead while the host stays awake.
THEOREM HeldRunIsSpared == Spec => []HeldIsNotReaped
<1>1. Init => OnTime /\ Covered /\ HeldIsNotReaped
  BY DEF Init, OnTime, Covered, HeldIsNotReaped
<1>2. TypeOK => Moments
  BY DEF TypeOK
<1> QED
  BY <1>1, <1>2, TypeCorrect, OnTimeInductive, CoveredInductive, ReapedInductive, PTL DEF Spec

-----------------------------------------------------------------------------
(* The sweep catches up with whoever let go.                                 *)

\* The clock is ahead of everything written from it, and never passes a sweep.
InStep ==
    /\ cursor <= now /\ lastSweep <= now /\ left <= now /\ now <= sweepAt
    /\ deadline <= now + DeadAfter
    /\ ~napped => sweepAt <= lastSweep + SweepEvery

Abandoned == ~held /\ ~reaped /\ ~napped

\* What the last holder left behind: its lease, its last event or the one wedge
\* flag taken on that lease, and a sweep that has not found both spent.
LeaseSpends  == Abandoned => deadline <= left + DeadAfter
CursorSpends == Abandoned => \/ cursor <= left
                             \/ wedged /\ cursor <= left + DeadAfter + Grace
SweepFollows == Abandoned => lastSweep <= left + 2 * (DeadAfter + Grace)

LEMMA InStepInductive == Moments /\ InStep /\ [Next]_vars => InStep'
<1> SUFFICES ASSUME Moments, InStep, [Next]_vars PROVE InStep'
  OBVIOUS
<1> USE ConstantTypes DEF Moments
<1>1. CASE Hold
  BY <1>1 DEF InStep, Hold, ladder
<1>2. CASE Beat
  BY <1>2 DEF InStep, Beat, Renewed, Missed, ladder
<1>3. CASE Progress
  BY <1>3 DEF InStep, Progress, keeper, ladder
<1>4. CASE Release
  BY <1>4 DEF InStep, Release, ladder
<1>5. CASE Restart
  BY <1>5 DEF InStep, Restart
<1>6. CASE Sweep
  BY <1>6 DEF InStep, Sweep, keeper
<1>7. CASE Tick
  BY <1>7 DEF InStep, Tick, keeper, ladder
<1>8. CASE Nap
  BY <1>8 DEF InStep, Nap
<1>9. CASE UNCHANGED vars
  BY <1>9 DEF InStep, vars, keeper, ladder
<1> QED
  BY <1>1, <1>2, <1>3, <1>4, <1>5, <1>6, <1>7, <1>8, <1>9 DEF Next

LEMMA SpendsInductive ==
    Moments /\ InStep /\ LeaseSpends /\ CursorSpends /\ [Next]_vars
        => LeaseSpends' /\ CursorSpends'
<1> SUFFICES ASSUME Moments, InStep, LeaseSpends, CursorSpends, [Next]_vars
             PROVE  LeaseSpends' /\ CursorSpends'
  OBVIOUS
<1> USE ConstantTypes DEF Moments, InStep, LeaseSpends, CursorSpends, Abandoned
<1>1. CASE Hold
  BY <1>1 DEF Hold, ladder
<1>2. CASE Beat
  BY <1>2 DEF Beat, Renewed, Missed, ladder
<1>3. CASE Progress
  BY <1>3 DEF Progress, keeper, ladder
<1>4. CASE Release
  BY <1>4 DEF Release, ladder
<1>5. CASE Restart
  BY <1>5 DEF Restart
<1>6. CASE Sweep
  <2>1. UNCHANGED <<now, deadline, held, left, napped>> /\ ~reaped /\ LeaseSpends'
    BY <1>6 DEF Sweep, keeper
  <2>2. CASE ~LeaseDead /\ ~CursorFresh /\ ~wedged
    <3>1. wedged' /\ cursor' = now
      BY <1>6, <2>2, Zenon DEF Sweep
    <3> QED
      BY <2>1, <2>2, <3>1, GraceFacts DEF LeaseDead
  <2>3. CASE ~(~LeaseDead /\ ~CursorFresh /\ ~wedged)
    <3>1. cursor' = cursor /\ (wedged => wedged')
      BY <1>6, <2>3, Zenon DEF Sweep
    <3> QED
      BY <2>1, <3>1
  <2> QED
    BY <2>1, <2>2, <2>3
<1>7. CASE Tick
  BY <1>7 DEF Tick, keeper, ladder
<1>8. CASE Nap
  BY <1>8 DEF Nap
<1>9. CASE UNCHANGED vars
  BY <1>9 DEF vars, keeper, ladder
<1> QED
  BY <1>1, <1>2, <1>3, <1>4, <1>5, <1>6, <1>7, <1>8, <1>9 DEF Next

\* A sweep that spares an abandoned run found its lease or its cursor unspent.
LEMMA SweepFollowsInductive ==
    Moments /\ InStep /\ LeaseSpends /\ CursorSpends /\ SweepFollows /\ [Next]_vars
        => SweepFollows'
<1> SUFFICES ASSUME Moments, InStep, LeaseSpends, CursorSpends, SweepFollows, [Next]_vars
             PROVE  SweepFollows'
  OBVIOUS
<1> USE ConstantTypes DEF Moments, InStep, SweepFollows, Abandoned
<1>1. CASE Hold
  BY <1>1 DEF Hold, ladder
<1>2. CASE Beat
  BY <1>2 DEF Beat, Renewed, Missed, ladder
<1>3. CASE Progress
  BY <1>3 DEF Progress, keeper, ladder
<1>4. CASE Release
  BY <1>4 DEF Release, ladder
<1>5. CASE Restart
  BY <1>5 DEF Restart
<1>6. CASE Sweep
  <2>1. CASE ~LeaseDead
    BY <1>6, <2>1, GraceFacts DEF Sweep, LeaseDead, LeaseSpends, keeper
  <2>2. CASE CursorFresh
    BY <1>6, <2>2, GraceFacts DEF Sweep, CursorFresh, CursorSpends, keeper
  <2>3. CASE LeaseDead /\ ~CursorFresh
    BY <1>6, <2>3 DEF Sweep
  <2> QED
    BY <2>1, <2>2, <2>3
<1>7. CASE Tick
  BY <1>7 DEF Tick, keeper, ladder
<1>8. CASE Nap
  BY <1>8 DEF Nap
<1>9. CASE UNCHANGED vars
  BY <1>9 DEF vars, keeper, ladder
<1> QED
  BY <1>1, <1>2, <1>3, <1>4, <1>5, <1>6, <1>7, <1>8, <1>9 DEF Next

\* The sweep's promise, for every cadence: a run nobody holds is declared dead
\* within twice dead_after and the graces, and one sweep interval.
THEOREM AbandonedRunIsReaped == Spec => []DeadInTime
<1>1. Init => InStep /\ LeaseSpends /\ CursorSpends /\ SweepFollows
  BY ConstantTypes DEF Init, InStep, LeaseSpends, CursorSpends, SweepFollows, Abandoned
<1>2. TypeOK => Moments
  BY DEF TypeOK
<1>3. Moments /\ InStep /\ SweepFollows => DeadInTime
  BY ConstantTypes DEF Moments, InStep, SweepFollows, Abandoned, DeadInTime
<1> QED
  BY <1>1, <1>2, <1>3, TypeCorrect, InStepInductive, SpendsInductive, SweepFollowsInductive,
     PTL DEF Spec
=============================================================================
