SPECIFICATION Spec
CONSTANTS
  Heartbeat = 1
  DeadAfter = 3
  Grace = 1
  SweepEvery = 2
  Delay = 1
  MaxMiss = 1
  MaxNap = 3
  SuspendCounts = FALSE
  Horizon = 15
INVARIANT HeldIsNotReaped
INVARIANT DeadInTime
CHECK_DEADLOCK FALSE
