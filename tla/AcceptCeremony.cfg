SPECIFICATION Spec
CONSTANTS
  Effect = {e1, e2}
  Deliverable = {d1, d2}
  Boot = Boot
  None = None
  MaxStamp = 3
  MaxCrashes = 2
  MaxOthers = 1
INVARIANT EffectLandsOnce
INVARIANT AcceptedIsLanded
INVARIANT LocalFollowsRemote
PROPERTY BranchesOnlyGrow
SYMMETRY Symmetry
CHECK_DEADLOCK FALSE
