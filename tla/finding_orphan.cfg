SPECIFICATION Spec
CONSTANTS
  Run = {a,b,c}
  Root = {a}
  NoFork = {}
  NoRun = NoRun
  MaxAttempts = 1
  LaneCap = 1
  MaxGen = 1
  Probes = {"gone"}
  Harvests = {FALSE}
  MaxCrashes = 0
  MaxNaps = 0
  MaxParks = 0
  MaxVerbs = 1
  LongSilence = FALSE
INVARIANT CardDiesWithItsRun
SYMMETRY Symmetry
CHECK_DEADLOCK FALSE
