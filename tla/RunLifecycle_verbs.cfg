SPECIFICATION Spec
CONSTANTS
  Run = {a,b,c}
  Root = {a}
  NoFork = {}
  NoRun = NoRun
  MaxAttempts = 1
  LaneCap = 1
  MaxGen = 1
  Probes = {"exit0","gone"}
  Harvests = {FALSE}
  MaxCrashes = 0
  MaxNaps = 0
  MaxParks = 0
  MaxVerbs = 1
  LongSilence = TRUE
INVARIANT OneSuccessor
INVARIANT ReceiptsAreFinal
PROPERTY EndsWithDoor
SYMMETRY Symmetry
CHECK_DEADLOCK FALSE
