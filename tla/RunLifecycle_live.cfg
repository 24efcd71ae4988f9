SPECIFICATION LiveSpec
CONSTANTS
  Run = {a,b,c}
  Root = {a}
  NoFork = {}
  NoRun = NoRun
  MaxAttempts = 1
  LaneCap = 1
  MaxGen = 1
  Probes = {"gone"}
  Harvests = {FALSE}
  MaxCrashes = 1
  MaxNaps = 0
  MaxParks = 0
  MaxVerbs = 0
  LongSilence = FALSE
PROPERTY UndrivenIsDecided
PROPERTY CrashIsDecided
CHECK_DEADLOCK FALSE
