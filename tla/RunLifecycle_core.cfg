SPECIFICATION Spec
CONSTANTS
  Run = {a,b,c}
  Root = {a}
  NoFork = {}
  NoRun = NoRun
  MaxAttempts = 1
  LaneCap = 1
  MaxGen = 1
  Probes = {"gone","active"}
  Harvests = {FALSE}
  MaxCrashes = 1
  MaxNaps = 1
  MaxParks = 1
  MaxVerbs = 0
  LongSilence = FALSE
INVARIANT TypeOK
INVARIANT OneSuccessor
INVARIANT SupersededIsFenced
INVARIANT QueueAgrees
INVARIANT ReceiptsAreFinal
INVARIANT OpenAskIsParked
INVARIANT AttemptsBounded
PROPERTY EndsWithDoor
PROPERTY DrivenIsNotReaped
SYMMETRY Symmetry
CHECK_DEADLOCK FALSE
