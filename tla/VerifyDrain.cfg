SPECIFICATION Spec
CONSTANTS
    Finding = {f1, f2}
    Remark = {h1}
    NoAttempt = NoAttempt
    Client = {c1, c2}
    ReworkRounds = 2
    Patience = 1
    MaxForks = 1
    MaxGrants = 1
    MaxFaults = 1
CHECK_DEADLOCK FALSE
SYMMETRY Symmetry
INVARIANT BriefIsWhatWasConsumed
INVARIANT RoundsAreGranted
INVARIANT CardTellsAll
INVARIANT StopRule
PROPERTY AnswerMovesItsOwnPark
