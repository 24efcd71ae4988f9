SPECIFICATION FairSpec
CONSTANTS
    Finding = {f1}
    Remark = {h1}
    NoAttempt = NoAttempt
    Client = {}
    ReworkRounds = 2
    Patience = 2
    MaxForks = 1
    MaxGrants = 1
    MaxFaults = 1
CHECK_DEADLOCK FALSE
INVARIANT TombstoneIsEarned
