SPECIFICATION FairSpec
CONSTANTS
    NSteps = 3
    NoTree = NoTree
    MaxForks = 2
    MaxFaults = 3
    MaxLapses = 2
    MaxStrays = 1
    MaxPauses = 1
CHECK_DEADLOCK FALSE
INVARIANT ExecuteTypeOK
INVARIANT DoneMeansDelivered
INVARIANT WholeWorkIsVerified
PROPERTY StepsBuildOnFinishedWork
PROPERTY ExecutionSettles
PROPERTY PlanIsKept
