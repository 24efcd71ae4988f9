SPECIFICATION Spec
CONSTANTS
  Request = {r1,r2}
  Tiers = {0,1,2,3}
  MaxCards = 2
  MaxForks = 1
  CoverageRounds = 1
  CritiqueRounds = 1
  Budgets <- MCBudgets
SYMMETRY Symmetry
INVARIANT IntakeTypeOK
INVARIANT GatesWait
INVARIANT ApprovalIsFinal
INVARIANT ObjectionsAreHeard
INVARIANT DriveSettles
CHECK_DEADLOCK FALSE
