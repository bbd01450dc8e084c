CONSTANTS
  p1 = p1
  p2 = p2
  Project <- TwoProjects
  First = p1
  MaxId = 6
  MaxText = 3
  MaxPending = 4
  Budgets <- Scenarios
SPECIFICATION FairSpec
CHECK_DEADLOCK FALSE
INVARIANTS QuietListIsStored SelectionFollows CreatedOnce
PROPERTY SavingEnds
