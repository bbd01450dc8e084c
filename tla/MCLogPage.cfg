CONSTANTS
  p1 = p1
  p2 = p2
  Project <- TwoProjects
  NoProject = NoProject
  Busy <- OneBusy
  MaxId = 2
  MaxVersion = 1
  PageSize = 1
  FilterId = {f1}
  NoFilter = NoFilter
  Budgets <- Scenarios
  MaxPending = 2
  MaxChannel = 2
SPECIFICATION FairSpec
CHECK_DEADLOCK FALSE
INVARIANTS QuietPageIsExact QuietChipsAreStored
PROPERTY BusyEnds
