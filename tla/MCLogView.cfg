CONSTANTS
  FilterId = {f1, f2}
  Preset = {methods}
  NoPreset = NoPreset
  Criterion <- Criteria
  NoCriterion = NoCriterion
  MaxWaiting = 2
  MaxRestarts = 1
  NumberOf <- Numbers
  FamilyOf <- Families
  Inside <- InsidePairs
  Log <- Logs
  PageSize = 2
  MaxFilters = 2
  Digits <- Wholes
  Signed <- Negatives
  TimeOf <- Times
  TrimOf <- Blanks
  UpperOf <- Uppers
  Unsendable = {"$or"}
  NoMax = NoMax
SPECIFICATION BothSpec
SYMMETRY Ids
INVARIANTS ActiveFiltersNarrow EditsReachTheList OnePresetEach QueriesShowTheList
