CONSTANTS
  q1 = q1
  q2 = q2
  q3 = q3
  Request <- ThreeRequests
  MaxLogs = 1
  ListenersPath = TRUE
  TornCrash = TRUE
  MaxRestarts = 1
SPECIFICATION HostSpec
CHECK_DEADLOCK FALSE
SYMMETRY RequestSymmetry
INVARIANTS UniqueIds OpenIsListed NoGhostOpen
PROPERTIES OpenSocketsKeepTheirLog TrimIsExact RemovedLogsStayRemoved
