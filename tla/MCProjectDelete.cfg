CONSTANTS
  p1 = p1
  p2 = p2
  p3 = p3
  n1 = n1
  n2 = n2
  n3 = n3
  r1 = r1
  r2 = r2
  NoPort = NoPort
  NoProject = NoProject
  Project <- TwoProjects
  Port <- TwoPorts
  Request <- TwoRequests
  BadId = {}
  BadPort = {}
SPECIFICATION HostSpec
CHECK_DEADLOCK FALSE
PROPERTY DeletesOnlyStopped
