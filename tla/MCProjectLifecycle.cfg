CONSTANTS
  p1 = p1
  p2 = p2
  p3 = p3
  n1 = n1
  n2 = n2
  n3 = n3
  r1 = r1
  r2 = r2
  NoPort = NoPort
  NoProject = NoProject
  Project <- ThreeProjects
  Port <- ThreePorts
  Request <- TwoRequests
  BadId = {p3}
  BadPort = {n3}
SPECIFICATION FairHostSpec
CHECK_DEADLOCK FALSE
INVARIANTS StatusMatchesServer BoundPortIsRecorded NobodyStuckHalfway
PROPERTIES ControlSpec RequestsAnswered
