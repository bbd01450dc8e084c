CONSTANTS
  p1 = p1
  p2 = p2
  p3 = p3
  n1 = n1
  n2 = n2
  r1 = r1
  r2 = r2
  NoPort = NoPort
  NoProject = NoProject
  Project <- ThreeProjects
  Port <- TwoPorts
  Request <- TwoRequests
  BadId = {}
  BadPort = {n2}
  InitialProject = {p1, p2}
  InitialPort = n1
  MaxClicks = 4
  MaxLosses = 1
SPECIFICATION BarsSpec
SYMMETRY Alike
CHECK_DEADLOCK FALSE
INVARIANTS QuietBarIsExact DeletedNotSelected
