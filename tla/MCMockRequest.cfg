CONSTANTS
  r1 = r1
  r2 = r2
  a1 = a1
  a2 = a2
  NoAction = NoAction
  Request <- TwoRequests
  Action <- TwoActions
SPECIFICATION BothSpec
CHECK_DEADLOCK FALSE
INVARIANTS ImplFitsAction StreamsAreNotCut UpstreamReleased LogTellsTheAnswer
PROPERTIES AnsweredOnce AcceptedIsAnswered
