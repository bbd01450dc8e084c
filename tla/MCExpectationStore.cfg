CONSTANTS
  Rank <- ThreeRanks
  Key <- Keys
  Content <- Contents
  File <- Files
  MaxDoc = 4
SPECIFICATION BothSpec
CONSTRAINT LargeIsAlike
CHECK_DEADLOCK FALSE
INVARIANTS BestAnswers ListShowsEngineOrder
PROPERTIES SilencingIsLocal ImportMakesNoTwins
