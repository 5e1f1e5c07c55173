CONSTANTS
  Calls = {"c1", "c2"}
  Asks <- Pairs
  SendOutcomes = {"ok", "fail"}
  Answers = {"error"}
  MaxPauses <- PauseUnlessShared
  Reuse = FALSE
SPECIFICATION FairSpec
CHECK_DEADLOCK FALSE
PROPERTIES KeepsCallContract WaitersReleased DeadlineCallsBack DestructorReturns
