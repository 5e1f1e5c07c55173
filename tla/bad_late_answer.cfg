CONSTANTS
  Calls = {"sync"}
  Asks <- AllSync
  SendOutcomes = {"ok"}
  Answers = {"result"}
  MaxPauses <- PauseUnlessShared
  Reuse = FALSE
SPECIFICATION Spec
CHECK_DEADLOCK FALSE
INVARIANTS LateAnswerIgnored
