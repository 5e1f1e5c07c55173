CONSTANTS
  Calls = {c1, c2}
  c1 = c1
  c2 = c2
  Asks <- AnyPair
  SendOutcomes = {"ok", "fail", "throw"}
  Answers = {"result", "garbled"}
  MaxPauses <- PauseUnlessShared
  Reuse = FALSE
SPECIFICATION Spec
CHECK_DEADLOCK FALSE
SYMMETRY Symmetry
INVARIANTS CompletesOnce ResultExplained ReturnLeavesNothing QuietAfterDestroy
