CONSTANTS
  Items = {"a1", "a2", "b1"}
  Stubs = {"a", "b"}
  StubOf <- ThreeOnTwo
  Pooled = {"a1", "a2", "b1"}
  Deadlined = {}
  Workers = {w1}
  w1 = w1
  MaxConfigs = 1
  MaxThreads = 1
  MaxElements = 0
  IdleShrinks = FALSE
  RetireWorker = TRUE
  Faults = TRUE
  MaxPauses = 1
  SerialShutdown = TRUE
SPECIFICATION Spec
CHECK_DEADLOCK FALSE
INVARIANTS PauseDrains DeadStubUntouched
PROPERTIES KeepsContract
