CONSTANTS
  Items = {"i1", "i2"}
  Stubs = {"s"}
  StubOf <- TwoOnOne
  Pooled = {"i1", "i2"}
  Deadlined = {"i1"}
  Workers = {w1, w2}
  w1 = w1
  w2 = w2
  MaxConfigs = 2
  MaxThreads = 2
  MaxElements = 1
  IdleShrinks = TRUE
  RetireWorker = TRUE
  Faults = TRUE
  MaxPauses = 1
  SerialShutdown = TRUE
SPECIFICATION FairSpec
CHECK_DEADLOCK FALSE
INVARIANTS RetiredPoolEmpty
PROPERTIES InvokesEnd OwnersReturn
