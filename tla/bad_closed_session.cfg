CONSTANTS
  Items = {"i1", "i2"}
  Stubs = {"s"}
  StubOf <- TwoOnOne
  Pooled = {"i1", "i2"}
  Deadlined = {}
  Workers = {w1}
  w1 = w1
  MaxConfigs = 1
  MaxThreads = 1
  MaxElements = 0
  IdleShrinks = FALSE
  RetireWorker = FALSE
  Faults = FALSE
  MaxPauses = 1
  SerialShutdown = TRUE
SPECIFICATION FairSpec
CHECK_DEADLOCK FALSE
PROPERTIES ClosedSessionRejects
