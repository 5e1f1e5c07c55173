CONSTANTS
  Items = {"i1", "i2", "i3"}
  Stubs = {"s"}
  StubOf <- OneStub
  Pooled = {"i1", "i2", "i3"}
  Deadlined = {"i1"}
  Workers = {w1, w2, w3}
  w1 = w1
  w2 = w2
  w3 = w3
  MaxConfigs = 1
  MaxThreads = 2
  MaxElements = 2
  IdleShrinks = TRUE
  RetireWorker = FALSE
  Faults = TRUE
  MaxPauses = 1
  SerialShutdown = TRUE
SPECIFICATION Spec
CHECK_DEADLOCK FALSE
SYMMETRY Symmetry
INVARIANTS TypeOK CountersExact LimitsHold FloorStays WorkNotStranded
