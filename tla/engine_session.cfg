SPECIFICATION FairSpec
CONSTANTS
  i1 = i1
  NoItem = NoItem
  X11 = TRUE
  Items = {}
  Inputs <- SessionInputs
  Failures <- AllFailures
  MaxEpoch = 2
  MaxQueue = 2
  MaxSerial = 1
INVARIANTS TypeOK ReadyHasWriter StaleReadyPending
PROPERTIES LockCloses WriterReturns
