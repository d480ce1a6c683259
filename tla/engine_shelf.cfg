SPECIFICATION Spec
CONSTANTS
  i1 = i1
  NoItem = NoItem
  X11 = TRUE
  Items = {i1}
  Inputs <- ShelfInputs
  Failures = {}
  MaxEpoch = 3
  MaxQueue = 2
  MaxSerial = 2
INVARIANTS ShelfConverges ShelfHidden
PROPERTY RestoreNotAcrossLock
