SPECIFICATION Spec
CONSTANTS
  i1 = i1
  NoItem = NoItem
  X11 = TRUE
  Items = {i1}
  Inputs <- RetryInputs
  Failures = {}
  MaxEpoch = 3
  MaxQueue = 2
  MaxSerial = 1
INVARIANT ReadyIsReadable
