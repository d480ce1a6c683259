SPECIFICATION CFairSpec
CONSTANTS
  NoItem = NoItem
  NoJob = NoJob
  StopX11 = StopX11
  X11 = TRUE
  Items = {}
  Inputs <- CaptureInputs
  Failures <- StorageFailure
  MaxEpoch = 2
  MaxQueue = 1
  MaxSerial = 1
  MaxCopies = 2
INVARIANTS CTypeOK ApprovedIsStored
PROPERTIES InOrder RawDrains NoCommitAcrossBarrier CommitUnderCurrentSettings
