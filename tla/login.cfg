SPECIFICATION Spec
CONSTANTS
  k1 = k1
  k2 = k2
  cinnamon = cinnamon
  freedesktop = freedesktop
  Savers <- TwoSavers
  Keys <- TwoKeys
  NoKey = NoKey
  MaxChanges = 2
  MaxAsks = 2
  MaxCrashes = 1
SYMMETRY Symmetry
INVARIANTS TypeOK LockIsKnown NoSecondKey ReadyIsKept ErasedMeansGone
PROPERTY QuietStaysQuiet
CHECK_DEADLOCK FALSE
