SPECIFICATION Spec
CONSTANTS
  small = small
  large = large
  Contents <- TwoContents
  Size <- TwoSizes
  Overhead = 1
  Limits <- ThreeLimits
  MaxId = 2
  MaxClock = 0
INVARIANT NoTombstones
