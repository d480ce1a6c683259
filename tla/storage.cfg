SPECIFICATION FairSpec
CONSTANTS
  small = small
  large = large
  Contents <- TwoContents
  Size <- TwoSizes
  Overhead = 1
  Limits <- ThreeLimits
  MaxId = 3
  MaxClock = 2
INVARIANTS TypeOK RowsIndexed
PROPERTIES KeepsHistory DoneMeansGone CaptureRetained OldestFirst WithinLimits CommandsEnd
