SPECIFICATION FairSpec
CONSTANTS
  w1 = w1
  w2 = w2
  Self = Self
  None = None
  Windows = {w1}
  Events = {"Exit"}
  MaxClaims = 2
  MaxEpoch = 0
PROPERTY DestroyedIsPreserved
