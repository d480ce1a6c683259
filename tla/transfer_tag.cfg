SPECIFICATION Spec
CONSTANTS
  None = None
  text = text
  html = html
  other = other
  hint = hint
  Atoms <- FourAtoms
  Allowed <- TwoAllowed
  Hint = hint
  Offers <- ThreeOffers
  MaxItem = 2
  Sizes = {1}
  MaxChunks = 0
  MaxClaims = 2
  MaxEpoch = 0
INVARIANT TaggedWithOwner
CHECK_DEADLOCK FALSE
