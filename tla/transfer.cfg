SPECIFICATION Spec
CONSTANTS
  None = None
  text = text
  html = html
  other = other
  hint = hint
  Atoms <- FourAtoms
  Allowed <- TwoAllowed
  Hint = hint
  Offers <- ThreeOffers
  MaxItem = 2
  Sizes = {0, 1, 2}
  MaxChunks = 2
  MaxClaims = 2
  MaxEpoch = 1
INVARIANTS TypeOK WithinItem HintedNeverAsked FiledAsGiven
CHECK_DEADLOCK FALSE
