SPECIFICATION Spec
CONSTANTS
  w1 = w1
  w2 = w2
  Self = Self
  None = None
  Windows = {w1, w2}
  Events <- AllEvents
  MaxClaims = 3
  MaxEpoch = 1
INVARIANTS TypeOK OffersOnlyAccepted NoRecapture AnsweredOnce
PROPERTIES NoRevivalPastCheck SavedBeforeAnswer
