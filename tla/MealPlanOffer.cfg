SPECIFICATION Spec
CONSTANTS
  User = {alice, bob}
  House = {home}
  NoHouse = NoHouse
  MaxOps = 3
  MaxTime = 2
  Skew = 0
SYMMETRY Symmetric
INVARIANTS
  OfferCanBeTaken
CHECK_DEADLOCK FALSE
