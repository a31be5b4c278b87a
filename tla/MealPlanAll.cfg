SPECIFICATION Spec
CONSTANTS
  User = {alice, bob}
  House = {home}
  NoHouse = NoHouse
  MaxOps = 3
  MaxTime = 2
  Skew = 0
SYMMETRY Symmetric
INVARIANTS
  NoChoiceLost
  NothingQuarantined
  ConflictIsFinal
  ResolvedByItsChoice
CHECK_DEADLOCK FALSE
