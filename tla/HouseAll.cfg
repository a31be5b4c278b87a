SPECIFICATION LiveSpec
CONSTANTS
  User = {alice, bob}
  Verified = {bob}
  House = {home}
  NoHouse = NoHouse
  NoUser = NoUser
  Tx = {t1, t2}
  MaxCrashes = 1
INVARIANTS
  AdminInEveryHouse
  GrantsHaveAdmins
PROPERTIES
  ChangedByAdmins
  EventuallyMoved
  EventuallyUnmarked
CHECK_DEADLOCK FALSE
