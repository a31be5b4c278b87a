SPECIFICATION LiveSpec
CONSTANTS
  User = {alice, bob}
  Verified = {}
  House = {home}
  NoHouse = NoHouse
  NoUser = NoUser
  Tx = {t1}
  MaxCrashes = 1
PROPERTIES
  MarkResumed
CHECK_DEADLOCK FALSE
