SPECIFICATION Spec
CONSTANTS
  User = {alice, bob, carol}
  Verified = {alice, bob, carol}
  House = {home}
  NoHouse = NoHouse
  NoUser = NoUser
  Tx = {t1, t2}
  MaxCrashes = 0
SYMMETRY Symmetric
INVARIANTS
  AdminInEveryHouse
  GrantsHaveAdmins
  NoOrphanedRows
PROPERTIES
  ChangedByAdmins
CHECK_DEADLOCK FALSE
