SPECIFICATION DCSpec
CONSTANTS
  u1 = u1
  u2 = u2
  d1 = d1
  d2 = d2
  User = {u1, u2}
  House = {h1}
  NoHouse = NoHouse
  Device = {d1, d2}
  Owner <- Own
  Dinner = {e1}
  Lot = Lot
  MaxTime = 4
  MaxChanges = 1
INVARIANT EditsAreSent
CHECK_DEADLOCK FALSE
