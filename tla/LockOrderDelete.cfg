SPECIFICATION Spec
CONSTANTS
  User = {u1, u2}
  House = {h1, h2}
  Tx = {t1, t2}
  NoHouse = NoHouse
  Unread = Unread
  Kinds = {"create", "add", "member", "delete"}
SYMMETRY Symmetric
INVARIANT NoDeadlock
CHECK_DEADLOCK FALSE
