SPECIFICATION Spec
CONSTANTS
  User = {u1, u2}
  House = {h1}
  Tx = {t1, t2}
  NoHouse = NoHouse
  Unread = Unread
  Kinds = {"diary", "lot", "consume", "plan", "migrate", "import", "feed", "create", "zone", "add", "member", "delete", "grant", "context", "candidate", "consent", "chat", "settle", "mark"}
SYMMETRY Symmetric
INVARIANT NoDeadlock
CHECK_DEADLOCK FALSE
