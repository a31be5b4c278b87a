SPECIFICATION Spec
CONSTANTS
  u1 = u1
  u2 = u2
  User = {u1}
  Home = Home
  Guest = Guest
  NoSession = NoSession
  MaxSignIns = 1
  MaxEvents = 2
INVARIANTS AnswersAreOfThisStay
CHECK_DEADLOCK FALSE
