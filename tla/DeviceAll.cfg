SPECIFICATION FairSpec
CONSTANTS
  u1 = u1
  u2 = u2
  User = {u1, u2}
  Home = Home
  Guest = Guest
  NoSession = NoSession
  MaxSignIns = 2
  MaxEvents = 1
INVARIANTS PurgedStaysGone ShownIsConfirmed
PROPERTIES PurgedWhenRefused EveryBootEnds
CHECK_DEADLOCK FALSE
