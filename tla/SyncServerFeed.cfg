SPECIFICATION LiveSpec
CONSTANTS
  alice = alice
  home = home
  none = none
  item = item
  lot = lot
  dinner = dinner
  soup = soup
  cake = cake
  t1 = t1
  t2 = t2
  NoHouse = none
  NoItem = NoItem
  NoRequest = NoRequest
  House = {home}
  Recipe = {soup, cake}
  PantryEntity = {}
  DinnerEntity = {dinner}
  Entity = {item, dinner}
  User = {alice}
  Request <- FeedRequests
  Reader <- AliceAccount
  Tx = {t1, t2}
  Skew = 1
  MaxLinks = 1
  PageLimit = 1
  MaxClock = 0
  MaxCrashes = 0
INVARIANTS
  NoChangeSkipped
PROPERTIES
  ProcessedOnce
  EventuallyProcessed
  EventuallyRead
