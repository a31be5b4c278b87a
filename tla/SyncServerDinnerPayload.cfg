SPECIFICATION Spec
CONSTANTS
  alice = alice
  home = home
  none = none
  item = item
  lot = lot
  dinner = dinner
  soup = soup
  cake = cake
  t1 = t1
  t2 = t2
  NoHouse = none
  NoItem = NoItem
  NoRequest = NoRequest
  House = {home}
  Recipe = {soup, cake}
  PantryEntity = {}
  DinnerEntity = {dinner}
  Entity = {dinner}
  User = {alice}
  Request <- DinnerRequests
  Reader <- NoReaders
  Tx = {t1, t2}
  Skew = 1
  MaxLinks = 2
  PageLimit = 1
  MaxClock = 1
  MaxCrashes = 0
SYMMETRY Symmetric
INVARIANTS
  DinnerPayloadLastWriterWins
