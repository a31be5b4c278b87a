SPECIFICATION LiveSpec
CONSTANTS
  milk = milk
  rice = rice
  NoItem = NoItem
  Recipe = {}
  DinnerEntity = {}
  MaxLinks = 0
  HouseScope = HouseScope
  Device = {1, 2}
  Editor = {1}
  Item = {milk}
  Ahead <- OneAhead
  Skew = 0
  BatchLimit = 1
  PageLimit = 1
  MaxPages = 2
  MaxEdits = 2
  MaxFaults <- WriterFaults
INVARIANTS
  CursorBehindList
PROPERTIES
  QueuedUntilProcessed
  EventuallyUploaded
  EventuallyShown
