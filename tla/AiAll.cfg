SPECIFICATION Spec
CONSTANTS
  alice = alice
  a1 = a1
  a2 = a2
  g1 = g1
  phone = phone
  User = {alice}
  Call = {a1, a2, g1}
  Chats = {a1, a2}
  Owner <- Owners
  Device = {phone}
  DeviceUser <- Devices
  Edit <- Edits
  NoCall = NoCall
  Capacity = 2
  QueueSize = 1
  Connections = 3
  DailyLimit = 1
  GlobalLimit = 2
  Generations = 1
  MaxAttempts = 2
  MaxDay = 1
  MaxRevision = 2
  MaxFaults = 1
SYMMETRY Symmetric
INVARIANTS
  NoSlotLost
  WorkIsCounted
  EachDayCounted
PROPERTIES
  SentUnderConsent
  GivenKnowingly
CHECK_DEADLOCK FALSE
