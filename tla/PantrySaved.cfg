SPECIFICATION Spec
CONSTANTS
  t1 = t1
  t2 = t2
  Tab = {t1, t2}
  None = None
  Unset = Unset
  MaxEdits = 2
  MaxReads = 2
  MaxEvents = 1
  Stride = 20
INVARIANTS
  SavedIsKept
CHECK_DEADLOCK FALSE
