SPECIFICATION Spec
CONSTANTS
  t1 = t1
  t2 = t2
  Tab = {t1, t2}
  None = None
  Unset = Unset
  MaxEdits = 2
  MaxReads = 2
  MaxEvents = 2
  Stride = 20
PROPERTIES
  SavedSurvivesRecovery
CHECK_DEADLOCK FALSE
