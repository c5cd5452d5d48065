SPECIFICATION Spec
CONSTANTS
  k1 = k1  k2 = k2
  b1 = b1  b2 = b2
  f1 = f1  f2 = f2
  Keys = {k1, k2}
  Bodies = {b1, b2}
  BodyKey <- MCBodyKey
  Files = {f1, f2}
  SafeFileName <- MCFileName
  MaxClock = 1
  Absent = Absent  Torn = Torn  NoBody = NoBody
  Admins = {a1}
  Faults = TRUE
  Unsure = Unsure
INVARIANTS Recoverable AckedIsStored ServedMirrorsStore
PROPERTY ImplementsPublished
CHECK_DEADLOCK FALSE
