CONSTANTS
  i1 = i1
  i2 = i2
  r1 = r1
  c1 = c1
  c2 = c2
  c3 = c3
  None = None
  Interfaces = {i1, i2}
  Roots = {r1}
  Callbacks = {c1, c2, c3}
  MaxCalls = 4
SPECIFICATION FairSpec
INVARIANTS
  RemovedIsNotCalled
  LinkIsExact
  SyncPointsInOrder
PROPERTIES
  InvalidIsFreed
CHECK_DEADLOCK FALSE
