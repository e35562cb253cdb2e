CONSTANTS
  b = b
  a = a
  s1 = s1
  s2 = s2
  s3 = s3
  t1 = t1
  Signals = {a, b}
  Slots = {s1, s2, s3}
  Trackers = {t1}
  None = None
  Owner <- MCOwner
  FirstBlock = 1
  CacheThreshold = 2
  IndexLimit = 4
  MaxNodes <- MCMaxNodes
SPECIFICATION SignalSpec
INVARIANTS PoolIsConsistent TrackersAgree
PROPERTY KeepsPromise
CHECK_DEADLOCK FALSE
