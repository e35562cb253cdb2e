\* Two slots, an index type of 8 values and a Drain array as large as the
\* ring, as in MessageQueue and NotificationManager.
CONSTANTS
  p1 = p1
  p2 = p2
  p3 = p3
  Null = Null
  Pointers = {p1, p2, p3}
  Capacity = 2
  MaxOut = 2
  IndexModulus = 8
SPECIFICATION Spec
INVARIANTS
  DepthDoesNotWrap
PROPERTY ImplementsChannel
