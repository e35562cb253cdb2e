CONSTANTS
  b1 = b1
  b2 = b2
  b3 = b3
  b4 = b4
  None = None
  Batches = {b1, b2, b3, b4}
  RingCapacity = 2
  MaxFreeBatches = 1
  MaxNotifications = 4
SPECIFICATION RenderingSpec
INVARIANTS
  EachBatchInOnePlace
  EachNotificationOnceInOrder
  PendingIsAnnounced
PROPERTY EveryNotificationDelivered
