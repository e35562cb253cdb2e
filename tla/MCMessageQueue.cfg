CONSTANTS
  b1 = b1
  b2 = b2
  b3 = b3
  None = None
  Buffers = {b1, b2, b3}
  RingCapacity = 1
  MaxProcessQueue = 2
  MaxFreeBuffers = 1
  MaxMessages = 3
SPECIFICATION FairSpec
INVARIANTS
  EachBufferInOnePlace
  EachMessageOnceInOrder
  WaiterCanBeWoken
PROPERTIES
  EveryMessageProcessed
  SceneUpdateReported
