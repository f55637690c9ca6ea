SPECIFICATION FairSpec
CONSTANTS
  Producers = {p1, p2}
  Flushers = {f1}
  BufferCount = 2
  QueueLength = 2
  MaxItems = 4
INVARIANTS RingSafe
PROPERTIES RingOrder ItemsSent
