SPECIFICATION Spec
CONSTANTS
  Producers = {p1, p2}
  Flushers = {f1}
  BufferCount = 3
  QueueLength = 1
  MaxItems = 4
PROPERTIES FlushThrough
