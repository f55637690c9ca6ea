SPECIFICATION AllSpec
CONSTANTS
  Workers = {w1, w2}
  Clients = {c1, c2}
  MaxPending = 3
  MaxTasks = 4
  MaxStarts = 1
  QueueLength = 2
  BufferCount = 3
  MaxItems = 5
  MaxBatches = 3
  Producers = {p1, p2}
  Handlers = {h1}
  Batchers = {b1, b2, b3}
  NoBatcher = NoBatcher
  RefOwner = owner
INVARIANTS PoolSafe FlushesSafe TasksSafe RefSafe
PROPERTIES FlushBarrier PoolLive FlushesEnd TasksEnd OwnerReturns
