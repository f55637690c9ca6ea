SPECIFICATION AllSpec
CONSTANTS
  Apps = {a1, a2}
  Starters = {a1, a2}
  MaxInits = 2
  MaxSessions = 2
  MaxCaptures = 2
  Clients = {c1, c2}
  Droppers = {c1}
  MaxTasks = 2
  MaxTime = 1
  Timeout = 1
  Delays = {0, 1}
  MayReuse = FALSE
CHECK_DEADLOCK FALSE
INVARIANTS LifeCycleSafe WorkerSafe
PROPERTIES CallsReturn WorkerLive
