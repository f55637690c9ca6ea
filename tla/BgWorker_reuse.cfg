SPECIFICATION Spec
CONSTANTS
  Clients = {c1, c2}
  Droppers = {c1}
  MaxTasks = 2
  MaxTime = 1
  Timeout = 1
  Delays = {0, 1}
  MayReuse = TRUE
CHECK_DEADLOCK FALSE
INVARIANTS NeverSkipped
