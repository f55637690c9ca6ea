SPECIFICATION AllSpec
CONSTANTS
  Threads = {1, 2}
  Backends = {"crashpad_windows", "native"}
  Observers = {11, 12}
  Menus <- MCMenus
  SCOPE_CALLS = 3
  SCOPE_DEPTH = 2
  SCOPE_CRASHES = 1
  Transactions = {1, 2}
  Spans = {1, 2}
  TraceHeaders <- MCHeaders
  TraceOptions <- MCTraceOptions
  MAX_SPANS = 1
  TRACE_CALLS = 5
  Procs = {1, 2, 3}
  Daemonic = {1, 2}
  Casts = {{1, 2, 3}, {1, 2, 11}, {1, 2, 12}}
  Platforms = {"unix", "windows"}
  STALE_STAT = {FALSE}
  SENTRY_MAX_ENVELOPE_SESSIONS = 2
  MAX_INODES = 7
  ActiveProcs = {1}
  Crashpads = {2}
  KILLS = 1
  Uuids = {101, 102, 103}
  Retried = {101}
  Sizes = {1, 2}
  Times = {1, 3}
  Now = 4
  MaxAges = {0, 2}
  MaxSizes = {0, 3}
  MaxItems = {0, 1}
  INTERFERENCES = 1
CHECK_DEADLOCK FALSE
INVARIANTS ObserversAgree FlushKept TraceRefsExact TransactionsSound RunsSound CachePruned
