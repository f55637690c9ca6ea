SPECIFICATION AllSpec
CONSTANTS
  Dumps <- MCDumps
  LIMIT = 150
  MAX_REGIONS = 3
  MAX_TOTAL = 20
  MAX_MODULES = 2
  MAX_MAPPINGS = 6
  MAX_THREADS = 2
  Crashes <- MCCrashes
  MAX_STACK_FRAMES = 6
  MAX_STACK_CAPTURE = 9
  Processes <- MCProcesses
  MODULE_LIMIT = 4
  THREAD_LIMIT = 3
  CHUNK = 2
  Contents <- MCContents
  Small <- MCSmall
  Attached = {"a", "b"}
  LARGE_SIZE = 3
  ROOM = {7, 100}
  PLENTY = 100
  ALTERATIONS = 1
  INT32_HALF = 64
  Threads = {t1, t2}
  MAX_OPTIONS = {0, 1, 2}
  SENTRY_BREADCRUMBS_MAX = 3
  ADD_LIMIT = 5
  OVERLAP_LIMIT = 3
  FAULT_LIMIT = 1
  JsonPayloads <- MCPayloads
  FilePayloads <- MCFiles
  LARGE = 3
  MAX_SIZE = 3
  ENVELOPE_INT32_HALF = 8
  ITEM_LIMIT = 2
  ATTACHMENT_LIMIT = 2
  ENVELOPE_FAULTS = 1
  SENTRY_JSON_MAX_DEPTH = 2
  SENTRY_MPACK_MAX_DEPTH = 3
  INT32_MAX = 1
  INT64_MAX = 7
  UINT64_MAX = 15
  PLAIN_MAX = 4
  JsonTrees <- MCTrees
  Rooms <- MCRooms
  ValueThreads = {t1, t2}
  Keys = {"k"}
  MAX_THINGS = 9
  MAX_PAYLOADS = 7
  HANDLE_LIMIT = 2
  VALUE_OPS = 4
  SentEnvelopes <- MCSent
  ReportOptions <- MCReportOptions
  RETRY_ATTEMPTS = 2
  DISCARDS = 1
  SHUTDOWNS = 1
INVARIANTS DumpSound WalkSound SymbolsSound ReportReadable BreadcrumbsKept EnvelopeSound RoundTrip ValuesSound CountsConserved ItemsAccounted
PROPERTIES ValuesIndependent
