SPECIFICATION AllSpec
CONSTANTS
  Threads = {t1, t2}
  Options <- MCOptions
  MaxStarts = 2
  MaxFaults = 2
  AppThreads = {t1, t2}
  HandlerThread = ht
  NoThread = none
  CRASH_LIMIT = 3
  RESTART_LIMIT = 1
INVARIANTS HandoverSafe InprocReported
PROPERTIES HandoffImplemented CrashesHandled InprocEnds
