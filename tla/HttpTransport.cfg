SPECIFICATION FairSpec
CONSTANTS
  Envelopes = {e1, e2}
  Refs = {e2}
  Attempts = 2
  CacheKeep = "NONE"
  MaxStarts = 2
  None = None
  EarlyTrigger = FALSE
CHECK_DEADLOCK FALSE
INVARIANTS TransportSafe
PROPERTIES RetriesEnd
