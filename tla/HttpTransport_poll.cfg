SPECIFICATION Spec
CONSTANTS
  Envelopes = {e1}
  Refs = {}
  Attempts = 2
  CacheKeep = "NONE"
  MaxStarts = 2
  EarlyTrigger = TRUE
  None = None
CHECK_DEADLOCK FALSE
INVARIANTS PollArmed
