CONSTANTS
  Threads = {t1, t2}
  Options <- DiscardOptions
  MaxStarts = 2
  MaxFaults = 2
SPECIFICATION Spec
INVARIANT DiscardHonoured
