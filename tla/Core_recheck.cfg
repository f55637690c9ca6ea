SPECIFICATION Spec
CONSTANTS
  Apps = {a1, a2}
  Starters = {a1}
  MaxInits = 2
  MaxSessions = 2
  MaxCaptures = 2
CHECK_DEADLOCK FALSE
INVARIANTS RecheckFindsOptions
 
