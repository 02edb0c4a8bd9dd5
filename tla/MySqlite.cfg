SPECIFICATION FairSpec
CONSTANTS
  w1 = w1
  w2 = w2
  None = None
  Callers <- TwoCallers
  MaxCalls = 4
INVARIANTS
  WorksForItsCaller
  LostOnlyIfRefused
PROPERTIES
  
  ExecuteReturns
  ClosedTwiceForACause
\* All calls are used up, or a caller waits for a thread that never started.
CHECK_DEADLOCK FALSE
