SPECIFICATION FairSpec
CONSTANTS
  c1 = c1
  c2 = c2
  d1 = d1
  None = None
  Callers <- TwoCallers
  DO <- NoRelay
  Asked <- AskGroup
  Delay = 1
  Delays = {}
  BufNum = 2
  Late = FALSE
  MaxTime = 1
  MaxWire = 1
INVARIANTS
  ReadingsMatch
PROPERTIES
  RequestsReturn
