SPECIFICATION Spec
CONSTANTS
  c1 = c1
  c2 = c2
  d1 = d1
  None = None
  Callers <- OneCaller
  DO <- OneRelay
  Asked <- AskReg
  Delay = 1
  Delays = {}
  BufNum = 3
  Late = TRUE
  MaxTime = 1
  MaxWire = 1
INVARIANTS
  ReadingsMatch
