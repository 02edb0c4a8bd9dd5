SPECIFICATION Spec
CONSTANTS
  c1 = c1
  c2 = c2
  d1 = d1
  None = None
  Callers <- TwoCallers
  DO <- OneRelay
  Asked <- AskRelay
  Delay = 1
  Delays = {0, 1}
  BufNum = 3
  Late = FALSE
  MaxTime = 3
  MaxWire = 1
INVARIANTS
  CommandedOnIsTimed
  ShownOnIsTimed
  AnswersMatch
