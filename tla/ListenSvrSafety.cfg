SPECIFICATION Spec
CONSTANTS
  a1 = a1
  t1 = t1
  t2 = t2
  t3 = t3
  s1 = s1
  s2 = s2
  s3 = s3
  None = None
  Admins <- OneAdmin
  Tmp <- TwoTmp
  Sock <- ThreeSocks
  HandleReuse = FALSE
  WaitMax = 2
  TimeLimit = 2
SYMMETRY Symmetry
INVARIANTS
  SlotServedInTime
  OneThreadPerSlot
  StoppedIsQuiet
\* stopSvr and a registering thread can block each other for good.
CHECK_DEADLOCK FALSE
