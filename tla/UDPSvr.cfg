SPECIFICATION FairSpec
CONSTANTS
  w1 = w1
  w2 = w2
  u = u
  d1 = d1
  d2 = d2
  None = None
  Udp = u
  Callers <- TwoCallers
  Devs <- TwoDevs
  MaxPackets = 2
  MaxInbox = 2
  MaxShifts = 1
  MaxNotes = 1
  MaxRuns = 2
INVARIANTS
  NoStaleExit
  NoReplyOfEarlierRun
  PassedOverByDeletion
PROPERTIES
  ImplementsReplyQueue
  RepliesLeaveWhenQuiet
  StopSvrReturns
\* stopSvr and a request for one device can block each other for good.
CHECK_DEADLOCK FALSE
