SPECIFICATION FairSpec
CONSTANTS
  c1 = c1
  c2 = c2
  r1 = r1
  r2 = r2
  s1 = s1
  s2 = s2
  s3 = s3
  do = do
  di = di
  None = None
  Controllers <- TwoControllers
  Requesters <- OneRequester
  Sock <- TwoSocks
  SSID <- TwoSSID
  BufNum = 2
  BeatLimit = 2
INVARIANTS
  TypeOK
  AtMostOneThread
  ThreadOwnsSock
  AttachedSockSurvives
  NoStaleReply
  OnlineImpliesServed
  NoStaleExit
  EventsAlternate
PROPERTIES
  ImplementsLink
  ControllersReturn
  SilentLinkEnds
  RequestsReturn
