SPECIFICATION FairSpec
CONSTANTS
  CRC16 <- CalCRC16
  Coils <- SomeCoils
  Values <- SomeValues
  NoiseBits <- SomeBits
  MaxFrames = 2
  TimeOut = 2
INVARIANTS
  HeadsTold
  OnBoundary
  AcceptedWereSent
  ReadingsAreAnswers
  WrongForACause
  ChecksumsDivide
PROPERTIES
  ReadEnds
\* The device may fall silent, and a link may end.
CHECK_DEADLOCK FALSE
