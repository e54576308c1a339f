CONSTANTS
  RecordMax = 6
  HeaderSize = 2
  PayloadSizes = {0, 1, 3, 4, 5, 6, 7, 10, 13, 17, 21, 22, 30, 45, 46, 47}
  WordMod = 48
  SizeMod = 64
  StackLimits = {12, 60}
  Junk = Junk
SPECIFICATION SocketFairSpec
INVARIANTS
  SocketTypeOK
  IntactIffOneRecord
  HeaderIntact
  SizeReturned
  EndsForCause
  ReadSizeKept
  NeverWaitsInVain
PROPERTIES
  RecvEnds
  RemainingFalls
CHECK_DEADLOCK FALSE
