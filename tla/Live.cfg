CONSTANTS
  Pair <- OnePair
  ChunkSize = {1}
  Index = {0}
  KeyInfo <- SymmetricKey
  Uuid <- TwoUuids
  AppUuid <- NoAppUuid
  NilUuid = NilUuid
  MallocMayFail = FALSE
  IntMax = 2147483647
  MaxRestarts = 1
  simple_hash <- MCSimpleHash
  Xor32 <- MCXor32
  Client <- BothClients
  NoClient = none
  Issuer <- MCIssuer
  ServerTls <- OpenTls
  ClientTls <- AllOpen
  OtherService = {"CLOSE_SERVER", "ERROR"}
  SslAcceptFailure <- AcceptEither
  AcceptQueue = 2
  MaxFd = 2
  MaxCalls = 2
  MaxKilled = 1
  MaxStalled = 0
  k1 = k1
  k2 = k2
  app = app
  a = a
  b = b
  c = c
  d = d
  none = none
SPECIFICATION FairSpec
PROPERTIES
  CallsEnd
  CallsReturn
CHECK_DEADLOCK FALSE
