CONSTANTS
  Pair <- OnePair
  ChunkSize = {1}
  Index = {0}
  KeyInfo <- SymmetricKey
  Uuid <- TwoUuids
  AppUuid <- OneAppUuid
  NilUuid = NilUuid
  MallocMayFail = FALSE
  IntMax = 2147483647
  MaxRestarts = 0
  simple_hash <- MCSimpleHash
  Xor32 <- MCXor32
  Client <- BothClients
  NoClient = none
  Issuer <- MCIssuer
  ServerTls <- OpenTls
  ClientTls <- AllOpen
  OtherService = {}
  SslAcceptFailure <- AcceptMinusOne
  AcceptQueue = 2
  MaxFd = 2
  MaxCalls = 2
  MaxKilled = 0
  MaxStalled = 0
  k1 = k1
  k2 = k2
  app = app
  a = a
  b = b
  c = c
  d = d
  none = none
SPECIFICATION Spec
PROPERTY OpenedIsServed
