CONSTANTS
  Pair <- OnePair
  ChunkSize = {1}
  Index = {0}
  KeyInfo <- SymmetricKey
  Uuid <- TwoUuids
  AppUuid <- NoAppUuid
  NilUuid = NilUuid
  MallocMayFail = FALSE
  IntMax = 2147483647
  MaxRestarts = 1
  simple_hash <- MCSimpleHash
  Xor32 <- MCXor32
  Client <- FourClients
  NoClient = none
  Issuer <- MCIssuer
  ServerTls <- StrictTls
  ClientTls <- MixedTls
  OtherService = {}
  SslAcceptFailure <- AcceptEither
  AcceptQueue = 2
  MaxFd = 1
  MaxCalls = 1
  MaxKilled = 0
  MaxStalled = 0
  k1 = k1
  k2 = k2
  app = app
  a = a
  b = b
  c = c
  d = d
  none = none
SPECIFICATION Spec
INVARIANTS
  ServedAreTrusted
  NeverBothBlocked
PROPERTIES
  ServerEndsForCause
  ImplementsKeyService
