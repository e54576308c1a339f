CONSTANTS
  Pair <- MCPair
  ChunkSize = {0, 2, 3, 200, 253}
  Index = {0, 130, 170}
  KeyInfo <- MCKeyInfo
  Uuid <- MCUuid
  AppUuid <- NoAppUuid
  NilUuid <- MCNilUuid
  MallocMayFail = TRUE
  IntMax = 2147483647
  MaxRestarts = 1
  simple_hash <- simple_hash_octets
  Xor32 <- MCXor32
  Radix = 4
  UuidSize = 2
  MimetypeMax = 4
  Rand <- MCRand
  Or8 <- MCOr8
  And8 <- MCAnd8
  AppQos <- MCAppQos
  AppMetadata <- MCAppMetadata
  ExamplePair <- AB
  ExampleChunk = 2
  ExampleKeyType = {0, 1}
  JsonMimetype <- MCJson
  DeviceInfoOctets <- MCDeviceInfo
  StrayOctet <- MCStray
  RecordMax = 120
  MaxAppCalls = 1
SPECIFICATION Spec
INVARIANTS
  RoundTrip
  OverrunIffTooLong
  AbortsAtSource
  NoBadFree
  MemoryAccounted
  KeyFollowsMetadata
  ExampleFilesAgree
  IndexInFile
  AnswerTellsCause
