CONSTANTS
  Pair <- MCPair
  ChunkSize = {0, 1, 2}
  Index = {0, 1}
  KeyInfo <- MCKeyInfo
  Uuid <- MCUuid
  AppUuid <- MCAppUuid
  NilUuid = NilUuid
  MallocMayFail = TRUE
  IntMax = 1
  MaxRestarts = 1
  simple_hash <- MCSimpleHash
  Xor32 <- MCXor32
  k1 = k1
  k2 = k2
  k3 = k3
  k4 = k4
  app = app
SPECIFICATION KmsSpec
SYMMETRY UuidSymmetry
INVARIANTS
  KmsTypeOK
  OneStreamPerPair
  MintedOnce
  ListIsThisRun
PROPERTY StreamsOnlyGrow
