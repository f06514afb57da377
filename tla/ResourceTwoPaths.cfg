SPECIFICATION FairSpec
CONSTANTS
  Resources <- Three
  Receivers <- TwoReceivers
  Nothing = Nothing
  SizeOf <- Sizes
  Mtus <- TwoMtus
  ChunkPayload = 256
  Headroom = 100
  SmallChunk = 64
  Shared = 2
  MaxLost = 1
CHECK_DEADLOCK FALSE
INVARIANTS TypeOK FullChunksFit
PROPERTIES ImplementsTransfer HookedCompletes
