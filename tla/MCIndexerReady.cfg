SPECIFICATION FairSpec
CONSTANTS
  a = a
  b = b
  Files <- MCFiles
  ChunkCount <- MCChunkCount
  AllChunks <- MCAllChunks
  References <- MCReferences
  MaxWorkers = 2
  CHECKPOINT_INTERVAL = 2
  FALLBACK_INTERVAL = 2
  MAX_OOM_RETRIES = 2
  MAX_MEMORY_WARNINGS = 2
  Interruptions = {"crash"}
  MaxStarts = 2
  MaxInterrupts = 1
INVARIANTS ReadyIsEmbedded
