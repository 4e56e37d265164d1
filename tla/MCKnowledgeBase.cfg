SPECIFICATION Spec
CONSTANTS
  Tree <- MCTree
  Calls <- MCCalls
  Imports <- MCImports
  ChunksOf <- MCChunksOf
  Represents <- MCRepresents
  RecordLimit = 2
  BatchLimit = 2
  MaxDepth = 2
  MaxRuns = 1
  MaxErasures = 1
  FolderOf <- MCFolderOf
  Top = "top"
  Requests <- MCRequests
  MaxChanges = 2
  EdgeLimit = 2
  MinConnections = 2
  Vectors = {1, 2, 3}
  FileOf <- MCFileOf
  TokensOf <- MCTokensOf
  Similarity <- MCSimilarity
  Bonus <- MCBonus
  TopK = 2
  Budgets = {3}
  MaxDeletes = 1
  MaxTokens = 4
  Sizes = {0, 1, 2, 5}
  MaxLines = 4
  Outlines <- MCOutlines
  Texts = {"a", "b"}
  EmptyText = ""
  Lists <- MCLists
  BatchTexts = 2
  SoftBatchTexts = 2
  DeviceBatch = 1
  MaxConcurrent = 2
  MaxRetries = 2
  CacheSize = 2
  MaxCalls = 1
  Repositories <- MCRepositories
  Unnamed = Unnamed
INVARIANTS  RetrievalInv ChunkerInv GeneratorInv SymbolsInv
CHECK_DEADLOCK FALSE
