SPECIFICATION Spec
CONSTANTS
  Threads = {"a", "b"}
  Paths = {"f"}
  Pieces = {1, 2}
  Keys = {"model", "temperature"}
  Menus <- MCMenus
  MaxCalls = 3
  MaxTroubles = 1
  Uploads = {1, 2}
  Erasers = {1}
  Files <- MCFiles
  Artifacts = {"spec"}
  Backends = {"local", "s3", "azure"}
  MaxMishaps = 2
  Flows = {1, 2}
  Clients = {11, 12}
  MaxReports = 1
  MaxCommands = 3
  LastPhase = 3
  TaskPhase = 2
  PlanTasks = {"t", "u"}
  MaxBreaks = 4
  ChatIds = {"A", "B"}
  Answers = {"x", "y"}
  Notes = {"n"}
  MaxPieces = 2
  MaxTurns = 2
  MaxFrames = 3
  Requests = {"a", "b"}
INVARIANTS LibraryInv WorkflowsInv  RelayInv ChatInv StartupInv
PROPERTIES MetadataKept 
CHECK_DEADLOCK FALSE
