SPECIFICATION FairSpec
CONSTANTS
  Requests = {1, 2}
  MaxRepos = 2
  Asks <- MCAsks
  Limit = 1
  BroadLimit = 2
  MaxNotes = 1
  MaxFaults = 1
PROPERTIES  StreamsEnd
CHECK_DEADLOCK FALSE
