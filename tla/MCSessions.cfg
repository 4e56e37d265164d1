SPECIFICATION FairSpec
CONSTANTS
  c1 = c1
  c2 = c2
  Sockets = {1, 2}
  Clients <- MCClients
  Ownerships <- MCOwnerships
  none = none
  Requests = {"start", "input", "navigate", "look", "resume", "pause", "retry", "step"}
  MaxQuestions = 2
  MaxRequests = 3
  MaxQueued = 1
  MaxFaults = 1
INVARIANTS  LostOnlyToOwnPages
PROPERTIES TakenOverByRetryOnly HandlersFinish
CHECK_DEADLOCK FALSE
