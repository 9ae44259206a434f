SPECIFICATION Spec
CONSTANTS
  b1 = b1
  b2 = b2
  v1 = v1
  v2 = v2
  x = x
  y = y
  NoChoice = NoChoice
  Browsers <- MCOneBrowser
  Workers <- MCTwoWorkers
  Choices <- MCChoices
  MaxIds = 1
  MaxRequests = 4
  MaxFaults = 0
  Restarts = TRUE
INVARIANT VoteCanBeChanged
CHECK_DEADLOCK FALSE
