SPECIFICATION FairSpec
CONSTANTS
  b1 = b1
  b2 = b2
  v1 = v1
  v2 = v2
  x = x
  y = y
  NoChoice = NoChoice
  Browsers <- MCOneBrowser
  Workers <- MCOneWorker
  Choices <- MCChoices
  MaxIds = 2
  MaxRequests = 4
  MaxFaults = 2
  Restarts = TRUE
PROPERTIES
  ListDrains
  ImplementsTable
CHECK_DEADLOCK FALSE
