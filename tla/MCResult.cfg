SPECIFICATION FairSpec
CONSTANTS
  i1 = i1
  i2 = i2
  p1 = p1
  o1 = o1
  o2 = o2
  A = o1
  B = o2
  Nothing = Nothing
  Failed = Failed
  Voters <- MCVoters
  Choices <- MCChoices
  Pages <- MCPages
  Tries = 2
  MaxCast = 2
  MaxWire = 2
  MaxConnects = 2
  MaxFaults = 2
  MaxCount = 24
INVARIANTS
  TypeOK
  ScoresFindHandler
  ShownWasTrue
  BarsTell
PROPERTIES
  PagesCatchUp
  NeverOlderScores

CHECK_DEADLOCK FALSE
