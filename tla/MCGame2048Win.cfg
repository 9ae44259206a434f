SPECIFICATION Spec
CONSTANTS
  Size = 2
  Goal = 4
  Moving = Moving
  MaxGames = 2
  MaxCalls = 2
  MaxScore = 5
INVARIANT GoesOnAfterWin
CHECK_DEADLOCK FALSE
