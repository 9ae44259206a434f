SPECIFICATION Spec
CONSTANTS
  Size = 2
  Goal = 4
  Moving = Moving
  MaxGames = 2
  MaxCalls = 2
  MaxScore = 5
INVARIANTS TypeOK ScoreTellsBoard OverWhenStuck StorageFollows MessageFollows ScreenFollows LongerLikeReference PolyfillLikeNative
PROPERTIES ReloadKeepsGame GoesOnWhenAsked PlaysByRules
CHECK_DEADLOCK FALSE
