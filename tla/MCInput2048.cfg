SPECIFICATION Spec
CONSTANTS
  f1 = f1
  f2 = f2
  Undefined = Undefined
  Fingers <- MCFingers
  Points <- MCPoints
  MaxTouches = 3
SYMMETRY Symmetric
INVARIANTS TypeOK OneMovePerGesture OneEventPerPress
PROPERTY SwipeIsHonest
