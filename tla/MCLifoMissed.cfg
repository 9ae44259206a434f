SPECIFICATION Spec
CONSTANTS
  r1 = r1
  r2 = r2
  w1 = w1
  w2 = w2
  a = a
  b = b
  NoThread = NoThread
  Readers <- MCReaders
  Writers <- MCOneWriter
  Chars <- MCOneChar
  LIFO_MAX_SIZE = 2
  Counts = {1, 2}
  MaxWrite = 2
INVARIANT NoMissedWakeUp
