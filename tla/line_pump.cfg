SPECIFICATION Spec
CONSTANTS
  Newline = Newline
  Letter = Letter
  Bad = Bad
  BufSize = 4
  MaxLine = 3
  Capacity = 1
  MaxSize = 6
INVARIANTS LinesAsWritten
CHECK_DEADLOCK FALSE
