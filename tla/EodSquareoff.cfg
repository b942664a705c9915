SPECIFICATION FairSpec
CONSTANTS
  Proc = {p1, p2}
  NoProc = NoProc
  Stop = stop
  Leftover = leftover
  Exit = {x1, x2}
  Quantity = 2
CHECK_DEADLOCK FALSE
INVARIANTS
  TypeOK
  NeverReversesAlone
  StopEndsFirst
  ClearedMeansFlat
PROPERTIES
  SquaresOff
