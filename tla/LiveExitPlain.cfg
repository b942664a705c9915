SPECIFICATION FairSpec
CONSTANTS
  StopOp = {s1}
  ExitOp = {x1, x2}
  NoOp = NoOp
  NoPosition = NoPosition
  Symbol = sym
  Quantity = 3
  Hybrid = FALSE
  MaxRestarts = 2
INVARIANTS
  TypeOK
  OneClosingOrder
  NeverUnderstated
  SettledMeansAgreed
  StopFillsBookedOnce
  CancelAtMostOnce
  UnblockedMeansCovered
PROPERTIES
  ExposureSpec
  NakedPositionNoticed
  ClosedPositionLeaves
