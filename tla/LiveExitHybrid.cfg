SPECIFICATION Spec
CONSTANTS
  StopOp = {s1, s2, s3}
  ExitOp = {x1, x2, x3}
  NoOp = NoOp
  NoPosition = NoPosition
  Symbol = sym
  Quantity = 2
  Hybrid = TRUE
  MaxRestarts = 0
INVARIANTS
  ExitFillsBookedOnce
PROPERTIES
  ExposureSpec
