SPECIFICATION Spec
CONSTANTS
  StopOp = {s1, s2}
  ExitOp = {x1, x2}
  NoOp = NoOp
  NoPosition = NoPosition
  Symbol = sym
  Quantity = 2
  Hybrid = TRUE
  MaxRestarts = 0
INVARIANTS
  AppliedFillBelongsToCurrentExit
