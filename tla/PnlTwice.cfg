SPECIFICATION Spec
CONSTANTS
  StopOp = {s1}
  ExitOp = {x1}
  NoOp = NoOp
  NoPosition = NoPosition
  Symbol = sym
  Quantity = 2
  Hybrid = FALSE
  MaxRestarts = 1
INVARIANTS
  ExitFillsBookedOnce
