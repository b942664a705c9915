SPECIFICATION Spec
CONSTANTS
  Op = {e1, e2}
  NoOp = NoOp
  NoPosition = NoPosition
  Symbol = sym
  Quantity = 2
  MaxRestarts = 1
SYMMETRY OpSymmetry
CHECK_DEADLOCK FALSE
INVARIANTS
  NothingInvented
