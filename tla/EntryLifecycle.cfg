SPECIFICATION Spec
CONSTANTS
  Op = {e1, e2}
  NoOp = NoOp
  NoPosition = NoPosition
  Symbol = sym
  Quantity = 3
  MaxRestarts = 3
SYMMETRY OpSymmetry
CHECK_DEADLOCK FALSE
INVARIANTS
  TypeOK
  OneEntryInFlight
  NoShareForgotten
  UnappliedIsRecovered
  NothingInventedInOrder
  UnflaggedMeansCovered
  StartupSurvives
PROPERTIES
  OpensFromFlat
