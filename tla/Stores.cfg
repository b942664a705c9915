SPECIFICATION StoresSpec
CONSTANTS
  StopOp = {s1, s2}
  Op = {p1, p2}
  Instrument = {i1, i2}
  OrderId = {o1, o2}
  NoOrder = NoOrder
  Reason = {r1}
  MaxQty = 2
SYMMETRY Symmetry
INVARIANTS
  TypeOK
  OneUnresolvedPerInstrument
  AppliedWithinConfirmed
  OneUnresolvedPerFamily
PROPERTY NothingForgotten
