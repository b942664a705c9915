--------------------------- MODULE StoreConstants ---------------------------
(* What the stores of orders and of protective stops are both about. *)
EXTENDS Naturals

CONSTANTS
  Instrument,   \* exchange:symbol pairs
  OrderId,      \* broker order ids
  NoOrder,      \* "order_id": None
  MaxQty        \* largest quantity an order can be created for

ASSUME NoOrderAssumption    == NoOrder \notin OrderId
ASSUME MaxQtyAssumption     == MaxQty \in Nat \ {0}
ASSUME InstrumentAssumption == Instrument # {}

============================================================================
