------------------------------ MODULE MCStores ------------------------------
(* The two order stores for TLC.  They are separate files that share no    *)
(* state, so a behaviour moves one of them and leaves the other empty.     *)
EXTENDS ProtectiveStopStore, TLC

CONSTANT Op

VARIABLE orders

Orders == INSTANCE PendingOrderStore WITH MaxQty <- 1

Symmetry == Permutations(StopOp) \cup Permutations(Op) \cup Permutations(OrderId)

StoresInit == Init /\ Orders!Init

StopStep(s) == Orders!Init /\ UNCHANGED orders /\ Operation(s)

OrderStep(x) == Init /\ UNCHANGED stops /\ Orders!Operation(x)

StoresNext == (\E s \in StopOp : StopStep(s)) \/ (\E x \in Op : OrderStep(x))

StoresSpec == StoresInit /\ [][StoresNext]_<<stops, orders>>

\* An instrument has at most one unresolved entry and one unresolved exit.
OneUnresolvedPerFamily == Orders!OneUnresolvedPerFamily

============================================================================
