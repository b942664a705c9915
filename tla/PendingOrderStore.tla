------------------------- MODULE PendingOrderStore -------------------------
(***************************************************************************)
(* The durable store of entry and exit operations, pending_order_store.py. *)
(* As in ProtectiveStopStore, an operation is one atomic step under the    *)
(* file lock and a validation that raises changes nothing.                 *)
(*                                                                         *)
(* Abstracted: audit fields and metadata; a price is only known or not.    *)
(***************************************************************************)
EXTENDS StoreConstants

CONSTANT Op  \* operation ids

VARIABLE orders  \* operation id -> record; created = FALSE when not in the file

Qty    == 0..MaxQty
Action == {"ENTRY", "EXIT", "FORCE_EXIT"}

OrderRecord == [ created    : BOOLEAN,
                 instrument : Instrument,
                 action     : Action,
                 orderId    : OrderId \cup {NoOrder},
                 requested  : Qty,
                 filled     : Qty,
                 priced     : BOOLEAN,   \* average_price is not None
                 terminal   : BOOLEAN,
                 applied    : Qty,       \* applied_filled_quantity (ENTRY)
                 resolved   : BOOLEAN ]

Blank == [ created |-> FALSE, instrument |-> CHOOSE i \in Instrument : TRUE,
           action |-> "EXIT", orderId |-> NoOrder, requested |-> 0,
           filled |-> 0, priced |-> FALSE, terminal |-> FALSE, applied |-> 0,
           resolved |-> FALSE ]

Unresolved(x) == orders[x].created /\ ~orders[x].resolved

FamilyAlone(a) == {a}  \* mutant: a forced exit ignores a pending normal one

\* ENTRY blocks ENTRY; EXIT and FORCE_EXIT block each other.
Family(a) == IF a = "ENTRY" THEN {"ENTRY"} ELSE {"EXIT", "FORCE_EXIT"}

HasUnresolved(i, a) ==
  \E x \in Op : /\ Unresolved(x)
                /\ orders[x].instrument = i
                /\ orders[x].action \in Family(a)

Init == orders = [x \in Op |-> Blank]

----------------------------------------------------------------------------
(* Operations *)

CreateIntent(x, i, a, q) ==
  /\ ~orders[x].created
  /\ q > 0
  /\ ~HasUnresolved(i, a)
  /\ orders' = [orders EXCEPT ![x] =
                  [Blank EXCEPT !.created = TRUE, !.instrument = i,
                                !.action = a, !.requested = q]]

AttachOrderId(x, o) ==
  /\ orders[x].created
  /\ orders[x].orderId \in {NoOrder, o}
  /\ \A y \in Op \ {x} : orders[y].orderId # o
  /\ orders' = [orders EXCEPT ![x].orderId = o]

UpdateVerification(x, f, p, t) ==
  /\ orders[x].created
  /\ f <= orders[x].requested
  /\ p => f > 0
  /\ orders' = [orders EXCEPT ![x].filled = f, ![x].priced = p,
                              ![x].terminal = t]

MarkResolved(x) ==
  /\ orders[x].created
  /\ orders' = [orders EXCEPT ![x].resolved = TRUE]

CanApplyEntryFill(x, n) == n >= orders[x].applied /\ n <= orders[x].filled

MarkEntryFillApplied(x, n) ==
  /\ orders[x].created
  /\ orders[x].action = "ENTRY"
  /\ CanApplyEntryFill(x, n)
  /\ orders' = [orders EXCEPT ![x].applied = n]

Operation(x) ==
  \/ \E i \in Instrument, a \in Action, q \in Qty : CreateIntent(x, i, a, q)
  \/ \E o \in OrderId : AttachOrderId(x, o)
  \/ \E f \in Qty, p, t \in BOOLEAN : UpdateVerification(x, f, p, t)
  \/ MarkResolved(x)
  \/ \E n \in Qty : MarkEntryFillApplied(x, n)

Next == \E x \in Op : Operation(x)

Spec == Init /\ [][Next]_orders

----------------------------------------------------------------------------
(* Properties *)

TypeOK == orders \in [Op -> OrderRecord]

\* One unresolved entry and one unresolved exit (normal or forced) per
\* instrument, whatever operations interleave: an unresolved exit of either
\* kind blocks both kinds (has_unresolved_order).
OneUnresolvedPerFamily ==
  \A x, y \in Op :
    /\ Unresolved(x)
    /\ Unresolved(y)
    /\ orders[x].instrument = orders[y].instrument
    /\ (orders[x].action = "ENTRY") = (orders[y].action = "ENTRY")
    => x = y

\* Restart recovery reconstructs positions from "filled minus applied": the
\* applied quantity never runs backwards, a broker order id is never replaced
\* and a resolved operation is never reopened.
NothingForgotten ==
  [][\A x \in Op :
       LET r == orders[x]  n == orders'[x] IN
       r.created =>
         /\ n.created
         /\ n.applied >= r.applied
         /\ r.orderId # NoOrder => n.orderId = r.orderId
         /\ r.resolved => n.resolved]_orders

============================================================================
