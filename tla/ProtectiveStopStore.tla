------------------------ MODULE ProtectiveStopStore ------------------------
(***************************************************************************)
(* The durable store of broker protective stops, protective_stop_store.py. *)
(* Every operation takes the file lock, reads the JSON file, validates,    *)
(* changes one record and replaces the file, so an operation is one atomic *)
(* step; a call whose validation raises changes nothing and is the         *)
(* negation of the guard.                                                  *)
(*                                                                         *)
(* Abstracted: the audit fields no code reads back (status texts, "active",*)
(* "terminal", exit_coordination_state, counters, times), and prices,      *)
(* which are reduced to whether an applied average price is known.         *)
(***************************************************************************)
EXTENDS StoreConstants

CONSTANTS
  StopOp,       \* operation ids (one per stop intent ever created)
  Reason        \* exit reasons a coordination request can carry

ASSUME ReasonAssumption == Reason # {}

VARIABLE stops  \* operation id -> record; created = FALSE when not in the file

Qty    == 0..MaxQty
Action == {"NONE", "EXIT", "FORCE_EXIT"}

StopRecord == [ created     : BOOLEAN,
                instrument  : Instrument,
                orderId     : OrderId \cup {NoOrder},
                requested   : Qty,
                filled      : Qty,
                applied     : Qty,
                priced      : BOOLEAN,
                resolved    : BOOLEAN,
                action      : Action,   \* exit_coordination_action
                reason      : Reason,   \* exit_coordination_reason
                exitQty     : Qty,      \* exit_coordination_quantity
                cancelTried : BOOLEAN ]

Blank == [ created |-> FALSE, instrument |-> CHOOSE i \in Instrument : TRUE,
           orderId |-> NoOrder, requested |-> 0, filled |-> 0, applied |-> 0,
           priced |-> FALSE, resolved |-> FALSE, action |-> "NONE",
           reason |-> CHOOSE r \in Reason : TRUE, exitQty |-> 0,
           cancelTried |-> FALSE ]

Unresolved(s) == stops[s].created /\ ~stops[s].resolved

HasUnresolved(i) == \E s \in StopOp : Unresolved(s) /\ stops[s].instrument = i

Requested(s) == stops[s].action # "NONE"

Init == stops = [s \in StopOp |-> Blank]

----------------------------------------------------------------------------
(* Operations *)

\* Mutant: no look at the other stops of the instrument.
CreateIntentUnchecked(s, i, q) ==
  /\ ~stops[s].created
  /\ q > 0
  /\ stops' = [stops EXCEPT ![s] =
                 [Blank EXCEPT !.created = TRUE, !.instrument = i,
                               !.requested = q]]

CreateIntent(s, i, q) ==
  /\ ~stops[s].created
  /\ q > 0
  /\ ~HasUnresolved(i)
  /\ stops' = [stops EXCEPT ![s] =
                 [Blank EXCEPT !.created = TRUE, !.instrument = i,
                               !.requested = q]]

AttachOrderId(s, o) ==
  /\ stops[s].created
  /\ stops[s].orderId \in {NoOrder, o}
  /\ \A t \in StopOp \ {s} : stops[t].orderId # o
  /\ stops' = [stops EXCEPT ![s].orderId = o]

\* Mutant: a fill that runs backwards is stored.
CanRecordAnyFill(s, f) == stops[s].created /\ f <= stops[s].requested

\* What a broker answer must satisfy for update_..._verification not to raise.
CanRecordFill(s, f) ==
  /\ stops[s].created
  /\ f <= stops[s].requested
  /\ f >= stops[s].applied

UpdateVerification(s, f) ==
  /\ CanRecordFill(s, f)
  /\ stops' = [stops EXCEPT ![s].filled = f]

CanCoordinate(s, q) ==
  /\ stops[s].created
  /\ q > 0
  /\ q <= stops[s].requested
  /\ Requested(s) => q <= stops[s].exitQty

\* Mutant: the last request names the action.
RequestCoordinationAnew(s, a, r, q) ==
  /\ CanCoordinate(s, q)
  /\ stops' = [stops EXCEPT ![s].action = a, ![s].reason = r, ![s].exitQty = q]

\* A first request stores action, reason and quantity; a repeated one only
\* shrinks the quantity, and may escalate EXIT to FORCE_EXIT.
RequestCoordination(s, a, r, q) ==
  /\ CanCoordinate(s, q)
  /\ LET named == ~Requested(s) \/ a = "FORCE_EXIT"
     IN  stops' = [stops EXCEPT
                     ![s].action  = IF named THEN a ELSE @,
                     ![s].reason  = IF named THEN r ELSE @,
                     ![s].exitQty = q]

ReserveCancel(s) ==
  /\ stops[s].created
  /\ Requested(s)
  /\ ~stops[s].cancelTried
  /\ stops' = [stops EXCEPT ![s].cancelTried = TRUE]

\* Mutant: the cumulative fill is added to what was applied.
MarkFillAdded(s, n, p) ==
  /\ stops[s].created
  /\ n >= stops[s].applied
  /\ n <= stops[s].filled
  /\ stops' = [stops EXCEPT ![s].applied = @ + n, ![s].priced = p]

MarkFillApplied(s, n, p) ==
  /\ stops[s].created
  /\ n >= stops[s].applied
  /\ n <= stops[s].filled
  /\ stops' = [stops EXCEPT ![s].applied = n, ![s].priced = p]

MarkResolved(s) ==
  /\ stops[s].created
  /\ stops' = [stops EXCEPT ![s].resolved = TRUE]

Operation(s) ==
  \/ \E i \in Instrument, q \in Qty : CreateIntent(s, i, q)
  \/ \E o \in OrderId : AttachOrderId(s, o)
  \/ \E f \in Qty : UpdateVerification(s, f)
  \/ \E a \in Action \ {"NONE"}, r \in Reason, q \in Qty :
       RequestCoordination(s, a, r, q)
  \/ ReserveCancel(s)
  \/ \E n \in Qty, p \in BOOLEAN : MarkFillApplied(s, n, p)
  \/ MarkResolved(s)

Next == \E s \in StopOp : Operation(s)

Spec == Init /\ [][Next]_stops

----------------------------------------------------------------------------
(* Properties *)

TypeOK == stops \in [StopOp -> StopRecord]

\* An instrument never has two unresolved stops, whatever order the intents,
\* resolutions and recoveries of different operations come in: the check of
\* create_protective_stop_intent is what keeps a second stop from being armed.
OneUnresolvedPerInstrument ==
  \A s, t \in StopOp :
    /\ Unresolved(s)
    /\ Unresolved(t)
    /\ stops[s].instrument = stops[t].instrument
    => s = t

\* The fill applied to the local position stays within what the broker
\* confirmed even though a later, worse answer may lower the confirmed fill
\* (an empty history reads as 0), and both stay within the stop's quantity.
AppliedWithinConfirmed ==
  \A s \in StopOp :
    /\ stops[s].applied <= stops[s].filled
    /\ stops[s].filled <= stops[s].requested
    /\ stops[s].exitQty <= stops[s].requested

\* What restart recovery relies on never being undone: an applied fill, a
\* reserved cancellation, a broker order id, a resolution; an exit request is
\* neither withdrawn nor de-escalated and its quantity never grows.
NothingForgotten ==
  [][\A s \in StopOp :
       LET r == stops[s]  n == stops'[s] IN
       r.created =>
         /\ n.created
         /\ n.applied >= r.applied
         /\ r.cancelTried => n.cancelTried
         /\ r.orderId # NoOrder => n.orderId = r.orderId
         /\ r.resolved => n.resolved
         /\ r.action # "NONE" => n.action # "NONE" /\ n.exitQty <= r.exitQty
         /\ r.action = "FORCE_EXIT" => n.action = "FORCE_EXIT"]_stops

============================================================================
