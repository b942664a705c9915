---------------------------- MODULE StoresProofs ----------------------------
(***************************************************************************)
(* Proofs about the protective-stop store, for every set of operations,    *)
(* instruments, orders and reasons and every quantity.                     *)
(*                                                                         *)
(* An operation rewrites one record.  OperationEffect says, once for all   *)
(* operations, what the new record owes to the old one; each theorem then  *)
(* only looks at that record and leaves the others as they were.  The last *)
(* theorem is about both stores, with the pending orders as an instance of *)
(* the module that proves things of them.                                  *)
(***************************************************************************)
EXTENDS MCStores, TLAPS

\* The quantities of a record are ordered.
Bounded(r) ==
  /\ r.applied <= r.filled
  /\ r.filled <= r.requested
  /\ r.exitQty <= r.requested

\* Record n has lost nothing of record r that recovery relies on.
Remembers(r, n) ==
  /\ n.created
  /\ n.applied >= r.applied
  /\ r.cancelTried => n.cancelTried
  /\ r.orderId # NoOrder => n.orderId = r.orderId
  /\ r.resolved => n.resolved
  /\ r.action # "NONE" => n.action # "NONE" /\ n.exitQty <= r.exitQty
  /\ r.action = "FORCE_EXIT" => n.action = "FORCE_EXIT"

\* Record r may replace that of s: an unresolved one replaces an unresolved
\* one of the same instrument, or comes where the instrument has none.
Replaces(s, r) ==
  /\ Bounded(stops[s]) => Bounded(r)
  /\ stops[s].created => Remembers(stops[s], r)
  /\ r.created /\ ~r.resolved =>
       \/ Unresolved(s) /\ r.instrument = stops[s].instrument
       \/ ~HasUnresolved(r.instrument)

\* A record that is not in the file has the type of a record.
LEMMA BlankType == Blank \in StopRecord
<1>1. (CHOOSE i \in Instrument : TRUE) \in Instrument
  BY InstrumentAssumption
<1>2. (CHOOSE r \in Reason : TRUE) \in Reason
  BY ReasonAssumption
<1>3. 0 \in Qty
  BY MaxQtyAssumption DEF Qty
<1> QED
  BY <1>1, <1>2, <1>3 DEF Blank, StopRecord, Action

\* Every operation rewrites one record, by one that may replace it.
LEMMA OperationEffect ==
  ASSUME TypeOK, NEW s \in StopOp, Operation(s)
  PROVE  \E r \in StopRecord :
           stops' = [stops EXCEPT ![s] = r] /\ Replaces(s, r)
<1> USE DEF TypeOK
<1>q. Qty \subseteq Nat /\ 0 \in Qty
  BY MaxQtyAssumption DEF Qty
<1>t. stops[s] \in StopRecord
  OBVIOUS
<1>1. CASE \E i \in Instrument, q \in Qty : CreateIntent(s, i, q)
  <2>1. PICK i \in Instrument, q \in Qty : CreateIntent(s, i, q)
    BY <1>1
  <2> DEFINE new == [Blank EXCEPT !.created = TRUE, !.instrument = i,
                               !.requested = q]
  <2>2. new \in StopRecord
    BY BlankType DEF StopRecord
  <2>3. stops' = [stops EXCEPT ![s] = new]
    BY <2>1 DEF CreateIntent
  <2>4. Replaces(s, new)
    BY <2>1, <1>q, BlankType
    DEF CreateIntent, Replaces, Bounded, Unresolved, Blank, StopRecord
  <2> QED
    BY <2>2, <2>3, <2>4
<1>2. CASE \E o \in OrderId : AttachOrderId(s, o)
  <2>1. PICK o \in OrderId : AttachOrderId(s, o)
    BY <1>2
  <2> DEFINE new == [stops[s] EXCEPT !.orderId = o]
  <2>2. new \in StopRecord
    BY <1>t DEF StopRecord
  <2>3. stops' = [stops EXCEPT ![s] = new]
    BY <2>1 DEF AttachOrderId
  <2>4. Replaces(s, new)
    BY <2>1, <1>q, <1>t DEF AttachOrderId, Replaces, Bounded, Remembers, Unresolved,
      StopRecord
  <2> QED
    BY <2>2, <2>3, <2>4
<1>3. CASE \E f \in Qty : UpdateVerification(s, f)
  <2>1. PICK f \in Qty : UpdateVerification(s, f)
    BY <1>3
  <2> DEFINE new == [stops[s] EXCEPT !.filled = f]
  <2>2. new \in StopRecord
    BY <1>t DEF StopRecord
  <2>3. stops' = [stops EXCEPT ![s] = new]
    BY <2>1 DEF UpdateVerification
  <2>4. Replaces(s, new)
    BY <2>1, <1>q, <1>t DEF UpdateVerification, CanRecordFill, Replaces, Bounded, Remembers, Unresolved,
      StopRecord
  <2> QED
    BY <2>2, <2>3, <2>4
<1>4. CASE \E a \in Action \ {"NONE"}, r \in Reason, q \in Qty :
             RequestCoordination(s, a, r, q)
  <2>1. PICK a \in Action \ {"NONE"}, r \in Reason, q \in Qty : RequestCoordination(s, a, r, q)
    BY <1>4
  <2> DEFINE new == [stops[s] EXCEPT
               !.action  = IF ~Requested(s) \/ a = "FORCE_EXIT" THEN a ELSE @,
               !.reason  = IF ~Requested(s) \/ a = "FORCE_EXIT" THEN r ELSE @,
               !.exitQty = q]
  <2>2. new \in StopRecord
    BY <1>t DEF StopRecord
  <2>3. stops' = [stops EXCEPT ![s] = new]
    BY <2>1 DEF RequestCoordination
  <2>4. Replaces(s, new)
    BY <2>1, <1>q, <1>t DEF RequestCoordination, CanCoordinate, Requested, Replaces, Bounded, Remembers, Unresolved,
      StopRecord
  <2> QED
    BY <2>2, <2>3, <2>4
<1>5. CASE ReserveCancel(s)
  <2> DEFINE new == [stops[s] EXCEPT !.cancelTried = TRUE]
  <2>1. new \in StopRecord
    BY <1>t DEF StopRecord
  <2>2. stops' = [stops EXCEPT ![s] = new]
    BY <1>5 DEF ReserveCancel
  <2>3. Replaces(s, new)
    BY <1>5, <1>q, <1>t DEF ReserveCancel, Replaces, Bounded, Remembers, Unresolved,
      StopRecord
  <2> QED
    BY <2>1, <2>2, <2>3
<1>6. CASE \E n \in Qty, p \in BOOLEAN : MarkFillApplied(s, n, p)
  <2>1. PICK n \in Qty, p \in BOOLEAN : MarkFillApplied(s, n, p)
    BY <1>6
  <2> DEFINE new == [stops[s] EXCEPT !.applied = n, !.priced = p]
  <2>2. new \in StopRecord
    BY <1>t DEF StopRecord
  <2>3. stops' = [stops EXCEPT ![s] = new]
    BY <2>1 DEF MarkFillApplied
  <2>4. Replaces(s, new)
    BY <2>1, <1>q, <1>t DEF MarkFillApplied, Replaces, Bounded, Remembers, Unresolved,
      StopRecord
  <2> QED
    BY <2>2, <2>3, <2>4
<1>7. CASE MarkResolved(s)
  <2> DEFINE new == [stops[s] EXCEPT !.resolved = TRUE]
  <2>1. new \in StopRecord
    BY <1>t DEF StopRecord
  <2>2. stops' = [stops EXCEPT ![s] = new]
    BY <1>7 DEF MarkResolved
  <2>3. Replaces(s, new)
    BY <1>7, <1>q, <1>t DEF MarkResolved, Replaces, Bounded, Remembers, Unresolved,
      StopRecord
  <2> QED
    BY <2>1, <2>2, <2>3
<1> QED
  BY <1>1, <1>2, <1>3, <1>4, <1>5, <1>6, <1>7 DEF Operation

\* Whatever the calls, the store holds well-formed records.
THEOREM TypeCorrect == Spec => []TypeOK
<1>1. Init => TypeOK
  BY BlankType DEF Init, TypeOK
<1>2. TypeOK /\ [Next]_stops => TypeOK'
  BY OperationEffect DEF TypeOK, Next
<1> QED
  BY <1>1, <1>2, PTL DEF Spec

\* No instrument ever has two unresolved stops, however the calls of
\* different operations interleave.
THEOREM OneUnresolved == Spec => []OneUnresolvedPerInstrument
<1>1. Init => OneUnresolvedPerInstrument
  BY DEF Init, OneUnresolvedPerInstrument, Unresolved, Blank
<1>2. TypeOK /\ OneUnresolvedPerInstrument /\ [Next]_stops
        => OneUnresolvedPerInstrument'
  <2> SUFFICES ASSUME TypeOK, OneUnresolvedPerInstrument, [Next]_stops
               PROVE  OneUnresolvedPerInstrument'
    OBVIOUS
  <2>1. CASE UNCHANGED stops
    BY <2>1 DEF OneUnresolvedPerInstrument, Unresolved
  <2>2. CASE Next
    <3>1. PICK u \in StopOp : Operation(u)
      BY <2>2 DEF Next
    <3>2. PICK r \in StopRecord :
            stops' = [stops EXCEPT ![u] = r] /\ Replaces(u, r)
      BY <3>1, OperationEffect
    \* Another stop of the new record's instrument was open before.
    <3>3. ASSUME NEW t \in StopOp \ {u}, Unresolved(t)', Unresolved(u)',
                 stops'[t].instrument = stops'[u].instrument
          PROVE  FALSE
      <4>1. stops'[t] = stops[t] /\ stops'[u] = r
        BY <3>2 DEF TypeOK
      <4>2. Unresolved(t) /\ HasUnresolved(r.instrument)
        BY <3>3, <4>1 DEF Unresolved, HasUnresolved
      <4>3. Unresolved(u) /\ r.instrument = stops[u].instrument
        BY <3>2, <3>3, <4>1, <4>2 DEF Replaces, Unresolved
      <4> QED
        BY <3>3, <4>1, <4>2, <4>3 DEF OneUnresolvedPerInstrument
    <3>4. ASSUME NEW s \in StopOp \ {u}, NEW t \in StopOp \ {u},
                 Unresolved(s)', Unresolved(t)',
                 stops'[s].instrument = stops'[t].instrument
          PROVE  s = t
      <4>1. stops'[s] = stops[s] /\ stops'[t] = stops[t]
        BY <3>2 DEF TypeOK
      <4> QED
        BY <3>4, <4>1 DEF OneUnresolvedPerInstrument, Unresolved
    <3> QED
      BY <3>3, <3>4 DEF OneUnresolvedPerInstrument
  <2> QED
    BY <2>1, <2>2
<1> QED
  BY <1>1, <1>2, TypeCorrect, PTL DEF Spec

\* The applied fill never exceeds the confirmed one, nor that one the stop.
THEOREM AppliedBounded == Spec => []AppliedWithinConfirmed
<1>1. Init => AppliedWithinConfirmed
  <2>1. Bounded(Blank)
    BY DEF Bounded, Blank
  <2>2. ASSUME Init, NEW s \in StopOp PROVE Bounded(stops[s])
    BY <2>1, <2>2 DEF Init
  <2> QED
    BY <2>2 DEF Bounded, AppliedWithinConfirmed
<1>2. TypeOK /\ AppliedWithinConfirmed /\ [Next]_stops
        => AppliedWithinConfirmed'
  <2> SUFFICES ASSUME TypeOK, AppliedWithinConfirmed, [Next]_stops
               PROVE  AppliedWithinConfirmed'
    OBVIOUS
  <2>1. CASE UNCHANGED stops
    BY <2>1 DEF AppliedWithinConfirmed
  <2>2. CASE Next
    <3>1. PICK u \in StopOp : Operation(u)
      BY <2>2 DEF Next
    <3>2. PICK r \in StopRecord :
            stops' = [stops EXCEPT ![u] = r] /\ Replaces(u, r)
      BY <3>1, OperationEffect
    <3>3. Bounded(r)
      BY <3>2 DEF Replaces, Bounded, AppliedWithinConfirmed
    <3>4. ASSUME NEW s \in StopOp PROVE Bounded(stops'[s])
      BY <3>2, <3>3 DEF Bounded, AppliedWithinConfirmed, TypeOK
    <3> QED
      BY <3>4 DEF Bounded, AppliedWithinConfirmed
  <2> QED
    BY <2>1, <2>2
<1> QED
  BY <1>1, <1>2, TypeCorrect, PTL DEF Spec

\* No call takes back what restart recovery relies on.
THEOREM RecoveryRemembers == Spec => NothingForgotten
<1> DEFINE Step == \A s \in StopOp :
                     stops[s].created => Remembers(stops[s], stops'[s])
<1>1. TypeOK /\ [Next]_stops => [Step]_stops
  <2> SUFFICES ASSUME TypeOK, Next, NEW s \in StopOp, stops[s].created
               PROVE  Remembers(stops[s], stops'[s])
    OBVIOUS
  <2>1. PICK u \in StopOp : Operation(u)
    BY DEF Next
  <2>2. PICK r \in StopRecord :
          stops' = [stops EXCEPT ![u] = r] /\ Replaces(u, r)
    BY <2>1, OperationEffect
  <2>3. CASE s = u
    BY <2>2, <2>3 DEF Replaces, TypeOK
  <2>4. CASE s # u
    <3>1. stops'[s] = stops[s]
      BY <2>2, <2>4 DEF TypeOK
    <3>2. stops[s].applied \in Nat /\ stops[s].exitQty \in Nat
      BY MaxQtyAssumption DEF TypeOK, StopRecord, Qty
    <3> QED
      BY <3>1, <3>2 DEF Remembers
  <2> QED
    BY <2>3, <2>4
<1> QED
  BY <1>1, TypeCorrect, PTL DEF Spec, NothingForgotten, Remembers

----------------------------------------------------------------------------
(* Both stores *)

Pending == INSTANCE PendingOrderStoreProofs WITH MaxQty <- 1

\* The two instances of the store are one.
LEMMA SameOperation ==
  ASSUME NEW x, Orders!Operation(x) PROVE Pending!Operation(x)
BY Zenon
   DEF Orders!Qty, Orders!Action, Orders!Blank, Orders!Unresolved,
       Orders!Family, Orders!HasUnresolved, Orders!CreateIntent,
       Orders!AttachOrderId, Orders!UpdateVerification, Orders!MarkResolved,
       Orders!CanApplyEntryFill, Orders!MarkEntryFillApplied,
       Orders!Operation,
       Pending!Qty, Pending!Action, Pending!Blank, Pending!Unresolved,
       Pending!Family, Pending!HasUnresolved, Pending!CreateIntent,
       Pending!AttachOrderId, Pending!UpdateVerification,
       Pending!MarkResolved, Pending!CanApplyEntryFill,
       Pending!MarkEntryFillApplied, Pending!Operation

\* The stores are separate files: a behaviour of both is one of the pending
\* orders, so an instrument never has two unresolved entries or two unresolved
\* exits whatever the stops do meanwhile.
THEOREM OneUnresolvedFamily == StoresSpec => []OneUnresolvedPerFamily
<1>1. StoresInit => Pending!Init
  BY Zenon DEF StoresInit, Orders!Init, Pending!Init, Orders!Blank, Pending!Blank
<1>2. [StoresNext]_<<stops, orders>> => [Pending!Next]_orders
  <2>1. StoresNext => Pending!Next \/ UNCHANGED orders
    BY SameOperation, Zenon DEF StoresNext, StopStep, OrderStep, Pending!Next
  <2>2. UNCHANGED <<stops, orders>> => UNCHANGED orders
    OBVIOUS
  <2> QED
    BY <2>1, <2>2, Zenon
<1>3. Pending!OneUnresolvedPerFamily => OneUnresolvedPerFamily
  BY Zenon DEF OneUnresolvedPerFamily, Orders!OneUnresolvedPerFamily, Pending!OneUnresolvedPerFamily,
            Orders!Unresolved, Pending!Unresolved
<1>4. Pending!Spec => []Pending!OneUnresolvedPerFamily
  <2>1. 1 \in Nat \ {0}
    OBVIOUS
  <2> QED
    BY <2>1, NoOrderAssumption, InstrumentAssumption, Pending!OneUnresolved, PTL
<1> QED
  BY <1>1, <1>2, <1>3, <1>4, PTL DEF StoresSpec, Pending!Spec

============================================================================
