---------------------- MODULE PendingOrderStoreProofs ----------------------
(***************************************************************************)
(* Proofs about the pending-order store, for every set of operations,      *)
(* instruments and orders and every quantity.  As in StoresProofs,         *)
(* OperationEffect says what the one record an operation rewrites owes to  *)
(* the old one.                                                            *)
(***************************************************************************)
EXTENDS PendingOrderStore, TLAPS

\* Record n has lost nothing of record r that recovery relies on.
Remembers(r, n) ==
  /\ n.created
  /\ n.applied >= r.applied
  /\ r.orderId # NoOrder => n.orderId = r.orderId
  /\ r.resolved => n.resolved

\* Record r may replace that of x: an unresolved one replaces an unresolved
\* one of the same instrument and action, or comes where the instrument has
\* none of its family.
Replaces(x, r) ==
  /\ orders[x].created => Remembers(orders[x], r)
  /\ r.created /\ ~r.resolved =>
       \/ /\ Unresolved(x)
          /\ r.instrument = orders[x].instrument
          /\ r.action = orders[x].action
       \/ ~HasUnresolved(r.instrument, r.action)

\* A record that is not in the file has the type of a record.
LEMMA BlankType == Blank \in OrderRecord
<1>1. (CHOOSE i \in Instrument : TRUE) \in Instrument
  BY InstrumentAssumption
<1>2. 0 \in Qty
  BY MaxQtyAssumption DEF Qty
<1> QED
  BY <1>1, <1>2 DEF Blank, OrderRecord, Action

\* Two actions are of one family when both or neither are entries.
LEMMA SameFamily ==
  ASSUME NEW a \in Action, NEW b \in Action
  PROVE  b \in Family(a) <=> (a = "ENTRY") = (b = "ENTRY")
BY DEF Action, Family

\* Every operation rewrites one record, by one that may replace it.
LEMMA OperationEffect ==
  ASSUME TypeOK, NEW x \in Op, Operation(x)
  PROVE  \E r \in OrderRecord :
           orders' = [orders EXCEPT ![x] = r] /\ Replaces(x, r)
<1> USE DEF TypeOK
<1>q. Qty \subseteq Nat
  BY MaxQtyAssumption DEF Qty
<1>t. orders[x] \in OrderRecord
  OBVIOUS
<1>1. CASE \E i \in Instrument, a \in Action, q \in Qty : CreateIntent(x, i, a, q)
  <2>1. PICK i \in Instrument, a \in Action, q \in Qty : CreateIntent(x, i, a, q)
    BY <1>1
  <2> DEFINE new == [Blank EXCEPT !.created = TRUE, !.instrument = i,
                                  !.action = a, !.requested = q]
  <2>2. new \in OrderRecord
    BY BlankType DEF OrderRecord
  <2>3. orders' = [orders EXCEPT ![x] = new]
    BY <2>1 DEF CreateIntent
  <2>4. new.instrument = i /\ new.action = a
    BY BlankType DEF OrderRecord
  <2>5. Replaces(x, new)
    BY <2>1, <2>4 DEF CreateIntent, Replaces
  <2> QED
    BY <2>2, <2>3, <2>5
<1>2. CASE \E o \in OrderId : AttachOrderId(x, o)
  <2>1. PICK o \in OrderId : AttachOrderId(x, o)
    BY <1>2
  <2> DEFINE new == [orders[x] EXCEPT !.orderId = o]
  <2>2. new \in OrderRecord
    BY <1>t DEF OrderRecord
  <2>3. orders' = [orders EXCEPT ![x] = new]
    BY <2>1 DEF AttachOrderId
  <2>4. Replaces(x, new)
    BY <2>1, <1>q, <1>t
    DEF AttachOrderId, Replaces, Remembers, Unresolved, OrderRecord
  <2> QED
    BY <2>2, <2>3, <2>4
<1>3. CASE \E f \in Qty, p, t \in BOOLEAN : UpdateVerification(x, f, p, t)
  <2>1. PICK f \in Qty, p \in BOOLEAN, t \in BOOLEAN :
               UpdateVerification(x, f, p, t)
    BY <1>3
  <2> DEFINE new == [orders[x] EXCEPT !.filled = f, !.priced = p,
                                      !.terminal = t]
  <2>2. new \in OrderRecord
    BY <1>t DEF OrderRecord
  <2>3. orders' = [orders EXCEPT ![x] = new]
    BY <2>1 DEF UpdateVerification
  <2>4. Replaces(x, new)
    BY <2>1, <1>q, <1>t
    DEF UpdateVerification, Replaces, Remembers, Unresolved, OrderRecord
  <2> QED
    BY <2>2, <2>3, <2>4
<1>4. CASE MarkResolved(x)
  <2> DEFINE new == [orders[x] EXCEPT !.resolved = TRUE]
  <2>1. new \in OrderRecord
    BY <1>t DEF OrderRecord
  <2>2. orders' = [orders EXCEPT ![x] = new]
    BY <1>4 DEF MarkResolved
  <2>3. Replaces(x, new)
    BY <1>4, <1>q, <1>t
    DEF MarkResolved, Replaces, Remembers, Unresolved, OrderRecord
  <2> QED
    BY <2>1, <2>2, <2>3
<1>5. CASE \E n \in Qty : MarkEntryFillApplied(x, n)
  <2>1. PICK n \in Qty : MarkEntryFillApplied(x, n)
    BY <1>5
  <2> DEFINE new == [orders[x] EXCEPT !.applied = n]
  <2>2. new \in OrderRecord
    BY <1>t DEF OrderRecord
  <2>3. orders' = [orders EXCEPT ![x] = new]
    BY <2>1 DEF MarkEntryFillApplied
  <2>4. Replaces(x, new)
    BY <2>1, <1>q, <1>t
    DEF MarkEntryFillApplied, CanApplyEntryFill, Replaces, Remembers, Unresolved, OrderRecord
  <2> QED
    BY <2>2, <2>3, <2>4
<1> QED
  BY <1>1, <1>2, <1>3, <1>4, <1>5 DEF Operation

\* Whatever the calls, the store holds well-formed records.
THEOREM TypeCorrect == Spec => []TypeOK
<1>1. Init => TypeOK
  BY BlankType DEF Init, TypeOK
<1>2. TypeOK /\ [Next]_orders => TypeOK'
  BY OperationEffect DEF TypeOK, Next
<1> QED
  BY <1>1, <1>2, PTL DEF Spec

\* No instrument ever has two unresolved entries, or two unresolved exits,
\* normal or forced, however the calls of different operations interleave.
THEOREM OneUnresolved == Spec => []OneUnresolvedPerFamily
<1>1. Init => OneUnresolvedPerFamily
  BY DEF Init, OneUnresolvedPerFamily, Unresolved, Blank
<1>2. TypeOK /\ OneUnresolvedPerFamily /\ [Next]_orders
        => OneUnresolvedPerFamily'
  <2> SUFFICES ASSUME TypeOK, OneUnresolvedPerFamily, [Next]_orders
               PROVE  OneUnresolvedPerFamily'
    OBVIOUS
  <2>1. CASE UNCHANGED orders
    BY <2>1 DEF OneUnresolvedPerFamily, Unresolved
  <2>2. CASE Next
    <3>1. PICK u \in Op : Operation(u)
      BY <2>2 DEF Next
    <3>2. PICK r \in OrderRecord :
            orders' = [orders EXCEPT ![u] = r] /\ Replaces(u, r)
      BY <3>1, OperationEffect
    <3>3. ASSUME NEW y \in Op \ {u}
          PROVE  orders'[y] = orders[y] /\ orders'[u] = r
      BY <3>2 DEF TypeOK
    \* Another order of the new record's instrument and family was open.
    <3>4. ASSUME NEW y \in Op \ {u}, Unresolved(y)', Unresolved(u)',
                 orders'[y].instrument = orders'[u].instrument,
                 (orders'[y].action = "ENTRY") = (orders'[u].action = "ENTRY")
          PROVE  FALSE
      <4>1. orders'[y] = orders[y] /\ orders'[u] = r
        BY <3>3
      <4>2. r.action \in Action /\ orders[y].action \in Action
        BY DEF TypeOK, OrderRecord
      <4>3. Unresolved(y)
        BY <3>4, <4>1 DEF Unresolved
      <4>4. orders[y].action \in Family(r.action)
        BY <3>4, <4>1, <4>2, SameFamily
      <4>5. HasUnresolved(r.instrument, r.action)
        BY <3>4, <4>1, <4>3, <4>4 DEF HasUnresolved
      <4>6. /\ Unresolved(u)
            /\ r.instrument = orders[u].instrument
            /\ r.action = orders[u].action
        BY <3>2, <3>4, <4>1, <4>5 DEF Replaces, Unresolved
      <4> QED
        BY <3>4, <4>1, <4>3, <4>6 DEF OneUnresolvedPerFamily
    <3>5. ASSUME NEW x \in Op \ {u}, NEW y \in Op \ {u},
                 Unresolved(x)', Unresolved(y)',
                 orders'[x].instrument = orders'[y].instrument,
                 (orders'[x].action = "ENTRY") = (orders'[y].action = "ENTRY")
          PROVE  x = y
      <4>1. orders'[x] = orders[x] /\ orders'[y] = orders[y]
        BY <3>3
      <4> QED
        BY <3>5, <4>1 DEF OneUnresolvedPerFamily, Unresolved
    <3> QED
      BY <3>4, <3>5 DEF OneUnresolvedPerFamily
  <2> QED
    BY <2>1, <2>2
<1> QED
  BY <1>1, <1>2, TypeCorrect, PTL DEF Spec

\* No call takes back what restart recovery relies on.
THEOREM RecoveryRemembers == Spec => NothingForgotten
<1> DEFINE Step == \A x \in Op :
                     orders[x].created => Remembers(orders[x], orders'[x])
<1>1. TypeOK /\ [Next]_orders => [Step]_orders
  <2> SUFFICES ASSUME TypeOK, Next, NEW x \in Op, orders[x].created
               PROVE  Remembers(orders[x], orders'[x])
    OBVIOUS
  <2>1. PICK u \in Op : Operation(u)
    BY DEF Next
  <2>2. PICK r \in OrderRecord :
          orders' = [orders EXCEPT ![u] = r] /\ Replaces(u, r)
    BY <2>1, OperationEffect
  <2>3. CASE x = u
    BY <2>2, <2>3 DEF Replaces, TypeOK
  <2>4. CASE x # u
    <3>1. orders'[x] = orders[x]
      BY <2>2, <2>4 DEF TypeOK
    <3>2. orders[x].applied \in Nat
      BY MaxQtyAssumption DEF TypeOK, OrderRecord, Qty
    <3> QED
      BY <3>1, <3>2 DEF Remembers
  <2> QED
    BY <2>3, <2>4
<1> QED
  BY <1>1, TypeCorrect, PTL DEF Spec, NothingForgotten, Remembers

============================================================================
