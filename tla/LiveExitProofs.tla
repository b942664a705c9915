--------------------------- MODULE LiveExitProofs ---------------------------
(***************************************************************************)
(* Proofs about the exit side of a live position, for every number of      *)
(* operations and restarts and every quantity.                             *)
(*                                                                         *)
(* 1. CancelInv, with and without the hybrid plan.  A cancellation is      *)
(*    requested at pc = "cancelStop", which is only reached through the    *)
(*    durable reservation; a step of any other kind is Calm: it leaves     *)
(*    reservations and cancellations alone and does not get there.         *)
(*                                                                         *)
(* 2. FullInv, for the plan without a hybrid exit.  BooksInv relates the   *)
(*    two stores to the broker, MoneyInv and FileInv the position file to  *)
(*    both, CtlInv the next step of the bot to all of them.  One lemma per *)
(*    action shows that it keeps FullInv; the theorems read it.            *)
(*                                                                         *)
(* 3. What ExitExposure promises, and with it the bot.                     *)
(*                                                                         *)
(* 4. ProfitInv, with and without the hybrid plan, until the first         *)
(*    restart: the P&L of an exit follows its progress from the order to   *)
(*    the saved result.  A restart breaks it: see ProfitInv.               *)
(***************************************************************************)
EXTENDS LiveExit, TLAPS

----------------------------------------------------------------------------
(* 1. At most one cancellation *)

StopsShaped ==
  /\ DOMAIN stops = StopOp
  /\ \A s \in StopOp : /\ {"created", "cancelTried"} \subseteq DOMAIN stops[s]
                       /\ stops[s].created \in BOOLEAN
                       /\ stops[s].cancelTried \in BOOLEAN

BookShaped ==
  /\ DOMAIN book = StopOp \cup ExitOp
  /\ \A o \in StopOp \cup ExitOp : "cancels" \in DOMAIN book[o]

CallShaped ==
  /\ {"next", "then"} \subseteq DOMAIN call
  /\ call.next \in {"idle", "ended"}
  /\ call.then \in {"idle", "recoverExits", "finalize"}

\* A stop is cancelled only after its cancellation was reserved, and it is
\* reserved once: at "cancelStop" the reserved cancellation is still to come.
ReservedFirst ==
  \A s \in StopOp :
    /\ stops[s].cancelTried => stops[s].created
    /\ book[s].cancels = 0 \/ (book[s].cancels = 1 /\ stops[s].cancelTried)
    /\ pc = "cancelStop" /\ s = pos.op =>
         stops[s].cancelTried /\ book[s].cancels = 0

CancelInv == StopsShaped /\ BookShaped /\ CallShaped /\ ReservedFirst

\* What all steps but the reservation and the cancellation do.
StopsKept ==
  /\ StopsShaped'
  /\ \A s \in StopOp : /\ stops[s].created => stops'[s].created
                       /\ stops'[s].cancelTried = stops[s].cancelTried

BookKept ==
  /\ BookShaped'
  /\ \A o \in StopOp \cup ExitOp : book'[o].cancels = book[o].cancels

Calm == StopsKept /\ BookKept /\ CallShaped' /\ pc' # "cancelStop"

LEMMA CalmStep == CancelInv /\ Calm => CancelInv'
BY DEF CancelInv, Calm, StopsKept, BookKept, ReservedFirst

\* A step that leaves a store alone keeps it.
LEMMA Unchanged ==
  /\ CancelInv /\ UNCHANGED stops => StopsKept
  /\ CancelInv /\ UNCHANGED book => BookKept
BY DEF CancelInv, StopsKept, BookKept, StopsShaped, BookShaped

\* Operations of the stop store other than the reservation.
LEMMA StoreKeeps ==
  ASSUME CancelInv, NEW s, NEW a, NEW b, NEW c,
         \/ Stop!CreateIntent(s, a, b)
         \/ Stop!AttachOrderId(s, a)
         \/ Stop!UpdateVerification(s, a)
         \/ Stop!RequestCoordination(s, a, b, c)
         \/ Stop!MarkFillApplied(s, a, b)
         \/ Stop!MarkResolved(s)
  PROVE  StopsKept
<1> USE DEF CancelInv, StopsShaped, StopsKept
<1>1. CASE Stop!CreateIntent(s, a, b)
  BY <1>1 DEF Stop!CreateIntent, Stop!Blank, ReservedFirst
<1>2. CASE Stop!AttachOrderId(s, a)
  BY <1>2 DEF Stop!AttachOrderId
<1>3. CASE Stop!UpdateVerification(s, a)
  BY <1>3 DEF Stop!UpdateVerification
<1>4. CASE Stop!RequestCoordination(s, a, b, c)
  BY <1>4 DEF Stop!RequestCoordination
<1>5. CASE Stop!MarkFillApplied(s, a, b)
  BY <1>5 DEF Stop!MarkFillApplied
<1>6. CASE Stop!MarkResolved(s)
  BY <1>6 DEF Stop!MarkResolved
<1> QED
  BY <1>1, <1>2, <1>3, <1>4, <1>5, <1>6

\* Steps of the broker and requests to it other than a cancellation.
LEMMA BrokerKeeps ==
  ASSUME CancelInv, NEW o, NEW q,
         \/ Broker!Submit(o, q) \/ Broker!Accept(o) \/ Broker!Reject(o)
         \/ Broker!Lose(o) \/ Broker!Trigger(o) \/ Broker!Fill(o)
         \/ Broker!Cancel(o)
  PROVE  BookKept
<1> USE DEF CancelInv, BookShaped, BookKept
<1>1. CASE Broker!Submit(o, q)
  BY <1>1 DEF Broker!Submit
<1>2. CASE Broker!Fill(o)
  BY <1>2 DEF Broker!Fill
<1>3. ASSUME NEW st, Broker!Become(o, st) PROVE BookKept
  BY <1>3 DEF Broker!Become
<1> QED
  BY <1>1, <1>2, <1>3 DEF Broker!Accept, Broker!Reject, Broker!Lose,
    Broker!Trigger, Broker!Cancel

\* Steps that touch neither store nor broker orders and go elsewhere.
LEMMA LocalKeeps ==
  CancelInv /\ UNCHANGED <<stops, book>> => StopsKept /\ BookKept
BY Unchanged

USE DEF StopStoreStep, OrderStoreStep, BrokerStep, LocalStep, Save, Goto, Return,
        Book, market, bot, clock

LEMMA ProtectingIsCalm == CancelInv /\ Protecting => Calm
<1> SUFFICES ASSUME CancelInv, Protecting PROVE Calm
  OBVIOUS
<1>c. CallShaped
  BY DEF CancelInv
<1>1. CASE CreateStopIntent
  <2>1. PICK s \in StopOp : Stop!CreateIntent(s, Symbol, pos.qty)
                            /\ call' = [call EXCEPT !.stop = s]
    BY <1>1 DEF CreateStopIntent
  <2> QED
    BY <1>1, <1>c, <2>1, StoreKeeps, Unchanged DEF CreateStopIntent, Calm, CallShaped
<1>2. CASE SubmitStop
  BY <1>2, <1>c, BrokerKeeps, Unchanged DEF SubmitStop, Calm, CallShaped
<1>3. CASE AttachStop
  BY <1>3, <1>c, StoreKeeps, Unchanged DEF AttachStop, Calm, CallShaped
<1>4. CASE StopSubmissionUncertain
  BY <1>4, <1>c, LocalKeeps DEF StopSubmissionUncertain, Calm, CallShaped
<1>5. CASE VerifyStop
  <2>1. PICK a \in StopAnswers(call.stop) :
          \/ /\ Stop!UpdateVerification(call.stop, a.filled)
             /\ call' = [call EXCEPT !.obs = a]
             /\ pc' = "stopResult"
             /\ StopStoreStep
          \/ Raise
    BY <1>5 DEF VerifyStop
  <2> QED
    BY <1>c, <2>1, StoreKeeps, LocalKeeps, Unchanged DEF Raise, NoCall, Calm, CallShaped
<1>6. CASE StopResult
  <2>1. call.then \in {"idle", "recoverExits", "finalize"}
    BY <1>c DEF CallShaped
  <2>2. \/ pc' = "finalize" /\ UNCHANGED call
        \/ Return
        \/ pc' = "recoverExits" /\ call' = [NoCall EXCEPT !.recovering = TRUE]
    BY <1>6, <2>1 DEF StopResult
  <2>3. UNCHANGED <<stops, book>>
    BY <1>6 DEF StopResult
  <2> QED
    BY <1>c, <2>2, <2>3, LocalKeeps DEF NoCall, Calm, CallShaped
<1> QED
  BY <1>1, <1>2, <1>3, <1>4, <1>5, <1>6 DEF Protecting

\* Inspecting the stop leads to "apply", "reserveCancel" or "block".
LEMMA InspectIsCalm == CancelInv /\ Inspect => Calm
<1> SUFFICES ASSUME CancelInv, Inspect PROVE Calm
  OBVIOUS
<1>c. CallShaped
  BY DEF CancelInv
<1>1. PICK a \in StopAnswers(pos.op) :
        \/ /\ Stop!UpdateVerification(pos.op, a.filled)
           /\ call' = [call EXCEPT !.obs = a]
           /\ pc' = AfterInspection(a)
           /\ StopStoreStep
        \/ Raise
  BY DEF Inspect
<1>2. AfterInspection(a) # "cancelStop"
  BY DEF AfterInspection
<1> QED
  BY <1>c, <1>1, <1>2, StoreKeeps, LocalKeeps, Unchanged
  DEF Raise, NoCall, Calm, CallShaped

LEMMA CheckingIsCalm == CancelInv /\ Checking => Calm
<1> SUFFICES ASSUME CancelInv, Checking PROVE Calm
  OBVIOUS
<1>c. CallShaped
  BY DEF CancelInv
<1>1. CASE CheckPosition
  BY <1>1, <1>c, InspectIsCalm, LocalKeeps DEF CheckPosition, NoCall, Calm, CallShaped
<1>2. CASE Block
  BY <1>2, <1>c, LocalKeeps DEF Block, NoCall, Calm, CallShaped
<1>3. CASE ApplyNoFill
  BY <1>3, <1>c, LocalKeeps DEF ApplyNoFill, AfterApply, NoCall, Calm, CallShaped
<1>4. CASE ReserveStopFill
  BY <1>4, <1>c, StoreKeeps, Unchanged DEF ReserveStopFill, NoCall, Calm, CallShaped
<1>5. CASE BookStopFill
  BY <1>5, <1>c, LocalKeeps DEF BookStopFill, NoCall, Calm, CallShaped
<1>6. CASE SaveStopFill
  BY <1>6, <1>c, LocalKeeps DEF SaveStopFill, AfterApply, NoCall, Calm, CallShaped
<1>7. CASE ResolveStop
  BY <1>7, <1>c, StoreKeeps, Unchanged DEF ResolveStop, AfterApply, NoCall, Calm, CallShaped
<1>8. CASE NoExit
  BY <1>8, <1>c, LocalKeeps DEF NoExit, NoCall, Calm, CallShaped
<1>9. CASE DecideExit
  BY <1>9, <1>c, LocalKeeps DEF DecideExit, Prepare, Calm, CallShaped
<1> QED
  BY <1>1, <1>2, <1>3, <1>4, <1>5, <1>6, <1>7, <1>8, <1>9 DEF Checking

LEMMA ExitingIsCalm == CancelInv /\ Exiting => Calm
<1> SUFFICES ASSUME CancelInv, Exiting PROVE Calm
  OBVIOUS
<1>c. CallShaped
  BY DEF CancelInv
<1>1. CASE RefuseUncleared
  BY <1>1, <1>c, LocalKeeps DEF RefuseUncleared, NoExitPlaced, Calm, CallShaped
<1>2. CASE RefusePending
  BY <1>2, <1>c, LocalKeeps DEF RefusePending, NoExitPlaced, Calm, CallShaped
<1>3. CASE CreateExitIntent
  BY <1>3, <1>c, LocalKeeps DEF CreateExitIntent, NoCall, Calm, CallShaped
<1>4. CASE SubmitExit
  BY <1>4, <1>c, BrokerKeeps, Unchanged DEF SubmitExit, NoCall, Calm, CallShaped
<1>5. CASE AttachExit
  BY <1>5, <1>c, LocalKeeps DEF AttachExit, NoCall, Calm, CallShaped
<1>6. CASE ExitSubmissionUncertain
  BY <1>6, <1>c, LocalKeeps DEF ExitSubmissionUncertain, NoExitPlaced, Calm, CallShaped
<1>7. CASE VerifyExit
  BY <1>7, <1>c, LocalKeeps DEF VerifyExit, NoCall, Calm, CallShaped
<1>8. CASE ResultNoFill
  BY <1>8, <1>c, LocalKeeps DEF ResultNoFill, ProtectOrFinish, AfterExit, NoCall, Calm, CallShaped
<1>9. CASE ResultUnpriced
  BY <1>9, <1>c, LocalKeeps DEF ResultUnpriced, AfterExit, NoCall, Calm, CallShaped
<1>10. CASE BookExitFill
  BY <1>10, <1>c, LocalKeeps DEF BookExitFill, NoCall, Calm, CallShaped
<1>11. CASE SaveExitFill
  BY <1>11, <1>c, LocalKeeps DEF SaveExitFill, ProtectOrFinish, AfterExit, NoCall, Calm, CallShaped
<1>12. CASE Finalize
  BY <1>12, <1>c, LocalKeeps DEF Finalize, NoCall, Calm, CallShaped
<1>13. CASE ResolveOldStop
  BY <1>13, <1>c, StoreKeeps, Unchanged DEF ResolveOldStop, NoCall, Calm, CallShaped
<1>14. CASE SaveReprotection
  BY <1>14, <1>c, LocalKeeps DEF SaveReprotection, NoCall, Calm, CallShaped
<1> QED
  BY <1>1, <1>2, <1>3, <1>4, <1>5, <1>6, <1>7, <1>8, <1>9, <1>10, <1>11, <1>12, <1>13, <1>14 DEF Exiting

\* Recovery of stops and exits.
LEMMA RecoveringIsCalm == CancelInv /\ (RecoverStops \/ RecoverExits) => Calm
<1> SUFFICES ASSUME CancelInv, RecoverStops \/ RecoverExits PROVE Calm
  OBVIOUS
<1>c. CallShaped
  BY DEF CancelInv
<1>1. CASE RecoverStops
  <2>1. \/ \E s : call' = [[call EXCEPT !.then = "recoverExits"] EXCEPT !.stop = s]
        \/ call' = [call EXCEPT !.then = "recoverExits"]
        \/ call' = call
    BY <1>1 DEF RecoverStops
  <2>2. pc' \in {"attachStop", "verifyStop", "protect", "recoverExits"}
    BY <1>1 DEF RecoverStops
  <2>3. UNCHANGED <<stops, book>>
    BY <1>1 DEF RecoverStops
  <2> QED
    BY <1>c, <2>1, <2>2, <2>3, LocalKeeps DEF Calm, CallShaped
<1>2. CASE RecoverExits
  <2>1. UNCHANGED <<stops, book>>
    BY <1>2 DEF RecoverExits, RecoverExit, FlagLostExit
  <2>2. CASE \E x \in ExitOp : RecoverExit(x)
    <3>1. PICK x \in ExitOp : RecoverExit(x)
      BY <2>2
    <3> DEFINE found(a) == [call EXCEPT !.action = orders[x].action, !.op = x,
                                        !.obs = a]
               new(a)   == a.filled - AppliedBefore(x)
    <3>2. PICK a \in ExitAnswers(x) :
            IF ~Held
              THEN IF a.state = "DONE" /\ a.filled = orders[x].requested
                     THEN pc' = "finalize" /\ call' = found(a)
                     ELSE Return
              ELSE IF new(a) \in 0..pos.qty
                THEN /\ pc' = "result"
                     /\ call' = [found(a) EXCEPT !.fill = new(a), !.reason =
                                   IF orders[x].action = "EXIT"
                                     THEN pos.reason ELSE "FULL"]
                ELSE Goto("block")
      BY <3>1 DEF RecoverExit
    <3>3. \/ pc' = "finalize" /\ call' = found(a)
          \/ Return
          \/ pc' = "result" /\ \E n, r : call' = [found(a) EXCEPT !.fill = n, !.reason = r]
          \/ Goto("block")
      BY <3>2, Zenon
    <3>fields. /\ {"next", "then"} \subseteq DOMAIN found(a)
          /\ found(a).next = call.next /\ found(a).then = call.then
      BY <1>c DEF CallShaped
    <3> HIDE DEF found, new
    <3>4. CallShaped' /\ pc' \in {"finalize", "result", "block", "idle", "ended"}
      <4>1. CASE pc' = "finalize" /\ call' = found(a)
        BY <1>c, <3>fields, <4>1 DEF CallShaped
      <4>2. CASE Return
        BY <1>c, <4>2 DEF NoCall, CallShaped
      <4>3. CASE /\ pc' = "result"
                 /\ \E n, r : call' = [found(a) EXCEPT !.fill = n, !.reason = r]
        BY <1>c, <3>fields, <4>3 DEF CallShaped
      <4>4. CASE Goto("block")
        BY <1>c, <4>4 DEF CallShaped
      <4> QED
        BY <3>3, <4>1, <4>2, <4>3, <4>4
    <3> QED
      BY <2>1, <3>4, LocalKeeps DEF Calm
  <2>3. CASE \E x \in ExitOp : FlagLostExit(x)
    BY <1>c, <2>1, <2>3, LocalKeeps DEF FlagLostExit, NoCall, Calm, CallShaped
  <2>4. CASE Return
    BY <1>c, <2>1, <2>4, LocalKeeps DEF NoCall, Calm, CallShaped
  <2> QED
    BY <1>2, <2>2, <2>3, <2>4 DEF RecoverExits
<1> QED
  BY <1>1, <1>2

\* The two steps that are not calm: the reservation arms one cancellation, and
\* the cancellation uses it up.
LEMMA CoordinatingKeeps == CancelInv /\ Coordinating => CancelInv'
<1> SUFFICES ASSUME CancelInv, Coordinating PROVE CancelInv'
  OBVIOUS
<1>c. CallShaped
  BY DEF CancelInv
<1>1. CASE RequestCoordination
  <2>1. Calm
    BY <1>1, <1>c, StoreKeeps, LocalKeeps, Unchanged
    DEF RequestCoordination, Calm, CallShaped
  <2> QED
    BY <2>1, CalmStep
<1>2. CASE Coordinate
  BY <1>2, InspectIsCalm, CalmStep DEF Coordinate
<1>3. CASE ReserveCancel
  BY <1>3 DEF ReserveCancel, Stop!ReserveCancel, CancelInv, StopsShaped, BookShaped,
    CallShaped, ReservedFirst
<1>4. CASE CancelStop
  BY <1>4 DEF CancelStop, Broker!AskCancel, CancelInv, StopsShaped, BookShaped,
    CallShaped, ReservedFirst
<1>5. CASE ClearForExit
  <2>1. Calm
    BY <1>5, <1>c, LocalKeeps DEF ClearForExit, Calm, CallShaped
  <2> QED
    BY <2>1, CalmStep
<1> QED
  BY <1>1, <1>2, <1>3, <1>4, <1>5 DEF Coordinating

LEMMA CancelInit == Init => CancelInv
<1> SUFFICES ASSUME Init PROVE CancelInv
  OBVIOUS
<1>1. StopsShaped /\ \A s \in StopOp : stops[s].cancelTried = FALSE
  BY DEF Init, Stop!Init, Stop!Blank, StopsShaped
<1>2. BookShaped /\ \A o \in StopOp \cup ExitOp : book[o].cancels = 0
  BY DEF Init, Broker!Init, BookShaped
<1>3. CallShaped /\ pc = "protect"
  BY DEF Init, NoCall, CallShaped
<1> QED
  BY <1>1, <1>2, <1>3 DEF CancelInv, ReservedFirst

LEMMA CancelNext == CancelInv /\ [Next]_vars => CancelInv'
<1> SUFFICES ASSUME CancelInv, [Next]_vars PROVE CancelInv'
  OBVIOUS
<1>c. CallShaped
  BY DEF CancelInv
<1>1. CASE Bot
  BY <1>1, CalmStep, ProtectingIsCalm, CheckingIsCalm, CoordinatingKeeps,
    ExitingIsCalm, RecoveringIsCalm DEF Bot
<1>2. CASE SquareOff
  BY <1>2, <1>c, LocalKeeps, CalmStep DEF SquareOff, Prepare, Calm, CallShaped
<1>3. CASE BrokerMove
  <2>1. BookKept
    <3>1. PICK o \in StopOp \cup ExitOp :
            \/ Broker!Accept(o) \/ Broker!Trigger(o) \/ Broker!Fill(o)
            \/ Broker!Lose(o) \/ Broker!Reject(o) \/ Broker!Cancel(o)
      BY <1>3 DEF BrokerMove
    <3> QED
      BY <3>1, BrokerKeeps
  <2>2. StopsKept /\ UNCHANGED <<pc, pos, call>>
    BY <1>3, Unchanged DEF BrokerMove
  <2> QED
    BY <2>1, <2>2 DEF StopsKept, BookKept, CancelInv, CallShaped, ReservedFirst
<1>4. CASE Crash
  BY <1>4, <1>c, LocalKeeps, CalmStep DEF Crash, NoCall, Calm, CallShaped
<1>5. CASE Restart
  BY <1>5, <1>c, LocalKeeps, CalmStep DEF Restart, NoCall, Calm, CallShaped
<1>6. CASE UNCHANGED vars
  BY <1>6 DEF vars, CancelInv, StopsShaped, BookShaped, CallShaped, ReservedFirst
<1> QED
  BY <1>1, <1>2, <1>3, <1>4, <1>5, <1>6 DEF Next, Terminated

\* "Cancellation is at-most-once" (coordinate_protective_stop_for_exit), for any
\* number of stops, exits, checks, crashes and restarts.
THEOREM CancelledOnce == Spec => []CancelAtMostOnce
<1>1. CancelInv => CancelAtMostOnce
  BY DEF CancelInv, ReservedFirst, CancelAtMostOnce
<1> QED
  BY <1>1, CancelInit, CancelNext, PTL DEF Spec

----------------------------------------------------------------------------
(* 2. The books: the invariant *)

\* An order of the broker: only an order that was at work has fills, and one
\* that is at work has shares left.
OrderShape(o) ==
  /\ book[o].filled <= book[o].qty
  /\ Broker!Is(o, {"NONE", "SENT", "LOST", "TRIGGER_PENDING", "REJECTED"})
       => book[o].filled = 0
  /\ Broker!Is(o, {"SENT", "TRIGGER_PENDING", "OPEN"}) => book[o].filled < book[o].qty

\* A stop operation and its order: the id is the broker's, what is applied is
\* the fill of an order that is over, and a resolved operation is applied.
StopShape(s) ==
  /\ ~stops[s].created =>
       /\ Broker!Is(s, {"NONE"}) /\ stops[s].orderId = NoOp
       /\ ~stops[s].resolved /\ ~stops[s].priced
       /\ stops[s].applied = 0
  /\ stops[s].created =>
       /\ stops[s].requested = Quantity
       /\ ~Broker!Is(s, {"NONE"}) => book[s].qty = Quantity
  /\ stops[s].orderId \in {NoOp, s}
  /\ stops[s].orderId # NoOp => Broker!Accepted(s)
  /\ stops[s].applied > 0 => Broker!Ended(s) /\ stops[s].applied = book[s].filled
  /\ pnl[s] <= stops[s].applied
  /\ stops[s].resolved =>
       /\ Broker!Ended(s)
       /\ stops[s].applied = book[s].filled
       /\ stops[s].priced => pnl[s] = stops[s].applied
  /\ Stop!Requested(s) => stops[s].reason = "FULL"

\* An exit operation and its order.
ExitShape(x) ==
  /\ ~orders[x].created =>
       Broker!Is(x, {"NONE"}) /\ orders[x].orderId = NoOp /\ ~orders[x].resolved
  /\ orders[x].created =>
       /\ orders[x].requested > 0
       /\ orders[x].action \in Family
       /\ ~Broker!Is(x, {"NONE"}) => book[x].qty = orders[x].requested
  /\ orders[x].orderId \in {NoOp, x}
  /\ orders[x].orderId # NoOp => Broker!Accepted(x)
  /\ orders[x].resolved => Broker!Ended(x)

\* Store and broker: one stop at all, and one unresolved exit at most.
BooksInv ==
  /\ \A o \in Op : OrderShape(o)
  /\ \A s \in StopOp : StopShape(s)
  /\ \A x \in ExitOp : ExitShape(x)
  /\ \A s, t \in StopOp : stops[s].created /\ stops[t].created => s = t
  /\ \A x, y \in ExitOp : Orders!Unresolved(x) /\ Orders!Unresolved(y) => x = y

Applied(s) == stops[s].applied = book[s].filled

NoExitYet == \A x \in ExitOp : ~orders[x].created

\* What the file reflects of an exit.
Saved(x) ==
  IF file.exit[orders[x].action].op = x THEN file.exit[orders[x].action].filled ELSE 0

\* Store, broker and position file.  Before the first exit the one stop's fill
\* is all that is missing from the account, and the file lags behind its
\* reservation at most; after it the stop is over and applied, and the exit in
\* progress accounts for what the account and the file miss of it.
MoneyInv ==
  /\ (\A s \in StopOp : ~stops[s].created) =>
       NoExitYet /\ net = Quantity /\ LocalQty(file) = Quantity
  /\ \A s \in StopOp : stops[s].created =>
       /\ stops[s].priced /\ LocalQty(file) + stops[s].applied <= Quantity
            => pnl[s] = stops[s].applied
       /\ NoExitYet =>
            /\ net = Quantity - book[s].filled
            /\ LocalQty(file) + stops[s].applied >= Quantity
            /\ stops[s].resolved => LocalQty(file) + stops[s].applied = Quantity
       /\ ~NoExitYet =>
            /\ Broker!Ended(s) /\ Applied(s)
            /\ LocalQty(file) + stops[s].applied <= Quantity
  /\ \A x \in ExitOp : Orders!Unresolved(x) =>
       /\ net = orders[x].requested - book[x].filled
       /\ IF file = NoPosition THEN book[x].filled = orders[x].requested
          ELSE /\ file.qty = orders[x].requested - Saved(x)
               /\ Saved(x) <= book[x].filled
               /\ \A a \in Family : file.exit[a].filled > 0 =>
                    file.exit[a].op = x /\ orders[x].action = a
  /\ ~NoExitYet /\ (\A x \in ExitOp : ~Orders!Unresolved(x)) => LocalQty(file) = net

\* What the file says of its operations.
FileInv ==
  file # NoPosition =>
    /\ file.stage = "NONE" /\ file.reason # "SCALP"
    /\ file.op # NoOp => stops[file.op].created
    /\ \A a \in Family :
         /\ file.exit[a].op # NoOp => orders[file.exit[a].op].created
         /\ file.exit[a].op = NoOp => file.exit[a].filled = 0
         /\ file.exit[a].filled > 0 =>
              \A s \in StopOp : stops[s].created =>
                file.qty + stops[s].applied < Quantity

\* The file names the stop, once that is settled.
NamedInv ==
  \A s \in StopOp : stops[s].created =>
    Stop!Unresolved(s) \/ file = NoPosition \/ file.op = s

\* A position left to automation has its stop.
Covers(p) ==
  p # NoPosition /\ ~p.blocked =>
    /\ p.protected
    /\ p.op # NoOp
    /\ Broker!Accepted(p.op)
    /\ book[p.op].qty = p.qty

CoverInv == Covers(pos) /\ Covers(file)

\* A process that runs has the file in memory, but for the block it sets first.
Mirror ==
  pc # "down" =>
    IF file = NoPosition THEN pos = NoPosition
    ELSE pos # NoPosition /\ pos = [file EXCEPT !.blocked = pos.blocked]

\* Where the bot is.
Labels == {"protect", "submitStop", "attachStop", "verifyStop", "stopResult",
  "idle", "block", "apply", "reserveCancel", "cancelStop", "bookStopFill",
  "saveStopFill", "resolveStop", "decide", "request", "coordinate", "clear",
  "place", "submitExit", "attachExit", "verifyExit", "result", "saveExit",
  "finalize", "recoverStops", "recoverExits", "down", "ended"}

HeldLabels == Labels \ {"idle", "resolveStop", "finalize", "recoverStops", "recoverExits", "down", "ended"}

Placing == {"protect", "submitStop", "attachStop", "verifyStop", "stopResult"}
Named == {"apply", "reserveCancel", "cancelStop", "coordinate", "decide", "clear", "place",
   "submitExit", "attachExit", "verifyExit"}

\* A stop being placed is the unresolved one.
AtPlacing ==
  /\ pc = "protect" => \A s \in StopOp : ~stops[s].created
  /\ pc \in Placing \ {"protect"} =>
       /\ call.stop \in StopOp /\ Stop!Unresolved(call.stop)
       /\ pc = "submitStop" => Broker!Is(call.stop, {"NONE"}) /\ stops[call.stop].orderId = NoOp
       /\ pc = "verifyStop" => stops[call.stop].orderId # NoOp
       /\ pc = "stopResult" /\ call.obs.state = "ACTIVE" => Broker!Accepted(call.stop)

Settled(s) == Broker!Ended(s) /\ Applied(s)

\* What was inspected is applied only when it is still true.
AtApply ==
  pc = "apply" =>
    IF call.obs.state = "ACTIVE"
      THEN call.obs.filled = 0 /\ stops[pos.op].applied = 0 /\ call.action = "NONE"
      ELSE /\ call.obs.state \in StopEnd
           /\ Broker!Ended(pos.op) /\ call.obs.filled = book[pos.op].filled

\* Between the reservation of a stop's fill and the save of the position.
AtWindow ==
  pc \in {"bookStopFill", "saveStopFill"} =>
    /\ pos.op \in StopOp /\ stops[pos.op].created /\ stops[pos.op].orderId # NoOp
    /\ Settled(pos.op)
    /\ call.fill > 0 /\ call.fill = stops[pos.op].applied /\ call.obs.filled = call.fill
    /\ pos.qty = Quantity
    /\ stops[pos.op].priced <=> call.obs.priced
    /\ pc = "bookStopFill" => pnl[pos.op] = 0 /\ call.obs.priced
    /\ pc = "saveStopFill" => (call.obs.priced => pnl[pos.op] = call.fill)
    /\ NoExitYet
    /\ call.obs.state \in StopEnd

\* The file has the fill of the stop that is resolved.
AtResolve ==
  pc = "resolveStop" =>
    LET s == IF Held THEN pos.op ELSE call.stop IN
    /\ s \in StopOp /\ stops[s].created
    /\ Settled(s)
    /\ LocalQty(file) + stops[s].applied = Quantity
    /\ Held => Identified
    /\ Held => call.obs.state \in StopEnd

\* A coordinated exit runs over a settled stop, with an operation of its own.
AtExit ==
  /\ pc \in {"apply", "bookStopFill", "saveStopFill", "resolveStop", "decide", "request",
            "reserveCancel", "cancelStop", "coordinate", "clear", "place"} => call.op = NoOp
  /\ pc \in {"request", "reserveCancel", "cancelStop", "coordinate", "clear", "place", "submitExit",
             "attachExit", "verifyExit", "result", "saveExit"} =>
        call.action \in Family
  /\ pc \in {"request", "reserveCancel", "cancelStop", "coordinate", "clear", "place"} => call.full
  /\ pc \in {"apply", "bookStopFill", "saveStopFill", "resolveStop"} /\ call.action # "NONE" => call.full
  /\ pc = "request" => call.reason = "FULL"
  /\ pc \in {"clear", "place"} => Settled(pos.op)
  /\ pc \in {"submitExit", "attachExit", "verifyExit"} =>
       /\ call.op \in ExitOp /\ Orders!Unresolved(call.op)
       /\ orders[call.op].action = call.action
       /\ \A a \in Family : file.exit[a].op # call.op
       /\ pc = "submitExit" => Broker!Is(call.op, {"NONE"})
       /\ pc = "verifyExit" => orders[call.op].orderId # NoOp

\* What is applied of an exit is what the file does not show of it yet.
AtResult ==
  /\ pc \in {"result", "saveExit"} =>
      /\ call.fill \in 0..pos.qty
      /\ call.op = NoOp => call.fill = 0 /\ pc = "result"
      /\ call.op # NoOp =>
           /\ Orders!Unresolved(call.op)
           /\ orders[call.op].action = call.action
           /\ call.fill = call.obs.filled - Saved(call.op)
           /\ call.obs.filled <= book[call.op].filled
           /\ call.obs.state = "DONE" =>
                Broker!Ended(call.op) /\ call.obs.filled = book[call.op].filled
      /\ pc = "saveExit" => call.fill > 0
  /\ pc = "finalize" =>
      /\ call.op \in ExitOp /\ Orders!Unresolved(call.op) /\ Broker!Ended(call.op)
      /\ file # NoPosition => Saved(call.op) = book[call.op].filled

\* The position is held wherever the bot is busy with it.
CtlInv ==
  /\ pc \in Labels
  /\ pc \in HeldLabels => Held
  /\ pc \in Named => Identified
  /\ pc = "idle" => call = NoCall
  /\ call.then # "finalize"
  /\ call.reason # "SCALP"
  /\ pc = "decide" => call.action = "NONE" /\ call.obs.state \in StopEnd \cup {"ACTIVE"}
  /\ AtPlacing /\ AtApply /\ AtWindow /\ AtResolve /\ AtExit /\ AtResult

\* Without the hybrid plan no second stop is ever placed.
FullInv == ~Hybrid /\ TypeOK /\ BooksInv /\ MoneyInv /\ FileInv /\ NamedInv /\ CoverInv /\ Mirror /\ CtlInv

----------------------------------------------------------------------------

\* The broker's own steps: one order moves forward, and the account follows its
\* fills.
LEMMA BrokerEffect ==
  ASSUME TypeOK, NEW o \in Op, OrderShape(o),
         \/ Broker!Accept(o) \/ Broker!Trigger(o) \/ Broker!Fill(o)
         \/ Broker!Lose(o) \/ Broker!Reject(o) \/ Broker!Cancel(o)
  PROVE  /\ Broker!TypeOK'
         /\ \A p \in Op : p # o => book'[p] = book[p]
         /\ ~Broker!Ended(o) /\ ~Broker!Is(o, {"NONE"}) /\ ~Broker!Is(o, {"NONE"})'
         /\ Broker!Accepted(o) => Broker!Accepted(o)'
         /\ book'[o].qty = book[o].qty
         /\ OrderShape(o)'
         /\ \/ book'[o].filled = book[o].filled /\ net' = net
            \/ /\ Broker!Is(o, {"OPEN"})
               /\ book'[o].filled = book[o].filled + 1 /\ net' = net - 1
<1> USE DEF Op, OrderShape, Broker!Is, Broker!Accepted, Broker!Ended
<1>t. Broker!TypeOK
  BY DEF TypeOK
<1> USE <1>t DEF Broker!TypeOK, Broker!Entry, Broker!Status
<1>1. ASSUME NEW st \in Broker!Status \ {"NONE", "COMPLETE"}, Broker!Become(o, st)
      PROVE  /\ Broker!TypeOK'
             /\ \A p \in Op : p # o => book'[p] = book[p]
             /\ book'[o].status = st
             /\ book'[o].qty = book[o].qty /\ book'[o].filled = book[o].filled
             /\ net' = net
  BY <1>1 DEF Broker!Become
<1>2. CASE Broker!Fill(o)
  <2> DEFINE st == IF book[o].qty - book[o].filled = 1 THEN "COMPLETE" ELSE book[o].status
  <2>1. /\ book[o].status = "OPEN"
        /\ book' = [book EXCEPT ![o].filled = @ + 1, ![o].status = st]
        /\ net' = net - 1
    BY <1>2, QuantityAssumption DEF Broker!Fill, Broker!Left
  <2>2. /\ book[o].qty \in 0..Quantity /\ book[o].filled \in 0..Quantity
        /\ book[o].filled < book[o].qty
    BY <2>1
  <2>3. st \in {"COMPLETE", "OPEN"} /\ (st = "OPEN" => book[o].filled + 1 < book[o].qty)
    BY <2>1, <2>2, QuantityAssumption
  <2>4. book[o].filled + 1 \in 0..Quantity
    BY <2>2, QuantityAssumption
  <2> HIDE DEF st
  <2>5. /\ book'[o].status = st /\ book'[o].filled = book[o].filled + 1
        /\ book'[o].qty = book[o].qty
        /\ \A p \in Op : p # o => book'[p] = book[p]
    BY <2>1
  <2>6. Broker!TypeOK'
    BY <2>1, <2>3, <2>4, QuantityAssumption
  <2> QED
    BY <2>1, <2>2, <2>3, <2>5, <2>6, QuantityAssumption
<1>3. CASE Broker!Accept(o)
  BY <1>3, <1>1 DEF Broker!Accept
<1>4. CASE Broker!Trigger(o)
  <2>1. book[o].filled < book[o].qty
    BY <1>4 DEF Broker!Trigger
  <2> QED
    BY <1>4, <1>1, <2>1 DEF Broker!Trigger
<1>5. CASE Broker!Lose(o)
  BY <1>5, <1>1 DEF Broker!Lose
<1>6. CASE Broker!Reject(o)
  BY <1>6, <1>1 DEF Broker!Reject
<1>7. CASE Broker!Cancel(o)
  BY <1>7, <1>1 DEF Broker!Cancel
<1> QED
  BY <1>2, <1>3, <1>4, <1>5, <1>6, <1>7

\* What a step of the broker leaves alone.
Advances ==
  \A p \in Op :
    /\ Broker!Ended(p) \/ Broker!Is(p, {"NONE"}) => book'[p] = book[p]
    /\ Broker!Is(p, {"NONE"})' <=> Broker!Is(p, {"NONE"})
    /\ Broker!Accepted(p) => Broker!Accepted(p)'
    /\ book'[p].qty = book[p].qty
    /\ book'[p].filled >= book[p].filled

LEMMA MoveAdvances ==
  ASSUME FullInv, BrokerMove PROVE Advances
<1>1. PICK o \in Op :
        \/ Broker!Accept(o) \/ Broker!Trigger(o) \/ Broker!Fill(o)
        \/ Broker!Lose(o) \/ Broker!Reject(o) \/ Broker!Cancel(o)
  BY DEF BrokerMove, Op
<1>2. TypeOK /\ OrderShape(o)
  BY DEF FullInv, BooksInv
<1>3. \A p \in Op : book[p].filled \in Nat
  BY <1>2, QuantityAssumption DEF TypeOK, Broker!TypeOK, Broker!Entry, Op
<1>4. /\ \A p \in Op : p # o => book'[p] = book[p]
      /\ ~Broker!Ended(o) /\ ~Broker!Is(o, {"NONE"}) /\ ~Broker!Is(o, {"NONE"})'
      /\ Broker!Accepted(o) => Broker!Accepted(o)'
      /\ book'[o].qty = book[o].qty
      /\ book'[o].filled \in {book[o].filled, book[o].filled + 1}
  BY <1>1, <1>2, BrokerEffect
<1>5. \A p \in Op : p # o =>
        /\ Broker!Is(p, {"NONE"})' <=> Broker!Is(p, {"NONE"})
        /\ Broker!Accepted(p) => Broker!Accepted(p)'
  BY <1>4 DEF Broker!Is, Broker!Accepted
<1> QED
  BY <1>3, <1>4, <1>5 DEF Advances

LEMMA BrokerKeepsBooks ==
  ASSUME FullInv, BrokerMove PROVE BooksInv' /\ Broker!TypeOK'
<1>1. PICK o \in Op :
        \/ Broker!Accept(o) \/ Broker!Trigger(o) \/ Broker!Fill(o)
        \/ Broker!Lose(o) \/ Broker!Reject(o) \/ Broker!Cancel(o)
  BY DEF BrokerMove, Op
<1>2. TypeOK /\ OrderShape(o)
  BY DEF FullInv, BooksInv
<1>3. /\ \A p \in Op : p # o => book'[p] = book[p]
      /\ OrderShape(o)' /\ Broker!TypeOK'
  BY <1>1, <1>2, BrokerEffect
<1>4. UNCHANGED <<stops, orders, pnl>>
  BY DEF BrokerMove
<1>5. Advances
  BY MoveAdvances
<1>6. \A p \in Op : OrderShape(p)'
  BY <1>3 DEF OrderShape, Broker!Is, FullInv, BooksInv
<1>7. \A s \in StopOp : StopShape(s)'
  <2>1. TAKE s \in StopOp
  <2>2. s \in Op /\ StopShape(s)
    BY DEF Op, FullInv, BooksInv
  <2>3. Broker!Ended(s) => Broker!Ended(s)'
    BY <1>5, <2>2 DEF Advances, Broker!Ended, Broker!Is
  <2>4. Stop!Requested(s)' <=> Stop!Requested(s)
    BY <1>4 DEF Stop!Requested
  <2> QED
    BY <1>4, <1>5, <2>2, <2>3, <2>4 DEF Advances, StopShape
<1>8. \A x \in ExitOp : ExitShape(x)'
  <2>1. TAKE x \in ExitOp
  <2>2. x \in Op /\ ExitShape(x)
    BY DEF Op, FullInv, BooksInv
  <2>3. Broker!Ended(x) => Broker!Ended(x)'
    BY <1>5, <2>2 DEF Advances, Broker!Ended, Broker!Is
  <2> QED
    BY <1>4, <1>5, <2>2, <2>3 DEF Advances, ExitShape
<1> QED
  BY <1>3, <1>4, <1>6, <1>7, <1>8 DEF BooksInv, Orders!Unresolved, FullInv

LEMMA SavedType ==
  ASSUME TypeOK, BooksInv, file # NoPosition, NEW x \in ExitOp, orders[x].created
  PROVE  Saved(x) \in 0..Quantity
<1>1. file \in Position
  BY DEF TypeOK
<1>2. orders[x].action \in Family
  BY DEF BooksInv, ExitShape
<1>3. file.exit[orders[x].action].filled \in 0..Quantity
  BY <1>1, <1>2 DEF Position, Qty
<1> QED
  BY <1>3, QuantityAssumption DEF Saved

LEMMA BrokerKeepsMoney ==
  ASSUME FullInv, BrokerMove PROVE MoneyInv'
<1>1. PICK o \in Op :
        \/ Broker!Accept(o) \/ Broker!Trigger(o) \/ Broker!Fill(o)
        \/ Broker!Lose(o) \/ Broker!Reject(o) \/ Broker!Cancel(o)
  BY DEF BrokerMove, Op
<1>2. TypeOK /\ OrderShape(o) /\ MoneyInv /\ BooksInv
  BY DEF FullInv, BooksInv
<1>3. /\ \A p \in Op : p # o => book'[p] = book[p]
      /\ ~Broker!Ended(o) /\ ~Broker!Is(o, {"NONE"})
      /\ \/ book'[o].filled = book[o].filled /\ net' = net
         \/ /\ Broker!Is(o, {"OPEN"})
            /\ book'[o].filled = book[o].filled + 1 /\ net' = net - 1
  BY <1>1, <1>2, BrokerEffect
<1>4. UNCHANGED <<stops, orders, pnl, file>>
  BY DEF BrokerMove
<1>k. /\ NoExitYet' <=> NoExitYet
      /\ \A x \in ExitOp : Orders!Unresolved(x)' <=> Orders!Unresolved(x)
      /\ \A x \in ExitOp : Saved(x)' = Saved(x)
      /\ LocalQty(file)' = LocalQty(file)
  BY <1>4 DEF NoExitYet, Orders!Unresolved, Saved, LocalQty
<1>n. /\ \A p \in Op : book[p].filled \in Int /\ book[p].qty \in Int
      /\ net \in Int
  BY <1>2, QuantityAssumption DEF TypeOK, Broker!TypeOK, Broker!Entry, Op
<1>o. o \in StopOp \/ o \in ExitOp
  BY DEF Op
<1>5. CASE o \in StopOp
  <2>1. stops[o].created /\ book[o].qty = Quantity
    BY <1>2, <1>3, <1>5 DEF BooksInv, StopShape
  <2>2. NoExitYet
    BY <1>2, <1>3, <1>5, <2>1 DEF MoneyInv
  <2>3. \A x \in ExitOp : ~Orders!Unresolved(x)
    BY <2>2 DEF NoExitYet, Orders!Unresolved
  <2>4. \A s \in StopOp : stops[s].created => s = o
    BY <1>2, <1>5, <2>1 DEF BooksInv
  <2>5. net' = Quantity - book'[o].filled
    BY <1>2, <1>3, <1>5, <1>n, <2>1, <2>2, QuantityAssumption DEF MoneyInv
  <2> QED
    BY <1>2, <1>4, <1>5, <1>k, <2>1, <2>2, <2>3, <2>4, <2>5 DEF MoneyInv
<1>6. CASE o \in ExitOp
  <2>1. Orders!Unresolved(o) /\ book[o].qty = orders[o].requested /\ ~NoExitYet
    BY <1>2, <1>3, <1>6 DEF BooksInv, ExitShape, Orders!Unresolved, NoExitYet
  <2>2. \A x \in ExitOp : Orders!Unresolved(x) => x = o
    BY <1>2, <1>6, <2>1 DEF BooksInv
  <2>3. \E s \in StopOp : stops[s].created
    BY <1>2, <2>1 DEF MoneyInv
  <2>4. \A s \in StopOp : s \in Op /\ s # o
    BY <1>6, OpAssumption DEF Op
  <2>5. \A s \in StopOp : stops[s].created => Broker!Ended(s)' /\ Applied(s)'
    BY <1>2, <1>3, <1>4, <2>1, <2>4 DEF MoneyInv, Applied, Broker!Ended, Broker!Is
  <2>6. /\ net = orders[o].requested - book[o].filled
        /\ IF file = NoPosition THEN book[o].filled = orders[o].requested
           ELSE Saved(o) <= book[o].filled
    BY <1>2, <1>6, <2>1 DEF MoneyInv
  <2>7. orders[o].requested \in Int
    BY <1>n, <2>1
  <2>8. net' = orders[o].requested - book'[o].filled
    BY <1>3, <1>n, <2>6, <2>7
  <2>9. file = NoPosition => book'[o].filled = orders[o].requested
    <3>1. SUFFICES ASSUME file = NoPosition PROVE ~Broker!Is(o, {"OPEN"})
      BY <1>3, <2>6
    <3> QED
      BY <1>2, <1>n, <2>1, <2>6, <3>1 DEF OrderShape, Broker!Is
  <2>10. file # NoPosition => Saved(o) <= book'[o].filled
    <3>1. file # NoPosition => Saved(o) \in Int
      BY <1>2, <1>6, <2>1, SavedType, QuantityAssumption DEF Orders!Unresolved
    <3> QED
      BY <1>3, <1>n, <2>6, <3>1
  <2>11. \A x \in ExitOp : Orders!Unresolved(x) =>
           /\ net' = orders[x].requested - book'[x].filled
           /\ IF file = NoPosition THEN book'[x].filled = orders[x].requested
              ELSE /\ file.qty = orders[x].requested - Saved(x)
                   /\ Saved(x) <= book'[x].filled
                   /\ \A a \in Family : file.exit[a].filled > 0 =>
                        file.exit[a].op = x /\ orders[x].action = a
    BY <1>2, <1>6, <2>1, <2>2, <2>8, <2>9, <2>10 DEF MoneyInv
  <2>12. \A s \in StopOp : stops[s].created =>
           /\ stops[s].priced /\ LocalQty(file) + stops[s].applied <= Quantity
                => pnl[s] = stops[s].applied
           /\ LocalQty(file) + stops[s].applied <= Quantity
    BY <1>2, <2>1 DEF MoneyInv
  <2> QED
    BY <1>4, <1>6, <1>k, <2>1, <2>3, <2>5, <2>11, <2>12 DEF MoneyInv
<1> QED
  BY <1>5, <1>6, <1>o

\* No clause of the control state looks at what a broker step changes.
LEMMA BrokerKeepsControl ==
  ASSUME FullInv, BrokerMove
  PROVE  CtlInv' /\ CoverInv' /\ FileInv' /\ NamedInv' /\ Mirror'
<1>1. UNCHANGED <<stops, orders, pnl, file, pos, pc, call>>
  BY DEF BrokerMove, bot
<1>2. Advances
  BY MoveAdvances
<1>f. TypeOK /\ BooksInv /\ CtlInv /\ CoverInv /\ FileInv /\ NamedInv /\ Mirror
  BY DEF FullInv
<1>3. \A p \in Op : /\ Broker!Ended(p) => Broker!Ended(p)'
                    /\ Broker!Ended(p) => book'[p] = book[p]
                    /\ Broker!Accepted(p) => Broker!Accepted(p)'
                    /\ Broker!Is(p, {"NONE"}) => Broker!Is(p, {"NONE"})'
                    /\ book'[p].qty = book[p].qty
                    /\ book'[p].filled >= book[p].filled
  BY <1>2 DEF Advances, Broker!Ended, Broker!Is
<1>4. \A s \in StopOp : /\ Settled(s) => Settled(s)'
                        /\ Stop!Unresolved(s)' <=> Stop!Unresolved(s)
  BY <1>1, <1>3 DEF Settled, Applied, Op, Stop!Unresolved
<1>5. /\ \A x \in ExitOp : Orders!Unresolved(x)' <=> Orders!Unresolved(x)
      /\ \A x \in ExitOp : Saved(x)' = Saved(x)
      /\ (NoExitYet' <=> NoExitYet) /\ (Held' <=> Held) /\ (Identified' <=> Identified)
      /\ LocalQty(file)' = LocalQty(file)
  BY <1>1 DEF Orders!Unresolved, Saved, NoExitYet, Held, Identified, LocalQty
<1>6. FileInv' /\ Mirror' /\ NamedInv'
  BY <1>1, <1>4, <1>f DEF FileInv, Mirror, NamedInv
<1>7. CoverInv'
  <2>1. ASSUME NEW p \in Position, p.op # NoOp PROVE p.op \in Op
    BY <2>1 DEF Position, Op
  <2>2. pos \in Position \cup {NoPosition} /\ file \in Position \cup {NoPosition}
    BY <1>f DEF TypeOK
  <2> QED
    BY <1>1, <1>3, <1>f, <2>1, <2>2 DEF CoverInv, Covers
<1>8. AtPlacing'
  <2>1. pc \in Placing \ {"protect"} => call.stop \in Op
    BY <1>f DEF CtlInv, AtPlacing, Op
  <2> QED
    BY <1>1, <1>3, <1>4, <1>f, <2>1 DEF CtlInv, AtPlacing, Placing
<1>9. AtApply'
  <2>1. pc = "apply" => pos.op \in Op
    <3>1. pc = "apply" => Held /\ Identified
      BY <1>f DEF CtlInv, HeldLabels, Labels, Named
    <3> QED
      BY <1>f, <3>1 DEF TypeOK, Held, Identified, Position, Op
  <2> QED
    BY <1>1, <1>3, <1>f, <2>1 DEF CtlInv, AtApply
<1>10. AtWindow'
  BY <1>1, <1>4, <1>5, <1>f DEF CtlInv, AtWindow
<1>11. AtResolve'
  BY <1>1, <1>4, <1>5, <1>f DEF CtlInv, AtResolve
<1>12. AtExit'
  <2>1. pc \in {"clear", "place"} => pos.op \in StopOp
    <3>1. pc \in {"clear", "place"} => Held /\ Identified
      BY <1>f DEF CtlInv, HeldLabels, Labels, Named
    <3> QED
      BY <1>f, <3>1 DEF TypeOK, Held, Identified, Position, Op
  <2>2. pc \in {"submitExit", "attachExit", "verifyExit"} => call.op \in ExitOp
    BY <1>f DEF CtlInv, AtExit
  <2>3. ExitOp \subseteq Op
    BY DEF Op
  <2> QED
    BY <1>1, <1>3, <1>4, <1>5, <1>f, <2>1, <2>2, <2>3 DEF CtlInv, AtExit
<1>13. AtResult'
  <2>1. pc \in {"result", "saveExit"} /\ call.op # NoOp => call.op \in ExitOp
    BY <1>f DEF TypeOK, Call
  <2>2. pc = "finalize" => call.op \in ExitOp
    BY <1>f DEF CtlInv, AtResult
  <2>3. /\ call.obs.filled \in Int
        /\ \A p \in Op : book[p].filled \in Int /\ book'[p].filled \in Int
    BY <1>f, BrokerKeepsBooks, QuantityAssumption
    DEF TypeOK, Call, Answer, Qty, Broker!TypeOK, Broker!Entry, Op
  <2>4. ExitOp \subseteq Op
    BY DEF Op
  <2>5. \A x \in ExitOp : call.obs.filled <= book[x].filled => call.obs.filled <= book'[x].filled
    BY <1>3, <2>3, <2>4
  <2>6. (pc \in {"result", "saveExit"})' =>
      /\ call.fill \in 0..pos.qty
      /\ call.op = NoOp => call.fill = 0 /\ pc = "result"
      /\ call.op # NoOp =>
           /\ Orders!Unresolved(call.op)'
           /\ orders[call.op].action = call.action
           /\ call.fill = call.obs.filled - Saved(call.op)
           /\ call.obs.filled <= book'[call.op].filled
           /\ call.obs.state = "DONE" =>
                Broker!Ended(call.op)' /\ call.obs.filled = book'[call.op].filled
      /\ pc = "saveExit" => call.fill > 0
    BY <1>1, <1>3, <1>5, <1>f, <2>1, <2>4, <2>5 DEF CtlInv, AtResult
  <2>7. (pc = "finalize")' =>
      /\ call.op \in ExitOp /\ Orders!Unresolved(call.op)' /\ Broker!Ended(call.op)'
      /\ file # NoPosition => Saved(call.op) = book'[call.op].filled
    BY <1>1, <1>3, <1>5, <1>f, <2>2, <2>4 DEF CtlInv, AtResult
  <2>8. (call.op \in ExitOp => Saved(call.op)' = Saved(call.op)) /\ UNCHANGED <<pos, call, pc, orders, file>>
    BY <1>1, <1>5
  <2> QED
    BY <2>1, <2>2, <2>6, <2>7, <2>8 DEF AtResult
<1> QED
  BY <1>1, <1>5, <1>6, <1>7, <1>8, <1>9, <1>10, <1>11, <1>12, <1>13, <1>f DEF CtlInv

----------------------------------------------------------------------------

\* Of a stop, what the invariant reads.
SameStop(t) ==
  /\ stops'[t].created <=> stops[t].created
  /\ stops'[t].requested = stops[t].requested
  /\ stops'[t].orderId = stops[t].orderId
  /\ stops'[t].applied = stops[t].applied
  /\ stops'[t].priced <=> stops[t].priced
  /\ stops'[t].resolved <=> stops[t].resolved

StopsAlike ==
  \A t \in StopOp : SameStop(t) /\ (Stop!Requested(t)' => (stops'[t].reason = "FULL"))

LEMMA AttachedStop ==
  ASSUME TypeOK, NEW s \in StopOp, Stop!AttachOrderId(s, s)
  PROVE  /\ Stop!TypeOK'
         /\ stops[s].orderId \in {NoOp, s}
         /\ \A t \in StopOp : t # s => stops'[t] = stops[t]
         /\ stops'[s].orderId = s
         /\ stops'[s].created <=> stops[s].created
         /\ stops'[s].requested = stops[s].requested
         /\ stops'[s].applied = stops[s].applied
         /\ stops'[s].priced <=> stops[s].priced
         /\ stops'[s].resolved <=> stops[s].resolved
         /\ Stop!Requested(s)' <=> Stop!Requested(s)
         /\ stops'[s].reason = stops[s].reason
BY DEF TypeOK, Stop!TypeOK, Stop!StopRecord, Stop!AttachOrderId, Stop!Requested

LEMMA VerifiedStop ==
  ASSUME TypeOK, BooksInv, NEW s \in StopOp, NEW f \in Qty, Stop!UpdateVerification(s, f)
  PROVE  Stop!TypeOK' /\ StopsAlike /\ f >= stops[s].applied
<1>1. Stop!TypeOK /\ \A t \in StopOp : Stop!Requested(t) => stops[t].reason = "FULL"
  BY DEF TypeOK, BooksInv, StopShape
<1>2. stops' = [stops EXCEPT ![s].filled = f] /\ f >= stops[s].applied
  BY DEF Stop!UpdateVerification, Stop!CanRecordFill
<1>3. Stop!TypeOK'
  BY <1>1, <1>2 DEF Stop!TypeOK, Stop!StopRecord, Stop!Qty, Qty
<1> QED
  BY <1>1, <1>2, <1>3 DEF Stop!TypeOK, Stop!StopRecord, Stop!Requested, StopsAlike, SameStop

LEMMA ReservedStop ==
  ASSUME TypeOK, BooksInv, NEW s \in StopOp, Stop!ReserveCancel(s)
  PROVE  Stop!TypeOK' /\ StopsAlike
<1>1. Stop!TypeOK /\ \A t \in StopOp : Stop!Requested(t) => stops[t].reason = "FULL"
  BY DEF TypeOK, BooksInv, StopShape
<1> DEFINE r == [stops[s] EXCEPT !.cancelTried = TRUE]
<1>2. DOMAIN stops = StopOp /\ stops[s] \in Stop!StopRecord
  BY <1>1 DEF Stop!TypeOK
<1>3. stops' = [stops EXCEPT ![s] = r]
  BY <1>2 DEF Stop!ReserveCancel
<1>4. r \in Stop!StopRecord
  BY <1>2 DEF Stop!StopRecord
<1>5. /\ r.created = stops[s].created /\ r.requested = stops[s].requested
      /\ r.orderId = stops[s].orderId /\ r.applied = stops[s].applied
      /\ r.priced = stops[s].priced /\ r.resolved = stops[s].resolved
      /\ r.action = stops[s].action /\ r.reason = stops[s].reason
  BY <1>2 DEF Stop!StopRecord
<1> HIDE DEF r
<1>6. stops'[s] = r /\ \A t \in StopOp : t # s => stops'[t] = stops[t]
  BY <1>2, <1>3
<1>7. Stop!TypeOK'
  BY <1>1, <1>3, <1>4 DEF Stop!TypeOK
<1> QED
  BY <1>1, <1>5, <1>6, <1>7 DEF Stop!Requested, StopsAlike, SameStop

LEMMA CoordinatedStop ==
  ASSUME TypeOK, BooksInv, NEW s \in StopOp, NEW a \in Family, NEW q \in Qty,
         Stop!RequestCoordination(s, a, "FULL", q)
  PROVE  Stop!TypeOK' /\ StopsAlike
<1>1. Stop!TypeOK /\ \A t \in StopOp : Stop!Requested(t) => stops[t].reason = "FULL"
  BY DEF TypeOK, BooksInv, StopShape
<1> DEFINE act == IF ~Stop!Requested(s) \/ a = "FORCE_EXIT" THEN a ELSE stops[s].action
           rsn == IF ~Stop!Requested(s) \/ a = "FORCE_EXIT" THEN "FULL" ELSE stops[s].reason
<1>2. stops' = [stops EXCEPT ![s].action = act, ![s].reason = rsn, ![s].exitQty = q]
  BY DEF Stop!RequestCoordination
<1>3. act \in Stop!Action /\ rsn = "FULL"
  BY <1>1 DEF Stop!TypeOK, Stop!StopRecord, Stop!Action, Family
<1> HIDE DEF act, rsn
<1> DEFINE r == [stops[s] EXCEPT !.action = act, !.reason = rsn, !.exitQty = q]
<1>5. DOMAIN stops = StopOp /\ stops[s] \in Stop!StopRecord
  BY <1>1 DEF Stop!TypeOK
<1>r. r \in Stop!StopRecord /\ r.reason = "FULL"
  BY <1>3, <1>5 DEF Stop!StopRecord, Stop!Qty, Qty, Reasons
<1>c. /\ r.created = stops[s].created /\ r.requested = stops[s].requested
      /\ r.orderId = stops[s].orderId /\ r.applied = stops[s].applied
      /\ r.priced = stops[s].priced /\ r.resolved = stops[s].resolved
  BY <1>5 DEF Stop!StopRecord
<1>e. stops' = [stops EXCEPT ![s] = r]
  BY <1>2, <1>5
<1> HIDE DEF r
<1>6. stops'[s] = r /\ \A t \in StopOp : t # s => stops'[t] = stops[t]
  BY <1>5, <1>e
<1>4. Stop!TypeOK'
  BY <1>1, <1>e, <1>r DEF Stop!TypeOK
<1>7. SameStop(s) /\ stops'[s].reason = "FULL"
  BY <1>6, <1>c, <1>r DEF SameStop
<1>8. \A t \in StopOp : t # s =>
        SameStop(t) /\ (Stop!Requested(t)' => stops'[t].reason = "FULL")
  BY <1>1, <1>6 DEF SameStop, Stop!Requested
<1> QED
  BY <1>4, <1>7, <1>8 DEF StopsAlike

LEMMA AppliedStop ==
  ASSUME TypeOK, NEW s \in StopOp, NEW n \in Qty, NEW p \in BOOLEAN,
         Stop!MarkFillApplied(s, n, p)
  PROVE  /\ Stop!TypeOK'
         /\ \A t \in StopOp : t # s => stops'[t] = stops[t]
         /\ stops'[s].applied = n
         /\ stops'[s].priced <=> p
         /\ stops'[s].created <=> stops[s].created
         /\ stops'[s].orderId = stops[s].orderId
         /\ stops'[s].requested = stops[s].requested
         /\ stops'[s].resolved <=> stops[s].resolved
         /\ Stop!Requested(s)' <=> Stop!Requested(s)
         /\ stops'[s].reason = stops[s].reason
<1> DEFINE r == [stops[s] EXCEPT !.applied = n, !.priced = p]
<1>2. DOMAIN stops = StopOp /\ stops[s] \in Stop!StopRecord
  BY DEF TypeOK, Stop!TypeOK
<1>3. stops' = [stops EXCEPT ![s] = r]
  BY <1>2 DEF Stop!MarkFillApplied
<1>4. r \in Stop!StopRecord
  BY <1>2 DEF Stop!StopRecord, Stop!Qty, Qty
<1>5. /\ r.created = stops[s].created /\ r.requested = stops[s].requested
      /\ r.orderId = stops[s].orderId /\ r.applied = n /\ r.priced = p
      /\ r.resolved = stops[s].resolved
      /\ r.action = stops[s].action /\ r.reason = stops[s].reason
  BY <1>2 DEF Stop!StopRecord
<1> HIDE DEF r
<1>6. stops'[s] = r /\ \A t \in StopOp : t # s => stops'[t] = stops[t]
  BY <1>2, <1>3
<1>7. Stop!TypeOK'
  BY <1>3, <1>4 DEF TypeOK, Stop!TypeOK
<1> QED
  BY <1>5, <1>6, <1>7 DEF Stop!Requested

LEMMA ResolvedStop ==
  ASSUME TypeOK, NEW s \in StopOp, Stop!MarkResolved(s)
  PROVE  /\ Stop!TypeOK'
         /\ \A t \in StopOp : t # s => stops'[t] = stops[t]
         /\ stops[s].created /\ stops'[s].created
         /\ stops'[s].applied = stops[s].applied
         /\ stops'[s].priced <=> stops[s].priced
         /\ stops'[s].orderId = stops[s].orderId
         /\ stops'[s].requested = stops[s].requested
         /\ stops'[s].resolved
         /\ Stop!Requested(s)' <=> Stop!Requested(s)
         /\ stops'[s].reason = stops[s].reason
<1> DEFINE r == [stops[s] EXCEPT !.resolved = TRUE]
<1>2. DOMAIN stops = StopOp /\ stops[s] \in Stop!StopRecord
  BY DEF TypeOK, Stop!TypeOK
<1>3. stops' = [stops EXCEPT ![s] = r] /\ stops[s].created
  BY <1>2 DEF Stop!MarkResolved
<1>4. r \in Stop!StopRecord
  BY <1>2 DEF Stop!StopRecord
<1>5. /\ r.created = stops[s].created /\ r.requested = stops[s].requested
      /\ r.orderId = stops[s].orderId /\ r.applied = stops[s].applied
      /\ r.priced = stops[s].priced /\ r.resolved
      /\ r.action = stops[s].action /\ r.reason = stops[s].reason
  BY <1>2 DEF Stop!StopRecord
<1> HIDE DEF r
<1>6. stops'[s] = r /\ \A t \in StopOp : t # s => stops'[t] = stops[t]
  BY <1>2, <1>3
<1>7. Stop!TypeOK'
  BY <1>3, <1>4 DEF TypeOK, Stop!TypeOK
<1> QED
  BY <1>3, <1>5, <1>6, <1>7 DEF Stop!Requested

LEMMA CreatedStop ==
  ASSUME TypeOK, NEW s \in StopOp, NEW q \in Qty, Stop!CreateIntent(s, Symbol, q)
  PROVE  /\ Stop!TypeOK'
         /\ \A t \in StopOp : t # s => stops'[t] = stops[t]
         /\ ~stops[s].created /\ stops'[s].created
         /\ q > 0
         /\ stops'[s].applied = 0
         /\ stops'[s].priced <=> FALSE
         /\ stops'[s].orderId = NoOp
         /\ stops'[s].requested = q
         /\ stops'[s].resolved <=> FALSE
         /\ ~Stop!Requested(s)'
<1>1. Stop!TypeOK
  BY DEF TypeOK
<1> DEFINE r == CHOOSE r \in Reasons : TRUE
<1>2. r \in Reasons
  BY DEF Reasons
<1> HIDE DEF r
<1>3. Stop!Blank = [ created |-> FALSE, instrument |-> Symbol,
           orderId |-> NoOp, requested |-> 0, filled |-> 0, applied |-> 0,
           priced |-> FALSE, resolved |-> FALSE, action |-> "NONE",
           reason |-> r, exitQty |-> 0, cancelTried |-> FALSE ]
  BY DEF Stop!Blank, r
<1> DEFINE n == [Stop!Blank EXCEPT !.created = TRUE, !.instrument = Symbol,
                                     !.requested = q]
<1>b. Stop!Blank \in Stop!StopRecord
  BY <1>2, <1>3, QuantityAssumption DEF Stop!StopRecord, Stop!Qty, Stop!Action
<1>c. n \in Stop!StopRecord
  BY <1>b DEF Stop!StopRecord, Stop!Qty, Qty
<1>d. /\ n.created /\ n.applied = 0 /\ (n.priced <=> FALSE) /\ n.orderId = NoOp
      /\ n.requested = q /\ (n.resolved <=> FALSE) /\ n.action = "NONE"
  BY <1>3
<1>4. stops' = [stops EXCEPT ![s] = n] /\ ~stops[s].created /\ q > 0
  BY DEF Stop!CreateIntent
<1> HIDE DEF n
<1>5. Stop!TypeOK'
  BY <1>1, <1>4, <1>c DEF Stop!TypeOK
<1>6. DOMAIN stops = StopOp
  BY <1>1 DEF Stop!TypeOK
<1>7. stops'[s] = n /\ \A t \in StopOp : t # s => stops'[t] = stops[t]
  BY <1>4, <1>6
<1> QED
  BY <1>4, <1>5, <1>7, <1>d DEF Stop!Requested

\* The same for the operations of the order store.
SameExit(y) ==
  /\ orders'[y].created <=> orders[y].created
  /\ orders'[y].requested = orders[y].requested
  /\ orders'[y].action = orders[y].action
  /\ orders'[y].orderId = orders[y].orderId
  /\ orders'[y].resolved <=> orders[y].resolved

LEMMA VerifiedExit ==
  ASSUME TypeOK, NEW x \in ExitOp, NEW f \in Qty, NEW p \in BOOLEAN, NEW t \in BOOLEAN,
         Orders!UpdateVerification(x, f, p, t)
  PROVE  Orders!TypeOK' /\ \A y \in ExitOp : SameExit(y)
<1>1. Orders!TypeOK
  BY DEF TypeOK
<1> DEFINE r == [orders[x] EXCEPT !.filled = f, !.priced = p, !.terminal = t]
<1>2. DOMAIN orders = ExitOp /\ orders[x] \in Orders!OrderRecord
  BY <1>1 DEF Orders!TypeOK
<1>3. orders' = [orders EXCEPT ![x] = r]
  BY <1>2 DEF Orders!UpdateVerification
<1>4. r \in Orders!OrderRecord
  BY <1>2 DEF Orders!OrderRecord, Orders!Qty, Qty
<1>5. /\ r.created = orders[x].created /\ r.requested = orders[x].requested
      /\ r.action = orders[x].action /\ r.orderId = orders[x].orderId
      /\ r.resolved = orders[x].resolved
  BY <1>2 DEF Orders!OrderRecord
<1> HIDE DEF r
<1>6. orders'[x] = r /\ \A y \in ExitOp : y # x => orders'[y] = orders[y]
  BY <1>2, <1>3
<1>7. Orders!TypeOK'
  BY <1>1, <1>3, <1>4 DEF Orders!TypeOK
<1> QED
  BY <1>5, <1>6, <1>7 DEF SameExit

LEMMA AttachedExit ==
  ASSUME TypeOK, NEW x \in ExitOp, Orders!AttachOrderId(x, x)
  PROVE  /\ Orders!TypeOK'
         /\ \A y \in ExitOp : y # x => orders'[y] = orders[y]
         /\ orders'[x].orderId = x
         /\ orders'[x].created <=> orders[x].created
         /\ orders'[x].requested = orders[x].requested
         /\ orders'[x].action = orders[x].action
         /\ orders'[x].resolved <=> orders[x].resolved
BY DEF TypeOK, Orders!TypeOK, Orders!OrderRecord, Orders!AttachOrderId

LEMMA ResolvedExit ==
  ASSUME TypeOK, NEW x \in ExitOp, Orders!MarkResolved(x)
  PROVE  /\ Orders!TypeOK'
         /\ \A y \in ExitOp : y # x => orders'[y] = orders[y]
         /\ orders'[x].orderId = orders[x].orderId
         /\ orders'[x].created <=> orders[x].created
         /\ orders'[x].requested = orders[x].requested
         /\ orders'[x].action = orders[x].action
         /\ orders'[x].resolved
<1> DEFINE r == [orders[x] EXCEPT !.resolved = TRUE]
<1>2. DOMAIN orders = ExitOp /\ orders[x] \in Orders!OrderRecord
  BY DEF TypeOK, Orders!TypeOK
<1>3. orders' = [orders EXCEPT ![x] = r]
  BY <1>2 DEF Orders!MarkResolved
<1>4. r \in Orders!OrderRecord
  BY <1>2 DEF Orders!OrderRecord
<1>5. /\ r.created = orders[x].created /\ r.requested = orders[x].requested
      /\ r.action = orders[x].action /\ r.orderId = orders[x].orderId
      /\ r.resolved
  BY <1>2 DEF Orders!OrderRecord
<1> HIDE DEF r
<1>6. orders'[x] = r /\ \A y \in ExitOp : y # x => orders'[y] = orders[y]
  BY <1>2, <1>3
<1>7. Orders!TypeOK'
  BY <1>3, <1>4 DEF TypeOK, Orders!TypeOK
<1> QED
  BY <1>5, <1>6, <1>7

LEMMA CreatedExit ==
  ASSUME TypeOK, NEW x \in ExitOp, NEW a \in Family, NEW q \in Qty,
         Orders!CreateIntent(x, Symbol, a, q)
  PROVE  /\ Orders!TypeOK'
         /\ \A y \in ExitOp : y # x => orders'[y] = orders[y]
         /\ ~orders[x].created /\ orders'[x].created
         /\ q > 0
         /\ orders'[x].orderId = NoOp
         /\ orders'[x].requested = q
         /\ orders'[x].action = a
         /\ orders'[x].resolved <=> FALSE
         /\ ~Orders!HasUnresolved(Symbol, a)
<1>1. Orders!TypeOK
  BY DEF TypeOK
<1>3. Orders!Blank = [ created |-> FALSE, instrument |-> Symbol,
           action |-> "EXIT", orderId |-> NoOp, requested |-> 0,
           filled |-> 0, priced |-> FALSE, terminal |-> FALSE, applied |-> 0,
           resolved |-> FALSE ]
  BY DEF Orders!Blank
<1> DEFINE n == [Orders!Blank EXCEPT !.created = TRUE, !.instrument = Symbol,
                                       !.action = a, !.requested = q]
<1>b. Orders!Blank \in Orders!OrderRecord
  BY <1>3, QuantityAssumption DEF Orders!OrderRecord, Orders!Qty, Orders!Action
<1>c. n \in Orders!OrderRecord
  BY <1>b DEF Orders!OrderRecord, Orders!Qty, Qty, Orders!Action, Family
<1>d. /\ n.created /\ n.orderId = NoOp /\ n.requested = q /\ n.action = a
      /\ (n.resolved <=> FALSE)
  BY <1>3
<1>4. /\ orders' = [orders EXCEPT ![x] = n] /\ ~orders[x].created /\ q > 0
      /\ ~Orders!HasUnresolved(Symbol, a)
  BY DEF Orders!CreateIntent
<1> HIDE DEF n
<1>5. Orders!TypeOK'
  BY <1>1, <1>4, <1>c DEF Orders!TypeOK
<1>6. DOMAIN orders = ExitOp
  BY <1>1 DEF Orders!TypeOK
<1>7. orders'[x] = n /\ \A y \in ExitOp : y # x => orders'[y] = orders[y]
  BY <1>4, <1>6
<1> QED
  BY <1>4, <1>5, <1>7, <1>d

----------------------------------------------------------------------------

\* A step that changes nothing the books, the file or the ledger say.
Alike ==
  /\ StopsAlike
  /\ \A y \in ExitOp : SameExit(y)
  /\ UNCHANGED <<book, net, pnl, file>>

LEMMA StoppedStill ==
  ASSUME BooksInv, UNCHANGED stops PROVE StopsAlike
BY DEF BooksInv, StopShape, StopsAlike, SameStop, Stop!Requested

LEMMA ExitsStill ==
  ASSUME UNCHANGED orders PROVE \A y \in ExitOp : SameExit(y)
BY DEF SameExit

LEMMA AlikeReads ==
  ASSUME FullInv, StopsAlike, \A y \in ExitOp : SameExit(y), UNCHANGED book
  PROVE  /\ \A s \in StopOp : (Stop!Unresolved(s)' <=> Stop!Unresolved(s))
                              /\ (Settled(s)' <=> Settled(s))
         /\ \A x \in ExitOp : Orders!Unresolved(x)' <=> Orders!Unresolved(x)
         /\ NoExitYet' <=> NoExitYet
         /\ file' = file => \A x \in ExitOp : Saved(x)' = Saved(x)
         /\ \A s \in StopOp : SameStop(s)
<1>1. \A s \in StopOp : SameStop(s)
  BY DEF StopsAlike
<1>2. \A s \in StopOp : Applied(s)' <=> Applied(s)
  BY <1>1 DEF Applied, SameStop
<1>3. \A s \in StopOp : (Stop!Unresolved(s)' <=> Stop!Unresolved(s))
                       /\ (Settled(s)' <=> Settled(s))
  BY <1>1, <1>2 DEF SameStop, Stop!Unresolved, Settled, Broker!Ended, Broker!Is
<1> QED
  BY <1>1, <1>3 DEF SameExit, Orders!Unresolved, NoExitYet, Saved

LEMMA AlikeKeepsBooks ==
  ASSUME FullInv, StopsAlike, \A y \in ExitOp : SameExit(y), UNCHANGED book,
         \A s \in StopOp : pnl'[s] = pnl[s]
  PROVE  BooksInv'
<1>f. BooksInv
  BY DEF FullInv
<1>1. \A o \in Op : OrderShape(o)'
  BY <1>f DEF BooksInv, OrderShape, Broker!Is
<1>2. \A s \in StopOp : StopShape(s)'
  <2>1. TAKE s \in StopOp
  <2>2. StopShape(s) /\ SameStop(s) /\ (Stop!Requested(s)' => stops'[s].reason = "FULL")
    BY <1>f DEF BooksInv, StopsAlike
  <2>3. UNCHANGED book /\ pnl'[s] = pnl[s]
    OBVIOUS
  <2> QED
    BY <2>2, <2>3 DEF StopShape, SameStop, Broker!Is, Broker!Ended, Broker!Accepted
<1>3. \A x \in ExitOp : ExitShape(x)'
  BY <1>f DEF BooksInv, ExitShape, SameExit, Broker!Is, Broker!Ended, Broker!Accepted
<1>4. \A s, t \in StopOp : stops'[s].created /\ stops'[t].created => s = t
  BY <1>f DEF BooksInv, StopsAlike, SameStop
<1>5. \A x, y \in ExitOp : Orders!Unresolved(x)' /\ Orders!Unresolved(y)' => x = y
  BY <1>f DEF BooksInv, SameExit, Orders!Unresolved
<1> QED
  BY <1>1, <1>2, <1>3, <1>4, <1>5 DEF BooksInv

\* Of the two stores, what the money reads.
StillStop(t) ==
  /\ stops'[t].created <=> stops[t].created
  /\ stops'[t].applied = stops[t].applied
  /\ stops'[t].priced <=> stops[t].priced
  /\ stops'[t].resolved <=> stops[t].resolved

StillExit(x) ==
  /\ orders'[x].created <=> orders[x].created
  /\ orders'[x].requested = orders[x].requested
  /\ orders'[x].action = orders[x].action
  /\ orders'[x].resolved <=> orders[x].resolved

LEMMA MoneyStill ==
  ASSUME FullInv, \A s \in StopOp : StillStop(s), \A x \in ExitOp : StillExit(x),
         UNCHANGED <<net, file>>, \A s \in StopOp : pnl'[s] = pnl[s],
         \A o \in Op : book'[o].filled = book[o].filled
                      /\ (Broker!Ended(o)' <=> Broker!Ended(o))
  PROVE  MoneyInv' /\ FileInv' /\ NamedInv'
<1>f. TypeOK /\ MoneyInv /\ FileInv /\ NamedInv
  BY DEF FullInv
<1>0. UNCHANGED <<net, file>>
  OBVIOUS
<1>o. StopOp \subseteq Op /\ ExitOp \subseteq Op
  BY DEF Op
<1>2. /\ \A s \in StopOp : (Stop!Unresolved(s)' <=> Stop!Unresolved(s))
      /\ \A x \in ExitOp : Orders!Unresolved(x)' <=> Orders!Unresolved(x)
      /\ NoExitYet' <=> NoExitYet
      /\ \A x \in ExitOp : Saved(x)' = Saved(x)
  BY DEF StillStop, StillExit, Stop!Unresolved, Orders!Unresolved, NoExitYet, Saved
<1>3. LocalQty(file)' = LocalQty(file)
  BY <1>0 DEF LocalQty
<1>4. \A s \in StopOp : (Broker!Ended(s)' <=> Broker!Ended(s)) /\ (Applied(s)' <=> Applied(s))
  BY <1>o DEF Applied, StillStop
<1>5. MoneyInv'
  <2>1. (\A s \in StopOp : ~stops'[s].created) =>
          NoExitYet' /\ net' = Quantity /\ LocalQty(file)' = Quantity
    BY <1>f, <1>0, <1>2, <1>3 DEF MoneyInv, StillStop
  <2>2. ASSUME NEW s \in StopOp, stops'[s].created
        PROVE  /\ stops'[s].priced /\ LocalQty(file)' + stops'[s].applied <= Quantity
                    => pnl'[s] = stops'[s].applied
               /\ NoExitYet' =>
                    /\ net' = Quantity - book'[s].filled
                    /\ LocalQty(file)' + stops'[s].applied >= Quantity
                    /\ stops'[s].resolved => LocalQty(file)' + stops'[s].applied = Quantity
               /\ ~NoExitYet' =>
                    /\ Broker!Ended(s)' /\ Applied(s)'
                    /\ LocalQty(file)' + stops'[s].applied <= Quantity
    <3>1. /\ StillStop(s) /\ stops[s].created /\ book'[s].filled = book[s].filled
          /\ pnl'[s] = pnl[s]
      BY <1>o, <2>2 DEF StillStop
    <3> QED
      BY <1>f, <1>0, <1>2, <1>3, <1>4, <3>1 DEF MoneyInv, StillStop
  <2>3. ASSUME NEW x \in ExitOp, Orders!Unresolved(x)'
        PROVE  /\ net' = orders'[x].requested - book'[x].filled
               /\ IF file' = NoPosition THEN book'[x].filled = orders'[x].requested
                  ELSE /\ file'.qty = orders'[x].requested - Saved(x)'
                       /\ Saved(x)' <= book'[x].filled
                       /\ \A a \in Family : file'.exit[a].filled > 0 =>
                            file'.exit[a].op = x /\ orders'[x].action = a
    <3>1. StillExit(x) /\ Orders!Unresolved(x) /\ book'[x].filled = book[x].filled
          /\ Saved(x)' = Saved(x)
      BY <1>o, <1>2, <2>3
    <3> QED
      BY <1>f, <1>0, <3>1 DEF MoneyInv, StillExit
  <2>4. ~NoExitYet' /\ (\A x \in ExitOp : ~Orders!Unresolved(x)') => LocalQty(file)' = net'
    BY <1>f, <1>0, <1>2, <1>3 DEF MoneyInv
  <2> QED
    BY <2>1, <2>2, <2>3, <2>4 DEF MoneyInv
<1>6. FileInv'
  <2>1. file = NoPosition \/ file \in Position
    BY <1>f DEF TypeOK
  <2>2. file # NoPosition /\ file.op # NoOp => file.op \in StopOp
    BY <2>1 DEF Position
  <2>3. ASSUME file # NoPosition, NEW a \in Family, file.exit[a].op # NoOp
        PROVE  file.exit[a].op \in ExitOp
    BY <2>1, <2>3 DEF Position
  <2>4. file # NoPosition /\ file.op # NoOp => stops'[file.op].created
    BY <1>f, <2>2 DEF FileInv, StillStop
  <2>5. ASSUME file # NoPosition, NEW a \in Family, file.exit[a].op # NoOp
        PROVE  orders'[file.exit[a].op].created
    BY <1>f, <2>3, <2>5 DEF FileInv, StillExit
  <2>6. ASSUME file # NoPosition, NEW a \in Family, file.exit[a].filled > 0,
               NEW s \in StopOp, stops'[s].created
        PROVE  file.qty + stops'[s].applied < Quantity
    BY <1>f, <2>6 DEF FileInv, StillStop
  <2> QED
    BY <1>f, <1>0, <2>4, <2>5, <2>6 DEF FileInv
<1>7. NamedInv'
  BY <1>f, <1>0, <1>2 DEF NamedInv, StillStop
<1> QED
  BY <1>5, <1>6, <1>7

LEMMA AlikeKeepsMoney ==
  ASSUME FullInv, Alike
  PROVE  MoneyInv' /\ FileInv' /\ NamedInv'
<1>1. UNCHANGED <<book, net, pnl, file>>
  BY DEF Alike
<1>2. (\A s \in StopOp : StillStop(s)) /\ \A x \in ExitOp : StillExit(x)
  BY DEF Alike, StopsAlike, SameStop, SameExit, StillStop, StillExit
<1>3. \A o \in Op : book'[o].filled = book[o].filled
                   /\ (Broker!Ended(o)' <=> Broker!Ended(o))
  BY <1>1 DEF Broker!Ended, Broker!Is
<1> QED
  BY <1>1, <1>2, <1>3, MoneyStill

\* A save that changes flags, or names a stop the store has.
FlagSave ==
  /\ Held /\ pc # "down"
  /\ UNCHANGED <<stops, orders, book, net, pnl>>
  /\ pos' = file' /\ file' \in Position
  /\ file'.qty = pos.qty /\ file'.exit = pos.exit /\ file'.stage = pos.stage
  /\ file'.reason # "SCALP"
  /\ file'.op = pos.op \/ (file'.op \in StopOp /\ stops[file'.op].created)

LEMMA FlagSaveKeeps ==
  ASSUME FullInv, FlagSave
  PROVE  /\ BooksInv' /\ MoneyInv' /\ FileInv' /\ NamedInv' /\ Mirror'
         /\ {pos, file}' \subseteq Position \cup {NoPosition}
         /\ Held'
         /\ \A x \in ExitOp : Saved(x)' = Saved(x)
         /\ LocalQty(file)' = LocalQty(file)
         /\ file'.exit = file.exit
<1>f. TypeOK /\ BooksInv /\ MoneyInv /\ FileInv /\ NamedInv /\ Mirror
  BY DEF FullInv
<1>0. UNCHANGED <<stops, orders, book, net, pnl>> /\ pos' = file' /\ file' \in Position
  BY DEF FlagSave
<1>1. file # NoPosition /\ file' # NoPosition
  BY <1>f, NoPositionAssumption DEF FlagSave, Mirror, Held
<1>2. file \in Position /\ pos = [file EXCEPT !.blocked = pos.blocked]
  BY <1>f, <1>1 DEF TypeOK, Mirror, FlagSave
<1>3. pos.qty = file.qty /\ pos.exit = file.exit /\ pos.stage = file.stage /\ pos.op = file.op
  BY <1>2 DEF Position
<1>4. /\ file'.qty = file.qty /\ file'.exit = file.exit /\ file'.stage = file.stage
      /\ file'.reason # "SCALP"
      /\ file'.op = file.op \/ (file'.op \in StopOp /\ stops[file'.op].created)
  BY <1>3 DEF FlagSave
<1>5. BooksInv'
  BY <1>f, <1>0, StoppedStill, ExitsStill, AlikeKeepsBooks
<1>6. /\ \A s \in StopOp : (Stop!Unresolved(s)' <=> Stop!Unresolved(s))
      /\ \A x \in ExitOp : (Orders!Unresolved(x)' <=> Orders!Unresolved(x))
      /\ NoExitYet' <=> NoExitYet
      /\ \A s \in StopOp : (Broker!Ended(s)' <=> Broker!Ended(s)) /\ (Applied(s)' <=> Applied(s))
  BY <1>0 DEF Stop!Unresolved, Orders!Unresolved, NoExitYet, Applied, Broker!Ended, Broker!Is
<1>7. \A x \in ExitOp : Saved(x)' = Saved(x)
  BY <1>0, <1>4 DEF Saved
<1>8. LocalQty(file)' = LocalQty(file)
  BY <1>1, <1>4 DEF LocalQty
<1>9. MoneyInv'
  <2>1. ASSUME NEW x \in ExitOp, Orders!Unresolved(x)'
        PROVE  /\ net' = orders'[x].requested - book'[x].filled
               /\ IF file' = NoPosition THEN book'[x].filled = orders'[x].requested
                  ELSE /\ file'.qty = orders'[x].requested - Saved(x)'
                       /\ Saved(x)' <= book'[x].filled
                       /\ \A a \in Family : file'.exit[a].filled > 0 =>
                            file'.exit[a].op = x /\ orders'[x].action = a
    BY <1>f, <1>0, <1>1, <1>4, <1>6, <1>7, <2>1 DEF MoneyInv
  <2>2. ASSUME NEW s \in StopOp, stops'[s].created
        PROVE  /\ stops'[s].priced /\ LocalQty(file)' + stops'[s].applied <= Quantity
                    => pnl'[s] = stops'[s].applied
               /\ NoExitYet' =>
                    /\ net' = Quantity - book'[s].filled
                    /\ LocalQty(file)' + stops'[s].applied >= Quantity
                    /\ stops'[s].resolved => LocalQty(file)' + stops'[s].applied = Quantity
               /\ ~NoExitYet' =>
                    /\ Broker!Ended(s)' /\ Applied(s)'
                    /\ LocalQty(file)' + stops'[s].applied <= Quantity
    BY <1>f, <1>0, <1>6, <1>8, <2>2 DEF MoneyInv
  <2>3. (\A s \in StopOp : ~stops'[s].created) =>
          NoExitYet' /\ net' = Quantity /\ LocalQty(file)' = Quantity
    BY <1>f, <1>0, <1>6, <1>8 DEF MoneyInv
  <2>4. ~NoExitYet' /\ (\A x \in ExitOp : ~Orders!Unresolved(x)') => LocalQty(file)' = net'
    BY <1>f, <1>0, <1>6, <1>8 DEF MoneyInv
  <2> QED
    BY <2>1, <2>2, <2>3, <2>4 DEF MoneyInv
<1>10. FileInv'
  BY <1>f, <1>0, <1>1, <1>4 DEF FileInv
<1>11. NamedInv'
  BY <1>f, <1>0, <1>1, <1>4, <1>6 DEF NamedInv, BooksInv
<1>12. Mirror'
  <2>1. pos' = [file' EXCEPT !.blocked = pos'.blocked]
    BY <1>0 DEF Position
  <2> QED
    BY <1>0, <1>1, <2>1 DEF Mirror
<1> QED
  BY <1>0, <1>1, <1>4, <1>5, <1>7, <1>8, <1>9, <1>10, <1>11, <1>12 DEF Held

----------------------------------------------------------------------------

LEMMA StopAnswered ==
  ASSUME TypeOK, BooksInv, NEW s \in StopOp, Broker!Accepted(s), NEW a \in StopAnswers(s)
  PROVE  /\ a \in Answer
         /\ a.state = "ACTIVE" => a.filled = 0
         /\ a.state \in StopEnd => Broker!Ended(s) /\ a.filled = book[s].filled
<1>1. /\ book[s] \in Broker!Entry /\ OrderShape(s)
  BY DEF TypeOK, Broker!TypeOK, BooksInv, Op
<1>2. book[s].status \in {"TRIGGER_PENDING", "OPEN", "COMPLETE", "CANCELLED", "REJECTED"}
  BY <1>1 DEF Broker!Accepted, Broker!Is, Broker!Entry, Broker!Status
<1>3. book[s].filled \in Qty /\ 0 \in Qty
  BY <1>1, QuantityAssumption DEF Broker!Entry, Qty
<1>4. NoAnswer \in Answer /\ NoAnswer.state = "UNKNOWN"
  BY <1>3 DEF NoAnswer, Answer
<1>5. ASSUME NEW st \in {"ACTIVE", "TIMEOUT", "TRIGGERED", "PARTIALLY_TRIGGERED",
                        "CANCELLED", "REJECTED"},
             NEW n \in Qty, NEW b \in Answers(st, n)
      PROVE  b \in Answer /\ b.state = st /\ b.filled = n
  BY DEF Answers, Answer, StopEnd
<1>6. CASE a = NoAnswer
  BY <1>4, <1>6 DEF StopEnd
<1>7. CASE a # NoAnswer
  <2>1. CASE book[s].status = "TRIGGER_PENDING"
    BY <1>3, <1>5, <1>7, <2>1 DEF StopAnswers, StopEnd
  <2>2. CASE book[s].status = "OPEN"
    BY <1>3, <1>5, <1>7, <2>2 DEF StopAnswers, StopEnd
  <2>3. CASE book[s].status = "COMPLETE"
    BY <1>3, <1>5, <1>7, <2>3 DEF StopAnswers, StopEnd, Broker!Ended, Broker!Is
  <2>4. CASE book[s].status = "CANCELLED"
    <3> DEFINE st == IF book[s].filled > 0 THEN "PARTIALLY_TRIGGERED" ELSE "CANCELLED"
    <3>1. a \in Answers(st, book[s].filled)
      BY <1>7, <2>4 DEF StopAnswers
    <3>2. st \in {"PARTIALLY_TRIGGERED", "CANCELLED"}
      OBVIOUS
    <3> HIDE DEF st
    <3> QED
      BY <1>3, <1>5, <2>4, <3>1, <3>2 DEF StopEnd, Broker!Ended, Broker!Is
  <2>5. CASE book[s].status = "REJECTED"
    <3>1. book[s].filled = 0
      BY <1>1, <2>5 DEF OrderShape, Broker!Is
    <3> QED
      BY <1>3, <1>5, <1>7, <2>5, <3>1 DEF StopAnswers, StopEnd, Broker!Ended, Broker!Is
  <2> QED
    BY <1>2, <2>1, <2>2, <2>3, <2>4, <2>5
<1> QED
  BY <1>6, <1>7

LEMMA ExitAnswered ==
  ASSUME TypeOK, NEW x \in ExitOp, NEW a \in ExitAnswers(x)
  PROVE  /\ a \in Answer
         /\ a.filled <= book[x].filled
         /\ a.state = "DONE" => Broker!Ended(x) /\ a.filled = book[x].filled
<1>1. book[x].filled \in Qty /\ 0 \in Qty /\ 0 <= book[x].filled
  BY QuantityAssumption DEF TypeOK, Broker!TypeOK, Broker!Entry, Qty, Op
<1> DEFINE st == IF Broker!Ended(x) THEN "DONE" ELSE "PENDING"
<1>2. a \in {[NoAnswer EXCEPT !.state = "PENDING"]} \cup Answers(st, book[x].filled)
  BY DEF ExitAnswers
<1>3. st \in {"DONE", "PENDING"} /\ (st = "DONE" => Broker!Ended(x))
  OBVIOUS
<1> HIDE DEF st
<1>4. CASE a = [NoAnswer EXCEPT !.state = "PENDING"]
  <2>1. a = [state |-> "PENDING", filled |-> 0, priced |-> FALSE]
    BY <1>4 DEF NoAnswer
  <2> QED
    BY <1>1, <2>1 DEF Answer
<1>5. CASE a \in Answers(st, book[x].filled)
  <2>1. ASSUME NEW t \in {"DONE", "PENDING"}, NEW n \in Qty, NEW b \in Answers(t, n)
        PROVE  b \in Answer /\ b.state = t /\ b.filled = n
    BY DEF Answers, Answer
  <2>2. a \in Answer /\ a.state = st /\ a.filled = book[x].filled
    BY <1>1, <1>3, <1>5, <2>1
  <2> QED
    BY <1>1, <1>3, <2>2, QuantityAssumption DEF Qty
<1> QED
  BY <1>2, <1>4, <1>5

LEMMA TypesStill ==
  ASSUME TypeOK
  PROVE  /\ stops' = stops => Stop!TypeOK'
         /\ orders' = orders => Orders!TypeOK'
         /\ book' = book /\ net' = net => Broker!TypeOK'
BY DEF TypeOK, Stop!TypeOK, Orders!TypeOK, Broker!TypeOK

\* The stop of a position that passed _validate_identity.
LEMMA KnownStop ==
  ASSUME TypeOK, BooksInv, Held, Identified
  PROVE  /\ pos \in Position /\ pos.op \in StopOp /\ stops[pos.op].created
         /\ Broker!Accepted(pos.op)
         /\ book[pos.op].qty = Quantity
         /\ pos.qty \in Nat /\ pos.qty > 0 /\ stops[pos.op].applied \in Nat
         /\ pos.qty + stops[pos.op].applied = Quantity
<1>1. pos \in Position /\ pos.op \in StopOp
  BY DEF TypeOK, Held, Identified, Position
<1>2. StopShape(pos.op) /\ stops[pos.op].orderId # NoOp
  BY <1>1 DEF BooksInv, Identified
<1>3. stops[pos.op].created /\ Broker!Accepted(pos.op)
  BY <1>2 DEF StopShape
<1>4. ~Broker!Is(pos.op, {"NONE"})
  BY <1>3 DEF Broker!Accepted, Broker!Is
<1>5. stops[pos.op].requested = Quantity /\ book[pos.op].qty = Quantity
  BY <1>2, <1>3, <1>4 DEF StopShape
<1>6. stops[pos.op].applied \in Nat /\ pos.qty \in Nat
  BY <1>1, QuantityAssumption
  DEF TypeOK, Stop!TypeOK, Stop!StopRecord, Stop!Qty, Position, Qty
<1> QED
  BY <1>1, <1>3, <1>5, <1>6 DEF Identified

LEMMA IdentifiedStill ==
  ASSUME FullInv, Held, StopsAlike, UNCHANGED pos
  PROVE  Identified' <=> Identified
<1>1. pos.op # NoOp => pos.op \in StopOp
  BY DEF FullInv, TypeOK, Held, Position
<1> QED
  BY <1>1 DEF Identified, StopsAlike, SameStop

\* A step that leaves books, file and position alone.
LEMMA QuietStep ==
  ASSUME FullInv, StopsAlike, \A y \in ExitOp : SameExit(y), Stop!TypeOK', Orders!TypeOK',
         UNCHANGED <<book, net, pnl, file, pos, late, restarts>>, pc # "down",
         call' \in Call, CtlInv'
  PROVE  FullInv'
<1>f. TypeOK /\ CoverInv /\ Mirror /\ ~Hybrid
  BY DEF FullInv
<1>1. TypeOK'
  BY <1>f, TypesStill DEF TypeOK
<1>2. BooksInv' /\ MoneyInv' /\ FileInv' /\ NamedInv'
  BY AlikeKeepsBooks, AlikeKeepsMoney DEF Alike
<1>3. CoverInv' /\ Mirror'
  BY <1>f DEF CoverInv, Covers, Mirror, Broker!Accepted, Broker!Is
<1> QED
  BY <1>f, <1>1, <1>2, <1>3 DEF FullInv

\* A save of flags.
LEMMA SaveStep ==
  ASSUME FullInv, FlagSave, UNCHANGED restarts, late' \in BOOLEAN,
         call' \in Call, CtlInv', Covers(file)'
  PROVE  FullInv'
<1>f. TypeOK /\ ~Hybrid
  BY DEF FullInv
<1>0. UNCHANGED <<stops, orders, book, net, pnl>> /\ pos' = file'
  BY DEF FlagSave
<1>1. TypeOK'
  BY <1>f, <1>0, TypesStill, FlagSaveKeeps DEF TypeOK
<1>2. CoverInv'
  BY <1>0 DEF CoverInv, Covers
<1> QED
  BY <1>f, <1>1, <1>2, FlagSaveKeeps DEF FullInv

\* Nothing is in progress.
LEMMA AtRest ==
  ASSUME pc' \in {"idle", "ended", "down"}, call' = NoCall
  PROVE  CtlInv' /\ (Quantity \in Nat => call' \in Call)
<1>1. NoCall \in Call \/ Quantity \notin Nat
  BY DEF NoCall, Call, NoAnswer, Answer, Qty
<1>2. call'.then # "finalize" /\ call'.reason # "SCALP"
  BY DEF NoCall
<1> QED
  BY <1>1, <1>2 DEF CtlInv, AtPlacing, AtApply, AtWindow, AtResolve, AtExit, AtResult,
    Labels, HeldLabels, Named, Placing

----------------------------------------------------------------------------
(* One lemma per action. *)

LEMMA StopSubmissionUncertainKeeps ==
  ASSUME FullInv, StopSubmissionUncertain PROVE FullInv'
<1>f. TypeOK /\ BooksInv /\ CtlInv
  BY DEF FullInv
<1>0. /\ pc = "attachStop" /\ pc' = "stopResult"
      /\ call' = [call EXCEPT !.obs = NoAnswer]
      /\ UNCHANGED <<stops, orders, file, pnl, pos, book, net, late, restarts>>
  BY DEF StopSubmissionUncertain
<1>1. StopsAlike /\ \A y \in ExitOp : SameExit(y)
  BY <1>0, <1>f, StoppedStill, ExitsStill
<1>2. call \in Call /\ NoAnswer \in Answer
  BY <1>f, QuantityAssumption DEF TypeOK, NoAnswer, Answer, Qty
<1>3. /\ call' \in Call /\ call'.stop = call.stop /\ call'.obs = NoAnswer
      /\ call'.then = call.then /\ call'.reason = call.reason
  BY <1>0, <1>2 DEF Call
<1>4. call.stop \in StopOp /\ Stop!Unresolved(call.stop) /\ Held
  BY <1>0, <1>f DEF CtlInv, AtPlacing, Placing, Labels, HeldLabels
<1>5. Stop!Unresolved(call.stop)' /\ Held'
  BY <1>0, <1>4 DEF Stop!Unresolved, Held
<1>6. CtlInv'
  BY <1>0, <1>f, <1>3, <1>4, <1>5 DEF CtlInv, AtPlacing, AtApply, AtWindow, AtResolve, AtExit, AtResult,
    Labels, HeldLabels, Named, Placing, NoAnswer, Stop!Unresolved
<1> QED
  BY <1>0, <1>1, <1>3, <1>6, <1>f, TypesStill, QuietStep

LEMMA RaiseKeeps ==
  ASSUME FullInv, pc # "down", Raise PROVE FullInv'
<1>f. TypeOK /\ BooksInv /\ CtlInv /\ CoverInv /\ Mirror /\ ~Hybrid
  BY DEF FullInv
<1>0. /\ pc' \in {"down", "idle"} /\ call' = NoCall
      /\ pos' = IF pc' = "down" THEN NoPosition ELSE pos
      /\ UNCHANGED <<stops, orders, file, pnl, book, net, late, restarts>>
  BY DEF Raise
<1>1. StopsAlike /\ \A y \in ExitOp : SameExit(y)
  BY <1>0, <1>f, StoppedStill, ExitsStill
<1>2. CtlInv' /\ call' \in Call
  BY <1>0, AtRest, QuantityAssumption
<1>3. BooksInv' /\ MoneyInv' /\ FileInv' /\ NamedInv'
  BY <1>0, <1>1, AlikeKeepsBooks, AlikeKeepsMoney DEF Alike
<1>4. CoverInv' /\ Mirror'
  BY <1>0, <1>f DEF CoverInv, Covers, Mirror, Broker!Accepted, Broker!Is
<1>5. TypeOK'
  BY <1>0, <1>f, <1>2, TypesStill DEF TypeOK
<1> QED
  BY <1>f, <1>2, <1>3, <1>4, <1>5 DEF FullInv

LEMMA VerifyStopKeeps ==
  ASSUME FullInv, VerifyStop PROVE FullInv'
<1>f. TypeOK /\ BooksInv /\ CtlInv
  BY DEF FullInv
<1>0. pc = "verifyStop"
  BY DEF VerifyStop
<1>1. PICK a \in StopAnswers(call.stop) :
        \/ /\ Stop!UpdateVerification(call.stop, a.filled)
           /\ call' = [call EXCEPT !.obs = a]
           /\ pc' = "stopResult"
           /\ StopStoreStep
        \/ Raise
  BY DEF VerifyStop
<1>2. CASE Raise
  BY <1>0, <1>2, RaiseKeeps
<1>3. CASE /\ Stop!UpdateVerification(call.stop, a.filled)
           /\ call' = [call EXCEPT !.obs = a]
           /\ pc' = "stopResult"
           /\ StopStoreStep
  <2>1. PICK s \in StopOp : s = call.stop
    BY <1>0, <1>f DEF CtlInv, AtPlacing, Placing
  <2>2. Stop!Unresolved(s) /\ Held /\ stops[s].orderId # NoOp
    BY <1>0, <1>f, <2>1 DEF CtlInv, AtPlacing, Placing, Labels, HeldLabels
  <2>3. Broker!Accepted(s)
    BY <1>f, <2>2 DEF BooksInv, StopShape
  <2>4. a \in Answer /\ a.filled \in Qty
    BY <1>1, <1>f, <2>1, <2>3, StopAnswered DEF Answer
  <2>5. Stop!TypeOK' /\ StopsAlike
    BY <1>3, <1>f, <2>1, <2>4, VerifiedStop
  <2>6. /\ \A y \in ExitOp : SameExit(y)
        /\ UNCHANGED <<orders, file, pnl, pos, book, net, late, restarts>>
    BY <1>3, ExitsStill
  <2>7. call \in Call
    BY <1>f DEF TypeOK
  <2>8. /\ call' \in Call /\ call'.stop = s /\ call'.then = call.then
        /\ call'.reason = call.reason
    BY <1>3, <2>1, <2>4, <2>7 DEF Call
  <2>9. Stop!Unresolved(s)' /\ Held' /\ Broker!Accepted(s)'
    BY <2>2, <2>3, <2>5, <2>6, AlikeReads DEF Held, Broker!Accepted, Broker!Is
  <2>10. CtlInv'
    BY <1>3, <1>f, <2>8, <2>9 DEF CtlInv, AtPlacing, AtApply, AtWindow, AtResolve, AtExit, AtResult,
      Labels, HeldLabels, Named, Placing
  <2> QED
    BY <1>0, <1>f, <2>5, <2>6, <2>8, <2>10, TypesStill, QuietStep
<1> QED
  BY <1>1, <1>2, <1>3

\* inspect_protective_stop, by a check or by a coordinated exit.
LEMMA InspectKeeps ==
  ASSUME FullInv, Held, Identified, Inspect, pc # "down", call.op = NoOp,
         call.action # "NONE" => call.action \in Family /\ call.full
  PROVE  FullInv'
<1>f. TypeOK /\ BooksInv /\ CtlInv
  BY DEF FullInv
<1>1. PICK a \in StopAnswers(pos.op) :
        \/ /\ Stop!UpdateVerification(pos.op, a.filled)
           /\ call' = [call EXCEPT !.obs = a]
           /\ pc' = AfterInspection(a)
           /\ StopStoreStep
        \/ Raise
  BY DEF Inspect
<1>2. CASE Raise
  BY <1>2, RaiseKeeps
<1>3. CASE /\ Stop!UpdateVerification(pos.op, a.filled)
           /\ call' = [call EXCEPT !.obs = a]
           /\ pc' = AfterInspection(a)
           /\ StopStoreStep
  <2>1. PICK s \in StopOp : s = pos.op
    BY <1>f, KnownStop
  <2>2. Broker!Accepted(s) /\ stops[s].created
    BY <1>f, <2>1, KnownStop
  <2>3. /\ a \in Answer /\ a.filled \in Qty
        /\ a.state = "ACTIVE" => a.filled = 0
        /\ a.state \in StopEnd => Broker!Ended(s) /\ a.filled = book[s].filled
    BY <1>1, <1>f, <2>1, <2>2, StopAnswered DEF Answer
  <2>5. Stop!TypeOK' /\ StopsAlike /\ a.filled >= stops[s].applied
    BY <1>3, <1>f, <2>1, <2>3, VerifiedStop
  <2>6. /\ \A y \in ExitOp : SameExit(y)
        /\ UNCHANGED <<orders, file, pnl, pos, book, net, late, restarts>>
    BY <1>3, ExitsStill
  <2>7. call \in Call /\ stops[s].applied \in Nat
    BY <1>f, QuantityAssumption DEF TypeOK, Stop!TypeOK, Stop!StopRecord, Stop!Qty
  <2>8. /\ call' \in Call /\ call'.action = call.action /\ call'.then = call.then
        /\ call'.reason = call.reason /\ call'.full = call.full /\ call'.obs = a
        /\ call'.op = NoOp
    BY <1>3, <2>3, <2>7 DEF Call
  <2>9. Held' /\ Identified' /\ stops'[s].applied = stops[s].applied
        /\ (Broker!Ended(s) => Broker!Ended(s)')
    BY <2>5, <2>6, IdentifiedStill DEF Held, StopsAlike, SameStop, Broker!Ended, Broker!Is
  <2>10. /\ pc' \in {"apply", "block", "reserveCancel"}
         /\ pc' = "reserveCancel" => call.action \in Family /\ call.full
         /\ pc' = "apply" => IF call.action = "NONE" THEN a.state \in StopEnd \cup {"ACTIVE"}
                                                    ELSE a.state \in StopEnd
    BY <1>3 DEF AfterInspection
  <2>11. pc' = "apply" /\ a.state = "ACTIVE" =>
           a.filled = 0 /\ stops'[s].applied = 0 /\ call.action = "NONE"
    BY <2>3, <2>5, <2>7, <2>9, <2>10 DEF StopEnd
  <2>12. pc' = "apply" /\ a.state # "ACTIVE" =>
           a.state \in StopEnd /\ Broker!Ended(s)' /\ a.filled = book'[s].filled
    BY <2>3, <2>6, <2>9, <2>10
  <2>13. AtApply'
    BY <2>1, <2>6, <2>8, <2>11, <2>12 DEF AtApply
  <2>14. CtlInv'
    BY <1>f, <2>8, <2>9, <2>10, <2>13 DEF CtlInv, AtPlacing, AtWindow, AtResolve, AtExit, AtResult,
      Labels, HeldLabels, Named, Placing
  <2> QED
    BY <1>f, <2>5, <2>6, <2>8, <2>14, TypesStill, QuietStep
<1> QED
  BY <1>1, <1>2, <1>3

LEMMA CheckPositionKeeps ==
  ASSUME FullInv, CheckPosition PROVE FullInv'
<1>f. TypeOK /\ BooksInv /\ CtlInv
  BY DEF FullInv
<1>0. pc = "idle" /\ Held /\ call = NoCall
  BY <1>f DEF CheckPosition, CtlInv
<1>1. CASE Identified
  BY <1>0, <1>1, InspectKeeps DEF CheckPosition, NoCall
<1>2. CASE ~Identified
  <2>1. /\ pc' = "block" /\ call' = call
        /\ UNCHANGED <<stops, orders, file, pnl, pos, book, net, late, restarts>>
    BY <1>2 DEF CheckPosition
  <2>2. StopsAlike /\ (\A y \in ExitOp : SameExit(y)) /\ Held'
    BY <1>0, <1>f, <2>1, StoppedStill, ExitsStill DEF Held
  <2>3. call \in Call /\ call'.then # "finalize" /\ call'.reason # "SCALP"
    BY <1>f, <2>1 DEF TypeOK, CtlInv
  <2>4. CtlInv'
    BY <2>1, <2>2, <2>3 DEF CtlInv, AtPlacing, AtApply, AtWindow, AtResolve, AtExit, AtResult,
      Labels, HeldLabels, Named, Placing
  <2> QED
    BY <1>0, <1>f, <2>1, <2>2, <2>3, <2>4, TypesStill, QuietStep
<1> QED
  BY <1>1, <1>2

LEMMA CoordinateKeeps ==
  ASSUME FullInv, Coordinate PROVE FullInv'
<1>1. pc = "coordinate" /\ Inspect
  BY DEF Coordinate
<1>2. Held /\ Identified /\ call.action \in Family /\ call.full /\ call.op = NoOp
  BY <1>1 DEF FullInv, CtlInv, AtExit, Labels, HeldLabels, Named
<1> QED
  BY <1>1, <1>2, InspectKeeps

\* Setting the flags of a position leaves a position with the rest as it was.
WithFlags(p, a, b, c, d) ==
  [p EXCEPT !.pending = a, !.protected = b, !.blocked = c, !.manual = d]

LEMMA FlagsSet ==
  ASSUME NEW p \in Position, NEW a \in BOOLEAN, NEW b \in BOOLEAN, NEW c \in BOOLEAN,
         NEW d \in BOOLEAN
  PROVE  LET r == WithFlags(p, a, b, c, d)
         IN  /\ r \in Position
             /\ r.qty = p.qty /\ r.op = p.op /\ r.exit = p.exit /\ r.stage = p.stage
             /\ r.reason = p.reason /\ (r.blocked <=> c) /\ (r.protected <=> b)
<1> DEFINE E == [Family -> [op : ExitOp \cup {NoOp}, filled : Qty, priced : BOOLEAN]]
           O == StopOp \cup {NoOp}
           R == Reasons \cup {"NONE"}
<1>1. Position = [ qty : Qty, op : O, pending : BOOLEAN, protected : BOOLEAN, blocked : BOOLEAN,
                   manual : BOOLEAN, exit : E, reason : R, stage : {"NONE", "SCALP", "RUNNER"},
                   scalpLeft : Qty ]
  BY DEF Position
<1> HIDE DEF E, O, R
<1> QED
  BY <1>1 DEF WithFlags

\* What a save of flags needs and leaves, from the fields it sets.
LEMMA FlagsOnly ==
  ASSUME FullInv, Held, pc # "down", UNCHANGED <<stops, orders, pnl, book, net>>,
         pos' = file', NEW a \in BOOLEAN, NEW b \in BOOLEAN, NEW c \in BOOLEAN, NEW d \in BOOLEAN,
         file' = [pos EXCEPT !.pending = a, !.protected = b, !.blocked = c, !.manual = d]
  PROVE  /\ FlagSave
         /\ Identified' <=> Identified
         /\ c \/ (b /\ pos.op # NoOp /\ Broker!Accepted(pos.op)
                         /\ book[pos.op].qty = pos.qty)
              => Covers(file)'
<1>f. TypeOK /\ FileInv /\ Mirror
  BY DEF FullInv
<1>1. pos \in Position /\ file \in Position /\ file # NoPosition
  BY <1>f DEF TypeOK, Held, Mirror
<1>2. /\ file' \in Position
      /\ file'.qty = pos.qty /\ file'.exit = pos.exit /\ file'.stage = pos.stage
      /\ file'.op = pos.op /\ file'.reason = pos.reason
      /\ (file'.blocked <=> c) /\ (file'.protected <=> b)
  <2>1. file' = WithFlags(pos, a, b, c, d)
    BY DEF WithFlags
  <2> QED
    BY <1>1, <2>1, FlagsSet
<1>3. pos.reason # "SCALP"
  BY <1>1, <1>f DEF Mirror, FileInv, Position
<1>4. FlagSave
  BY <1>2, <1>3 DEF FlagSave
<1>5. Identified' <=> Identified
  BY <1>2 DEF Identified
<1>6. c \/ (b /\ pos.op # NoOp /\ Broker!Accepted(pos.op) /\ book[pos.op].qty = pos.qty)
        => Covers(file)'
  BY <1>2 DEF Covers, Broker!Accepted, Broker!Is
<1> QED
  BY <1>4, <1>5, <1>6

LEMMA BlockKeeps ==
  ASSUME FullInv, Block PROVE FullInv'
<1>f. TypeOK /\ CtlInv
  BY DEF FullInv
<1>0. /\ pc = "block" /\ pc' = call.next /\ call' = NoCall /\ pos' = file'
      /\ file' = [pos EXCEPT !.blocked = TRUE, !.manual = TRUE]
      /\ UNCHANGED <<stops, orders, pnl, book, net, late, restarts>>
  BY DEF Block
<1>1. Held /\ pos \in Position
  BY <1>0, <1>f DEF CtlInv, Labels, HeldLabels, TypeOK, Held
<1>2. /\ pos.pending \in BOOLEAN /\ pos.protected \in BOOLEAN /\ TRUE \in BOOLEAN
      /\ file' = [pos EXCEPT !.pending = pos.pending, !.protected = pos.protected,
                             !.blocked = TRUE, !.manual = TRUE]
  BY <1>0, <1>1 DEF Position
<1>3. FlagSave /\ Covers(file)'
  BY <1>0, <1>1, <1>2, FlagsOnly
<1>4. CtlInv' /\ call' \in Call
  BY <1>0, <1>f, AtRest, QuantityAssumption DEF TypeOK, Call
<1>5. late' \in BOOLEAN
  BY <1>0, <1>f DEF TypeOK
<1> QED
  BY <1>0, <1>3, <1>4, <1>5, SaveStep

LEMMA ApplyNoFillKeeps ==
  ASSUME FullInv, ApplyNoFill PROVE FullInv'
<1>f. TypeOK /\ BooksInv /\ CtlInv
  BY DEF FullInv
<1>0. /\ pc = "apply" /\ call.obs.filled - stops[pos.op].applied = 0 /\ pos' = file'
      /\ UNCHANGED <<stops, orders, pnl, book, net, late, restarts>>
  BY DEF ApplyNoFill, Unapplied
<1>1. Held /\ Identified /\ late' \in BOOLEAN
  BY <1>0, <1>f DEF CtlInv, Labels, HeldLabels, Named, TypeOK
<1>2. PICK s \in StopOp : s = pos.op
  BY <1>1, <1>f, KnownStop
<1>3. /\ stops[s].created /\ Broker!Accepted(s) /\ book[s].qty = Quantity
      /\ pos.qty \in Nat /\ pos.qty > 0 /\ stops[s].applied \in Nat /\ pos \in Position
      /\ pos.qty + stops[s].applied = Quantity /\ s # NoOp
  BY <1>1, <1>2, <1>f, KnownStop, OpAssumption
<1>t. /\ call \in Call /\ call.then # "finalize" /\ call.reason # "SCALP"
      /\ call.op = NoOp
  BY <1>0, <1>f DEF TypeOK, CtlInv, AtExit
<1>4. CASE call.obs.state = "ACTIVE"
  <2>1. /\ file' = [pos EXCEPT !.pending = FALSE, !.protected = TRUE,
                               !.blocked = FALSE, !.manual = FALSE]
        /\ AfterApply
    BY <1>4 DEF ApplyNoFill
  <2>2. stops[s].applied = 0 /\ call.action = "NONE"
    BY <1>0, <1>2, <1>4, <1>f DEF CtlInv, AtApply
  <2>b. TRUE \in BOOLEAN /\ FALSE \in BOOLEAN
    OBVIOUS
  <2>3. book[s].qty = pos.qty
    BY <1>3, <2>2
  <2>4. FlagSave /\ Identified' /\ Covers(file)'
    BY <1>0, <1>1, <1>2, <1>3, <2>1, <2>3, <2>b, FlagsOnly
  <2>5. Held'
    BY <2>4, FlagSaveKeeps
  <2>6. pc' = "decide" /\ call' = call
    BY <2>1, <2>2, <2>5 DEF AfterApply, Held
  <2>7. CtlInv'
    BY <1>4, <1>t, <2>2, <2>4, <2>5, <2>6 DEF CtlInv, AtPlacing, AtApply, AtWindow, AtResolve, AtExit, AtResult,
      Labels, HeldLabels, Named, Placing
  <2> QED
    BY <1>0, <1>1, <1>t, <2>4, <2>6, <2>7, SaveStep
<1>5. CASE call.obs.state # "ACTIVE"
  <2>1. /\ file' = [pos EXCEPT !.pending = FALSE, !.protected = FALSE, !.blocked = TRUE,
                               !.manual = ~Stop!Requested(pos.op)]
        /\ pc' = "resolveStop" /\ call' = call
    BY <1>5 DEF ApplyNoFill
  <2>2. call.obs.state \in StopEnd /\ Broker!Ended(s) /\ call.obs.filled = book[s].filled
    BY <1>0, <1>2, <1>5, <1>f DEF CtlInv, AtApply
  <2>b. TRUE \in BOOLEAN /\ FALSE \in BOOLEAN /\ (~Stop!Requested(pos.op)) \in BOOLEAN
    OBVIOUS
  <2>d. PICK m \in BOOLEAN : m = ~Stop!Requested(pos.op)
    BY <2>b
  <2>3. /\ FlagSave /\ Identified' /\ Covers(file)'
    BY <1>0, <1>1, <2>1, <2>b, <2>d, FlagsOnly
  <2>4. Held' /\ LocalQty(file)' = LocalQty(file) /\ file'.qty = pos.qty /\ file'.op = pos.op
    BY <1>3, <2>1, <2>3, FlagSaveKeeps DEF Position
  <2>5. file' # NoPosition /\ LocalQty(file)' = pos.qty
    BY <1>0, <2>4 DEF LocalQty, Held
  <2>6. call.obs.filled \in Int
    BY <1>t, QuantityAssumption DEF Call, Answer, Qty
  <2>7. Settled(s)'
    BY <1>0, <1>2, <1>3, <2>2, <2>6 DEF Settled, Applied, Broker!Ended, Broker!Is
  <2>8. AtResolve'
    BY <1>0, <1>2, <1>3, <2>1, <2>2, <2>3, <2>4, <2>5, <2>7 DEF AtResolve
  <2>9. call.action # "NONE" => call.full
    BY <1>0, <1>f DEF CtlInv, AtExit
  <2>10. CtlInv'
    BY <1>t, <2>1, <2>8, <2>9 DEF CtlInv, AtPlacing, AtApply, AtWindow, AtExit, AtResult,
      Labels, HeldLabels, Named, Placing
  <2> QED
    BY <1>0, <1>1, <1>t, <2>1, <2>3, <2>10, SaveStep
<1> QED
  BY <1>4, <1>5

LEMMA ReserveStopFillKeeps ==
  ASSUME FullInv, ReserveStopFill PROVE FullInv'
<1>f. /\ TypeOK /\ BooksInv /\ CtlInv /\ MoneyInv /\ FileInv /\ NamedInv /\ CoverInv /\ Mirror
      /\ ~Hybrid
  BY DEF FullInv
<1>0. /\ pc = "apply" /\ call.obs.filled - stops[pos.op].applied > 0
      /\ Stop!MarkFillApplied(pos.op, call.obs.filled, call.obs.priced)
      /\ call' = [call EXCEPT !.fill = call.obs.filled - stops[pos.op].applied]
      /\ pc' = IF call.obs.priced THEN "bookStopFill" ELSE "saveStopFill"
      /\ UNCHANGED <<orders, file, pnl, pos, book, net, late, restarts>>
  BY DEF ReserveStopFill, Unapplied
<1>1. Held /\ Identified
  BY <1>0, <1>f DEF CtlInv, Labels, HeldLabels, Named
<1>2. PICK s \in StopOp : s = pos.op
  BY <1>1, <1>f, KnownStop
<1>3. /\ stops[s].created /\ Broker!Accepted(s) /\ book[s].qty = Quantity
      /\ pos.qty \in Nat /\ pos.qty > 0 /\ stops[s].applied \in Nat
      /\ pos.qty + stops[s].applied = Quantity /\ s # NoOp /\ stops[s].orderId # NoOp
  BY <1>1, <1>2, <1>f, KnownStop, OpAssumption DEF Identified
<1>t. /\ call \in Call /\ call.then # "finalize" /\ call.reason # "SCALP"
      /\ call.obs.filled \in Qty /\ call.obs.priced \in BOOLEAN /\ call.op = NoOp
  BY <1>0, <1>f DEF TypeOK, CtlInv, AtExit, Call, Answer
<1>q. Quantity \in Nat /\ call.obs.filled \in Nat
  BY <1>t, QuantityAssumption DEF Qty
<1>4. call.obs.state # "ACTIVE"
  BY <1>0, <1>2, <1>f, <1>3 DEF CtlInv, AtApply
<1>5. call.obs.state \in StopEnd /\ Broker!Ended(s) /\ call.obs.filled = book[s].filled
  BY <1>0, <1>2, <1>4, <1>f DEF CtlInv, AtApply
<1>6. StopShape(s) /\ pnl[s] \in Nat
  BY <1>f DEF BooksInv, TypeOK, Op
<1>7. /\ stops[s].applied = 0 /\ pos.qty = Quantity /\ pnl[s] = 0 /\ ~stops[s].resolved
      /\ call.obs.filled > 0
  BY <1>0, <1>2, <1>3, <1>5, <1>6, <1>q DEF StopShape
<1>8. NoExitYet
  BY <1>2, <1>3, <1>5, <1>7, <1>f DEF MoneyInv, Applied
<1>9. /\ Stop!TypeOK'
      /\ \A t \in StopOp : t # s => stops'[t] = stops[t]
      /\ stops'[s].applied = call.obs.filled
      /\ stops'[s].priced <=> call.obs.priced
      /\ stops'[s].created
      /\ stops'[s].orderId = stops[s].orderId
      /\ stops'[s].requested = stops[s].requested
      /\ ~stops'[s].resolved
      /\ Stop!Requested(s)' <=> Stop!Requested(s)
      /\ stops'[s].reason = stops[s].reason
  <2>1. Stop!MarkFillApplied(s, call.obs.filled, call.obs.priced)
    BY <1>0, <1>2
  <2>2. PICK n \in Qty : n = call.obs.filled
    BY <1>t
  <2>3. PICK p \in BOOLEAN : p = call.obs.priced
    BY <1>t
  <2>4. Stop!MarkFillApplied(s, n, p)
    BY <2>1, <2>2, <2>3
  <2>5. /\ Stop!TypeOK'
        /\ \A t \in StopOp : t # s => stops'[t] = stops[t]
        /\ stops'[s].applied = n
        /\ stops'[s].priced <=> p
        /\ stops'[s].created <=> stops[s].created
        /\ stops'[s].orderId = stops[s].orderId
        /\ stops'[s].requested = stops[s].requested
        /\ stops'[s].resolved <=> stops[s].resolved
        /\ Stop!Requested(s)' <=> Stop!Requested(s)
        /\ stops'[s].reason = stops[s].reason
    BY <1>f, <2>4, AppliedStop
  <2> QED
    BY <1>3, <1>7, <2>2, <2>3, <2>5
<1>10. UNCHANGED <<orders, file, pnl, pos, book, net, late, restarts>>
  BY <1>0
<1>11. \A t \in StopOp : stops[t].created => t = s
  BY <1>3, <1>f DEF BooksInv
<1>12. BooksInv'
  <2>1. \A o \in Op : OrderShape(o)'
    BY <1>10, <1>f DEF BooksInv, OrderShape, Broker!Is
  <2>2. \A t \in StopOp : t # s => StopShape(t)'
    BY <1>9, <1>10, <1>f DEF BooksInv, StopShape, Stop!Requested, Broker!Is, Broker!Ended,
      Broker!Accepted
  <2>3. StopShape(s)'
    BY <1>5, <1>6, <1>7, <1>9, <1>10, <1>3, <1>q DEF StopShape, Broker!Is, Broker!Ended, Broker!Accepted
  <2>4. \A x \in ExitOp : ExitShape(x)'
    BY <1>10, <1>f DEF BooksInv, ExitShape, Broker!Is, Broker!Ended, Broker!Accepted
  <2>5. \A t, u \in StopOp : stops'[t].created /\ stops'[u].created => t = u
    BY <1>9, <1>11
  <2>6. \A x, y \in ExitOp : Orders!Unresolved(x)' /\ Orders!Unresolved(y)' => x = y
    BY <1>10, <1>f DEF BooksInv, Orders!Unresolved
  <2> QED
    BY <2>1, <2>2, <2>3, <2>4, <2>5, <2>6 DEF BooksInv
<1>13. file # NoPosition /\ file.qty = Quantity /\ file.op = s /\ LocalQty(file) = Quantity
  <2>1. file # NoPosition /\ pos = [file EXCEPT !.blocked = pos.blocked] /\ file \in Position
    BY <1>0, <1>1, <1>f DEF Mirror, Held, TypeOK
  <2>2. pos.qty = file.qty /\ pos.op = file.op
    BY <2>1 DEF Position
  <2> QED
    BY <1>2, <1>7, <2>1, <2>2 DEF LocalQty
<1>14. NoExitYet' /\ \A x \in ExitOp : ~Orders!Unresolved(x)'
  BY <1>8, <1>10 DEF NoExitYet, Orders!Unresolved
<1>15. LocalQty(file)' = Quantity
  BY <1>10, <1>13 DEF LocalQty
<1>16. MoneyInv'
  <2>1. net = Quantity - book[s].filled
    BY <1>3, <1>8, <1>f DEF MoneyInv
  <2>2. \A t \in StopOp : stops'[t].created => t = s
    BY <1>9, <1>11
  <2>3. LocalQty(file)' + stops'[s].applied > Quantity
    BY <1>7, <1>9, <1>15, <1>q
  <2>4. LocalQty(file)' + stops'[s].applied >= Quantity
        /\ ~(LocalQty(file)' + stops'[s].applied <= Quantity)
    BY <1>7, <1>9, <1>15, <1>q
  <2> QED
    BY <1>9, <1>10, <1>14, <2>1, <2>2, <2>4 DEF MoneyInv
<1>17. FileInv'
  <2>1. \A a \in Family : file.exit[a].op = NoOp /\ ~(file.exit[a].filled > 0)
    <3>1. TAKE a \in Family
    <3>2. file \in Position
      BY <1>13, <1>f DEF TypeOK
    <3>3. file.exit[a].op \in ExitOp \cup {NoOp}
      BY <3>2 DEF Position
    <3>4. file.exit[a].op = NoOp
      BY <1>8, <1>13, <1>f, <3>3 DEF FileInv, NoExitYet
    <3> QED
      BY <1>13, <1>f, <3>4 DEF FileInv
  <2> QED
    BY <1>9, <1>10, <1>13, <1>f, <2>1 DEF FileInv
<1>18. NamedInv'
  BY <1>9, <1>10, <1>11, <1>13 DEF NamedInv
<1>19. CoverInv' /\ Mirror'
  BY <1>0, <1>10, <1>f DEF CoverInv, Covers, Mirror, Broker!Accepted, Broker!Is
<1>20. /\ call' \in Call /\ call'.fill = call.obs.filled /\ call'.obs = call.obs
       /\ call'.action = call.action /\ call'.full = call.full
       /\ call'.then = call.then /\ call'.reason = call.reason /\ call'.op = NoOp
  BY <1>0, <1>2, <1>7, <1>t, <1>q DEF Call
<1>21. TypeOK'
  BY <1>9, <1>10, <1>20, <1>f, TypesStill DEF TypeOK
<1>22. Held' /\ Settled(s)'
  BY <1>1, <1>5, <1>9, <1>10 DEF Held, Settled, Applied, Broker!Ended, Broker!Is
<1>23. AtWindow'
  <2>1. pos' = pos /\ pnl' = pnl /\ call'.obs = call.obs
    BY <1>10, <1>20
  <2> QED
    BY <2>1, <1>0, <1>2, <1>3, <1>5, <1>7, <1>9, <1>10, <1>14, <1>20, <1>22 DEF AtWindow
<1>24. call.action # "NONE" => call.full
  BY <1>0, <1>f DEF CtlInv, AtExit
<1>25. CtlInv'
  BY <1>0, <1>t, <1>20, <1>22, <1>23, <1>24 DEF CtlInv, AtPlacing, AtApply, AtResolve, AtExit, AtResult,
      Labels, HeldLabels, Named, Placing
<1> QED
  BY <1>12, <1>16, <1>17, <1>18, <1>19, <1>21, <1>25, <1>f DEF FullInv

\* Between the reservation of a stop's fill and the save of the position.
LEMMA InWindow ==
  ASSUME FullInv, pc \in {"bookStopFill", "saveStopFill"}
  PROVE  /\ Held /\ pos \in Position /\ pos.op \in StopOp /\ pos.qty = Quantity
         /\ file # NoPosition /\ file \in Position /\ file.qty = Quantity /\ file.op = pos.op
         /\ LocalQty(file) = Quantity
         /\ stops[pos.op].created /\ Settled(pos.op) /\ NoExitYet
         /\ stops[pos.op].applied = call.fill /\ call.fill \in 1..Quantity
         /\ stops[pos.op].orderId # NoOp /\ stops[pos.op].requested = Quantity
         /\ \A t \in StopOp : stops[t].created => t = pos.op
         /\ \A x \in ExitOp : ~Orders!Unresolved(x)
         /\ net = Quantity - call.fill
         /\ pos.op # NoOp
<1>f. TypeOK /\ BooksInv /\ CtlInv /\ Mirror /\ MoneyInv
  BY DEF FullInv
<1>1. /\ Held
      /\ pos.op \in StopOp /\ stops[pos.op].created /\ stops[pos.op].orderId # NoOp
      /\ Settled(pos.op)
      /\ call.fill > 0 /\ call.fill = stops[pos.op].applied
      /\ pos.qty = Quantity /\ NoExitYet
  BY <1>f DEF CtlInv, AtWindow, Labels, HeldLabels
<1>2. /\ file # NoPosition /\ file \in Position /\ pos \in Position
      /\ pos = [file EXCEPT !.blocked = pos.blocked]
  BY <1>1, <1>f DEF Mirror, TypeOK, Held
<1>3. file.qty = pos.qty /\ file.op = pos.op
  BY <1>2 DEF Position
<1>4. call.fill \in 1..Quantity
  BY <1>1, <1>f, QuantityAssumption DEF TypeOK, Call, Qty
<1>5. StopShape(pos.op) /\ \A t \in StopOp : stops[t].created => t = pos.op
  BY <1>1, <1>f DEF BooksInv
<1>6. net = Quantity - book[pos.op].filled
  BY <1>1, <1>f DEF MoneyInv
<1>7. book[pos.op].filled = call.fill
  BY <1>1 DEF Settled, Applied
<1>8. pos.op # NoOp
  BY <1>1, OpAssumption
<1> QED
  BY <1>1, <1>2, <1>3, <1>4, <1>5, <1>6, <1>7, <1>8
  DEF StopShape, LocalQty, NoExitYet, Orders!Unresolved

LEMMA BookStopFillKeeps ==
  ASSUME FullInv, BookStopFill PROVE FullInv'
<1>f. /\ TypeOK /\ BooksInv /\ CtlInv /\ MoneyInv /\ FileInv /\ NamedInv /\ CoverInv /\ Mirror
      /\ ~Hybrid
  BY DEF FullInv
<1>0. /\ pc = "bookStopFill" /\ pc' = "saveStopFill" /\ call' = call
      /\ pnl' = [pnl EXCEPT ![pos.op] = @ + call.fill]
      /\ UNCHANGED <<stops, orders, file, pos, book, net, late, restarts>>
  BY DEF BookStopFill
<1>1. PICK s \in StopOp : s = pos.op
  BY <1>0, InWindow
<1>2. /\ Held /\ file # NoPosition /\ LocalQty(file) = Quantity
      /\ stops[s].created /\ Settled(s) /\ NoExitYet
      /\ stops[s].applied = call.fill /\ call.fill \in 1..Quantity
      /\ \A t \in StopOp : stops[t].created => t = s
  BY <1>0, <1>1, InWindow
<1>3. /\ pnl[s] = 0 /\ call.obs.priced /\ s \in Op /\ pnl \in [Op -> Nat]
  BY <1>0, <1>1, <1>f DEF CtlInv, AtWindow, Op, TypeOK
<1>4. /\ pnl' \in [Op -> Nat] /\ pnl'[s] = call.fill
      /\ \A o \in Op : o # s => pnl'[o] = pnl[o]
  BY <1>0, <1>1, <1>2, <1>3, QuantityAssumption
<1>5. UNCHANGED <<stops, orders, file, pos, book, net, late, restarts, call>>
  BY <1>0
<1>6. BooksInv'
  <2>1. \A o \in Op : OrderShape(o)'
    BY <1>5, <1>f DEF BooksInv, OrderShape, Broker!Is
  <2>2. \A t \in StopOp : t # s => StopShape(t)'
    BY <1>4, <1>5, <1>f DEF BooksInv, StopShape, Stop!Requested, Broker!Is, Broker!Ended,
      Broker!Accepted, Op
  <2>3. StopShape(s)'
    <3>1. StopShape(s)
      BY <1>f DEF BooksInv
    <3>2. pnl'[s] <= stops[s].applied /\ pnl'[s] = stops[s].applied
      BY <1>2, <1>4, QuantityAssumption
    <3> QED
      BY <1>5, <3>1, <3>2 DEF StopShape, Stop!Requested, Broker!Is, Broker!Ended, Broker!Accepted
  <2>4. \A x \in ExitOp : ExitShape(x)'
    BY <1>5, <1>f DEF BooksInv, ExitShape, Broker!Is, Broker!Ended, Broker!Accepted
  <2> QED
    BY <1>5, <1>f, <2>1, <2>2, <2>3, <2>4 DEF BooksInv, Orders!Unresolved
<1>7. MoneyInv'
  <2>1. pnl'[s] = stops[s].applied
    BY <1>2, <1>4
  <2>2. /\ NoExitYet' <=> NoExitYet
        /\ \A x \in ExitOp : ~Orders!Unresolved(x)'
        /\ LocalQty(file)' = LocalQty(file)
    BY <1>2, <1>5 DEF NoExitYet, Orders!Unresolved, LocalQty
  <2> QED
    BY <1>2, <1>5, <1>f, <2>1, <2>2 DEF MoneyInv
<1>8. FileInv' /\ NamedInv' /\ CoverInv' /\ Mirror'
  BY <1>0, <1>5, <1>f DEF FileInv, NamedInv, CoverInv, Covers, Mirror, Broker!Accepted, Broker!Is,
    Stop!Unresolved
<1>9. TypeOK'
  BY <1>4, <1>5, <1>f, TypesStill DEF TypeOK
<1>10. Held' /\ Settled(s)' /\ NoExitYet'
  BY <1>2, <1>5 DEF Held, Settled, Applied, Broker!Ended, Broker!Is, NoExitYet
<1>11. AtWindow'
  BY <1>0, <1>1, <1>2, <1>4, <1>10, <1>f DEF CtlInv, AtWindow
<1>12. CtlInv'
  BY <1>0, <1>10, <1>11, <1>f DEF CtlInv, AtPlacing, AtApply, AtResolve, AtExit, AtResult,
      Labels, HeldLabels, Named, Placing
<1> QED
  BY <1>6, <1>7, <1>8, <1>9, <1>12, <1>f DEF FullInv

LEMMA SaveStopFillKeeps ==
  ASSUME FullInv, SaveStopFill PROVE FullInv'
<1>f. /\ TypeOK /\ BooksInv /\ CtlInv /\ MoneyInv /\ FileInv /\ NamedInv /\ CoverInv /\ Mirror
      /\ ~Hybrid
  BY DEF FullInv
<1> DEFINE m == pos.manual \/ ~call.obs.priced
           r == [pos EXCEPT !.qty = @ - call.fill, !.pending = FALSE, !.protected = FALSE,
                            !.blocked = TRUE, !.manual = m]
<1>0. /\ pc = "saveStopFill" /\ pos' = file'
      /\ file' = IF call.fill = pos.qty THEN NoPosition ELSE r
      /\ IF call.obs.priced
           THEN pc' = "resolveStop" /\ call' = [call EXCEPT !.stop = pos.op]
           ELSE AfterApply
      /\ UNCHANGED <<stops, orders, pnl, book, net, late, restarts>>
  BY DEF SaveStopFill, Reduced
<1>1. PICK s \in StopOp : s = pos.op
  BY <1>0, InWindow
<1>2. /\ Held /\ pos \in Position /\ pos.qty = Quantity /\ s # NoOp
      /\ file # NoPosition /\ file \in Position /\ file.op = s
      /\ stops[s].created /\ Settled(s) /\ NoExitYet
      /\ stops[s].applied = call.fill /\ call.fill \in 1..Quantity
      /\ stops[s].orderId # NoOp /\ stops[s].requested = Quantity
      /\ \A t \in StopOp : stops[t].created => t = s
      /\ \A x \in ExitOp : ~Orders!Unresolved(x)
      /\ net = Quantity - call.fill
  BY <1>0, <1>1, InWindow
<1>q. Quantity \in Nat /\ call.fill \in Nat
  BY <1>2, QuantityAssumption
<1>3. /\ call.obs.state \in StopEnd
      /\ call.obs.priced => pnl[s] = call.fill
      /\ stops[s].priced <=> call.obs.priced
  BY <1>0, <1>1, <1>f DEF CtlInv, AtWindow
<1>4. UNCHANGED <<stops, orders, pnl, book, net, late, restarts>> /\ pos' = file'
  BY <1>0
<1>5. pos.exit = file.exit /\ pos.stage = file.stage /\ pos.reason = file.reason
  <2>1. pos = [file EXCEPT !.blocked = pos.blocked]
    BY <1>0, <1>2, <1>f DEF Mirror
  <2> QED
    BY <1>2, <2>1 DEF Position
<1>m. m \in BOOLEAN
  OBVIOUS
<1> HIDE DEF m
<1>6. /\ call.fill # pos.qty => r \in Position
      /\ r.qty = Quantity - call.fill /\ r.op = s /\ r.exit = file.exit /\ r.stage = file.stage
      /\ r.reason = file.reason /\ r.blocked
  <2>1. call.fill # pos.qty => pos.qty - call.fill \in Qty
    BY <1>2, <1>q DEF Qty
  <2>2. pos \in Position
    BY <1>2
  <2>3. /\ r.qty = pos.qty - call.fill /\ r.op = pos.op /\ r.exit = pos.exit
        /\ r.stage = pos.stage /\ r.reason = pos.reason /\ r.blocked
    BY <2>2 DEF Position
  <2>4. call.fill # pos.qty => r \in Position
    BY <1>m, <2>1, <2>2 DEF Position
  <2> QED
    BY <1>1, <1>2, <1>5, <2>3, <2>4
<1> HIDE DEF r
<1>7. file' = NoPosition \/ (file' # NoPosition /\ file' = r /\ call.fill # Quantity)
  BY <1>0, <1>2, <1>6, NoPositionAssumption
<1>8. LocalQty(file)' + stops[s].applied = Quantity
  <2>1. file' = NoPosition => call.fill = Quantity
    BY <1>0, <1>2, <1>6, NoPositionAssumption
  <2> QED
    BY <1>2, <1>6, <1>7, <1>q, <2>1 DEF LocalQty
<1>9. BooksInv'
  BY <1>4, <1>f, StoppedStill, ExitsStill, AlikeKeepsBooks
<1>10. /\ NoExitYet' /\ \A x \in ExitOp : ~Orders!Unresolved(x)'
       /\ \A t \in StopOp : stops'[t].created => t = s
  BY <1>2, <1>4 DEF NoExitYet, Orders!Unresolved
<1>11. MoneyInv'
  <2>1. /\ LocalQty(file)' + stops'[s].applied >= Quantity
        /\ LocalQty(file)' + stops'[s].applied = Quantity
    BY <1>4, <1>8, <1>q
  <2>2. net' = Quantity - book'[s].filled
    BY <1>2, <1>4 DEF Settled, Applied
  <2>3. stops'[s].priced => pnl'[s] = stops'[s].applied
    BY <1>2, <1>3, <1>4
  <2> QED
    BY <1>2, <1>4, <1>10, <2>1, <2>2, <2>3 DEF MoneyInv
<1>12. FileInv'
  <2>1. \A a \in Family : file.exit[a].op = NoOp /\ ~(file.exit[a].filled > 0)
    <3>1. TAKE a \in Family
    <3>2. file.exit[a].op \in ExitOp \cup {NoOp}
      BY <1>2 DEF Position
    <3>3. file.exit[a].op = NoOp
      BY <1>2, <1>f, <3>2 DEF FileInv, NoExitYet
    <3> QED
      BY <1>2, <1>f, <3>3 DEF FileInv
  <2>2. file.stage = "NONE" /\ file.reason # "SCALP"
        /\ \A a \in Family : file.exit[a].filled = 0
    BY <1>2, <1>f, <2>1 DEF FileInv
  <2> QED
    BY <1>2, <1>4, <1>6, <1>7, <2>1, <2>2 DEF FileInv
<1>13. NamedInv'
  BY <1>2, <1>4, <1>6, <1>7 DEF NamedInv
<1>14. CoverInv' /\ Mirror'
  <2>1. file' # NoPosition => file'.blocked /\ file' \in Position
    BY <1>2, <1>6, <1>7
  <2>2. file' # NoPosition => pos' = [file' EXCEPT !.blocked = pos'.blocked]
    BY <1>4, <2>1 DEF Position
  <2> QED
    BY <1>4, <2>1, <2>2 DEF CoverInv, Covers, Mirror
<1>15. call \in Call /\ call.then # "finalize" /\ call.reason # "SCALP"
       /\ (call.action # "NONE" => call.full) /\ call.op = NoOp
  BY <1>0, <1>f DEF TypeOK, CtlInv, AtExit
<1>16. /\ {pos, file}' \subseteq Position \cup {NoPosition}
  BY <1>2, <1>4, <1>6, <1>7
<1>17. Held' => Identified'
  <2>1. SUFFICES ASSUME file' # NoPosition PROVE Identified'
    BY <1>4 DEF Held
  <2>2. pos' = r /\ Quantity - call.fill > 0 /\ Quantity - call.fill + call.fill = Quantity
    BY <1>2, <1>4, <1>7, <1>q, <2>1
  <2> QED
    BY <1>2, <1>4, <1>6, <2>2 DEF Identified
<1>18. Settled(s)'
  BY <1>2, <1>4 DEF Settled, Applied, Broker!Ended, Broker!Is
<1>19. CASE call.obs.priced
  <2>1. /\ call' \in Call /\ call'.stop = s /\ call'.then = call.then
        /\ call'.reason = call.reason /\ call'.obs = call.obs
        /\ call'.action = call.action /\ call'.full = call.full /\ pc' = "resolveStop"
        /\ call'.op = NoOp
    BY <1>0, <1>1, <1>15, <1>19 DEF Call
  <2>2. Held' => pos'.op = s
    BY <1>4, <1>6, <1>7 DEF Held
  <2>3. AtResolve'
    BY <1>2, <1>3, <1>4, <1>8, <1>17, <1>18, <2>1, <2>2 DEF AtResolve
  <2>4. CtlInv'
    BY <1>15, <2>1, <2>3 DEF CtlInv, AtPlacing, AtApply, AtWindow, AtExit, AtResult,
      Labels, HeldLabels, Named, Placing
  <2>5. TypeOK'
    BY <1>4, <1>16, <1>f, <2>1, TypesStill DEF TypeOK
  <2> QED
    BY <1>9, <1>11, <1>12, <1>13, <1>14, <1>f, <2>4, <2>5 DEF FullInv
<1>20. CASE ~call.obs.priced
  <2>1. IF pos' = NoPosition THEN pc' = call.next /\ call' = NoCall
        ELSE pc' = (IF call.action = "NONE" THEN "decide" ELSE "clear") /\ call' = call
    BY <1>0, <1>20 DEF AfterApply
  <2>2. CASE pos' = NoPosition
    <3>1. CtlInv' /\ call' \in Call
      BY <1>15, <2>1, <2>2, AtRest, QuantityAssumption DEF Call
    <3>2. TypeOK'
      BY <1>4, <1>16, <1>f, <3>1, TypesStill DEF TypeOK
    <3> QED
      BY <1>9, <1>11, <1>12, <1>13, <1>14, <1>f, <3>1, <3>2 DEF FullInv
  <2>3. CASE pos' # NoPosition
    <3>1. Held' /\ Identified' /\ Settled(pos.op)' /\ call' = call
      BY <1>4, <1>6, <1>7, <1>17, <1>18, <2>1, <2>3 DEF Held
    <3>2. pc' \in {"decide", "clear"} /\ (pc' = "decide" => call.action = "NONE")
          /\ (pc' = "clear" => call.action \in Family /\ call.full)
      BY <1>15, <2>1, <2>3 DEF Call
    <3>3. CtlInv'
      BY <1>3, <1>15, <3>1, <3>2 DEF CtlInv, AtPlacing, AtApply, AtWindow, AtResolve, AtExit, AtResult,
      Labels, HeldLabels, Named, Placing
    <3>4. TypeOK'
      BY <1>4, <1>16, <1>f, <1>15, <3>1, TypesStill DEF TypeOK
    <3> QED
      BY <1>9, <1>11, <1>12, <1>13, <1>14, <1>f, <3>3, <3>4 DEF FullInv
  <2> QED
    BY <2>2, <2>3
<1> QED
  BY <1>19, <1>20

LEMMA ResolveStopKeeps ==
  ASSUME FullInv, ResolveStop PROVE FullInv'
<1>f. /\ TypeOK /\ BooksInv /\ CtlInv /\ MoneyInv /\ FileInv /\ NamedInv /\ CoverInv /\ Mirror
      /\ ~Hybrid
  BY DEF FullInv
<1>0. /\ pc = "resolveStop" /\ AfterApply
      /\ Stop!MarkResolved(IF Held THEN pos.op ELSE call.stop)
      /\ UNCHANGED <<orders, file, pnl, pos, book, net, late, restarts>>
  BY DEF ResolveStop
<1>1. PICK s \in StopOp : s = IF Held THEN pos.op ELSE call.stop
  BY <1>0, <1>f DEF CtlInv, AtResolve
<1>2. /\ stops[s].created /\ Settled(s) /\ LocalQty(file) + stops[s].applied = Quantity
      /\ Held => Identified /\ call.obs.state \in StopEnd
  BY <1>0, <1>1, <1>f DEF CtlInv, AtResolve
<1>3. /\ Stop!TypeOK'
      /\ \A t \in StopOp : t # s => stops'[t] = stops[t]
      /\ stops'[s].created
      /\ stops'[s].applied = stops[s].applied
      /\ stops'[s].priced <=> stops[s].priced
      /\ stops'[s].orderId = stops[s].orderId
      /\ stops'[s].requested = stops[s].requested
      /\ stops'[s].resolved
      /\ Stop!Requested(s)' <=> Stop!Requested(s)
      /\ stops'[s].reason = stops[s].reason
  BY <1>0, <1>1, <1>f, ResolvedStop
<1>4. UNCHANGED <<orders, file, pnl, pos, book, net, late, restarts>>
  BY <1>0
<1>5. \A t \in StopOp : stops[t].created => t = s
  BY <1>2, <1>f DEF BooksInv
<1>6. stops[s].priced => pnl[s] = stops[s].applied
  <2>1. LocalQty(file) + stops[s].applied <= Quantity
    BY <1>2, QuantityAssumption
  <2> QED
    BY <1>2, <1>f, <2>1 DEF MoneyInv
<1>7. BooksInv'
  <2>1. \A o \in Op : OrderShape(o)'
    BY <1>4, <1>f DEF BooksInv, OrderShape, Broker!Is
  <2>2. \A t \in StopOp : t # s => StopShape(t)'
    BY <1>3, <1>4, <1>f DEF BooksInv, StopShape, Stop!Requested, Broker!Is, Broker!Ended,
      Broker!Accepted
  <2>3. StopShape(s)'
    <3>1. StopShape(s)
      BY <1>f DEF BooksInv
    <3> QED
      BY <1>2, <1>3, <1>4, <1>6, <3>1 DEF StopShape, Settled, Applied, Broker!Is, Broker!Ended,
        Broker!Accepted
  <2>4. \A x \in ExitOp : ExitShape(x)'
    BY <1>4, <1>f DEF BooksInv, ExitShape, Broker!Is, Broker!Ended, Broker!Accepted
  <2>5. \A t, u \in StopOp : stops'[t].created /\ stops'[u].created => t = u
    BY <1>3, <1>5
  <2>6. \A x, y \in ExitOp : Orders!Unresolved(x)' /\ Orders!Unresolved(y)' => x = y
    BY <1>4, <1>f DEF BooksInv, Orders!Unresolved
  <2> QED
    BY <2>1, <2>2, <2>3, <2>4, <2>5, <2>6 DEF BooksInv
<1>8. MoneyInv'
  <2>1. /\ NoExitYet' <=> NoExitYet
        /\ \A x \in ExitOp : Orders!Unresolved(x)' <=> Orders!Unresolved(x)
        /\ \A x \in ExitOp : Saved(x)' = Saved(x)
        /\ LocalQty(file)' = LocalQty(file)
    BY <1>4 DEF NoExitYet, Orders!Unresolved, Saved, LocalQty
  <2>2. \A t \in StopOp : stops'[t].created => t = s
    BY <1>3, <1>5
  <2>3. ASSUME NEW t \in StopOp, stops'[t].created
        PROVE  /\ stops'[t].priced /\ LocalQty(file)' + stops'[t].applied <= Quantity
                    => pnl'[t] = stops'[t].applied
               /\ NoExitYet' =>
                    /\ net' = Quantity - book'[t].filled
                    /\ LocalQty(file)' + stops'[t].applied >= Quantity
                    /\ stops'[t].resolved => LocalQty(file)' + stops'[t].applied = Quantity
               /\ ~NoExitYet' =>
                    /\ Broker!Ended(t)' /\ Applied(t)'
                    /\ LocalQty(file)' + stops'[t].applied <= Quantity
    <3>1. t = s
      BY <2>2, <2>3
    <3>2. Applied(s)' /\ Broker!Ended(s)'
      BY <1>2, <1>3, <1>4 DEF Settled, Applied, Broker!Ended, Broker!Is
    <3> QED
      BY <1>2, <1>3, <1>4, <1>6, <1>f, <2>1, <3>1, <3>2 DEF MoneyInv
  <2>4. ASSUME NEW x \in ExitOp, Orders!Unresolved(x)'
        PROVE  /\ net' = orders'[x].requested - book'[x].filled
               /\ IF file' = NoPosition THEN book'[x].filled = orders'[x].requested
                  ELSE /\ file'.qty = orders'[x].requested - Saved(x)'
                       /\ Saved(x)' <= book'[x].filled
                       /\ \A a \in Family : file'.exit[a].filled > 0 =>
                            file'.exit[a].op = x /\ orders'[x].action = a
    BY <1>4, <1>f, <2>1, <2>4 DEF MoneyInv
  <2>5. ~NoExitYet' /\ (\A x \in ExitOp : ~Orders!Unresolved(x)') => LocalQty(file)' = net'
    BY <1>4, <1>f, <2>1 DEF MoneyInv
  <2> QED
    BY <1>3, <2>3, <2>4, <2>5 DEF MoneyInv
<1>9. FileInv'
  <2>1. file = NoPosition \/ (file \in Position /\ (file.op # NoOp => file.op \in StopOp))
    BY <1>f DEF TypeOK, Position
  <2>2. \A t \in StopOp : /\ stops'[t].created <=> stops[t].created
                          /\ stops'[t].applied = stops[t].applied
    BY <1>2, <1>3
  <2> QED
    BY <1>4, <1>f, <2>1, <2>2 DEF FileInv
<1>10. NamedInv'
  <2>1. file = NoPosition \/ file.op = s
    <3>1. SUFFICES ASSUME file # NoPosition PROVE file.op = s
      OBVIOUS
    <3>2. Held /\ pos = [file EXCEPT !.blocked = pos.blocked] /\ file \in Position
      BY <1>0, <1>f, <3>1 DEF Mirror, Held, TypeOK
    <3>3. pos.op = file.op
      BY <3>2 DEF Position
    <3> QED
      BY <1>1, <3>2, <3>3
  <2> QED
    BY <1>3, <1>4, <1>5, <2>1 DEF NamedInv
<1>11. CoverInv'
  BY <1>0, <1>4, <1>f DEF CoverInv, Covers, Mirror, Broker!Accepted, Broker!Is
<1>12. Mirror'
  BY <1>0, <1>4, <1>f DEF Mirror
<1>13. Settled(s)' /\ (Held' <=> Held) /\ (Held => Identified')
  BY <1>1, <1>2, <1>3, <1>4 DEF Settled, Applied, Broker!Ended, Broker!Is, Held, Identified
<1>14. call \in Call /\ call.then # "finalize" /\ call.reason # "SCALP"
       /\ (call.action # "NONE" => call.full) /\ call.op = NoOp
  BY <1>0, <1>f DEF TypeOK, CtlInv, AtExit
<1>15. CtlInv' /\ call' \in Call
  <2>1. CASE pos' = NoPosition
    <3>1. pc' = call.next /\ call' = NoCall
      BY <1>0, <2>1 DEF AfterApply
    <3> QED
      BY <1>14, <3>1, AtRest, QuantityAssumption DEF Call
  <2>2. CASE pos' # NoPosition
    <3>1. /\ call' = call
          /\ pc' = IF call.action = "NONE" THEN "decide" ELSE "clear"
          /\ Held /\ Held'
      BY <1>0, <1>4, <2>2 DEF AfterApply, Held
    <3>2. pc' \in {"decide", "clear"} /\ (pc' = "decide" => call.action = "NONE")
          /\ (pc' = "clear" => call.action \in Family /\ call.full)
      BY <1>14, <3>1 DEF Call
    <3>3. Identified' /\ Settled(pos.op)'
      BY <1>1, <1>4, <1>13, <3>1
    <3> QED
      BY <1>2, <1>14, <3>1, <3>2, <3>3 DEF CtlInv, AtPlacing, AtApply, AtWindow, AtResolve, AtExit, AtResult,
      Labels, HeldLabels, Named, Placing
  <2> QED
    BY <2>1, <2>2
<1>16. TypeOK'
  BY <1>3, <1>4, <1>15, <1>f, TypesStill DEF TypeOK
<1> QED
  BY <1>7, <1>8, <1>9, <1>10, <1>11, <1>12, <1>15, <1>16, <1>f DEF FullInv

\* A refusal or a decision is saved before anything is sent.
LEMMA BlockSaved ==
  ASSUME FullInv, Held, pc # "down", UNCHANGED <<stops, orders, pnl, book, net>>,
         pos' = file', file' = [pos EXCEPT !.blocked = TRUE]
  PROVE  /\ FlagSave /\ Covers(file)' /\ Held'
         /\ Identified' <=> Identified
<1>1. pos \in Position
  BY DEF FullInv, TypeOK, Held
<1>2. /\ pos.pending \in BOOLEAN /\ pos.protected \in BOOLEAN /\ pos.manual \in BOOLEAN
      /\ TRUE \in BOOLEAN
      /\ file' = [pos EXCEPT !.pending = pos.pending, !.protected = pos.protected,
                             !.blocked = TRUE, !.manual = pos.manual]
  BY <1>1 DEF Position
<1>3. FlagSave /\ Covers(file)' /\ (Identified' <=> Identified)
  BY <1>2, FlagsOnly
<1> QED
  BY <1>3, FlagSaveKeeps

LEMMA NoExitKeeps ==
  ASSUME FullInv, NoExit PROVE FullInv'
<1>f. /\ TypeOK /\ BooksInv /\ CtlInv /\ CoverInv /\ Mirror /\ ~Hybrid
  BY DEF FullInv
<1>0. /\ pc = "decide" /\ pc' = call.next /\ call' = NoCall
      /\ pos' \in {pos, [pos EXCEPT !.blocked = TRUE]}
      /\ UNCHANGED <<stops, orders, file, pnl, book, net, late, restarts>>
  BY DEF NoExit
<1>1. Held /\ pos \in Position /\ file # NoPosition /\ file \in Position
      /\ pos = [file EXCEPT !.blocked = pos.blocked]
  BY <1>0, <1>f DEF CtlInv, Labels, HeldLabels, TypeOK, Held, Mirror
<1>2. StopsAlike /\ \A y \in ExitOp : SameExit(y)
  BY <1>0, <1>f, StoppedStill, ExitsStill
<1>3. BooksInv' /\ MoneyInv' /\ FileInv' /\ NamedInv'
  BY <1>0, <1>2, AlikeKeepsBooks, AlikeKeepsMoney DEF Alike
<1>4. CtlInv' /\ call' \in Call
  BY <1>0, <1>f, AtRest, QuantityAssumption DEF TypeOK, Call
<1>5. pos' \in Position /\ pos' = [file EXCEPT !.blocked = pos'.blocked]
      /\ (pos' = pos \/ pos'.blocked)
  <2>1. CASE pos' = pos
    BY <2>1, <1>1
  <2>2. CASE pos' = [pos EXCEPT !.blocked = TRUE]
    <3>1. pos' \in Position
      BY <2>2, <1>1 DEF Position
    <3>2. pos'.blocked
      BY <2>2, <1>1 DEF Position
    <3>3. pos' = [file EXCEPT !.blocked = TRUE]
      BY <2>2, <1>1
    <3> QED
      BY <3>1, <3>2, <3>3
  <2> QED
    BY <2>1, <2>2, <1>0
<1>6. TypeOK'
  BY <1>0, <1>4, <1>5, <1>f, TypesStill DEF TypeOK
<1>7. CoverInv' /\ Mirror'
  BY <1>0, <1>1, <1>5, <1>f, NoPositionAssumption
  DEF CoverInv, Covers, Mirror, Broker!Accepted, Broker!Is
<1> QED
  BY <1>3, <1>4, <1>6, <1>7, <1>f DEF FullInv

\* Without the hybrid plan every exit is a full one.
LEMMA DecideExitKeeps ==
  ASSUME FullInv, DecideExit PROVE FullInv'
<1>f. /\ TypeOK /\ BooksInv /\ CtlInv /\ FileInv /\ Mirror
  BY DEF FullInv
<1>0. /\ pc = "decide" /\ pc' = "request" /\ pos' = file'
      /\ file' = [pos EXCEPT !.blocked = TRUE]
      /\ UNCHANGED <<stops, orders, pnl, book, net, late, restarts>>
  BY DEF DecideExit, Prepare
<1>1. /\ Held /\ Identified /\ pos \in Position /\ file # NoPosition /\ file \in Position
      /\ pos = [file EXCEPT !.blocked = pos.blocked]
  BY <1>0, <1>f DEF CtlInv, Labels, HeldLabels, Named, TypeOK, Held, Mirror
<1>2. pos.stage = "NONE"
  BY <1>1, <1>f DEF FileInv, Position
<1>3. PICK reason \in ExitReasons : Prepare("EXIT", reason, Wanted(reason), "idle")
  BY DEF DecideExit
<1>4. reason = "FULL"
  <2>1. pos.op \in StopOp
    BY <1>1, <1>f, KnownStop
  <2>2. Resumed => stops[pos.op].reason = "FULL"
    BY <1>f, <2>1 DEF Resumed, BooksInv, StopShape
  <2> QED
    BY <1>2, <2>2 DEF ExitReasons
<1>5. /\ call' = [call EXCEPT !.action = "EXIT", !.reason = "FULL", !.want = pos.qty,
                              !.full = (pos.qty = pos.qty), !.next = "idle", !.fill = 0]
  BY <1>3, <1>4 DEF Prepare, Wanted
<1>6. call \in Call /\ call.then # "finalize" /\ late' \in BOOLEAN /\ call.op = NoOp
  BY <1>0, <1>f DEF TypeOK, CtlInv, AtExit
<1>7. pos.qty \in Qty /\ 0 \in Qty
  BY <1>1, QuantityAssumption DEF Position, Qty
<1>8. /\ call' \in Call /\ call'.action = "EXIT" /\ call'.full /\ call'.reason = "FULL"
      /\ call'.then = call.then /\ call'.op = NoOp
  BY <1>5, <1>6, <1>7 DEF Call, Family, Reasons
<1>9. FlagSave /\ Covers(file)' /\ Held' /\ (Identified' <=> Identified)
  BY <1>0, <1>1, BlockSaved
<1>10. CtlInv'
  BY <1>0, <1>6, <1>8, <1>9 DEF CtlInv, AtPlacing, AtApply, AtWindow, AtResolve, AtExit, AtResult,
      Labels, HeldLabels, Named, Placing, Family
<1> QED
  BY <1>0, <1>6, <1>8, <1>9, <1>10, SaveStep

LEMMA SquareOffKeeps ==
  ASSUME FullInv, SquareOff PROVE FullInv'
<1>f. /\ TypeOK /\ BooksInv /\ CtlInv /\ Mirror
  BY DEF FullInv
<1>0. /\ pc = "idle" /\ late' = TRUE
      /\ UNCHANGED <<stops, orders, pnl, book, net, restarts>>
  BY DEF SquareOff
<1>6. call \in Call /\ call.then # "finalize" /\ call.op = NoOp
  BY <1>0, <1>f DEF TypeOK, CtlInv, NoCall
<1>1. CASE Held
  <2>1. /\ Prepare("FORCE_EXIT", "FULL", pos.qty, "ended")
        /\ pos' = [pos EXCEPT !.blocked = TRUE] /\ file' = pos'
    BY <1>1 DEF SquareOff
  <2>2. pos \in Position
    BY <1>1, <1>f DEF TypeOK, Held
  <2>3. pos.qty \in Qty /\ 0 \in Qty
    BY <2>2, QuantityAssumption DEF Position, Qty
  <2>4. call' = [call EXCEPT !.action = "FORCE_EXIT", !.reason = "FULL", !.want = pos.qty,
                             !.full = (pos.qty = pos.qty), !.next = "ended", !.fill = 0]
        /\ pc' = "request"
    BY <2>1 DEF Prepare
  <2>5. /\ call' \in Call /\ call'.action = "FORCE_EXIT" /\ call'.full /\ call'.reason = "FULL"
        /\ call'.then = call.then /\ call'.op = NoOp
    BY <1>6, <2>3, <2>4 DEF Call, Family, Reasons
  <2>6. FlagSave /\ Covers(file)' /\ Held' /\ (Identified' <=> Identified)
    BY <1>0, <1>1, <2>1, BlockSaved
  <2>7. CtlInv'
    BY <1>6, <2>4, <2>5, <2>6 DEF CtlInv, AtPlacing, AtApply, AtWindow, AtResolve, AtExit, AtResult,
      Labels, HeldLabels, Named, Placing, Family
  <2> QED
    BY <1>0, <2>5, <2>6, <2>7, SaveStep
<1>2. CASE ~Held
  <2>1. pc' = "ended" /\ UNCHANGED <<call, pos, file>> /\ call = NoCall
    BY <1>0, <1>2, <1>f DEF SquareOff, CtlInv
  <2>2. StopsAlike /\ \A y \in ExitOp : SameExit(y)
    BY <1>0, <1>f, StoppedStill, ExitsStill
  <2>3. BooksInv' /\ MoneyInv' /\ FileInv' /\ NamedInv'
    BY <1>0, <2>1, <2>2, AlikeKeepsBooks, AlikeKeepsMoney DEF Alike
  <2>4. CtlInv' /\ call' \in Call
    BY <2>1, AtRest, QuantityAssumption
  <2>5. TypeOK'
    BY <1>0, <2>1, <2>4, <1>f, TypesStill DEF TypeOK
  <2>6. CoverInv' /\ Mirror' /\ ~Hybrid
    BY <1>0, <2>1, <1>f DEF CoverInv, Covers, Mirror, Broker!Accepted, Broker!Is, FullInv
  <2> QED
    BY <2>3, <2>4, <2>5, <2>6 DEF FullInv
<1> QED
  BY <1>1, <1>2

LEMMA RequestCoordinationKeeps ==
  ASSUME FullInv, RequestCoordination PROVE FullInv'
<1>f. TypeOK /\ BooksInv /\ CtlInv
  BY DEF FullInv
<1>0. /\ pc = "request" /\ call' = call
      /\ UNCHANGED <<orders, file, pnl, pos, book, net, late, restarts>>
  BY DEF RequestCoordination
<1>1. Held /\ call.action \in Family /\ call.full /\ call.op = NoOp /\ call.reason = "FULL" /\ call.then # "finalize"
  BY <1>0, <1>f DEF CtlInv, AtExit, Labels, HeldLabels
<1>2. Held' /\ call \in Call /\ \A y \in ExitOp : SameExit(y)
  BY <1>0, <1>1, <1>f, ExitsStill DEF Held, TypeOK
<1>3. CASE Identified
  <2>1. Stop!RequestCoordination(pos.op, call.action, "FULL", pos.qty) /\ pc' = "coordinate"
    BY <1>1, <1>3 DEF RequestCoordination
  <2>2. PICK s \in StopOp : s = pos.op
    BY <1>1, <1>3, <1>f, KnownStop
  <2>3. PICK a \in Family : a = call.action
    BY <1>1
  <2>4. PICK q \in Qty : q = pos.qty
    BY <1>1, <1>f DEF TypeOK, Held, Position
  <2>5. Stop!RequestCoordination(s, a, "FULL", q)
    BY <2>1, <2>2, <2>3, <2>4
  <2>6. Stop!TypeOK' /\ StopsAlike
    BY <1>f, <2>5, CoordinatedStop
  <2>7. Identified'
    BY <1>0, <1>1, <1>3, <2>6, IdentifiedStill
  <2>8. CtlInv'
    BY <1>0, <1>1, <1>2, <2>1, <2>7 DEF CtlInv, AtPlacing, AtApply, AtWindow, AtResolve, AtExit, AtResult,
      Labels, HeldLabels, Named, Placing
  <2> QED
    BY <1>0, <1>2, <1>f, <2>6, <2>8, TypesStill, QuietStep
<1>4. CASE ~Identified
  <2>1. pc' = "block" /\ UNCHANGED stops
    BY <1>4 DEF RequestCoordination
  <2>2. CtlInv'
    BY <1>0, <1>1, <1>2, <2>1 DEF CtlInv, AtPlacing, AtApply, AtWindow, AtResolve, AtExit, AtResult,
      Labels, HeldLabels, Named, Placing
  <2> QED
    BY <1>0, <1>2, <1>f, <2>1, <2>2, StoppedStill, TypesStill, QuietStep
<1> QED
  BY <1>3, <1>4

LEMMA ReserveCancelKeeps ==
  ASSUME FullInv, ReserveCancel PROVE FullInv'
<1>f. TypeOK /\ BooksInv /\ CtlInv
  BY DEF FullInv
<1>0. /\ pc = "reserveCancel" /\ pc' = "cancelStop" /\ call' = call
      /\ Stop!ReserveCancel(pos.op)
      /\ UNCHANGED <<orders, file, pnl, pos, book, net, late, restarts>>
  BY DEF ReserveCancel
<1>1. /\ Held /\ Identified /\ call.action \in Family /\ call.full /\ call.op = NoOp
      /\ call.reason # "SCALP" /\ call.then # "finalize"
  BY <1>0, <1>f DEF CtlInv, AtExit, Labels, HeldLabels, Named
<1>2. Held' /\ call \in Call /\ \A y \in ExitOp : SameExit(y)
  BY <1>0, <1>1, <1>f, ExitsStill DEF Held, TypeOK
<1>3. PICK s \in StopOp : s = pos.op
  BY <1>1, <1>f, KnownStop
<1>4. Stop!TypeOK' /\ StopsAlike
  BY <1>0, <1>3, <1>f, ReservedStop
<1>5. Identified'
  BY <1>0, <1>1, <1>4, IdentifiedStill
<1>6. CtlInv'
  BY <1>0, <1>1, <1>2, <1>5 DEF CtlInv, AtPlacing, AtApply, AtWindow, AtResolve, AtExit, AtResult,
      Labels, HeldLabels, Named, Placing
<1> QED
  BY <1>0, <1>2, <1>4, <1>6, <1>f, TypesStill, QuietStep

\* Asking for a cancellation says nothing about the order.
LEMMA CancelStopKeeps ==
  ASSUME FullInv, CancelStop PROVE FullInv'
<1>f. /\ TypeOK /\ BooksInv /\ CtlInv /\ MoneyInv /\ FileInv /\ NamedInv /\ CoverInv /\ Mirror
      /\ ~Hybrid
  BY DEF FullInv
<1>0. /\ pc = "cancelStop" /\ pc' = "coordinate" /\ call' = call
      /\ book' = [book EXCEPT ![pos.op].cancels = @ + 1]
      /\ UNCHANGED <<stops, orders, file, pnl, pos, net, late, restarts>>
  BY DEF CancelStop, Broker!AskCancel
<1>1. /\ Held /\ Identified /\ call.action \in Family /\ call.full /\ call.op = NoOp
      /\ call.reason # "SCALP" /\ call.then # "finalize"
  BY <1>0, <1>f DEF CtlInv, AtExit, Labels, HeldLabels, Named
<1>2. PICK s \in Op : s = pos.op
  BY <1>1, <1>f, KnownStop DEF Op
<1>3. /\ Broker!TypeOK'
      /\ \A o \in Op : /\ book'[o].status = book[o].status
                       /\ book'[o].qty = book[o].qty
                       /\ book'[o].filled = book[o].filled
  BY <1>0, <1>2, <1>f DEF TypeOK, Broker!TypeOK, Broker!Entry, Op
<1>4. \A o \in Op : /\ OrderShape(o)' <=> OrderShape(o)
                    /\ Broker!Ended(o)' <=> Broker!Ended(o)
                    /\ Broker!Accepted(o)' <=> Broker!Accepted(o)
                    /\ Broker!Is(o, {"NONE"})' <=> Broker!Is(o, {"NONE"})
  BY <1>3 DEF OrderShape, Broker!Ended, Broker!Accepted, Broker!Is
<1>5. BooksInv'
  <2>1. \A t \in StopOp : StopShape(t)'
    <3>1. TAKE t \in StopOp
    <3>2. t \in Op /\ StopShape(t)
      BY <1>f DEF Op, BooksInv
    <3> QED
      BY <1>0, <1>3, <1>4, <3>2 DEF StopShape, Stop!Requested
  <2>2. \A x \in ExitOp : ExitShape(x)'
    <3>1. TAKE x \in ExitOp
    <3>2. x \in Op /\ ExitShape(x)
      BY <1>f DEF Op, BooksInv
    <3> QED
      BY <1>0, <1>3, <1>4, <3>2 DEF ExitShape
  <2> QED
    BY <1>0, <1>4, <1>f, <2>1, <2>2 DEF BooksInv, Orders!Unresolved
<1>6. MoneyInv' /\ FileInv' /\ NamedInv'
  <2>1. (\A t \in StopOp : StillStop(t)) /\ \A x \in ExitOp : StillExit(x)
    BY <1>0 DEF StillStop, StillExit
  <2> QED
    BY <1>0, <1>3, <1>4, <2>1, MoneyStill
<1>7. Mirror'
  BY <1>0, <1>f DEF Mirror
<1>8. CoverInv'
  <2>1. ASSUME NEW p \in Position, p.op # NoOp PROVE p.op \in Op
    BY <2>1 DEF Position, Op
  <2>2. pos \in Position \cup {NoPosition} /\ file \in Position \cup {NoPosition}
    BY <1>f DEF TypeOK
  <2> QED
    BY <1>0, <1>3, <1>4, <1>f, <2>1, <2>2 DEF CoverInv, Covers
<1>9. Held' /\ Identified' /\ call' = call
  BY <1>0, <1>1 DEF Held, Identified
<1>10. CtlInv'
  BY <1>0, <1>1, <1>9 DEF CtlInv, AtPlacing, AtApply, AtWindow, AtResolve, AtExit, AtResult,
      Labels, HeldLabels, Named, Placing
<1>11. TypeOK'
  BY <1>0, <1>3, <1>f, TypesStill DEF TypeOK
<1> QED
  BY <1>5, <1>6, <1>7, <1>8, <1>10, <1>11, <1>f DEF FullInv

LEMMA ClearForExitKeeps ==
  ASSUME FullInv, ClearForExit PROVE FullInv'
<1>f. TypeOK /\ BooksInv /\ CtlInv
  BY DEF FullInv
<1>0. /\ pc = "clear" /\ pc' = "place" /\ pos' = file'
      /\ file' = [pos EXCEPT !.protected = FALSE, !.blocked = TRUE]
      /\ call' = [call EXCEPT !.want = IF call.action = "FORCE_EXIT" THEN pos.qty ELSE call.want]
      /\ UNCHANGED <<stops, orders, pnl, book, net, late, restarts>>
  BY DEF ClearForExit
<1>1. /\ Held /\ Identified /\ call.action \in Family /\ call.full /\ call.op = NoOp /\ Settled(pos.op)
      /\ call.reason # "SCALP" /\ call.then # "finalize" /\ pos \in Position
  BY <1>0, <1>f DEF CtlInv, AtExit, Labels, HeldLabels, Named, TypeOK, Held
<1>2. /\ pos.pending \in BOOLEAN /\ pos.manual \in BOOLEAN
      /\ file' = [pos EXCEPT !.pending = pos.pending, !.protected = FALSE,
                             !.blocked = TRUE, !.manual = pos.manual]
  BY <1>0, <1>1 DEF Position
<1>b. TRUE \in BOOLEAN /\ FALSE \in BOOLEAN
  OBVIOUS
<1>3. FlagSave /\ Covers(file)' /\ (Identified' <=> Identified)
  BY <1>0, <1>1, <1>2, <1>b, FlagsOnly
<1>4. Held' /\ pos'.op = pos.op
  BY <1>0, <1>1, <1>3, FlagSaveKeeps DEF Position
<1>5. Settled(pos.op)'
  BY <1>0, <1>1, <1>4 DEF Settled, Applied, Broker!Ended, Broker!Is
<1>6. /\ call' \in Call /\ call'.action = call.action /\ call'.full = call.full
      /\ call'.reason = call.reason /\ call'.then = call.then /\ call'.op = NoOp
  <2>1. pos.qty \in Qty
    BY <1>1 DEF Position
  <2> DEFINE w == IF call.action = "FORCE_EXIT" THEN pos.qty ELSE call.want
  <2>2. call \in Call /\ w \in Qty /\ call' = [call EXCEPT !.want = w]
    BY <1>0, <1>f, <2>1 DEF TypeOK, Call
  <2> HIDE DEF w
  <2> QED
    BY <1>1, <2>2 DEF Call
<1>7. CtlInv'
  BY <1>0, <1>1, <1>3, <1>4, <1>5, <1>6 DEF CtlInv, AtPlacing, AtApply, AtWindow, AtResolve, AtExit, AtResult,
      Labels, HeldLabels, Named, Placing
<1> QED
  BY <1>0, <1>3, <1>6, <1>7, <1>f, SaveStep DEF TypeOK

LEMMA StopResultKeeps ==
  ASSUME FullInv, StopResult PROVE FullInv'
<1>f. TypeOK /\ BooksInv /\ CtlInv /\ FileInv /\ Mirror
  BY DEF FullInv
<1>0. /\ pc = "stopResult" /\ pos' = file'
      /\ file' = WithStopResult(pos, call.stop, call.obs.state)
      /\ UNCHANGED <<stops, orders, pnl, book, net, late, restarts>>
  BY DEF StopResult
<1>1. PICK s \in StopOp : s = call.stop
  BY <1>0, <1>f DEF CtlInv, AtPlacing, Placing
<1>2. /\ Held /\ stops[s].created /\ call.then # "finalize"
      /\ call.obs.state = "ACTIVE" => Broker!Accepted(s)
  BY <1>0, <1>1, <1>f DEF CtlInv, AtPlacing, Placing, Labels, HeldLabels, Stop!Unresolved
<1>3. /\ pos \in Position /\ file \in Position /\ file # NoPosition
      /\ pos = [file EXCEPT !.blocked = pos.blocked]
  BY <1>0, <1>2, <1>f DEF TypeOK, Held, Mirror
<1>4. pos.reason # "SCALP"
  BY <1>3, <1>f DEF FileInv, Position
<1> DEFINE covered == call.obs.state = "ACTIVE" /\ stops[s].requested = pos.qty
<1>5. file' = [pos EXCEPT !.op = s, !.pending = FALSE, !.protected = covered,
                          !.blocked = ~covered, !.manual = ~covered]
  BY <1>0, <1>1 DEF WithStopResult
<1>6. covered \in BOOLEAN /\ (~covered) \in BOOLEAN
  OBVIOUS
<1>7. covered => Broker!Accepted(s) /\ book[s].qty = pos.qty
  <2>1. StopShape(s)
    BY <1>f DEF BooksInv
  <2> QED
    BY <1>2, <2>1 DEF StopShape, Broker!Accepted, Broker!Is
<1> HIDE DEF covered
<1>8. /\ file' \in Position
      /\ file'.qty = pos.qty /\ file'.exit = pos.exit /\ file'.stage = pos.stage
      /\ file'.reason = pos.reason /\ file'.op = s
      /\ file'.protected <=> covered
      /\ file'.blocked <=> ~covered
  <2>1. PICK u \in Position : u = [pos EXCEPT !.op = s]
    BY <1>3 DEF Position
  <2>2. u.qty = pos.qty /\ u.exit = pos.exit /\ u.stage = pos.stage /\ u.reason = pos.reason
        /\ u.op = s
    BY <1>3, <2>1 DEF Position
  <2>3. PICK f \in BOOLEAN, y \in BOOLEAN, n \in BOOLEAN, m \in BOOLEAN :
          f = FALSE /\ y = covered /\ n = ~covered /\ m = n
    BY <1>6
  <2>4. file' = WithFlags(u, f, y, n, m)
    BY <1>5, <2>1, <2>3 DEF WithFlags
  <2>5. /\ file' \in Position
        /\ file'.qty = u.qty /\ file'.op = u.op /\ file'.exit = u.exit
        /\ file'.stage = u.stage /\ file'.reason = u.reason
        /\ (file'.blocked <=> n) /\ (file'.protected <=> y)
    <3> DEFINE w == WithFlags(u, f, y, n, m)
    <3>1. w \in Position
      BY FlagsSet
    <3>2. w.qty = u.qty /\ w.op = u.op /\ w.exit = u.exit
      BY FlagsSet
    <3>3. w.stage = u.stage /\ w.reason = u.reason
      BY FlagsSet
    <3>4. (w.blocked <=> n) /\ (w.protected <=> y)
      BY FlagsSet
    <3> QED
      BY <2>4, <3>1, <3>2, <3>3, <3>4
  <2>6. (file'.protected <=> covered) /\ (file'.blocked <=> ~covered)
    BY <2>3, <2>5
  <2> QED
    BY <2>2, <2>5, <2>6
<1>9. FlagSave
  BY <1>0, <1>2, <1>4, <1>8 DEF FlagSave
<1>10. Covers(file)'
  BY <1>0, <1>7, <1>8, OpAssumption DEF Covers, Broker!Accepted, Broker!Is
<1>11. call \in Call
  BY <1>f DEF TypeOK
<1>12. CtlInv' /\ call' \in Call
  <2>1. CASE call.then = "idle"
    <3>1. pc' = call.next /\ call' = NoCall
      BY <2>1 DEF StopResult
    <3> QED
      BY <1>11, <3>1, AtRest, QuantityAssumption DEF Call
  <2>2. CASE call.then = "recoverExits"
    <3>1. pc' = "recoverExits" /\ call' = [NoCall EXCEPT !.recovering = TRUE]
      BY <2>2 DEF StopResult
    <3>2. NoCall \in Call
      BY AtRest, QuantityAssumption DEF NoCall, Call, NoAnswer, Answer, Qty
    <3>3. /\ call' \in Call /\ call'.then = "idle" /\ call'.reason = "NONE"
      BY <3>1, <3>2 DEF Call, NoCall
    <3> QED
      BY <3>1, <3>3 DEF CtlInv, AtPlacing, AtApply, AtWindow, AtResolve, AtExit, AtResult,
      Labels, HeldLabels, Named, Placing
  <2> QED
    BY <1>2, <1>11, <2>1, <2>2 DEF Call
<1> QED
  BY <1>0, <1>9, <1>10, <1>12, <1>f, SaveStep DEF TypeOK

\* The first intent: nothing was ever sent, and the position is the entry.
LEMMA CreateStopIntentKeeps ==
  ASSUME FullInv, CreateStopIntent PROVE FullInv'
<1>f. /\ TypeOK /\ BooksInv /\ CtlInv /\ MoneyInv /\ FileInv /\ NamedInv /\ CoverInv /\ Mirror
      /\ ~Hybrid
  BY DEF FullInv
<1>0. /\ pc = "protect" /\ pc' = "submitStop"
      /\ UNCHANGED <<orders, file, pnl, pos, book, net, late, restarts>>
  BY DEF CreateStopIntent
<1>1. PICK s \in StopOp : Stop!CreateIntent(s, Symbol, pos.qty) /\ call' = [call EXCEPT !.stop = s]
  BY DEF CreateStopIntent
<1>2. \A t \in StopOp : ~stops[t].created
  BY <1>0, <1>f DEF CtlInv, AtPlacing
<1>3. NoExitYet /\ net = Quantity /\ LocalQty(file) = Quantity
  BY <1>2, <1>f DEF MoneyInv
<1>4. /\ Held /\ pos \in Position /\ file \in Position /\ file # NoPosition
      /\ pos = [file EXCEPT !.blocked = pos.blocked]
  BY <1>0, <1>f DEF CtlInv, Labels, HeldLabels, TypeOK, Held, Mirror
<1>5. pos.qty = Quantity /\ file.qty = Quantity /\ Quantity \in Qty
  BY <1>3, <1>4, QuantityAssumption DEF LocalQty, Position, Qty
<1>6. /\ Stop!TypeOK'
      /\ \A t \in StopOp : t # s => stops'[t] = stops[t]
      /\ stops'[s].created
      /\ stops'[s].applied = 0
      /\ ~stops'[s].priced
      /\ stops'[s].orderId = NoOp
      /\ stops'[s].requested = Quantity
      /\ ~stops'[s].resolved
      /\ ~Stop!Requested(s)'
  <2>1. Stop!CreateIntent(s, Symbol, Quantity)
    BY <1>1, <1>5
  <2>2. PICK q \in Qty : q = Quantity
    BY <1>5
  <2>3. Stop!CreateIntent(s, Symbol, q)
    BY <2>1, <2>2
  <2> QED
    BY <1>f, <2>2, <2>3, CreatedStop
<1>7. /\ s \in Op /\ Broker!Is(s, {"NONE"}) /\ book[s].filled = 0 /\ pnl[s] = 0
      /\ \A x \in ExitOp : ~Orders!Unresolved(x)
  <2>1. StopShape(s) /\ OrderShape(s) /\ s \in Op /\ pnl[s] \in Nat
    BY <1>f DEF BooksInv, Op, TypeOK
  <2>2. Broker!Is(s, {"NONE"}) /\ stops[s].applied = 0 /\ pnl[s] <= 0
    BY <1>2, <2>1 DEF StopShape
  <2>3. book[s].filled = 0
    BY <2>1, <2>2 DEF OrderShape, Broker!Is
  <2> QED
    BY <1>3, <2>1, <2>2, <2>3 DEF NoExitYet, Orders!Unresolved
<1>8. \A t \in StopOp : stops'[t].created => t = s
  BY <1>2, <1>6
<1>9. BooksInv'
  <2>1. \A o \in Op : OrderShape(o)'
    BY <1>0, <1>f DEF BooksInv, OrderShape, Broker!Is
  <2>2. \A t \in StopOp : t # s => StopShape(t)'
    BY <1>0, <1>6, <1>f DEF BooksInv, StopShape, Stop!Requested, Broker!Is, Broker!Ended,
      Broker!Accepted
  <2>3. StopShape(s)'
    BY <1>0, <1>6, <1>7, QuantityAssumption DEF StopShape, Broker!Is
  <2>4. \A x \in ExitOp : ExitShape(x)'
    BY <1>0, <1>f DEF BooksInv, ExitShape, Broker!Is, Broker!Ended, Broker!Accepted
  <2>6. \A x, y \in ExitOp : Orders!Unresolved(x)' /\ Orders!Unresolved(y)' => x = y
    BY <1>0, <1>f DEF BooksInv, Orders!Unresolved
  <2> QED
    BY <1>8, <2>1, <2>2, <2>3, <2>4, <2>6 DEF BooksInv
<1>10. MoneyInv'
  <2>1. /\ NoExitYet' /\ LocalQty(file)' = Quantity /\ net' = Quantity
        /\ \A x \in ExitOp : ~Orders!Unresolved(x)'
    BY <1>0, <1>3, <1>7 DEF NoExitYet, LocalQty, Orders!Unresolved
  <2>2. LocalQty(file)' + stops'[s].applied >= Quantity /\ net' = Quantity - book'[s].filled
    BY <1>0, <1>6, <1>7, <2>1, QuantityAssumption
  <2> QED
    BY <1>6, <1>8, <2>1, <2>2 DEF MoneyInv
<1>11. FileInv'
  <2>1. file.op # NoOp => file.op \in StopOp
    BY <1>4 DEF Position
  <2>2. \A a \in Family : file.exit[a].op = NoOp /\ ~(file.exit[a].filled > 0)
    <3>1. TAKE a \in Family
    <3>2. file.exit[a].op \in ExitOp \cup {NoOp}
      BY <1>4 DEF Position
    <3>3. file.exit[a].op = NoOp
      BY <1>3, <1>4, <1>f, <3>2 DEF FileInv, NoExitYet
    <3> QED
      BY <1>4, <1>f, <3>3 DEF FileInv
  <2> QED
    BY <1>0, <1>2, <1>f, <2>1, <2>2 DEF FileInv
<1>12. NamedInv'
  BY <1>6, <1>8 DEF NamedInv, Stop!Unresolved
<1>13. CoverInv' /\ Mirror' /\ Held'
  BY <1>0, <1>4, <1>f DEF CoverInv, Covers, Mirror, Held, Broker!Accepted, Broker!Is
<1>14. /\ call' \in Call /\ call'.stop = s /\ call'.then = call.then /\ call'.reason = call.reason
       /\ call.then # "finalize" /\ call.reason # "SCALP"
  BY <1>1, <1>f DEF TypeOK, CtlInv, Call
<1>15. Stop!Unresolved(s)' /\ Broker!Is(s, {"NONE"})'
  BY <1>0, <1>6, <1>7 DEF Stop!Unresolved, Broker!Is
<1>16. CtlInv'
  BY <1>0, <1>6, <1>13, <1>14, <1>15 DEF CtlInv, AtPlacing, AtApply, AtWindow, AtResolve, AtExit, AtResult,
      Labels, HeldLabels, Named, Placing
<1>17. TypeOK'
  BY <1>0, <1>6, <1>14, <1>f, TypesStill DEF TypeOK
<1> QED
  BY <1>9, <1>10, <1>11, <1>12, <1>13, <1>16, <1>17, <1>f DEF FullInv

\* A request to the broker.
LEMMA SubmittedOrder ==
  ASSUME FullInv, NEW o \in Op, NEW q \in 1..Quantity, Broker!Submit(o, q),
         UNCHANGED <<stops, orders, file, pnl, pos>>, pc # "down",
         \/ o \in StopOp /\ q = stops[o].requested /\ stops[o].created
         \/ o \in ExitOp /\ q = orders[o].requested /\ orders[o].created
  PROVE  /\ Broker!TypeOK'
         /\ BooksInv' /\ MoneyInv' /\ FileInv' /\ NamedInv' /\ CoverInv' /\ Mirror'
<1>f. /\ TypeOK /\ BooksInv /\ CoverInv /\ Mirror
  BY DEF FullInv
<1>0. UNCHANGED <<stops, orders, file, pnl, pos>>
  OBVIOUS
<1>1. /\ Broker!TypeOK'
      /\ \A p \in Op : p # o => book'[p] = book[p]
      /\ book[o].status = "NONE" /\ book'[o].status = "SENT"
      /\ book'[o].qty = q /\ book'[o].filled = book[o].filled
      /\ net' = net
  <2>1. Broker!TypeOK
    BY <1>f DEF TypeOK
  <2>2. q \in 0..Quantity
    BY QuantityAssumption
  <2> QED
    BY <2>1, <2>2 DEF Broker!Submit, Broker!TypeOK, Broker!Entry, Broker!Status, Broker!Is, Op
<1>2. book[o].filled = 0 /\ book'[o].filled = 0
  BY <1>1, <1>f DEF BooksInv, OrderShape, Broker!Is
<1>3. \A p \in Op : /\ book'[p].filled = book[p].filled
                    /\ Broker!Ended(p)' <=> Broker!Ended(p)
                    /\ Broker!Accepted(p)' <=> Broker!Accepted(p)
                    /\ Broker!Accepted(p) => book'[p].qty = book[p].qty
  BY <1>1, <1>2 DEF Broker!Ended, Broker!Accepted, Broker!Is
<1>4. \A p \in Op : OrderShape(p)'
  <2>1. OrderShape(o)'
    BY <1>1, <1>2, QuantityAssumption DEF OrderShape, Broker!Is
  <2> QED
    BY <1>1, <1>f, <2>1 DEF BooksInv, OrderShape, Broker!Is
<1>5. \A s \in StopOp : StopShape(s)'
  <2>1. TAKE s \in StopOp
  <2>2. s \in Op /\ StopShape(s)
    BY <1>f DEF Op, BooksInv
  <2>3. CASE s # o
    BY <1>0, <1>1, <2>2, <2>3 DEF StopShape, Stop!Requested, Broker!Is, Broker!Ended, Broker!Accepted
  <2>4. CASE s = o
    <3>1. stops[s].created /\ q = stops[s].requested
      BY <2>1, <2>4, OpAssumption
    <3>2. stops[s].requested = Quantity /\ book'[s].qty = Quantity
      BY <1>1, <2>2, <2>4, <3>1 DEF StopShape
    <3> QED
      BY <1>0, <1>3, <2>2, <3>1, <3>2 DEF StopShape, Stop!Requested
  <2> QED
    BY <2>3, <2>4
<1>6. \A x \in ExitOp : ExitShape(x)'
  <2>1. TAKE x \in ExitOp
  <2>2. x \in Op /\ ExitShape(x)
    BY <1>f DEF Op, BooksInv
  <2>3. CASE x # o
    BY <1>0, <1>1, <2>2, <2>3 DEF ExitShape, Broker!Is, Broker!Ended, Broker!Accepted
  <2>4. CASE x = o
    <3>1. orders[x].created /\ q = orders[x].requested
      BY <2>1, <2>4, OpAssumption
    <3> QED
      BY <1>0, <1>1, <1>3, <2>2, <2>4, <3>1 DEF ExitShape
  <2> QED
    BY <2>3, <2>4
<1>7. BooksInv'
  BY <1>0, <1>4, <1>5, <1>6, <1>f DEF BooksInv, Orders!Unresolved
<1>8. MoneyInv' /\ FileInv' /\ NamedInv'
  <2>1. (\A s \in StopOp : StillStop(s)) /\ (\A x \in ExitOp : StillExit(x))
        /\ UNCHANGED <<net, pnl, file>>
    BY <1>0, <1>1 DEF StillStop, StillExit
  <2> QED
    BY <1>3, <2>1, MoneyStill
<1>9. CoverInv'
  <2>1. ASSUME NEW p \in Position, p.op # NoOp PROVE p.op \in Op
    BY <2>1 DEF Position, Op
  <2>2. pos \in Position \cup {NoPosition} /\ file \in Position \cup {NoPosition}
    BY <1>f DEF TypeOK
  <2> QED
    BY <1>0, <1>3, <1>f, <2>1, <2>2 DEF CoverInv, Covers
<1>10. Mirror'
  BY <1>0, <1>f DEF Mirror
<1> QED
  BY <1>1, <1>7, <1>8, <1>9, <1>10

LEMMA SubmitStopKeeps ==
  ASSUME FullInv, SubmitStop PROVE FullInv'
<1>f. TypeOK /\ BooksInv /\ CtlInv /\ ~Hybrid
  BY DEF FullInv
<1>0. /\ pc = "submitStop" /\ pc' = "attachStop" /\ call' = call
      /\ Broker!Submit(call.stop, stops[call.stop].requested)
      /\ UNCHANGED <<stops, orders, file, pnl, pos, late, restarts>>
  BY DEF SubmitStop
<1>1. PICK s \in StopOp : s = call.stop
  BY <1>0, <1>f DEF CtlInv, AtPlacing, Placing
<1>2. Stop!Unresolved(s) /\ stops[s].created /\ Held
  BY <1>0, <1>1, <1>f DEF CtlInv, AtPlacing, Placing, Labels, HeldLabels, Stop!Unresolved
<1>3. stops[s].requested = Quantity /\ Quantity \in 1..Quantity
  BY <1>2, <1>f, QuantityAssumption DEF BooksInv, StopShape
<1>4. PICK q \in 1..Quantity : q = stops[s].requested
  BY <1>3
<1>5. s \in Op /\ Broker!Submit(s, q)
  BY <1>0, <1>1, <1>4 DEF Op
<1>6. /\ Broker!TypeOK'
      /\ BooksInv' /\ MoneyInv' /\ FileInv' /\ NamedInv' /\ CoverInv' /\ Mirror'
  BY <1>0, <1>2, <1>4, <1>5, SubmittedOrder
<1>7. Stop!Unresolved(s)' /\ Held'
  BY <1>0, <1>2 DEF Stop!Unresolved, Held
<1>8. CtlInv'
  BY <1>0, <1>1, <1>7, <1>f DEF CtlInv, AtPlacing, AtApply, AtWindow, AtResolve, AtExit, AtResult,
      Labels, HeldLabels, Named, Placing
<1>9. TypeOK'
  BY <1>0, <1>6, <1>f, TypesStill DEF TypeOK
<1> QED
  BY <1>6, <1>8, <1>9, <1>f DEF FullInv

LEMMA AttachStopKeeps ==
  ASSUME FullInv, AttachStop PROVE FullInv'
<1>f. TypeOK /\ BooksInv /\ CtlInv /\ CoverInv /\ Mirror /\ ~Hybrid
  BY DEF FullInv
<1>0. /\ pc = "attachStop" /\ pc' = "verifyStop" /\ call' = call
      /\ Broker!Accepted(call.stop) /\ Stop!AttachOrderId(call.stop, call.stop)
      /\ UNCHANGED <<orders, file, pnl, pos, book, net, late, restarts>>
  BY DEF AttachStop
<1>1. PICK s \in StopOp : s = call.stop
  BY <1>0, <1>f DEF CtlInv, AtPlacing, Placing
<1>2. Stop!Unresolved(s) /\ stops[s].created /\ Held
  BY <1>0, <1>1, <1>f DEF CtlInv, AtPlacing, Placing, Labels, HeldLabels, Stop!Unresolved
<1>3. /\ Stop!TypeOK'
      /\ \A t \in StopOp : t # s => stops'[t] = stops[t]
      /\ stops'[s].orderId = s
      /\ stops'[s].created <=> stops[s].created
      /\ stops'[s].requested = stops[s].requested
      /\ stops'[s].applied = stops[s].applied
      /\ stops'[s].priced <=> stops[s].priced
      /\ stops'[s].resolved <=> stops[s].resolved
      /\ Stop!Requested(s)' <=> Stop!Requested(s)
      /\ stops'[s].reason = stops[s].reason
  BY <1>0, <1>1, <1>f, AttachedStop
<1>4. Broker!Accepted(s)' /\ s # NoOp
  BY <1>0, <1>1, OpAssumption DEF Broker!Accepted, Broker!Is
<1>5. BooksInv'
  <2>1. \A o \in Op : OrderShape(o)'
    BY <1>0, <1>f DEF BooksInv, OrderShape, Broker!Is
  <2>2. \A t \in StopOp : t # s => StopShape(t)'
    BY <1>0, <1>3, <1>f DEF BooksInv, StopShape, Stop!Requested, Broker!Is, Broker!Ended,
      Broker!Accepted
  <2>3. StopShape(s)'
    <3>1. StopShape(s)
      BY <1>f DEF BooksInv
    <3> QED
      BY <1>0, <1>2, <1>3, <1>4, <3>1 DEF StopShape, Broker!Is, Broker!Ended
  <2>4. \A x \in ExitOp : ExitShape(x)'
    BY <1>0, <1>f DEF BooksInv, ExitShape, Broker!Is, Broker!Ended, Broker!Accepted
  <2>5. \A t, u \in StopOp : stops'[t].created /\ stops'[u].created => t = u
    BY <1>3, <1>f DEF BooksInv
  <2>6. \A x, y \in ExitOp : Orders!Unresolved(x)' /\ Orders!Unresolved(y)' => x = y
    BY <1>0, <1>f DEF BooksInv, Orders!Unresolved
  <2> QED
    BY <2>1, <2>2, <2>3, <2>4, <2>5, <2>6 DEF BooksInv
<1>6. MoneyInv' /\ FileInv' /\ NamedInv'
  <2>1. (\A t \in StopOp : StillStop(t)) /\ (\A x \in ExitOp : StillExit(x))
        /\ UNCHANGED <<net, pnl, file>>
    BY <1>0, <1>3 DEF StillStop, StillExit
  <2>2. \A o \in Op : book'[o].filled = book[o].filled /\ (Broker!Ended(o)' <=> Broker!Ended(o))
    BY <1>0 DEF Broker!Ended, Broker!Is
  <2> QED
    BY <2>1, <2>2, MoneyStill
<1>7. CoverInv' /\ Mirror' /\ Held'
  BY <1>0, <1>2, <1>f DEF CoverInv, Covers, Mirror, Held, Broker!Accepted, Broker!Is
<1>8. Stop!Unresolved(s)'
  BY <1>2, <1>3 DEF Stop!Unresolved
<1>9. CtlInv'
  BY <1>0, <1>1, <1>3, <1>4, <1>7, <1>8, <1>f DEF CtlInv, AtPlacing, AtApply, AtWindow, AtResolve, AtExit, AtResult,
      Labels, HeldLabels, Named, Placing
<1>10. TypeOK'
  BY <1>0, <1>3, <1>f, TypesStill DEF TypeOK
<1> QED
  BY <1>5, <1>6, <1>7, <1>9, <1>10, <1>f DEF FullInv

\* No order was placed, or its fate is unknown: nothing is applied.
LEMMA NoExitPlacedKeeps ==
  ASSUME FullInv, pc \in {"place", "attachExit"}, NEW st \in {"DONE", "PENDING"},
         NoExitPlaced(st), pc = "attachExit" => st = "PENDING"
  PROVE  FullInv'
<1>f. TypeOK /\ BooksInv /\ CtlInv
  BY DEF FullInv
<1>0. /\ pc' = "result"
      /\ call' = [call EXCEPT !.obs = [NoAnswer EXCEPT !.state = st], !.fill = 0]
      /\ UNCHANGED <<stops, orders, file, pnl, pos, book, net, late, restarts>>
  BY DEF NoExitPlaced
<1>1. Held /\ pos \in Position /\ call.action \in Family /\ call.reason # "SCALP" /\ call.then # "finalize"
  BY <1>f DEF CtlInv, AtExit, Labels, HeldLabels, TypeOK, Held
<1>2. StopsAlike /\ \A y \in ExitOp : SameExit(y)
  BY <1>0, <1>f, StoppedStill, ExitsStill
<1> DEFINE none == [NoAnswer EXCEPT !.state = st]
<1>q. 0 \in Qty /\ FALSE \in BOOLEAN
  BY QuantityAssumption DEF Qty
<1>r. NoAnswer \in Answer
  BY <1>q DEF NoAnswer, Answer
<1>s. NoAnswer.filled = 0
  BY DEF NoAnswer
<1>3. /\ none.state = st /\ none.filled = 0
      /\ none \in Answer /\ 0 \in Qty
  BY <1>q, <1>r, <1>s DEF Answer
<1> HIDE DEF none
<1>t. call' = [call EXCEPT !.obs = none, !.fill = 0]
  BY <1>0 DEF none
<1>4. /\ call' \in Call /\ call'.obs = none /\ call'.fill = 0
      /\ call'.action = call.action /\ call'.reason = call.reason /\ call'.then = call.then
      /\ call'.op = call.op
  BY <1>t, <1>3, <1>f DEF TypeOK, Call
<1>5. AtResult'
  <2>1. CASE pc = "place"
    <3>1. call'.op = NoOp
      BY <1>4, <1>f, <2>1 DEF CtlInv, AtExit
    <3> QED
      BY <1>0, <1>1, <1>4, <3>1, QuantityAssumption DEF AtResult, Position, Qty
  <2>2. CASE pc = "attachExit"
    <3>1. PICK x \in ExitOp : x = call.op
      BY <1>f, <2>2 DEF CtlInv, AtExit
    <3>2. /\ Orders!Unresolved(x) /\ orders[x].action = call.action
          /\ \A a \in Family : file.exit[a].op # x
      BY <1>f, <2>2, <3>1 DEF CtlInv, AtExit
    <3>3. Saved(x) = 0
      BY <1>1, <3>2 DEF Saved
    <3>4. Orders!Unresolved(x)' /\ Saved(x)' = 0 /\ orders'[x].action = call.action
      BY <1>0, <3>2, <3>3 DEF Orders!Unresolved, Saved
    <3>5. 0 <= book'[x].filled /\ 0 \in 0..pos'.qty /\ 0 = 0 - 0
      BY <1>0, <1>1, <1>f, QuantityAssumption DEF TypeOK, Broker!TypeOK, Broker!Entry, Op, Position, Qty
    <3>6. call'.op = x /\ call'.fill = 0 /\ call'.obs.filled = 0 /\ call'.obs.state = "PENDING"
      BY <1>3, <1>4, <2>2, <3>1
    <3>7. x # NoOp
      BY OpAssumption
    <3> QED
      BY <1>0, <1>4, <3>4, <3>5, <3>6, <3>7 DEF AtResult
  <2> QED
    BY <2>1, <2>2
<1>6. Held'
  BY <1>0, <1>1 DEF Held
<1>7. CtlInv'
  BY <1>0, <1>1, <1>4, <1>5, <1>6 DEF CtlInv, AtPlacing, AtApply, AtWindow, AtResolve, AtExit,
    Labels, HeldLabels, Named, Placing
<1> QED
  BY <1>0, <1>2, <1>4, <1>7, <1>f, TypesStill, QuietStep

LEMMA RefusedKeeps ==
  ASSUME FullInv, RefuseUncleared \/ RefusePending \/ ExitSubmissionUncertain PROVE FullInv'
BY NoExitPlacedKeeps DEF RefuseUncleared, RefusePending, ExitSubmissionUncertain

LEMMA SubmitExitKeeps ==
  ASSUME FullInv, SubmitExit PROVE FullInv'
<1>f. TypeOK /\ BooksInv /\ CtlInv /\ ~Hybrid
  BY DEF FullInv
<1>0. /\ pc = "submitExit" /\ pc' = "attachExit" /\ call' = call
      /\ Broker!Submit(call.op, orders[call.op].requested)
      /\ UNCHANGED <<stops, orders, file, pnl, pos, late, restarts>>
  BY DEF SubmitExit
<1>1. PICK x \in ExitOp : x = call.op
  BY <1>0, <1>f DEF CtlInv, AtExit
<1>2. /\ Orders!Unresolved(x) /\ orders[x].created /\ Held /\ Identified
      /\ orders[x].action = call.action /\ \A a \in Family : file.exit[a].op # x
  BY <1>0, <1>1, <1>f DEF CtlInv, AtExit, Labels, HeldLabels, Named, Orders!Unresolved
<1>3. orders[x].requested \in 1..Quantity
  BY <1>2, <1>f, QuantityAssumption
  DEF BooksInv, ExitShape, TypeOK, Orders!TypeOK, Orders!OrderRecord, Orders!Qty
<1>4. PICK q \in 1..Quantity : q = orders[x].requested
  BY <1>3
<1>5. x \in Op /\ Broker!Submit(x, q)
  BY <1>0, <1>1, <1>4 DEF Op
<1>6. /\ Broker!TypeOK'
      /\ BooksInv' /\ MoneyInv' /\ FileInv' /\ NamedInv' /\ CoverInv' /\ Mirror'
  BY <1>0, <1>2, <1>4, <1>5, SubmittedOrder
<1>7. Orders!Unresolved(x)' /\ Held' /\ Identified'
  BY <1>0, <1>2 DEF Orders!Unresolved, Held, Identified
<1>8. CtlInv'
  BY <1>0, <1>1, <1>2, <1>7, <1>f DEF CtlInv, AtPlacing, AtApply, AtWindow, AtResolve, AtExit, AtResult,
      Labels, HeldLabels, Named, Placing
<1>9. TypeOK'
  BY <1>0, <1>6, <1>f, TypesStill DEF TypeOK
<1> QED
  BY <1>6, <1>8, <1>9, <1>f DEF FullInv

LEMMA AttachExitKeeps ==
  ASSUME FullInv, AttachExit PROVE FullInv'
<1>f. TypeOK /\ BooksInv /\ CtlInv /\ CoverInv /\ Mirror /\ ~Hybrid
  BY DEF FullInv
<1>0. /\ pc = "attachExit" /\ pc' = "verifyExit" /\ call' = call
      /\ Broker!Accepted(call.op) /\ Orders!AttachOrderId(call.op, call.op)
      /\ UNCHANGED <<stops, file, pnl, pos, book, net, late, restarts>>
  BY DEF AttachExit
<1>1. PICK x \in ExitOp : x = call.op
  BY <1>0, <1>f DEF CtlInv, AtExit
<1>2. /\ Orders!Unresolved(x) /\ orders[x].created /\ Held /\ Identified
      /\ orders[x].action = call.action /\ \A a \in Family : file.exit[a].op # x
  BY <1>0, <1>1, <1>f DEF CtlInv, AtExit, Labels, HeldLabels, Named, Orders!Unresolved
<1>3. /\ Orders!TypeOK'
      /\ \A y \in ExitOp : y # x => orders'[y] = orders[y]
      /\ orders'[x].orderId = x
      /\ orders'[x].created <=> orders[x].created
      /\ orders'[x].requested = orders[x].requested
      /\ orders'[x].action = orders[x].action
      /\ orders'[x].resolved <=> orders[x].resolved
  BY <1>0, <1>1, <1>f, AttachedExit
<1>4. Broker!Accepted(x)' /\ x # NoOp
  BY <1>0, <1>1, OpAssumption DEF Broker!Accepted, Broker!Is
<1>5. BooksInv'
  <2>1. \A o \in Op : OrderShape(o)'
    BY <1>0, <1>f DEF BooksInv, OrderShape, Broker!Is
  <2>2. \A t \in StopOp : StopShape(t)'
    BY <1>0, <1>f DEF BooksInv, StopShape, Stop!Requested, Broker!Is, Broker!Ended,
      Broker!Accepted
  <2>3. \A y \in ExitOp : y # x => ExitShape(y)'
    BY <1>0, <1>3, <1>f DEF BooksInv, ExitShape, Broker!Is, Broker!Ended, Broker!Accepted
  <2>4. ExitShape(x)'
    <3>1. ExitShape(x)
      BY <1>f DEF BooksInv
    <3> QED
      BY <1>0, <1>2, <1>3, <1>4, <3>1 DEF ExitShape, Broker!Is, Broker!Ended
  <2>6. \A y, z \in ExitOp : Orders!Unresolved(y)' /\ Orders!Unresolved(z)' => y = z
    BY <1>3, <1>f DEF BooksInv, Orders!Unresolved
  <2> QED
    BY <1>0, <1>f, <2>1, <2>2, <2>3, <2>4, <2>6 DEF BooksInv
<1>6. MoneyInv' /\ FileInv' /\ NamedInv'
  <2>1. (\A t \in StopOp : StillStop(t)) /\ (\A y \in ExitOp : StillExit(y))
        /\ UNCHANGED <<net, pnl, file>>
    BY <1>0, <1>3 DEF StillStop, StillExit
  <2>2. \A o \in Op : book'[o].filled = book[o].filled /\ (Broker!Ended(o)' <=> Broker!Ended(o))
    BY <1>0 DEF Broker!Ended, Broker!Is
  <2> QED
    BY <2>1, <2>2, MoneyStill
<1>7. CoverInv' /\ Mirror' /\ Held' /\ Identified'
  BY <1>0, <1>2, <1>f DEF CoverInv, Covers, Mirror, Held, Identified, Broker!Accepted, Broker!Is
<1>8. Orders!Unresolved(x)'
  BY <1>2, <1>3 DEF Orders!Unresolved
<1>9. CtlInv'
  BY <1>0, <1>1, <1>2, <1>3, <1>4, <1>7, <1>8, <1>f DEF CtlInv, AtPlacing, AtApply, AtWindow, AtResolve, AtExit, AtResult,
      Labels, HeldLabels, Named, Placing
<1>10. TypeOK'
  BY <1>0, <1>3, <1>f, TypesStill DEF TypeOK
<1> QED
  BY <1>5, <1>6, <1>7, <1>9, <1>10, <1>f DEF FullInv

LEMMA VerifyExitKeeps ==
  ASSUME FullInv, VerifyExit PROVE FullInv'
<1>f. TypeOK /\ BooksInv /\ CtlInv /\ MoneyInv /\ Mirror
  BY DEF FullInv
<1>0. /\ pc = "verifyExit" /\ pc' = "result"
      /\ UNCHANGED <<stops, file, pnl, pos, book, net, late, restarts>>
  BY DEF VerifyExit
<1>1. PICK a \in ExitAnswers(call.op) :
        /\ Orders!UpdateVerification(call.op, a.filled, a.priced, a.state = "DONE")
        /\ call' = [call EXCEPT !.obs = a, !.fill = a.filled]
  BY DEF VerifyExit
<1>2. PICK x \in ExitOp : x = call.op
  BY <1>0, <1>f DEF CtlInv, AtExit
<1>3. /\ Orders!Unresolved(x) /\ orders[x].created /\ Held
      /\ orders[x].action = call.action /\ (\A b \in Family : file.exit[b].op # x)
      /\ orders[x].orderId # NoOp /\ call.action \in Family
  BY <1>0, <1>2, <1>f DEF CtlInv, AtExit, Labels, HeldLabels, Orders!Unresolved
<1>4. /\ a \in Answer /\ a.filled <= book[x].filled
      /\ a.state = "DONE" => Broker!Ended(x) /\ a.filled = book[x].filled
      /\ a.filled \in Qty /\ a.priced \in BOOLEAN
  BY <1>1, <1>2, <1>f, ExitAnswered DEF Answer
<1>5. Orders!TypeOK' /\ \A y \in ExitOp : SameExit(y)
  <2>1. PICK f \in Qty, p \in BOOLEAN, t \in BOOLEAN :
          f = a.filled /\ p = a.priced /\ t = (a.state = "DONE")
    BY <1>4
  <2>2. Orders!UpdateVerification(x, f, p, t)
    BY <1>1, <1>2, <2>1
  <2> QED
    BY <1>f, <2>2, VerifiedExit
<1>6. StopsAlike
  BY <1>0, <1>f, StoppedStill
<1>7. Saved(x) = 0 /\ Orders!Unresolved(x)' /\ Saved(x)' = 0 /\ Held'
      /\ orders'[x].action = call.action
  BY <1>0, <1>3, <1>5 DEF Saved, SameExit, Orders!Unresolved, Held
<1>8. a.filled \in 0..pos.qty
  <2>1. /\ file # NoPosition /\ file \in Position /\ pos \in Position
        /\ pos = [file EXCEPT !.blocked = pos.blocked]
    BY <1>0, <1>3, <1>f DEF Mirror, TypeOK, Held
  <2>2. pos.qty = orders[x].requested - 0
    BY <1>3, <1>7, <1>f, <2>1 DEF MoneyInv, Position
  <2>3. book[x].filled <= orders[x].requested
    <3>1. ExitShape(x) /\ OrderShape(x)
      BY <1>f DEF BooksInv, Op
    <3>2. ~Broker!Is(x, {"NONE"})
      BY <1>3, <3>1 DEF ExitShape, Broker!Accepted, Broker!Is
    <3> QED
      BY <1>3, <3>1, <3>2 DEF ExitShape, OrderShape
  <2>4. book[x].filled \in Nat /\ orders[x].requested \in Nat /\ a.filled \in Nat
    BY <1>4, <1>f, QuantityAssumption
    DEF TypeOK, Broker!TypeOK, Broker!Entry, Op, Orders!TypeOK, Orders!OrderRecord, Orders!Qty, Qty
  <2> QED
    BY <1>4, <2>2, <2>3, <2>4
<1>9. /\ call' \in Call /\ call'.obs = a /\ call'.fill = a.filled
      /\ call'.action = call.action /\ call'.reason = call.reason /\ call'.then = call.then
      /\ call'.op = x
  BY <1>1, <1>2, <1>4, <1>f DEF TypeOK, Call
<1>10. AtResult'
  <2>1. a.filled = a.filled - 0 /\ x # NoOp
    BY <1>4, QuantityAssumption, OpAssumption DEF Qty
  <2>2. Broker!Ended(x) => Broker!Ended(x)'
    BY <1>0 DEF Broker!Ended, Broker!Is
  <2> QED
    BY <1>0, <1>4, <1>7, <1>8, <1>9, <2>1, <2>2 DEF AtResult
<1>11. CtlInv'
  BY <1>0, <1>3, <1>7, <1>9, <1>10, <1>f DEF CtlInv, AtPlacing, AtApply, AtWindow, AtResolve, AtExit,
    Labels, HeldLabels, Named, Placing
<1> QED
  BY <1>0, <1>5, <1>6, <1>9, <1>11, <1>f, TypesStill, QuietStep

\* The exit takes over the whole position once its stop is over and applied.
LEMMA CreateExitIntentKeeps ==
  ASSUME FullInv, CreateExitIntent PROVE FullInv'
<1>f. /\ TypeOK /\ BooksInv /\ CtlInv /\ MoneyInv /\ FileInv /\ NamedInv /\ CoverInv /\ Mirror
      /\ ~Hybrid
  BY DEF FullInv
<1>0. /\ pc = "place" /\ Cleared /\ pc' = "submitExit"
      /\ UNCHANGED <<stops, file, pnl, pos, book, net, late, restarts>>
  BY DEF CreateExitIntent
<1>1. PICK x \in ExitOp : /\ Orders!CreateIntent(x, Symbol, call.action, call.want)
                          /\ call' = [call EXCEPT !.op = x]
  BY DEF CreateExitIntent
<1>2. /\ Held /\ Identified /\ call.action \in Family /\ call.full /\ Settled(pos.op)
      /\ call.reason # "SCALP" /\ call.then # "finalize"
  BY <1>0, <1>f DEF CtlInv, AtExit, Labels, HeldLabels, Named
<1>3. PICK s \in StopOp : s = pos.op
  BY <1>2, <1>f, KnownStop
<1>4. /\ pos \in Position /\ stops[s].created /\ book[s].qty = Quantity
      /\ pos.qty \in Nat /\ pos.qty > 0 /\ stops[s].applied \in Nat
      /\ pos.qty + stops[s].applied = Quantity /\ Settled(s)
  BY <1>2, <1>3, <1>f, KnownStop
<1>5. /\ file # NoPosition /\ file \in Position /\ pos = [file EXCEPT !.blocked = pos.blocked]
  BY <1>0, <1>2, <1>f DEF Mirror, TypeOK, Held
<1>6. file.qty = pos.qty /\ LocalQty(file) = pos.qty
  BY <1>4, <1>5 DEF LocalQty, Position
<1>7. \A t \in StopOp : stops[t].created => t = s
  BY <1>4, <1>f DEF BooksInv
<1>8. call.want = pos.qty
  BY <1>0, <1>2 DEF Cleared
<1>9. /\ Orders!TypeOK'
      /\ \A y \in ExitOp : y # x => orders'[y] = orders[y]
      /\ ~orders[x].created /\ orders'[x].created
      /\ orders'[x].orderId = NoOp
      /\ orders'[x].requested = pos.qty
      /\ orders'[x].action = call.action
      /\ ~orders'[x].resolved
      /\ ~Orders!HasUnresolved(Symbol, call.action)
  <2>1. PICK a \in Family, q \in Qty : a = call.action /\ q = pos.qty
    BY <1>2, <1>4 DEF Position
  <2>2. Orders!CreateIntent(x, Symbol, a, q)
    BY <1>1, <1>8, <2>1
  <2>3. /\ Orders!TypeOK'
        /\ \A y \in ExitOp : y # x => orders'[y] = orders[y]
        /\ ~orders[x].created /\ orders'[x].created
        /\ orders'[x].orderId = NoOp
        /\ orders'[x].requested = q
        /\ orders'[x].action = a
        /\ orders'[x].resolved <=> FALSE
        /\ ~Orders!HasUnresolved(Symbol, a)
    BY <1>f, <2>2, CreatedExit
  <2> QED
    BY <2>1, <2>3
<1>10. \A y \in ExitOp : ~Orders!Unresolved(y)
  <2>1. SUFFICES ASSUME NEW y \in ExitOp, Orders!Unresolved(y) PROVE FALSE
    OBVIOUS
  <2>2. orders[y].instrument = Symbol
    BY <1>f DEF TypeOK, Orders!TypeOK, Orders!OrderRecord
  <2>3. orders[y].action \in Family
    BY <1>f, <2>1 DEF BooksInv, ExitShape, Orders!Unresolved
  <2>4. orders[y].action \in Orders!Family(call.action)
    BY <1>2, <2>3 DEF Orders!Family, Family
  <2> QED
    BY <1>9, <2>1, <2>2, <2>4 DEF Orders!HasUnresolved
<1>11. net = pos.qty
  <2>1. CASE NoExitYet
    <3>1. net = Quantity - stops[s].applied
      BY <1>4, <1>f, <2>1 DEF MoneyInv, Settled, Applied
    <3> QED
      BY <1>4, <3>1, QuantityAssumption
  <2>2. CASE ~NoExitYet
    BY <1>6, <1>10, <1>f, <2>2 DEF MoneyInv
  <2> QED
    BY <2>1, <2>2
<1>12. /\ x \in Op /\ Broker!Is(x, {"NONE"}) /\ book[x].filled = 0
  <2>1. ExitShape(x) /\ OrderShape(x) /\ x \in Op
    BY <1>f DEF BooksInv, Op
  <2> QED
    BY <1>9, <2>1 DEF ExitShape, OrderShape, Broker!Is
<1>13. \A a \in Family : /\ file.exit[a].op # x
                         /\ ~(file.exit[a].filled > 0) /\ file.exit[a].filled = 0
  <2>1. TAKE a \in Family
  <2>2. file.exit[a].op \in ExitOp \cup {NoOp} /\ file.exit[a].filled \in Qty
    BY <1>5 DEF Position
  <2>3. file.exit[a].op # x
    BY <1>5, <1>9, <1>f, OpAssumption DEF FileInv
  <2>4. ~(file.qty + stops[s].applied < Quantity)
    BY <1>4, <1>6, QuantityAssumption
  <2>5. ~(file.exit[a].filled > 0)
    BY <1>4, <1>5, <1>f, <2>4 DEF FileInv
  <2> QED
    BY <2>2, <2>3, <2>5, QuantityAssumption DEF Qty
<1>14. BooksInv'
  <2>1. \A o \in Op : OrderShape(o)'
    BY <1>0, <1>f DEF BooksInv, OrderShape, Broker!Is
  <2>2. \A t \in StopOp : StopShape(t)'
    BY <1>0, <1>f DEF BooksInv, StopShape, Stop!Requested, Broker!Is, Broker!Ended,
      Broker!Accepted
  <2>3. \A y \in ExitOp : y # x => ExitShape(y)'
    BY <1>0, <1>9, <1>f DEF BooksInv, ExitShape, Broker!Is, Broker!Ended, Broker!Accepted
  <2>4. ExitShape(x)'
    BY <1>0, <1>2, <1>4, <1>9, <1>12 DEF ExitShape, Broker!Is
  <2>6. \A y, z \in ExitOp : Orders!Unresolved(y)' /\ Orders!Unresolved(z)' => y = z
    BY <1>9, <1>10 DEF Orders!Unresolved
  <2> QED
    BY <1>0, <1>f, <2>1, <2>2, <2>3, <2>4, <2>6 DEF BooksInv
<1>15. MoneyInv'
  <2>1. ~NoExitYet' /\ Orders!Unresolved(x)' /\ LocalQty(file)' = pos.qty
    BY <1>0, <1>6, <1>9 DEF NoExitYet, Orders!Unresolved, LocalQty
  <2>2. \A y \in ExitOp : Orders!Unresolved(y)' => y = x
    BY <1>9, <1>10 DEF Orders!Unresolved
  <2>3. Saved(x)' = 0
    BY <1>0, <1>2, <1>9, <1>13 DEF Saved
  <2>4. Broker!Ended(s)' /\ Applied(s)' /\ LocalQty(file)' + stops'[s].applied <= Quantity
    BY <1>0, <1>4, <2>1, QuantityAssumption DEF Settled, Applied, Broker!Ended, Broker!Is
  <2>5. stops[s].priced => pnl[s] = stops[s].applied
    <3>1. LocalQty(file) + stops[s].applied <= Quantity
      BY <1>4, <1>6, QuantityAssumption
    <3> QED
      BY <1>4, <1>f, <3>1 DEF MoneyInv
  <2>6. ASSUME NEW t \in StopOp, stops'[t].created
        PROVE  /\ stops'[t].priced /\ LocalQty(file)' + stops'[t].applied <= Quantity
                    => pnl'[t] = stops'[t].applied
               /\ ~NoExitYet' =>
                    /\ Broker!Ended(t)' /\ Applied(t)'
                    /\ LocalQty(file)' + stops'[t].applied <= Quantity
    BY <1>0, <1>7, <2>4, <2>5, <2>6
  <2>7. /\ net' = orders'[x].requested - book'[x].filled
        /\ file'.qty = orders'[x].requested - Saved(x)'
        /\ Saved(x)' <= book'[x].filled
        /\ \A a \in Family : ~(file'.exit[a].filled > 0)
    BY <1>0, <1>4, <1>6, <1>9, <1>11, <1>12, <1>13, <2>3
  <2>8. file' # NoPosition /\ stops'[s].created
    BY <1>0, <1>4, <1>5
  <2> QED
    BY <2>1, <2>2, <2>6, <2>7, <2>8 DEF MoneyInv
<1>16. FileInv'
  <2>1. \A y \in ExitOp : orders[y].created => orders'[y].created
    BY <1>9
  <2>2. \A a \in Family : file.exit[a].op # NoOp => file.exit[a].op \in ExitOp
    BY <1>5 DEF Position
  <2> QED
    BY <1>0, <1>f, <1>13, <2>1, <2>2 DEF FileInv
<1>17. NamedInv' /\ CoverInv' /\ Mirror' /\ Held' /\ Identified'
  BY <1>0, <1>2, <1>f DEF NamedInv, Stop!Unresolved, CoverInv, Covers, Mirror, Held, Identified,
    Broker!Accepted, Broker!Is
<1>18. /\ call' \in Call /\ call'.op = x /\ call'.action = call.action
       /\ call'.then = call.then /\ call'.reason = call.reason
  BY <1>1, <1>f DEF TypeOK, Call
<1>19. /\ Orders!Unresolved(x)' /\ Broker!Is(x, {"NONE"})'
       /\ \A a \in Family : file'.exit[a].op # x
  BY <1>0, <1>9, <1>12, <1>13 DEF Orders!Unresolved, Broker!Is
<1>20. CtlInv'
  BY <1>0, <1>2, <1>9, <1>17, <1>18, <1>19 DEF CtlInv, AtPlacing, AtApply, AtWindow, AtResolve, AtExit, AtResult,
      Labels, HeldLabels, Named, Placing
<1>21. TypeOK'
  BY <1>0, <1>9, <1>18, <1>f, TypesStill DEF TypeOK
<1> QED
  BY <1>14, <1>15, <1>16, <1>17, <1>20, <1>21, <1>f DEF FullInv

\* The broker fills no more of an exit than the file still counts as held.
LEMMA InResult ==
  ASSUME FullInv, pc \in {"result", "saveExit"}
  PROVE  /\ Held /\ pos \in Position /\ file # NoPosition /\ file \in Position
         /\ pos = [file EXCEPT !.blocked = pos.blocked]
         /\ file.qty = pos.qty /\ pos.exit = file.exit /\ pos.stage = "NONE"
         /\ pos.reason # "SCALP" /\ pos.op = file.op
         /\ call.action \in Family /\ call.fill \in 0..pos.qty
         /\ call.op = NoOp => call.fill = 0
         /\ pos.qty \in Nat
<1>f. TypeOK /\ CtlInv /\ Mirror /\ FileInv
  BY DEF FullInv
<1>1. Held /\ call.action \in Family /\ call.fill \in 0..pos.qty /\ (call.op = NoOp => call.fill = 0)
  BY <1>f DEF CtlInv, AtExit, AtResult, Labels, HeldLabels
<1>2. /\ pos \in Position /\ file # NoPosition /\ file \in Position
      /\ pos = [file EXCEPT !.blocked = pos.blocked]
  BY <1>1, <1>f DEF Mirror, TypeOK, Held
<1>3. /\ file.qty = pos.qty /\ pos.exit = file.exit /\ pos.stage = file.stage
      /\ pos.reason = file.reason /\ pos.op = file.op
  BY <1>2 DEF Position
<1>4. pos.qty \in Nat
  BY <1>2, QuantityAssumption DEF Position, Qty
<1> QED
  BY <1>1, <1>2, <1>3, <1>4, <1>f DEF FileInv

\* What an exit's result says of its operation.
LEMMA InExit ==
  ASSUME FullInv, pc \in {"result", "saveExit"}, call.op # NoOp
  PROVE  /\ call.op \in ExitOp /\ call.op \in Op
         /\ Orders!Unresolved(call.op) /\ orders[call.op].created /\ ~NoExitYet
         /\ orders[call.op].action = call.action
         /\ \A y \in ExitOp : Orders!Unresolved(y) => y = call.op
         /\ call.obs.filled \in Nat /\ call.fill \in Nat
         /\ orders[call.op].requested \in Nat /\ orders[call.op].requested > 0
         /\ Saved(call.op) \in Nat /\ book[call.op].filled \in Nat
         /\ call.fill = call.obs.filled - Saved(call.op)
         /\ call.obs.filled <= book[call.op].filled
         /\ book[call.op].filled <= orders[call.op].requested
         /\ call.obs.state = "DONE" =>
              Broker!Ended(call.op) /\ call.obs.filled = book[call.op].filled
         /\ net = orders[call.op].requested - book[call.op].filled
         /\ file.qty = orders[call.op].requested - Saved(call.op)
         /\ \A a \in Family : file.exit[a].filled > 0 =>
              file.exit[a].op = call.op /\ call.action = a
         /\ file.exit[call.action].filled = Saved(call.op)
<1>f. TypeOK /\ CtlInv /\ Mirror /\ FileInv /\ BooksInv /\ MoneyInv
  BY DEF FullInv
<1>1. /\ file # NoPosition /\ file \in Position /\ call.action \in Family
  BY InResult
<1>2. PICK x \in ExitOp : x = call.op
  BY <1>f DEF TypeOK, Call
<1>3. /\ Orders!Unresolved(x) /\ orders[x].action = call.action
      /\ call.fill = call.obs.filled - Saved(x)
      /\ call.obs.filled <= book[x].filled
      /\ call.obs.state = "DONE" => Broker!Ended(x) /\ call.obs.filled = book[x].filled
  BY <1>2, <1>f DEF CtlInv, AtResult
<1>4. orders[x].created /\ ~NoExitYet /\ x \in Op
  BY <1>3 DEF Orders!Unresolved, NoExitYet, Op
<1>5. /\ call.obs.filled \in Nat /\ call.fill \in Nat
      /\ orders[x].requested \in Nat /\ book[x].filled \in Nat
  BY <1>4, <1>f, QuantityAssumption
  DEF TypeOK, Call, Answer, Qty, Orders!TypeOK, Orders!OrderRecord, Orders!Qty, Broker!TypeOK, Broker!Entry, Op
<1>6. Saved(x) \in Nat
  BY <1>1, <1>4, <1>f, SavedType, QuantityAssumption
<1>7. ExitShape(x) /\ OrderShape(x)
  BY <1>4, <1>f DEF BooksInv
<1>8. orders[x].requested > 0 /\ book[x].filled <= orders[x].requested
  BY <1>4, <1>5, <1>7 DEF ExitShape, OrderShape, Broker!Is
<1>9. /\ net = orders[x].requested - book[x].filled
      /\ file.qty = orders[x].requested - Saved(x)
      /\ \A a \in Family : file.exit[a].filled > 0 =>
           file.exit[a].op = x /\ call.action = a
  BY <1>1, <1>3, <1>f DEF MoneyInv
<1>10. file.exit[call.action].filled \in Nat
  BY <1>1, QuantityAssumption DEF Position, Qty
<1>11. file.exit[call.action].filled = Saved(x)
  BY <1>1, <1>3, <1>9, <1>10 DEF Saved
<1>12. \A y \in ExitOp : Orders!Unresolved(y) => y = x
  BY <1>3, <1>f DEF BooksInv
<1> QED
  BY <1>2, <1>3, <1>4, <1>5, <1>6, <1>8, <1>9, <1>11, <1>12

\* The position that an exit's result leaves: gone, or smaller and naming the
\* operation and what it confirmed.
ExitSaved ==
  \/ file' = NoPosition /\ call.fill = pos.qty
  \/ /\ file' \in Position
     /\ file'.qty = pos.qty - call.fill
     /\ file'.exit[call.action].op = call.op
     /\ file'.exit[call.action].filled = call.obs.filled
     /\ \A b \in Family : b # call.action => file'.exit[b] = pos.exit[b]
     /\ file'.op = pos.op /\ file'.stage = "NONE" /\ file'.reason # "SCALP"
     /\ file'.blocked

LEMMA ExitSaveKeeps ==
  ASSUME FullInv, pc \in {"result", "saveExit"}, call.op # NoOp, ExitSaved,
         call.fill > 0 \/ file' # NoPosition,
         pos' = file', UNCHANGED <<stops, orders, book, net, pnl, late, restarts>>,
         \/ pc' \in {"idle", "ended"} /\ call' = NoCall
         \/ pc' = "finalize" /\ call' = call /\ Done
  PROVE  FullInv'
<1>f. /\ TypeOK /\ CtlInv /\ Mirror /\ FileInv /\ BooksInv /\ MoneyInv /\ NamedInv /\ ~Hybrid
  BY DEF FullInv
<1>0. pos' = file' /\ UNCHANGED <<stops, orders, book, net, pnl, late, restarts>>
  OBVIOUS
<1> DEFINE gone == file' = NoPosition
<1>x. PICK x \in ExitOp : x = call.op
  BY InExit
<1>1. /\ Held /\ pos \in Position /\ file # NoPosition /\ file \in Position
      /\ file.qty = pos.qty /\ pos.exit = file.exit /\ pos.op = file.op
      /\ call.action \in Family /\ call.fill \in 0..pos.qty /\ pos.qty \in Nat
  BY InResult
<1>2. /\ x \in ExitOp /\ x \in Op
      /\ Orders!Unresolved(x) /\ orders[x].created /\ ~NoExitYet
      /\ orders[x].action = call.action
      /\ \A y \in ExitOp : Orders!Unresolved(y) => y = x
      /\ call.obs.filled \in Nat /\ call.fill \in Nat
      /\ orders[x].requested \in Nat
      /\ Saved(x) \in Nat /\ book[x].filled \in Nat
      /\ call.fill = call.obs.filled - Saved(x)
      /\ call.obs.filled <= book[x].filled
      /\ book[x].filled <= orders[x].requested
  BY <1>x, InExit
<1>3. /\ call.obs.state = "DONE" => Broker!Ended(x) /\ call.obs.filled = book[x].filled
      /\ net = orders[x].requested - book[x].filled
      /\ file.qty = orders[x].requested - Saved(x)
      /\ \A a \in Family : file.exit[a].filled > 0 =>
           file.exit[a].op = x /\ call.action = a
      /\ file.exit[call.action].filled = Saved(x)
  BY <1>x, InExit
<1>4. /\ ~gone => /\ file' \in Position
                  /\ file'.qty = pos.qty - call.fill
                  /\ file'.exit[call.action].op = x
                  /\ file'.exit[call.action].filled = call.obs.filled
                  /\ \A b \in Family : b # call.action => file'.exit[b] = pos.exit[b]
                  /\ file'.op = pos.op /\ file'.stage = "NONE" /\ file'.reason # "SCALP"
                  /\ file'.blocked
      /\ gone => call.fill = pos.qty
  BY <1>x, NoPositionAssumption DEF ExitSaved
<1> HIDE DEF gone
<1>5. (gone <=> file' = NoPosition) /\ LocalQty(file)' = pos.qty - call.fill
  BY <1>1, <1>4 DEF gone, LocalQty
<1>6. pos.qty - call.fill = orders[x].requested - call.obs.filled
  BY <1>1, <1>2, <1>3
<1>7. ~gone => Saved(x)' = call.obs.filled
  BY <1>0, <1>2, <1>4 DEF Saved
<1>8. gone => book[x].filled = orders[x].requested
  BY <1>1, <1>2, <1>3, <1>4
<1>9. /\ \A s \in StopOp : (Stop!Unresolved(s)' <=> Stop!Unresolved(s))
      /\ \A y \in ExitOp : (Orders!Unresolved(y)' <=> Orders!Unresolved(y))
      /\ NoExitYet' <=> NoExitYet
      /\ \A s \in StopOp : (Broker!Ended(s)' <=> Broker!Ended(s)) /\ (Applied(s)' <=> Applied(s))
  BY <1>0 DEF Stop!Unresolved, Orders!Unresolved, NoExitYet, Applied, Broker!Ended, Broker!Is
<1>10. BooksInv'
  BY <1>0, <1>f, StoppedStill, ExitsStill, AlikeKeepsBooks
<1>11. \A s \in StopOp : stops[s].created =>
         /\ stops[s].applied \in Nat /\ Broker!Ended(s) /\ Applied(s)
         /\ pos.qty + stops[s].applied <= Quantity
         /\ stops[s].priced => pnl[s] = stops[s].applied
  <2>1. TAKE s \in StopOp
  <2>2. HAVE stops[s].created
  <2>3. LocalQty(file) = pos.qty
    BY <1>1 DEF LocalQty
  <2>4. stops[s].applied \in Nat
    BY <1>f, QuantityAssumption DEF TypeOK, Stop!TypeOK, Stop!StopRecord, Stop!Qty
  <2> QED
    BY <1>2, <1>f, <2>2, <2>3, <2>4 DEF MoneyInv
<1>12. MoneyInv'
  <2>1. ASSUME NEW s \in StopOp, stops'[s].created
        PROVE  /\ stops'[s].priced => pnl'[s] = stops'[s].applied
               /\ Broker!Ended(s)' /\ Applied(s)'
               /\ LocalQty(file)' + stops'[s].applied <= Quantity
    <3>1. stops[s].created /\ stops'[s] = stops[s] /\ pnl'[s] = pnl[s]
      BY <1>0, <2>1
    <3>2. LocalQty(file)' + stops[s].applied <= Quantity
      BY <1>1, <1>2, <1>5, <1>11, <3>1, QuantityAssumption
    <3> QED
      BY <1>9, <1>11, <3>1, <3>2
  <2>2. ASSUME NEW y \in ExitOp, Orders!Unresolved(y)'
        PROVE  /\ net' = orders'[y].requested - book'[y].filled
               /\ IF file' = NoPosition THEN book'[y].filled = orders'[y].requested
                  ELSE /\ file'.qty = orders'[y].requested - Saved(y)'
                       /\ Saved(y)' <= book'[y].filled
                       /\ \A a \in Family : file'.exit[a].filled > 0 =>
                            file'.exit[a].op = y /\ orders'[y].action = a
    <3>1. y = x
      BY <1>2, <1>9, <2>2
    <3>2. net' = orders'[x].requested - book'[x].filled
      BY <1>0, <1>3
    <3>3. CASE gone
      BY <1>0, <1>5, <1>8, <3>1, <3>2, <3>3
    <3>4. CASE ~gone
      <4>1. file'.qty = orders'[x].requested - Saved(x)' /\ Saved(x)' <= book'[x].filled
        BY <1>0, <1>2, <1>4, <1>6, <1>7, <3>4
      <4>2. \A a \in Family : file'.exit[a].filled > 0 =>
              file'.exit[a].op = x /\ orders'[x].action = a
        BY <1>0, <1>1, <1>2, <1>3, <1>4, <3>4
      <4> QED
        BY <1>5, <3>1, <3>2, <3>4, <4>1, <4>2
    <3> QED
      BY <3>3, <3>4
  <2>3. Orders!Unresolved(x)' /\ ~NoExitYet'
    BY <1>2, <1>9
  <2>4. \E s \in StopOp : stops'[s].created
    BY <1>0, <1>2, <1>f DEF MoneyInv
  <2> QED
    BY <1>2, <2>1, <2>2, <2>3, <2>4 DEF MoneyInv
<1>13. FileInv'
  <2>1. SUFFICES ASSUME ~gone PROVE FileInv'
    BY <1>5 DEF FileInv
  <2>2. file'.op # NoOp => stops'[file'.op].created
    BY <1>0, <1>1, <1>4, <1>f, <2>1 DEF FileInv
  <2>3. ASSUME NEW a \in Family
        PROVE  /\ file'.exit[a].op # NoOp => orders'[file'.exit[a].op].created
               /\ file'.exit[a].op = NoOp => file'.exit[a].filled = 0
               /\ file'.exit[a].filled > 0 =>
                    \A s \in StopOp : stops'[s].created =>
                      file'.qty + stops'[s].applied < Quantity
    <3>1. CASE a = call.action
      <4>1. file'.exit[a].op = x /\ file'.exit[a].filled = call.obs.filled /\ x # NoOp
        BY <1>2, <1>4, <2>1, <3>1, OpAssumption
      <4>2. ASSUME call.obs.filled > 0, NEW s \in StopOp, stops[s].created
            PROVE  file'.qty + stops[s].applied < Quantity
        <5>1. CASE call.fill > 0
          BY <1>1, <1>2, <1>4, <1>11, <2>1, <4>2, <5>1, QuantityAssumption
        <5>2. CASE call.fill = 0
          <6>1. file.exit[a].filled > 0
            BY <1>2, <1>3, <3>1, <4>2, <5>2
          <6>2. pos.qty + stops[s].applied < Quantity
            BY <1>1, <1>f, <4>2, <6>1 DEF FileInv
          <6> QED
            BY <1>1, <1>4, <2>1, <5>2, <6>2
        <5> QED
          BY <1>2, <5>1, <5>2
      <4> QED
        BY <1>0, <1>2, <4>1, <4>2
    <3>2. CASE a # call.action
      <4>1. file'.exit[a] = file.exit[a] /\ ~(file.exit[a].filled > 0)
        BY <1>1, <1>3, <1>4, <2>1, <3>2
      <4> QED
        BY <1>0, <1>1, <1>f, <4>1 DEF FileInv
    <3> QED
      BY <3>1, <3>2
  <2> QED
    BY <1>4, <2>1, <2>2, <2>3 DEF FileInv
<1>14. NamedInv'
  BY <1>0, <1>1, <1>4, <1>5, <1>9, <1>f DEF NamedInv
<1>15. CoverInv' /\ Mirror'
  <2>1. ~gone => file' = [file' EXCEPT !.blocked = file'.blocked]
    BY <1>4 DEF Position
  <2> QED
    BY <1>0, <1>4, <1>5, <2>1 DEF CoverInv, Covers, Mirror
<1>16. CtlInv' /\ call' \in Call
  <2>1. CASE pc' \in {"idle", "ended"} /\ call' = NoCall
    BY <2>1, AtRest, QuantityAssumption
  <2>2. CASE pc' = "finalize" /\ call' = call /\ Done
    <3>1. Broker!Ended(x)' /\ call.obs.filled = book'[x].filled
      BY <1>0, <1>3, <2>2 DEF Done, Broker!Ended, Broker!Is
    <3>2. AtResult'
      BY <1>x, <1>2, <1>5, <1>7, <1>9, <2>2, <3>1 DEF AtResult
    <3> QED
      BY <1>f, <2>2, <3>2 DEF TypeOK, CtlInv, AtPlacing, AtApply, AtWindow, AtResolve, AtExit,
        Labels, HeldLabels, Named, Placing
  <2> QED
    BY <2>1, <2>2
<1>17. TypeOK'
  <2>1. {pos, file}' \subseteq Position \cup {NoPosition}
    BY <1>0, <1>4, <1>5
  <2> QED
    BY <1>0, <1>16, <1>f, <2>1, TypesStill DEF TypeOK
<1> QED
  BY <1>10, <1>12, <1>13, <1>14, <1>15, <1>16, <1>17, <1>f DEF FullInv

LEMMA NamedByExit ==
  ASSUME NEW p \in Position, call \in Call, call.action \in Family, call.op # NoOp,
         call.reason # "SCALP", p.reason # "SCALP"
  PROVE  LET r == WithExit(p) IN
         /\ r \in Position /\ r.qty = p.qty /\ r.op = p.op /\ r.stage = p.stage
         /\ r.reason # "SCALP" /\ r.blocked
         /\ r.exit[call.action].op = call.op
         /\ r.exit[call.action].filled = p.exit[call.action].filled
         /\ \A b \in Family : b # call.action => r.exit[b] = p.exit[b]
<1> DEFINE a == call.action
           Exit == [op : ExitOp \cup {NoOp}, filled : Qty, priced : BOOLEAN]
           f == [p.exit[a] EXCEPT !.op = call.op]
           e == [p.exit EXCEPT ![a] = f]
           n == IF call.action = "EXIT" THEN call.reason ELSE p.reason
           r == [p EXCEPT !.exit = e, !.reason = n, !.blocked = TRUE, !.manual = TRUE]
<1>1. /\ p.exit \in [Family -> Exit] /\ call.op \in ExitOp /\ a \in Family
      /\ n \in Reasons \cup {"NONE"} /\ n # "SCALP"
  BY DEF Position, Call
<1>2. f \in Exit /\ f.op = call.op /\ f.filled = p.exit[a].filled
  BY <1>1
<1> HIDE DEF f
<1>3. /\ e \in [Family -> Exit] /\ e[a] = f
      /\ \A b \in Family : b # a => e[b] = p.exit[b]
  BY <1>1, <1>2
<1>4. [p.exit EXCEPT ![call.action].op = call.op] = e
  BY <1>1 DEF f
<1> HIDE DEF e
<1>5. WithExit(p) = r
  BY <1>4 DEF WithExit
<1> HIDE DEF n
<1>t. TRUE \in BOOLEAN
  OBVIOUS
<1>6. /\ r \in Position /\ r.qty = p.qty /\ r.op = p.op /\ r.stage = p.stage
      /\ r.reason = n /\ r.blocked /\ r.exit = e
  BY <1>1, <1>3, <1>t DEF Position
<1> QED
  BY <1>1, <1>2, <1>3, <1>5, <1>6

LEMMA FilledByExit ==
  ASSUME NEW p \in Position, call \in Call, call.action \in Family, call.op # NoOp,
         call.reason # "SCALP", p.reason # "SCALP", call.fill \in 0..p.qty
  PROVE  LET r == WithFill(p) IN
         /\ r \in Position /\ r.qty = p.qty - call.fill /\ r.op = p.op /\ r.stage = p.stage
         /\ r.reason # "SCALP" /\ r.blocked
         /\ r.exit[call.action].op = call.op
         /\ r.exit[call.action].filled = call.obs.filled
         /\ \A b \in Family : b # call.action => r.exit[b] = p.exit[b]
<1> DEFINE a == call.action
           w == WithExit(p)
           Exit == [op : ExitOp \cup {NoOp}, filled : Qty, priced : BOOLEAN]
           f == [w.exit[a] EXCEPT !.filled = call.obs.filled, !.priced = call.obs.priced]
           e == [w.exit EXCEPT ![a] = f]
           r == [w EXCEPT !.qty = w.qty - call.fill, !.exit = e]
<1>1. /\ w \in Position /\ w.qty = p.qty /\ w.op = p.op /\ w.stage = p.stage
      /\ w.reason # "SCALP" /\ w.blocked
      /\ w.exit[a].op = call.op
      /\ \A b \in Family : b # call.action => w.exit[b] = p.exit[b]
  BY NamedByExit
<1>w. WithExit(p) = w
  OBVIOUS
<1> HIDE DEF w
<1>2. /\ w.exit \in [Family -> Exit] /\ call.obs.filled \in Qty /\ call.obs.priced \in BOOLEAN
  BY <1>1 DEF Position, Call, Answer
<1>3. f \in Exit /\ f.op = call.op /\ f.filled = call.obs.filled
  BY <1>1, <1>2
<1>4. WithFill(p) = [[w EXCEPT !.qty = w.qty - call.fill] EXCEPT
                      !.exit[a].filled = call.obs.filled, !.exit[a].priced = call.obs.priced]
  BY <1>w DEF WithFill, Reduced
<1>5. [[w.exit EXCEPT ![a].filled = call.obs.filled] EXCEPT ![a].priced = call.obs.priced] = e
  BY <1>2
<1> HIDE DEF f
<1>6. /\ e \in [Family -> Exit] /\ e[a] = f
      /\ \A b \in Family : b # a => e[b] = w.exit[b]
  BY <1>2, <1>3
<1> HIDE DEF e
<1>7. WithFill(p) = r
  BY <1>1, <1>4, <1>5 DEF Position
<1>8. w.qty - call.fill \in Qty
  BY <1>1, QuantityAssumption DEF Position, Qty
<1>9. /\ r \in Position /\ r.qty = w.qty - call.fill /\ r.op = w.op /\ r.stage = w.stage
      /\ r.reason = w.reason /\ r.blocked = w.blocked /\ r.exit = e
  BY <1>1, <1>6, <1>8 DEF Position
<1> QED
  BY <1>1, <1>3, <1>6, <1>7, <1>9

LEMMA AfterExitSteps ==
  ASSUME FullInv, pc \in {"result", "saveExit"}, call.op # NoOp, AfterExit
  PROVE  \/ pc' \in {"idle", "ended"} /\ call' = NoCall
         \/ pc' = "finalize" /\ call' = call /\ Done
BY DEF AfterExit, FullInv, TypeOK, Call

LEMMA ResultNoFillKeeps ==
  ASSUME FullInv, ResultNoFill PROVE FullInv'
<1>f. TypeOK /\ CtlInv
  BY DEF FullInv
<1>0. /\ pc = "result" /\ call.fill = 0 /\ pos' = file' /\ file' = WithExit(pos)
      /\ UNCHANGED <<stops, orders, pnl, book, net, late, restarts>>
      /\ ProtectOrFinish(pos)
  BY DEF ResultNoFill
<1>1. /\ Held /\ pos \in Position /\ pos.qty \in Nat /\ call.action \in Family
      /\ pos.stage = "NONE" /\ pos.reason # "SCALP" /\ pos.exit = file.exit /\ pos.op = file.op
  BY <1>0, InResult
<1>2. call \in Call /\ call.reason # "SCALP"
  BY <1>f DEF TypeOK, CtlInv
<1>3. AfterExit
  BY <1>0, <1>2 DEF ProtectOrFinish, NeedsReprotection
<1>4. CASE call.op # NoOp
  <2>1. /\ call.obs.filled \in Nat /\ Saved(call.op) \in Nat
        /\ call.fill = call.obs.filled - Saved(call.op)
        /\ file.exit[call.action].filled = Saved(call.op)
    BY <1>0, <1>4, InExit
  <2>2. file.exit[call.action].filled = call.obs.filled
    BY <1>0, <2>1
  <2>3. /\ file' \in Position /\ file'.qty = pos.qty /\ file'.op = pos.op
        /\ file'.stage = pos.stage /\ file'.reason # "SCALP" /\ file'.blocked
        /\ file'.exit[call.action].op = call.op
        /\ file'.exit[call.action].filled = pos.exit[call.action].filled
        /\ \A b \in Family : b # call.action => file'.exit[b] = pos.exit[b]
    BY <1>0, <1>1, <1>2, <1>4, NamedByExit
  <2>4. file'.qty = pos.qty - call.fill
    BY <1>0, <1>1, <2>3
  <2>5. ExitSaved /\ file' # NoPosition
    BY <1>1, <2>2, <2>3, <2>4, NoPositionAssumption DEF ExitSaved
  <2>6. \/ pc' \in {"idle", "ended"} /\ call' = NoCall
        \/ pc' = "finalize" /\ call' = call /\ Done
    BY <1>0, <1>3, <1>4, AfterExitSteps
  <2> QED
    BY <1>0, <1>4, <2>5, <2>6, ExitSaveKeeps
<1>5. CASE call.op = NoOp
  <2> DEFINE a == call.action
             e == [pos.exit EXCEPT ![a].op = @]
             n == IF call.action = "EXIT" THEN call.reason ELSE pos.reason
  <2>1. pos.exit \in [Family -> [op : ExitOp \cup {NoOp}, filled : Qty, priced : BOOLEAN]]
        /\ a \in Family
    BY <1>1 DEF Position
  <2>2. e = pos.exit
    BY <2>1
  <2>3. n \in Reasons \cup {"NONE"} /\ n # "SCALP"
    BY <1>1, <1>2 DEF Position, Call
  <2>4. file' = [pos EXCEPT !.exit = e, !.reason = n, !.blocked = TRUE, !.manual = TRUE]
    BY <1>0, <1>5 DEF WithExit
  <2> HIDE DEF e, n
  <2>t. TRUE \in BOOLEAN
    OBVIOUS
  <2>5. /\ file' \in Position /\ file'.qty = pos.qty /\ file'.exit = pos.exit
        /\ file'.stage = pos.stage /\ file'.op = pos.op /\ file'.reason = n /\ file'.blocked
    BY <1>1, <2>1, <2>2, <2>3, <2>4, <2>t DEF Position
  <2>6. FlagSave /\ Covers(file)'
    BY <1>0, <1>1, <2>3, <2>5 DEF FlagSave, Covers
  <2>7. pc' = call.next /\ call' = NoCall
    BY <1>3, <1>5 DEF AfterExit
  <2>8. CtlInv' /\ call' \in Call
    BY <1>2, <2>7, AtRest, QuantityAssumption DEF Call
  <2> QED
    BY <1>0, <1>f, <2>6, <2>8, SaveStep DEF TypeOK
<1> QED
  BY <1>4, <1>5

LEMMA ResultUnpricedKeeps ==
  ASSUME FullInv, ResultUnpriced PROVE FullInv'
<1>f. TypeOK /\ CtlInv
  BY DEF FullInv
<1>0. /\ pc = "result" /\ call.fill > 0 /\ pos' = file'
      /\ file' = IF call.action = "FORCE_EXIT" /\ call.fill = pos.qty
                   THEN NoPosition ELSE WithFill(pos)
      /\ UNCHANGED <<stops, orders, pnl, book, net, late, restarts>>
      /\ (IF call.recovering THEN Return ELSE AfterExit)
  BY DEF ResultUnpriced
<1>1. /\ pos \in Position /\ call.action \in Family /\ call.fill \in 0..pos.qty
      /\ pos.stage = "NONE" /\ pos.reason # "SCALP" /\ call.op # NoOp
  BY <1>0, InResult
<1>2. call \in Call /\ call.reason # "SCALP"
  BY <1>f DEF TypeOK, CtlInv
<1>3. ExitSaved
  BY <1>0, <1>1, <1>2, FilledByExit DEF ExitSaved
<1>4. \/ pc' \in {"idle", "ended"} /\ call' = NoCall
      \/ pc' = "finalize" /\ call' = call /\ Done
  BY <1>0, <1>1, <1>2, AfterExitSteps DEF Call
<1> QED
  BY <1>0, <1>1, <1>3, <1>4, ExitSaveKeeps

LEMMA SaveExitFillKeeps ==
  ASSUME FullInv, SaveExitFill PROVE FullInv'
<1>f. TypeOK /\ CtlInv
  BY DEF FullInv
<1>0. /\ pc = "saveExit" /\ pos' = file'
      /\ file' = IF call.fill = pos.qty THEN NoPosition ELSE WithScalp(WithFill(pos))
      /\ UNCHANGED <<stops, orders, pnl, book, net, late, restarts>>
      /\ ProtectOrFinish(IF call.fill = pos.qty THEN NoPosition ELSE WithScalp(WithFill(pos)))
  BY DEF SaveExitFill
<1>2. call \in Call /\ call.reason # "SCALP" /\ call.fill > 0
  BY <1>0, <1>f DEF TypeOK, CtlInv, AtResult
<1>1. /\ pos \in Position /\ call.action \in Family /\ call.fill \in 0..pos.qty
      /\ pos.stage = "NONE" /\ pos.reason # "SCALP" /\ call.op # NoOp
  BY <1>0, <1>2, InResult
<1>3. file' = IF call.fill = pos.qty THEN NoPosition ELSE WithFill(pos)
  BY <1>0, <1>2 DEF WithScalp
<1>4. ExitSaved
  BY <1>1, <1>2, <1>3, FilledByExit DEF ExitSaved
<1>5. AfterExit
  BY <1>0, <1>2 DEF ProtectOrFinish, NeedsReprotection
<1>6. \/ pc' \in {"idle", "ended"} /\ call' = NoCall
      \/ pc' = "finalize" /\ call' = call /\ Done
  BY <1>0, <1>1, <1>5, AfterExitSteps
<1> QED
  BY <1>0, <1>1, <1>2, <1>4, <1>6, ExitSaveKeeps

\* The ledger of an exit is not one the stop's clauses read.
LEMMA BookExitFillKeeps ==
  ASSUME FullInv, BookExitFill PROVE FullInv'
<1>f. /\ TypeOK /\ CtlInv /\ CoverInv /\ Mirror /\ BooksInv /\ ~Hybrid
  BY DEF FullInv
<1>0. /\ pc = "result" /\ call.fill > 0 /\ pc' = "saveExit" /\ call' = call
      /\ pnl' = [pnl EXCEPT ![call.op] = @ + call.fill]
      /\ UNCHANGED <<stops, orders, file, pos, book, net, late, restarts>>
  BY DEF BookExitFill
<1>1. Held /\ call.op # NoOp /\ call.fill \in Nat
  BY <1>0, InResult
<1>2. call.op \in ExitOp /\ call.op \in Op
  BY <1>0, <1>1, InExit
<1>3. pnl' \in [Op -> Nat] /\ \A s \in StopOp : pnl'[s] = pnl[s]
  BY <1>0, <1>1, <1>2, <1>f, OpAssumption DEF TypeOK, Op
<1>4. StopsAlike /\ \A y \in ExitOp : SameExit(y)
  BY <1>0, <1>f, StoppedStill, ExitsStill
<1>5. BooksInv'
  BY <1>0, <1>3, <1>4, AlikeKeepsBooks
<1>6. MoneyInv' /\ FileInv' /\ NamedInv'
  <2>1. /\ \A s \in StopOp : StillStop(s)
        /\ \A x \in ExitOp : StillExit(x)
        /\ UNCHANGED <<net, file>>
    BY <1>0 DEF StillStop, StillExit
  <2>2. \A o \in Op : book'[o].filled = book[o].filled /\ (Broker!Ended(o)' <=> Broker!Ended(o))
    BY <1>0 DEF Broker!Ended, Broker!Is
  <2> QED
    BY <1>3, <2>1, <2>2, MoneyStill
<1>7. CoverInv' /\ Mirror' /\ Held'
  BY <1>0, <1>1, <1>f DEF CoverInv, Covers, Mirror, Held, Broker!Accepted, Broker!Is
<1>8. AtResult'
  <2>1. PICK x \in ExitOp : x = call.op
    BY <1>2
  <2>2. /\ call.fill \in 0..pos.qty
        /\ Orders!Unresolved(x)
        /\ orders[x].action = call.action
        /\ call.fill = call.obs.filled - Saved(x)
        /\ call.obs.filled <= book[x].filled
        /\ call.obs.state = "DONE" =>
             Broker!Ended(x) /\ call.obs.filled = book[x].filled
    BY <1>0, <1>1, <1>f, <2>1 DEF CtlInv, AtResult
  <2>3. Saved(x)' = Saved(x) /\ (Orders!Unresolved(x)' <=> Orders!Unresolved(x))
        /\ (Broker!Ended(x)' <=> Broker!Ended(x))
    BY <1>0 DEF Saved, Orders!Unresolved, Broker!Ended, Broker!Is
  <2> QED
    BY <1>0, <1>1, <2>1, <2>2, <2>3 DEF AtResult
<1>9. CtlInv'
  BY <1>0, <1>7, <1>8, <1>f DEF CtlInv, AtPlacing, AtApply, AtWindow, AtResolve, AtExit,
    Labels, HeldLabels, Named, Placing
<1>10. TypeOK'
  BY <1>0, <1>3, <1>f, TypesStill DEF TypeOK
<1> QED
  BY <1>5, <1>6, <1>7, <1>9, <1>10, <1>f DEF FullInv

\* An exit is resolved over the file that says what it filled.
LEMMA FinalizeKeeps ==
  ASSUME FullInv, Finalize PROVE FullInv'
<1>f. /\ TypeOK /\ BooksInv /\ CtlInv /\ MoneyInv /\ FileInv /\ NamedInv /\ CoverInv /\ Mirror
      /\ ~Hybrid
  BY DEF FullInv
<1>0. /\ pc = "finalize" /\ Orders!MarkResolved(call.op) /\ pc' = call.next /\ call' = NoCall
      /\ UNCHANGED <<stops, file, pnl, pos, book, net, late, restarts>>
  BY DEF Finalize
<1>1. PICK x \in ExitOp : x = call.op
  BY <1>0, <1>f DEF CtlInv, AtResult
<1>2. /\ Orders!Unresolved(x) /\ Broker!Ended(x) /\ orders[x].created
      /\ file # NoPosition => Saved(x) = book[x].filled
  BY <1>0, <1>1, <1>f DEF CtlInv, AtResult, Orders!Unresolved
<1>3. /\ Orders!TypeOK'
      /\ \A y \in ExitOp : y # x => orders'[y] = orders[y]
      /\ orders'[x].orderId = orders[x].orderId
      /\ orders'[x].created <=> orders[x].created
      /\ orders'[x].requested = orders[x].requested
      /\ orders'[x].action = orders[x].action
      /\ orders'[x].resolved
  BY <1>0, <1>1, <1>f, ResolvedExit
<1>4. \A y \in ExitOp : ~Orders!Unresolved(y)'
  BY <1>2, <1>3, <1>f DEF BooksInv, Orders!Unresolved
<1>5. LocalQty(file) = net
  <2>1. net = orders[x].requested - book[x].filled
    BY <1>2, <1>f DEF MoneyInv
  <2>2. orders[x].requested \in Nat /\ book[x].filled \in Nat
    BY <1>2, <1>f, QuantityAssumption
    DEF TypeOK, Orders!TypeOK, Orders!OrderRecord, Orders!Qty, Broker!TypeOK, Broker!Entry, Op
  <2>3. CASE file = NoPosition
    BY <1>2, <1>f, <2>1, <2>2, <2>3 DEF MoneyInv, LocalQty
  <2>4. CASE file # NoPosition
    BY <1>2, <1>f, <2>1, <2>2, <2>4 DEF MoneyInv, LocalQty
  <2> QED
    BY <2>3, <2>4
<1>6. BooksInv'
  <2>1. \A o \in Op : OrderShape(o)'
    BY <1>0, <1>f DEF BooksInv, OrderShape, Broker!Is
  <2>2. \A t \in StopOp : StopShape(t)'
    BY <1>0, <1>f DEF BooksInv, StopShape, Stop!Requested, Broker!Is, Broker!Ended,
      Broker!Accepted
  <2>3. \A y \in ExitOp : y # x => ExitShape(y)'
    BY <1>0, <1>3, <1>f DEF BooksInv, ExitShape, Broker!Is, Broker!Ended, Broker!Accepted
  <2>4. ExitShape(x)'
    <3>1. ExitShape(x)
      BY <1>f DEF BooksInv
    <3> QED
      BY <1>0, <1>2, <1>3, <3>1 DEF ExitShape, Broker!Is, Broker!Ended, Broker!Accepted
  <2> QED
    BY <1>0, <1>4, <1>f, <2>1, <2>2, <2>3, <2>4 DEF BooksInv
<1>7. NoExitYet' <=> NoExitYet
  BY <1>3 DEF NoExitYet
<1>8. MoneyInv'
  <2>1. LocalQty(file)' = LocalQty(file) /\ \A s \in StopOp : (Applied(s)' <=> Applied(s))
        /\ (Broker!Ended(s)' <=> Broker!Ended(s))
    BY <1>0 DEF LocalQty, Applied, Broker!Ended, Broker!Is
  <2>2. LocalQty(file)' = net'
    BY <1>0, <1>5, <2>1
  <2> QED
    BY <1>0, <1>4, <1>7, <1>f, <2>1, <2>2 DEF MoneyInv
<1>9. FileInv'
  <2>1. \A y \in ExitOp : orders'[y].created <=> orders[y].created
    BY <1>3
  <2>2. file # NoPosition => \A a \in Family : file.exit[a].op # NoOp => file.exit[a].op \in ExitOp
    BY <1>f DEF TypeOK, Position
  <2> QED
    BY <1>0, <1>f, <2>1, <2>2 DEF FileInv
<1>10. NamedInv' /\ CoverInv' /\ Mirror'
  BY <1>0, <1>f DEF NamedInv, Stop!Unresolved, CoverInv, Covers, Mirror, Broker!Accepted, Broker!Is
<1>11. CtlInv' /\ call' \in Call
  BY <1>0, <1>f, AtRest, QuantityAssumption DEF TypeOK, Call
<1>12. TypeOK'
  BY <1>0, <1>3, <1>11, <1>f, TypesStill DEF TypeOK
<1> QED
  BY <1>6, <1>8, <1>9, <1>10, <1>11, <1>12, <1>f DEF FullInv

\* Without the hybrid plan no step gets to the protection of a runner.
LEMMA NeverReprotects ==
  ASSUME FullInv PROVE ~ResolveOldStop /\ ~SaveReprotection
BY DEF FullInv, CtlInv, Labels, ResolveOldStop, SaveReprotection

\* A stop lookup at startup: an unresolved stop is looked up, a position that
\* never had one is protected.
LEMMA RecoverStopsKeeps ==
  ASSUME FullInv, RecoverStops PROVE FullInv'
<1>f. TypeOK /\ BooksInv /\ CtlInv /\ NamedInv /\ Mirror
  BY DEF FullInv
<1>0. /\ pc = "recoverStops"
      /\ UNCHANGED <<stops, orders, file, pnl, pos, book, net, late, restarts>>
  BY DEF RecoverStops
<1>1. StopsAlike /\ \A y \in ExitOp : SameExit(y)
  BY <1>0, <1>f, StoppedStill, ExitsStill
<1>2. call \in Call /\ call.then # "finalize" /\ call.reason # "SCALP"
  BY <1>f DEF TypeOK, CtlInv
<1> DEFINE next == [call EXCEPT !.then = "recoverExits"]
<1>3. /\ next \in Call /\ next.then = "recoverExits" /\ next.reason # "SCALP"
      /\ \A s \in StopOp : LET n == [next EXCEPT !.stop = s] IN
           n \in Call /\ n.stop = s /\ n.then = "recoverExits" /\ n.reason # "SCALP"
  BY <1>2 DEF Call
<1> HIDE DEF next
<1>4. \/ /\ Held
         /\ \E s \in StopOp : /\ Stop!Unresolved(s)
                              /\ call' = [next EXCEPT !.stop = s]
                              /\ pc' = IF stops[s].orderId = NoOp THEN "attachStop" ELSE "verifyStop"
      \/ /\ Held /\ \A s \in StopOp : ~Stop!Unresolved(s)
         /\ pos.op = NoOp /\ call' = next /\ pc' = "protect"
      \/ pc' = "recoverExits" /\ call' = call
  BY DEF RecoverStops, next
<1>5. CtlInv' /\ call' \in Call
  <2>1. CASE /\ Held
             /\ \E s \in StopOp : /\ Stop!Unresolved(s)
                                  /\ call' = [next EXCEPT !.stop = s]
                                  /\ pc' = IF stops[s].orderId = NoOp THEN "attachStop" ELSE "verifyStop"
    <3>1. PICK s \in StopOp : /\ Stop!Unresolved(s)
                              /\ call' = [next EXCEPT !.stop = s]
                              /\ pc' = IF stops[s].orderId = NoOp THEN "attachStop" ELSE "verifyStop"
      BY <2>1
    <3>2. /\ call' \in Call /\ call'.stop = s /\ call'.then = "recoverExits"
          /\ call'.reason # "SCALP"
      BY <1>3, <3>1
    <3>3. Stop!Unresolved(s)' /\ Held'
      BY <1>0, <2>1, <3>1 DEF Stop!Unresolved, Held
    <3>4. pc' \in {"attachStop", "verifyStop"} /\ (pc' = "verifyStop" => stops'[s].orderId # NoOp)
      BY <1>0, <3>1
    <3> QED
      BY <3>2, <3>3, <3>4 DEF CtlInv, AtPlacing, AtApply, AtWindow, AtResolve, AtExit, AtResult,
      Labels, HeldLabels, Named, Placing
  <2>2. CASE /\ Held /\ \A s \in StopOp : ~Stop!Unresolved(s)
             /\ pos.op = NoOp /\ call' = next /\ pc' = "protect"
    <3>1. file # NoPosition /\ file.op = NoOp
      <4>1. file # NoPosition /\ file \in Position /\ pos = [file EXCEPT !.blocked = pos.blocked]
        BY <1>0, <1>f, <2>2 DEF Mirror, Held, TypeOK
      <4> QED
        BY <2>2, <4>1 DEF Position
    <3>2. \A s \in StopOp : ~stops'[s].created
      BY <1>0, <1>f, <2>2, <3>1, OpAssumption DEF NamedInv
    <3>3. Held'
      BY <1>0, <2>2 DEF Held
    <3> QED
      BY <1>3, <2>2, <3>2, <3>3 DEF CtlInv, AtPlacing, AtApply, AtWindow, AtResolve, AtExit, AtResult,
      Labels, HeldLabels, Named, Placing
  <2>3. CASE pc' = "recoverExits" /\ call' = call
    BY <1>2, <2>3 DEF CtlInv, AtPlacing, AtApply, AtWindow, AtResolve, AtExit, AtResult,
      Labels, HeldLabels, Named, Placing
  <2> QED
    BY <1>4, <2>1, <2>2, <2>3
<1> QED
  BY <1>0, <1>1, <1>5, <1>f, TypesStill, QuietStep

LEMMA CrashKeeps ==
  ASSUME FullInv, Crash PROVE FullInv'
<1>f. TypeOK /\ BooksInv /\ CtlInv /\ CoverInv /\ ~Hybrid
  BY DEF FullInv
<1>0. /\ pc' = "down" /\ call' = NoCall /\ pos' = NoPosition
      /\ UNCHANGED <<stops, orders, file, pnl, book, net, late, restarts>>
  BY DEF Crash
<1>1. StopsAlike /\ \A y \in ExitOp : SameExit(y)
  BY <1>0, <1>f, StoppedStill, ExitsStill
<1>2. CtlInv' /\ call' \in Call
  BY <1>0, AtRest, QuantityAssumption
<1>3. BooksInv' /\ MoneyInv' /\ FileInv' /\ NamedInv'
  BY <1>0, <1>1, AlikeKeepsBooks, AlikeKeepsMoney DEF Alike
<1>4. CoverInv' /\ Mirror'
  BY <1>0, <1>f DEF CoverInv, Covers, Mirror, Broker!Accepted, Broker!Is
<1>5. TypeOK'
  BY <1>0, <1>f, <1>2, TypesStill DEF TypeOK
<1> QED
  BY <1>f, <1>2, <1>3, <1>4, <1>5 DEF FullInv

\* The next process starts from the file.
LEMMA RestartKeeps ==
  ASSUME FullInv, Restart PROVE FullInv'
<1>f. TypeOK /\ BooksInv /\ CtlInv /\ CoverInv /\ ~Hybrid
  BY DEF FullInv
<1>0. /\ pc' = "recoverStops" /\ call' = [NoCall EXCEPT !.recovering = TRUE] /\ pos' = file
      /\ restarts < MaxRestarts /\ restarts' = restarts + 1
      /\ UNCHANGED <<stops, orders, file, pnl, book, net, late>>
  BY DEF Restart
<1>1. StopsAlike /\ \A y \in ExitOp : SameExit(y)
  BY <1>0, <1>f, StoppedStill, ExitsStill
<1>2. CtlInv' /\ call' \in Call
  <2>1. NoCall \in Call
    BY QuantityAssumption DEF NoCall, Call, NoAnswer, Answer, Qty
  <2>t. TRUE \in BOOLEAN
    OBVIOUS
  <2>2. call' \in Call /\ call'.then = NoCall.then /\ call'.reason = NoCall.reason
    BY <1>0, <2>1, <2>t DEF Call
  <2>3. call'.then = "idle" /\ call'.reason = "NONE"
    BY <2>2 DEF NoCall
  <2> QED
    BY <1>0, <2>2, <2>3 DEF CtlInv, AtPlacing, AtApply, AtWindow, AtResolve, AtExit, AtResult,
      Labels, HeldLabels, Named, Placing
<1>3. BooksInv' /\ MoneyInv' /\ FileInv' /\ NamedInv'
  BY <1>0, <1>1, AlikeKeepsBooks, AlikeKeepsMoney DEF Alike
<1>4. CoverInv' /\ Mirror'
  <2>1. file # NoPosition => file = [file EXCEPT !.blocked = file.blocked]
    BY <1>f DEF TypeOK, Position
  <2> QED
    BY <1>0, <1>f, <2>1 DEF CoverInv, Covers, Mirror, Broker!Accepted, Broker!Is
<1>5. TypeOK'
  <2>1. restarts' \in 0..MaxRestarts
    BY <1>0, <1>f, MaxRestartsAssumption DEF TypeOK
  <2> QED
    BY <1>0, <1>f, <1>2, <2>1, TypesStill DEF TypeOK
<1> QED
  BY <1>f, <1>2, <1>3, <1>4, <1>5 DEF FullInv

LEMMA BrokerMoveKeeps ==
  ASSUME FullInv, BrokerMove PROVE FullInv'
<1>f. TypeOK /\ ~Hybrid
  BY DEF FullInv
<1>0. UNCHANGED <<stops, orders, file, pnl, pos, pc, call, late, restarts>>
  BY DEF BrokerMove
<1>1. /\ BooksInv' /\ Broker!TypeOK' /\ MoneyInv'
      /\ CtlInv' /\ CoverInv' /\ FileInv' /\ NamedInv' /\ Mirror'
  BY BrokerKeepsBooks, BrokerKeepsMoney, BrokerKeepsControl
<1>2. TypeOK'
  BY <1>0, <1>1, <1>f, TypesStill DEF TypeOK
<1> QED
  BY <1>1, <1>2, <1>f DEF FullInv

\* An exit left open by a crash: what the broker says of it beyond what the
\* file shows is what the crash took.
LEMMA RecoverExitKeeps ==
  ASSUME FullInv, pc = "recoverExits", NEW x \in ExitOp, RecoverExit(x) PROVE FullInv'
<1>f. TypeOK /\ BooksInv /\ CtlInv /\ Mirror /\ FileInv
  BY DEF FullInv
<1>0. /\ Orders!Unresolved(x) /\ orders[x].created /\ orders[x].action \in Family
      /\ UNCHANGED <<stops, file, pnl, pos, book, net, late, restarts>>
  BY <1>f DEF RecoverExit, Orders!Unresolved, BooksInv, ExitShape
<1> DEFINE found(a) == [call EXCEPT !.action = orders[x].action, !.op = x, !.obs = a]
           New(a) == a.filled - AppliedBefore(x)
           Rsn == IF orders[x].action = "EXIT" THEN pos.reason ELSE "FULL"
<1>1. PICK a \in ExitAnswers(x) :
        /\ Orders!UpdateVerification(x, a.filled, a.priced, a.state = "DONE")
        /\ \/ /\ ~Held /\ a.state = "DONE"
              /\ pc' = "finalize" /\ call' = found(a)
           \/ pc' = call.next /\ call' = NoCall
           \/ /\ Held /\ New(a) \in 0..pos.qty
              /\ pc' = "result"
              /\ call' = [found(a) EXCEPT !.fill = New(a), !.reason = Rsn]
           \/ Held /\ pc' = "block" /\ call' = call
  BY DEF RecoverExit
<1>2. /\ a \in Answer /\ a.filled <= book[x].filled
      /\ a.state = "DONE" => Broker!Ended(x) /\ a.filled = book[x].filled
      /\ a.filled \in Qty /\ a.priced \in BOOLEAN
  BY <1>1, <1>f, ExitAnswered DEF Answer
<1>3. Orders!TypeOK' /\ \A y \in ExitOp : SameExit(y)
  <2>1. PICK f \in Qty, p \in BOOLEAN, t \in BOOLEAN :
          f = a.filled /\ p = a.priced /\ t = (a.state = "DONE")
    BY <1>2
  <2>2. Orders!UpdateVerification(x, f, p, t)
    BY <1>1, <2>1
  <2> QED
    BY <1>f, <2>2, VerifiedExit
<1>4. StopsAlike
  BY <1>0, <1>f, StoppedStill
<1>5. call \in Call /\ call.then # "finalize" /\ call.reason # "SCALP"
  BY <1>f DEF TypeOK, CtlInv
<1>6. /\ found(a) \in Call /\ found(a).action = orders[x].action /\ found(a).op = x
      /\ found(a).obs = a /\ found(a).then = call.then /\ found(a).reason = call.reason
  BY <1>0, <1>2, <1>5 DEF Call, Family
<1> HIDE DEF found
<1>7. /\ Orders!Unresolved(x)' /\ orders'[x].action = orders[x].action
      /\ Saved(x)' = Saved(x) /\ Held' = Held
      /\ Broker!Ended(x) => Broker!Ended(x)'
      /\ x # NoOp
  BY <1>0, <1>3, OpAssumption DEF SameExit, Orders!Unresolved, Saved, Held, Broker!Ended, Broker!Is
<1>8. CtlInv' /\ call' \in Call
  <2>1. CASE ~Held /\ a.state = "DONE" /\ pc' = "finalize" /\ call' = found(a)
    <3>1. file' = NoPosition
      BY <1>0, <1>f, <2>1 DEF Mirror, Held
    <3>2. AtResult'
      BY <1>2, <1>6, <1>7, <2>1, <3>1 DEF AtResult
    <3> QED
      BY <1>5, <1>6, <2>1, <3>2 DEF CtlInv, AtPlacing, AtApply, AtWindow, AtResolve, AtExit,
        Labels, HeldLabels, Named, Placing
  <2>2. CASE pc' = call.next /\ call' = NoCall
    BY <1>5, <2>2, AtRest, QuantityAssumption DEF Call
  <2>3. CASE /\ Held /\ New(a) \in 0..pos.qty
             /\ pc' = "result"
             /\ call' = [found(a) EXCEPT !.fill = New(a), !.reason = Rsn]
    <3>1. /\ file # NoPosition /\ file \in Position /\ pos \in Position
          /\ pos = [file EXCEPT !.blocked = pos.blocked]
      BY <1>f, <2>3 DEF Mirror, TypeOK, Held
    <3>2. pos.exit = file.exit /\ pos.reason # "SCALP" /\ pos.qty \in Qty
      BY <1>f, <3>1 DEF Position, FileInv
    <3>3. AppliedBefore(x) = Saved(x)
      BY <3>2 DEF AppliedBefore, Saved
    <3>4. Rsn \in Reasons \cup {"NONE"} /\ Rsn # "SCALP"
      BY <3>1, <3>2 DEF Position, Reasons
    <3>5. PICK n \in 0..pos.qty : n = New(a)
      BY <2>3
    <3>6. n \in Qty
      BY <3>2, QuantityAssumption DEF Qty
    <3> HIDE DEF Rsn
    <3>7. /\ call' \in Call /\ call'.action = orders[x].action /\ call'.op = x
          /\ call'.obs = a /\ call'.then = call.then /\ call'.reason = Rsn
          /\ call'.fill = n
      BY <1>6, <2>3, <3>4, <3>5, <3>6 DEF Call
    <3>8. n = a.filled - Saved(x)
      BY <3>3, <3>5
    <3>9. call'.fill \in 0..pos'.qty
      BY <1>0, <3>7
    <3>10. a.filled <= book'[x].filled
           /\ (a.state = "DONE" => Broker!Ended(x)' /\ a.filled = book'[x].filled)
      BY <1>0, <1>2, <1>7
    <3>11. AtResult'
      BY <1>7, <2>3, <3>7, <3>8, <3>9, <3>10 DEF AtResult
    <3> QED
      BY <1>0, <1>5, <1>7, <2>3, <3>4, <3>7, <3>11 DEF CtlInv, AtPlacing, AtApply, AtWindow,
        AtResolve, AtExit, Labels, HeldLabels, Named, Placing
  <2>4. CASE Held /\ pc' = "block" /\ call' = call
    BY <1>5, <1>7, <2>4 DEF CtlInv, AtPlacing, AtApply, AtWindow, AtResolve, AtExit, AtResult,
      Labels, HeldLabels, Named, Placing
  <2> QED
    BY <1>1, <2>1, <2>2, <2>3, <2>4
<1> QED
  BY <1>0, <1>3, <1>4, <1>8, <1>f, TypesStill, QuietStep

LEMMA RecoverExitsKeeps ==
  ASSUME FullInv, RecoverExits PROVE FullInv'
<1>f. TypeOK /\ BooksInv /\ CtlInv
  BY DEF FullInv
<1>0. pc = "recoverExits"
  BY DEF RecoverExits
<1>1. ASSUME NEW x \in ExitOp, RecoverExit(x) PROVE FullInv'
  BY <1>0, <1>1, RecoverExitKeeps
<1>2. ASSUME UNCHANGED <<stops, orders, file, pnl, pos, book, net, late, restarts>>,
             \/ Held /\ pc' = "block" /\ call' = call
             \/ pc' = call.next /\ call' = NoCall
      PROVE  FullInv'
  <2>1. StopsAlike /\ \A y \in ExitOp : SameExit(y)
    BY <1>2, <1>f, StoppedStill, ExitsStill
  <2>2. call \in Call /\ call.then # "finalize" /\ call.reason # "SCALP"
    BY <1>f DEF TypeOK, CtlInv
  <2>3. CtlInv' /\ call' \in Call
    <3>1. CASE Held /\ pc' = "block" /\ call' = call
      <4>1. Held'
        BY <1>2, <3>1 DEF Held
      <4> QED
        BY <2>2, <3>1, <4>1 DEF CtlInv, AtPlacing, AtApply, AtWindow, AtResolve, AtExit, AtResult,
      Labels, HeldLabels, Named, Placing
    <3>2. CASE pc' = call.next /\ call' = NoCall
      BY <2>2, <3>2, AtRest, QuantityAssumption DEF Call
    <3> QED
      BY <1>2, <3>1, <3>2
  <2> QED
    BY <1>0, <1>2, <1>f, <2>1, <2>3, TypesStill, QuietStep
<1>3. \/ \E x \in ExitOp : RecoverExit(x)
      \/ /\ UNCHANGED <<stops, orders, file, pnl, pos, book, net, late, restarts>>
         /\ \/ Held /\ pc' = "block" /\ call' = call
            \/ pc' = call.next /\ call' = NoCall
  BY DEF RecoverExits, FlagLostExit
<1> QED
  BY <1>1, <1>2, <1>3

LEMMA StutterKeeps ==
  ASSUME FullInv, UNCHANGED vars PROVE FullInv'
<1>f. TypeOK /\ BooksInv /\ CtlInv
  BY DEF FullInv
<1>0. UNCHANGED <<stops, orders, file, pnl, pos, pc, call, book, net, late, restarts>>
  BY DEF vars
<1>1. TypeOK' /\ BooksInv'
  <2>1. StopsAlike /\ \A y \in ExitOp : SameExit(y)
    BY <1>0, <1>f, StoppedStill, ExitsStill
  <2> QED
    BY <1>0, <1>f, <2>1, TypesStill, AlikeKeepsBooks DEF TypeOK
<1>2. MoneyInv' /\ FileInv' /\ NamedInv'
  BY <1>0, <1>f, StoppedStill, ExitsStill, AlikeKeepsMoney DEF Alike
<1>3. CoverInv' /\ Mirror'
  BY <1>0 DEF FullInv, CoverInv, Covers, Mirror, Broker!Accepted, Broker!Is
<1>4. CtlInv'
  <2>1. AtPlacing' /\ AtApply' /\ AtWindow' /\ AtResolve'
    BY <1>0, <1>f DEF CtlInv, AtPlacing, AtApply, AtWindow, AtResolve, Placing, Settled, Applied,
      Identified, Held, LocalQty, NoExitYet, Stop!Unresolved, Broker!Ended, Broker!Is, Broker!Accepted
  <2>2. AtExit'
    BY <1>0, <1>f DEF CtlInv, AtExit, Settled, Applied, Orders!Unresolved, Broker!Ended, Broker!Is
  <2>3. AtResult'
    BY <1>0, <1>f DEF CtlInv, AtResult, Settled, Applied, Saved, Orders!Unresolved,
      Broker!Ended, Broker!Is
  <2> QED
    BY <1>0, <1>f, <2>1, <2>2, <2>3 DEF CtlInv, Held, Identified
<1> QED
  BY <1>1, <1>2, <1>3, <1>4 DEF FullInv

LEMMA FullInit == ~Hybrid /\ Init => FullInv
<1> SUFFICES ASSUME ~Hybrid, Init PROVE FullInv
  OBVIOUS
<1>1. /\ stops = [s \in StopOp |-> Stop!Blank] /\ orders = [x \in ExitOp |-> Orders!Blank]
      /\ book = [o \in Op |-> [status |-> "NONE", qty |-> 0, filled |-> 0, cancels |-> 0]]
      /\ net = Quantity /\ pos = NewPosition /\ file = pos
      /\ pnl = [o \in Op |-> 0] /\ pc = "protect" /\ call = NoCall
      /\ late = FALSE /\ restarts = 0
  BY DEF Init, Stop!Init, Orders!Init, Broker!Init, Op
<1> DEFINE r == CHOOSE r \in Reasons : TRUE
<1>2. r \in Reasons
  BY DEF Reasons
<1> HIDE DEF r
<1>3. Stop!Blank = [ created |-> FALSE, instrument |-> Symbol,
           orderId |-> NoOp, requested |-> 0, filled |-> 0, applied |-> 0,
           priced |-> FALSE, resolved |-> FALSE, action |-> "NONE",
           reason |-> r, exitQty |-> 0, cancelTried |-> FALSE ]
  BY DEF Stop!Blank, r
<1>4. Orders!Blank = [ created |-> FALSE, instrument |-> Symbol,
           action |-> "EXIT", orderId |-> NoOp, requested |-> 0,
           filled |-> 0, priced |-> FALSE, terminal |-> FALSE, applied |-> 0,
           resolved |-> FALSE ]
  BY DEF Orders!Blank
<1>5. Stop!Blank \in Stop!StopRecord /\ Orders!Blank \in Orders!OrderRecord
  BY <1>2, <1>3, <1>4, QuantityAssumption
  DEF Stop!StopRecord, Stop!Qty, Stop!Action, Orders!OrderRecord, Orders!Qty, Orders!Action
<1>6. Stop!TypeOK /\ Orders!TypeOK /\ Broker!TypeOK
  BY <1>1, <1>5, QuantityAssumption
  DEF Stop!TypeOK, Orders!TypeOK, Broker!TypeOK, Broker!Entry, Broker!Status, Op
<1> DEFINE e == [a \in Family |-> [op |-> NoOp, filled |-> 0, priced |-> FALSE]]
<1>7. e \in [Family -> [op : ExitOp \cup {NoOp}, filled : Qty, priced : BOOLEAN]]
      /\ \A a \in Family : e[a].op = NoOp /\ e[a].filled = 0
  BY QuantityAssumption DEF Qty
<1> HIDE DEF e
<1>8. NewPosition = [ qty |-> Quantity, op |-> NoOp, pending |-> TRUE, protected |-> FALSE,
           blocked |-> TRUE, manual |-> FALSE, exit |-> e,
           reason |-> "NONE", stage |-> "NONE", scalpLeft |-> 0 ]
  BY DEF NewPosition, e
<1>9. NewPosition \in Position /\ Quantity \in Qty
  BY <1>7, <1>8, QuantityAssumption DEF Position, Qty
<1>10. NoCall \in Call
  BY QuantityAssumption DEF NoCall, Call, NoAnswer, Answer, Qty
<1>11. TypeOK
  <2>1. late \in BOOLEAN
    BY <1>1
  <2>2. restarts \in 0..MaxRestarts /\ pnl \in [Op -> Nat]
    BY <1>1, MaxRestartsAssumption
  <2>3. {pos, file} \subseteq Position \cup {NoPosition} /\ call \in Call
    BY <1>1, <1>9, <1>10
  <2> QED
    BY <1>6, <2>1, <2>2, <2>3 DEF TypeOK
<1>12. file # NoPosition /\ pos # NoPosition
  BY <1>1, <1>9, NoPositionAssumption
<1>13. /\ \A s \in StopOp : /\ ~stops[s].created /\ stops[s].orderId = NoOp /\ ~stops[s].resolved
                            /\ ~stops[s].priced /\ stops[s].applied = 0 /\ stops[s].action = "NONE"
       /\ \A x \in ExitOp : ~orders[x].created /\ orders[x].orderId = NoOp /\ ~orders[x].resolved
  BY <1>1, <1>3, <1>4
<1>14. \A o \in Op : Broker!Is(o, {"NONE"}) /\ book[o].filled = 0 /\ book[o].qty = 0
                     /\ book[o].status = "NONE"
  BY <1>1 DEF Broker!Is
<1>15. BooksInv
  <2>1. \A o \in Op : OrderShape(o)
    BY <1>14 DEF OrderShape, Broker!Is
  <2>2. \A s \in StopOp : StopShape(s)
    BY <1>1, <1>13, <1>14 DEF StopShape, Stop!Requested, Op
  <2>3. \A x \in ExitOp : ExitShape(x)
    BY <1>13, <1>14 DEF ExitShape, Op
  <2> QED
    BY <1>13, <2>1, <2>2, <2>3 DEF BooksInv, Orders!Unresolved
<1>16. MoneyInv
  <2>1. NoExitYet /\ LocalQty(file) = Quantity
    BY <1>1, <1>8, <1>12, <1>13 DEF NoExitYet, LocalQty
  <2> QED
    BY <1>1, <1>13, <2>1 DEF MoneyInv, Orders!Unresolved
<1>17. FileInv /\ NamedInv
  BY <1>1, <1>7, <1>8, <1>13 DEF FileInv, NamedInv
<1>18. CoverInv /\ Mirror
  BY <1>1, <1>8, <1>12 DEF CoverInv, Covers, Mirror
<1>19. CtlInv
  <2>1. Held /\ call.then = "idle" /\ call.reason = "NONE"
    BY <1>1, <1>12 DEF Held, NoCall
  <2> QED
    BY <1>1, <1>13, <2>1 DEF CtlInv, AtPlacing, AtApply, AtWindow, AtResolve, AtExit, AtResult,
      Labels, HeldLabels, Named, Placing
<1> QED
  BY <1>11, <1>15, <1>16, <1>17, <1>18, <1>19 DEF FullInv

LEMMA FullNext == FullInv /\ [Next]_vars => FullInv'
<1> SUFFICES ASSUME FullInv, [Next]_vars PROVE FullInv'
  OBVIOUS
<1>1. CASE Protecting
  BY <1>1, CreateStopIntentKeeps, SubmitStopKeeps, AttachStopKeeps,
    StopSubmissionUncertainKeeps, VerifyStopKeeps, StopResultKeeps DEF Protecting
<1>2. CASE Checking
  BY <1>2, CheckPositionKeeps, BlockKeeps, ApplyNoFillKeeps, ReserveStopFillKeeps,
    BookStopFillKeeps, SaveStopFillKeeps, ResolveStopKeeps, NoExitKeeps, DecideExitKeeps
  DEF Checking
<1>3. CASE Coordinating
  BY <1>3, RequestCoordinationKeeps, CoordinateKeeps, ReserveCancelKeeps, CancelStopKeeps,
    ClearForExitKeeps DEF Coordinating
<1>4. CASE Exiting
  BY <1>4, RefusedKeeps, CreateExitIntentKeeps, SubmitExitKeeps, AttachExitKeeps,
    VerifyExitKeeps, ResultNoFillKeeps, ResultUnpricedKeeps, BookExitFillKeeps,
    SaveExitFillKeeps, FinalizeKeeps, NeverReprotects DEF Exiting
<1>5. CASE RecoverStops \/ RecoverExits
  BY <1>5, RecoverStopsKeeps, RecoverExitsKeeps
<1>6. CASE SquareOff \/ BrokerMove \/ Crash \/ Restart
  BY <1>6, SquareOffKeeps, BrokerMoveKeeps, CrashKeeps, RestartKeeps
<1>7. CASE UNCHANGED vars
  BY <1>7, StutterKeeps
<1> QED
  BY <1>1, <1>2, <1>3, <1>4, <1>5, <1>6, <1>7 DEF Next, Bot, Terminated

LEMMA FullInvariant == ASSUME ~Hybrid PROVE Spec => []FullInv
BY FullInit, FullNext, PTL DEF Spec

----------------------------------------------------------------------------
(* What the invariant says of the whole *)

\* An order at work is an open operation's: the one stop's before the first
\* exit, the one unresolved exit's after it.
LEMMA AtWork ==
  ASSUME FullInv, NEW o \in Op, Broker!InFlight(o)
  PROVE  /\ ~Broker!Ended(o) /\ ~Broker!Is(o, {"NONE"})
         /\ o \in StopOp => stops[o].created /\ NoExitYet
         /\ o \in ExitOp => Orders!Unresolved(o) /\ ~NoExitYet
<1>f. BooksInv /\ MoneyInv
  BY DEF FullInv
<1>1. ~Broker!Ended(o) /\ ~Broker!Is(o, {"NONE"})
  BY DEF Broker!InFlight, Broker!Ended, Broker!Is
<1>2. o \in StopOp => stops[o].created
  BY <1>1, <1>f DEF BooksInv, StopShape
<1>3. o \in StopOp => NoExitYet
  BY <1>1, <1>2, <1>f DEF MoneyInv
<1>4. o \in ExitOp => Orders!Unresolved(o) /\ ~NoExitYet
  BY <1>1, <1>f DEF BooksInv, ExitShape, Orders!Unresolved, NoExitYet
<1> QED
  BY <1>1, <1>2, <1>3, <1>4

LEMMA OneAtWork == FullInv => OneClosingOrder
<1> SUFFICES ASSUME FullInv, NEW o \in Op, NEW p \in Op, Broker!InFlight(o), Broker!InFlight(p)
             PROVE  o = p
  BY DEF OneClosingOrder
<1>1. /\ o \in StopOp => stops[o].created /\ NoExitYet
      /\ o \in ExitOp => Orders!Unresolved(o) /\ ~NoExitYet
      /\ p \in StopOp => stops[p].created /\ NoExitYet
      /\ p \in ExitOp => Orders!Unresolved(p) /\ ~NoExitYet
  BY AtWork
<1> QED
  BY <1>1 DEF FullInv, BooksInv, Op

\* The numbers the books hold.
LEMMA Numbers ==
  ASSUME FullInv
  PROVE  /\ net \in Int /\ LocalQty(file) \in Nat /\ Quantity \in Nat
         /\ \A s \in StopOp : stops[s].applied \in Nat /\ book[s].filled \in Nat /\ pnl[s] \in Nat
                              /\ stops[s].applied <= book[s].filled
         /\ \A x \in ExitOp : orders[x].requested \in Nat /\ book[x].filled \in Nat
<1>f. TypeOK /\ BooksInv
  BY DEF FullInv
<1>1. LocalQty(file) \in Nat
  BY <1>f, QuantityAssumption DEF TypeOK, LocalQty, Position, Qty
<1>2. \A s \in StopOp : stops[s].applied \in Nat /\ book[s].filled \in Nat /\ pnl[s] \in Nat
  BY <1>f, QuantityAssumption
  DEF TypeOK, Stop!TypeOK, Stop!StopRecord, Stop!Qty, Broker!TypeOK, Broker!Entry, Op
<1>3. \A x \in ExitOp : orders[x].requested \in Nat /\ book[x].filled \in Nat
  BY <1>f, QuantityAssumption
  DEF TypeOK, Orders!TypeOK, Orders!OrderRecord, Orders!Qty, Broker!TypeOK, Broker!Entry, Op
<1>4. \A s \in StopOp : stops[s].applied <= book[s].filled
  BY <1>2, <1>f DEF BooksInv, StopShape
<1> QED
  BY <1>1, <1>2, <1>3, <1>4, <1>f, QuantityAssumption DEF TypeOK, Broker!TypeOK

LEMMA FileCoversNet == FullInv => LocalQty(file) >= net
<1> SUFFICES ASSUME FullInv PROVE LocalQty(file) >= net
  OBVIOUS
<1>f. TypeOK /\ BooksInv /\ MoneyInv
  BY DEF FullInv
<1>n. /\ net \in Int /\ LocalQty(file) \in Nat /\ Quantity \in Nat
      /\ \A s \in StopOp : stops[s].applied \in Nat /\ book[s].filled \in Nat
                           /\ stops[s].applied <= book[s].filled
      /\ \A x \in ExitOp : orders[x].requested \in Nat /\ book[x].filled \in Nat
  BY Numbers
<1>1. CASE \A s \in StopOp : ~stops[s].created
  BY <1>1, <1>f, <1>n DEF MoneyInv
<1>2. CASE NoExitYet /\ \E s \in StopOp : stops[s].created
  <2>1. PICK s \in StopOp : stops[s].created
    BY <1>2
  <2>2. net = Quantity - book[s].filled /\ LocalQty(file) + stops[s].applied >= Quantity
    BY <1>2, <1>f, <2>1 DEF MoneyInv
  <2> QED
    BY <1>n, <2>2
<1>3. CASE \E x \in ExitOp : Orders!Unresolved(x)
  <2>1. PICK x \in ExitOp : Orders!Unresolved(x)
    BY <1>3
  <2>2. /\ net = orders[x].requested - book[x].filled
        /\ IF file = NoPosition THEN book[x].filled = orders[x].requested
           ELSE file.qty = orders[x].requested - Saved(x) /\ Saved(x) <= book[x].filled
    BY <1>f, <2>1 DEF MoneyInv
  <2>3. file # NoPosition => Saved(x) \in Nat
    BY <1>f, <2>1, SavedType, QuantityAssumption DEF Orders!Unresolved
  <2> QED
    BY <1>n, <2>2, <2>3 DEF LocalQty
<1>4. CASE ~NoExitYet /\ \A x \in ExitOp : ~Orders!Unresolved(x)
  BY <1>4, <1>f, <1>n DEF MoneyInv
<1> QED
  BY <1>1, <1>2, <1>3, <1>4

LEMMA SettledAgrees == FullInv => SettledMeansAgreed
<1> SUFFICES ASSUME FullInv, \A s \in StopOp : ~Stop!Unresolved(s),
                    \A x \in ExitOp : ~Orders!Unresolved(x)
             PROVE  LocalQty(file) = net
  BY DEF SettledMeansAgreed
<1>f. TypeOK /\ BooksInv /\ MoneyInv
  BY DEF FullInv
<1>n. /\ net \in Int /\ LocalQty(file) \in Nat /\ Quantity \in Nat
      /\ \A s \in StopOp : stops[s].applied \in Nat /\ book[s].filled \in Nat
  BY Numbers
<1>1. CASE \A s \in StopOp : ~stops[s].created
  BY <1>1, <1>f DEF MoneyInv
<1>2. CASE NoExitYet /\ \E s \in StopOp : stops[s].created
  <2>1. PICK s \in StopOp : stops[s].created
    BY <1>2
  <2>2. stops[s].resolved /\ stops[s].applied = book[s].filled
    BY <1>f, <2>1 DEF Stop!Unresolved, BooksInv, StopShape
  <2>3. net = Quantity - book[s].filled /\ LocalQty(file) + stops[s].applied = Quantity
    BY <1>2, <1>f, <2>1, <2>2 DEF MoneyInv
  <2> QED
    BY <1>n, <2>2, <2>3
<1>3. CASE ~NoExitYet
  BY <1>3, <1>f DEF MoneyInv
<1> QED
  BY <1>1, <1>2, <1>3

LEMMA StopsBookedOnce == FullInv => StopFillsBookedOnce
<1> SUFFICES ASSUME FullInv, NEW s \in StopOp
             PROVE  /\ pnl[s] <= stops[s].applied
                    /\ stops[s].applied <= book[s].filled
                    /\ stops[s].resolved =>
                         /\ Broker!Ended(s)
                         /\ stops[s].applied = book[s].filled
                         /\ stops[s].priced => pnl[s] = book[s].filled
  BY DEF StopFillsBookedOnce
<1>1. StopShape(s)
  BY DEF FullInv, BooksInv
<1> QED
  BY <1>1, Numbers DEF StopShape

\* The position in memory is the file's.
LEMMA NothingUnderstated == FullInv => NeverUnderstated
<1> SUFFICES ASSUME FullInv PROVE NeverUnderstated
  OBVIOUS
<1>1. LocalQty(file) >= net
  BY FileCoversNet
<1>2. ~Down => LocalQty(pos) = LocalQty(file)
  <2>1. SUFFICES ASSUME pc # "down" PROVE LocalQty(pos) = LocalQty(file)
    BY DEF Down
  <2>2. CASE file = NoPosition
    BY <2>1, <2>2 DEF FullInv, Mirror
  <2>3. CASE file # NoPosition
    <3>1. /\ file \in Position /\ pos # NoPosition
          /\ pos = [file EXCEPT !.blocked = pos.blocked]
      BY <2>1, <2>3 DEF FullInv, TypeOK, Mirror
    <3> QED
      BY <2>3, <3>1 DEF LocalQty, Position
  <2> QED
    BY <2>2, <2>3
<1> QED
  BY <1>1, <1>2 DEF NeverUnderstated

LEMMA UnblockedCovered == FullInv => UnblockedMeansCovered
BY DEF FullInv, CoverInv, Covers, Held, UnblockedMeansCovered

----------------------------------------------------------------------------
(* The exit side keeps the promise of ExitExposure *)

\* What is in flight by the book b, to be read before and after a step.
AtWorkIn(b)  == {o \in Op : b[o].status \in {"SENT", "TRIGGER_PENDING", "OPEN"}}
LeftIn(b, o) == b[o].qty - b[o].filled
SharesIn(b)  == MapThenSumSet(LAMBDA o : LeftIn(b, o), AtWorkIn(b))

LEMMA SharesInBook ==
  InFlightShares = SharesIn(book) /\ InFlightShares' = SharesIn(book')
BY DEF InFlightShares, SharesIn, LeftIn, AtWorkIn, Broker!Left, Broker!InFlight, Broker!Is,
  MapThenSumSet, MapThenFoldSet

\* The function that the sum over S is defined by.
Sums(f, b, S) ==
  f = [T \in SUBSET S |->
         IF T = {} THEN 0
         ELSE LET x == CHOOSE x \in T : TRUE IN LeftIn(b, x) + f[T \ {x}]]

LEMMA SumDef ==
  ASSUME NEW b, NEW S, NEW n, \E f : Sums(f, b, S), \A f : Sums(f, b, S) => f[S] = n
  PROVE  MapThenSumSet(LAMBDA o : LeftIn(b, o), S) = n
<1>1. Sums(CHOOSE f : Sums(f, b, S), b, S)
  OBVIOUS
<1>2. (CHOOSE f : Sums(f, b, S))[S] = n
  BY <1>1
<1> QED
  BY <1>2 DEF Sums, MapThenSumSet, MapThenFoldSet

LEMMA NoneAtWork ==
  ASSUME NEW b, AtWorkIn(b) = {} PROVE SharesIn(b) = 0
<1>1. PICK S : S = AtWorkIn(b)
  OBVIOUS
<1>2. Sums([T \in SUBSET S |-> 0], b, S)
  BY <1>1 DEF Sums
<1>3. \A f : Sums(f, b, S) => f[S] = 0
  BY <1>1 DEF Sums
<1>4. MapThenSumSet(LAMBDA o : LeftIn(b, o), S) = 0
  BY <1>2, <1>3, SumDef
<1> QED
  BY <1>1, <1>4 DEF SharesIn

LEMMA OnlyAtWork ==
  ASSUME NEW b, NEW o, LeftIn(b, o) \in Int, AtWorkIn(b) = {o}
  PROVE  SharesIn(b) = LeftIn(b, o)
<1>0. PICK S : S = AtWorkIn(b)
  OBVIOUS
<1>1. S = {o} /\ SUBSET S = {{}, S} /\ (CHOOSE x \in S : TRUE) = o /\ S \ {o} = {}
  BY <1>0
<1>2. Sums([T \in SUBSET S |-> IF T = {} THEN 0 ELSE LeftIn(b, o)], b, S)
  BY <1>1 DEF Sums
<1>3. ASSUME NEW f, Sums(f, b, S) PROVE f[S] = LeftIn(b, o)
  <2>0. \A T \in SUBSET S :
          f[T] = IF T = {} THEN 0
                 ELSE LET x == CHOOSE x \in T : TRUE IN LeftIn(b, x) + f[T \ {x}]
    BY <1>3, Zenon DEF Sums
  <2>1. f[{}] = 0
    BY <2>0
  <2>2. f[S] = LeftIn(b, o) + f[{}]
    BY <1>1, <2>0
  <2> QED
    BY <2>1, <2>2
<1>4. MapThenSumSet(LAMBDA p : LeftIn(b, p), S) = LeftIn(b, o)
  BY <1>2, <1>3, SumDef
<1> QED
  BY <1>0, <1>4 DEF SharesIn

\* What is committed in a state of the bot: nothing, or the rest of one order.
LEMMA CommittedNow ==
  ASSUME FullInv
  PROVE  /\ \A o \in Op : book[o].filled \in Nat /\ book[o].qty \in Nat
         /\ AtWorkIn(book) \subseteq Op
         /\ \A o \in Op : o \in AtWorkIn(book) <=> Broker!InFlight(o)
         /\ \A o \in AtWorkIn(book) : LeftIn(book, o) > 0 /\ AtWorkIn(book) = {o}
         /\ AtWorkIn(book) = {} => InFlightShares = 0
         /\ \A o \in AtWorkIn(book) : InFlightShares = LeftIn(book, o)
<1>1. \A o \in Op : book[o].filled \in Nat /\ book[o].qty \in Nat
  BY QuantityAssumption DEF FullInv, TypeOK, Broker!TypeOK, Broker!Entry, Op
<1>2. \A o \in Op : o \in AtWorkIn(book) <=> Broker!InFlight(o)
  BY DEF AtWorkIn, Broker!InFlight, Broker!Is
<1>3. AtWorkIn(book) \subseteq Op
  BY DEF AtWorkIn
<1>4. \A o \in AtWorkIn(book) : AtWorkIn(book) = {o}
  BY <1>2, <1>3, OneAtWork DEF OneClosingOrder
<1>5. \A o \in AtWorkIn(book) : LeftIn(book, o) > 0
  <2>1. TAKE o \in AtWorkIn(book)
  <2>2. o \in Op /\ OrderShape(o) /\ Broker!Is(o, {"SENT", "TRIGGER_PENDING", "OPEN"})
    BY <1>3 DEF FullInv, BooksInv, AtWorkIn, Broker!Is
  <2>3. book[o].filled < book[o].qty
    BY <2>2 DEF OrderShape
  <2> QED
    BY <1>1, <2>2, <2>3 DEF LeftIn
<1>6. AtWorkIn(book) = {} => InFlightShares = 0
  BY NoneAtWork, SharesInBook
<1>7. \A o \in AtWorkIn(book) : InFlightShares = LeftIn(book, o)
  <2>1. TAKE o \in AtWorkIn(book)
  <2>2. LeftIn(book, o) \in Int
    BY <1>1, <1>3 DEF LeftIn
  <2> QED
    BY <1>4, <2>2, OnlyAtWork, SharesInBook
<1> QED
  BY <1>1, <1>2, <1>3, <1>4, <1>5, <1>6, <1>7

\* A request sent while nothing is at work commits its quantity.
LEMMA SentAlone ==
  ASSUME FullInv, NEW o \in Op, NEW q \in 1..Quantity, Broker!Submit(o, q),
         \A p \in Op : ~Broker!InFlight(p), q <= net
  PROVE  Exposure!Commit(q)
<1>1. /\ book[o].status = "NONE" /\ book'[o].status = "SENT"
      /\ book'[o].qty = q /\ book'[o].filled = book[o].filled
      /\ \A p \in Op : p # o => book'[p] = book[p]
      /\ net' = net
  BY DEF FullInv, TypeOK, Broker!Submit, Broker!TypeOK, Broker!Entry, Broker!Is, Op
<1>2. book[o].filled = 0
  BY <1>1 DEF FullInv, BooksInv, OrderShape, Broker!Is
<1>3. AtWorkIn(book) = {}
  BY CommittedNow
<1>4. AtWorkIn(book') = {o}
  BY <1>1, <1>3 DEF AtWorkIn
<1>5. LeftIn(book', o) = q
  BY <1>1, <1>2, QuantityAssumption DEF LeftIn
<1>6. InFlightShares = 0 /\ InFlightShares' = q
  BY <1>3, <1>4, <1>5, CommittedNow, OnlyAtWork, SharesInBook, QuantityAssumption
<1> QED
  BY <1>1, <1>6 DEF Exposure!Commit

LEMMA SubmitStopCommits ==
  ASSUME FullInv, SubmitStop PROVE \E q \in 1..Quantity : Exposure!Commit(q)
<1>f. BooksInv /\ MoneyInv /\ CtlInv
  BY DEF FullInv
<1>0. pc = "submitStop" /\ Broker!Submit(call.stop, stops[call.stop].requested)
  BY DEF SubmitStop
<1>1. PICK s \in StopOp : s = call.stop
  BY <1>0, <1>f DEF CtlInv, AtPlacing, Placing
<1>2. stops[s].created /\ Broker!Is(s, {"NONE"}) /\ s \in Op
  BY <1>0, <1>1, <1>f DEF CtlInv, AtPlacing, Placing, Stop!Unresolved, Op
<1>3. stops[s].requested = Quantity /\ book[s].filled = 0
  BY <1>2, <1>f DEF BooksInv, StopShape, OrderShape, Broker!Is
<1>4. NoExitYet
  BY <1>2, <1>f DEF MoneyInv, Broker!Is, Broker!Ended
<1>5. net = Quantity
  BY <1>2, <1>3, <1>4, <1>f, QuantityAssumption DEF MoneyInv
<1>6. \A p \in Op : ~Broker!InFlight(p)
  BY <1>2, <1>4, <1>f, AtWork DEF BooksInv, Op, Broker!InFlight, Broker!Is
<1>7. Quantity \in 1..Quantity /\ Broker!Submit(s, Quantity)
  BY <1>0, <1>1, <1>3, QuantityAssumption
<1>8. Exposure!Commit(Quantity)
  BY <1>2, <1>5, <1>6, <1>7, SentAlone, QuantityAssumption
<1> QED
  BY <1>7, <1>8

LEMMA SubmitExitCommits ==
  ASSUME FullInv, SubmitExit PROVE \E q \in 1..Quantity : Exposure!Commit(q)
<1>f. TypeOK /\ BooksInv /\ MoneyInv /\ CtlInv
  BY DEF FullInv
<1>0. pc = "submitExit" /\ Broker!Submit(call.op, orders[call.op].requested)
  BY DEF SubmitExit
<1>1. PICK x \in ExitOp : x = call.op
  BY <1>0, <1>f DEF CtlInv, AtExit
<1>2. Orders!Unresolved(x) /\ Broker!Is(x, {"NONE"}) /\ x \in Op
  BY <1>0, <1>1, <1>f DEF CtlInv, AtExit, Op
<1>3. /\ orders[x].requested \in 1..Quantity /\ book[x].filled = 0 /\ ~NoExitYet
      /\ net = orders[x].requested - book[x].filled
  BY <1>2, <1>f, QuantityAssumption
  DEF BooksInv, ExitShape, OrderShape, Broker!Is, MoneyInv, Orders!Unresolved, NoExitYet,
    TypeOK, Orders!TypeOK, Orders!OrderRecord, Orders!Qty
<1>4. PICK q \in 1..Quantity : q = orders[x].requested
  BY <1>3
<1>5. q <= net
  BY <1>3, <1>4, QuantityAssumption
<1>6. \A p \in Op : ~Broker!InFlight(p)
  BY <1>2, <1>3, <1>f, AtWork DEF BooksInv, Op, Broker!InFlight, Broker!Is
<1>7. Exposure!Commit(q)
  BY <1>0, <1>1, <1>2, <1>4, <1>5, <1>6, SentAlone
<1> QED
  BY <1>7

\* A step of the broker closes a share, or ends an order, or shows nothing.
LEMMA BrokerMoveExposes ==
  ASSUME FullInv, BrokerMove
  PROVE  Exposure!Close \/ Exposure!Release \/ UNCHANGED Exposure!vars
<1>1. PICK o \in Op :
        \/ Broker!Accept(o) \/ Broker!Trigger(o) \/ Broker!Fill(o)
        \/ Broker!Lose(o) \/ Broker!Reject(o) \/ Broker!Cancel(o)
  BY DEF BrokerMove, Op
<1>2. o \in AtWorkIn(book)
  BY <1>1 DEF AtWorkIn, Broker!Accept, Broker!Trigger, Broker!Fill, Broker!Lose,
              Broker!Reject, Broker!Cancel, Broker!Is
<1>3. /\ AtWorkIn(book) = {o} /\ InFlightShares = LeftIn(book, o) /\ LeftIn(book, o) > 0
      /\ book[o].filled \in Nat /\ book[o].qty \in Nat
  BY <1>2, CommittedNow
<1>b. DOMAIN book = Op /\ book[o] \in Broker!Entry
  BY DEF FullInv, TypeOK, Broker!TypeOK, Op
<1>4. ASSUME book'[o].status \notin {"SENT", "TRIGGER_PENDING", "OPEN"},
             \A p \in Op : p # o => book'[p] = book[p]
      PROVE  InFlightShares' = 0
  <2>1. AtWorkIn(book') = {}
    BY <1>3, <1>4 DEF AtWorkIn
  <2> QED
    BY <2>1, NoneAtWork, SharesInBook
<1>5. ASSUME book'[o].status \in {"SENT", "TRIGGER_PENDING", "OPEN"},
             \A p \in Op : p # o => book'[p] = book[p],
             LeftIn(book', o) \in Int
      PROVE  InFlightShares' = LeftIn(book', o)
  <2>1. AtWorkIn(book') = {o}
    BY <1>3, <1>5 DEF AtWorkIn
  <2> QED
    BY <1>5, <2>1, OnlyAtWork, SharesInBook
<1>6. ASSUME NEW st, Broker!Become(o, st)
      PROVE  /\ \A p \in Op : p # o => book'[p] = book[p]
             /\ book'[o].status = st /\ LeftIn(book', o) = LeftIn(book, o) /\ net' = net
  BY <1>6, <1>b DEF Broker!Become, Broker!Entry, LeftIn
<1>7. CASE Broker!Fill(o)
  <2> DEFINE st == IF Broker!Left(o) = 1 THEN "COMPLETE" ELSE book[o].status
  <2>1. /\ book[o].status = "OPEN"
        /\ book' = [book EXCEPT ![o].filled = @ + 1, ![o].status = st]
        /\ net' = net - 1
    BY <1>7 DEF Broker!Fill, Broker!Is
  <2>2. st = IF LeftIn(book, o) = 1 THEN "COMPLETE" ELSE "OPEN"
    BY <2>1 DEF LeftIn, Broker!Left
  <2> HIDE DEF st
  <2>3. /\ \A p \in Op : p # o => book'[p] = book[p]
        /\ book'[o].status = st /\ LeftIn(book', o) = LeftIn(book, o) - 1
    BY <1>3, <1>b, <2>1 DEF Broker!Entry, LeftIn
  <2>4. LeftIn(book, o) \in Int
    BY <1>3 DEF LeftIn
  <2>5. InFlightShares' = InFlightShares - 1
    <3>1. CASE LeftIn(book, o) = 1
      BY <1>3, <1>4, <2>2, <2>3, <3>1
    <3>2. CASE LeftIn(book, o) # 1
      BY <1>3, <1>5, <2>2, <2>3, <2>4, <3>2
    <3> QED
      BY <3>1, <3>2
  <2> QED
    BY <1>3, <2>1, <2>5 DEF Exposure!Close
<1>8. CASE Broker!Accept(o) \/ Broker!Trigger(o)
  <2>1. PICK st \in {"TRIGGER_PENDING", "OPEN"} : Broker!Become(o, st)
    BY <1>8 DEF Broker!Accept, Broker!Trigger
  <2>2. LeftIn(book, o) \in Int
    BY <1>3 DEF LeftIn
  <2>3. /\ \A p \in Op : p # o => book'[p] = book[p]
        /\ book'[o].status = st /\ LeftIn(book', o) = LeftIn(book, o) /\ net' = net
    BY <1>6, <2>1
  <2>4. InFlightShares' = InFlightShares
    BY <1>3, <1>5, <2>2, <2>3
  <2> QED
    BY <2>3, <2>4 DEF Exposure!vars
<1>9. CASE Broker!Lose(o) \/ Broker!Reject(o) \/ Broker!Cancel(o)
  <2>1. PICK st \in {"LOST", "REJECTED", "CANCELLED"} : Broker!Become(o, st)
    BY <1>9 DEF Broker!Lose, Broker!Reject, Broker!Cancel
  <2>2. /\ \A p \in Op : p # o => book'[p] = book[p]
        /\ book'[o].status = st /\ net' = net
    BY <1>6, <2>1
  <2>3. InFlightShares' = 0
    BY <1>4, <2>2
  <2> QED
    BY <1>3, <2>2, <2>3 DEF Exposure!Release
<1> QED
  BY <1>1, <1>7, <1>8, <1>9

\* A cancellation request shows nothing either: the order ends later, or fills.
LEMMA CancelStopShowsNothing ==
  ASSUME FullInv, CancelStop PROVE UNCHANGED Exposure!vars
<1>0. Broker!AskCancel(pos.op)
  BY DEF CancelStop
<1>1. \A o \in Op : book'[o].status = book[o].status /\ LeftIn(book', o) = LeftIn(book, o)
  BY <1>0 DEF FullInv, TypeOK, Broker!TypeOK, Broker!Entry, Broker!AskCancel, LeftIn, Op
<1>2. AtWorkIn(book') = AtWorkIn(book)
  BY <1>1 DEF AtWorkIn
<1>3. InFlightShares' = InFlightShares
  <2>1. CASE AtWorkIn(book) = {}
    BY <1>2, <2>1, CommittedNow, NoneAtWork, SharesInBook
  <2>2. CASE AtWorkIn(book) # {}
    <3>1. PICK o \in Op : o \in AtWorkIn(book)
      BY <2>2 DEF AtWorkIn
    <3>2. AtWorkIn(book') = {o} /\ LeftIn(book', o) \in Int /\ LeftIn(book', o) = LeftIn(book, o)
          /\ InFlightShares = LeftIn(book, o)
      BY <1>1, <1>2, <3>1, CommittedNow DEF LeftIn
    <3> QED
      BY <3>2, OnlyAtWork, SharesInBook
  <2> QED
    BY <2>1, <2>2
<1> QED
  BY <1>0, <1>3 DEF Broker!AskCancel, Exposure!vars

LEMMA BookStillShowsNothing ==
  ASSUME UNCHANGED <<book, net>> PROVE UNCHANGED Exposure!vars
BY SharesInBook DEF Exposure!vars

\* Which steps touch the broker.
LEMMA BrokerStepsOnly ==
  ASSUME FullInv, [Next]_vars
  PROVE  SubmitStop \/ SubmitExit \/ CancelStop \/ BrokerMove \/ UNCHANGED <<book, net>>
<1>1. CASE Protecting
  BY <1>1 DEF Protecting, CreateStopIntent, AttachStop, StopSubmissionUncertain,
    VerifyStop, StopResult, Raise
<1>2. CASE Checking
  BY <1>2 DEF Checking, CheckPosition, Inspect, Raise, Block, ApplyNoFill, ReserveStopFill,
    BookStopFill, SaveStopFill, ResolveStop, NoExit, DecideExit
<1>3. CASE Coordinating
  BY <1>3 DEF Coordinating, RequestCoordination, Coordinate, Inspect, Raise, ReserveCancel,
    ClearForExit
<1>4. CASE Exiting
  BY <1>4, NeverReprotects DEF Exiting, RefuseUncleared, RefusePending, NoExitPlaced,
    CreateExitIntent, AttachExit, ExitSubmissionUncertain, VerifyExit, ResultNoFill,
    ResultUnpriced, BookExitFill, SaveExitFill, Finalize
<1>5. CASE RecoverStops \/ RecoverExits
  BY <1>5 DEF RecoverStops, RecoverExits, RecoverExit, FlagLostExit
<1>6. CASE SquareOff \/ Crash \/ Restart
  BY <1>6 DEF SquareOff, Crash, Restart
<1>7. CASE UNCHANGED vars
  BY <1>7 DEF vars
<1> QED
  BY <1>1, <1>2, <1>3, <1>4, <1>5, <1>6, <1>7 DEF Next, Bot, Terminated

LEMMA ExposureInit == ~Hybrid /\ Init => Exposure!Init
<1> SUFFICES ASSUME ~Hybrid, Init PROVE Exposure!Init
  OBVIOUS
<1>1. AtWorkIn(book) = {} /\ net = Quantity
  BY DEF Init, Broker!Init, AtWorkIn, Op
<1> QED
  BY <1>1, NoneAtWork, SharesInBook DEF Exposure!Init

LEMMA ExposureNext == FullInv /\ [Next]_vars => [Exposure!Next]_(Exposure!vars)
<1> SUFFICES ASSUME FullInv, [Next]_vars PROVE [Exposure!Next]_(Exposure!vars)
  OBVIOUS
<1>1. CASE SubmitStop \/ SubmitExit
  BY <1>1, SubmitStopCommits, SubmitExitCommits DEF Exposure!Next
<1>2. CASE BrokerMove
  BY <1>2, BrokerMoveExposes DEF Exposure!Next
<1>3. CASE CancelStop \/ UNCHANGED <<book, net>>
  BY <1>3, CancelStopShowsNothing, BookStillShowsNothing
<1> QED
  BY <1>1, <1>2, <1>3, BrokerStepsOnly

----------------------------------------------------------------------------
(* Theorems, for the plan without a hybrid exit *)

\* The types.
THEOREM TypeCorrect == ASSUME ~Hybrid PROVE Spec => []TypeOK
BY FullInvariant, PTL DEF FullInv

\* Two orders that close the same position are never in flight together, be
\* they a stop and an exit or two exits, and counting requests whose response
\* was lost, across any number of crashes and restarts.
THEOREM NeverTwoClosingOrders == ASSUME ~Hybrid PROVE Spec => []OneClosingOrder
BY FullInvariant, OneAtWork, PTL

\* Shares still held are always in the books: a crash between the reservation
\* of a fill and its save leaves them overstated, nothing leaves them
\* understated (_apply_confirmed_protective_stop_fill).
THEOREM BooksNeverUnderstate == ASSUME ~Hybrid PROVE Spec => []NeverUnderstated
BY FullInvariant, NothingUnderstated, PTL

\* When every operation is resolved the file says what the broker holds.
THEOREM ResolvedMeansAgreed == ASSUME ~Hybrid PROVE Spec => []SettledMeansAgreed
BY FullInvariant, SettledAgrees, PTL

\* The fill of a stop enters P&L once, and a resolved stop is over and applied.
THEOREM StopProfitOnce == ASSUME ~Hybrid PROVE Spec => []StopFillsBookedOnce
BY FullInvariant, StopsBookedOnce, PTL

\* Automation runs only over a position whose stop the broker accepted for
\* exactly its quantity.
THEOREM UnblockedIsCovered == ASSUME ~Hybrid PROVE Spec => []UnblockedMeansCovered
BY FullInvariant, UnblockedCovered, PTL

\* The stop, the exits, the retries and the recoveries together keep the promise
\* of ExitExposure: no order is sent for more than is held, nor while another
\* can still close shares.
THEOREM ExitsKeepExposure == ASSUME ~Hybrid PROVE Spec => ExposureSpec
<1>1. Init => Exposure!Init
  BY ExposureInit
<1>2. FullInv /\ [Next]_vars => [Exposure!Next]_(Exposure!vars)
  BY ExposureNext
<1> QED
  BY <1>1, <1>2, FullInvariant, PTL DEF Spec, ExposureSpec, Exposure!Spec

----------------------------------------------------------------------------
(* 3. What ExitExposure promises *)

WithinEntry == Exposure!TypeOK /\ Exposure!NeverOverExits

\* A fill needs the commitment within what is held to keep the types, a
\* commitment needs the types to stay within what is held.
LEMMA WithinEntryInit == Exposure!Init => WithinEntry
BY QuantityAssumption
   DEF WithinEntry, Exposure!Init, Exposure!TypeOK, Exposure!NeverOverExits, Qty

LEMMA WithinEntryNext ==
  WithinEntry /\ [Exposure!Next]_(Exposure!vars) => WithinEntry'
<1> SUFFICES ASSUME WithinEntry, [Exposure!Next]_(Exposure!vars) PROVE WithinEntry'
  OBVIOUS
<1> USE QuantityAssumption DEF WithinEntry, Exposure!TypeOK, Exposure!NeverOverExits
<1>1. ASSUME NEW q \in 1..Quantity, Exposure!Commit(q) PROVE WithinEntry'
  BY <1>1 DEF Exposure!Commit
<1>2. CASE Exposure!Close
  BY <1>2 DEF Exposure!Close
<1>3. CASE Exposure!Release
  BY <1>3 DEF Exposure!Release
<1>4. CASE UNCHANGED Exposure!vars
  BY <1>4 DEF Exposure!vars
<1> QED
  BY <1>1, <1>2, <1>3, <1>4 DEF Exposure!Next

\* Whatever keeps the promise of ExitExposure never closes more than it holds, so
\* the bot does not: the account is never turned from long to short by its exits.
THEOREM NeverTurned == ASSUME ~Hybrid PROVE Spec => []Exposure!NeverOverExits
<1>1. ExposureSpec => []WithinEntry
  BY WithinEntryInit, WithinEntryNext, PTL DEF ExposureSpec, Exposure!Spec
<1>2. WithinEntry => Exposure!NeverOverExits
  BY DEF WithinEntry
<1> QED
  BY <1>1, <1>2, ExitsKeepExposure, PTL

----------------------------------------------------------------------------
(* 4. The P&L of exits until the first crash, with either plan *)

RecordsShaped ==
  /\ DOMAIN pnl = StopOp \cup ExitOp
  /\ DOMAIN book = StopOp \cup ExitOp
  /\ DOMAIN orders = ExitOp
  /\ \A x \in ExitOp : /\ {"status", "filled"} \subseteq DOMAIN book[x]
                       /\ book[x].filled \in Nat
                       /\ {"created", "priced", "resolved"} \subseteq DOMAIN orders[x]

\* The order is over, and its fill is in P&L if it has a price.
Booked(x) ==
  /\ Broker!Ended(x)
  /\ orders[x].priced => pnl[x] = book[x].filled

LedgerInv ==
  \A x \in ExitOp :
    /\ pnl[x] \in Nat /\ pnl[x] <= book[x].filled
    /\ ~orders[x].created => pnl[x] = 0
    /\ orders[x].resolved => Booked(x)

Selling == {"submitExit", "attachExit", "verifyExit"}
After   == {"finalize", "reprotect", "saveReprotection", "protect", "submitStop",
            "attachStop", "verifyStop", "stopResult"}

LocalsShaped ==
  /\ {"action", "reason", "want", "full", "stop", "op", "obs", "fill", "recovering",
      "next", "then"} \subseteq DOMAIN call
  /\ call.recovering = FALSE
  /\ call.then \in {"idle", "finalize"}
  /\ call.next \in {"idle", "ended"}
  /\ call.stop \in StopOp \cup {NoOp}
  /\ pc \notin {"recoverStops", "recoverExits"}

PosShaped(p) == "op" \in DOMAIN p /\ p.op \in StopOp \cup {NoOp}

PosInv ==
  /\ pos # NoPosition => PosShaped(pos)
  /\ pc \notin {"idle", "ended", "down", "resolveStop", "finalize"} => PosShaped(pos)

\* The exit in progress: nothing of it is booked before "saveExit", and once its
\* result was applied it is booked.
SaleInv ==
  LET x == call.op IN
  /\ x # NoOp => /\ x \in ExitOp /\ orders[x].created
                 /\ pc \in Selling \cup {"result", "saveExit"} \cup After
  /\ pc \in Selling \cup {"saveExit", "finalize"} => x # NoOp
  /\ x # NoOp /\ pc \in Selling \cup {"result"} => ~orders[x].resolved /\ pnl[x] = 0
  /\ pc = "result" => /\ call.obs.filled \in Nat /\ call.fill = call.obs.filled
                      /\ call.obs.priced => call.fill > 0
                      /\ x = NoOp => call.fill = 0
  /\ x # NoOp /\ pc = "result" =>
       /\ call.fill <= book[x].filled
       /\ Done => /\ Broker!Ended(x) /\ call.fill = book[x].filled
                  /\ orders[x].priced => call.obs.priced
  /\ pc = "saveExit" => /\ pnl[x] = call.fill
                        /\ Done => Broker!Ended(x) /\ call.fill = book[x].filled
  /\ x # NoOp /\ pc \in After => Booked(x)

\* Nothing is claimed after a restart: a process that died between the entry of
\* a fill in P&L and the save of the result enters it again (run PnlTwice).
ProfitInv ==
  /\ restarts \in Nat
  /\ restarts = 0 => RecordsShaped /\ LedgerInv /\ LocalsShaped /\ PosInv /\ SaleInv

\* A step that leaves the exits' records and results alone; the broker may move.
ExitsKept ==
  /\ RecordsShaped'
  /\ orders' = orders
  /\ \A x \in ExitOp :
       /\ pnl'[x] = pnl[x]
       /\ book'[x].filled >= book[x].filled
       /\ Broker!Ended(x) => Broker!Ended(x)' /\ book'[x].filled = book[x].filled

LEMMA KeptLedger ==
  ASSUME RecordsShaped, LedgerInv, ExitsKept
  PROVE  /\ RecordsShaped' /\ LedgerInv'
         /\ \A x \in ExitOp : Booked(x) => Booked(x)'
<1>1. ASSUME NEW x \in ExitOp, Booked(x) PROVE Booked(x)'
  BY <1>1 DEF ExitsKept, Booked, Broker!Ended, Broker!Is
<1>2. LedgerInv'
  BY <1>1 DEF ExitsKept, LedgerInv, RecordsShaped
<1> QED
  BY <1>1, <1>2 DEF ExitsKept

LEMMA KeptUnchanged ==
  RecordsShaped /\ UNCHANGED <<orders, pnl, book>> => ExitsKept
BY DEF RecordsShaped, ExitsKept, Broker!Ended, Broker!Is

LEMMA KeptSubmit ==
  ASSUME RecordsShaped, UNCHANGED <<orders, pnl>>, NEW o, NEW q, Broker!Submit(o, q)
  PROVE  ExitsKept
BY DEF RecordsShaped, ExitsKept, Broker!Ended, Broker!Is, Broker!Submit

LEMMA KeptBroker ==
  ASSUME RecordsShaped, UNCHANGED <<orders, pnl>>, NEW o,
         \/ Broker!Accept(o) \/ Broker!Reject(o) \/ Broker!Lose(o) \/ Broker!Trigger(o)
         \/ Broker!Fill(o) \/ Broker!Cancel(o) \/ Broker!AskCancel(o)
  PROVE  ExitsKept
<1> USE DEF RecordsShaped, ExitsKept, Broker!Ended, Broker!Is
<1>1. CASE Broker!Fill(o)
  BY <1>1 DEF Broker!Fill
<1>2. CASE Broker!AskCancel(o)
  BY <1>2 DEF Broker!AskCancel
<1>3. CASE Broker!Accept(o)
  BY <1>3 DEF Broker!Accept, Broker!Become
<1>4. CASE Broker!Reject(o)
  BY <1>4 DEF Broker!Reject, Broker!Become
<1>5. CASE Broker!Lose(o)
  BY <1>5 DEF Broker!Lose, Broker!Become
<1>6. CASE Broker!Trigger(o)
  BY <1>6 DEF Broker!Trigger, Broker!Become
<1>7. CASE Broker!Cancel(o)
  BY <1>7 DEF Broker!Cancel, Broker!Become
<1> QED
  BY <1>1, <1>2, <1>3, <1>4, <1>5, <1>6, <1>7

\* The locals after a return or an exception.
LEMMA NoCallSale ==
  ASSUME call' = NoCall, pc' \in {"idle", "ended", "down"}
  PROVE  LocalsShaped' /\ SaleInv'
BY OpAssumption DEF NoCall, LocalsShaped, SaleInv, Selling, After

\* What ProfitInv says of a process that was not restarted.
ProfitParts == RecordsShaped /\ LedgerInv /\ LocalsShaped /\ PosInv /\ SaleInv

\* No exit is in progress, or it is booked already.
LEMMA QuietSale ==
  ASSUME call'.op = NoOp, pc' \notin Selling \cup {"result", "saveExit", "finalize"}
  PROVE  SaleInv'
BY OpAssumption DEF SaleInv, Selling, After

LEMMA AfterSale ==
  ASSUME ProfitParts, ExitsKept, call'.op = call.op, pc \in After, pc' \in After,
         pc' = "finalize" => call.op # NoOp
  PROVE  SaleInv'
<1>1. \A x \in ExitOp : Booked(x) => Booked(x)'
  BY KeptLedger DEF ProfitParts
<1>2. call.op # NoOp => call.op \in ExitOp /\ orders'[call.op].created /\ Booked(call.op)'
  BY <1>1 DEF ProfitParts, SaleInv, ExitsKept
<1> QED
  BY <1>2 DEF SaleInv, Selling, After, Booked

\* Where no exit can be in progress.
LEMMA NoSale ==
  ASSUME ProfitParts, pc \notin Selling \cup {"result", "saveExit"} \cup After
  PROVE  call.op = NoOp
BY DEF ProfitParts, SaleInv

LEMMA ProtectingProfit == ProfitParts /\ Protecting => ProfitParts'
<1> SUFFICES ASSUME ProfitParts, Protecting PROVE ProfitParts'
  OBVIOUS
<1>0. RecordsShaped /\ LedgerInv /\ LocalsShaped /\ PosInv /\ SaleInv
  BY DEF ProfitParts
<1>k. ASSUME ExitsKept, LocalsShaped', PosInv', SaleInv' PROVE ProfitParts'
  BY <1>0, <1>k, KeptLedger DEF ProfitParts
<1>1. CASE CreateStopIntent
  <2>1. PICK s \in StopOp : call' = [call EXCEPT !.stop = s]
    BY <1>1 DEF CreateStopIntent
  <2>2. ExitsKept
    BY <1>0, <1>1, KeptUnchanged DEF CreateStopIntent
  <2>3. LocalsShaped' /\ call'.op = call.op /\ pc = "protect" /\ pc' = "submitStop" /\ pos' = pos
    BY <1>0, <1>1, <2>1 DEF LocalsShaped, CreateStopIntent
  <2>4. PosInv'
    BY <1>0, <2>3 DEF PosInv
  <2>5. SaleInv'
    BY <2>2, <2>3, AfterSale DEF After
  <2> QED
    BY <1>k, <2>2, <2>3, <2>4, <2>5
<1>2. CASE SubmitStop
  <2>2. ExitsKept
    BY <1>0, <1>2, KeptSubmit DEF SubmitStop
  <2>3. /\ LocalsShaped' /\ call'.op = call.op
        /\ pc = "submitStop" /\ pc' = "attachStop" /\ pos' = pos
    BY <1>0, <1>2 DEF LocalsShaped, SubmitStop
  <2>4. PosInv'
    BY <1>0, <2>3 DEF PosInv
  <2>5. SaleInv'
    BY <2>2, <2>3, AfterSale DEF After
  <2> QED
    BY <1>k, <2>2, <2>3, <2>4, <2>5
<1>3. CASE AttachStop
  <2>2. ExitsKept
    BY <1>0, <1>3, KeptUnchanged DEF AttachStop
  <2>3. /\ LocalsShaped' /\ call'.op = call.op
        /\ pc = "attachStop" /\ pc' = "verifyStop" /\ pos' = pos
    BY <1>0, <1>3 DEF LocalsShaped, AttachStop
  <2>4. PosInv'
    BY <1>0, <2>3 DEF PosInv
  <2>5. SaleInv'
    BY <2>2, <2>3, AfterSale DEF After
  <2> QED
    BY <1>k, <2>2, <2>3, <2>4, <2>5
<1>4. CASE StopSubmissionUncertain
  <2>2. ExitsKept
    BY <1>0, <1>4, KeptUnchanged DEF StopSubmissionUncertain
  <2>3. /\ LocalsShaped' /\ call'.op = call.op
        /\ pc = "attachStop" /\ pc' = "stopResult" /\ pos' = pos
    BY <1>0, <1>4 DEF LocalsShaped, StopSubmissionUncertain
  <2>4. PosInv'
    BY <1>0, <2>3 DEF PosInv
  <2>5. SaleInv'
    BY <2>2, <2>3, AfterSale DEF After
  <2> QED
    BY <1>k, <2>2, <2>3, <2>4, <2>5
<1>5. CASE VerifyStop
  <2>1. PICK a \in StopAnswers(call.stop) :
          \/ /\ call' = [call EXCEPT !.obs = a]
             /\ pc' = "stopResult"
             /\ StopStoreStep
          \/ Raise
    BY <1>5 DEF VerifyStop
  <2>2. ExitsKept /\ pc = "verifyStop"
    BY <1>0, <1>5, <2>1, KeptUnchanged DEF VerifyStop, Raise
  <2>3. CASE Raise
    <3>1. LocalsShaped' /\ SaleInv'
      BY <2>3, NoCallSale DEF Raise
    <3>2. PosInv'
      BY <1>0, <2>2, <2>3 DEF Raise, PosInv
    <3> QED
      BY <1>k, <2>2, <3>1, <3>2
  <2>4. CASE /\ call' = [call EXCEPT !.obs = a]
             /\ pc' = "stopResult"
             /\ StopStoreStep
    <3>1. LocalsShaped' /\ call'.op = call.op
      BY <1>0, <2>2, <2>4 DEF LocalsShaped
    <3>2. PosInv'
      BY <1>0, <2>2, <2>4 DEF PosInv
    <3>3. SaleInv'
      BY <2>2, <2>4, <3>1, AfterSale DEF After
    <3> QED
      BY <1>k, <2>2, <3>1, <3>2, <3>3
  <2> QED
    BY <2>1, <2>3, <2>4
<1>6. CASE StopResult
  <2>1. ExitsKept /\ pc = "stopResult"
    BY <1>0, <1>6, KeptUnchanged DEF StopResult
  <2>2. pos' = WithStopResult(pos, call.stop, call.obs.state)
    BY <1>6 DEF StopResult
  <2>3. PosShaped(pos')
    BY <1>0, <2>1, <2>2 DEF PosInv, PosShaped, WithStopResult, LocalsShaped
  <2>4. PosInv'
    BY <2>3 DEF PosInv
  <2>5. CASE pc' = "finalize" /\ UNCHANGED call /\ call.op # NoOp
    BY <1>0, <1>k, <2>1, <2>4, <2>5, AfterSale DEF LocalsShaped, After
  <2>6. CASE Return
    <3>1. pc' \in {"idle", "ended"}
      BY <1>0, <2>6 DEF LocalsShaped
    <3> QED
      BY <1>k, <2>1, <2>4, <2>6, <3>1, NoCallSale
  <2>7. (pc' = "finalize" /\ UNCHANGED call /\ call.op # NoOp) \/ Return
    BY <1>0, <1>6 DEF StopResult, LocalsShaped
  <2> QED
    BY <2>5, <2>6, <2>7
<1> QED
  BY <1>1, <1>2, <1>3, <1>4, <1>5, <1>6 DEF Protecting

\* A step of the bot outside an exit.
LEMMA QuietProfit ==
  ASSUME ProfitParts, ExitsKept, LocalsShaped', PosInv', call'.op = NoOp,
         pc' \notin Selling \cup {"result", "saveExit", "finalize"}
  PROVE  ProfitParts'
BY KeptLedger, QuietSale DEF ProfitParts

LEMMA ReturnProfit ==
  ASSUME ProfitParts, ExitsKept, PosInv', Return
  PROVE  ProfitParts'
<1>1. pc' \in {"idle", "ended"} /\ call' = NoCall
  BY DEF ProfitParts, LocalsShaped
<1> QED
  BY <1>1, KeptLedger, NoCallSale DEF ProfitParts

LEMMA RaiseProfit ==
  ASSUME ProfitParts, Raise
  PROVE  ProfitParts'
<1>1. ExitsKept
  BY KeptUnchanged DEF ProfitParts, Raise
<1>2. LocalsShaped' /\ SaleInv'
  BY NoCallSale DEF Raise
<1>3. PosInv'
  BY DEF ProfitParts, Raise, PosInv
<1> QED
  BY <1>1, <1>2, <1>3, KeptLedger DEF ProfitParts

LEMMA InspectProfit ==
  ASSUME ProfitParts, Inspect, pc \in {"idle", "coordinate"}, PosShaped(pos)
  PROVE  ProfitParts'
<1>1. PICK a \in StopAnswers(pos.op) :
        \/ /\ call' = [call EXCEPT !.obs = a]
           /\ pc' = AfterInspection(a)
           /\ StopStoreStep
        \/ Raise
  BY DEF Inspect
<1>2. CASE Raise
  BY <1>2, RaiseProfit
<1>3. CASE /\ call' = [call EXCEPT !.obs = a]
           /\ pc' = AfterInspection(a)
           /\ StopStoreStep
  <2>1. call.op = NoOp
    BY NoSale DEF Selling, After
  <2>2. pc' \in {"apply", "block", "reserveCancel"}
    BY <1>3 DEF AfterInspection
  <2>3. LocalsShaped' /\ call'.op = NoOp
    BY <1>3, <2>1, <2>2 DEF ProfitParts, LocalsShaped
  <2>4. ExitsKept
    BY <1>3, KeptUnchanged DEF ProfitParts, Inspect
  <2>5. PosInv'
    BY <1>3 DEF ProfitParts, PosInv
  <2> QED
    BY <2>2, <2>3, <2>4, <2>5, QuietProfit DEF Selling
<1> QED
  BY <1>1, <1>2, <1>3

\* After an applied fill the position is closed or the bot goes on.
LEMMA AppliedProfit ==
  ASSUME ProfitParts, ExitsKept, AfterApply, call.op = NoOp,
         pos' # NoPosition => PosShaped(pos')
  PROVE  ProfitParts'
<1>1. CASE pos' = NoPosition
  <2>1. Return
    BY <1>1 DEF AfterApply
  <2>2. PosInv'
    BY <1>1, <2>1 DEF PosInv, ProfitParts, LocalsShaped
  <2> QED
    BY <2>1, <2>2, ReturnProfit
<1>2. CASE pos' # NoPosition
  <2>1. pc' \in {"decide", "clear"} /\ UNCHANGED call
    BY <1>2 DEF AfterApply
  <2>2. LocalsShaped' /\ PosInv'
    BY <1>2, <2>1 DEF PosInv, ProfitParts, LocalsShaped
  <2> QED
    BY <2>1, <2>2, QuietProfit DEF Selling
<1> QED
  BY <1>1, <1>2

LEMMA CheckingProfit == ProfitParts /\ Checking => ProfitParts'
<1> SUFFICES ASSUME ProfitParts, Checking PROVE ProfitParts'
  OBVIOUS
<1>0. RecordsShaped /\ LedgerInv /\ LocalsShaped /\ PosInv /\ SaleInv
  BY DEF ProfitParts
<1>1. CASE CheckPosition
  <2>1. PosShaped(pos) /\ pc = "idle"
    BY <1>0, <1>1 DEF CheckPosition, Held, PosInv
  <2>2. CASE Inspect
    BY <2>1, <2>2, InspectProfit
  <2>3. CASE Goto("block") /\ LocalStep
    <3>1. call.op = NoOp
      BY <2>1, NoSale DEF Selling, After
    <3>2. ExitsKept
      BY <1>0, <2>3, KeptUnchanged
    <3>3. LocalsShaped' /\ PosInv'
      BY <1>0, <2>1, <2>3 DEF LocalsShaped, PosInv
    <3> QED
      BY <2>3, <3>1, <3>2, <3>3, QuietProfit DEF Selling
  <2> QED
    BY <1>1, <2>2, <2>3 DEF CheckPosition
<1>2. CASE Block
  <2>1. ExitsKept /\ pc = "block" /\ pos' = [pos EXCEPT !.blocked = TRUE, !.manual = TRUE]
    BY <1>0, <1>2, KeptUnchanged DEF Block
  <2>2. PosShaped(pos')
    BY <1>0, <2>1 DEF PosInv, PosShaped
  <2>3. PosInv'
    BY <2>2 DEF PosInv
  <2> QED
    BY <1>2, <2>1, <2>3, ReturnProfit DEF Block
<1>3. CASE ApplyNoFill
  <2>1. ExitsKept /\ pc = "apply"
    BY <1>0, <1>3, KeptUnchanged DEF ApplyNoFill
  <2>2. PosShaped(pos) /\ call.op = NoOp
    BY <1>0, <2>1, NoSale DEF PosInv, Selling, After
  <2>3. CASE call.obs.state = "ACTIVE"
    <3>1. pos' = [pos EXCEPT !.pending = FALSE, !.protected = TRUE,
                             !.blocked = FALSE, !.manual = FALSE]
      BY <1>3, <2>3 DEF ApplyNoFill
    <3>2. PosShaped(pos') /\ AfterApply
      BY <1>3, <2>2, <2>3, <3>1 DEF PosShaped, ApplyNoFill
    <3> QED
      BY <2>1, <2>2, <3>2, AppliedProfit
  <2>4. CASE call.obs.state # "ACTIVE"
    <3>1. /\ pos' = [pos EXCEPT !.pending = FALSE, !.protected = FALSE,
                                !.blocked = TRUE, !.manual = ~Stop!Requested(pos.op)]
          /\ pc' = "resolveStop" /\ UNCHANGED call
      BY <1>3, <2>4 DEF ApplyNoFill
    <3>2. PosShaped(pos')
      BY <2>2, <3>1 DEF PosShaped
    <3>3. PosInv' /\ LocalsShaped'
      BY <1>0, <3>1, <3>2 DEF PosInv, LocalsShaped
    <3> QED
      BY <2>1, <2>2, <3>1, <3>3, QuietProfit DEF Selling
  <2> QED
    BY <2>3, <2>4
<1>4. CASE ReserveStopFill
  <2>1. ExitsKept /\ pc = "apply"
    BY <1>0, <1>4, KeptUnchanged DEF ReserveStopFill
  <2>2. PosShaped(pos) /\ call.op = NoOp
    BY <1>0, <2>1, NoSale DEF PosInv, Selling, After
  <2>3. /\ pc' \in {"bookStopFill", "saveStopFill"} /\ UNCHANGED pos
        /\ call' = [call EXCEPT !.fill = Unapplied]
    BY <1>4 DEF ReserveStopFill
  <2>4. PosInv' /\ LocalsShaped' /\ call'.op = NoOp
    BY <1>0, <2>2, <2>3 DEF PosInv, LocalsShaped
  <2> QED
    BY <2>1, <2>3, <2>4, QuietProfit DEF Selling
<1>5. CASE BookStopFill
  <2>1. PosShaped(pos) /\ call.op = NoOp
    BY <1>0, <1>5, NoSale DEF PosInv, Selling, After, BookStopFill
  <2>2. pnl' = [pnl EXCEPT ![pos.op] = @ + call.fill] /\ UNCHANGED <<orders, book>>
    BY <1>5 DEF BookStopFill
  <2>3. ExitsKept
    BY <1>0, <2>1, <2>2, OpAssumption
    DEF RecordsShaped, ExitsKept, PosShaped, Broker!Ended, Broker!Is
  <2>4. PosInv' /\ LocalsShaped' /\ UNCHANGED call /\ pc' = "saveStopFill"
    BY <1>0, <1>5, <2>1 DEF PosInv, LocalsShaped, BookStopFill
  <2> QED
    BY <2>1, <2>3, <2>4, QuietProfit DEF Selling
<1>6. CASE SaveStopFill
  <2>1. ExitsKept /\ pc = "saveStopFill"
    BY <1>0, <1>6, KeptUnchanged DEF SaveStopFill
  <2>2. PosShaped(pos) /\ call.op = NoOp
    BY <1>0, <2>1, NoSale DEF PosInv, Selling, After
  <2>3. pos' # NoPosition => PosShaped(pos')
    <3>1. CASE pos' = NoPosition
      BY <3>1
    <3>2. CASE pos' = [Reduced(pos, call.fill) EXCEPT
                         !.pending = FALSE, !.protected = FALSE, !.blocked = TRUE,
                         !.manual = @ \/ ~call.obs.priced]
      BY <2>2, <3>2 DEF PosShaped, Reduced
    <3> QED
      BY <1>6, <3>1, <3>2 DEF SaveStopFill
  <2>4. CASE call.obs.priced
    <3>1. pc' = "resolveStop" /\ call' = [call EXCEPT !.stop = pos.op]
      BY <1>6, <2>4 DEF SaveStopFill
    <3>2. LocalsShaped' /\ call'.op = NoOp
      BY <1>0, <2>2, <3>1 DEF LocalsShaped, PosShaped
    <3>3. PosInv'
      BY <2>3, <3>1 DEF PosInv
    <3> QED
      BY <2>1, <3>1, <3>2, <3>3, QuietProfit DEF Selling
  <2>5. CASE ~call.obs.priced
    BY <1>6, <2>1, <2>2, <2>3, <2>5, AppliedProfit DEF SaveStopFill
  <2> QED
    BY <2>4, <2>5
<1>7. CASE ResolveStop
  <2>1. ExitsKept /\ pc = "resolveStop" /\ UNCHANGED pos /\ AfterApply
    BY <1>0, <1>7, KeptUnchanged DEF ResolveStop
  <2>2. call.op = NoOp
    BY <1>0, <2>1, NoSale DEF Selling, After
  <2>3. pos' # NoPosition => PosShaped(pos')
    BY <1>0, <2>1 DEF PosInv
  <2> QED
    BY <2>1, <2>2, <2>3, AppliedProfit
<1>8. CASE NoExit
  <2>1. ExitsKept /\ pc = "decide" /\ Return
        /\ pos' = IF Resumed THEN [pos EXCEPT !.blocked = TRUE] ELSE pos
    BY <1>0, <1>8, KeptUnchanged DEF NoExit
  <2>2. PosShaped(pos')
    BY <1>0, <2>1 DEF PosInv, PosShaped
  <2>3. PosInv'
    BY <2>2 DEF PosInv
  <2> QED
    BY <2>1, <2>3, ReturnProfit
<1>9. CASE DecideExit
  <2>1. ExitsKept /\ pc = "decide" /\ pos' = [pos EXCEPT !.blocked = TRUE]
    BY <1>0, <1>9, KeptUnchanged DEF DecideExit
  <2>2. PosShaped(pos') /\ call.op = NoOp
    BY <1>0, <2>1, NoSale DEF PosInv, PosShaped, Selling, After
  <2>3. PICK reason \in ExitReasons : Prepare("EXIT", reason, Wanted(reason), "idle")
    BY <1>9 DEF DecideExit
  <2>4. LocalsShaped' /\ call'.op = NoOp /\ pc' = "request"
    BY <1>0, <2>2, <2>3 DEF Prepare, LocalsShaped
  <2>5. PosInv'
    BY <2>2 DEF PosInv
  <2> QED
    BY <2>1, <2>4, <2>5, QuietProfit DEF Selling
<1> QED
  BY <1>1, <1>2, <1>3, <1>4, <1>5, <1>6, <1>7, <1>8, <1>9 DEF Checking

LEMMA CoordinatingProfit == ProfitParts /\ Coordinating => ProfitParts'
<1> SUFFICES ASSUME ProfitParts, Coordinating PROVE ProfitParts'
  OBVIOUS
<1>0. RecordsShaped /\ LedgerInv /\ LocalsShaped /\ PosInv /\ SaleInv
  BY DEF ProfitParts
<1>1. pc \in {"request", "coordinate", "reserveCancel", "cancelStop", "clear"}
  BY DEF Coordinating, RequestCoordination, Coordinate, ReserveCancel, CancelStop, ClearForExit
<1>2. PosShaped(pos) /\ call.op = NoOp
  BY <1>0, <1>1, NoSale DEF PosInv, Selling, After
<1>3. CASE RequestCoordination \/ ReserveCancel \/ CancelStop
  <2>1. ExitsKept
    BY <1>0, <1>3, KeptUnchanged, KeptBroker DEF RequestCoordination, ReserveCancel, CancelStop
  <2>2. UNCHANGED <<pos, call>> /\ pc' \in {"coordinate", "block", "cancelStop"}
    BY <1>3 DEF RequestCoordination, ReserveCancel, CancelStop
  <2>3. LocalsShaped' /\ PosInv'
    BY <1>0, <1>2, <2>2 DEF LocalsShaped, PosInv
  <2> QED
    BY <1>2, <2>1, <2>2, <2>3, QuietProfit DEF Selling
<1>4. CASE Coordinate
  BY <1>2, <1>4, InspectProfit DEF Coordinate
<1>5. CASE ClearForExit
  <2>1. ExitsKept /\ pos' = [pos EXCEPT !.protected = FALSE, !.blocked = TRUE]
    BY <1>0, <1>5, KeptUnchanged DEF ClearForExit
  <2>2. PosShaped(pos')
    BY <1>2, <2>1 DEF PosShaped
  <2>3. LocalsShaped' /\ call'.op = NoOp /\ pc' = "place"
    BY <1>0, <1>2, <1>5 DEF ClearForExit, LocalsShaped
  <2>4. PosInv'
    BY <2>2 DEF PosInv
  <2> QED
    BY <2>1, <2>3, <2>4, QuietProfit DEF Selling
<1> QED
  BY <1>3, <1>4, <1>5 DEF Coordinating

LEMMA SquareOffProfit == ProfitParts /\ SquareOff => ProfitParts'
<1> SUFFICES ASSUME ProfitParts, SquareOff PROVE ProfitParts'
  OBVIOUS
<1>0. RecordsShaped /\ LedgerInv /\ LocalsShaped /\ PosInv /\ SaleInv
  BY DEF ProfitParts
<1>1. ExitsKept /\ pc = "idle" /\ call.op = NoOp
  BY <1>0, NoSale, KeptUnchanged DEF SquareOff, Selling, After
<1>2. CASE Held
  <2>1. Prepare("FORCE_EXIT", "FULL", pos.qty, "ended") /\ pos' = [pos EXCEPT !.blocked = TRUE]
    BY <1>2 DEF SquareOff
  <2>2. PosShaped(pos')
    BY <1>0, <1>2, <2>1 DEF PosInv, PosShaped, Held
  <2>3. LocalsShaped' /\ call'.op = NoOp /\ pc' = "request"
    BY <1>0, <1>1, <2>1 DEF Prepare, LocalsShaped
  <2>4. PosInv'
    BY <2>2 DEF PosInv
  <2> QED
    BY <1>1, <2>3, <2>4, QuietProfit DEF Selling
<1>3. CASE ~Held
  <2>1. pc' = "ended" /\ UNCHANGED <<call, pos>>
    BY <1>3 DEF SquareOff
  <2>2. LocalsShaped' /\ PosInv'
    BY <1>0, <2>1 DEF LocalsShaped, PosInv
  <2> QED
    BY <1>1, <2>1, <2>2, QuietProfit DEF Selling
<1> QED
  BY <1>2, <1>3

LEMMA BrokerMoveProfit == ProfitParts /\ BrokerMove => ProfitParts'
<1> SUFFICES ASSUME ProfitParts, BrokerMove PROVE ProfitParts'
  OBVIOUS
<1>0. RecordsShaped /\ LedgerInv /\ LocalsShaped /\ PosInv /\ SaleInv
  BY DEF ProfitParts
<1>1. UNCHANGED <<orders, pnl, pos, pc, call>>
  BY DEF BrokerMove
<1>2. ExitsKept
  BY <1>0, <1>1, KeptBroker DEF BrokerMove
<1>3. LocalsShaped' /\ PosInv'
  BY <1>0, <1>1 DEF LocalsShaped, PosInv
<1>4. SaleInv'
  <2>1. CASE call.op = NoOp
    BY <1>0, <1>1, <2>1, OpAssumption DEF SaleInv
  <2>2. CASE call.op # NoOp
    <3>0. PICK x \in ExitOp : x = call.op
      BY <1>0, <2>2 DEF SaleInv
    <3>1. pnl'[x] = pnl[x] /\ book'[x].filled >= book[x].filled
          /\ (Broker!Ended(x) => Broker!Ended(x)' /\ book'[x].filled = book[x].filled)
          /\ (Booked(x) => Booked(x)')
      BY <1>0, <1>2, KeptLedger DEF ExitsKept
    <3>2. book[x].filled \in Nat /\ book'[x].filled \in Nat
      BY <1>0, <1>2, <3>1 DEF RecordsShaped, ExitsKept
    <3>3. pnl[x] \in Nat /\ orders'[x] = orders[x] /\ call'.op = x /\ pc' = pc
      BY <1>0, <1>1, <3>0 DEF LedgerInv
    <3>4. pc \in Selling \cup {"result"} => ~orders'[x].resolved /\ pnl'[x] = 0
      BY <1>0, <2>2, <3>0, <3>1, <3>3 DEF SaleInv
    <3>5. pc = "result" =>
            /\ call.obs.filled \in Nat /\ call.fill = call.obs.filled
            /\ call.obs.priced => call.fill > 0
            /\ call.fill <= book'[x].filled
            /\ Done => /\ Broker!Ended(x)' /\ call.fill = book'[x].filled
                       /\ orders'[x].priced => call.obs.priced
      BY <1>0, <2>2, <3>0, <3>1, <3>2, <3>3 DEF SaleInv
    <3>6. pc = "saveExit" => /\ pnl'[x] = call.fill
                             /\ Done => Broker!Ended(x)' /\ call.fill = book'[x].filled
      BY <1>0, <2>2, <3>0, <3>1, <3>3 DEF SaleInv
    <3>7. pc \in After => Booked(x)'
      BY <1>0, <2>2, <3>0, <3>1 DEF SaleInv
    <3>8. Done' <=> Done
      BY <1>1 DEF Done
    <3>9. /\ orders'[x].created
          /\ pc \in Selling \cup {"result", "saveExit"} \cup After
      BY <1>0, <2>2, <3>0, <3>3 DEF SaleInv
    <3> QED
      BY <1>1, <2>2, <3>0, <3>3, <3>4, <3>5, <3>6, <3>7, <3>8, <3>9 DEF SaleInv
  <2> QED
    BY <2>1, <2>2
<1> QED
  BY <1>0, <1>2, <1>3, <1>4, KeptLedger DEF ProfitParts

LEMMA CrashProfit == ProfitParts /\ Crash => ProfitParts'
<1> SUFFICES ASSUME ProfitParts, Crash PROVE ProfitParts'
  OBVIOUS
<1>1. ExitsKept
  BY KeptUnchanged DEF ProfitParts, Crash
<1>2. LocalsShaped' /\ SaleInv'
  BY NoCallSale DEF Crash
<1>3. PosInv'
  BY DEF Crash, PosInv
<1> QED
  BY <1>1, <1>2, <1>3, KeptLedger DEF ProfitParts

\* An exit that was not placed, or whose submission was lost.
LEMMA NoExitPlacedStep ==
  ASSUME ProfitParts, NEW state, NoExitPlaced(state), PosShaped(pos),
         pc \in {"place", "attachExit"},
         call.op # NoOp => state # "DONE"
  PROVE  ProfitParts'
<1>1. ExitsKept /\ UNCHANGED <<orders, pnl, book, pos>> /\ pc' = "result"
  BY KeptUnchanged DEF ProfitParts, NoExitPlaced
<1>2. call' = [call EXCEPT !.obs = [NoAnswer EXCEPT !.state = state], !.fill = 0]
  BY DEF NoExitPlaced
<1>3. /\ LocalsShaped' /\ call'.op = call.op /\ call'.fill = 0
      /\ call'.obs.filled = 0 /\ call'.obs.priced = FALSE /\ call'.obs.state = state
  BY <1>1, <1>2 DEF ProfitParts, LocalsShaped, NoAnswer
<1>4. PosInv'
  BY <1>1 DEF PosInv
<1>5. SaleInv'
  <2>1. CASE call.op = NoOp
    BY <1>1, <1>3, <2>1 DEF SaleInv, Selling, After
  <2>2. CASE call.op # NoOp
    <3>1. PICK x \in ExitOp : x = call.op
      BY <2>2 DEF ProfitParts, SaleInv
    <3>2. orders[x].created /\ ~orders[x].resolved /\ pnl[x] = 0 /\ book[x].filled \in Nat
      BY <2>2, <3>1 DEF ProfitParts, SaleInv, Selling, After, RecordsShaped
    <3>3. ~Done'
      BY <1>3, <2>2 DEF Done
    <3> QED
      BY <1>1, <1>3, <2>2, <3>1, <3>2, <3>3 DEF SaleInv, Selling, After
  <2> QED
    BY <2>1, <2>2
<1> QED
  BY <1>1, <1>3, <1>4, <1>5, KeptLedger DEF ProfitParts

LEMMA CreateExitProfit == ProfitParts /\ CreateExitIntent => ProfitParts'
<1> SUFFICES ASSUME ProfitParts, CreateExitIntent PROVE ProfitParts'
  OBVIOUS
<1>0. RecordsShaped /\ LedgerInv /\ LocalsShaped /\ PosInv /\ SaleInv
  BY DEF ProfitParts
<1>1. PICK x \in ExitOp : /\ Orders!CreateIntent(x, Symbol, call.action, call.want)
                          /\ call' = [call EXCEPT !.op = x]
  BY DEF CreateExitIntent
<1>2. UNCHANGED <<pnl, book, pos>> /\ pc = "place" /\ pc' = "submitExit"
  BY DEF CreateExitIntent
<1> DEFINE r == [Orders!Blank EXCEPT !.created = TRUE, !.instrument = Symbol,
                                     !.action = call.action, !.requested = call.want]
<1>3. ~orders[x].created /\ orders' = [orders EXCEPT ![x] = r]
  BY <1>1 DEF Orders!CreateIntent
<1>4. /\ {"created", "priced", "resolved"} \subseteq DOMAIN r
      /\ r.created /\ ~r.resolved
  BY DEF Orders!Blank
<1> HIDE DEF r
<1>5. orders'[x] = r /\ \A y \in ExitOp \ {x} : orders'[y] = orders[y]
  BY <1>0, <1>3 DEF RecordsShaped
<1>6. RecordsShaped'
  BY <1>0, <1>2, <1>3, <1>4, <1>5 DEF RecordsShaped
<1>7. pnl[x] = 0
  BY <1>0, <1>3 DEF LedgerInv
<1>8. LedgerInv'
  <2> SUFFICES ASSUME NEW y \in ExitOp
               PROVE  /\ pnl[y] \in Nat /\ pnl[y] <= book[y].filled
                      /\ ~orders'[y].created => pnl[y] = 0
                      /\ orders'[y].resolved => Booked(y)'
    BY <1>2 DEF LedgerInv
  <2>1. CASE y = x
    BY <1>0, <1>4, <1>5, <2>1 DEF LedgerInv
  <2>2. CASE y # x
    BY <1>0, <1>2, <1>5, <2>2 DEF LedgerInv, Booked, Broker!Ended, Broker!Is
  <2> QED
    BY <2>1, <2>2
<1>9. LocalsShaped' /\ call'.op = x
  BY <1>0, <1>1, <1>2 DEF LocalsShaped
<1>10. PosInv'
  BY <1>0, <1>2 DEF PosInv
<1>11. SaleInv'
  BY <1>2, <1>4, <1>5, <1>7, <1>9, OpAssumption DEF SaleInv, Selling, After
<1> QED
  BY <1>6, <1>8, <1>9, <1>10, <1>11 DEF ProfitParts

LEMMA SubmitExitProfit == ProfitParts /\ (SubmitExit \/ AttachExit) => ProfitParts'
<1> SUFFICES ASSUME ProfitParts, SubmitExit \/ AttachExit PROVE ProfitParts'
  OBVIOUS
<1>0. RecordsShaped /\ LedgerInv /\ LocalsShaped /\ PosInv /\ SaleInv
  BY DEF ProfitParts
<1>1. PICK x \in ExitOp : x = call.op
  BY <1>0 DEF SaleInv, Selling, SubmitExit, AttachExit
<1>2. orders[x].created /\ ~orders[x].resolved /\ pnl[x] = 0 /\ x # NoOp
  BY <1>0, <1>1, OpAssumption DEF SaleInv, Selling, SubmitExit, AttachExit
<1>3. /\ UNCHANGED <<pnl, pos, call>> /\ pc \in Selling /\ pc' \in {"attachExit", "verifyExit"}
  BY DEF SubmitExit, AttachExit, Selling
<1>4. LocalsShaped' /\ PosInv'
  BY <1>0, <1>3 DEF LocalsShaped, PosInv, Selling
<1>5. CASE SubmitExit
  <2>1. ExitsKept /\ UNCHANGED orders
    BY <1>0, <1>5, KeptSubmit DEF SubmitExit
  <2>2. SaleInv'
    BY <1>1, <1>2, <1>3, <2>1 DEF SaleInv, Selling, After
  <2> QED
    BY <1>0, <1>4, <2>1, <2>2, KeptLedger DEF ProfitParts
<1>6. CASE AttachExit
  <2>1. orders' = [orders EXCEPT ![x].orderId = x] /\ UNCHANGED book
    BY <1>1, <1>6 DEF AttachExit, Orders!AttachOrderId
  <2>2. /\ RecordsShaped'
        /\ \A y \in ExitOp : /\ orders'[y].created = orders[y].created
                             /\ orders'[y].priced = orders[y].priced
                             /\ orders'[y].resolved = orders[y].resolved
    BY <1>0, <1>3, <2>1 DEF RecordsShaped
  <2>3. LedgerInv'
    BY <1>0, <1>3, <2>1, <2>2 DEF LedgerInv, Booked, Broker!Ended, Broker!Is
  <2>4. SaleInv'
    BY <1>1, <1>2, <1>3, <2>2 DEF SaleInv, Selling, After
  <2> QED
    BY <1>4, <2>2, <2>3, <2>4 DEF ProfitParts
<1> QED
  BY <1>5, <1>6

\* What the broker says of the exit is recorded as it is.
LEMMA VerifyExitProfit == ProfitParts /\ VerifyExit => ProfitParts'
<1> SUFFICES ASSUME ProfitParts, VerifyExit PROVE ProfitParts'
  OBVIOUS
<1>0. RecordsShaped /\ LedgerInv /\ LocalsShaped /\ PosInv /\ SaleInv
  BY DEF ProfitParts
<1>1. PICK x \in ExitOp : x = call.op
  BY <1>0 DEF SaleInv, Selling, VerifyExit
<1>2. /\ orders[x].created /\ ~orders[x].resolved /\ pnl[x] = 0 /\ x # NoOp
      /\ book[x].filled \in Nat
  BY <1>0, <1>1, OpAssumption DEF SaleInv, Selling, VerifyExit, RecordsShaped
<1>3. PICK a \in ExitAnswers(x) :
        /\ Orders!UpdateVerification(x, a.filled, a.priced, a.state = "DONE")
        /\ call' = [call EXCEPT !.obs = a, !.fill = a.filled]
  BY <1>1 DEF VerifyExit
<1>4. UNCHANGED <<pnl, book, pos>> /\ pc = "verifyExit" /\ pc' = "result"
  BY DEF VerifyExit
<1>5. \/ a.filled = 0 /\ a.priced = FALSE /\ a.state = "PENDING"
      \/ /\ a.filled = book[x].filled /\ (a.priced => a.filled > 0)
         /\ a.state = (IF Broker!Ended(x) THEN "DONE" ELSE "PENDING")
  BY <1>2, <1>3 DEF ExitAnswers, Answers, NoAnswer
<1>6. orders' = [orders EXCEPT ![x].filled = a.filled, ![x].priced = a.priced,
                               ![x].terminal = (a.state = "DONE")]
  BY <1>3 DEF Orders!UpdateVerification
<1>7. /\ RecordsShaped'
      /\ \A y \in ExitOp : /\ orders'[y].created = orders[y].created
                           /\ orders'[y].resolved = orders[y].resolved
                           /\ y # x => orders'[y].priced = orders[y].priced
      /\ orders'[x].priced = a.priced
  BY <1>0, <1>4, <1>6 DEF RecordsShaped
<1>8. LedgerInv'
  BY <1>0, <1>2, <1>4, <1>7 DEF LedgerInv, Booked, Broker!Ended, Broker!Is
<1>9. LocalsShaped' /\ call'.op = x /\ call'.obs = a /\ call'.fill = a.filled
  BY <1>0, <1>1, <1>3, <1>4 DEF LocalsShaped
<1>10. PosInv'
  BY <1>0, <1>4 DEF PosInv
<1>11. /\ a.filled \in Nat /\ a.filled <= book[x].filled /\ (a.priced => a.filled > 0)
       /\ a.state = "DONE" => Broker!Ended(x) /\ a.filled = book[x].filled
  BY <1>2, <1>5
<1>12. Done' => Broker!Ended(x)' /\ a.filled = book'[x].filled
  BY <1>4, <1>9, <1>11 DEF Done, Broker!Ended, Broker!Is
<1>13. SaleInv'
  BY <1>2, <1>4, <1>7, <1>9, <1>11, <1>12 DEF SaleInv, Selling, After
<1> QED
  BY <1>7, <1>8, <1>9, <1>10, <1>13 DEF ProfitParts

\* The positions an exit saves name the stop they named.
LEMMA ExitPositions ==
  ASSUME NEW p, PosShaped(p)
  PROVE  PosShaped(WithExit(p)) /\ PosShaped(WithFill(p)) /\ PosShaped(WithScalp(WithFill(p)))
<1>1. ASSUME NEW q, PosShaped(q) PROVE PosShaped(WithExit(q))
  BY <1>1 DEF PosShaped, WithExit
<1>2. ASSUME NEW q, NEW n, PosShaped(q) PROVE PosShaped(Reduced(q, n))
  BY <1>2 DEF PosShaped, Reduced
<1>3. ASSUME NEW q, PosShaped(q) PROVE PosShaped(WithFill(q))
  <2>1. PICK r : r = Reduced(WithExit(q), call.fill)
    OBVIOUS
  <2>2. PosShaped(r)
    BY <1>1, <1>2, <1>3, <2>1
  <2> QED
    BY <2>1, <2>2 DEF PosShaped, WithFill
<1>4. ASSUME NEW q, PosShaped(q) PROVE PosShaped(WithScalp(q))
  BY <1>4 DEF PosShaped, WithScalp
<1> QED
  BY <1>1, <1>3, <1>4

\* The result of an exit is applied: the operation is booked when it is over.
LEMMA AppliedExitStep ==
  ASSUME ProfitParts, ExitsKept, call.op # NoOp /\ Done => Booked(call.op),
         pc \in {"result", "saveExit"},
         pos' # NoPosition => PosShaped(pos'), NEW p, p # NoPosition => PosShaped(pos'),
         ProtectOrFinish(p) \/ AfterExit \/ Return
  PROVE  ProfitParts'
<1>1. CASE Return
  <2>1. PosInv'
    BY <1>1 DEF PosInv, ProfitParts, LocalsShaped
  <2> QED
    BY <1>1, <2>1, ReturnProfit
<1>2. CASE Goto("reprotect") /\ NeedsReprotection(p)
  <2>1. LocalsShaped' /\ PosInv'
    BY <1>2 DEF ProfitParts, LocalsShaped, PosInv, NeedsReprotection
  <2>2. SaleInv'
    <3>1. CASE call.op = NoOp
      BY <1>2, <3>1 DEF SaleInv, Selling, After
    <3>2. CASE call.op # NoOp
      <4>1. PICK x \in ExitOp : x = call.op
        BY <3>2 DEF ProfitParts, SaleInv
      <4>2. Booked(x)' /\ orders'[x].created
        BY <1>2, <3>2, <4>1, KeptLedger DEF ProfitParts, SaleInv, ExitsKept, NeedsReprotection
      <4> QED
        BY <1>2, <3>2, <4>1, <4>2 DEF SaleInv, Selling, After
    <3> QED
      BY <3>1, <3>2
  <2> QED
    BY <2>1, <2>2, KeptLedger DEF ProfitParts
<1>3. CASE Goto("finalize") /\ Done /\ call.op # NoOp
  <2>1. LocalsShaped' /\ PosInv'
    BY <1>3 DEF ProfitParts, LocalsShaped, PosInv
  <2>2. PICK x \in ExitOp : x = call.op
    BY <1>3 DEF ProfitParts, SaleInv
  <2>3. Booked(x)' /\ orders'[x].created
    BY <1>3, <2>2, KeptLedger DEF ProfitParts, SaleInv, ExitsKept
  <2>4. SaleInv'
    BY <1>3, <2>2, <2>3 DEF SaleInv, Selling, After
  <2> QED
    BY <2>1, <2>4, KeptLedger DEF ProfitParts
<1> QED
  BY <1>1, <1>2, <1>3 DEF ProtectOrFinish, AfterExit

LEMMA ResultProfit == ProfitParts /\ (ResultNoFill \/ ResultUnpriced) => ProfitParts'
<1> SUFFICES ASSUME ProfitParts, ResultNoFill \/ ResultUnpriced PROVE ProfitParts'
  OBVIOUS
<1>0. RecordsShaped /\ LedgerInv /\ LocalsShaped /\ PosInv /\ SaleInv
  BY DEF ProfitParts
<1>1. pc = "result" /\ ExitsKept /\ PosShaped(pos)
  BY <1>0, KeptUnchanged DEF ResultNoFill, ResultUnpriced, PosInv
<1>2. call.op # NoOp /\ Done /\ ~call.obs.priced => Booked(call.op)
  <2> SUFFICES ASSUME call.op # NoOp, Done, ~call.obs.priced PROVE Booked(call.op)
    OBVIOUS
  <2> QED
    BY <1>0, <1>1 DEF SaleInv, Booked
<1>3. ~call.obs.priced
  BY <1>0, <1>1 DEF SaleInv, ResultNoFill, ResultUnpriced, Priceable
<1>4. pos' # NoPosition => PosShaped(pos')
  BY <1>1, ExitPositions DEF ResultNoFill, ResultUnpriced
<1>5. CASE ResultNoFill
  <2>1. PosShaped(pos') /\ ProtectOrFinish(pos)
    BY <1>1, <1>5, ExitPositions DEF ResultNoFill
  <2> QED
    BY <1>1, <1>2, <1>3, <1>4, <2>1, AppliedExitStep
<1>6. CASE ResultUnpriced
  <2>1. AfterExit \/ Return
    BY <1>6 DEF ResultUnpriced
  <2> QED
    BY <1>1, <1>2, <1>3, <1>4, <2>1, AppliedExitStep
<1> QED
  BY <1>5, <1>6

LEMMA BookExitProfit == ProfitParts /\ BookExitFill => ProfitParts'
<1> SUFFICES ASSUME ProfitParts, BookExitFill PROVE ProfitParts'
  OBVIOUS
<1>0. RecordsShaped /\ LedgerInv /\ LocalsShaped /\ PosInv /\ SaleInv
  BY DEF ProfitParts
<1>1. pc = "result" /\ call.fill > 0 /\ call.obs.priced /\ pc' = "saveExit"
  BY DEF BookExitFill, Priceable
<1>2. PICK x \in ExitOp : x = call.op
  BY <1>0, <1>1 DEF SaleInv
<1>3. /\ orders[x].created /\ ~orders[x].resolved /\ pnl[x] = 0 /\ x # NoOp
      /\ call.fill \in Nat /\ call.fill <= book[x].filled
      /\ Done => Broker!Ended(x) /\ call.fill = book[x].filled
  BY <1>0, <1>1, <1>2, OpAssumption DEF SaleInv
<1>4. pnl' = [pnl EXCEPT ![x] = @ + call.fill] /\ UNCHANGED <<orders, book, pos, call>>
  BY <1>2 DEF BookExitFill
<1>5. /\ pnl'[x] = call.fill /\ DOMAIN pnl' = DOMAIN pnl
      /\ \A y \in ExitOp \ {x} : pnl'[y] = pnl[y]
  BY <1>0, <1>3, <1>4 DEF RecordsShaped
<1>6. RecordsShaped' /\ LocalsShaped' /\ PosInv'
  BY <1>0, <1>1, <1>4, <1>5 DEF RecordsShaped, LocalsShaped, PosInv
<1>7. LedgerInv'
  BY <1>0, <1>3, <1>4, <1>5 DEF LedgerInv, Booked, Broker!Ended, Broker!Is
<1>8. Done' => Broker!Ended(x)' /\ call.fill = book'[x].filled
  BY <1>3, <1>4 DEF Done, Broker!Ended, Broker!Is
<1>9. SaleInv'
  BY <1>1, <1>2, <1>3, <1>4, <1>5, <1>8 DEF SaleInv, Selling, After
<1> QED
  BY <1>6, <1>7, <1>9 DEF ProfitParts

LEMMA SaveExitProfit == ProfitParts /\ SaveExitFill => ProfitParts'
<1> SUFFICES ASSUME ProfitParts, SaveExitFill PROVE ProfitParts'
  OBVIOUS
<1>0. RecordsShaped /\ LedgerInv /\ LocalsShaped /\ PosInv /\ SaleInv
  BY DEF ProfitParts
<1>1. pc = "saveExit" /\ ExitsKept /\ PosShaped(pos)
  BY <1>0, KeptUnchanged DEF SaveExitFill, PosInv
<1>2. call.op # NoOp /\ Done => Booked(call.op)
  BY <1>0, <1>1 DEF SaleInv, Booked
<1>3. pos' # NoPosition => PosShaped(pos')
  BY <1>1, ExitPositions DEF SaveExitFill
<1>4. ProtectOrFinish(pos')
  BY DEF SaveExitFill, ProtectOrFinish, NeedsReprotection
<1> QED
  BY <1>1, <1>2, <1>3, <1>4, AppliedExitStep

LEMMA FinalizeProfit == ProfitParts /\ Finalize => ProfitParts'
<1> SUFFICES ASSUME ProfitParts, Finalize PROVE ProfitParts'
  OBVIOUS
<1>0. RecordsShaped /\ LedgerInv /\ LocalsShaped /\ PosInv /\ SaleInv
  BY DEF ProfitParts
<1>1. PICK x \in ExitOp : x = call.op
  BY <1>0 DEF SaleInv, Finalize
<1>2. Booked(x) /\ orders[x].created
  BY <1>0, <1>1, OpAssumption DEF SaleInv, After, Finalize
<1>3. orders' = [orders EXCEPT ![x].resolved = TRUE] /\ UNCHANGED <<pnl, book, pos>>
  BY <1>1 DEF Finalize, Orders!MarkResolved
<1>4. /\ RecordsShaped'
      /\ \A y \in ExitOp : /\ orders'[y].created = orders[y].created
                           /\ orders'[y].priced = orders[y].priced
                           /\ y # x => orders'[y].resolved = orders[y].resolved
  BY <1>0, <1>3 DEF RecordsShaped
<1>5. LedgerInv'
  BY <1>0, <1>2, <1>3, <1>4 DEF LedgerInv, Booked, Broker!Ended, Broker!Is
<1>6. pc' \in {"idle", "ended"} /\ call' = NoCall
  BY <1>0 DEF Finalize, LocalsShaped
<1>7. PosInv'
  BY <1>0, <1>3, <1>6 DEF PosInv
<1> QED
  BY <1>4, <1>5, <1>6, <1>7, NoCallSale DEF ProfitParts

LEMMA ReprotectProfit == ProfitParts /\ (ResolveOldStop \/ SaveReprotection) => ProfitParts'
<1> SUFFICES ASSUME ProfitParts, ResolveOldStop \/ SaveReprotection PROVE ProfitParts'
  OBVIOUS
<1>0. RecordsShaped /\ LedgerInv /\ LocalsShaped /\ PosInv /\ SaleInv
  BY DEF ProfitParts
<1>1. pc \in {"reprotect", "saveReprotection"} /\ ExitsKept /\ PosShaped(pos)
  BY <1>0, KeptUnchanged DEF ResolveOldStop, SaveReprotection, PosInv
<1>2. PosShaped(pos') /\ pc' \in {"saveReprotection", "protect"}
  BY <1>1 DEF ResolveOldStop, SaveReprotection, PosShaped
<1>3. LocalsShaped' /\ call'.op = call.op
  BY <1>0, <1>2 DEF ResolveOldStop, SaveReprotection, LocalsShaped
<1>4. PosInv'
  BY <1>2 DEF PosInv
<1>5. SaleInv'
  BY <1>1, <1>2, <1>3, AfterSale DEF After
<1> QED
  BY <1>1, <1>3, <1>4, <1>5, KeptLedger DEF ProfitParts

LEMMA ExitingProfit == ProfitParts /\ Exiting => ProfitParts'
<1> SUFFICES ASSUME ProfitParts, Exiting PROVE ProfitParts'
  OBVIOUS
<1>0. LocalsShaped /\ PosInv /\ SaleInv
  BY DEF ProfitParts
<1>1. CASE RefuseUncleared \/ RefusePending
  <2>1. pc = "place" /\ PosShaped(pos)
    BY <1>0, <1>1 DEF RefuseUncleared, RefusePending, PosInv
  <2>2. call.op = NoOp
    BY <2>1, NoSale DEF Selling, After
  <2>3. NoExitPlaced("DONE") \/ NoExitPlaced("PENDING")
    BY <1>1 DEF RefuseUncleared, RefusePending
  <2> QED
    BY <2>1, <2>2, <2>3, NoExitPlacedStep
<1>2. CASE ExitSubmissionUncertain
  BY <1>0, <1>2, NoExitPlacedStep DEF ExitSubmissionUncertain, PosInv
<1> QED
  BY <1>1, <1>2, CreateExitProfit, SubmitExitProfit, VerifyExitProfit, ResultProfit,
     BookExitProfit, SaveExitProfit, FinalizeProfit, ReprotectProfit DEF Exiting

LEMMA ProfitInit == Init => ProfitInv
<1> SUFFICES ASSUME Init PROVE ProfitInv
  OBVIOUS
<1>1. restarts = 0 /\ pc = "protect" /\ call = NoCall /\ pos = NewPosition
  BY DEF Init
<1>2. \A x \in ExitOp : /\ book[x] = [status |-> "NONE", qty |-> 0, filled |-> 0, cancels |-> 0]
                        /\ orders[x] = Orders!Blank /\ pnl[x] = 0
  BY DEF Init, Broker!Init, Orders!Init
<1>3. RecordsShaped
  BY <1>2 DEF Init, Broker!Init, Orders!Init, Orders!Blank, RecordsShaped
<1>4. LedgerInv
  <2>0. ~Orders!Blank.resolved
    BY DEF Orders!Blank
  <2> SUFFICES ASSUME NEW x \in ExitOp
               PROVE  book[x].filled = 0 /\ pnl[x] = 0 /\ ~orders[x].resolved
    BY DEF LedgerInv
  <2>1. book[x] = [status |-> "NONE", qty |-> 0, filled |-> 0, cancels |-> 0]
    BY <1>2
  <2>2. orders[x] = Orders!Blank /\ pnl[x] = 0
    BY <1>2
  <2> QED
    BY <2>0, <2>1, <2>2
<1>5. LocalsShaped /\ SaleInv
  BY <1>1, OpAssumption DEF NoCall, LocalsShaped, SaleInv, Selling, After
<1>6. PosInv
  BY <1>1 DEF NewPosition, PosInv, PosShaped
<1> QED
  BY <1>1, <1>3, <1>4, <1>5, <1>6 DEF ProfitInv

\* Only a restart counts as one.
LEMMA BotKeepsRestarts == Bot => UNCHANGED restarts
<1>1. Protecting => UNCHANGED restarts
  BY DEF Protecting, CreateStopIntent, SubmitStop, AttachStop, StopSubmissionUncertain,
         VerifyStop, StopResult, Raise
<1>2. Inspect => UNCHANGED restarts
  BY DEF Inspect, Raise
<1>3. Checking => UNCHANGED restarts
  BY <1>2 DEF Checking, CheckPosition, Block, ApplyNoFill, ReserveStopFill, BookStopFill,
              SaveStopFill, ResolveStop, NoExit, DecideExit
<1>4. Coordinating => UNCHANGED restarts
  BY <1>2 DEF Coordinating, RequestCoordination, Coordinate, ReserveCancel, CancelStop, ClearForExit
<1>5. Exiting => UNCHANGED restarts
  BY DEF Exiting, RefuseUncleared, RefusePending, CreateExitIntent, SubmitExit, AttachExit,
         ExitSubmissionUncertain, VerifyExit, ResultNoFill, ResultUnpriced, BookExitFill,
         SaveExitFill, Finalize, ResolveOldStop, SaveReprotection, NoExitPlaced
<1>6. RecoverStops => UNCHANGED restarts
  BY DEF RecoverStops
<1>7. RecoverExits => UNCHANGED restarts
  <2>1. ASSUME NEW x \in ExitOp, RecoverExit(x) PROVE UNCHANGED restarts
    BY <2>1 DEF RecoverExit
  <2>2. ASSUME NEW x \in ExitOp, FlagLostExit(x) PROVE UNCHANGED restarts
    BY <2>2 DEF FlagLostExit
  <2> QED
    BY <2>1, <2>2 DEF RecoverExits
<1> QED
  BY <1>1, <1>3, <1>4, <1>5, <1>6, <1>7 DEF Bot

LEMMA ProfitNext == ProfitInv /\ [Next]_vars => ProfitInv'
<1> SUFFICES ASSUME ProfitInv, [Next]_vars PROVE ProfitInv'
  OBVIOUS
<1>1. CASE Restart
  BY <1>1 DEF Restart, ProfitInv
<1>2. ASSUME UNCHANGED restarts, ProfitParts => ProfitParts' PROVE ProfitInv'
  BY <1>2 DEF ProfitInv, ProfitParts
<1>3. CASE Bot
  <2>1. UNCHANGED restarts
    BY <1>3, BotKeepsRestarts
  <2>2. ProfitParts => ProfitParts'
    BY <1>3, ProtectingProfit, CheckingProfit, CoordinatingProfit, ExitingProfit
    DEF Bot, ProfitParts, LocalsShaped, RecoverStops, RecoverExits
  <2> QED
    BY <1>2, <2>1, <2>2
<1>4. CASE SquareOff
  BY <1>2, <1>4, SquareOffProfit DEF SquareOff
<1>5. CASE BrokerMove
  BY <1>2, <1>5, BrokerMoveProfit DEF BrokerMove
<1>6. CASE Crash
  BY <1>2, <1>6, CrashProfit DEF Crash
<1>7. CASE UNCHANGED vars
  <2>1. ProfitParts => ProfitParts'
    BY <1>7 DEF vars, ProfitParts, RecordsShaped, LedgerInv, Booked, LocalsShaped, PosInv, SaleInv,
                Done, Broker!Ended, Broker!Is
  <2> QED
    BY <1>2, <1>7, <2>1 DEF vars
<1> QED
  BY <1>1, <1>3, <1>4, <1>5, <1>6, <1>7 DEF Next, Terminated

\* As long as the process was not restarted, the fill of an exit enters P&L at
\* most once, and exactly once when it has a price and the exit is resolved, with
\* either plan and wherever answers time out (_record_confirmed_exit).
THEOREM ExitProfitOnce == Spec => [](restarts = 0 => ExitFillsBookedOnce)
<1>1. Spec => []ProfitInv
  BY ProfitInit, ProfitNext, PTL DEF Spec
<1>2. ProfitInv => (restarts = 0 => ExitFillsBookedOnce)
  BY DEF ProfitInv, LedgerInv, Booked, ExitFillsBookedOnce
<1> QED
  BY <1>1, <1>2, PTL

=============================================================================
