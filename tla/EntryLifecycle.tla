--------------------------- MODULE EntryLifecycle ---------------------------
(***************************************************************************)
(* The life of the entries of one symbol: a durable intent, the order, its *)
(* confirmation, the position built from what was confirmed, its first     *)
(* protection, and the recovery of all of these after a crash              *)
(* (executor.py, order_verification.py, entry_protection.py, main.py).     *)
(*                                                                         *)
(* As in LiveExit, a step ends at every durable write and every request to *)
(* the broker; a crash can fall between any two.  Of the exit side, which  *)
(* is LiveExit, only its effect is here: shares leave the account and the  *)
(* books in one step.                                                      *)
(***************************************************************************)
EXTENDS Integers, FiniteSetsExt

CONSTANTS
  Op,           \* ENTRY operations the run may create
  NoOp,         \* no operation / no broker order id
  NoPosition,   \* the symbol is not in open_positions
  Symbol,       \* the traded symbol
  Quantity,     \* shares of every entry
  MaxRestarts   \* bound: crashes followed by a restart

ASSUME QuantityAssumption == Quantity \in Nat \ {0}
ASSUME OpAssumption == NoOp \notin Op
ASSUME OpFinite == IsFiniteSet(Op)
ASSUME MaxRestartsAssumption == MaxRestarts \in Nat

VARIABLES
  orders,    \* pending-order store, durable
  file,      \* open_positions.json, durable
  stop,      \* quantity of the unresolved stop in the stop store, 0 for none
  book, net, \* the broker
  pos,       \* the position in memory
  pc,        \* the next step of the bot
  call,      \* locals of the call in progress
  old,       \* entries created on a previous day
  early,     \* history: a position was closed before its entry was resolved
  restarts

market == <<book, net>>
bot    == <<pos, pc, call>>
days   == <<old, early, restarts>>
vars   == <<orders, file, stop, market, bot, days>>

Orders == INSTANCE PendingOrderStore
            WITH OrderId <- Op, NoOrder <- NoOp, Instrument <- {Symbol},
                 MaxQty <- Quantity
Broker == INSTANCE Broker
            WITH Order <- Op, StopOrder <- {}, MaxQty <- Quantity, Sign <- 1

Qty == 0..Quantity

Position ==
  [ qty     : Qty,       \* shares the bot believes it holds
    filled  : Qty,       \* filled_quantity: cumulative fill of the entry
    stopOp  : BOOLEAN,   \* protective_stop_operation_id is set
    stopQty : Qty,       \* protective_stop_quantity
    manual  : BOOLEAN ]  \* manual_reconciliation_required

ASSUME NoPositionAssumption == NoPosition \notin Position

Call == [ op       : Op \cup {NoOp},
          filled   : Qty,       \* the last answer of the broker
          priced   : BOOLEAN,
          terminal : BOOLEAN,
          todo     : SUBSET Op ] \* entries recovery has still to look at

NoCall == [op |-> NoOp, filled |-> 0, priced |-> FALSE, terminal |-> FALSE,
           todo |-> {}]

Init ==
  /\ Orders!Init /\ Broker!Init
  /\ pos = NoPosition /\ file = pos /\ stop = 0
  /\ pc = "idle" /\ call = NoCall
  /\ old = {} /\ early = FALSE /\ restarts = 0

Held == pos # NoPosition

Goto(label) == pc' = label /\ UNCHANGED call
Save(p)     == pos' = p /\ file' = p /\ UNCHANGED <<orders, stop, market, days>>

OrderStoreStep == UNCHANGED <<file, stop, pos, market, days>>
BrokerStep     == UNCHANGED <<orders, file, stop, pos, days>>
LocalStep      == UNCHANGED <<orders, file, stop, pos, market, days>>

\* An exception in the startup recovery ends the process.
StartupDies == pc' = "failed" /\ call' = NoCall /\ LocalStep

----------------------------------------------------------------------------
(* place_entry_order *)

\* The scan passes over a symbol with a position; the store refuses a second
\* unresolved entry.
CreateEntryIntent ==
  /\ pc = "idle" /\ ~Held
  /\ \E x \in Op : /\ Orders!CreateIntent(x, Symbol, "ENTRY", Quantity)
                   /\ call' = [NoCall EXCEPT !.op = x]
  /\ pc' = "submit"
  /\ OrderStoreStep

SubmitEntry ==
  /\ pc = "submit"
  /\ Broker!Submit(call.op, Quantity)
  /\ Goto("attach")
  /\ BrokerStep

\* The order id comes with the response or, when that was lost, from the
\* unique tag (reconcile_entry_submission).
AttachEntry ==
  /\ pc = "attach"
  /\ Broker!Accepted(call.op)
  /\ Orders!AttachOrderId(call.op, call.op)
  /\ Goto("verify")
  /\ OrderStoreStep

\* Mutant: a lost response is taken for a lost order.
EntryUncertainGivenUp ==
  /\ pc = "attach"
  /\ Orders!MarkResolved(call.op)
  /\ pc' = "idle" /\ call' = NoCall
  /\ OrderStoreStep

\* An exception and no order with the tag, or the id could not be stored: the
\* intent stays unresolved, and nothing else happens.
EntryUncertain ==
  /\ pc = "attach"
  /\ pc' = "idle" /\ call' = NoCall
  /\ LocalStep

\* What verify_order_execution may report: the order as it is, or UNKNOWN
\* with fill 0 when the history was unreadable.
Answers(x) ==
  {[filled |-> 0, priced |-> FALSE, terminal |-> FALSE]} \cup
  [filled : {book[x].filled}, terminal : {Broker!Ended(x)},
   priced : IF book[x].filled > 0 THEN BOOLEAN ELSE {FALSE}]

\* update_order_verification takes any answer, also a smaller fill than before.
Verify(x) ==
  /\ Broker!Accepted(x)
  /\ \E a \in Answers(x) :
       /\ Orders!UpdateVerification(x, a.filled, a.priced, a.terminal)
       /\ call' = [call EXCEPT !.op = x, !.filled = a.filled,
                               !.priced = a.priced, !.terminal = a.terminal]

AfterEntry(n) == IF n > 0 THEN "book" ELSE "idle"

\* Mutant: a timeout is taken for the end of the order.
VerifyEntryImpatient ==
  /\ pc = "verify"
  /\ Verify(call.op)
  /\ pc' = "resolve"
  /\ OrderStoreStep

VerifyEntry ==
  /\ pc = "verify"
  /\ Verify(call.op)
  /\ pc' = IF call'.terminal THEN "resolve" ELSE AfterEntry(call'.filled)
  /\ OrderStoreStep

ResolveEntry ==
  /\ pc = "resolve"
  /\ Orders!MarkResolved(call.op)
  /\ Goto(AfterEntry(call.filled))
  /\ OrderStoreStep

----------------------------------------------------------------------------
(* The position of a confirmed fill *)

\* build_confirmed_position and build_recovered_position: only confirmed
\* shares, and a human is called when their price is not known.
Confirmed == [ qty |-> call.filled, filled |-> call.filled, stopOp |-> FALSE,
               stopQty |-> 0, manual |-> ~call.priced ]

\* Mutant: the position is saved with its protection only.
BookEntryUnsaved ==
  /\ pc = "book"
  /\ pos' = Confirmed
  /\ Goto("markApplied")
  /\ UNCHANGED <<orders, file, stop, market, days>>

BookEntry ==
  /\ pc = "book"
  /\ Save(Confirmed)
  /\ Goto("markApplied")

\* Only after the position is on disk.
MarkApplied ==
  /\ pc = "markApplied"
  /\ Orders!MarkEntryFillApplied(call.op, call.filled)
  /\ Goto("protect")
  /\ OrderStoreStep

\* Mutant: any active stop is protection.
StopResultInexact(n, active) ==
  [pos EXCEPT !.stopOp = TRUE, !.stopQty = IF active THEN n ELSE 0,
              !.manual = ~active]

\* apply_protective_stop_result: only an active stop of exactly the
\* position's quantity lifts the manual flag.
StopResult(n, active) ==
  [pos EXCEPT !.stopOp = TRUE, !.stopQty = IF active THEN n ELSE 0,
              !.manual = ~(active /\ n = pos.qty)]

\* protect_confirmed_position: the plan is refused, or a stop for the
\* position's quantity is created, and found active or not.
Protect ==
  \/ pos' = [pos EXCEPT !.manual = TRUE] /\ UNCHANGED stop
  \/ /\ ~pos.manual
     /\ stop' = pos.qty
     /\ \E active \in BOOLEAN : pos' = StopResult(pos.qty, active)

ProtectEntry ==
  /\ pc = "protect"
  /\ Protect
  /\ Goto("saveProtection")
  /\ UNCHANGED <<orders, file, market, days>>

SaveProtection ==
  /\ pc = "saveProtection"
  /\ Save(pos)
  /\ IF call.todo # {} THEN Goto("settle") ELSE pc' = "idle" /\ call' = NoCall

\* The exit side: n shares leave the account and the books.  What is left of
\* a position has no stop and its automation stays blocked, which the manual
\* flag stands for here; an emptied one leaves.
ExitShares(n) ==
  /\ pc = "idle" /\ Held /\ n <= pos.qty
  /\ net' = net - n
  /\ stop' = 0
  /\ pos' = IF n = pos.qty THEN NoPosition
            ELSE [pos EXCEPT !.qty = @ - n, !.stopQty = 0, !.manual = TRUE]
  /\ file' = pos'
  /\ early' = (early \/ (n = pos.qty /\ \E x \in Op : Orders!Unresolved(x)))
  /\ UNCHANGED <<orders, book, pc, call, old, restarts>>

----------------------------------------------------------------------------
(* recover_unresolved_entries *)

HasUnappliedFill(x) == orders[x].created /\ orders[x].filled > orders[x].applied

CandidateUnresolved(x) == Orders!Unresolved(x)  \* mutant: resolved means applied

\* Unresolved entries, and confirmed fills that are not in the books yet.
Candidate(x) == Orders!Unresolved(x) \/ HasUnappliedFill(x)

Restart ==
  /\ pc \in {"down", "failed", "refused"}
  /\ restarts < MaxRestarts
  /\ restarts' = restarts + 1
  /\ pos' = file
  /\ pc' = "recover"
  /\ call' = [NoCall EXCEPT !.todo = {x \in Op : Candidate(x)}]
  /\ UNCHANGED <<orders, file, stop, market, old, early>>

NoneOld == call.todo \cap old = {}
Looked(x) == [NoCall EXCEPT !.todo = call.todo \ {x}]

\* A resolved fill of a previous day is accounted for, never rebuilt ...
SuppressOld(x) ==
  /\ pc = "recover" /\ x \in call.todo \cap old
  /\ orders[x].resolved
  /\ Orders!MarkEntryFillApplied(x, orders[x].filled)
  /\ call' = Looked(x) /\ UNCHANGED pc
  /\ OrderStoreStep

\* ... and an unresolved one ends the startup.
RefuseOld ==
  /\ pc = "recover" /\ ~NoneOld
  /\ \A x \in call.todo \cap old : ~orders[x].resolved
  /\ pc' = "refused" /\ call' = NoCall
  /\ LocalStep

\* No order id: only a unique tag match attaches one; nothing is resubmitted.
Reattach(x) ==
  /\ pc = "recover" /\ NoneOld /\ x \in call.todo
  /\ orders[x].orderId = NoOp
  /\ Broker!Accepted(x)
  /\ Orders!AttachOrderId(x, x)
  /\ UNCHANGED <<pc, call>>
  /\ OrderStoreStep

SkipUnmatched(x) ==
  /\ pc = "recover" /\ NoneOld /\ x \in call.todo
  /\ orders[x].orderId = NoOp
  /\ call' = Looked(x) /\ UNCHANGED pc
  /\ LocalStep

\* Mutant: a resolved entry is taken for a filled one.
ReverifyRequested(x) ==
  /\ pc = "recover" /\ NoneOld /\ x \in call.todo
  /\ orders[x].orderId # NoOp
  /\ IF orders[x].resolved
       THEN /\ call' = [call EXCEPT !.op = x, !.filled = orders[x].requested,
                                    !.priced = TRUE, !.terminal = TRUE]
            /\ LocalStep
       ELSE Verify(x) /\ OrderStoreStep
  /\ pc' = "apply"

Reverify(x) ==
  /\ pc = "recover" /\ NoneOld /\ x \in call.todo
  /\ orders[x].orderId # NoOp
  /\ IF orders[x].resolved
       THEN /\ call' = [call EXCEPT !.op = x, !.filled = orders[x].filled,
                                    !.priced = orders[x].priced,
                                    !.terminal = orders[x].terminal]
            /\ LocalStep
       ELSE Verify(x) /\ OrderStoreStep
  /\ pc' = "apply"

AlreadyHeld == IF Held THEN pos.qty ELSE 0  \* mutant: shares sold come back

AlreadyApplied == IF Held THEN pos.filled ELSE 0

NewlyAll == call.filled  \* mutant: the cumulative fill is added

Newly == call.filled - AlreadyApplied

\* More shares than the stop was placed for: protection has to be redone by
\* hand.
Grown == [pos EXCEPT !.qty = @ + Newly, !.filled = call.filled,
                     !.manual = @ \/ pos.stopQty < call.filled]

BookRecovered ==
  /\ pc = "apply" /\ Newly > 0
  /\ Save(IF Held THEN Grown ELSE Confirmed)
  /\ Goto("markRecovered")

MarkRecovered ==
  /\ pc = "markRecovered"
  /\ \/ /\ Orders!MarkEntryFillApplied(call.op, call.filled)
        /\ Goto(IF ~pos.manual /\ ~pos.stopOp THEN "protect" ELSE "settle")
        /\ OrderStoreStep
     \/ /\ ~Orders!CanApplyEntryFill(call.op, call.filled)
        /\ StartupDies

\* Nothing new: the fill is in the books, if the crash fell before the mark.
NothingNew ==
  /\ pc = "apply" /\ Newly <= 0
  /\ \/ Newly < 0 /\ Goto("settle") /\ LocalStep
     \/ /\ Newly = 0
        /\ Orders!MarkEntryFillApplied(call.op, call.filled)
        /\ Goto("settle")
        /\ OrderStoreStep
     \/ /\ Newly = 0
        /\ ~Orders!CanApplyEntryFill(call.op, call.filled)
        /\ StartupDies

Settle ==
  /\ pc = "settle"
  /\ IF call.terminal THEN Orders!MarkResolved(call.op) ELSE UNCHANGED orders
  /\ pc' = "recover" /\ call' = Looked(call.op)
  /\ OrderStoreStep

\* recover_unresolved_protective_stops, after the last entry.
RecoverStop ==
  /\ pc = "recover" /\ call.todo = {}
  /\ IF Held /\ stop > 0
       THEN \E active \in BOOLEAN : Save(StopResult(stop, active)) /\ Goto("idle")
       ELSE /\ Goto(IF Held /\ ~pos.stopOp /\ ~pos.manual THEN "protect" ELSE "idle")
            /\ Save(pos)

----------------------------------------------------------------------------
(* The world around the bot *)

Up == pc \notin {"down", "failed", "refused"}

Crash ==
  /\ Up
  /\ pc' = "down" /\ pos' = NoPosition /\ call' = NoCall
  /\ UNCHANGED <<orders, file, stop, market, days>>

\* The bot is down overnight.  The broker has closed the account's intraday
\* position and expired its orders; load_positions drops a file of another
\* day.  Bound: no protective stop is left over.
NewDay ==
  /\ ~Up /\ stop = 0
  /\ \E x \in Op \ old : orders[x].created
  /\ old' = {x \in Op : orders[x].created}
  /\ book' = [o \in Op |-> IF Broker!InFlight(o)
                             THEN [book[o] EXCEPT !.status = "CANCELLED"]
                             ELSE book[o]]
  /\ net' = 0
  /\ file' = NoPosition
  /\ UNCHANGED <<orders, stop, bot, early, restarts>>

BrokerMoves ==
  /\ \E o \in Op : \/ Broker!Accept(o) \/ Broker!Reject(o) \/ Broker!Lose(o)
                   \/ Broker!Fill(o)   \/ Broker!Cancel(o)
  /\ UNCHANGED <<orders, file, stop, bot, days>>

Entering == \/ CreateEntryIntent \/ SubmitEntry \/ AttachEntry \/ EntryUncertain
            \/ VerifyEntry \/ ResolveEntry \/ BookEntry \/ MarkApplied
            \/ ProtectEntry \/ SaveProtection

Recovering == \/ \E x \in Op : \/ SuppressOld(x) \/ Reattach(x)
                               \/ SkipUnmatched(x) \/ Reverify(x)
              \/ RefuseOld \/ BookRecovered \/ MarkRecovered \/ NothingNew
              \/ Settle \/ RecoverStop

Next == \/ Entering \/ Recovering \/ \E n \in 1..Quantity : ExitShares(n)
        \/ Crash \/ Restart \/ NewDay \/ BrokerMoves

Spec == Init /\ [][Next]_vars

----------------------------------------------------------------------------
(* Properties *)

TypeOK ==
  /\ Orders!TypeOK /\ Broker!TypeOK
  /\ pos \in Position \cup {NoPosition} /\ file \in Position \cup {NoPosition}
  /\ stop \in Qty
  /\ pc \in {"idle", "submit", "attach", "verify", "resolve", "book",
             "markApplied", "protect", "saveProtection", "recover", "apply",
             "markRecovered", "settle", "down", "failed", "refused"}
  /\ call \in Call
  /\ old \subseteq Op /\ early \in BOOLEAN /\ restarts \in 0..MaxRestarts

\* At most one entry order of the symbol can still fill, requests with lost
\* responses included: a crash, a timeout or an unreadable order list never
\* makes the bot buy the same signal twice (place_entry_order, "Never
\* resubmit blindly").
OneEntryInFlight ==
  \A x, y \in Op : Broker!InFlight(x) /\ Broker!InFlight(y) => x = y

Unapplied(x) == book[x].filled - orders[x].applied

BookedQty(p) == IF p = NoPosition THEN 0 ELSE p.qty

\* Every share the account holds is in the position file or is a fill of
\* today that the order store does not call applied: a crash anywhere between
\* confirmation, position file, mark and resolution hides none.
NoShareForgotten ==
  net <= BookedQty(file) + MapThenSumSet(Unapplied, {x \in Op \ old : orders[x].created})

\* A fill that the store does not call applied is one recovery looks at: its
\* operation is unresolved, or its confirmed fill exceeds the applied one
\* (list_entry_orders_requiring_local_application).
UnappliedIsRecovered ==
  \A x \in Op : Unapplied(x) > 0 => Candidate(x)

\* The books never claim shares the account does not hold: recovery applies a
\* cumulative fill once ("Recovery is idempotent"), and yesterday's fills are
\* not rebuilt.
NothingInvented == Held => pos.qty <= net

\* ... which the code keeps as long as no position was closed before its entry
\* was resolved: no stop and no exit is larger than the holding.
NothingInventedInOrder == early \/ NothingInvented

\* With the same exception, an entry is sent only from a flat account: no
\* share of an earlier entry of the symbol is left, tracked or not.
OpensFromFlat == [][\A x \in Op : ~Broker!InFlight(x) /\ Broker!InFlight(x)'
                      => early \/ net = 0]_vars

\* Between two checks a position that no human is called for has a stop of
\* exactly its quantity, also when recovery has made the position grow.
UnflaggedMeansCovered ==
  pc = "idle" /\ Held /\ ~pos.manual => stop = pos.qty /\ pos.stopQty = pos.qty

\* With the same exception, the startup recovery of entries never dies of its
\* own bookkeeping (an applied fill that would run backwards).
StartupSurvives == early \/ pc # "failed"

============================================================================
