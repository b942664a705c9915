------------------------------ MODULE LiveExit ------------------------------
(***************************************************************************)
(* The life of one live position after its confirmed entry: the protective *)
(* stop that guards it, the coordinated exit that replaces the stop by a   *)
(* market order, the square-off, and the recovery of all of these after a  *)
(* crash (main.py, protective_stop.py, protective_stop_exit.py,            *)
(* entry_protection.py, executor.py, hybrid_exit.py, position_store.py).   *)
(*                                                                         *)
(* The bot is one thread; pc says where it is.  A step ends at every       *)
(* durable write (the two operation stores, the position file, the P&L     *)
(* ledger) and at every request to the broker, so that a crash can fall    *)
(* between any two of them; an answer of the broker is read in the step    *)
(* that records it.  The broker moves between any two steps.               *)
(***************************************************************************)
EXTENDS Integers, FiniteSetsExt

CONSTANTS
  StopOp,       \* protective-stop operations the run may create
  ExitOp,       \* EXIT and FORCE_EXIT operations the run may create
  NoOp,         \* no operation / no broker order id
  NoPosition,   \* the symbol is not in open_positions
  Symbol,       \* the traded symbol
  Quantity,     \* shares of the confirmed entry
  Hybrid,       \* the 1R scalp / 2R runner plan is configured (hybrid_exit.py)
  MaxRestarts   \* bound: crashes (or day ends) followed by a restart

ASSUME QuantityAssumption == Quantity \in Nat \ {0}
ASSUME OpAssumption ==
  NoOp \notin StopOp \cup ExitOp /\ StopOp \cap ExitOp = {}
ASSUME HybridAssumption == Hybrid \in BOOLEAN /\ (Hybrid => Quantity > 1)
ASSUME MaxRestartsAssumption == MaxRestarts \in Nat

VARIABLES
  stops,     \* protective-stop store, durable
  orders,    \* pending-order store, durable
  file,      \* open_positions.json, durable
  pnl,       \* shares whose result is in day_state.json / trades, per operation
  book, net, \* the broker
  pos,       \* the position in memory
  pc,        \* the next step of the bot
  call,      \* locals of the call in progress
  late,      \* past_square_off()
  restarts

bot    == <<pos, pc, call>>
market == <<book, net>>
clock  == <<late, restarts>>
vars   == <<stops, orders, file, pnl, market, bot, clock>>

Reasons == {"FULL", "SCALP"}  \* FULL stands for every reason but hybrid_scalp_1r

Stop   == INSTANCE ProtectiveStopStore
            WITH OrderId <- StopOp, NoOrder <- NoOp, Instrument <- {Symbol},
                 Reason <- Reasons, MaxQty <- Quantity
Orders == INSTANCE PendingOrderStore
            WITH Op <- ExitOp, OrderId <- ExitOp, NoOrder <- NoOp,
                 Instrument <- {Symbol}, MaxQty <- Quantity
Broker == INSTANCE Broker
            WITH Order <- StopOp \cup ExitOp, StopOrder <- StopOp,
                 MaxQty <- Quantity, Sign <- -1

Qty     == 0..Quantity
Family  == {"EXIT", "FORCE_EXIT"}
StopEnd == {"CANCELLED", "REJECTED", "TRIGGERED", "PARTIALLY_TRIGGERED"}

\* A new operation id: ids are interchangeable, any unused one will do.
OneOf(S) == IF S = {} THEN {} ELSE {CHOOSE o \in S : TRUE}

Least(a, b) == IF a < b THEN a ELSE b

(***************************************************************************)
(* The fields of a position that decide what the bot does.  exit[a] holds  *)
(* its exit or force-exit fields: operation, cumulative quantity applied   *)
(* and whether the average price is known.                                 *)
(***************************************************************************)
Position ==
  [ qty : Qty, op : StopOp \cup {NoOp},
    pending   : BOOLEAN,   \* protective_stop_state = "PENDING"
    protected : BOOLEAN,   \* entry_protected
    blocked   : BOOLEAN,   \* automated_exit_blocked
    manual    : BOOLEAN,   \* manual_reconciliation_required
    exit : [Family -> [op : ExitOp \cup {NoOp}, filled : Qty, priced : BOOLEAN]],
    reason    : Reasons \cup {"NONE"},            \* exit_reason
    stage     : {"NONE", "SCALP", "RUNNER"},      \* hybrid_exit_stage
    scalpLeft : Qty ]      \* hybrid_scalp_remaining_quantity

ASSUME NoPositionAssumption == NoPosition \notin Position

Answer == [ state : StopEnd \cup {"ACTIVE", "TIMEOUT", "UNKNOWN", "DONE", "PENDING"},
            filled : Qty, priced : BOOLEAN ]

Call ==
  [ action : Family \cup {"NONE"},
    reason : Reasons \cup {"NONE"},
    want   : Qty,                     \* requested_qty
    full   : BOOLEAN,                 \* full_exit_requested
    stop   : StopOp \cup {NoOp},      \* the stop being placed or recovered
    op     : ExitOp \cup {NoOp},      \* the exit being placed or recovered
    obs    : Answer,                  \* last broker answer
    fill   : Qty,                     \* newly confirmed shares
    recovering : BOOLEAN,
    next   : {"idle", "ended"},       \* where the call returns to
    then   : {"idle", "recoverExits", "finalize"} ] \* where placing a stop does

NoAnswer == [state |-> "UNKNOWN", filled |-> 0, priced |-> FALSE]

NoCall == [ action |-> "NONE", reason |-> "NONE", want |-> 0, full |-> FALSE,
            stop |-> NoOp, op |-> NoOp, obs |-> NoAnswer, fill |-> 0,
            recovering |-> FALSE, next |-> "idle", then |-> "idle" ]

NewPosition ==
  [ qty |-> Quantity, op |-> NoOp, pending |-> TRUE, protected |-> FALSE,
    blocked |-> TRUE, manual |-> FALSE,
    exit |-> [a \in Family |-> [op |-> NoOp, filled |-> 0, priced |-> FALSE]],
    reason |-> "NONE",
    stage |-> IF Hybrid THEN "SCALP" ELSE "NONE",
    scalpLeft |-> IF Hybrid THEN Quantity \div 2 ELSE 0 ]

\* The confirmed entry has just been saved; its stop has not been requested.
Init ==
  /\ Stop!Init /\ Orders!Init
  /\ Broker!Init /\ net = Quantity
  /\ pos = NewPosition /\ file = pos
  /\ pnl = [o \in StopOp \cup ExitOp |-> 0]
  /\ pc = "protect" /\ call = NoCall
  /\ late = FALSE /\ restarts = 0

Held == pos # NoPosition

Goto(label) == pc' = label /\ UNCHANGED call
Return      == pc' = call.next /\ call' = NoCall
Save(p)     == pos' = p /\ file' = p /\ UNCHANGED <<stops, orders, pnl, market, clock>>

StopStoreStep  == UNCHANGED <<orders, file, pnl, pos, market, clock>>
OrderStoreStep == UNCHANGED <<stops, file, pnl, pos, market, clock>>
BrokerStep     == UNCHANGED <<stops, orders, file, pnl, pos, clock>>
LocalStep      == UNCHANGED <<stops, orders, file, pnl, pos, market, clock>>

\* The outcome of a call that raised: a scan catches it and carries on; the
\* position loop, the square-off and the startup recovery die of it.
Raise == /\ pc' \in {"down"} \cup
              (IF call.recovering \/ call.next = "ended" THEN {} ELSE {"idle"})
         /\ call' = NoCall
         /\ pos' = IF pc' = "down" THEN NoPosition ELSE pos
         /\ UNCHANGED <<stops, orders, file, pnl, market, clock>>

----------------------------------------------------------------------------
(* Broker answers as the verification loops report them *)

Answers(state, n) == [state : {state}, filled : {n},
                      priced : IF n > 0 THEN BOOLEAN ELSE {FALSE}]

\* verify_protective_stop_active: unreadable history is UNKNOWN with fill 0.
StopAnswers(s) ==
  LET b == book[s] IN
  {NoAnswer} \cup
  CASE b.status = "TRIGGER_PENDING" -> Answers("ACTIVE", 0)
    [] b.status = "OPEN"      -> Answers("TIMEOUT", b.filled)
    [] b.status = "COMPLETE"  -> Answers("TRIGGERED", b.filled)
    [] b.status = "CANCELLED" ->
         Answers(IF b.filled > 0 THEN "PARTIALLY_TRIGGERED" ELSE "CANCELLED",
                 b.filled)
    [] b.status = "REJECTED"  -> Answers("REJECTED", 0)

\* verify_order_execution: DONE is a terminal result, PENDING is TIMEOUT or
\* UNKNOWN, whose confirmed shares count but whose rest stays unresolved.
ExitAnswers(x) ==
  {[NoAnswer EXCEPT !.state = "PENDING"]} \cup
  Answers(IF Broker!Ended(x) THEN "DONE" ELSE "PENDING", book[x].filled)

----------------------------------------------------------------------------
(* Placing and recovering a protective stop *)

\* Mutant: an unknown outcome is taken for success.
WithStopResultHopeful(p, s, state) ==
  LET covered == state \in {"ACTIVE", "UNKNOWN"} IN
  [p EXCEPT !.op = s, !.pending = FALSE, !.protected = covered,
            !.blocked = ~covered, !.manual = ~covered]

\* apply_protective_stop_result: only an active stop of exactly the
\* position's quantity is protection.
WithStopResult(p, s, state) ==
  LET covered == state = "ACTIVE" /\ stops[s].requested = p.qty IN
  [p EXCEPT !.op = s, !.pending = FALSE, !.protected = covered,
            !.blocked = ~covered, !.manual = ~covered]

\* Mutant: the runner is protected with the quantity of the entry.
CreateStopIntentFull ==
  /\ pc = "protect"
  /\ \E s \in StopOp : /\ Stop!CreateIntent(s, Symbol, Quantity)
                       /\ call' = [call EXCEPT !.stop = s]
  /\ pc' = "submitStop"
  /\ StopStoreStep

CreateStopIntent ==
  /\ pc = "protect"
  /\ \E s \in StopOp : /\ s \in OneOf({t \in StopOp : ~stops[t].created})
                       /\ Stop!CreateIntent(s, Symbol, pos.qty)
                       /\ call' = [call EXCEPT !.stop = s]
  /\ pc' = "submitStop"
  /\ StopStoreStep

SubmitStop ==
  /\ pc = "submitStop"
  /\ Broker!Submit(call.stop, stops[call.stop].requested)
  /\ Goto("attachStop")
  /\ BrokerStep

\* The order id comes with the response or, when that was lost, from the
\* unique tag (reconcile_protective_stop_submission).
AttachStop ==
  /\ pc = "attachStop"
  /\ Broker!Accepted(call.stop)
  /\ Stop!AttachOrderId(call.stop, call.stop)
  /\ Goto("verifyStop")
  /\ StopStoreStep

\* An exception, and no order with the tag found in time.
StopSubmissionUncertain ==
  /\ pc = "attachStop"
  /\ call' = [call EXCEPT !.obs = NoAnswer]
  /\ pc' = "stopResult"
  /\ LocalStep

VerifyStop ==
  /\ pc = "verifyStop"
  /\ \E a \in StopAnswers(call.stop) :
       \/ /\ Stop!UpdateVerification(call.stop, a.filled)
          /\ call' = [call EXCEPT !.obs = a]
          /\ pc' = "stopResult"
          /\ StopStoreStep
       \/ ~Stop!CanRecordFill(call.stop, a.filled) /\ Raise

StopResult ==
  /\ pc = "stopResult"
  /\ LET p == WithStopResult(pos, call.stop, call.obs.state) IN
       /\ Save(p)
       /\ CASE call.then = "finalize" ->
                 IF p.protected /\ call.op # NoOp THEN Goto("finalize") ELSE Return
            [] call.then = "recoverExits" ->
                 /\ pc' = "recoverExits"
                 /\ call' = [NoCall EXCEPT !.recovering = TRUE]
            [] call.then = "idle" -> Return

----------------------------------------------------------------------------
(* Checking the position: the broker stop first, then the price *)

\* _validate_identity
Identified ==
  /\ pos.op # NoOp
  /\ stops[pos.op].orderId # NoOp
  /\ pos.qty > 0
  /\ pos.qty + stops[pos.op].applied = stops[pos.op].requested

\* Mutant: the cancellation call is taken for the cancellation.
AfterInspectionTrusting(a) ==
  CASE a.state \in StopEnd -> "apply"
    [] a.state = "ACTIVE" /\ (call.action = "NONE" \/ stops[pos.op].cancelTried)
         -> "apply"
    [] a.state = "ACTIVE" -> "reserveCancel"
    [] OTHER -> "block"

\* A check applies what it saw.  A coordinated exit needs a terminal stop,
\* and cancels an active one once, ever.
AfterInspection(a) ==
  IF call.action = "NONE"
    THEN IF a.state \in StopEnd \cup {"ACTIVE"} THEN "apply" ELSE "block"
    ELSE CASE /\ a.state \in StopEnd
              /\ call.full \/ a.filled = stops[pos.op].applied -> "apply"
           [] a.state = "ACTIVE" /\ ~stops[pos.op].cancelTried -> "reserveCancel"
           [] OTHER -> "block"

\* inspect_protective_stop: what the broker says goes to the store first.
Inspect ==
  \E a \in StopAnswers(pos.op) :
    \/ /\ Stop!UpdateVerification(pos.op, a.filled)
       /\ call' = [call EXCEPT !.obs = a]
       /\ pc' = AfterInspection(a)
       /\ StopStoreStep
    \/ ~Stop!CanRecordFill(pos.op, a.filled) /\ Raise

CheckPosition ==
  /\ pc = "idle" /\ Held /\ ~late
  /\ IF Identified THEN Inspect ELSE Goto("block") /\ LocalStep

\* Every refusal leaves the position blocked and flagged for a human.
Block ==
  /\ pc = "block"
  /\ Save([pos EXCEPT !.blocked = TRUE, !.manual = TRUE])
  /\ Return

----------------------------------------------------------------------------
(* _apply_confirmed_protective_stop_fill *)

UnappliedAgain == call.obs.filled  \* mutant: what was applied is forgotten

Unapplied == call.obs.filled - stops[pos.op].applied

AfterApply ==
  IF pos' = NoPosition THEN Return
  ELSE Goto(IF call.action = "NONE" THEN "decide" ELSE "clear")

\* Mutant: a stop that disappeared is not flagged.
ApplyNoFillQuiet ==
  /\ pc = "apply" /\ Unapplied = 0
  /\ IF call.obs.state = "ACTIVE"
       THEN /\ Save([pos EXCEPT !.pending = FALSE, !.protected = TRUE,
                                !.blocked = FALSE, !.manual = FALSE])
            /\ AfterApply
       ELSE /\ Save([pos EXCEPT !.pending = FALSE, !.protected = FALSE,
                                !.blocked = TRUE])
            /\ Goto("resolveStop")

ApplyNoFill ==
  /\ pc = "apply" /\ Unapplied = 0
  /\ IF call.obs.state = "ACTIVE"
       THEN /\ Save([pos EXCEPT !.pending = FALSE, !.protected = TRUE,
                                !.blocked = FALSE, !.manual = FALSE])
            /\ AfterApply
       ELSE /\ Save([pos EXCEPT !.pending = FALSE, !.protected = FALSE,
                                !.blocked = TRUE,
                                !.manual = ~Stop!Requested(pos.op)])
            /\ Goto("resolveStop")

\* The fill is reserved in the store before anything else, so that a crash
\* leaves the position overstated rather than the fill applied twice.
ReserveStopFill ==
  /\ pc = "apply" /\ Unapplied > 0
  /\ Stop!MarkFillApplied(pos.op, call.obs.filled, call.obs.priced)
  /\ call' = [call EXCEPT !.fill = Unapplied]
  /\ pc' = IF call.obs.priced THEN "bookStopFill" ELSE "saveStopFill"
  /\ StopStoreStep

\* Mutant: the requested quantity enters the ledger.
BookRequested(o, n) ==
  /\ pnl' = [pnl EXCEPT ![o] = @ + call.want]
  /\ UNCHANGED <<stops, orders, file, pos, market, clock>>

Book(o, n) == /\ pnl' = [pnl EXCEPT ![o] = @ + n]
              /\ UNCHANGED <<stops, orders, file, pos, market, clock>>

BookStopFill ==
  /\ pc = "bookStopFill"
  /\ Book(pos.op, call.fill)
  /\ Goto("saveStopFill")

ReducedByTotal(p, n) == [p EXCEPT !.qty = @ - call.obs.filled]  \* mutant

Reduced(p, n) == [p EXCEPT !.qty = @ - n]

\* Mutant: the closed position leaves memory only.
SaveStopFillUnsaved ==
  /\ pc = "saveStopFill"
  /\ pos' = IF call.fill = pos.qty THEN NoPosition ELSE Reduced(pos, call.fill)
  /\ pc' = "resolveStop" /\ call' = [call EXCEPT !.stop = pos.op]
  /\ UNCHANGED <<stops, orders, file, pnl, market, clock>>

SaveStopFill ==
  /\ pc = "saveStopFill"
  /\ Save(IF call.fill = pos.qty THEN NoPosition
          ELSE [Reduced(pos, call.fill) EXCEPT
                  !.pending = FALSE, !.protected = FALSE, !.blocked = TRUE,
                  !.manual = @ \/ ~call.obs.priced])
  /\ IF call.obs.priced
       THEN pc' = "resolveStop" /\ call' = [call EXCEPT !.stop = pos.op]
       ELSE AfterApply

ResolveStop ==
  /\ pc = "resolveStop"
  /\ Stop!MarkResolved(IF Held THEN pos.op ELSE call.stop)
  /\ StopStoreStep
  /\ AfterApply

----------------------------------------------------------------------------
(* check_position_exit after the inspection, and run()'s square-off *)

Resumed == Stop!Requested(pos.op)

Triggered == call.obs.state \in {"TRIGGERED", "PARTIALLY_TRIGGERED"}

\* A resumed request, the remainder of a triggered stop, or the price.
ExitReasons ==
  IF Resumed THEN {stops[pos.op].reason}
  ELSE IF Triggered THEN {"FULL"}
  ELSE {"FULL"} \cup (IF pos.stage = "SCALP" THEN {"SCALP"} ELSE {})

\* requested_exit_quantity
Wanted(reason) ==
  IF reason = "SCALP" /\ pos.stage = "SCALP"
    THEN Least(pos.qty, pos.scalpLeft) ELSE pos.qty

\* No price trigger, a stop that is gone, or a square-off left to run().
NoExit ==
  /\ pc = "decide"
  /\ IF Resumed THEN stops[pos.op].action = "FORCE_EXIT" ELSE ~Triggered
  /\ Return
  /\ pos' = IF Resumed THEN [pos EXCEPT !.blocked = TRUE] ELSE pos
  /\ UNCHANGED <<stops, orders, file, pnl, market, clock>>

\* _prepare_protective_stop_for_exit first saves what it is about to do.
Prepare(action, reason, want, next) ==
  /\ call' = [call EXCEPT !.action = action, !.reason = reason, !.want = want,
                          !.full = (want = pos.qty), !.next = next, !.fill = 0]
  /\ pc' = "request"

DecideExit ==
  /\ pc = "decide"
  /\ Resumed => stops[pos.op].action = "EXIT"
  /\ call.obs.state \in {"CANCELLED", "REJECTED"} => Resumed
  /\ \E reason \in ExitReasons :
       /\ Wanted(reason) > 0
       /\ Prepare("EXIT", reason, Wanted(reason), "idle")
  /\ Save([pos EXCEPT !.blocked = TRUE])

SquareOff ==
  /\ pc = "idle"
  /\ late' = TRUE
  /\ IF Held
       THEN /\ Prepare("FORCE_EXIT", "FULL", pos.qty, "ended")
            /\ pos' = [pos EXCEPT !.blocked = TRUE]
            /\ file' = pos'
       ELSE pc' = "ended" /\ UNCHANGED <<call, pos, file>>
  /\ UNCHANGED <<stops, orders, pnl, market, restarts>>

----------------------------------------------------------------------------
(* coordinate_protective_stop_for_exit *)

RequestCoordination ==
  /\ pc = "request"
  /\ IF Identified
       THEN /\ Stop!RequestCoordination(pos.op, call.action, call.reason, pos.qty)
            /\ StopStoreStep
            /\ Goto("coordinate")
       ELSE LocalStep /\ Goto("block")

Coordinate == pc = "coordinate" /\ Inspect

ReserveCancel ==
  /\ pc = "reserveCancel"
  /\ Stop!ReserveCancel(pos.op)
  /\ Goto("cancelStop")
  /\ StopStoreStep

\* Mutant: an uncertain response is retried.
CancelStopRetried ==
  /\ pc = "cancelStop"
  /\ Broker!AskCancel(pos.op)
  /\ pc' \in {"coordinate", "cancelStop"} /\ UNCHANGED call
  /\ BrokerStep

CancelStop ==
  /\ pc = "cancelStop"
  /\ Broker!AskCancel(pos.op)
  /\ Goto("coordinate")
  /\ BrokerStep

ClearForExit ==
  /\ pc = "clear"
  /\ Save([pos EXCEPT !.protected = FALSE, !.blocked = TRUE])
  /\ call' = [call EXCEPT
                !.want = IF call.action = "FORCE_EXIT" THEN pos.qty ELSE @]
  /\ pc' = "place"

----------------------------------------------------------------------------
(* _place_exit_order *)

ClearedForAny == TRUE  \* mutant: a clearance good for any quantity

\* The clearance names an exact quantity (valid_exit_clearance).
Cleared == call.want = (IF call.full THEN pos.qty ELSE call.want)

NoExitPlaced(state) ==
  /\ call' = [call EXCEPT !.obs = [NoAnswer EXCEPT !.state = state], !.fill = 0]
  /\ pc' = "result"
  /\ LocalStep

RefuseUncleared == pc = "place" /\ ~Cleared /\ NoExitPlaced("DONE")

RefusePending ==
  /\ pc = "place" /\ Cleared
  /\ Orders!HasUnresolved(Symbol, call.action)
  /\ NoExitPlaced("PENDING")

CreateExitIntent ==
  /\ pc = "place" /\ Cleared
  /\ \E x \in ExitOp : /\ x \in OneOf({y \in ExitOp : ~orders[y].created})
                       /\ Orders!CreateIntent(x, Symbol, call.action, call.want)
                       /\ call' = [call EXCEPT !.op = x]
  /\ pc' = "submitExit"
  /\ OrderStoreStep

SubmitExit ==
  /\ pc = "submitExit"
  /\ Broker!Submit(call.op, orders[call.op].requested)
  /\ Goto("attachExit")
  /\ BrokerStep

AttachExit ==
  /\ pc = "attachExit"
  /\ Broker!Accepted(call.op)
  /\ Orders!AttachOrderId(call.op, call.op)
  /\ Goto("verifyExit")
  /\ OrderStoreStep

\* An exit carries no tag: after an exception its order id is never found.
ExitSubmissionUncertain == pc = "attachExit" /\ NoExitPlaced("PENDING")

VerifyExit ==
  /\ pc = "verifyExit"
  /\ \E a \in ExitAnswers(call.op) :
       /\ Orders!UpdateVerification(call.op, a.filled, a.priced, a.state = "DONE")
       /\ call' = [call EXCEPT !.obs = a, !.fill = a.filled]
  /\ pc' = "result"
  /\ OrderStoreStep

----------------------------------------------------------------------------
(* Applying the result of an exit: check_position_exit, and the same for   *)
(* apply_force_exit_result and the two recover_unresolved_..._exits.       *)

Done == call.obs.state = "DONE"

AfterExitAlways == IF call.op # NoOp THEN Goto("finalize") ELSE Return  \* mutant

AfterExit == IF Done /\ call.op # NoOp THEN Goto("finalize") ELSE Return

\* A terminal scalp order leaves the runner without its stop.
NeedsReprotection(p) ==
  /\ p # NoPosition
  /\ p.qty > 0
  /\ Done /\ call.action = "EXIT" /\ call.reason = "SCALP"

ProtectOrFinish(p) ==
  IF NeedsReprotection(p) THEN Goto("reprotect") ELSE AfterExit

WithExit(p) ==
  [p EXCEPT !.exit[call.action].op = IF call.op = NoOp THEN @ ELSE call.op,
            !.reason  = IF call.action = "EXIT" THEN call.reason ELSE @,
            !.blocked = TRUE, !.manual = TRUE]

\* The position after call.fill more shares of the exit operation.
WithFill(p) ==
  [Reduced(WithExit(p), call.fill) EXCEPT
     !.exit[call.action].filled = call.obs.filled,
     !.exit[call.action].priced = call.obs.priced]

\* apply_confirmed_hybrid_fill
WithScalp(p) ==
  IF call.reason = "SCALP" /\ p.stage = "SCALP"
    THEN [p EXCEPT !.scalpLeft = @ - Least(@, call.fill),
                   !.stage = IF p.scalpLeft <= call.fill THEN "RUNNER" ELSE @]
    ELSE p

\* Its price is the cumulative average less what was applied before.
Priceable ==
  /\ call.obs.priced
  /\ call.fill = call.obs.filled \/ pos.exit[call.action].priced

ResultNoFill ==
  /\ pc = "result" /\ call.fill = 0
  /\ Save(WithExit(pos))
  /\ ProtectOrFinish(pos)

\* Exposure is reduced, no P&L is invented; recovery keeps the operation
\* unresolved, the session resolves it.
ResultUnpriced ==
  /\ pc = "result" /\ call.fill > 0 /\ ~Priceable
  /\ Save(IF call.action = "FORCE_EXIT" /\ call.fill = pos.qty
            THEN NoPosition ELSE WithFill(pos))
  /\ IF call.recovering THEN Return ELSE AfterExit

BookExitFill ==
  /\ pc = "result" /\ call.fill > 0 /\ Priceable
  /\ Book(call.op, call.fill)
  /\ Goto("saveExit")

SaveExitFill ==
  /\ pc = "saveExit"
  /\ LET p == IF call.fill = pos.qty THEN NoPosition ELSE WithScalp(WithFill(pos))
     IN  Save(p) /\ ProtectOrFinish(p)

\* The operation is resolved only after the position was saved.
Finalize ==
  /\ pc = "finalize"
  /\ Orders!MarkResolved(call.op)
  /\ Return
  /\ UNCHANGED <<stops, file, pnl, pos, market, clock>>

----------------------------------------------------------------------------
(* _reprotect_remaining_live_position, then Placing a stop *)

ResolveOldStop ==
  /\ pc = "reprotect"
  /\ Stop!MarkResolved(pos.op)
  /\ Goto("saveReprotection")
  /\ StopStoreStep

SaveReprotection ==
  /\ pc = "saveReprotection"
  /\ Save([pos EXCEPT !.pending = TRUE, !.op = NoOp, !.protected = FALSE,
                      !.blocked = TRUE, !.manual = FALSE])
  /\ call' = [call EXCEPT !.then = "finalize"]
  /\ pc' = "protect"

----------------------------------------------------------------------------
(* Crash, restart and the recovery of run() *)

Down == pc \in {"down", "ended"}

Crash ==
  /\ ~Down
  /\ pc' = "down" /\ pos' = NoPosition /\ call' = NoCall
  /\ UNCHANGED <<stops, orders, file, pnl, market, clock>>

Restart ==
  /\ Down /\ restarts < MaxRestarts
  /\ restarts' = restarts + 1
  /\ pos' = file
  /\ pc' = "recoverStops" /\ call' = [NoCall EXCEPT !.recovering = TRUE]
  /\ UNCHANGED <<stops, orders, file, pnl, market, late>>

\* An unresolved stop is looked up, never sent again; a position saved before
\* its first intent is protected now (needs_initial_stop_recovery).
RecoverStops ==
  /\ pc = "recoverStops"
  /\ LET open == {s \in StopOp : Stop!Unresolved(s)}
         next == [call EXCEPT !.then = "recoverExits"]
     IN  \/ /\ Held
            /\ \E s \in open :
                 /\ call' = [next EXCEPT !.stop = s]
                 /\ pc' = IF stops[s].orderId = NoOp THEN "attachStop" ELSE "verifyStop"
         \/ /\ Held /\ open = {}
            /\ pos.pending /\ pos.op = NoOp /\ ~pos.manual
            /\ call' = next /\ pc' = "protect"
         \/ /\ Held => open = {} /\ ~(pos.pending /\ pos.op = NoOp /\ ~pos.manual)
            /\ Goto("recoverExits")
  /\ LocalStep

\* What the position already reflects of an exit operation.
AppliedBeforeForgotten(x) == 0  \* mutant

AppliedBefore(x) ==
  LET e == pos.exit[orders[x].action] IN IF e.op = x THEN e.filled ELSE 0

\* recover_unresolved_exits and recover_unresolved_force_exits: the store
\* holds at most one unresolved exit of either kind.
RecoverExit(x) ==
  /\ Orders!Unresolved(x)
  /\ orders[x].orderId # NoOp
  /\ \E a \in ExitAnswers(x) :
       LET action == orders[x].action
           new    == a.filled - AppliedBefore(x)
           found  == [call EXCEPT !.action = action, !.op = x, !.obs = a]
       IN  /\ Orders!UpdateVerification(x, a.filled, a.priced, a.state = "DONE")
           /\ OrderStoreStep
           /\ IF ~Held
                THEN IF a.state = "DONE" /\ a.filled = orders[x].requested
                       THEN pc' = "finalize" /\ call' = found
                       ELSE Return
                ELSE IF new \in 0..pos.qty
                  THEN /\ pc' = "result"
                       /\ call' = [found EXCEPT !.fill = new, !.reason =
                                     IF action = "EXIT" THEN pos.reason ELSE "FULL"]
                  ELSE Goto("block")

\* Without an order id the outcome of the submission stays unknown.
FlagLostExit(x) ==
  /\ Orders!Unresolved(x)
  /\ orders[x].orderId = NoOp
  /\ IF Held THEN Goto("block") ELSE Return
  /\ LocalStep

RecoverExits ==
  /\ pc = "recoverExits"
  /\ \/ \E x \in ExitOp : RecoverExit(x) \/ FlagLostExit(x)
     \/ (\A x \in ExitOp : ~Orders!Unresolved(x)) /\ Return /\ LocalStep

----------------------------------------------------------------------------

Protecting ==
  \/ CreateStopIntent \/ SubmitStop \/ AttachStop \/ StopSubmissionUncertain
  \/ VerifyStop \/ StopResult

Checking ==
  \/ CheckPosition \/ Block \/ ApplyNoFill \/ ReserveStopFill \/ BookStopFill
  \/ SaveStopFill \/ ResolveStop \/ NoExit \/ DecideExit

Coordinating ==
  \/ RequestCoordination \/ Coordinate \/ ReserveCancel \/ CancelStop
  \/ ClearForExit

Exiting ==
  \/ RefuseUncleared \/ RefusePending \/ CreateExitIntent \/ SubmitExit
  \/ AttachExit \/ ExitSubmissionUncertain \/ VerifyExit
  \/ ResultNoFill \/ ResultUnpriced \/ BookExitFill \/ SaveExitFill \/ Finalize
  \/ ResolveOldStop \/ SaveReprotection

Bot == Protecting \/ Checking \/ Coordinating \/ Exiting \/ RecoverStops \/ RecoverExits

\* Bound: an exit is ended short of its quantity only while an operation is
\* left to retry it with.
RetryLeft(o) == o \in StopOp \/ \E x \in ExitOp : ~orders[x].created

BrokerMove ==
  /\ \E o \in StopOp \cup ExitOp :
       \/ Broker!Accept(o) \/ Broker!Trigger(o) \/ Broker!Fill(o) \/ Broker!Lose(o)
       \/ RetryLeft(o) /\ (Broker!Reject(o) \/ Broker!Cancel(o))
  /\ UNCHANGED <<stops, orders, file, pnl, bot, clock>>

Terminated == Down /\ UNCHANGED vars

Next == Bot \/ SquareOff \/ BrokerMove \/ Crash \/ Restart \/ Terminated

Spec == Init /\ [][Next]_vars

\* The main loop always takes its next step, and squares off once it is late.
\* Of the broker only this is assumed: the order history is not unreadable
\* for ever whenever the same call asks for it.
Answered(A) == A /\ pc' # "idle" /\ pc' # "down"

FairSpec ==
  /\ Spec
  /\ WF_vars(Bot) /\ WF_vars(late /\ SquareOff)
  /\ SF_vars(Answered(CheckPosition)) /\ SF_vars(Answered(Coordinate))

----------------------------------------------------------------------------
(* Properties *)

Op == StopOp \cup ExitOp

TypeOK ==
  /\ Stop!TypeOK /\ Orders!TypeOK /\ Broker!TypeOK
  /\ {pos, file} \subseteq Position \cup {NoPosition}
  /\ pnl \in [Op -> Nat]
  /\ call \in Call
  /\ late \in BOOLEAN /\ restarts \in 0..MaxRestarts

\* The purpose of the whole coordination: two orders that close the same
\* position are never in flight together, be they the stop and an exit, two
\* exits or two stops, and counting requests whose response was lost.
OneClosingOrder ==
  \A o, p \in Op : Broker!InFlight(o) /\ Broker!InFlight(p) => o = p

InFlightShares ==
  MapThenSumSet(LAMBDA o : Broker!Left(o), {o \in Op : Broker!InFlight(o)})

\* The exit side keeps the promise of ExitExposure: no order is sent for more
\* than is held, nor while another can still close shares.
Exposure == INSTANCE ExitExposure WITH held <- net, committed <- InFlightShares
ExposureSpec == Exposure!Spec

LocalQty(p) == IF p = NoPosition THEN 0 ELSE p.qty

\* A crash may leave the local books conservatively overstated, never
\* understated: shares still held are always shares someone will see
\* (_apply_confirmed_protective_stop_fill's reservation comment).
NeverUnderstated ==
  /\ LocalQty(file) >= net
  /\ ~Down => LocalQty(pos) >= net

\* Once every operation is resolved the position file says exactly what the
\* broker holds: a resolution comes only after the fill was saved, and only
\* for an order that is over.
SettledMeansAgreed ==
  /\ \A s \in StopOp : ~Stop!Unresolved(s)
  /\ \A x \in ExitOp : ~Orders!Unresolved(x)
  => LocalQty(file) = net

\* The fill of a stop enters P&L at most once, whatever crashes and repeated
\* checks come between, and a resolved stop is over and fully applied.
StopFillsBookedOnce ==
  \A s \in StopOp :
    /\ pnl[s] <= stops[s].applied
    /\ stops[s].applied <= book[s].filled
    /\ stops[s].resolved =>
         /\ Broker!Ended(s)
         /\ stops[s].applied = book[s].filled
         /\ stops[s].priced => pnl[s] = book[s].filled

\* Without a crash an exit's fill enters P&L at most once as well, and not at
\* all only when the broker gave no price for it.
ExitFillsBookedOnce ==
  \A x \in ExitOp :
    /\ pnl[x] <= book[x].filled
    /\ orders[x].resolved /\ orders[x].priced => pnl[x] = book[x].filled

\* "Cancellation is at-most-once" (coordinate_protective_stop_for_exit).
CancelAtMostOnce == \A s \in StopOp : book[s].cancels <= 1

\* Automation is unblocked only over a position whose stop the broker
\* accepted for exactly the local quantity.
UnblockedMeansCovered ==
  Held /\ ~pos.blocked =>
    /\ pos.protected
    /\ pos.op # NoOp
    /\ Broker!Accepted(pos.op)
    /\ book[pos.op].qty = pos.qty

Flagged == file # NoPosition /\ file.manual

\* Shares held with no order in flight to close them do not go unnoticed: the
\* bot sends one, or flags the position for a human, or has crashed.
NakedPositionNoticed ==
  /\ net > 0
  /\ \E s \in StopOp : stops[s].created
  /\ \A o \in Op : ~Broker!InFlight(o)
  ~> \/ net = 0
     \/ \E o \in Op : Broker!InFlight(o)
     \/ Flagged
     \/ pc = "down"

\* A position the broker has closed leaves the local book, or is flagged: no
\* automation keeps working on shares that are gone.
ClosedPositionLeaves == net = 0 ~> file = NoPosition \/ Flagged \/ pc = "down"

\* "already_applied" is read for the operation the position names
\* (recover_unresolved_exits): the quantity stored beside an exit operation
\* is a fill of that operation.
AppliedFillBelongsToCurrentExit ==
  file # NoPosition =>
    \A a \in Family :
      LET e == file.exit[a] IN
      e.op # NoOp => e.filled <= book[e.op].filled

\* "Place exactly one stop for the currently confirmed live quantity"
\* (protect_confirmed_position), each new one after its predecessor is over
\* (_reprotect_remaining_live_position): never two stops in flight.
OneLiveStop ==
  \A s, t \in StopOp : Broker!InFlight(s) /\ Broker!InFlight(t) => s = t

============================================================================
