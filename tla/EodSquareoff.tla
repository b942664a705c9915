---------------------------- MODULE EodSquareoff ----------------------------
(***************************************************************************)
(* The end-of-day supervisor (matmon_eod_squareoff.py): a process of its   *)
(* own that flattens, through the broker alone, what the stopped bot has   *)
(* left of one position.  It may be run a second time while the first is   *)
(* at work or after it died.  Another symbol of the same pass is here only *)
(* as what it can do to this one: end the pass with an exception.          *)
(***************************************************************************)
EXTENDS Integers, FiniteSetsExt

CONSTANTS
  Proc,      \* runs of the supervisor
  NoProc,    \* the lock is free
  Stop,      \* the protective stop that the position file names
  Leftover,  \* a closing order of the bot that the file does not name
  Exit,      \* orders of the supervisor; their number is a bound
  Quantity   \* shares of the position

ASSUME QuantityAssumption == Quantity \in Nat \ {0}
ASSUME OrderAssumption ==
  Stop # Leftover /\ Stop \notin Exit /\ Leftover \notin Exit
ASSUME ProcAssumption == NoProc \notin Proc

VARIABLES
  book, net, \* the broker
  file,      \* the position file still tracks the position
  lock,      \* the supervisor holding squareoff.lock
  pc,        \* the next step of each supervisor
  seen,      \* the quantity a supervisor is about to close
  late,      \* FINAL_DEADLINE has passed
  overlap    \* history: a quantity was read while an order other than the
             \* named stop could still change it

market == <<book, net>>
vars   == <<market, file, lock, pc, seen, late, overlap>>

Order == {Stop, Leftover} \cup Exit

Broker == INSTANCE Broker
            WITH StopOrder <- {Stop}, MaxQty <- Quantity, Sign <- -1

\* Mutant: any listed order of the closing side is still at work.
ActiveOnce(o) == Broker!Accepted(o)

\* Mutant: a resting stop is not active.
ActiveOpen(o) == Broker!Is(o, {"OPEN"})

\* The states order_is_active knows.
Active(o) == Broker!Is(o, {"TRIGGER_PENDING", "OPEN"})

Committed ==
  MapThenSumSet(Broker!Left, {o \in Order : Broker!InFlight(o)})

NoOrder == [status |-> "NONE", qty |-> 0, filled |-> 0, cancels |-> 0]

\* The bot was stopped at any step: it holds shares, with at most one closing
\* order in flight and for no more than them (ExitExposure), which the file
\* names or not.  Bound: in the minute between the two timers the broker has
\* decided on every request of the bot.
Init ==
  /\ net \in 0..Quantity
  /\ \E o \in {Stop, Leftover}, q \in 0..net,
        s \in {"NONE", "TRIGGER_PENDING", "OPEN"} :
       /\ s = "NONE" <=> q = 0
       /\ book = [x \in Order |->
                    IF x = o THEN [NoOrder EXCEPT !.status = s, !.qty = q]
                             ELSE NoOrder]
  /\ file = TRUE /\ lock = NoProc
  /\ pc = [p \in Proc |-> "off"] /\ seen = [p \in Proc |-> 0]
  /\ late = FALSE /\ overlap = FALSE

At(p, label) == pc[p] = label /\ net >= 0  \* bound: a reversal is the end
Quiet        == UNCHANGED <<market, file, late, overlap>>

\* The quantity is a local of the loop's body.
Goto(p, label) ==
  /\ pc' = [pc EXCEPT ![p] = label]
  /\ seen' = [seen EXCEPT ![p] = IF label \in {"match", "submit"} THEN @ ELSE 0]

\* The process ends, and the kernel releases its lock.
Return(p, result) == Goto(p, result) /\ lock' = NoProc

----------------------------------------------------------------------------
(* run *)

StartUnlocked(p) ==  \* mutant: no lock
  /\ At(p, "off")
  /\ lock' = p /\ Goto(p, "load")
  /\ Quiet

Start(p) ==
  /\ At(p, "off")
  /\ IF lock = NoProc THEN lock' = p /\ Goto(p, "load")
                      ELSE Goto(p, "busy") /\ UNCHANGED lock
  /\ Quiet

Load(p) ==
  /\ At(p, "load")
  /\ IF file THEN Goto(p, "top") /\ UNCHANGED lock ELSE Return(p, "nothing")
  /\ Quiet

\* The head of the loop: the deadline, then tracked_exposure.
Top(p) ==
  /\ At(p, "top")
  /\ Goto(p, IF late THEN "final" ELSE IF net = 0 THEN "clear" ELSE "orders")
  /\ UNCHANGED lock /\ Quiet

\* archive_and_clear_local_state, and return 0.
Clear(p) ==
  /\ At(p, "clear")
  /\ file' = FALSE
  /\ Return(p, "complete")
  /\ UNCHANGED <<market, late, overlap>>

FinalAlways(p) ==  \* mutant: the local state is cleared at the deadline anyway
  /\ At(p, "final")
  /\ Goto(p, "clear") /\ UNCHANGED lock
  /\ Quiet

\* After the deadline: what remains is reported with exit code 2.
Final(p) ==
  /\ At(p, "final")
  /\ IF net = 0 THEN Goto(p, "clear") /\ UNCHANGED lock ELSE Return(p, "failed")
  /\ Quiet

\* sleep(2.0), after a pass and after an exception in one.
Pause(p) == At(p, "pause") /\ Goto(p, "top") /\ UNCHANGED lock /\ Quiet

\* Any call of a pass may raise, for this symbol or for another one.
PassFails(p) ==
  /\ \E label \in {"top", "orders", "cancel", "await", "refresh", "match"} :
       At(p, label)
  /\ Goto(p, "pause")
  /\ UNCHANGED lock /\ Quiet

----------------------------------------------------------------------------
(* cancel_protective_order *)

FindStop(p) ==
  /\ At(p, "orders")
  /\ Goto(p, IF Active(Stop) THEN "cancel" ELSE "refresh")
  /\ UNCHANGED lock /\ Quiet

\* Every pass asks again.  Bound: only whether it was asked is counted.
CancelStop(p) ==
  /\ At(p, "cancel")
  /\ IF book[Stop].cancels = 0 THEN Broker!AskCancel(Stop) ELSE UNCHANGED market
  /\ Goto(p, "await")
  /\ UNCHANGED <<file, lock, late, overlap>>

\* Twenty polls; a stop that is active at the last one fails the pass.
AwaitStop(p) ==
  /\ At(p, "await") /\ ~Active(Stop)
  /\ Goto(p, "refresh")
  /\ UNCHANGED lock /\ Quiet

----------------------------------------------------------------------------
(* place_exit *)

RefreshSigned(p) ==  \* mutant: the quantity of a sale is signed
  /\ At(p, "refresh")
  /\ pc' = [pc EXCEPT ![p] = IF net = 0 THEN "pause" ELSE "match"]
  /\ seen' = [seen EXCEPT ![p] = -net]
  /\ UNCHANGED <<market, file, lock, late, overlap>>

\* "A protective stop may fill while its cancellation is processed."
Refresh(p) ==
  /\ At(p, "refresh")
  /\ pc' = [pc EXCEPT ![p] = IF net = 0 THEN "pause" ELSE "match"]
  /\ seen' = [seen EXCEPT ![p] = net]
  /\ overlap' = (overlap \/ \E o \in Order \ {Stop} : Broker!InFlight(o))
  /\ UNCHANGED <<market, file, lock, late>>

\* matching_active_exit: an active order of the closing side is retained,
\* whatever its type and quantity.
Match(p) ==
  /\ At(p, "match")
  /\ Goto(p, IF \E o \in Order : Active(o) THEN "pause" ELSE "submit")
  /\ UNCHANGED lock /\ Quiet

\* The request may raise and be accepted all the same; both ways the next
\* pass looks at the broker again.
Submit(p) ==
  /\ At(p, "submit")
  /\ \E x \in Exit : Broker!Submit(x, seen[p])
  /\ Goto(p, "pause")
  /\ UNCHANGED <<file, lock, late, overlap>>

----------------------------------------------------------------------------

Running(p) == pc[p] \notin {"off", "busy", "nothing", "complete", "failed", "down"}

Crash(p) == Running(p) /\ Return(p, "down") /\ Quiet

Deadline ==
  /\ ~late /\ late' = TRUE
  /\ UNCHANGED <<market, file, lock, pc, seen, overlap>>

\* Bound: an exit is refused or cut short while the supervisor has another.
Spare == \E x \in Exit : Broker!Is(x, {"NONE"})

BrokerMoves(o) ==
  /\ net >= 0
  /\ \/ Broker!Accept(o) \/ Broker!Trigger(o) \/ Broker!Fill(o)
     \/ (o \in Exit => Spare) /\ (Broker!Reject(o) \/ Broker!Lose(o) \/ Broker!Cancel(o))
  /\ UNCHANGED <<file, lock, pc, seen, late, overlap>>

Pass(p) == \/ Load(p) \/ Top(p) \/ Clear(p) \/ Final(p) \/ Pause(p)
           \/ FindStop(p) \/ CancelStop(p) \/ AwaitStop(p)
           \/ Refresh(p) \/ Match(p) \/ Submit(p)

Next == \/ \E p \in Proc : Start(p) \/ Pass(p) \/ PassFails(p) \/ Crash(p)
        \/ Deadline \/ \E o \in Order : BrokerMoves(o)

Spec == Init /\ [][Next]_vars

\* The loop runs, and calls do not fail for ever.  The broker decides on every
\* request, ends every market order and, once it was asked, the named stop.
FairSpec ==
  /\ Spec
  /\ WF_vars(\E p \in Proc : Pass(p))
  /\ <>[][\A p \in Proc : ~PassFails(p)]_vars
  /\ \A o \in Order :
       WF_vars(/\ o = Stop => book[Stop].cancels > 0
               /\ o # Stop => ~Broker!Is(o, {"TRIGGER_PENDING"})
               /\ BrokerMoves(o))

----------------------------------------------------------------------------
(* Properties *)

TypeOK ==
  /\ Broker!TypeOK /\ net <= Quantity
  /\ file \in BOOLEAN /\ late \in BOOLEAN /\ overlap \in BOOLEAN
  /\ lock \in Proc \cup {NoProc}
  /\ pc \in [Proc -> {"off", "busy", "load", "nothing", "top", "orders",
                      "cancel", "await", "refresh", "match", "submit", "pause",
                      "final", "clear", "complete", "failed", "down"}]
  /\ seen \in [Proc -> 0..Quantity]

\* The orders in flight never close more than the account holds: the
\* supervisor is "idempotent", however often it passes and is run.
NeverReverses == Committed <= net

\* It keeps that as long as every quantity it acts on was read while no order
\* but the named stop could change it.
NeverReversesAlone == overlap \/ NeverReverses

\* An exit is only ever at work when the named stop no longer is, whichever
\* responses are lost and however slow the cancellation: cancellation first,
\* then the quantity, then the exit.
StopEndsFirst ==
  \A x \in Exit : Broker!InFlight(x) => ~Broker!InFlight(Stop)

\* With the exception of NeverReversesAlone, the local state is cleared over a
\* flat account to which nothing can happen any more ("Broker confirms zero
\* open Matmon MIS positions"): nothing is left for a recovery to know.
ClearedMeansFlat == ~file => overlap \/ (net = 0 /\ Committed = 0)

\* A supervisor that runs flattens the account, unless the deadline passes, it
\* dies, or a resting stop that the file does not name is taken for the exit.
SquaresOff ==
  (\E p \in Proc : Running(p)) ~>
     \/ net <= 0 \/ late \/ \A p \in Proc : ~Running(p)
     \/ Broker!Is(Leftover, {"TRIGGER_PENDING"})

============================================================================
