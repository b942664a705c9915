------------------------------- MODULE Broker -------------------------------
(***************************************************************************)
(* The broker, Kite Connect, for the orders of one side of a position: an  *)
(* external service, modelled from how src/ uses it.  A request may be     *)
(* accepted long after its caller gave up waiting, or never; a protective  *)
(* stop (SL-M) rests until it triggers, the others are market orders; they *)
(* fill share by share and the broker may end an order at any moment.      *)
(***************************************************************************)
EXTENDS Integers

CONSTANTS
  Order,      \* broker orders, one per operation of the bot
  StopOrder,  \* those of them that are protective stops
  MaxQty,     \* largest order quantity
  Sign        \* what a filled share does to the account: 1 enters, -1 closes

VARIABLES
  book,  \* order -> what the broker holds of it
  net    \* shares of the position the account still holds

Status == {"NONE", "SENT", "LOST", "TRIGGER_PENDING", "OPEN",
           "COMPLETE", "CANCELLED", "REJECTED"}

Entry == [status : Status, qty : 0..MaxQty, filled : 0..MaxQty, cancels : Nat]

TypeOK == book \in [Order -> Entry] /\ net \in Int

Init ==
  /\ book = [o \in Order |->
               [status |-> "NONE", qty |-> 0, filled |-> 0, cancels |-> 0]]
  /\ net \in IF Sign = 1 THEN {0} ELSE 1..MaxQty

Is(o, S)    == book[o].status \in S
Accepted(o) == ~Is(o, {"NONE", "SENT", "LOST"})
Ended(o)    == Is(o, {"COMPLETE", "CANCELLED", "REJECTED"})
InFlight(o) == Is(o, {"SENT", "TRIGGER_PENDING", "OPEN"})
Left(o)     == book[o].qty - book[o].filled

Become(o, s) == book' = [book EXCEPT ![o].status = s] /\ UNCHANGED net

----------------------------------------------------------------------------
(* Requests of the bot *)

Submit(o, q) ==
  /\ Is(o, {"NONE"})
  /\ book' = [book EXCEPT ![o].status = "SENT", ![o].qty = q]
  /\ UNCHANGED net

\* A cancellation call; whether it takes effect is Cancel, at any later time.
AskCancel(o) ==
  book' = [book EXCEPT ![o].cancels = @ + 1] /\ UNCHANGED net

----------------------------------------------------------------------------
(* Steps of the broker *)

Accept(o) ==
  Is(o, {"SENT"}) /\ Become(o, IF o \in StopOrder THEN "TRIGGER_PENDING" ELSE "OPEN")

Reject(o) == Is(o, {"SENT"}) /\ Become(o, "REJECTED")

Lose(o) == Is(o, {"SENT"}) /\ Become(o, "LOST")

Trigger(o) == Is(o, {"TRIGGER_PENDING"}) /\ Become(o, "OPEN")

Fill(o) ==
  /\ Is(o, {"OPEN"})
  /\ book' = [book EXCEPT ![o].filled = @ + 1,
                          ![o].status = IF Left(o) = 1 THEN "COMPLETE" ELSE @]
  /\ net' = net + Sign

Cancel(o) == Is(o, {"TRIGGER_PENDING", "OPEN"}) /\ Become(o, "CANCELLED")

============================================================================
