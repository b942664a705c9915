---------------------------- MODULE ExitExposure ----------------------------
(***************************************************************************)
(* What the exit side of the bot promises about exposure, whatever its     *)
(* stores, retries and recoveries do: the shares committed to closing      *)
(* orders at the broker never exceed the shares held, so the account can   *)
(* never be turned from long to short (or back) by its own exits.          *)
(***************************************************************************)
EXTENDS Integers

CONSTANT Quantity  \* shares of the confirmed entry, at least one

VARIABLES
  held,      \* shares still held at the broker
  committed  \* shares that closing orders in flight may still close

vars == <<held, committed>>

Init == held = Quantity /\ committed = 0

\* A closing order is only sent when none is in flight.
Commit(q) == committed = 0 /\ q <= held /\ committed' = q /\ UNCHANGED held

\* A fill closes one share; the order's last fill ends it.
Close ==
  /\ committed > 0
  /\ held' = held - 1
  /\ committed' = committed - 1

\* The rest of an order is lost, rejected or cancelled.
Release == committed > 0 /\ committed' = 0 /\ UNCHANGED held

Next == (\E q \in 1..Quantity : Commit(q)) \/ Close \/ Release

Spec == Init /\ [][Next]_vars

----------------------------------------------------------------------------

TypeOK == held \in 0..Quantity /\ committed \in 0..Quantity

\* Exits never close more than is held (the purpose of the exact-order
\* clearance of protective_stop_exit.py and of the exit family lock).
NeverOverExits == committed <= held

============================================================================
