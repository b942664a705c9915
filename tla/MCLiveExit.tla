----------------------------- MODULE MCLiveExit -----------------------------
(* Instance of LiveExit for TLC. *)
EXTENDS LiveExit, TLC

============================================================================
