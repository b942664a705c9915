--------------------------- MODULE MCEodSquareoff ---------------------------
(* Instance of EodSquareoff for TLC. *)
EXTENDS EodSquareoff, TLC

EodSymmetry == Permutations(Proc) \cup Permutations(Exit)

============================================================================
