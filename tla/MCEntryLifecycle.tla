-------------------------- MODULE MCEntryLifecycle --------------------------
(* Instance of EntryLifecycle for TLC. *)
EXTENDS EntryLifecycle, TLC

OpSymmetry == Permutations(Op)

============================================================================
