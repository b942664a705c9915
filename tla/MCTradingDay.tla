---------------------------- MODULE MCTradingDay ----------------------------
(* Instance of TradingDay for TLC. *)
EXTENDS TradingDay, TLC

CONSTANTS a, b, c

TwoBatches == <<{a, b}, {c}>>

DaySymmetry == Permutations({a, b})

============================================================================
