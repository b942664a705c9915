SPECIFICATION Spec
CONSTANTS
  a = a
  b = b
  c = c
  Symbol = {a, b, c}
  Batches <- TwoBatches
  TradeCaps = {2, 3}
  MaxOpen = 2
  MaxStreak = 2
  LossSwitch = FALSE
  MaxLoss = 2
  Interval = 2
  Buffer = 1
  LastEntry = 5
  SquareOff = 6
  MaxResults = 3
  MaxRestarts = 1
SYMMETRY DaySymmetry
CHECK_DEADLOCK FALSE
INVARIANTS
  TypeOK
  NotReopenedInBatch
PROPERTIES
  NoEntryAfterKill
  EntriesNeedClearBook
  ScannedOnce
