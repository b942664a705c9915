SPECIFICATION MarketSpec
CONSTANTS
  Symbol = {a, b}
  Pool = {w1, w2}
  Main = main
  Thread = {w1, w2, main}
  Interval = 2
  CompletionBuffer = 1
  ScanBuffer = 2
  MaxCalls = 2
  Period = 2
  MaxRetries = 2
  LastTime = 8
  Required = 3
  Window = 2
  WaitLimit = 3
  MaxAge = 1
  MinUpdates = 1
  Lookback = 3
  MaxSignals = 2
  MaxTicks = 4
  MaxTime = 5
SYMMETRY PoolSymmetry
CHECK_DEADLOCK FALSE
INVARIANTS
  RateKept
  HistoryWhole
  NoCandleTwice
  FirstThree
  EvidenceIsCurrent
