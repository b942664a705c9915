--------------------------- MODULE TradingDayProofs ---------------------------
(***************************************************************************)
(* Proofs about the trading day, for every watchlist, batching, limit,     *)
(* clock and number of results and starts, with and without the daily loss *)
(* kill switch.                                                            *)
(*                                                                         *)
(* The argument for the kill switches: results are the only thing that     *)
(* moves the streak and the loss, and a result that reaches a limit sets   *)
(* the halt in the same write; the two writers that set another halt, or   *)
(* lift one, look at the halt first.  So a reached limit is always a       *)
(* killing halt, and a candidate on its way to an order was admitted       *)
(* without any halt and nothing is booked until the order.                 *)
(***************************************************************************)
EXTENDS TradingDay, TLAPS

Halts   == {"NONE", "CAP", "STREAK", "LOSS"}
Killing == {"STREAK", "LOSS"}

DayShape == [trades : Nat, pnl : Int, streak : Nat, halt : Halts,
             capAt : TradeCaps \cup {0}]

\* A day in which every result counts once, and whose reached limits are set.
GoodDay(d) ==
  /\ d \in DayShape
  /\ d.trades <= MaxResults
  /\ -d.trades <= d.pnl /\ d.pnl <= d.trades /\ d.streak <= d.trades
  /\ StreakReached(d) \/ LossReached(d) => d.halt \in Killing

ScanShape == [batch : Nat, candle : Int, blocked : BOOLEAN,
              protected : SUBSET Symbol, todo : SUBSET Symbol,
              candidates : SUBSET Symbol, chosen : SUBSET Symbol]

Places == {"start", "loop", "wait", "symbols", "rank", "entry",
           "squareoff", "ended", "down"}

Shape ==
  /\ open \in [Symbol -> {"NONE", "OK", "BLOCKED"}]
  /\ pending \subseteq Symbol
  /\ cap \in TradeCaps
  /\ now \in 0..SquareOff /\ target \in Int
  /\ pc \in Places
  /\ scan \in ScanShape
  /\ pc \in {"rank", "entry"} => scan.todo = {}
  /\ sent \subseteq Symbol
  /\ killed \in BOOLEAN /\ torn \in BOOLEAN

KillRemembered == killed /\ ~torn => day.halt \in Killing

\* A candidate on its way to an order finds what it was admitted with.
StillAdmitted ==
  pc = "entry" => /\ day.halt = "NONE"
                  /\ ~Blocked /\ Cardinality(Held) < MaxOpen

\* What the batch may enter had no position when the batch began.
Unprotected ==
  (scan.candidates \cup scan.chosen \cup sent) \cap scan.protected = {}

\* The candle scanned last has closed, and a wait is for a later one.
Timed ==
  /\ scanned \in Int /\ scanned <= LastClose(now)
  /\ pc = "wait" => target >= scanned + Interval

DayInv == Shape /\ GoodDay(day) /\ KillRemembered /\ StillAdmitted /\ Unprotected /\ Timed

----------------------------------------------------------------------------
(* The day's risk state *)

LEMMA FreshIsGood == GoodDay(FreshDay)
BY LimitAssumption, BoundAssumption DEF GoodDay, DayShape, FreshDay, Halts, StreakReached, LossReached

LEMMA RecordedIsGood ==
  ASSUME NEW d, GoodDay(d), d.trades < MaxResults, NEW r \in {-1, 1}
  PROVE  /\ GoodDay(Recorded(d, r))
         /\ d.halt \in Killing => Recorded(d, r).halt \in Killing
<1> DEFINE t == d.trades + 1
           p == d.pnl + r
           k == IF r < 0 THEN d.streak + 1 ELSE 0
           n == [d EXCEPT !.trades = t, !.pnl = p, !.streak = k]
           h == IF StreakReached(n) THEN "STREAK"
                ELSE IF LossReached(n) THEN "LOSS" ELSE n.halt
           m == [n EXCEPT !.halt = h]
<1>1. d \in DayShape /\ d.halt \in Halts
  BY DEF GoodDay, DayShape
<1>2. /\ d.trades \in Nat /\ d.pnl \in Int /\ d.streak \in Nat
      /\ d.trades <= MaxResults /\ d.streak <= d.trades
      /\ -d.trades <= d.pnl /\ d.pnl <= d.trades
  BY DEF GoodDay, DayShape
<1>3. /\ t \in Nat /\ p \in Int /\ k \in Nat
      /\ t <= MaxResults /\ -t <= p /\ p <= t /\ k <= t
  BY <1>2, BoundAssumption
<1>4. Recorded(d, r) = m
  BY DEF Recorded
<1> HIDE DEF t, p, k
<1>5. n.pnl = p /\ n.streak = k /\ n.halt = d.halt
  BY <1>1, <1>3 DEF DayShape
<1>6. /\ h \in Halts
      /\ k >= MaxStreak \/ (LossSwitch /\ p <= -MaxLoss) => h \in Killing
      /\ d.halt \in Killing => h \in Killing
  BY <1>1, <1>5 DEF Halts, Killing, StreakReached, LossReached
<1> HIDE DEF h
<1>7. /\ m \in DayShape
      /\ m.trades = t /\ m.pnl = p /\ m.streak = k /\ m.halt = h
  BY <1>1, <1>3, <1>6 DEF DayShape
<1> HIDE DEF n, m
<1> QED
  BY <1>3, <1>4, <1>6, <1>7 DEF GoodDay, StreakReached, LossReached

\* What changes the halt alone, and never away from a killing one.
LEMMA HaltKeepsGood ==
  ASSUME NEW d, GoodDay(d), NEW h \in Halts, NEW c \in TradeCaps \cup {0},
         d.halt \in Killing => h \in Killing
  PROVE  GoodDay([d EXCEPT !.halt = h, !.capAt = c]) /\ GoodDay([d EXCEPT !.halt = h])
BY DEF GoodDay, DayShape, StreakReached, LossReached

LEMMA AskedIsGood ==
  ASSUME GoodDay(day), cap \in TradeCaps, NEW count
  PROVE  /\ GoodDay(Asked(day, count))
         /\ day.halt \in Killing => Asked(day, count) = day
<1>1. CASE day.halt # "NONE"
  BY <1>1 DEF Asked
<1>2. CASE day.halt = "NONE"
  <2>1. day.halt \notin Killing
    BY <1>2 DEF Killing
  <2>2. /\ GoodDay([day EXCEPT !.halt = "CAP", !.capAt = cap])
        /\ GoodDay([day EXCEPT !.halt = "LOSS"])
    BY <2>1, HaltKeepsGood DEF Halts
  <2> QED
    BY <2>1, <2>2 DEF Asked
<1> QED
  BY <1>1, <1>2

LEMMA ReconciledIsGood ==
  ASSUME GoodDay(day), NEW c
  PROVE  /\ GoodDay(Reconciled(day, c))
         /\ day.halt \in Killing => Reconciled(day, c) = day
<1>1. CASE day.halt = "CAP"
  <2>1. day.halt \notin Killing
    BY <1>1 DEF Killing
  <2>2. GoodDay([day EXCEPT !.halt = "NONE"])
    BY <2>1, HaltKeepsGood DEF Halts, Killing
  <2> QED
    BY <2>1, <2>2 DEF Reconciled
<1>2. CASE day.halt # "CAP"
  BY <1>2 DEF Reconciled
<1> QED
  BY <1>1, <1>2

----------------------------------------------------------------------------
(* The clock *)

LEMMA CloseBounds ==
  ASSUME NEW t \in Int
  PROVE  LastClose(t) \in Int /\ LastClose(t) <= t /\ t < LastClose(t) + Interval
BY ClockAssumption DEF LastClose

LEMMA CloseGrows ==
  ASSUME NEW t \in Int
  PROVE  LastClose(t) <= LastClose(t + 1)
BY ClockAssumption DEF LastClose

----------------------------------------------------------------------------
(* The initial state *)

LEMMA NoScanShape == NoScan \in ScanShape /\ NoScan.todo = {}
BY DEF NoScan, ScanShape

LEMMA InitInv == Init => DayInv
<1> SUFFICES ASSUME Init PROVE DayInv
  OBVIOUS
<1> USE DEF Init
<1>1. Shape
  <2>1. NoScan \in ScanShape
    BY NoScanShape
  <2>2. now \in 0..SquareOff /\ target \in Int
    BY ClockAssumption
  <2> QED
    BY <2>1, <2>2 DEF Shape, Places
<1>2. GoodDay(day) /\ KillRemembered
  BY FreshIsGood DEF KillRemembered
<1>3. StillAdmitted /\ Unprotected
  BY DEF StillAdmitted, Unprotected, NoScan
<1>4. LastClose(0) = 0
  BY ClockAssumption DEF LastClose
<1>5. Timed
  BY <1>4 DEF Timed
<1> QED
  BY <1>1, <1>2, <1>3, <1>5 DEF DayInv

----------------------------------------------------------------------------
(* The risk state, step by step *)

RiskInv == GoodDay(day) /\ KillRemembered

LEMMA ResultKeepsRisk ==
  ASSUME DayInv, NEW r \in {-1, 1}, day.trades < MaxResults,
         day' = Recorded(day, r), torn' = torn,
         killed' = (killed \/ StreakReached(day') \/ LossReached(day'))
  PROVE  RiskInv'
<1>1. /\ GoodDay(day')
      /\ day.halt \in Killing => day'.halt \in Killing
  BY RecordedIsGood DEF DayInv
<1>2. StreakReached(day') \/ LossReached(day') => day'.halt \in Killing
  BY <1>1 DEF GoodDay
<1>3. KillRemembered'
  BY <1>1, <1>2 DEF DayInv, KillRemembered
<1> QED
  BY <1>1, <1>3 DEF RiskInv

LEMMA SameKeepsRisk ==
  ASSUME DayInv, UNCHANGED <<day, killed, torn>>
  PROVE  RiskInv'
BY DEF DayInv, RiskInv, KillRemembered

LEMMA CheckedKeepsRisk ==
  ASSUME DayInv, NEW s \in Symbol, Checked(s)
  PROVE  RiskInv' /\ open' \in [Symbol -> {"NONE", "OK", "BLOCKED"}]
<1>1. PICK state \in {"NONE", "OK", "BLOCKED"}, r \in {-1, 0, 1} :
        /\ r # 0 => day.trades < MaxResults
        /\ open' = [open EXCEPT ![s] = state]
        /\ day' = IF r = 0 THEN day ELSE Recorded(day, r)
        /\ killed' = (killed \/ StreakReached(day') \/ LossReached(day'))
        /\ torn' = torn
  BY DEF Checked
<1>2. open' \in [Symbol -> {"NONE", "OK", "BLOCKED"}]
  BY <1>1 DEF DayInv, Shape
<1>3. CASE r = 0
  <2>1. day' = day /\ GoodDay(day)
    BY <1>1, <1>3 DEF DayInv
  <2>2. StreakReached(day') \/ LossReached(day') => day'.halt \in Killing
    BY <2>1 DEF GoodDay
  <2> QED
    BY <1>1, <1>2, <2>1, <2>2 DEF DayInv, RiskInv, KillRemembered
<1>4. CASE r # 0
  BY <1>1, <1>2, <1>4, ResultKeepsRisk
<1> QED
  BY <1>3, <1>4

LEMMA AskedKeepsRisk ==
  ASSUME DayInv, UNCHANGED <<killed, torn>>, NEW asks \in BOOLEAN, NEW count,
         day' = IF asks THEN Asked(day, count) ELSE day
  PROVE  RiskInv'
<1>1. /\ GoodDay(day')
      /\ day.halt \in Killing => day' = day
  BY AskedIsGood DEF DayInv, Shape
<1> QED
  BY <1>1 DEF DayInv, RiskInv, KillRemembered

LEMMA RestartKeepsRisk ==
  ASSUME DayInv, Restart
  PROVE  RiskInv'
<1>1. PICK c \in TradeCaps : day' = Reconciled(day, c)
  BY DEF Restart
<1>2. /\ GoodDay(day')
      /\ day.halt \in Killing => day' = day
  BY <1>1, ReconciledIsGood DEF DayInv
<1> QED
  BY <1>2 DEF DayInv, RiskInv, KillRemembered, Restart, history

LEMMA TornKeepsRisk ==
  ASSUME DayInv, CrashInsideSave
  PROVE  RiskInv'
BY FreshIsGood DEF RiskInv, KillRemembered, CrashInsideSave

LEMMA RiskStep ==
  ASSUME DayInv, [Next]_vars
  PROVE  RiskInv'
<1> USE DEF book, history
<1>1. CASE UNCHANGED vars
  BY <1>1, SameKeepsRisk DEF vars
<1>2. CASE Loop
  BY <1>2, SameKeepsRisk
     DEF Loop, EnterLoop, AwaitClose, WaitOver, BeginSquareOff, EndDay, Goto
<1>3. CASE Scan
  <2>1. CASE BeginScan \/ RankCandidates \/ DropCandidate \/ NextBatch \/ EndScan
    BY <2>1, SameKeepsRisk
       DEF BeginScan, RankCandidates, DropCandidate, NextBatch, EndScan
  <2>2. ASSUME NEW s \in Symbol, SkipSymbol(s) \/ AdmitCandidate(s) \/ SendEntry(s)
        PROVE  RiskInv'
    BY <2>2, SameKeepsRisk DEF SkipSymbol, AdmitCandidate, SendEntry
  <2>3. ASSUME NEW s \in Symbol, CheckSymbol(s)
        PROVE  RiskInv'
    BY <2>3, CheckedKeepsRisk DEF CheckSymbol
  <2>4. ASSUME NEW s \in Symbol, ScreenSymbol(s)
        PROVE  RiskInv'
    BY <2>4, AskedKeepsRisk DEF ScreenSymbol
  <2>5. ASSUME NEW s \in Symbol, RejectCandidate(s)
        PROVE  RiskInv'
    BY <2>5, AskedKeepsRisk DEF RejectCandidate
  <2> QED
    BY <1>3, <2>1, <2>2, <2>3, <2>4, <2>5 DEF Scan
<1>4. CASE Tick
  BY <1>4, SameKeepsRisk DEF Tick
<1>5. CASE Failure
  <2>1. CASE Crash
    BY <2>1, SameKeepsRisk DEF Crash
  <2>2. ASSUME NEW r \in {-1, 1}, CrashAfterResult(r)
        PROVE  RiskInv'
    BY <2>2, ResultKeepsRisk DEF CrashAfterResult
  <2> QED
    BY <1>5, <2>1, <2>2, TornKeepsRisk, RestartKeepsRisk DEF Failure
<1>6. ASSUME NEW s \in Symbol, CheckHeld(s)
      PROVE  RiskInv'
  BY <1>6, CheckedKeepsRisk DEF CheckHeld
<1>7. ASSUME NEW s \in Symbol, RecoverEntry(s)
      PROVE  RiskInv'
  BY <1>7, SameKeepsRisk DEF RecoverEntry
<1> QED
  BY <1>1, <1>2, <1>3, <1>4, <1>5, <1>6, <1>7 DEF Next

----------------------------------------------------------------------------
(* Shape, step by step *)

LEMMA BatchShape ==
  ASSUME Shape, NEW b \in DOMAIN Batches, NEW candle \in Int, BeginBatch(b, candle)
  PROVE  /\ scan' \in ScanShape /\ sent' = {} /\ pc' = "symbols"
         /\ scan'.candle = candle
<1>1. b \in Nat /\ Batches[b] \subseteq Symbol
  BY BatchAssumption
<1>2. Blocked \in BOOLEAN /\ Held \subseteq Symbol
  BY DEF Blocked, Held
<1>3. Universe(b) \subseteq Symbol
  BY <1>1, <1>2 DEF Universe
<1> HIDE DEF Blocked, Held, Universe
<1> QED
  BY <1>1, <1>2, <1>3 DEF BeginBatch, ScanShape

LEMMA ShapeStep ==
  ASSUME DayInv, [Next]_vars
  PROVE  Shape'
<1> USE DEF book, history, timing, Places, Shape
<1>0. Shape /\ now \in Int /\ scan.batch \in Nat /\ scan.candle \in Int
  BY ClockAssumption DEF DayInv, ScanShape
<1>1. CASE UNCHANGED vars
  BY <1>0, <1>1 DEF vars
<1>2. CASE Loop
  <2>1. NextScanTime(now) \in Int
    BY <1>0, CloseBounds, ClockAssumption DEF NextScanTime
  <2> QED
    BY <1>0, <1>2, <2>1
       DEF Loop, EnterLoop, AwaitClose, WaitOver, BeginSquareOff, EndDay, Goto
<1>3. CASE Scan
  <2>1. CASE BeginScan
    <3>1. LastClose(now) \in Int
      BY <1>0, CloseBounds
    <3>2. 1 \in DOMAIN Batches
      BY BatchAssumption
    <3> QED
      BY <1>0, <2>1, <3>1, <3>2, BatchShape DEF BeginScan
  <2>2. CASE RankCandidates
    BY <1>0, <2>2 DEF RankCandidates
  <2>3. CASE DropCandidate
    BY <1>0, <2>3 DEF DropCandidate, BackToRanking, ScanShape
  <2>4. CASE NextBatch
    <3>1. scan.batch + 1 \in DOMAIN Batches
      BY <1>0, <2>4, BatchAssumption DEF NextBatch
    <3> QED
      BY <1>0, <2>4, <3>1, BatchShape DEF NextBatch
  <2>5. CASE EndScan
    BY <1>0, <2>5, NoScanShape DEF EndScan
  <2>6. ASSUME NEW s \in Symbol, SkipSymbol(s)
        PROVE  Shape'
    BY <1>0, <2>6 DEF SkipSymbol, ScanShape
  <2>7. ASSUME NEW s \in Symbol, CheckSymbol(s)
        PROVE  Shape'
    BY <1>0, <2>7, CheckedKeepsRisk DEF CheckSymbol, Checked, ScanShape
  <2>8. ASSUME NEW s \in Symbol, ScreenSymbol(s)
        PROVE  Shape'
    <3>1. PICK found \in SUBSET Symbol :
            scan' = [scan EXCEPT !.todo = @ \ {s}, !.candidates = @ \cup found]
      BY <2>8 DEF ScreenSymbol, Gated
    <3>2. scan' \in ScanShape
      BY <1>0, <3>1 DEF ScanShape
    <3> QED
      BY <1>0, <2>8, <3>2 DEF ScreenSymbol
  <2>9. ASSUME NEW s \in Symbol, RejectCandidate(s)
        PROVE  Shape'
    BY <1>0, <2>9 DEF RejectCandidate, ScanShape
  <2>10. ASSUME NEW s \in Symbol, AdmitCandidate(s)
         PROVE  Shape'
    BY <1>0, <2>10 DEF AdmitCandidate, ScanShape
  <2>11. ASSUME NEW s \in Symbol, SendEntry(s)
         PROVE  Shape'
    BY <1>0, <2>11 DEF SendEntry, BackToRanking, ScanShape
  <2> QED
    BY <1>3, <2>1, <2>2, <2>3, <2>4, <2>5, <2>6, <2>7, <2>8, <2>9, <2>10, <2>11
       DEF Scan
<1>4. CASE Tick
  BY <1>0, <1>4, ClockAssumption DEF Tick
<1>5. CASE Failure
  <2>1. killed' \in BOOLEAN
    BY <1>0, <1>5
       DEF Failure, Crash, CrashAfterResult, CrashInsideSave, Restart, Die
  <2> QED
    BY <1>0, <1>5, <2>1, NoScanShape
       DEF Failure, Crash, CrashAfterResult, CrashInsideSave, Restart, Die
<1>6. ASSUME NEW s \in Symbol, CheckHeld(s)
      PROVE  Shape'
  BY <1>0, <1>6, CheckedKeepsRisk DEF CheckHeld, Checked
<1>7. ASSUME NEW s \in Symbol, RecoverEntry(s)
      PROVE  Shape'
  BY <1>0, <1>7 DEF RecoverEntry
<1> QED
  BY <1>1, <1>2, <1>3, <1>4, <1>5, <1>6, <1>7 DEF Next

----------------------------------------------------------------------------
(* What a candidate was admitted with, step by step *)

\* Only an admission leads to "entry"; from there nothing but the order and
\* the end of the process touches the positions and the day.
LEMMA AdmittedStep ==
  ASSUME DayInv, [Next]_vars
  PROVE  StillAdmitted'
<1> USE DEF book, history
<1>1. CASE pc' # "entry"
  BY <1>1 DEF StillAdmitted
<1>2. CASE pc' = "entry" /\ pc = "entry"
  <2>1. UNCHANGED <<open, day>>
    BY <1>2 DEF Next, vars, Loop, EnterLoop, AwaitClose, WaitOver, BeginSquareOff,
         EndDay, Goto, Scan, BeginScan, RankCandidates, DropCandidate, NextBatch,
         EndScan, SkipSymbol, CheckSymbol, ScreenSymbol, RejectCandidate,
         AdmitCandidate, SendEntry, BackToRanking, Tick, Failure, Crash,
         CrashAfterResult, CrashInsideSave, Restart, Die, CheckHeld, RecoverEntry
  <2> QED
    BY <1>2, <2>1 DEF DayInv, StillAdmitted, Blocked, Held
<1>3. CASE pc' = "entry" /\ pc # "entry"
  <2>1. PICK s \in Symbol : AdmitCandidate(s)
    BY <1>3 DEF Next, vars, Loop, EnterLoop, AwaitClose, WaitOver, BeginSquareOff,
         EndDay, Goto, Scan, BeginScan, BeginBatch, RankCandidates, DropCandidate,
         NextBatch, EndScan, SkipSymbol, CheckSymbol, ScreenSymbol, RejectCandidate,
         SendEntry, BackToRanking, Tick, Failure, Crash, CrashAfterResult,
         CrashInsideSave, Restart, Die, CheckHeld, RecoverEntry
  <2>2. /\ day.halt = "NONE" /\ ~Blocked /\ Cardinality(Held) < MaxOpen
        /\ UNCHANGED <<open, day>>
    BY <2>1 DEF AdmitCandidate, Admissible, AsksRisk, LiveBlock, CanTake
  <2> QED
    BY <2>2 DEF StillAdmitted, Blocked, Held
<1> QED
  BY <1>1, <1>2, <1>3

----------------------------------------------------------------------------
(* The symbols a batch may enter, step by step *)

LEMMA NothingToEnter ==
  ASSUME scan'.candidates = {}, scan'.chosen = {}, sent' = {}
  PROVE  Unprotected'
BY DEF Unprotected

\* Symbols move from the candidates to the chosen and from there to the sent.
LEMMA NothingNewToEnter ==
  ASSUME DayInv, scan'.protected = scan.protected,
         scan'.candidates \cup scan'.chosen \cup sent'
           \subseteq scan.candidates \cup scan.chosen \cup sent
  PROVE  Unprotected'
BY DEF DayInv, Unprotected

LEMMA UnprotectedStep ==
  ASSUME DayInv, [Next]_vars
  PROVE  Unprotected'
<1> USE DEF book, history
<1>0. scan \in ScanShape
  BY DEF DayInv, Shape
<1>1. CASE UNCHANGED <<scan, sent>>
  BY <1>1, NothingNewToEnter
<1>2. CASE BeginScan \/ NextBatch
  BY <1>2, NothingToEnter, NothingNewToEnter DEF BeginScan, NextBatch, BeginBatch
<1>3. CASE EndScan \/ Crash \/ CrashInsideSave \/ \E r \in {-1, 1} : CrashAfterResult(r)
  BY <1>3, NothingToEnter
     DEF EndScan, Crash, CrashInsideSave, CrashAfterResult, Die, NoScan
<1>4. CASE DropCandidate
  BY <1>0, <1>4, NothingNewToEnter DEF DropCandidate, BackToRanking, ScanShape
<1>5. ASSUME NEW s \in Symbol, SkipSymbol(s) \/ CheckSymbol(s) \/ RejectCandidate(s)
      PROVE  Unprotected'
  BY <1>0, <1>5, NothingNewToEnter
     DEF SkipSymbol, CheckSymbol, Checked, RejectCandidate, ScanShape
<1>6. ASSUME NEW s \in Symbol, AdmitCandidate(s)
      PROVE  Unprotected'
  BY <1>0, <1>6, NothingNewToEnter DEF AdmitCandidate, ScanShape
<1>7. ASSUME NEW s \in Symbol, SendEntry(s)
      PROVE  Unprotected'
  BY <1>0, <1>7, NothingNewToEnter DEF SendEntry, BackToRanking, ScanShape
<1>8. ASSUME NEW s \in Symbol, ScreenSymbol(s)
      PROVE  Unprotected'
  <2>1. PICK found \in {{}, {s}} :
          scan' = [scan EXCEPT !.todo = @ \ {s}, !.candidates = @ \cup found]
    BY <1>8 DEF ScreenSymbol, Gated
  <2>2. s \notin scan.protected /\ sent' = sent
    BY <1>8 DEF ScreenSymbol, ClosedInScan
  <2>3. /\ scan'.protected = scan.protected /\ scan'.chosen = scan.chosen
        /\ scan'.candidates = scan.candidates \cup found
    BY <1>0, <2>1 DEF ScanShape
  <2> QED
    BY <2>2, <2>3 DEF DayInv, Unprotected
<1> QED
  BY <1>1, <1>2, <1>3, <1>4, <1>5, <1>6, <1>7, <1>8
     DEF Next, vars, Loop, EnterLoop, AwaitClose, WaitOver, BeginSquareOff, EndDay,
         Goto, Scan, RankCandidates, Tick, Failure, Restart, CheckHeld, Checked,
         RecoverEntry

----------------------------------------------------------------------------
(* The candles, step by step *)

LEMMA TimedStep ==
  ASSUME DayInv, [Next]_vars
  PROVE  Timed'
<1> USE DEF book, history, timing
<1>0. /\ now \in Int /\ target \in Int /\ scanned \in Int
      /\ scanned <= LastClose(now) /\ LastClose(now) \in Int
      /\ pc = "wait" => target >= scanned + Interval
  BY ClockAssumption, CloseBounds DEF DayInv, Shape, Timed
<1>1. CASE UNCHANGED <<now, target, scanned>> /\ (pc' = "wait" => pc = "wait")
  BY <1>0, <1>1 DEF Timed, LastClose
<1>2. CASE Tick
  BY <1>0, <1>2, CloseBounds, CloseGrows DEF Tick, Timed
<1>3. CASE AwaitClose
  BY <1>0, <1>3, ClockAssumption DEF AwaitClose, Goto, Timed, NextScanTime, LastClose
<1>4. CASE BeginScan
  BY <1>0, <1>4 DEF BeginScan, BeginBatch, Timed, LastClose
<1> QED
  BY <1>1, <1>2, <1>3, <1>4
     DEF Next, vars, Loop, EnterLoop, WaitOver, BeginSquareOff, EndDay, Goto, Scan,
         RankCandidates, DropCandidate, NextBatch, BeginBatch, EndScan, SkipSymbol,
         CheckSymbol, Checked, ScreenSymbol, RejectCandidate, AdmitCandidate,
         SendEntry, BackToRanking, Failure, Crash, CrashAfterResult,
         CrashInsideSave, Restart, Die, CheckHeld, RecoverEntry

----------------------------------------------------------------------------
(* The theorems *)

\* Positions, day, limits and the locals of a scan are well-formed, and the
\* counters of the day stay within the results it had.
THEOREM InvHolds == Spec => []DayInv
<1>1. Init => DayInv
  BY InitInv
<1>2. DayInv /\ [Next]_vars => DayInv'
  BY ShapeStep, RiskStep, AdmittedStep, UnprotectedStep, TimedStep DEF DayInv, RiskInv
<1> QED
  BY <1>1, <1>2, PTL DEF Spec

THEOREM TypeCorrect == Spec => []TypeOK
<1>1. DayInv => TypeOK
  BY BoundAssumption
     DEF DayInv, Shape, TypeOK, GoodDay, DayShape, Halts, Places, ScanShape
<1> QED
  BY <1>1, InvHolds, PTL

\* Only an order in "entry" sends.
LEMMA SendsFromEntry ==
  ASSUME [Next]_vars, Sends
  PROVE  \E s \in Symbol : SendEntry(s)
BY DEF Sends, Next, vars, history, Loop, EnterLoop, AwaitClose, WaitOver,
     BeginSquareOff, EndDay, Goto, Scan, BeginScan, BeginBatch, RankCandidates,
     DropCandidate, NextBatch, EndScan, SkipSymbol, CheckSymbol, Checked,
     ScreenSymbol, RejectCandidate, AdmitCandidate, Tick, Failure, Crash,
     CrashAfterResult, CrashInsideSave, Restart, Die, CheckHeld, RecoverEntry

\* After the losing streak or the loss limit no entry is sent, whatever was
\* collected before and however often the bot starts again, unless a crash
\* tore day_state.json.
THEOREM KillIsFinal == Spec => NoEntryAfterKill
<1>1. DayInv /\ [Next]_vars => [Sends => ~killed \/ torn]_vars
  <2> SUFFICES ASSUME DayInv, [Next]_vars, Sends PROVE ~killed \/ torn
    OBVIOUS
  <2>1. pc = "entry"
    BY SendsFromEntry DEF SendEntry
  <2> QED
    BY <2>1 DEF DayInv, StillAdmitted, KillRemembered, Killing
<1> QED
  BY <1>1, InvHolds, PTL DEF Spec, NoEntryAfterKill

\* An entry finds no blocked position and a free slot at the moment it is
\* sent, not only when its candidate was collected or the batch began.
THEOREM BookIsClear == Spec => EntriesNeedClearBook
<1>1. DayInv /\ [Next]_vars => [Sends => ~Blocked /\ Cardinality(Held) < MaxOpen]_vars
  <2> SUFFICES ASSUME DayInv, [Next]_vars, Sends
               PROVE  ~Blocked /\ Cardinality(Held) < MaxOpen
    OBVIOUS
  <2>1. pc = "entry"
    BY SendsFromEntry DEF SendEntry
  <2> QED
    BY <2>1 DEF DayInv, StillAdmitted
<1> QED
  BY <1>1, InvHolds, PTL DEF Spec, EntriesNeedClearBook

\* A batch enters no symbol that had a position when it began.
THEOREM NoReopening == Spec => []NotReopenedInBatch
<1>1. DayInv => NotReopenedInBatch
  BY DEF DayInv, Unprotected, NotReopenedInBatch
<1> QED
  BY <1>1, InvHolds, PTL

\* Every scan of a day is of a later candle than all scans before, those of
\* earlier starts included, for every candle length and buffer.
THEOREM CandlesInOrder == Spec => ScannedOnce
<1>1. DayInv /\ [Next]_vars => [pc = "wait" /\ pc' = "symbols" => scan'.candle > scanned]_vars
  <2> SUFFICES ASSUME DayInv, [Next]_vars, pc = "wait", pc' = "symbols"
               PROVE  scan'.candle > scanned
    OBVIOUS
  <2>1. BeginScan
    BY DEF Next, vars, Loop, EnterLoop, AwaitClose, WaitOver, BeginSquareOff,
         EndDay, Goto, Scan, RankCandidates, DropCandidate, NextBatch, EndScan,
         SkipSymbol, CheckSymbol, ScreenSymbol, RejectCandidate, AdmitCandidate,
         SendEntry, BackToRanking, Tick, Failure, Crash, CrashAfterResult,
         CrashInsideSave, Restart, Die, CheckHeld, RecoverEntry
  <2>2. /\ now \in Int /\ target \in Int /\ scanned \in Int
        /\ target >= scanned + Interval /\ now >= target
    BY <2>1, ClockAssumption DEF DayInv, Shape, Timed, BeginScan
  <2>3. LastClose(now) > scanned
    BY <2>2, CloseBounds, ClockAssumption
  <2>4. scan'.candle = LastClose(now)
    BY <2>1 DEF BeginScan, BeginBatch
  <2> QED
    BY <2>3, <2>4
<1> QED
  BY <1>1, InvHolds, PTL DEF Spec, ScannedOnce

===============================================================================
