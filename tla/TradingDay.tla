----------------------------- MODULE TradingDay -----------------------------
(***************************************************************************)
(* One trading day of the bot: the main loop that waits for a candle close *)
(* (main.py run, scheduler.py), the incremental scan that collects and     *)
(* enters candidates batch by batch while positions are checked between    *)
(* the steps (run_incremental_scan, run_full_scan,                         *)
(* cooperative_position_monitor.py), and the day's risk state              *)
(* (risk_manager.py), with crashes and restarts.                           *)
(*                                                                         *)
(* A position is only open, and blocked or not: what happens to its orders *)
(* is LiveExit.  A loop over all positions in which some checks raise or   *)
(* change nothing is a sequence of CheckHeld steps, one per position that  *)
(* changes.  Symbols and candidates are taken in any order, which includes *)
(* the watchlist's and the ranking's.  A result is one unit of profit or   *)
(* loss.  Every change of positions and day state is saved before the next *)
(* step, so one variable stands for memory and file.                       *)
(***************************************************************************)
EXTENDS Integers, Sequences, FiniteSets

CONSTANTS
  Symbol,       \* the watchlist
  Batches,      \* its micro-batches, a sequence of sets of symbols
  TradeCaps,    \* values MAX_TRADES_PER_DAY takes from one start to the next
  MaxOpen,      \* MAX_OPEN_POSITIONS
  MaxStreak,    \* MAX_CONSECUTIVE_LOSSES
  LossSwitch,   \* DAILY_LOSS_KILL_SWITCH_ENABLED
  MaxLoss,      \* the daily loss limit, in results
  Interval,     \* candle length, in clock ticks
  Buffer,       \* SCAN_BUFFER_SECONDS, in clock ticks
  LastEntry,    \* NO_ENTRY_AFTER
  SquareOff,    \* FORCE_SQUARE_OFF_TIME
  MaxResults,   \* bound: results of the day
  MaxRestarts   \* bound: starts after the first

ASSUME BatchAssumption == Batches \in Seq(SUBSET Symbol) /\ Batches # <<>>
ASSUME LimitAssumption ==
  /\ MaxStreak \in Nat \ {0} /\ MaxLoss \in Nat \ {0}
  /\ LossSwitch \in BOOLEAN /\ TradeCaps \subseteq Nat
ASSUME ClockAssumption ==
  /\ Interval \in Nat \ {0} /\ Buffer \in Nat
  /\ LastEntry \in Nat /\ SquareOff \in Nat
ASSUME BoundAssumption == MaxResults \in Nat

VARIABLES
  open,      \* open_positions: symbol -> no position, a sound or a blocked one
  pending,   \* symbols whose entry is unresolved in the order store
  day,       \* day_state.json and risk.day
  cap,       \* MAX_TRADES_PER_DAY of this start
  now,       \* the clock
  target,    \* target_scan_time
  guard,     \* scan_guard.last_scanned_candle, 0 for None
  pc,        \* where the bot is
  scan,      \* locals of run_incremental_scan and run_full_scan
  restarts,
  \* History, read by properties only:
  sent,      \* symbols an entry was sent for in this batch
  scanned,   \* the latest candle whose scan was begun, by any start of the day
  killed,    \* a limit that ends the day's entries was reached
  torn       \* the process died inside a write of day_state.json

book    == <<open, pending, day>>
timing  == <<now, target, guard>>
history == <<sent, scanned, killed, torn>>
vars    == <<book, cap, timing, pc, scan, restarts, history>>

Held    == {s \in Symbol : open[s] # "NONE"}
Blocked == \E s \in Symbol : open[s] = "BLOCKED"

----------------------------------------------------------------------------
(* The day's risk state *)

FreshDay == [trades |-> 0, pnl |-> 0, streak |-> 0, halt |-> "NONE", capAt |-> 0]

StreakReached(d) == d.streak >= MaxStreak
LossReached(d)   == LossSwitch /\ d.pnl <= -MaxLoss

\* record_trade_result: the kill switches are tested at every result, and
\* replace the reason of a halt that was there before.
Recorded(d, r) ==
  LET n == [d EXCEPT !.trades = @ + 1, !.pnl = @ + r,
                     !.streak = IF r < 0 THEN @ + 1 ELSE 0]
  IN  [n EXCEPT !.halt = IF StreakReached(n) THEN "STREAK"
                         ELSE IF LossReached(n) THEN "LOSS" ELSE @]

CanTake(d, count) ==
  /\ d.halt = "NONE"
  /\ d.trades < cap
  /\ count < MaxOpen
  /\ ~LossReached(d)

\* The state after can_take_new_trade was asked: the cap, and the loss limit
\* when a slot is free, halt the day.
Asked(d, count) ==
  IF d.halt # "NONE" THEN d
  ELSE IF d.trades >= cap THEN [d EXCEPT !.halt = "CAP", !.capAt = cap]
  ELSE IF count < MaxOpen /\ LossReached(d) THEN [d EXCEPT !.halt = "LOSS"]
  ELSE d

\* Mutant: a raised cap lifts a halt whatever its reason is.
ReconciledAnyHalt(d, c) == IF c > d.capAt /\ d.trades < c
                           THEN [d EXCEPT !.halt = "NONE"] ELSE d

\* _reconcile_obsolete_trade_cap_halt, at every start.
Reconciled(d, c) ==
  IF d.halt = "CAP" /\ c > d.capAt /\ d.trades < c
  THEN [d EXCEPT !.halt = "NONE"] ELSE d

----------------------------------------------------------------------------
(* The scheduler *)

LastClose(t) == (t \div Interval) * Interval

\* Mutant: the close that has just passed is still waited for.
NextScanTimeSame(t) == LastClose(t) + Buffer

NextScanTime(t) == LastClose(t) + Interval + Buffer

Late     == now >= SquareOff
InWindow == now <= LastEntry

----------------------------------------------------------------------------
(* Checks of open positions *)

NoScan == [batch |-> 0, candle |-> 0, blocked |-> FALSE, protected |-> {},
           todo |-> {}, candidates |-> {}, chosen |-> {}]

\* What check_position_exit, the square-off or a recovery may do to a
\* position: close it, reduce it, block or unblock it, with a result or not.
Checked(s) ==
  \E state \in {"NONE", "OK", "BLOCKED"}, r \in {-1, 0, 1} :
    /\ r # 0 => day.trades < MaxResults
    /\ open' = [open EXCEPT ![s] = state]
    /\ day' = IF r = 0 THEN day ELSE Recorded(day, r)
    /\ killed' = (killed \/ StreakReached(day') \/ LossReached(day'))
    /\ UNCHANGED <<pending, cap, timing, restarts, sent, scanned, torn>>

\* Between two steps of the wait, the scan, the square-off or the recovery.
CheckHeld(s) ==
  /\ pc \in {"start", "wait", "symbols", "rank", "squareoff"}
  /\ s \in Held
  /\ Checked(s)
  /\ UNCHANGED <<pc, scan>>

----------------------------------------------------------------------------
(* The main loop *)

Goto(l) == pc' = l /\ UNCHANGED <<book, cap, scan, restarts, history>>

\* recover_unresolved_entries: the broker's answer opens the position, or
\* shows that nothing was bought; without one the entry stays unresolved.
RecoverEntry(s) ==
  /\ pc = "start" /\ s \in pending
  /\ \E state \in {"NONE", "OK", "BLOCKED"} : open' = [open EXCEPT ![s] = state]
  /\ pending' = pending \ {s}
  /\ UNCHANGED <<day, cap, timing, pc, scan, restarts, history>>

EnterLoop == pc = "start" /\ Goto("loop") /\ guard' = 0 /\ UNCHANGED <<now, target>>

AwaitClose ==
  /\ pc = "loop" /\ ~Late
  /\ target' = NextScanTime(now)
  /\ Goto("wait") /\ UNCHANGED <<now, guard>>

WaitOver == pc = "wait" /\ Late /\ Goto("loop") /\ UNCHANGED timing

BeginSquareOff == pc = "loop" /\ Late /\ Goto("squareoff") /\ UNCHANGED timing

EndDay == pc = "squareoff" /\ Goto("ended") /\ UNCHANGED timing

\* select_scan_universe: the batch and every open position.
Universe(b) == Batches[b] \cup Held

\* run_full_scan on the next batch: the set of positions and the safety block
\* are what they are now.
BeginBatch(b, candle) ==
  /\ pc' = "symbols"
  /\ scan' = [batch |-> b, candle |-> candle, blocked |-> Blocked,
              protected |-> Held, todo |-> Universe(b),
              candidates |-> {}, chosen |-> {}]
  /\ sent' = {}

BeginScan ==
  /\ pc = "wait" /\ now >= target /\ ~Late
  /\ LET candle == LastClose(now) IN
     IF candle > guard
     THEN BeginBatch(1, candle) /\ scanned' = candle
     ELSE pc' = "loop" /\ UNCHANGED <<scan, sent, scanned>>
  /\ UNCHANGED <<book, cap, timing, restarts, killed, torn>>

----------------------------------------------------------------------------
(* One batch of a scan *)

NeverClosedInScan(s) == FALSE  \* mutant: a closed position is a free symbol

ClosedInScan(s) == s \in scan.protected /\ s \notin Held

SkipSymbol(s) ==
  /\ pc = "symbols" /\ s \in scan.todo /\ ClosedInScan(s)
  /\ scan' = [scan EXCEPT !.todo = @ \ {s}]
  /\ UNCHANGED <<book, cap, timing, pc, restarts, history>>

CheckSymbol(s) ==
  /\ pc = "symbols" /\ s \in scan.todo /\ s \in Held
  /\ scan' = [scan EXCEPT !.todo = @ \ {s}]
  /\ Checked(s)
  /\ UNCHANGED pc

\* What candles, signal, tick activity and gates may make of a symbol: a
\* candidate, or nothing.
Gated(s) == {{}, {s}}

\* A symbol without a position, of the batch.
ScreenSymbol(s) ==
  /\ pc = "symbols" /\ s \in scan.todo /\ s \notin Held /\ ~ClosedInScan(s)
  /\ LET asks == ~scan.blocked /\ InWindow
         pass == asks /\ CanTake(day, Cardinality(Held))
     IN  /\ day' = IF asks THEN Asked(day, Cardinality(Held)) ELSE day
         /\ \E found \in IF pass THEN Gated(s) ELSE {{}} :
              scan' = [scan EXCEPT !.todo = @ \ {s}, !.candidates = @ \cup found]
  /\ UNCHANGED <<open, pending, cap, timing, pc, restarts, history>>

\* Mutant: ranking begins with the first candidate.
RankEarly ==
  /\ pc = "symbols" /\ scan.candidates # {}
  /\ pc' = "rank" /\ UNCHANGED <<book, cap, timing, scan, restarts, history>>

RankCandidates ==
  /\ pc = "symbols" /\ scan.todo = {}
  /\ pc' = "rank" /\ UNCHANGED <<book, cap, timing, scan, restarts, history>>

BlockedAtStart == scan.blocked  \* mutant: the block the batch began with

LiveBlock == Blocked

\* The conditions tested again for every ranked candidate; what the order of
\* the tests leaves out of can_take_new_trade is not asked.
AsksRisk(s)   == ~ClosedInScan(s) /\ ~LiveBlock /\ InWindow
Admissible(s) == AsksRisk(s) /\ CanTake(day, Cardinality(Held))

RejectCandidate(s) ==
  /\ pc = "rank" /\ s \in scan.candidates /\ ~Admissible(s)
  /\ day' = IF AsksRisk(s) THEN Asked(day, Cardinality(Held)) ELSE day
  /\ scan' = [scan EXCEPT !.candidates = @ \ {s}]
  /\ UNCHANGED <<open, pending, cap, timing, pc, restarts, history>>

\* From here to the order no position is checked, however long a pullback is
\* waited for and ticks are confirmed.
AdmitCandidate(s) ==
  /\ pc = "rank" /\ s \in scan.candidates /\ Admissible(s)
  /\ pc' = "entry"
  /\ scan' = [scan EXCEPT !.candidates = @ \ {s}, !.chosen = {s}]
  /\ UNCHANGED <<book, cap, timing, restarts, history>>

BackToRanking == pc' = "rank" /\ scan' = [scan EXCEPT !.chosen = {}]

\* A gate (fresh price, pullback with its own look at the window and at the
\* risk, EMA distance, margin, depth) turns the candidate down, or its order
\* fails, or is refused because one of the symbol is unresolved.
DropCandidate ==
  /\ pc = "entry" /\ BackToRanking
  /\ UNCHANGED <<book, cap, timing, restarts, history>>

\* place_entry_order sends the entry; the window is not looked at again.
SendEntry(s) ==
  /\ pc = "entry" /\ s \in scan.chosen
  /\ s \notin pending
  /\ \/ \E state \in {"OK", "BLOCKED"} : /\ open' = [open EXCEPT ![s] = state]
                                         /\ UNCHANGED pending
     \/ pending' = pending \cup {s} /\ UNCHANGED open
  /\ sent' = sent \cup {s}
  /\ BackToRanking
  /\ UNCHANGED <<day, cap, timing, restarts, scanned, killed, torn>>

NextBatch ==
  /\ pc = "rank" /\ scan.candidates = {} /\ scan.batch < Len(Batches)
  /\ BeginBatch(scan.batch + 1, scan.candle)
  /\ UNCHANGED <<book, cap, timing, restarts, scanned, killed, torn>>

EndScan ==
  /\ pc = "rank" /\ scan.candidates = {} /\ scan.batch = Len(Batches)
  /\ guard' = scan.candle
  /\ pc' = "loop" /\ scan' = NoScan /\ sent' = {}
  /\ UNCHANGED <<book, cap, now, target, restarts, scanned, killed, torn>>

----------------------------------------------------------------------------
(* Time, crashes and restarts *)

Tick == /\ now < SquareOff /\ pc # "ended"
        /\ now' = now + 1
        /\ UNCHANGED <<book, cap, target, guard, pc, scan, restarts, history>>

Up == pc \notin {"down", "ended"}

Die == pc' = "down" /\ scan' = NoScan /\ sent' = {}
       /\ UNCHANGED <<pending, cap, timing, restarts, scanned>>

\* An exception of a check outside the cooperative one, or a stop of the
\* service; restarts are deliberate.
Crash == Up /\ Die /\ UNCHANGED <<open, day, killed, torn>>

\* The result was recorded and saved; the position that it closes was not.
CrashAfterResult(r) ==
  /\ pc \in {"start", "wait", "symbols", "rank", "squareoff"} /\ Held # {}
  /\ day.trades < MaxResults
  /\ day' = Recorded(day, r)
  /\ killed' = (killed \/ StreakReached(day') \/ LossReached(day'))
  /\ Die /\ UNCHANGED <<open, torn>>

\* day_state.json is rewritten in place; what is left of it loads as a new day.
CrashInsideSave ==
  /\ \/ pc \in {"start", "wait", "symbols", "rank", "squareoff"} /\ Held # {}
     \/ pc \in {"symbols", "rank"} /\ Asked(day, Cardinality(Held)) # day
  /\ day' = FreshDay /\ torn' = TRUE
  /\ Die /\ UNCHANGED <<open, killed>>

Restart ==
  /\ pc = "down" /\ restarts < MaxRestarts
  /\ restarts' = restarts + 1
  /\ \E c \in TradeCaps : cap' = c /\ day' = Reconciled(day, c)
  /\ pc' = "start"
  /\ UNCHANGED <<open, pending, timing, scan, history>>

----------------------------------------------------------------------------

Init ==
  /\ open = [s \in Symbol |-> "NONE"] /\ pending = {} /\ day = FreshDay
  /\ cap \in TradeCaps
  /\ now = 0 /\ target = 0 /\ guard = 0
  /\ pc = "start" /\ scan = NoScan /\ restarts = 0
  /\ sent = {} /\ scanned = 0 /\ killed = FALSE /\ torn = FALSE

Loop == EnterLoop \/ AwaitClose \/ WaitOver \/ BeginSquareOff \/ EndDay

Scan ==
  \/ BeginScan \/ RankCandidates \/ DropCandidate \/ NextBatch \/ EndScan
  \/ \E s \in Symbol : \/ SkipSymbol(s) \/ CheckSymbol(s) \/ ScreenSymbol(s)
                       \/ RejectCandidate(s) \/ AdmitCandidate(s)
                       \/ SendEntry(s)

Failure == \/ Crash \/ CrashInsideSave \/ Restart
           \/ \E r \in {-1, 1} : CrashAfterResult(r)

Next == \/ Loop \/ Scan \/ Tick \/ Failure
        \/ \E s \in Symbol : CheckHeld(s) \/ RecoverEntry(s)

Spec == Init /\ [][Next]_vars

----------------------------------------------------------------------------
(* Properties *)

TypeOK ==
  /\ open \in [Symbol -> {"NONE", "OK", "BLOCKED"}]
  /\ pending \subseteq Symbol
  /\ day \in [trades : 0..MaxResults, pnl : -MaxResults..MaxResults,
              streak : 0..MaxResults, halt : {"NONE", "CAP", "STREAK", "LOSS"},
              capAt : TradeCaps \cup {0}]
  /\ cap \in TradeCaps
  /\ now \in 0..SquareOff
  /\ pc \in {"start", "loop", "wait", "symbols", "rank", "entry",
            "squareoff", "ended", "down"}
  /\ scan.todo \subseteq Symbol /\ scan.candidates \subseteq Symbol
  /\ scan.chosen \subseteq Symbol
  /\ pc = "rank" => scan.todo = {}

Sends == \E s \in Symbol : s \in sent' /\ s \notin sent

\* Once the day's results reached the loss limit or the losing streak, no
\* entry is sent any more: not by candidates collected before, not after wins
\* that end the streak, not after restarts, and not because a later start
\* lifts the halt of a trade cap.  Only a torn day_state.json forgets it.
NoEntryAfterKill == [][Sends => ~killed \/ torn]_vars

\* An entry is sent only while no position is blocked and a slot is free at
\* that moment, whatever entries of the same ranking, checks and recoveries
\* have done since the batch began and the candidate was collected.
EntriesNeedClearBook == [][Sends => ~Blocked /\ Cardinality(Held) < MaxOpen]_vars

\* A symbol that had a position when the batch began is not entered by the
\* batch, also when a check closes the position meanwhile.
NotReopenedInBatch == sent \cap scan.protected = {}

\* A completed candle is scanned at most once a day, and candles in order,
\* although the guard that prevents duplicates is lost with the process.
ScannedOnce ==
  [][pc = "wait" /\ pc' = "symbols" => scan'.candle > scanned]_vars

============================================================================
