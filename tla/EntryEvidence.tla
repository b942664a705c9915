--------------------------- MODULE EntryEvidence ---------------------------
(***************************************************************************)
(* The tick evidence of an entry.  When the direction step of a symbol     *)
(* passes, at T0, a capture thread freezes the first ticks received from   *)
(* T0 on (matmon_post_di_freeze.py); the main thread goes through the rest *)
(* of the gates, perhaps waits for a pullback and then starts over with a  *)
(* new T0 (matmon_pullback_wait.py, restart_matmon_confirmation), and at   *)
(* last confirms with the frozen ticks and one newer quote                 *)
(* (evaluate_matmon_quote, matmon_final_quote_guard.py).  The WebSocket    *)
(* thread stamps and appends ticks all the time (ws_ticker.py).            *)
(*                                                                         *)
(* One symbol.  A tick is its time of receipt; one without a valid depth   *)
(* is passed over by every reader and left out.  What prices decide        *)
(* (drift, bands, clean path, spread) is a choice.  The ring buffer holds  *)
(* minutes of ticks and a window lasts seconds, so nothing a capture needs *)
(* is evicted.                                                             *)
(***************************************************************************)
EXTENDS Integers, Sequences

CONSTANTS
  Required,     \* ticks a confirmation needs (3)
  Window,       \* seconds of a capture, MATMON_QUOTE_WINDOW_SECONDS
  WaitLimit,    \* DEFAULT_WAIT_TIMEOUT_SECONDS of the consumer
  MaxAge,       \* age at which a quote is stale
  MinUpdates,   \* minimum_updates of the activity gate
  Lookback,     \* lookback_seconds of the activity gate
  MaxSignals,   \* bound: direction steps that pass
  MaxTicks,     \* bound: ticks received
  MaxTime       \* bound: the clock

ASSUME EvidenceAssumption == Required \in Nat \ {0} /\ Window \in Nat

NoTime == -1

VARIABLES
  time,
  ticks,      \* TickBuffer of the symbol
  arriving,   \* ticks of one callback, stamped and not yet appended
  passedAt,   \* _MATMON_DI_PASSED_AT of the symbol
  entry,      \* _entries of the symbol, an index of captures, 0 for none
  captures,   \* every _FrozenEntry made, with the locals of its thread
  at,         \* where the main thread is with the symbol
  wait,       \* since when it waits
  evidence,   \* the ticks it confirms with
  signals,
  signalAt    \* history: the last direction step or accepted pullback

feed     == <<ticks, arriving>>
main     == <<passedAt, entry, at, wait, evidence, signals, signalAt>>
evidenceVars == <<time, feed, captures, main>>

\* The ticks of rows received at a time in T, in their order.
Within(rows, T) ==
  LET kept[n \in 0..Len(rows)] ==
        IF n = 0 THEN <<>>
        ELSE IF rows[n] \in T THEN Append(kept[n - 1], rows[n]) ELSE kept[n - 1]
  IN  kept[Len(rows)]

Since(rows, t0) == Within(rows, t0..time)
Newest          == ticks[Len(ticks)]

\* _tick_within_window
InWindow(rows, t0) == Within(rows, t0..t0 + Window)

----------------------------------------------------------------------------
(* The WebSocket thread *)

\* Bound: what the feed and the clock do after the last signal is over is of
\* no interest.
Watching == at # "entered" /\ (at = "idle" => signals < MaxSignals)

\* _handle_ticks reads the clock once for a callback and appends one by one.
Receive ==
  /\ arriving = <<>> /\ Watching
  /\ \E n \in 1..2 : /\ Len(ticks) + n <= MaxTicks
                     /\ arriving' = [i \in 1..n |-> time]
  /\ UNCHANGED <<time, ticks, captures, main>>

AppendTick ==
  /\ arriving # <<>>
  /\ ticks' = Append(ticks, Head(arriving))
  /\ arriving' = Tail(arriving)
  /\ UNCHANGED <<time, captures, main>>

----------------------------------------------------------------------------
(* The capture threads, one per entry *)

\* Mutant: the latest ticks of the window.
FrozenLast(rows) == SubSeq(rows, Len(rows) - Required + 1, Len(rows))

Frozen(rows) == SubSeq(rows, 1, Required)

\* A poll that sees enough ticks freezes the first ones; the others sleep on.
Freeze(i) ==
  LET rows == InWindow(ticks, captures[i].t0) IN
  /\ captures[i].state = "PENDING"
  /\ Len(rows) >= Required
  /\ captures' = [captures EXCEPT ![i].state = "CAPTURED", ![i].ticks = Frozen(rows)]
  /\ UNCHANGED <<time, feed, main>>

\* The clock is read after the ticks: one that arrives in between is lost to
\* a capture that gives up.
GiveUp(i) ==
  /\ captures[i].state = "PENDING" /\ captures[i].short
  /\ time >= captures[i].t0 + Window
  /\ captures' = [captures EXCEPT ![i].state = "INSUFFICIENT"]
  /\ UNCHANGED <<time, feed, main>>

----------------------------------------------------------------------------
(* The main thread *)

\* The new entry replaces the symbol's old one, whose thread runs on.  short:
\* the first poll may see too few ticks.
StartCapture(t0) ==
  /\ captures' = Append(captures,
       [t0 |-> t0, state |-> "PENDING", ticks |-> <<>>,
        short |-> Len(InWindow(ticks, t0)) < Required])
  /\ entry' = Len(captures')

\* The direction step of the symbol, at most once per scan.
Pass ==
  /\ at = "idle" /\ signals < MaxSignals /\ time > signalAt
  /\ passedAt' = time /\ signalAt' = time
  /\ signals' = signals + 1
  /\ at' = "activity"
  /\ UNCHANGED <<time, feed, captures, entry, wait, evidence>>

\* The candidate is turned down; what it left in the maps stays there.
Reject ==
  /\ at \notin {"idle", "waiting"}
  /\ at' = "idle" /\ evidence' = <<>> /\ wait' = NoTime
  /\ UNCHANGED <<time, feed, captures, passedAt, entry, signals, signalAt>>

\* evaluate_tick_activity, then maybe_start_capture
BeginCapture ==
  /\ at = "activity"
  /\ Len(Since(ticks, time - Lookback)) >= MinUpdates
  /\ time - Newest <= MaxAge
  /\ StartCapture(passedAt)
  /\ at' = "candidate"
  /\ UNCHANGED <<time, feed, passedAt, wait, evidence, signals, signalAt>>

AwaitPullback ==
  /\ at = "candidate"
  /\ at' = "pullback" /\ wait' = time
  /\ UNCHANGED <<time, feed, captures, passedAt, entry, evidence, signals, signalAt>>

RestartAtFirst(t) == passedAt  \* mutant: the first T0 is kept

RestartAt(t) == t

\* A quote received during the wait is in the band: the evidence so far is
\* given up and a new window begins.
Pullback ==
  /\ at = "pullback"
  /\ ticks # <<>> /\ Newest >= wait /\ time - Newest <= MaxAge
  /\ StartCapture(RestartAt(time))
  /\ passedAt' = RestartAt(time) /\ signalAt' = time
  /\ at' = "recovered" /\ wait' = NoTime
  /\ UNCHANGED <<time, feed, evidence, signals>>

\* evaluate_matmon_quote takes T0, pop_frozen_evidence the entry made for it.
Confirm ==
  /\ at \in {"candidate", "recovered"}
  /\ passedAt' = NoTime
  /\ IF entry # 0 /\ captures[entry].t0 = passedAt
       THEN at' = "waiting" /\ wait' = time
       ELSE at' = "idle" /\ UNCHANGED wait
  /\ UNCHANGED <<time, feed, captures, entry, evidence, signals, signalAt>>

\* _evaluate_from_frozen: the first ticks of a capture, or no evidence.
Evidence(c) == IF c.state = "CAPTURED" THEN c.ticks ELSE <<>>

PopEvidence ==
  /\ at = "waiting" /\ captures[entry].state # "PENDING"
  /\ entry' = 0 /\ wait' = NoTime
  /\ evidence' = Evidence(captures[entry])
  /\ at' = IF evidence' = <<>> THEN "idle" ELSE "confirming"
  /\ UNCHANGED <<time, feed, captures, passedAt, signals, signalAt>>

WaitTimeout ==
  /\ at = "waiting" /\ captures[entry].state = "PENDING"
  /\ time >= wait + WaitLimit
  /\ at' = "idle" /\ wait' = NoTime
  /\ UNCHANGED <<time, feed, captures, passedAt, entry, evidence, signals, signalAt>>

\* evaluate_final_quote: a quote newer than the evidence, and fresh.
Accept ==
  /\ at = "confirming"
  /\ Newest > evidence[Required] /\ time - Newest <= MaxAge
  /\ at' = "entered"
  /\ UNCHANGED <<time, feed, captures, passedAt, entry, wait, evidence, signals, signalAt>>

----------------------------------------------------------------------------

PassTime == /\ time < MaxTime /\ Watching
            /\ time' = time + 1
            /\ UNCHANGED <<feed, captures, main>>

EvidenceInit ==
  /\ time = 0 /\ ticks = <<>> /\ arriving = <<>> /\ captures = <<>>
  /\ passedAt = NoTime /\ entry = 0 /\ at = "idle" /\ wait = NoTime
  /\ evidence = <<>> /\ signals = 0 /\ signalAt = NoTime

EvidenceNext ==
  \/ Receive \/ AppendTick \/ PassTime
  \/ \E i \in DOMAIN captures : Freeze(i) \/ GiveUp(i)
  \/ Pass \/ Reject \/ BeginCapture \/ AwaitPullback \/ Pullback
  \/ Confirm \/ PopEvidence \/ WaitTimeout \/ Accept

EvidenceSpec == EvidenceInit /\ [][EvidenceNext]_evidenceVars

----------------------------------------------------------------------------
(* Properties *)

\* What the main thread confirms with, after any delay, timeout or restart,
\* is the first valid ticks that were received within the window of its
\* capture, none left out: not by a poll between two appends of a callback,
\* nor by polls that come late.
FirstThree ==
  at \in {"confirming", "entered"} =>
    \E i \in DOMAIN captures :
      LET rows == InWindow(ticks \o arriving, captures[i].t0) IN
      Len(rows) >= Required /\ evidence = SubSeq(rows, 1, Required)

\* A confirmation rests on ticks received after the latest direction step or
\* the pullback that restarted it, in the order of receipt; what an earlier
\* signal captured, or its thread still captures, is never used.
EvidenceIsCurrent ==
  at \in {"confirming", "entered"} =>
    \A i \in DOMAIN evidence : evidence[i] >= signalAt

============================================================================
