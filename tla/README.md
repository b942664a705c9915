# A verification project for the kite trading bot

The bot trades Indian equities intraday through Zerodha's Kite Connect. It scans
a watchlist, buys or sells one position at a time per symbol, protects every
confirmed position by a stop order held at the broker, exits by market orders,
and squares everything off before the exchange closes. What can lose money here
is not the strategy but the bookkeeping around it: an order whose response was
lost, a stop that fills while it is being cancelled, a crash between two writes.
This project models that bookkeeping in TLA+, checks it with TLC and proves parts
of it with TLAPS. Paths below are relative to `src/`.

## 1. Inventory

### The parts, their state and their operations

| part | code | state | operations |
| --- | --- | --- | --- |
| protective-stop store | `protective_stop_store.py` | `protective_stop_state.json`: one record per stop operation (quantity, order id, confirmed and applied fill, cancel reservation, exit request, resolution) | create intent, attach order id, update verification, request exit coordination, reserve cancel, mark fill applied, update fill details, mark resolved |
| pending-order store | `pending_order_store.py` | `pending_orders.json`: one record per ENTRY, EXIT or FORCE_EXIT operation | create intent, attach order id, update verification, mark entry fill applied, mark resolved |
| protective-stop engine | `protective_stop.py` | none | place a stop, find one by its tag, verify it, recover an unresolved one |
| exit coordination | `protective_stop_exit.py` | none | inspect the stop, cancel it at most once, issue the exact-quantity clearance an exit needs |
| entry protection | `entry_protection.py` | none | build a position record, protect it, apply the result of its stop |
| executor | `executor.py` | none | place an entry (tagged), a normal exit, a forced exit (untagged) |
| order verification | `order_verification.py` | none | poll an order's history until it is terminal or the time is up |
| position store | `position_store.py` | `open_positions.json` | load, atomic replace |
| hybrid exit plan | `hybrid_exit.py` | three fields of a position | sell half at 1R (the scalp), protect and keep the rest (the runner) until 2R |
| main loop | `main.py` | `open_positions` in memory | recover at start, check each position, scan for entries, square off |
| risk manager | `risk_manager.py` | `day_state.json`: results, profit, losing streak, halt and its reason | record a result, answer whether a new trade may be taken (and halt when not), lift an obsolete cap at a start |
| end-of-day supervisor | `matmon_eod_squareoff.py` | none; a second process | flatten whatever the broker still holds after the bot was stopped |
| preflight, launcher | `matmon_live_preflight.py`, `matmon_safety.py`, `matmon_live_launcher.py` | none | refuse a start unless the account is flat |
| incremental scan | `main.py` (`run_incremental_scan`, `run_full_scan`) | candidates, protected symbols and the safety block of the batch in progress | collect candidates over a batch, rank them, enter them one by one |
| scheduler, cooperative monitor | `scheduler.py`, `cooperative_position_monitor.py` | last scanned candle | align scans to candles, check positions in the middle of a scan |
| rate limiter, candle cache, prefetch | `api_rate_limiter.py`, `candle_cache.py`, `matmon_scan_prefetch.py` | a window of call times; a dictionary of frames | shared by up to three prefetch threads, and by the main thread after them |
| tick feed, post-DI freeze | `ws_ticker.py`, `ws_integration.py`, `matmon_post_di_freeze.py` | locked ring buffers; the time of the last direction step; frozen tick evidence | WebSocket callbacks, a capture thread per entry, a consumer |
| candle engine | `candle_engine.py`, `candle_provider.py` | candles built from ticks | off unless a flag is set; aggregates |
| entry gates, strategy, indicators, ranking | many | almost none | floating-point predicates on prices |
| dashboards, reports, observers | many | output files | read only |

### How they interact

`main.run()` is one thread. It owns `open_positions` and calls everything else
synchronously. Every order starts as an *intent* in one of the two stores, written
before the broker is called; the broker's order id is attached after it answers;
what the broker says about the order is written by *update verification*; and
*mark resolved* comes last, after the position file was saved. On a start the
bot reads the position file and walks through all unresolved operations. The
two stores take a file lock around each operation, so each operation is atomic;
nothing makes two of them, or one of them and a save of the position file, atomic
together. Positions are also checked *inside* a scan, between any two symbols or
candidates, so a scan works on positions, limits and blocks that may have changed since
it looked. Two kinds of threads run beside the main one: a pool that fetches
candles at the start of a scan, and one capture thread per entry that freezes ticks which the
WebSocket thread appends. The broker is asynchronous to all of this: an order can be accepted after the
request timed out, a stop can trigger at any moment, a cancellation can take
effect later or never, and a history request can fail or come back empty.

### What is hard

* a stop that fills, wholly or in part, while it is being cancelled for an exit;
* an exit request that raises although the broker accepted it: exits carry no tag, so
  it can never be found again;
* a crash between any two of: intent, request, attachment, verification, P&L
  record, save of the position, resolution;
* an answer worse than an earlier one (an empty history reads as fill 0);
* an entry whose fill grows, or is only seen at the next start, while its first shares
  are already protected, sold or closed;
* two readings of the broker that do not belong to the same moment;
* the same position passing through several orders: stop, scalp, runner's stop,
  runner's exit, forced exit; quantities and operation ids of one of them
  read as another's;
* what a scan read when its batch began, or when a candidate was collected, and uses
  when the order is sent;
* a limit reached in one place that every later place has to respect, across wins and restarts;
* a late or failed fetch of candles, which must lead neither to a second decision on the
  same candle nor to a hole in the history;
* evidence captured for one signal, read for the next;
* something that must happen: no share held without an order, a flag or a human.

PROJECT.json lists these as hazards at their lines, with the properties that
would notice them, or the reason why none does yet.

### What makes each part correct

* Stores: one unresolved stop per instrument, one unresolved operation per
  instrument and family (an exit and a forced exit are one family); an applied fill
  within the confirmed one; nothing recovery relies on is ever taken back.
* Exit coordination: never two closing orders in flight for one position; a
  cancellation at most once; an exit only for what is left.
* Position and file: shares held are never fewer in the books than at the
  broker; equal when all operations are resolved; every fill enters P&L once.
* Entry protection: automation unblocked only over a stop of the exact quantity.
* Entries: never two entry orders of a symbol in flight; a fill that is in no book is
  always one recovery looks at; recovery books a fill once.
* Supervisor: no order for shares that another order is closing; the local state is
  cleared over a flat account only.
* Risk: no entry after a losing streak or loss limit; a block, a taken slot and a position
  closed meanwhile are seen by the entry that is about to be sent.
* Scheduler and frames: a candle is scanned once a day, a symbol evaluated on it once; frames have no
  holes; no window holds more requests' slots than the broker allows.
* Freeze: a confirmation rests on the first ticks after the latest signal, and no others.
* Monitor: a naked position is acted on or flagged; a closed one leaves the book.

## 2. Modules

| module | models | kind |
| --- | --- | --- |
| `ProtectiveStopStore` | the stop store: one action per operation | component |
| `PendingOrderStore` | the order store: one action per operation | component |
| `Broker` | Kite Connect for the orders of one side of a position (`Sign` says which) | external |
| `LiveExit` | stop, exit, square-off, crash and recovery of one position; composes the three above | composition |
| `EntryLifecycle` | an entry from its intent to its protected position, and its recovery; composes the order store and the broker | composition |
| `EodSquareoff` | the end-of-day supervisor over the broker | composition |
| `ExitExposure` | what the exit side promises about exposure | abstract specification |
| `TradingDay` | main loop, scheduler, incremental scan, cooperative checks and the day's risk state, with crashes | composition |
| `RateLimiter` | the rolling window of requests | component |
| `ScanFrames` | candle cache, prefetch pool and the main thread's own fetches over the limiter and the broker's history | composition |
| `EntryEvidence` | WebSocket thread, capture threads and the main thread over the ticks of a symbol | composition |
| `StoreConstants` | constants and assumptions both stores share | component |
| `StoresProofs`, `PendingOrderStoreProofs`, `LiveExitProofs`, `EntryLifecycleProofs`, `EodSquareoffProofs`, `TradingDayProofs`, `ScanFramesProofs`, `EntryEvidenceProofs` | theorems | proofs |
| `MCStores`, `MCMarket` | two models that share no state side by side: a behaviour moves one and leaves the other as it began | model checking |
| other `MC...` | instances for TLC: symmetry sets, sequences a cfg cannot write | model checking |

### The stores

`stops` and `orders` are functions from operations to records; `created = FALSE`
stands for an operation that is not in the file. A record keeps the
fields some decision depends on. Timestamps, prices and notes are dropped; an
average price becomes the flag `priced`. An operation that raises in the code
is an action that is not enabled; where a caller does something with the exception, that is
modelled in the caller (`Raise` in `LiveExit`). An operation that returns early without a
write is a stuttering step. Store operations are atomic since each holds the
store's lock from its read to its `os.replace`.

### LiveExit

One live position from its confirmed entry on. The model starts where
`protect_confirmed_position` is about to place the first stop: the
position has been saved with `protective_stop_state = "PENDING"`. `pc` is the next step of the
bot's thread, `call` the locals of the call in progress:

| pc | code |
| --- | --- |
| `protect`, `submitStop`, `attachStop`, `verifyStop`, `stopResult` | `protect_confirmed_position`, `place_protective_stop`, `apply_protective_stop_result` |
| `idle` | between two checks of the position in `run()` |
| `apply`, `bookStopFill`, `saveStopFill`, `resolveStop` | `_apply_confirmed_protective_stop_fill` |
| `decide` | `check_position_exit` with the live price |
| `request`, `coordinate`, `reserveCancel`, `cancelStop`, `clear` | `coordinate_protective_stop_for_exit`, `_prepare_protective_stop_for_exit` |
| `place`, `submitExit`, `attachExit`, `verifyExit` | `_place_exit_order` |
| `result`, `saveExit`, `finalize` | the result in `check_position_exit`, `apply_force_exit_result` and the two recoveries, `_finalize_live_exit` |
| `reprotect`, `saveReprotection` | `_reprotect_remaining_live_position` |
| `recoverStops`, `recoverExits` | the recovery part of `run()` |
| `block` | every refusal that sets the manual flag |
| `down`, `ended` | crashed; the day is over |

A step ends at each durable write and each request to the broker, so that
`Crash` and the broker's moves fall between any two. Reading an answer and
recording it are one step: nothing of the bot happens between them, and a broker move
between them is the same as that move after the step.

The price is not modelled: `DecideExit` may find any reason to exit, or none. Kept of
the reasons is what the code distinguishes, the scalp of the hybrid
plan (`SCALP`) from all the others (`FULL`).

Points where the model takes a decision a reader may want to check:

* **Restart.** `deploy/systemd/matmon-live.service` has `Restart=no` and another unit stops
  the service at 15:04 at whatever step it is in, hence `Crash`. A
  restart is made by hand. Preflight demands a flat account before a launch, `python
  main.py` does not, so the model allows a restart over a position.
* **Exceptions.** The stop store refuses a confirmed fill below the applied one by raising.
  That happens when an answer is unreadable (`UNKNOWN` with fill 0) after a
  partial fill was applied. A scan catches the exception per position; the position loop,
  the square-off and the recovery do not, and the process dies. `Raise` allows both.
* **Answers.** A history request may be unreadable at any time, so every verification may
  answer `UNKNOWN`. An exit that is over may still be reported as pending when
  the time was up; one that is open is never reported as done.
* **Cancellation.** The request (`AskCancel`) only counts. Its effect is a step of the
  broker, later or never.
* **Square-off.** `late` models `past_square_off()`; once set, `SquareOff` forces an exit, and
  the bot ends afterwards. A position whose stop does not come to an end is left to
  the human and to the supervisor.
* **Unreachable branches** are left out where another part of the model shows
  why: a stop fill larger than the position (identity check
  `quantity + applied = requested`), an exit fill above the order's quantity, a
  price of zero with a fill by a readable answer, an unresolved stop found by `create_intent` while the
  position has none, a clearance for another order than the one just built.

`ExposureSpec` is `ExitExposure!Spec` under `held <- net`, `committed <-` the shares the
orders in flight may still fill. A submitted order counts as in flight from
the moment of the request, since the broker may accept it after its response was
lost.

### EntryLifecycle

The entries of one symbol. `pc` follows the bot's thread as in `LiveExit`:

| pc | code |
| --- | --- |
| `idle` | between two scans; `CreateEntryIntent` is `place_entry_order` up to the intent |
| `submit`, `attach`, `verify`, `resolve` | the rest of `place_entry_order`, `reconcile_entry_submission`, `verify_order_execution` |
| `book`, `markApplied`, `protect`, `saveProtection` | `run_full_scan` after a successful entry |
| `recover`, `apply`, `markRecovered`, `settle` | the loop of `recover_unresolved_entries`; `call.todo` are the entries it has not looked at yet |
| `down` | crashed or stopped |
| `failed` | the recovery raised: nothing on the startup path catches it |
| `refused` | unresolved entries of a previous day: the start is refused |

What follows the entry is in `LiveExit`. Of it this module keeps only the effect on
what an entry reads: `ExitShares` takes shares out of account and books in one step, and
leaves the rest without a stop. Protection is likewise one step with three outcomes (no plan,
an active stop, a stop that is not active); its own intermediate crashes are
`LiveExit`'s. The gates, the sizing and the ranking before the order choose whether and
what to buy; the model buys `Quantity` shares whenever the code's guards allow it.

`NewDay` happens while the bot is down: intraday positions are squared off by the
broker, its orders expire, and a position file of another day loads as empty. Bound: no
protective stop is left over from the day before.

Two points a reader may want to check. `verify_order_execution` that gets no readable history reports
`UNKNOWN` with fill 0, and `update_order_verification` of the order store takes that even after a larger
fill; the stop store would refuse. And a resolved entry is not verified again
by recovery: the stored answer is used.

### EodSquareoff

`matmon_eod_squareoff.py` for one tracked position: each `pc` label is one request to
the broker or one step of the file or the lock. The initial states are what the stopped bot can
leave: by `ExitExposure`, which `LiveExit` implements, at most one closing order in flight and for
no more shares than are held, named by the position file as its stop or not. Bound: requests of
the bot are decided in the minute between the two systemd timers. The second
process is the second run that the lock is there for. A reversed account is not
followed further: the code would then buy back.

### TradingDay

The day as the main loop sees it. `pc` is where `run()` is:

| pc | code |
| --- | --- |
| `start` | recovery, before the loop; `RecoverEntry` is `recover_unresolved_entries` |
| `loop`, `wait` | the top of the loop; the wait for `target_scan_time` with its position checks |
| `symbols` | `run_full_scan` over the symbols of a batch: check a position, or screen for a candidate |
| `rank` | the ranked candidates of the batch |
| `entry` | from the admission of a candidate to its order: price, pullback wait, confirmation, depth |
| `squareoff`, `ended`, `down` | the square-off, the end of the day, no process |

A position is open or not, blocked or not; its orders are `LiveExit`'s matter. What strategy and
gates decide is a choice (`Gated`, `DropCandidate`). `CheckHeld` may happen at any step where the code may
check positions, and does to a position whatever a check can; `entry` is not one of these
places, since `run_full_scan` does not call the cooperative check from the admission of a candidate to
its order, although a pullback may be waited for half a minute there. `Recorded`, `CanTake`,
`Asked` and `Reconciled` are `risk_manager.py`; a result is one unit. `can_take_new_trade` changes
the state it is asked about, and it is asked only as far as the `continue`s before it let the scan come
(`AsksRisk`). A crash may fall anywhere, between a result and the save of its position
(`CrashAfterResult`) and inside the in-place write of `day_state.json` (`CrashInsideSave`).

Worth knowing from writing it down, and left as the code has it:

* `within_trading_window` is tested before the pullback wait and the confirmation, so an entry can be sent
  some time after `NO_ENTRY_AFTER`; only a pullback looks at the clock once more.
* The protected symbols are those of the batch. A symbol closed during one batch may be entered by the
  next one of the same scan, where the comment at `main.py:394` says "the same scan". The watchlist has each symbol once,
  so this takes an open position that `select_scan_universe` adds to every batch's universe.
* The trade cap counts results, not entries: with several positions open more entries than the cap can be
  sent. Entries found by recovery may exceed `MAX_OPEN_POSITIONS`.
* A scan that takes longer than a candle, or a start within the buffer after a close, skips a candle,
  which the docstring of `ScanGuard` excludes; a late wake-up scans the newest candle without its buffer. The
  other branch of the guard (an already scanned candle) is never taken, since the wait is always for a later close.

### RateLimiter, ScanFrames

`wait()` is four actions because the clock moves between them: take the lock and read the clock,
drop a call that left the window, reserve, sleep and read the clock again. All are under the lock. `ScanFrames`
extends the limiter; `task` is what each thread is doing:

| stage | code |
| --- | --- |
| `limit`, `request` | `fetch_candles`: the limiter, then the request, up to `max_retries` times |
| `entry` | the main thread between the trend frame and the entry frame |
| `idle` | no `get` in progress |

A frame is the set of its candles, numbered from the start of the history. The broker publishes candles in order and late at
will; `Answer` cuts off those that `trim_incomplete_candles` drops. All pool tasks use
the time the scan was begun with, the main thread the time of its own call. `Break` is an exception
outside the retries, which leaves no result, so that the main thread fetches by itself. `Merged` is a
union because `_merge` keeps one row per time.

`NoCandleTwice` is about one process. After a restart the cache is empty and the first scan takes whatever is the newest
candle; with a broker that is late this may be one the process before has judged.
The limiter bounds slots; requests follow their slots outside the lock.

### EntryEvidence

One symbol. `at` is where the main thread is with it: `activity` (the tick gate), `candidate`, `pullback`,
`recovered` (a pullback was accepted), `waiting` (for the capture), `confirming`, `entered`. A tick is the
time of its receipt: drift, bands and clean path are choices. One callback of the feed stamps all its
ticks with one reading of the clock and appends them one by one, so that a poll may fall in between.
Every entry of `_entries` ever made is kept in `captures`, since its thread goes on after the entry was replaced or
the consumer timed out. `short` says that the first poll could find too few ticks; a capture gives up only after
such a poll. The comparison of T0 in `pop_frozen_evidence` is in `Confirm`; no state
reached makes it fail, because a candidate's capture always has the T0 that is taken for it.
The confirmation that is delayed in paper mode is not modelled.

## 3. Runs

| run | instance | what it shows |
| --- | --- | --- |
| `Stores` | 2 operations, 2 instruments, 2 order ids, quantity 2 (1 for orders) | the invariants of both stores under every sequence of calls, also ones `main.py` does not make |
| `LiveExitPlain` | 3 shares, 1 stop, 2 exits, 2 restarts | all the safety of a plain position, crashes anywhere, the refinement of `ExitExposure`, and that no position is naked or stale in silence |
| `LiveExitHybrid` | 2 shares, 3 stops, 3 exits, no crash | scalp and runner: reprotection, two exits after one another, square-off of the runner |
| `TradingDay` | 3 symbols in 2 batches, 2 slots, 3 results, streak of 2, trade caps 2 and 3, candles of 2 ticks, 1 restart | halts that last, entries over a clear book, no reopening in a batch, each candle once |
| `Market` | 2 symbols, 2 pool threads and the main one, 2 calls per 2 ticks, 2 attempts, 3 candles complete enough to scan; 2 signals, 4 ticks | rate, frames and judgements; evidence of the latest signal |
| `EntryLifecycle` | 2 entries of 3 shares, 3 restarts | no second order, no forgotten share, recovery exact and alive, crashes and day changes anywhere |
| `EodSquareoff` | 2 shares, 2 runs of the supervisor, 2 exits | cancel, read, close in this order; the file cleared over a flat account; flat in the end |
| `StaleExitFill`, `ReprotectTwice`, `PnlTwice`, `PhantomEntry`, `EodReversal` | 2 shares | the findings of section 6 |

Bounds. Operations: a plain position has one stop in its life; one exit can be lost
or end short, so a second one is what shows whether a retry is safe. When all
exit operations are used up the bot cannot create another and `NoExit` (no price, or no
decision to exit) is its only step; `RetryLeft` keeps the broker from ending
the last exit short, since liveness would then fail for the bound alone. The scalp needs a stop and
an exit, the runner the same, and one more of each leaves room for
a forced exit. Quantity: 3 allows a stop to fill one share, an exit another, and still
leave one; 2 is the least the hybrid plan splits. Restarts: 2 lets the recovery itself crash and
be recovered. `LiveExit` takes a new operation id with `OneOf`: any unused
one will do, so one stands for all and no symmetry is declared (its run checks liveness, which symmetry would not allow). The
runs of stores, entries, day and market check safety only and use permutations.

In `EntryLifecycle` a second entry shows what an earlier one leaves behind; three shares let a
fill grow twice; three restarts let recovery crash and let another day begin in between. In
`EodSquareoff` the second exit is the retry; `Spare` keeps the broker from refusing or cutting
short the last one, since the supervisor would have sent another.

In `TradingDay` two caps let a start raise the cap; two batches and a symbol in the second let a scan go on
after a close; a streak of 2 in 3 results can be reached, and a win can follow it; two candle closes lie
before the last entry time, so that scans of different starts can meet. Its run has `DAILY_LOSS_KILL_SWITCH_ENABLED` off, which is the
launcher's value; the theorem covers both. In `Market` the window of 2 calls is full whenever the third thread
asks, four closes fall into the time, and candle 1 to 3 can be missed, late or fetched twice. Two signals are what one needs for an
older capture to meet a newer one; four ticks are one more than a capture takes, so that the
first three and the last three differ.

`CHECK_DEADLOCK FALSE` is used for `EntryLifecycle` (entries and restarts used up),
`EodSquareoff` (both runs have returned), `TradingDay` (the day is over) and `Market` (the clock has
run out), which really stop. In `LiveExit` the bot may only stop by going down, and
`Terminated` is the explicit stuttering step for that; any other stuck state is
reported by TLC.

The hybrid run has no restart because a crash in one window breaks `OneLiveStop`
and with it exposure (section 6); with the finding repaired the same run should be repeated with restarts.

### Fairness

`FairSpec` assumes weak fairness of the bot's own steps: the main loop is a
`while` with a sleep, and every wait in it has a timeout. It assumes weak fairness of the square-off
once it is late: `run()` tests the clock at every turn. Of the broker it assumes
strong fairness of one thing: a check that reads the stop's history gets
a readable answer infinitely often if it asks infinitely often. A history that is unreadable
for ever would have every check end in an exception that is logged and swallowed, and
that is indeed a position nobody flags. Nothing is assumed of fills, triggers, acceptances or
cancellations, and none of crashes or restarts: both liveness properties allow for a
process that is down.

`EodSquareoff!FairSpec` assumes that the loop runs (weak fairness of a pass), that from some
moment on calls do not raise any more, and that the broker decides on requests, ends
market orders and ends the named stop once it was asked to. Every wait of the loop is bounded
by polls and sleeps. An order that rests for ever is not excluded: a stop the file does not name is
retained as the exit, and `SquaresOff` says so.

## 4. Properties

Every property has a comment at its definition. The ones that carry the weight:

* `OneClosingOrder` - at most one of stop, exit, forced exit can still fill,
  counting requests with lost responses.
* `ExposureSpec` - the same, seen as a refinement: an order is sent only over
  shares held and with nothing in flight; hence `NeverOverExits`.
* `NeverUnderstated`, `SettledMeansAgreed` - the reservation protocol between store,
  P&L and position file: a crash may overstate the books, never understate them, and
  when recovery has resolved everything they are exact.
* `StopFillsBookedOnce`, `ExitFillsBookedOnce` - P&L of a stop at most once, crashes included;
  of an exit only without crashes (section 6).
* `CancelAtMostOnce`, `UnblockedMeansCovered`.
* `OneEntryInFlight`, `UnappliedIsRecovered`, `NoShareForgotten` - the entry protocol: intent
  before order, position before mark, mark before resolution.
* `NothingInventedInOrder`, `OpensFromFlat`, `StartupSurvives` - recovery is exact, with one exception:
  a history variable `early` records that a position was closed before its entry was
  resolved, which is the finding PhantomEntry. `UnflaggedMeansCovered` has no exception.
* `NeverReversesAlone`, `StopEndsFirst`, `ClearedMeansFlat`, `SquaresOff` - the supervisor; the history
  variable `overlap` records that a quantity was read while another order could still
  change it, which is the finding EodReversal.
* `NoEntryAfterKill` - the end of the day's entries is final: candidates collected before, wins, restarts and
  a raised trade cap do not undo it. The history variable `torn` is its one exception: a crash inside the write of
  `day_state.json` leaves a file that loads as a new day.
* `EntriesNeedClearBook`, `NotReopenedInBatch` - what was true when the batch began or the candidate
  was collected is true, or was tested again, when the order is sent.
* `ScannedOnce`, `NoCandleTwice`, `HistoryWhole`, `RateKept` - time: no candle decides twice, across restarts for the
  scan and across failed and repeated fetches for a symbol; no hole; no burst.
* `FirstThree`, `EvidenceIsCurrent` - the tick evidence is complete and of the latest signal.
* `NakedPositionNoticed`, `ClosedPositionLeaves` - liveness.

Every property of a passing run has a mutant in PROJECT.json: a definition of the model
and a plausible bug in its place, written next to it, under which TLC
finds the property violated.

## 5. Proofs

| theorem | for every | argument |
| --- | --- | --- |
| `StoresProofs!TypeCorrect`, `OneUnresolved`, `AppliedBounded` | set of operations, instruments, order ids, quantity bound | one inductive invariant: `TypeOK`, the uniqueness and the bound together |
| `StoresProofs!RecoveryRemembers` | same | action property, from `TypeOK` |
| `PendingOrderStoreProofs!TypeCorrect`, `OneUnresolved`, `RecoveryRemembers` | same | same |
| `StoresProofs!OneUnresolvedFamily` | same | the theorem of the order store, instantiated in the composition of the two |
| `LiveExitProofs!CancelledOnce` | set of stops and exits, quantity, restarts, both plans | a cancellation request is preceded by a durable reservation that nothing takes back; every other step leaves requests and reservations alone |
| `LiveExitProofs!TypeCorrect`, `NeverTwoClosingOrders`, `BooksNeverUnderstate`, `ResolvedMeansAgreed`, `StopProfitOnce`, `UnblockedIsCovered` | set of stops and exits, quantity, restarts; without the hybrid plan | one inductive invariant, `FullInv` |
| `LiveExitProofs!ExitsKeepExposure` | same | from `FullInv`: every step is a step of `ExitExposure` or stutters |
| `LiveExitProofs!NeverTurned` | same | `TypeOK /\ NeverOverExits` is inductive for `ExitExposure`, and the bot implements it |
| `LiveExitProofs!ExitProfitOnce` | set of stops and exits, quantity, both plans; until the first restart | an inductive invariant of the P&L of exits, `ProfitInv` |
| `EntryLifecycleProofs!NeverTwice` | set of entries, quantity, restarts | an entry in flight is an unresolved operation, and the store has one of these at a time |
| `EntryLifecycleProofs!RecoveryMissesNothing` | same | an operation that was resolved holds the exact fill of an order that has ended, so what is not applied shows as confirmed and unapplied |
| `EntryLifecycleProofs!AllSharesKnown`, `RecoveryIsIdempotent`, `RecoveryEnds`, `CoveredOrFlagged`, `SentFromFlat`, `TypeCorrect` | same | one inductive invariant, `FullInv`, on top of the first |
| `EodSquareoffProofs!IdempotentAlone`, `ClearedOverFlat`, `TypeCorrect` | set of exits, quantity, restarts | while nothing overlaps at most one order is in flight, and the quantity it was sent with was read after the one before ended |
| `EodSquareoffProofs!CancelThenClose` | same | a named stop was accepted before the supervisor began, so it is in flight only if the order list shows it active; nothing revives it; a supervisor that is ready to send has found nothing active |
| `TradingDayProofs!KillIsFinal`, `BookIsClear`, `NoReopening`, `CandlesInOrder`, `TypeCorrect` | watchlist, batches, caps, limits, candle length, buffer, number of results and starts, loss switch on or off | one inductive invariant, `DayInv` |
| `ScanFramesProofs!LimiterKeepsRate`, `ScansKeepRate` | set of threads, window, calls per window | the calls remembered are the latest slots; what is forgotten is a period old; the scans' steps are steps of the limiter |
| `ScanFramesProofs!FramesAreWhole`, `CandlesOnce` | symbols, pool, candle length, buffers, attempts | every answer overlaps the frame and is a beginning of the history; frames of earlier scans are due when a scan begins, so one that is not due is new |
| `EntryEvidenceProofs!FirstTicks`, `CurrentTicks` | window, number of rows required, ticks, signals | one inductive invariant, `EntryInv`, over what the recursion `Within` keeps |

`DayInv` adds to the properties what makes them inductive: that every reached limit is already a killing halt in
the day state (`GoodDay`), which no other writer replaces; that a candidate on its way to an
order finds the state it was admitted with (`StillAdmitted`), because nothing is checked or booked there; that candidates, the chosen and the sent are
disjoint from the protected (`Unprotected`); and that the wait is always for a close a whole candle after the last scanned one (`Timed`),
which is why the lost guard does no harm.

`FramesInv` is the invariant behind `CandlesOnce`. Its core says of a symbol the scan may still evaluate: its
frame is due, or later than everything judged; and its result, if it has one, is later
than everything judged. A fetch keeps it because `require_advance` returns only what is newer than the
frame; the end of a scan restores it because the next scan waits for the completion
of the candle after the last ended one (`ScanBuffer > CompletionBuffer`, the assumption that `config.py` enforces).

`EntryLifecycleProofs` proves one inductive invariant, `EntryInv`. The properties alone are
not inductive: that a resolution is sound needs to know that the answer the bot holds in
its locals at `resolve` and `settle` is the final one and is stored already (`CallInv`), and that needs the shape
of orders and broker book (`BooksInv`). One lemma says of each operation of
the store, and one of each step of the broker, what it keeps of `BooksInv`; the step lemmas of the bot then only
place the locals.

`FullInv` is its second layer, for what the books say of the shares. Its parts: `RecordInv` (the store's record of an entry
against the broker's order), `DayInv` and `OldInv` (today's entries and those of earlier days), `HoldingInv` (position and
file against the sum of the fills), `ControlInv` (what each pc label may rely on), `StrayInv` (a fill nobody
has read belongs to an order the bot gave up on), `LedgerInv` and `OrderlyInv` (the same without the exception `early`).
The sum of the unapplied fills is `MapThenSumSet`, a recursion over a finite set. Its defining equation is reached without
an induction theorem: were there a set on which two sums disagree, there would be a smallest one (`WFMin` for strict
inclusion of finite sets), and removing an element of it gives a smaller one. `SumDef`, `SumOfNone`, `SumOfOne` and
`SumOfLast` follow, and the step lemmas use only these.

In both store proofs the lemma `OperationEffect` does the work: every operation
rewrites the record of exactly one operation (`Replaces`), keeps
its instrument, and makes a record unresolved only by creating it, behind the guard
that no other unresolved one exists. Uniqueness needs the guard and the fact that nothing
reopens a resolved record, which is why both are in the lemma. The applied bound needs the
confirmed fill not to fall below the applied one, which is the guard `CanRecordFill` of
`UpdateVerification`.

`FullInv` of `LiveExitProofs` says what the properties of the exit side rest on together; none of them is inductive alone. Its
parts: `BooksInv` (a record of either store against the broker's order of that name), `MoneyInv` (shares sold, P&L and
the account against the entry quantity), `FileInv` and `NamedInv` (the position file against the stores: which stop and which exit it names),
`CoverInv` (a file that is not blocked has its stop), `Mirror` (memory and file differ at most in `blocked`) and `CtlInv`,
which says of each pc label what the bot may rely on there: at `place` the stop it
found is over and applied, between the reservation of a stop's fill and its save exactly that fill is missing from the file, and so on.
Most of the effort is in that the bot checks, then acts: the lemma of each action shows that nothing which moves
meanwhile (the broker, the square-off, a crash) undoes what the check established. The
sum of shares that closing orders can still take is again a sum over a finite set; with
`OneAtWork` it is the remainder of one order, which is what the simulation of `ExitExposure` needs.

These theorems assume `~Hybrid`. That is not for convenience: with a
hybrid plan and a restart two stops can be in flight (run `ReprotectTwice`), which `OneClosingOrder` excludes, and the
applied fill of an exit can be another exit's (`StaleExitFill`), on which the books rest. `CancelledOnce` and `ExitProfitOnce` hold with either plan.

`ProfitInv` follows an exit from its order to its saved result: nothing of it is in P&L before `saveExit`; from then on, in the
labels after the result, it is `Booked` (the broker's order has ended, and a priced fill is in P&L in full). The property alone is not inductive because
`verifyExit` may answer "not terminal" any number of times, and the next attempt must find P&L still at 0. It
claims nothing after a restart: `PnlTwice` is the counterexample.

`EntryInv` of `EntryEvidenceProofs`: `FrozenInv` says of the rows the capture thread froze that they are the first ones
`Within` the window of its signal, whatever was appended since; `SignalInv` that the capture the main thread
awaits was started for the latest signal, and `EvidenceInv` that what it then judges are the first rows of that signal's window. `Within` is the code's filter over the row list, written as a recursive function. That
its equation holds for every list is proved like `SumDef`: of the lengths at which it
failed there would be a least one. Rows are only appended, and a filter of a longer list begins with the filter
of the shorter one, which is why the evidence of a capture does not change under it.

Assumptions: the named ASSUMEs of the modules (the empty order id is not an
order id, `MaxQty` is a natural number, a quantity is positive, the sets of operations are disjoint where
the code keeps them apart, the entries of `EntryLifecycle` are finitely many, `NoPosition` is no position, at least one
row of evidence is required). TLC evaluates each of them in the runs.

Only model-checked: that `LiveExit` implements `ExitExposure` with the hybrid plan and no restart (run `LiveExitHybrid`);
its invariant needs scalp and runner, two exits of one position, in every part of `FullInv`. Liveness
(`NakedPositionNoticed`, `ClosedPositionLeaves`, `SquaresOff`) stays with TLC: fairness and ENABLED are out of the proof system's reach. The
runs that expect a violation have nothing to prove.

## 6. Findings

* **StaleExitFill.** The runner's exit takes over `exit_operation_id` while `exit_filled_quantity` is
  still the scalp's (`main.py:3088`); recovery takes it as applied.
* **ReprotectTwice.** A crash between arming the runner's stop and resolving the scalp
  makes recovery protect again: two stops in flight (`main.py:4227`).
* **PnlTwice.** A crash between the P&L record and the save of the position makes recovery record
  the fill of an exit again. The stop path reserves first and does not have this.
* **PhantomEntry.** Recovery takes what was already applied from the local position
  (`main.py:3551`), 0 when there is none. An entry whose verification timed out after its
  fill, and whose position was closed in the same session, is rebuilt by the next start: a
  position the account does not hold, with a stop to open it the other way. The same state and
  an unreadable history make `mark_entry_fill_applied` raise, which ends the startup
  (`StartupSurvives` has the same exception).
* **EodReversal.** The supervisor reads the quantity and then the orders. An exit that fills between the two
  is closed again (`matmon_eod_squareoff.py:201`).

PROJECT.json quotes the line each of these contradicts.

## 7. Plan

1. (done) The two stores; the broker; stop, exit, square-off and recovery of one
   position; the exposure specification; the store proofs.
2. (done) `EntryLifecycle`, its two theorems, `CancelledOnce` of `LiveExit`.
3. (done) `EodSquareoff`: the supervisor as a process of its own over the broker, and `CancelThenClose`.
4. (done) `TradingDay`: risk state, scheduler, incremental scan and cooperative checks in one composition, and its five theorems.
5. (done) `RateLimiter`, `ScanFrames` and their theorems; `EntryEvidence`.
6. (done) The safety of every component as theorems: `LiveExit` without the hybrid plan and its
   implementation of `ExitExposure`, `EntryLifecycle`, `EodSquareoff`, `EntryEvidence`, P&L of exits with either plan.
7. `ExposureSpec` with the hybrid plan until the first restart, by an invariant like `FullInv` with scalp and runner.
8. Hybrid positions with crashes, once the double reprotection (section 6) is repaired.

### Not modelled

Reconnection of the WebSocket and subscription of tokens (they decide only whether
ticks come); the candle engine, which is off by default; sizing and all arithmetic on prices; paper mode.
Not planned: strategy, indicators, gates on prices (stateless floating-point
functions over data frames), dashboards and reports (read only), network and file
formats, batch jobs before the market opens.
