----------------------------- MODULE ScanFrames -----------------------------
(***************************************************************************)
(* The candles a scan decides on.  At every scan a pool of threads warms   *)
(* the candle cache for the symbols (matmon_scan_prefetch.py,              *)
(* candle_cache.py) through one rate limiter (api_rate_limiter.py,         *)
(* data_feed.py); the main thread then evaluates each symbol on the frame  *)
(* it got, and fetches itself where a pool task failed (run_full_scan).    *)
(*                                                                         *)
(* Candle k covers the clock from (k-1)*Interval to k*Interval.  A frame   *)
(* is the set of its candles.  The broker publishes candles in order, each *)
(* after its close and perhaps late.  The symbols of a scan are one batch; *)
(* no symbol is in two.                                                    *)
(***************************************************************************)
EXTENDS RateLimiter, FiniteSetsExt

CONSTANTS
  Symbol,
  Pool,              \* threads of the prefetch pool
  Main,              \* the main thread
  Interval,          \* candle length
  CompletionBuffer,  \* CANDLE_COMPLETION_BUFFER_SECONDS, also of the trim
  ScanBuffer,        \* SCAN_BUFFER_SECONDS
  MaxRetries,        \* max_retries of fetch_candles
  LastTime           \* bound: the clock

ASSUME BufferAssumption ==
  /\ Interval \in Nat \ {0} /\ CompletionBuffer \in Nat
  /\ ScanBuffer \in Nat /\ ScanBuffer > CompletionBuffer  \* config.py keeps two seconds between
ASSUME BoundAssumption == LastTime \in Nat /\ MaxRetries \in Nat
ASSUME ThreadAssumption == Thread = Pool \cup {Main} /\ Main \notin Pool

Candle  == 1..(LastTime \div Interval)
Missing == -1   \* a result that is not there

VARIABLES
  published,  \* the broker's last complete candle
  task,       \* what each thread fetches
  frames,     \* _frames of the cache
  queue,      \* symbols no pool thread has taken
  results,    \* symbol -> last candle of the frame it was given, 0 if empty
  phase, target, scanAt,
  judged      \* history: symbol -> the candles it was evaluated on

scan    == <<queue, results, phase, target, scanAt, judged>>
framesVars == <<clock, published, limiter, task, frames, scan>>

Latest(f) == IF f = {} THEN 0 ELSE Max(f)

\* What a thread fetches: a symbol, as of the time get() was called with.
Idle == [stage |-> "idle", symbol |-> CHOOSE s \in Symbol : TRUE, now |-> 0,
         advance |-> FALSE, tries |-> 0]

----------------------------------------------------------------------------
(* The cache *)

\* rate_limiter.wait(), then the request.
Wait(w) ==
  /\ task[w].stage = "limit"
  /\ \/ (Enter(w) \/ Expire(w) \/ Sleep(w)) /\ UNCHANGED task
     \/ Reserve(w) /\ task' = [task EXCEPT ![w].stage = "request"]
  /\ UNCHANGED <<clock, published, frames, scan>>

\* _refresh_due: the next candle can be complete.
Due(s, now) ==
  frames[s] = {} \/ now >= (Latest(frames[s]) + 1) * Interval + CompletionBuffer

Get(w, s, now, advance) ==
  task' = [task EXCEPT ![w] =
    [Idle EXCEPT !.stage = "limit", !.symbol = s, !.now = now, !.advance = advance]]

\* Mutant: the history is asked for from the time of the last scan on.
AskedFromNow(s, now) == {k \in Candle : (k + 1) * Interval >= now}

\* from_date: the last candle of the frame again, and the one before it.
AskedFrom(s, now) == {k \in Candle : k >= Latest(frames[s]) - 1}

\* historical_data up to now, without the candles that trim_incomplete_candles
\* does not take for complete.
Answer(s, now) ==
  {k \in AskedFrom(s, now) : k <= published /\ k * Interval + CompletionBuffer <= now}

NewestOnly(s, new) == Latest(new)  \* mutant: require_advance is not looked at

\* What a get that requires an advance returns.
Advanced(s, new) == IF frames[s] = {} \/ Latest(new) > Latest(frames[s])
                    THEN Latest(new) ELSE 0

\* _merge: each candle once.
Merged(f, new) == f \cup new

\* The frame is stored also when nothing in it is new.
Answered(w) ==
  LET s   == task[w].symbol
      new == Merged(frames[s], Answer(s, task[w].now))
  IN  /\ task[w].stage = "request"
      /\ frames' = [frames EXCEPT ![s] = new]
      /\ IF task[w].advance
           THEN /\ results' = [results EXCEPT ![s] = Advanced(s, new)]
                /\ task' = [task EXCEPT ![w] = Idle]
           ELSE /\ task' = [task EXCEPT ![w].stage = "entry"]
                /\ UNCHANGED results
      /\ UNCHANGED <<clock, published, limiter, queue, phase, target, scanAt, judged>>

\* The request raised; after the last attempt the frame is empty.
Failed(w) ==
  /\ task[w].stage = "request"
  /\ IF task[w].tries + 1 < MaxRetries
       THEN /\ task' = [task EXCEPT ![w].stage = "limit", ![w].tries = @ + 1]
            /\ UNCHANGED results
       ELSE IF task[w].advance
       THEN /\ task' = [task EXCEPT ![w] = Idle]
            /\ results' = [results EXCEPT ![task[w].symbol] = 0]
       ELSE task' = [task EXCEPT ![w].stage = "entry"] /\ UNCHANGED results
  /\ UNCHANGED <<clock, published, limiter, frames, queue, phase, target, scanAt, judged>>

----------------------------------------------------------------------------
(* The scan *)

NextScan(t) == (t \div Interval) * Interval + Interval + ScanBuffer

BeginScan ==
  /\ phase = "wait" /\ clock >= target
  /\ phase' = "prefetch" /\ scanAt' = clock
  /\ queue' = Symbol /\ results' = [s \in Symbol |-> Missing]
  /\ UNCHANGED <<clock, published, limiter, task, frames, target, judged>>

\* A pool thread takes a symbol: from the cache, or by a fetch.
Take(w, s) ==
  /\ phase = "prefetch" /\ s \in queue /\ task[w].stage = "idle"
  /\ queue' = queue \ {s}
  /\ IF Due(s, scanAt)
       THEN Get(w, s, scanAt, TRUE) /\ UNCHANGED results
       ELSE results' = [results EXCEPT ![s] = Latest(frames[s])] /\ UNCHANGED task
  /\ UNCHANGED <<clock, published, limiter, frames, phase, target, scanAt, judged>>

\* An exception outside the request ends the task without a result.
Break(w) ==
  /\ w # Main /\ task[w].stage = "request"
  /\ task' = [task EXCEPT ![w] = Idle]
  /\ UNCHANGED <<clock, published, limiter, frames, scan>>

EndPrefetch ==
  /\ phase = "prefetch" /\ queue = {} /\ \A w \in Pool : task[w].stage = "idle"
  /\ phase' = "evaluate" /\ queue' = Symbol
  /\ UNCHANGED <<clock, published, limiter, task, frames, results, target, scanAt, judged>>

\* No result: the trend frame first, then the entry frame, of the same key.
FetchTrend(s) ==
  /\ phase = "evaluate" /\ s \in queue /\ results[s] = Missing
  /\ task[Main].stage = "idle"
  /\ IF Due(s, clock)
       THEN Get(Main, s, clock, FALSE) /\ UNCHANGED results
       ELSE results' = [results EXCEPT ![s] = Latest(frames[s])] /\ UNCHANGED task
  /\ UNCHANGED <<clock, published, limiter, frames, queue, phase, target, scanAt, judged>>

FetchEntry ==
  LET s == task[Main].symbol  now == task[Main].now IN
  /\ task[Main].stage = "entry"
  /\ IF Due(s, now)
       THEN Get(Main, s, now, TRUE) /\ UNCHANGED results
       ELSE /\ results' = [results EXCEPT ![s] = Latest(frames[s])]
            /\ task' = [task EXCEPT ![Main] = Idle]
  /\ UNCHANGED <<clock, published, limiter, frames, queue, phase, target, scanAt, judged>>

\* The main thread passes over a symbol (a position, a limit, an empty frame)
\* or evaluates it on the last candle of its frame.
Evaluate(s) ==
  /\ phase = "evaluate" /\ s \in queue /\ task[Main].stage = "idle"
  /\ queue' = queue \ {s}
  /\ \/ UNCHANGED judged
     \/ results[s] > 0 /\ judged' = [judged EXCEPT ![s] = Append(@, results[s])]
  /\ UNCHANGED <<clock, published, limiter, task, frames, results, phase, target, scanAt>>

EndScan ==
  /\ phase = "evaluate" /\ queue = {} /\ task[Main].stage = "idle"
  /\ phase' = "wait" /\ target' = NextScan(clock)
  /\ UNCHANGED <<clock, published, limiter, task, frames, queue, results, scanAt, judged>>

----------------------------------------------------------------------------

Tick == /\ clock < LastTime /\ clock' = clock + 1
        /\ UNCHANGED <<published, limiter, task, frames, scan>>

Publish == /\ (published + 1) * Interval <= clock
           /\ published' = published + 1
           /\ UNCHANGED <<clock, limiter, task, frames, scan>>

Init ==
  /\ LimiterInit /\ published = 0
  /\ task = [w \in Thread |-> Idle] /\ frames = [s \in Symbol |-> {}]
  /\ queue = {} /\ results = [s \in Symbol |-> Missing]
  /\ phase = "wait" /\ target = NextScan(0) /\ scanAt = 0
  /\ judged = [s \in Symbol |-> <<>>]

Next ==
  \/ Tick \/ Publish
  \/ \E w \in Thread : Wait(w) \/ Answered(w) \/ Failed(w) \/ Break(w)
  \/ \E w \in Pool, s \in Symbol : Take(w, s)
  \/ \E s \in Symbol : FetchTrend(s) \/ Evaluate(s)
  \/ FetchEntry \/ BeginScan \/ EndPrefetch \/ EndScan

Spec == Init /\ [][Next]_framesVars

----------------------------------------------------------------------------
(* Properties *)

\* A symbol is evaluated on a candle at most once and on candles in order:
\* not again when the broker is late, when a fetch fails and the cache
\* answers, or when the main thread repeats what a pool task did.
NoCandleTwice ==
  \A s \in Symbol : \A i, j \in DOMAIN judged[s] :
    i < j => judged[s][i] < judged[s][j]

\* The frame of a symbol is the whole published history up to its last
\* candle, whatever scans failed or came late: overlap and merge leave no
\* hole for indicators to run over.
HistoryWhole == \A s \in Symbol : frames[s] = 1..Latest(frames[s])

============================================================================
