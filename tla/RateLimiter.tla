---------------------------- MODULE RateLimiter ----------------------------
(***************************************************************************)
(* The rolling-window limiter of historical-data requests                  *)
(* (api_rate_limiter.py), shared by the threads of the prefetch pool and   *)
(* the main thread.  wait() holds its lock from the first look at the      *)
(* clock to the reservation of a slot, also while it sleeps.               *)
(***************************************************************************)
EXTENDS Integers, Sequences

CONSTANTS
  Thread,    \* threads that fetch candles
  MaxCalls,  \* max_calls
  Period     \* period_seconds, in clock ticks

ASSUME LimiterAssumption == MaxCalls \in Nat \ {0} /\ Period \in Nat \ {0}

VARIABLES
  clock,   \* time.monotonic
  calls,   \* _calls
  inside,  \* threads that hold _lock: one, or none
  read,    \* thread -> the time it read last
  slots    \* history: the latest MaxCalls + 1 slots reserved

limiter == <<calls, inside, read, slots>>

LockIgnored == TRUE  \* mutant: wait() without its lock

LockFree == inside = {}

Expired(t) == calls # <<>> /\ t - Head(calls) >= Period

Enter(w) ==
  /\ w \notin inside /\ LockFree
  /\ inside' = inside \cup {w}
  /\ read' = [read EXCEPT ![w] = clock]
  /\ UNCHANGED <<calls, slots>>

\* A call that has left the window is forgotten.
Expire(w) ==
  /\ w \in inside /\ Expired(read[w])
  /\ calls' = Tail(calls)
  /\ UNCHANGED <<inside, read, slots>>

\* The slots with one more, of which the latest MaxCalls + 1 are of interest.
WithSlot(t) == IF Len(slots) > MaxCalls THEN Append(Tail(slots), t)
                                        ELSE Append(slots, t)

Reserve(w) ==
  /\ w \in inside /\ ~Expired(read[w])
  /\ Len(calls) < MaxCalls
  /\ calls' = Append(calls, read[w])
  /\ slots' = WithSlot(read[w])
  /\ inside' = inside \ {w}
  /\ UNCHANGED read

\* The window is full: the thread sleeps, with the lock, until its oldest call
\* leaves it, and reads the clock again.
Sleep(w) ==
  /\ w \in inside /\ ~Expired(read[w])
  /\ Len(calls) >= MaxCalls
  /\ clock >= Head(calls) + Period
  /\ read' = [read EXCEPT ![w] = clock]
  /\ UNCHANGED <<calls, inside, slots>>

LimiterInit ==
  /\ clock = 0 /\ calls = <<>> /\ inside = {} /\ slots = <<>>
  /\ read = [w \in Thread |-> 0]

LimiterNext ==
  \/ clock' = clock + 1 /\ UNCHANGED limiter
  \/ /\ \E w \in Thread : Enter(w) \/ Expire(w) \/ Reserve(w) \/ Sleep(w)
     /\ UNCHANGED clock

LimiterSpec == LimiterInit /\ [][LimiterNext]_<<clock, limiter>>

----------------------------------------------------------------------------
(* Properties *)

\* Whatever threads queue behind a sleeper, retry or come and go between
\* scans, no more than MaxCalls slots are handed out in any Period.  (The
\* request itself follows the slot, outside the lock.)
RateKept ==
  Len(slots) = MaxCalls + 1 => slots[MaxCalls + 1] - slots[1] >= Period

============================================================================
