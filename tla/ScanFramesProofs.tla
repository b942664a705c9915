--------------------------- MODULE ScanFramesProofs ---------------------------
(***************************************************************************)
(* Proofs about the rate limiter and the candle cache behind it, for every *)
(* number of threads, symbols and attempts, every window and every candle  *)
(* length.                                                                 *)
(*                                                                         *)
(* The argument for the limiter: the calls it remembers are the latest of  *)
(* the slots it gave, and every slot it has forgotten lies a Period before *)
(* the time that the thread inside has read.  A slot is given when fewer   *)
(* than MaxCalls are remembered, so the slot MaxCalls before it is one of  *)
(* the forgotten.                                                          *)
(***************************************************************************)
EXTENDS ScanFrames, TLAPS

----------------------------------------------------------------------------
(* The limiter *)

LimiterShape ==
  /\ clock \in Nat
  /\ calls \in Seq(Nat) /\ slots \in Seq(Nat)
  /\ read \in [Thread -> Nat]
  /\ inside \subseteq Thread

\* The slots that are not remembered any more.
Forgotten == 1..(Len(slots) - Len(calls))

LimiterInv ==
  /\ LimiterShape
  /\ Len(calls) <= MaxCalls /\ Len(slots) <= MaxCalls + 1
  /\ Len(calls) <= Len(slots)
  /\ \A i \in 1..Len(calls) : calls[i] = slots[Len(slots) - Len(calls) + i]
  /\ \A v, w \in inside : v = w
  /\ \A w \in inside : read[w] <= clock
  /\ \A j \in Forgotten : clock - slots[j] >= Period
  /\ \A w \in inside, j \in Forgotten : read[w] - slots[j] >= Period
  /\ RateKept

LEMMA LimiterInitInv == LimiterInit => LimiterInv
<1> SUFFICES ASSUME LimiterInit PROVE LimiterInv
  OBVIOUS
<1>1. Len(<<>>) = 0
  OBVIOUS
<1> QED
  BY <1>1, LimiterAssumption DEF LimiterInit, LimiterInv, LimiterShape, Forgotten, RateKept

LEMMA EnterKeeps ==
  ASSUME LimiterInv, NEW w \in Thread, Enter(w), clock' = clock
  PROVE  LimiterInv'
<1>1. inside' = {w} /\ read' = [read EXCEPT ![w] = clock] /\ UNCHANGED <<calls, slots>>
  BY DEF Enter, LockFree
<1>2. read'[w] = clock
  BY <1>1 DEF LimiterInv, LimiterShape
<1>3. LimiterShape'
  BY <1>1 DEF LimiterInv, LimiterShape
<1> QED
  BY <1>1, <1>2, <1>3, LimiterAssumption DEF LimiterInv, Forgotten, RateKept, LimiterShape

LEMMA SleepKeeps ==
  ASSUME LimiterInv, NEW w \in Thread, Sleep(w), clock' = clock
  PROVE  LimiterInv'
<1>1. /\ inside = {w} /\ read' = [read EXCEPT ![w] = clock]
      /\ UNCHANGED <<calls, inside, slots>>
  BY DEF Sleep, LimiterInv
<1>2. read'[w] = clock
  BY <1>1 DEF LimiterInv, LimiterShape
<1>3. LimiterShape'
  BY <1>1 DEF LimiterInv, LimiterShape
<1> QED
  BY <1>1, <1>2, <1>3, LimiterAssumption DEF LimiterInv, Forgotten, RateKept, LimiterShape

LEMMA TimeKeeps ==
  ASSUME LimiterInv, clock' = clock + 1, UNCHANGED limiter
  PROVE  LimiterInv'
<1>1. UNCHANGED <<calls, inside, slots, read>>
  BY DEF limiter
<1>2. LimiterShape'
  BY <1>1 DEF LimiterInv, LimiterShape
<1>3. \A v \in inside : read'[v] <= clock'
  BY <1>1 DEF LimiterInv, LimiterShape
<1>4. \A j \in Forgotten : clock' - slots[j] >= Period
  <2> TAKE j \in Forgotten
  <2>1. slots[j] \in Nat /\ clock \in Nat /\ clock - slots[j] >= Period
    BY DEF LimiterInv, LimiterShape, Forgotten
  <2> QED
    BY <2>1, LimiterAssumption
<1> QED
  BY <1>1, <1>2, <1>3, <1>4 DEF LimiterInv, Forgotten, RateKept

LEMMA ExpireKeeps ==
  ASSUME LimiterInv, NEW w \in Thread, Expire(w), clock' = clock
  PROVE  LimiterInv'
<1> DEFINE n == Len(slots)  c == Len(calls)
<1>1. /\ inside = {w} /\ UNCHANGED <<inside, read, slots>>
      /\ calls # <<>> /\ read[w] - Head(calls) >= Period
      /\ calls' = Tail(calls)
  BY DEF Expire, Expired, LimiterInv
<1>2. /\ calls \in Seq(Nat) /\ slots \in Seq(Nat)
      /\ n \in Nat /\ c \in Nat /\ c >= 1 /\ c <= n
      /\ clock \in Nat /\ read[w] \in Nat /\ read[w] <= clock
  BY <1>1 DEF LimiterInv, LimiterShape
<1>3. /\ calls' \in Seq(Nat) /\ Len(calls') = c - 1
      /\ \A i \in 1..(c - 1) : calls'[i] = calls[i + 1]
      /\ Head(calls) = calls[1]
  BY <1>1, <1>2
<1> HIDE DEF n, c
<1>4. LimiterShape'
  BY <1>1, <1>3 DEF LimiterInv, LimiterShape
<1>5. \A i \in 1..(c - 1) : calls'[i] = slots[n - (c - 1) + i]
  <2> TAKE i \in 1..(c - 1)
  <2>1. calls[i + 1] = slots[n - c + (i + 1)]
    BY <1>2 DEF LimiterInv, n, c
  <2>2. n - c + (i + 1) = n - (c - 1) + i
    BY <1>2
  <2> QED
    BY <1>3, <2>1, <2>2
<1>6. \A j \in 1..(n - (c - 1)) : read[w] - slots[j] >= Period /\ clock - slots[j] >= Period
  <2> TAKE j \in 1..(n - (c - 1))
  <2>1. CASE j = n - c + 1
    <3>1. Head(calls) = slots[j]
      <4>1. calls[1] = slots[n - c + 1]
        BY <1>2 DEF LimiterInv, n, c
      <4> QED
        BY <1>3, <2>1, <4>1
    <3>2. slots[j] \in Nat
      BY <1>2, <2>1 DEF n
    <3> QED
      BY <1>1, <1>2, <3>1, <3>2, LimiterAssumption
  <2>2. CASE j # n - c + 1
    <3>1. j \in Forgotten
      BY <1>2, <2>2 DEF Forgotten, n, c
    <3> QED
      BY <1>1, <3>1 DEF LimiterInv
  <2> QED
    BY <2>1, <2>2
<1>7. Forgotten' = 1..(n - (c - 1))
  BY <1>1, <1>3 DEF Forgotten, n
<1>8. c - 1 <= MaxCalls /\ n <= MaxCalls + 1 /\ c - 1 <= n
  BY <1>2, LimiterAssumption DEF LimiterInv, n, c
<1> QED
  BY <1>1, <1>2, <1>3, <1>4, <1>5, <1>6, <1>7, <1>8 DEF LimiterInv, RateKept, n

LEMMA ReserveKeeps ==
  ASSUME LimiterInv, NEW w \in Thread, Reserve(w), clock' = clock
  PROVE  LimiterInv'
<1> DEFINE n == Len(slots)  c == Len(calls)  t == read[w]
<1>1. /\ inside = {w} /\ inside' = {} /\ read' = read
      /\ c < MaxCalls /\ calls' = Append(calls, t)
      /\ slots' = WithSlot(t)
  BY DEF Reserve, LimiterInv
<1>2. /\ calls \in Seq(Nat) /\ slots \in Seq(Nat) /\ MaxCalls \in Nat
      /\ n \in Nat /\ c \in Nat /\ c <= n /\ n <= MaxCalls + 1
      /\ clock \in Nat /\ t \in Nat /\ t <= clock
  BY <1>1, LimiterAssumption DEF LimiterInv, LimiterShape
<1>3. /\ calls' \in Seq(Nat) /\ Len(calls') = c + 1 /\ calls'[c + 1] = t
      /\ \A i \in 1..c : calls'[i] = calls[i]
  BY <1>1, <1>2
<1>4. \A j \in 1..(n - c) : clock - slots[j] >= Period /\ t - slots[j] >= Period
  BY <1>1 DEF LimiterInv, Forgotten
<1>5. \A i \in 1..c : calls[i] = slots[n - c + i]
  BY DEF LimiterInv
<1> HIDE DEF n, c, t
\* The window was not full before: nothing is dropped.
<1>6. CASE n <= MaxCalls
  <2>1. slots' = Append(slots, t)
    BY <1>1, <1>2, <1>6 DEF WithSlot, n
  <2>2. /\ slots' \in Seq(Nat) /\ Len(slots') = n + 1 /\ slots'[n + 1] = t
        /\ \A j \in 1..n : slots'[j] = slots[j]
    BY <1>2, <2>1 DEF n
  <2>3. \A i \in 1..(c + 1) : calls'[i] = slots'[n + 1 - (c + 1) + i]
    <3> TAKE i \in 1..(c + 1)
    <3>1. CASE i = c + 1
      BY <1>2, <1>3, <2>2, <3>1
    <3>2. CASE i # c + 1
      <4>1. i \in 1..c /\ n + 1 - (c + 1) + i = n - c + i /\ n - c + i \in 1..n
        BY <1>2, <3>2
      <4> QED
        BY <1>3, <1>5, <2>2, <4>1
    <3> QED
      BY <3>1, <3>2
  <2>4. Forgotten' = 1..(n - c)
    BY <1>2, <1>3, <2>2 DEF Forgotten
  <2>5. \A j \in Forgotten' : clock - slots'[j] >= Period
    <3> TAKE j \in Forgotten'
    <3>1. j \in 1..n /\ j \in 1..(n - c)
      BY <1>2, <2>4
    <3> QED
      BY <1>4, <2>2, <3>1
  <2>6. n + 1 = MaxCalls + 1 => slots'[MaxCalls + 1] - slots'[1] >= Period
    <3> SUFFICES ASSUME n = MaxCalls PROVE slots'[n + 1] - slots'[1] >= Period
      BY <1>2
    <3>1. 1 \in 1..(n - c) /\ 1 \in 1..n
      BY <1>1, <1>2
    <3> QED
      BY <1>4, <2>2, <3>1
  <2>7. LimiterShape'
    BY <1>1, <1>3, <2>2 DEF LimiterInv, LimiterShape
  <2>8. /\ Len(calls') <= MaxCalls /\ Len(slots') <= MaxCalls + 1
        /\ Len(calls') <= Len(slots')
    BY <1>1, <1>2, <1>3, <1>6, <2>2
  <2>9. RateKept'
    BY <2>2, <2>6 DEF RateKept
  <2>10. \A i \in 1..Len(calls') : calls'[i] = slots'[Len(slots') - Len(calls') + i]
    <3> TAKE i \in 1..Len(calls')
    <3>1. i \in 1..(c + 1) /\ Len(slots') - Len(calls') + i = n + 1 - (c + 1) + i
      BY <1>2, <1>3, <2>2
    <3> QED
      BY <2>3, <3>1
  <2> QED
    BY <1>1, <2>5, <2>7, <2>8, <2>9, <2>10 DEF LimiterInv
\* The oldest of the slots is dropped.
<1>7. CASE n = MaxCalls + 1
  <2>1. slots' = Append(Tail(slots), t)
    BY <1>1, <1>2, <1>7 DEF WithSlot, n
  <2>2. /\ slots' \in Seq(Nat) /\ Len(slots') = n /\ slots'[n] = t
        /\ \A j \in 1..(n - 1) : slots'[j] = slots[j + 1]
    BY <1>2, <1>7, <2>1 DEF n
  <2>3. \A i \in 1..(c + 1) : calls'[i] = slots'[n - (c + 1) + i]
    <3> TAKE i \in 1..(c + 1)
    <3>1. CASE i = c + 1
      BY <1>2, <1>3, <2>2, <3>1
    <3>2. CASE i # c + 1
      <4>1. /\ i \in 1..c /\ n - (c + 1) + i \in 1..(n - 1)
            /\ n - (c + 1) + i + 1 = n - c + i
        BY <1>1, <1>2, <1>7, <3>2
      <4> QED
        BY <1>3, <1>5, <2>2, <4>1
    <3> QED
      BY <3>1, <3>2
  <2>4. Forgotten' = 1..(n - (c + 1))
    BY <1>2, <1>3, <2>2 DEF Forgotten
  <2>5. \A j \in Forgotten' : clock - slots'[j] >= Period
    <3> TAKE j \in Forgotten'
    <3>1. j \in 1..(n - 1) /\ j + 1 \in 1..(n - c)
      BY <1>2, <2>4
    <3> QED
      BY <1>4, <2>2, <3>1
  <2>6. slots'[MaxCalls + 1] - slots'[1] >= Period
    <3>1. 2 \in 1..(n - c) /\ 1 \in 1..(n - 1) /\ 1 + 1 = 2
      BY <1>1, <1>2, <1>7
    <3> QED
      BY <1>4, <1>7, <2>2, <3>1
  <2>7. LimiterShape'
    BY <1>1, <1>3, <2>2 DEF LimiterInv, LimiterShape
  <2>8. /\ Len(calls') <= MaxCalls /\ Len(slots') <= MaxCalls + 1
        /\ Len(calls') <= Len(slots')
    BY <1>1, <1>2, <1>3, <1>7, <2>2
  <2> QED
    BY <1>1, <1>3, <2>2, <2>3, <2>5, <2>6, <2>7, <2>8 DEF LimiterInv, RateKept
<1> QED
  BY <1>2, <1>6, <1>7

LEMMA LimiterStep == LimiterInv /\ [LimiterNext]_<<clock, limiter>> => LimiterInv'
<1> SUFFICES ASSUME LimiterInv, [LimiterNext]_<<clock, limiter>> PROVE LimiterInv'
  OBVIOUS
<1>1. CASE UNCHANGED <<clock, limiter>>
  BY <1>1 DEF limiter, LimiterInv, LimiterShape, Forgotten, RateKept
<1>2. CASE clock' = clock + 1 /\ UNCHANGED limiter
  BY <1>2, TimeKeeps
<1>3. ASSUME NEW w \in Thread, Enter(w) \/ Expire(w) \/ Reserve(w) \/ Sleep(w),
             UNCHANGED clock
      PROVE  LimiterInv'
  BY <1>3, EnterKeeps, ExpireKeeps, ReserveKeeps, SleepKeeps
<1> QED
  BY <1>1, <1>2, <1>3 DEF LimiterNext

\* However many threads use the limiter and however they queue, sleep and
\* stop, no Period holds more than MaxCalls slots.
THEOREM LimiterKeepsRate == LimiterSpec => []RateKept
<1>1. LimiterInit => LimiterInv
  BY LimiterInitInv
<1>2. LimiterInv /\ [LimiterNext]_<<clock, limiter>> => LimiterInv'
  BY LimiterStep
<1>3. LimiterInv => RateKept
  BY DEF LimiterInv
<1> QED
  BY <1>1, <1>2, <1>3, PTL DEF LimiterSpec

----------------------------------------------------------------------------
(* The limiter among the scans *)

\* Every step of a scan is a step of the limiter, or leaves it alone.
LEMMA ScansUseLimiter == [Next]_framesVars => [LimiterNext]_<<clock, limiter>>
<1> SUFFICES ASSUME [Next]_framesVars PROVE [LimiterNext]_<<clock, limiter>>
  OBVIOUS
<1> USE DEF scan
<1>1. ASSUME NEW w \in Thread, Wait(w)
      PROVE  LimiterNext
  BY <1>1 DEF Wait, LimiterNext
<1>2. CASE Tick
  BY <1>2 DEF Tick, LimiterNext
<1>3. CASE ~Tick /\ ~ \E w \in Thread : Wait(w)
  BY <1>3 DEF Next, framesVars, Publish, Answered, Failed, Break, Take, FetchTrend,
       Evaluate, FetchEntry, BeginScan, EndPrefetch, EndScan
<1> QED
  BY <1>1, <1>2, <1>3

\* The prefetch pool and the main thread together keep the rate: no Period
\* of a day's scans holds more than MaxCalls slots.
THEOREM ScansKeepRate == Spec => []RateKept
<1>1. Init => LimiterInit
  BY DEF Init
<1>2. [Next]_framesVars => [LimiterNext]_<<clock, limiter>>
  BY ScansUseLimiter
<1> QED
  BY <1>1, <1>2, LimiterKeepsRate, PTL DEF Spec, LimiterSpec

----------------------------------------------------------------------------
(* Frames *)

LastOf(x) == Latest(frames[x])

LEMMA LatestOfWhole ==
  ASSUME NEW n \in Nat
  PROVE  Latest(1..n) = n
<1>1. CASE n = 0
  BY <1>1 DEF Latest
<1>2. CASE n # 0
  <2>1. n \in 1..n /\ \A y \in 1..n : n >= y
    BY <1>2
  <2>2. \A x \in 1..n : (\A y \in 1..n : x >= y) => x = n
    BY <2>1
  <2>3. Max(1..n) = n
    BY <2>1, <2>2 DEF Max
  <2> QED
    BY <2>1, <2>3 DEF Latest
<1> QED
  BY <1>1, <1>2

\* The candles that are complete at a time are the first ones.
LEMMA CompleteUpTo ==
  ASSUME NEW now \in Int
  PROVE  \E h \in Int : \A k \in Int :
           k * Interval + CompletionBuffer <= now <=> k <= h
<1> DEFINE h == (now - CompletionBuffer) \div Interval
<1>1. h \in Int
  BY BufferAssumption
<1>2. ASSUME NEW k \in Int
      PROVE  k * Interval + CompletionBuffer <= now <=> k <= h
  BY BufferAssumption
<1> QED
  BY <1>1, <1>2

LEMMA LeastOfTwo ==
  ASSUME NEW a \in Int, NEW b \in Int
  PROVE  \E c \in Int : \A k \in Int : k <= c <=> k <= a /\ k <= b
<1>1. CASE a <= b
  <2> WITNESS a \in Int
  <2> QED
    BY <1>1
<1>2. CASE b < a
  <2> WITNESS b \in Int
  <2> QED
    BY <1>2
<1> QED
  BY <1>1, <1>2

LEMMA MergedIsWhole ==
  ASSUME NEW x \in Symbol, LastOf(x) \in Nat, frames[x] = 1..LastOf(x),
         NEW now \in Int, published \in Int
  PROVE  LET new == Merged(frames[x], Answer(x, now)) IN
         /\ Latest(new) \in Nat /\ new = 1..Latest(new)
         /\ Latest(new) >= LastOf(x)
         /\ Latest(new) > LastOf(x) => Latest(new) * Interval + CompletionBuffer <= now
<1> DEFINE n == LastOf(x)
           last == LastTime \div Interval
           new == Merged(frames[x], Answer(x, now))
<1>1. PICK h \in Int : \A k \in Int :
        k * Interval + CompletionBuffer <= now <=> k <= h
  BY CompleteUpTo
<1>2. last \in Int
  BY BufferAssumption, BoundAssumption
<1> HIDE DEF last
<1>3. PICK d \in Int : \A k \in Int : k <= d <=> k <= last /\ k <= published
  BY <1>2, LeastOfTwo
<1>4. PICK c \in Int : \A k \in Int : k <= c <=> k <= d /\ k <= h
  BY LeastOfTwo
<1>5. Answer(x, now) = {k \in 1..c : k >= n - 1}
  <2>1. Answer(x, now) = {k \in 1..last : /\ k >= n - 1 /\ k <= published
                                         /\ k * Interval + CompletionBuffer <= now}
    BY DEF Candle, Answer, AskedFrom, LastOf, last
  <2> HIDE DEF n
  <2>2. ASSUME NEW k \in Int
        PROVE  k \in 1..c <=> /\ k \in 1..last /\ k <= published
                             /\ k * Interval + CompletionBuffer <= now
    <3>1. k * Interval + CompletionBuffer <= now <=> k <= h
      BY <1>1
    <3>2. k <= c <=> k <= last /\ k <= published /\ k <= h
      BY <1>3, <1>4
    <3>3. k \in 1..c <=> k >= 1 /\ k <= c
      OBVIOUS
    <3>4. k \in 1..last <=> k >= 1 /\ k <= last
      BY <1>2
    <3> QED
      BY <3>1, <3>2, <3>3, <3>4
  <2> QED
    BY <1>2, <2>1, <2>2
<1>6. PICK m \in Nat : m >= n /\ new = 1..m /\ (m > n => m <= c)
  <2>1. CASE c <= n
    BY <1>5, <2>1 DEF Merged
  <2>2. CASE c > n
    BY <1>5, <2>2 DEF Merged
  <2> QED
    BY <2>1, <2>2
<1>7. m > n => m * Interval + CompletionBuffer <= now
  BY <1>1, <1>4, <1>6
<1> QED
  BY <1>6, <1>7, LatestOfWhole

----------------------------------------------------------------------------
(* The threads *)

Named == Symbol \cup {CHOOSE s \in Symbol : TRUE}

TaskShape ==
  [ stage : {"idle", "limit", "request", "entry"},
    symbol : Named,
    now : Nat, advance : BOOLEAN, tries : Int ]

\* The pool works during the prefetch; the main thread afterwards, on a
\* symbol it has not passed over yet, and as of a time within the scan.
TaskInv ==
  /\ clock \in Nat /\ scanAt \in Nat /\ scanAt <= clock
  /\ task \in [Thread -> TaskShape]
  /\ \A w \in Thread : task[w].now <= clock
  /\ phase # "prefetch" => \A w \in Pool : task[w].stage = "idle"
  /\ task[Main].stage # "idle" => /\ phase = "evaluate"
                                 /\ task[Main].symbol \in queue
                                 /\ task[Main].now >= scanAt
  /\ phase \in {"wait", "prefetch", "evaluate"}

LEMMA IdleShape == Idle \in TaskShape /\ Idle.stage = "idle" /\ Idle.now = 0
BY DEF Idle, TaskShape, Named

Got(s, now, advance) == [Idle EXCEPT !.stage = "limit", !.symbol = s, !.now = now,
                                     !.advance = advance]

LEMMA GotShape ==
  ASSUME NEW s \in Named, NEW now \in Nat, NEW advance \in BOOLEAN
  PROVE  /\ Got(s, now, advance) \in TaskShape
         /\ Got(s, now, advance).stage = "limit"
         /\ Got(s, now, advance).symbol = s
         /\ Got(s, now, advance).now = now
BY IdleShape DEF Got, TaskShape

LEMMA GetShape ==
  ASSUME TaskInv, NEW w \in Thread, NEW s \in Named, NEW now \in Nat,
         NEW advance \in BOOLEAN, Get(w, s, now, advance)
  PROVE  /\ task' \in [Thread -> TaskShape]
         /\ task'[w].stage = "limit" /\ task'[w].symbol = s /\ task'[w].now = now
         /\ \A v \in Thread \ {w} : task'[v] = task[v]
         /\ task' = [task EXCEPT ![w] = Got(s, now, advance)]
<1>1. task' = [task EXCEPT ![w] = Got(s, now, advance)]
  BY DEF Get, Got
<1> QED
  BY <1>1, GotShape DEF TaskInv

\* A task that goes on keeps its symbol and time, or becomes idle.
LEMMA GoingOn ==
  ASSUME TaskInv, NEW w \in Thread, NEW t \in TaskShape,
         task[w].stage # "idle",
         task' = [task EXCEPT ![w] = t],
         t = Idle \/ (t.symbol = task[w].symbol /\ t.now = task[w].now),
         UNCHANGED <<clock, scanAt, phase, queue>>
  PROVE  TaskInv'
<1>1. task' \in [Thread -> TaskShape] /\ task'[w] = t
  BY DEF TaskInv
<1>2. \A v \in Thread : v # w => task'[v] = task[v]
  BY DEF TaskInv
<1>3. \A v \in Thread : task'[v].now <= clock'
  <2> TAKE v \in Thread
  <2>1. CASE v = w
    BY <1>1, <2>1, IdleShape DEF TaskInv
  <2>2. CASE v # w
    BY <1>2, <2>2 DEF TaskInv
  <2> QED
    BY <2>1, <2>2
<1>4. Pool \subseteq Thread /\ Main \in Thread /\ Main \notin Pool
  BY ThreadAssumption
<1>5. phase' # "prefetch" => \A v \in Pool : task'[v].stage = "idle"
  BY <1>2, <1>4 DEF TaskInv
<1>6. task'[Main].stage # "idle" => /\ phase' = "evaluate"
                                   /\ task'[Main].symbol \in queue'
                                   /\ task'[Main].now >= scanAt'
  BY <1>1, <1>2, <1>4, IdleShape DEF TaskInv
<1> QED
  BY <1>1, <1>3, <1>5, <1>6 DEF TaskInv

LEMMA SameTasks ==
  ASSUME TaskInv, UNCHANGED <<task, scanAt, phase, queue>>,
         clock' \in Nat, clock' >= clock
  PROVE  TaskInv'
<1>1. \A w \in Thread : task[w].now \in Nat
  BY DEF TaskInv, TaskShape
<1> QED
  BY <1>1 DEF TaskInv

LEMMA TaskStep ==
  ASSUME TaskInv, [Next]_framesVars
  PROVE  TaskInv'
<1> USE DEF scan, framesVars
<1>0. /\ clock \in Nat /\ task \in [Thread -> TaskShape]
      /\ Pool \subseteq Thread /\ Main \in Thread /\ Main \notin Pool
  BY ThreadAssumption DEF TaskInv
<1>1. CASE UNCHANGED framesVars \/ Tick \/ Publish
  BY <1>0, <1>1, SameTasks DEF Tick, Publish
<1>2. ASSUME NEW w \in Thread, Wait(w)
      PROVE  TaskInv'
  <2>1. CASE UNCHANGED task
    BY <1>0, <1>2, <2>1, SameTasks DEF Wait
  <2>2. CASE task' = [task EXCEPT ![w].stage = "request"]
    <3> DEFINE t == [task[w] EXCEPT !.stage = "request"]
    <3>1. /\ t \in TaskShape /\ t.symbol = task[w].symbol /\ t.now = task[w].now
      BY <1>0 DEF TaskShape
    <3>2. task' = [task EXCEPT ![w] = t]
      BY <2>2
    <3> QED
      BY <1>2, <3>1, <3>2, GoingOn DEF Wait
  <2> QED
    BY <1>2, <2>1, <2>2 DEF Wait
<1>3. ASSUME NEW w \in Thread, Answered(w) \/ Failed(w) \/ Break(w)
      PROVE  TaskInv'
  <2> DEFINE e == [task[w] EXCEPT !.stage = "entry"]
             l == [task[w] EXCEPT !.stage = "limit", !.tries = @ + 1]
  <2>1. /\ e \in TaskShape /\ e.symbol = task[w].symbol /\ e.now = task[w].now
        /\ l \in TaskShape /\ l.symbol = task[w].symbol /\ l.now = task[w].now
    <3>1. task[w] \in TaskShape /\ task[w].tries + 1 \in Int
      BY <1>0 DEF TaskShape
    <3> QED
      BY <3>1 DEF TaskShape
  <2>2. PICK t \in {Idle, e, l} : task' = [task EXCEPT ![w] = t]
    BY <1>3 DEF Answered, Failed, Break
  <2> QED
    BY <1>3, <2>1, <2>2, GoingOn, IdleShape DEF Answered, Failed, Break
<1>4. ASSUME NEW w \in Pool, NEW s \in Symbol, Take(w, s)
      PROVE  TaskInv'
  <2>1. phase = "prefetch" /\ UNCHANGED <<clock, scanAt, phase>> /\ w # Main
    BY <1>0, <1>4 DEF Take
  <2>2. task[Main].stage = "idle"
    BY <2>1 DEF TaskInv
  <2>3. CASE UNCHANGED task
    BY <2>1, <2>2, <2>3 DEF TaskInv
  <2>4. CASE Get(w, s, scanAt, TRUE)
    <3>1. /\ task' \in [Thread -> TaskShape] /\ task'[w].now = scanAt
          /\ \A v \in Thread \ {w} : task'[v] = task[v]
      BY <1>0, <2>4, GetShape DEF TaskInv, Named
    <3> QED
      BY <1>0, <2>1, <2>2, <3>1 DEF TaskInv
  <2> QED
    BY <1>4, <2>3, <2>4 DEF Take
<1>5. ASSUME NEW s \in Symbol, FetchTrend(s)
      PROVE  TaskInv'
  <2>1. /\ phase = "evaluate" /\ s \in queue
        /\ UNCHANGED <<clock, scanAt, phase, queue>>
    BY <1>5 DEF FetchTrend
  <2>2. CASE UNCHANGED task
    BY <1>0, <2>1, <2>2, SameTasks
  <2>3. CASE Get(Main, s, clock, FALSE)
    <3>1. /\ task' \in [Thread -> TaskShape]
          /\ task'[Main].symbol = s /\ task'[Main].now = clock
          /\ \A v \in Thread \ {Main} : task'[v] = task[v]
      BY <1>0, <2>3, GetShape DEF Named
    <3>2. clock >= scanAt
      BY DEF TaskInv
    <3> QED
      BY <1>0, <2>1, <3>1, <3>2 DEF TaskInv
  <2> QED
    BY <1>5, <2>2, <2>3 DEF FetchTrend
<1>6. CASE FetchEntry
  <2> DEFINE s == task[Main].symbol
  <2>1. /\ task[Main].stage = "entry" /\ UNCHANGED <<clock, scanAt, phase, queue>>
        /\ phase = "evaluate" /\ s \in queue /\ task[Main].now >= scanAt
    BY <1>6 DEF FetchEntry, TaskInv
  <2>2. CASE task' = [task EXCEPT ![Main] = Idle]
    BY <1>0, <2>1, <2>2, GoingOn, IdleShape
  <2>3. CASE Get(Main, s, task[Main].now, TRUE)
    <3>1. s \in Named /\ task[Main].now \in Nat
      BY <1>0 DEF TaskShape
    <3>2. task' = [task EXCEPT ![Main] = Got(s, task[Main].now, TRUE)]
      BY <2>3 DEF Get, Got
    <3> DEFINE t == Got(s, task[Main].now, TRUE)
    <3>3. t \in TaskShape /\ t.symbol = s /\ t.now = task[Main].now
      BY <3>1, GotShape
    <3>4. task[Main].stage # "idle"
      BY <2>1
    <3> HIDE DEF t
    <3> QED
      BY <1>0, <2>1, <3>2, <3>3, <3>4, GoingOn DEF t
  <2> QED
    BY <1>6, <2>2, <2>3 DEF FetchEntry
<1>7. CASE BeginScan
  <2>1. /\ phase = "wait" /\ phase' = "prefetch" /\ scanAt' = clock
        /\ UNCHANGED <<clock, task>>
    BY <1>7 DEF BeginScan
  <2>2. task[Main].stage = "idle"
    BY <2>1 DEF TaskInv
  <2> QED
    BY <1>0, <2>1, <2>2 DEF TaskInv
<1>8. CASE EndPrefetch
  <2>1. /\ phase = "prefetch" /\ phase' = "evaluate"
        /\ \A w \in Pool : task[w].stage = "idle"
        /\ UNCHANGED <<clock, task, scanAt>>
    BY <1>8 DEF EndPrefetch
  <2>2. task[Main].stage = "idle"
    BY <2>1 DEF TaskInv
  <2> QED
    BY <1>0, <2>1, <2>2 DEF TaskInv
<1>9. ASSUME EndScan \/ \E s \in Symbol : Evaluate(s)
      PROVE  TaskInv'
  <2>1. /\ phase = "evaluate" /\ phase' \in {"wait", "evaluate"}
        /\ task[Main].stage = "idle" /\ UNCHANGED <<clock, task, scanAt>>
    BY <1>9 DEF EndScan, Evaluate
  <2> QED
    BY <1>0, <2>1 DEF TaskInv
<1> QED
  BY <1>0, <1>1, <1>2, <1>3, <1>4, <1>5, <1>6, <1>7, <1>8, <1>9 DEF Next

----------------------------------------------------------------------------
(* The candles a symbol is evaluated on *)

\* The scan may still evaluate x.
Unevaluated(x) == phase = "prefetch" \/ (phase = "evaluate" /\ x \in queue)

JudgedBefore(x, k) == \A i \in DOMAIN judged[x] : judged[x][i] < k

\* A frame is whole and of ended candles.  What the scan may still evaluate x
\* on is new: its result is, and so is a cached frame that is not due, since
\* all frames of earlier scans are due when a scan begins.
SymbolInv(x) ==
  /\ LastOf(x) \in Nat /\ frames[x] = 1..LastOf(x)
  /\ frames[x] # {} => LastOf(x) * Interval + CompletionBuffer <= clock
  /\ results[x] \in Int /\ results[x] <= LastOf(x)
  /\ judged[x] \in Seq(Int)
  /\ \A i \in DOMAIN judged[x] : judged[x][i] <= LastOf(x)
  /\ Unevaluated(x) => Due(x, scanAt) \/ JudgedBefore(x, LastOf(x))
  /\ Unevaluated(x) /\ results[x] > 0 => JudgedBefore(x, results[x])
  /\ phase = "wait" => Due(x, target)
  /\ \A i, j \in DOMAIN judged[x] : i < j => judged[x][i] < judged[x][j]

CandleInv ==
  /\ published \in Int /\ target \in Int
  /\ DOMAIN frames = Symbol /\ frames = [x \in Symbol |-> frames[x]]
  /\ results \in [Symbol -> Int]
  /\ judged \in [Symbol -> Seq(Int)]
  /\ \A x \in Symbol : SymbolInv(x)

FramesInv == TaskInv /\ CandleInv

LEMMA DueGrows ==
  ASSUME NEW x \in Symbol, SymbolInv(x), NEW t \in Int, NEW u \in Int, t <= u, Due(x, t)
  PROVE  Due(x, u)
<1>1. (LastOf(x) + 1) * Interval + CompletionBuffer \in Int
  BY BufferAssumption DEF SymbolInv
<1> QED
  BY <1>1 DEF Due, LastOf

\* A step that leaves frame and judgements of x alone, and whose result for x
\* is none, the old one or a new candle.
LEMMA SymbolKeeps ==
  ASSUME NEW x \in Symbol, SymbolInv(x), clock \in Int, clock' \in Int, clock' >= clock,
         frames'[x] = frames[x], judged'[x] = judged[x],
         results'[x] \in Int, results'[x] <= LastOf(x),
         results'[x] > 0 => results'[x] = results[x] \/ JudgedBefore(x, results'[x]),
         Unevaluated(x)' => Unevaluated(x) /\ scanAt' = scanAt,
         phase' = "wait" => phase = "wait" /\ target' = target
  PROVE  SymbolInv(x)'
<1>1. LastOf(x)' = LastOf(x) /\ \A t : Due(x, t)' = Due(x, t)
  BY DEF LastOf, Due
<1>2. \A k : JudgedBefore(x, k)' = JudgedBefore(x, k)
  BY DEF JudgedBefore
<1>3. frames'[x] # {} => LastOf(x) * Interval + CompletionBuffer <= clock'
  <2>1. LastOf(x) * Interval + CompletionBuffer \in Int
    BY BufferAssumption DEF SymbolInv
  <2> QED
    BY <2>1 DEF SymbolInv
<1>4. Unevaluated(x)' => Due(x, scanAt)' \/ JudgedBefore(x, LastOf(x))'
  BY <1>1, <1>2 DEF SymbolInv, JudgedBefore
<1>5. Unevaluated(x)' /\ results'[x] > 0 => JudgedBefore(x, results[x])'
  BY <1>2 DEF SymbolInv, JudgedBefore
<1>6. phase' = "wait" => Due(x, target)'
  BY <1>1 DEF SymbolInv, Due
<1> HIDE DEF Unevaluated, JudgedBefore, Due
<1> QED
  BY <1>1, <1>3, <1>4, <1>5, <1>6 DEF SymbolInv

\* The frame of x is fetched: it grows by new candles, or not.
LEMMA FrameGrows ==
  ASSUME NEW x \in Symbol, SymbolInv(x), published \in Int, clock \in Int,
         NEW now \in Int, now <= clock, NEW advance \in BOOLEAN,
         frames'[x] = Merged(frames[x], Answer(x, now)), judged'[x] = judged[x],
         results'[x] = IF advance THEN Advanced(x, frames'[x]) ELSE results[x],
         UNCHANGED <<clock, scanAt, phase, queue>>, phase # "wait"
  PROVE  SymbolInv(x)'
<1> DEFINE n == LastOf(x)  m == Latest(frames'[x])
<1>1. n \in Nat /\ frames[x] = 1..n
  BY DEF SymbolInv
<1>2. /\ m \in Nat /\ frames'[x] = 1..m /\ m >= n
      /\ m > n => m * Interval + CompletionBuffer <= now
  BY <1>1, MergedIsWhole DEF LastOf
<1>3. \A i \in DOMAIN judged[x] : judged[x][i] \in Int /\ judged[x][i] <= n
  BY DEF SymbolInv
<1>4. results[x] \in Int /\ results[x] <= n
  BY DEF SymbolInv
<1> HIDE DEF n, m
<1>5. frames'[x] # {} => m * Interval + CompletionBuffer <= clock'
  <2>1. CASE m = n
    <3>1. frames'[x] = frames[x]
      BY <1>1, <1>2, <2>1
    <3> QED
      BY <2>1, <3>1 DEF SymbolInv, n
  <2>2. CASE m > n
    <3>1. m * Interval + CompletionBuffer \in Int
      BY <1>2, BufferAssumption
    <3> QED
      BY <1>2, <2>2, <3>1
  <2> QED
    BY <1>1, <1>2, <2>1, <2>2
<1>6. CASE m = n
  <2>1. frames'[x] = frames[x]
    BY <1>1, <1>2, <1>6
  <2>2. Unevaluated(x)' => Due(x, scanAt)' \/ JudgedBefore(x, LastOf(x))'
    BY <2>1 DEF SymbolInv, Unevaluated, Due, JudgedBefore, LastOf
  <2>3. frames[x] = {} => m = 0
    <3>1. n # 0 => 1 \in 1..n
      BY <1>1
    <3> QED
      BY <1>1, <1>6, <3>1
  <2>4. results'[x] \in {0, results[x]}
    <3>1. Latest(frames'[x]) = m /\ Latest(frames[x]) = n
      BY DEF LastOf, m, n
    <3> QED
      BY <1>1, <1>6, <2>3, <3>1 DEF Advanced
  <2>5. Unevaluated(x)' /\ results'[x] > 0 => JudgedBefore(x, results[x])'
    BY <1>4, <2>4 DEF SymbolInv, Unevaluated, JudgedBefore
  <2>6. results'[x] \in Int /\ results'[x] <= m
    BY <1>1, <1>4, <1>6, <2>4
  <2>7. \A i \in DOMAIN judged'[x] : judged'[x][i] <= m
    BY <1>3, <1>6
  <2> HIDE DEF Unevaluated, JudgedBefore
  <2> QED
    BY <1>2, <1>5, <2>2, <2>5, <2>6, <2>7 DEF SymbolInv, LastOf, m
<1>7. CASE m > n
  <2>1. \A i \in DOMAIN judged'[x] : judged'[x][i] < m
    BY <1>1, <1>2, <1>3, <1>7
  <2>2. JudgedBefore(x, LastOf(x))'
    BY <2>1 DEF JudgedBefore, LastOf, m
  <2>3. results'[x] \in {m, 0, results[x]}
    BY DEF Advanced, m
  <2>4. results'[x] \in Int /\ results'[x] <= m
    BY <1>1, <1>2, <1>4, <1>7, <2>3
  <2>5. Unevaluated(x)' /\ results'[x] > 0 => JudgedBefore(x, results[x])'
    <3>1. CASE results'[x] = m
      BY <2>1, <3>1 DEF JudgedBefore
    <3>2. CASE results'[x] = results[x]
      BY <3>2 DEF SymbolInv, Unevaluated, JudgedBefore
    <3>3. CASE results'[x] = 0
      BY <3>3
    <3> QED
      BY <2>3, <3>1, <3>2, <3>3
  <2>6. \A i \in DOMAIN judged'[x] : judged'[x][i] <= m
    BY <1>1, <1>2, <1>3, <1>7
  <2> QED
    BY <1>2, <1>5, <2>2, <2>4, <2>5, <2>6 DEF SymbolInv, LastOf, m
<1> QED
  BY <1>1, <1>2, <1>6, <1>7

\* A step that leaves the frames, the judgements and the scan alone.
LEMMA Quiet ==
  ASSUME TaskInv, CandleInv, UNCHANGED <<frames, results, judged, scanAt, phase, queue, target>>,
         clock' \in Int, clock' >= clock, published' \in Int
  PROVE  CandleInv'
<1>1. ASSUME NEW x \in Symbol
      PROVE  SymbolInv(x)'
  <2>1. SymbolInv(x) /\ clock \in Int
    BY DEF CandleInv, TaskInv
  <2>2. results'[x] = results[x] /\ results[x] \in Int /\ results[x] <= LastOf(x)
    BY <2>1 DEF SymbolInv
  <2>3. Unevaluated(x)' => Unevaluated(x)
    BY DEF Unevaluated
  <2> QED
    BY <2>1, <2>2, <2>3, SymbolKeeps
<1> QED
  BY <1>1 DEF CandleInv

\* A result that is none, or a frame of the cache that was not due.
LEMMA FoundResult ==
  ASSUME TaskInv, CandleInv, NEW s \in Named, NEW r \in Int,
         results' = [results EXCEPT ![s] = r],
         r <= 0 \/ (s \in Symbol => r = LastOf(s) /\ JudgedBefore(s, r)),
         UNCHANGED <<clock, published, frames, judged, scanAt, phase, target>>,
         \A x \in Symbol : Unevaluated(x)' => Unevaluated(x)
  PROVE  CandleInv'
<1>1. ASSUME NEW x \in Symbol
      PROVE  SymbolInv(x)'
  <2>1. SymbolInv(x) /\ clock \in Int /\ results \in [Symbol -> Int]
    BY DEF CandleInv, TaskInv
  <2>2. LastOf(x) \in Nat /\ results[x] <= LastOf(x)
    BY <2>1 DEF SymbolInv
  <2>3. /\ results'[x] \in Int /\ results'[x] <= LastOf(x)
        /\ results'[x] > 0 => results'[x] = results[x] \/ JudgedBefore(x, results'[x])
    BY <2>1, <2>2
  <2>4. phase' = "wait" => phase = "wait" /\ target' = target
    OBVIOUS
  <2> QED
    BY <2>1, <2>3, <2>4, SymbolKeeps
<1>2. results' \in [Symbol -> Int]
  BY DEF CandleInv
<1> QED
  BY <1>1, <1>2 DEF CandleInv

\* A frame that is not due is of a candle later than all judged ones.
LEMMA NotDueIsNew ==
  ASSUME TaskInv, CandleInv, NEW s \in Symbol, Unevaluated(s),
         NEW t \in Int, t >= scanAt, ~Due(s, t)
  PROVE  JudgedBefore(s, LastOf(s))
<1>1. SymbolInv(s) /\ scanAt \in Int
  BY DEF CandleInv, TaskInv
<1>2. ~Due(s, scanAt)
  BY <1>1, DueGrows
<1> QED
  BY <1>1, <1>2 DEF SymbolInv

LEMMA AnsweredKeeps ==
  ASSUME TaskInv, CandleInv, NEW w \in Thread, Answered(w)
  PROVE  CandleInv'
<1> DEFINE s == task[w].symbol
           now == task[w].now
           new == Merged(frames[s], Answer(s, now))
<1>1. /\ task[w].stage = "request" /\ frames' = [frames EXCEPT ![s] = new]
      /\ UNCHANGED <<clock, published, scanAt, phase, queue, judged, target>>
      /\ results' = IF task[w].advance
                      THEN [results EXCEPT ![s] = Advanced(s, new)] ELSE results
  BY DEF Answered
<1>2. /\ now \in Int /\ now <= clock /\ clock \in Int /\ task[w].advance \in BOOLEAN
      /\ published \in Int
  BY DEF TaskInv, TaskShape, CandleInv
<1>3. phase # "wait"
  <2>1. w \in Pool \/ w = Main
    BY ThreadAssumption
  <2> QED
    BY <1>1, <2>1 DEF TaskInv
<1>4. ASSUME NEW x \in Symbol
      PROVE  SymbolInv(x)'
  <2>1. SymbolInv(x) /\ results \in [Symbol -> Int] /\ x \in DOMAIN frames
    BY DEF CandleInv
  <2>2. CASE x = s
    <3>1. /\ frames'[x] = Merged(frames[x], Answer(x, now)) /\ judged'[x] = judged[x]
          /\ results'[x] = IF task[w].advance THEN Advanced(x, frames'[x]) ELSE results[x]
      BY <1>1, <2>1, <2>2
    <3> HIDE DEF s, now, new
    <3> QED
      BY <1>1, <1>2, <1>3, <2>1, <3>1, FrameGrows
  <2>3. CASE x # s
    <3>1. /\ frames'[x] = frames[x] /\ judged'[x] = judged[x]
          /\ results'[x] = results[x]
      BY <1>1, <2>1, <2>3
    <3>2. results[x] \in Int /\ results[x] <= LastOf(x)
      BY <2>1 DEF SymbolInv
    <3>3. Unevaluated(x)' => Unevaluated(x)
      BY <1>1 DEF Unevaluated
    <3> QED
      BY <1>1, <1>2, <1>3, <2>1, <3>1, <3>2, <3>3, SymbolKeeps
  <2> QED
    BY <2>2, <2>3
<1>5. results' \in [Symbol -> Int]
  <2>1. CASE s \in Symbol
    <3>1. results'[s] \in Int
      BY <1>4, <2>1 DEF SymbolInv
    <3> QED
      BY <1>1, <2>1, <3>1 DEF CandleInv
  <2>2. CASE s \notin Symbol
    BY <1>1, <2>2 DEF CandleInv
  <2> QED
    BY <2>1, <2>2
<1>6. DOMAIN frames' = Symbol /\ frames' = [x \in Symbol |-> frames'[x]]
  BY <1>1 DEF CandleInv
<1> QED
  BY <1>1, <1>4, <1>5, <1>6 DEF CandleInv

LEMMA EvaluateKeeps ==
  ASSUME TaskInv, CandleInv, NEW s \in Symbol, Evaluate(s)
  PROVE  CandleInv'
<1>1. /\ phase = "evaluate" /\ s \in queue /\ queue' = queue \ {s}
      /\ UNCHANGED <<clock, published, frames, results, scanAt, phase, target>>
      /\ \/ UNCHANGED judged
         \/ /\ results[s] > 0
            /\ judged' = [judged EXCEPT ![s] = Append(judged[s], results[s])]
  BY DEF Evaluate
<1>2. clock \in Int /\ judged \in [Symbol -> Seq(Int)] /\ results \in [Symbol -> Int]
  BY DEF TaskInv, CandleInv
<1>3. \A x \in Symbol : Unevaluated(x)' => Unevaluated(x) /\ x # s
  BY <1>1 DEF Unevaluated
<1>4. ASSUME NEW x \in Symbol, judged'[x] = judged[x]
      PROVE  SymbolInv(x)'
  <2>1. SymbolInv(x) /\ results[x] \in Int /\ results[x] <= LastOf(x)
    BY DEF CandleInv, SymbolInv
  <2> QED
    BY <1>1, <1>2, <1>3, <1>4, <2>1, SymbolKeeps
<1>5. ASSUME results[s] > 0, judged' = [judged EXCEPT ![s] = Append(judged[s], results[s])]
      PROVE  SymbolInv(s)'
  <2> DEFINE old == judged[s]  r == results[s]
  <2>1. SymbolInv(s) /\ JudgedBefore(s, r)
    BY <1>1, <1>5 DEF CandleInv, SymbolInv, Unevaluated
  <2>2. old \in Seq(Int) /\ r \in Int /\ r <= LastOf(s) /\ LastOf(s) \in Nat
    BY <2>1 DEF SymbolInv
  <2>3. judged'[s] = Append(old, r)
    BY <1>2, <1>5
  <2>4. \A i \in DOMAIN old : old[i] < r
    BY <2>1 DEF JudgedBefore
  <2>5. \A i, j \in DOMAIN old : i < j => old[i] < old[j]
    BY <2>1 DEF SymbolInv
  <2> HIDE DEF old, r
  <2>6. /\ judged'[s] \in Seq(Int) /\ DOMAIN judged'[s] = 1..(Len(old) + 1)
        /\ judged'[s][Len(old) + 1] = r /\ Len(old) \in Nat
        /\ DOMAIN old = 1..Len(old)
        /\ \A i \in 1..Len(old) : judged'[s][i] = old[i] /\ old[i] \in Int
    BY <2>2, <2>3
  <2>7. ASSUME NEW i \in DOMAIN judged'[s]
        PROVE  judged'[s][i] <= LastOf(s)
    <3>1. CASE i = Len(old) + 1
      BY <2>2, <2>6, <3>1
    <3>2. CASE i # Len(old) + 1
      <4>1. i \in 1..Len(old)
        BY <2>6, <3>2
      <4>2. judged'[s][i] \in Int /\ judged'[s][i] < r
        BY <2>4, <2>6, <4>1
      <4> QED
        BY <2>2, <4>2
    <3> QED
      BY <3>1, <3>2
  <2>8. ASSUME NEW i \in DOMAIN judged'[s], NEW j \in DOMAIN judged'[s], i < j
        PROVE  judged'[s][i] < judged'[s][j]
    <3>1. i \in 1..Len(old)
      BY <2>6, <2>8
    <3>2. CASE j = Len(old) + 1
      BY <2>4, <2>6, <3>1, <3>2
    <3>3. CASE j # Len(old) + 1
      <4>1. j \in 1..Len(old)
        BY <2>6, <3>3
      <4> QED
        BY <2>5, <2>6, <2>8, <3>1, <4>1
    <3> QED
      BY <3>2, <3>3
  <2>9. ~Unevaluated(s)' /\ phase' # "wait"
    BY <1>1, <1>3
  <2>10. LastOf(s)' = LastOf(s)
    BY <1>1 DEF LastOf
  <2> QED
    BY <1>1, <2>1, <2>6, <2>7, <2>8, <2>9, <2>10 DEF SymbolInv
<1>6. \A x \in Symbol : SymbolInv(x)'
  BY <1>1, <1>2, <1>4, <1>5
<1>7. judged' \in [Symbol -> Seq(Int)]
  <2>1. Append(judged[s], results[s]) \in Seq(Int)
    BY <1>2
  <2> QED
    BY <1>1, <1>2, <2>1
<1> QED
  BY <1>1, <1>6, <1>7 DEF CandleInv

\* When a scan begins every frame is due.
LEMMA BeginKeeps ==
  ASSUME TaskInv, CandleInv, BeginScan
  PROVE  CandleInv'
<1>1. /\ phase = "wait" /\ phase' = "prefetch" /\ clock >= target /\ scanAt' = clock
      /\ UNCHANGED <<clock, published, frames, judged, target>>
      /\ results' = [x \in Symbol |-> Missing]
  BY DEF BeginScan
<1>2. ASSUME NEW x \in Symbol
      PROVE  SymbolInv(x)'
  <2>1. SymbolInv(x) /\ clock \in Int /\ target \in Int
    BY DEF CandleInv, TaskInv
  <2>2. Due(x, clock)
    BY <1>1, <2>1, DueGrows DEF SymbolInv
  <2>3. Due(x, scanAt)' /\ LastOf(x)' = LastOf(x)
    BY <1>1, <2>2 DEF Due, LastOf
  <2>4. results'[x] = -1
    BY <1>1 DEF Missing
  <2> HIDE DEF Due
  <2> QED
    BY <1>1, <2>1, <2>3, <2>4 DEF SymbolInv
<1> QED
  BY <1>1, <1>2 DEF CandleInv, Missing

\* The next scan begins when the candle after the last ended one is complete.
LEMMA EndKeeps ==
  ASSUME TaskInv, CandleInv, EndScan
  PROVE  CandleInv'
<1>1. /\ phase' = "wait" /\ target' = NextScan(clock)
      /\ UNCHANGED <<clock, published, frames, judged, results, scanAt>>
  BY DEF EndScan
<1>2. clock \in Int
  BY DEF TaskInv
<1>3. ASSUME NEW n \in Nat, n * Interval + CompletionBuffer <= clock
      PROVE  NextScan(clock) >= (n + 1) * Interval + CompletionBuffer
  <2> DEFINE q == clock \div Interval
  <2>1. q \in Int /\ clock < q * Interval + Interval
    BY <1>2, BufferAssumption
  <2>2. n <= q
    BY <1>2, <1>3, <2>1, BufferAssumption
  <2>3. n * Interval <= q * Interval /\ (n + 1) * Interval = n * Interval + Interval
    BY <2>1, <2>2, BufferAssumption
  <2> QED
    BY <2>1, <2>3, BufferAssumption DEF NextScan
<1>4. ASSUME NEW x \in Symbol
      PROVE  SymbolInv(x)'
  <2>1. SymbolInv(x)
    BY DEF CandleInv
  <2>2. Due(x, NextScan(clock))
    BY <1>3, <2>1 DEF Due, SymbolInv, LastOf
  <2>3. Due(x, target)' /\ LastOf(x)' = LastOf(x) /\ ~Unevaluated(x)'
    BY <1>1, <2>2 DEF Due, LastOf, Unevaluated
  <2> HIDE DEF Due, Unevaluated
  <2> QED
    BY <1>1, <2>1, <2>3 DEF SymbolInv
<1>5. NextScan(clock) \in Int
  BY <1>2, BufferAssumption DEF NextScan
<1> QED
  BY <1>1, <1>4, <1>5 DEF CandleInv

LEMMA CandleStep ==
  ASSUME TaskInv, CandleInv, [Next]_framesVars
  PROVE  CandleInv'
<1> USE DEF scan
<1>0. clock \in Int /\ published \in Int /\ scanAt \in Int /\ scanAt <= clock
  BY DEF TaskInv, CandleInv
<1>1. CASE UNCHANGED framesVars
  BY <1>0, <1>1, Quiet DEF framesVars
<1>2. CASE Tick \/ Publish
  BY <1>0, <1>2, Quiet DEF Tick, Publish
<1>3. ASSUME NEW w \in Thread, Wait(w) \/ Break(w)
      PROVE  CandleInv'
  BY <1>0, <1>3, Quiet DEF Wait, Break
<1>4. ASSUME NEW w \in Thread, Answered(w)
      PROVE  CandleInv'
  BY <1>4, AnsweredKeeps
<1>5. ASSUME NEW w \in Thread, Failed(w)
      PROVE  CandleInv'
  <2>1. CASE UNCHANGED results
    BY <1>0, <1>5, <2>1, Quiet DEF Failed
  <2>2. CASE results' = [results EXCEPT ![task[w].symbol] = 0]
    <3> DEFINE s == task[w].symbol  r == 0
    <3>1. /\ s \in Named /\ results' = [results EXCEPT ![s] = r]
          /\ r \in Int /\ r <= 0
      BY <2>2 DEF TaskInv, TaskShape
    <3>2. \A x \in Symbol : Unevaluated(x)' => Unevaluated(x)
      BY <1>5 DEF Failed, Unevaluated
    <3>3. UNCHANGED <<clock, published, frames, judged, scanAt, phase, target>>
      BY <1>5 DEF Failed
    <3> HIDE DEF s, r
    <3> QED
      BY <3>1, <3>2, <3>3, FoundResult
  <2> QED
    BY <1>5, <2>1, <2>2 DEF Failed
<1>6. ASSUME NEW w \in Pool, NEW s \in Symbol, Take(w, s)
      PROVE  CandleInv'
  <2>1. /\ phase = "prefetch"
        /\ UNCHANGED <<clock, published, frames, judged, scanAt, phase, target>>
    BY <1>6 DEF Take
  <2>2. \A x \in Symbol : Unevaluated(x)
    BY <2>1 DEF Unevaluated
  <2>3. CASE UNCHANGED results
    <3>1. \A x \in Symbol : SymbolInv(x) /\ results[x] \in Int /\ results[x] <= LastOf(x)
      BY DEF CandleInv, SymbolInv
    <3>2. \A x \in Symbol : SymbolInv(x)'
      BY <1>0, <2>1, <2>2, <2>3, <3>1, SymbolKeeps
    <3> QED
      BY <2>1, <2>3, <3>2 DEF CandleInv
  <2>4. CASE ~Due(s, scanAt) /\ results' = [results EXCEPT ![s] = Latest(frames[s])]
    <3>1. JudgedBefore(s, LastOf(s))
      BY <1>0, <2>2, <2>4, NotDueIsNew
    <3>2. LastOf(s) \in Int /\ s \in Named
      BY DEF CandleInv, SymbolInv, Named
    <3>3. results' = [results EXCEPT ![s] = LastOf(s)]
      BY <2>4 DEF LastOf
    <3> QED
      BY <2>1, <2>2, <3>1, <3>2, <3>3, FoundResult
  <2> QED
    BY <1>6, <2>3, <2>4 DEF Take
<1>7. ASSUME NEW s \in Symbol, FetchTrend(s)
      PROVE  CandleInv'
  <2>1. UNCHANGED <<clock, published, frames, judged, scanAt, phase, queue, target>>
    BY <1>7 DEF FetchTrend
  <2>2. Unevaluated(s) /\ \A x \in Symbol : Unevaluated(x)' => Unevaluated(x)
    BY <1>7, <2>1 DEF FetchTrend, Unevaluated
  <2>3. CASE UNCHANGED results
    BY <1>0, <2>1, <2>3, Quiet
  <2>4. CASE ~Due(s, clock) /\ results' = [results EXCEPT ![s] = Latest(frames[s])]
    <3>1. JudgedBefore(s, LastOf(s))
      BY <1>0, <2>2, <2>4, NotDueIsNew
    <3>2. LastOf(s) \in Int /\ s \in Named
      BY DEF CandleInv, SymbolInv, Named
    <3>3. results' = [results EXCEPT ![s] = LastOf(s)]
      BY <2>4 DEF LastOf
    <3> QED
      BY <2>1, <2>2, <3>1, <3>2, <3>3, FoundResult
  <2> QED
    BY <1>7, <2>3, <2>4 DEF FetchTrend
<1>8. CASE FetchEntry
  <2> DEFINE s == task[Main].symbol  now == task[Main].now
  <2>1. UNCHANGED <<clock, published, frames, judged, scanAt, phase, queue, target>>
    BY <1>8 DEF FetchEntry
  <2>2. /\ s \in Named /\ now \in Int /\ now >= scanAt
        /\ phase = "evaluate" /\ s \in queue
    BY <1>8, ThreadAssumption DEF FetchEntry, TaskInv, TaskShape
  <2>3. \A x \in Symbol : Unevaluated(x)' => Unevaluated(x)
    BY <2>1 DEF Unevaluated
  <2>4. CASE UNCHANGED results
    BY <1>0, <2>1, <2>4, Quiet
  <2>5. CASE ~Due(s, now) /\ results' = [results EXCEPT ![s] = Latest(frames[s])]
    <3> HIDE DEF s, now
    <3>1. CASE s \in Symbol
      <4>1. JudgedBefore(s, LastOf(s))
        BY <2>2, <2>5, <3>1, NotDueIsNew DEF Unevaluated
      <4>2. LastOf(s) \in Int
        BY <3>1 DEF CandleInv, SymbolInv
      <4>3. results' = [results EXCEPT ![s] = LastOf(s)]
        BY <2>5 DEF LastOf
      <4> QED
        BY <2>1, <2>2, <2>3, <4>1, <4>2, <4>3, FoundResult
    <3>2. CASE s \notin Symbol
      <4>1. results' = results
        BY <2>5, <3>2 DEF CandleInv
      <4> QED
        BY <1>0, <2>1, <4>1, Quiet
    <3> QED
      BY <3>1, <3>2
  <2> QED
    BY <1>8, <2>4, <2>5 DEF FetchEntry
<1>9. CASE EndPrefetch
  <2>1. /\ phase = "prefetch" /\ phase' = "evaluate"
        /\ UNCHANGED <<clock, published, frames, results, judged, scanAt, target>>
    BY <1>9 DEF EndPrefetch
  <2>2. \A x \in Symbol : Unevaluated(x)
    BY <2>1 DEF Unevaluated
  <2>3. \A x \in Symbol : SymbolInv(x) /\ results[x] \in Int /\ results[x] <= LastOf(x)
    BY DEF CandleInv, SymbolInv
  <2>4. \A x \in Symbol : SymbolInv(x)'
    BY <1>0, <2>1, <2>2, <2>3, SymbolKeeps
  <2> QED
    BY <2>1, <2>4 DEF CandleInv
<1>10. ASSUME NEW s \in Symbol, Evaluate(s)
       PROVE  CandleInv'
  BY <1>10, EvaluateKeeps
<1> QED
  BY <1>1, <1>2, <1>3, <1>4, <1>5, <1>6, <1>7, <1>8, <1>9, <1>10, BeginKeeps, EndKeeps,
     ThreadAssumption DEF Next

----------------------------------------------------------------------------
(* The theorems about frames *)

LEMMA FramesInitInv == Init => FramesInv
<1> SUFFICES ASSUME Init PROVE FramesInv
  OBVIOUS
<1>1. clock = 0
  BY DEF Init, LimiterInit
<1>2. TaskInv
  BY <1>1, IdleShape, ThreadAssumption DEF Init, TaskInv
<1>3. ASSUME NEW x \in Symbol
      PROVE  SymbolInv(x)
  <2>1. frames[x] = {} /\ judged[x] = <<>> /\ results[x] = -1 /\ phase = "wait"
    BY DEF Init, Missing
  <2>2. LastOf(x) = 0 /\ Due(x, target)
    BY <2>1 DEF LastOf, Latest, Due
  <2>3. DOMAIN judged[x] = {} /\ <<>> \in Seq(Int)
    BY <2>1
  <2>4. ~Unevaluated(x)
    BY <2>1 DEF Unevaluated
  <2> QED
    BY <2>1, <2>2, <2>3, <2>4 DEF SymbolInv
<1>4. CandleInv
  <2>1. target \in Int
    BY BufferAssumption DEF Init, NextScan
  <2>2. <<>> \in Seq(Int)
    OBVIOUS
  <2> QED
    BY <1>3, <2>1, <2>2 DEF Init, CandleInv, Missing
<1> QED
  BY <1>2, <1>4 DEF FramesInv

THEOREM FramesInvHolds == Spec => []FramesInv
<1>1. Init => FramesInv
  BY FramesInitInv
<1>2. FramesInv /\ [Next]_framesVars => FramesInv'
  BY TaskStep, CandleStep DEF FramesInv
<1> QED
  BY <1>1, <1>2, PTL DEF Spec

\* Every frame is the whole history up to its last candle, whatever requests
\* failed, came late or answered with candles already known.
THEOREM FramesAreWhole == Spec => []HistoryWhole
<1>1. FramesInv => HistoryWhole
  BY DEF FramesInv, CandleInv, SymbolInv, HistoryWhole, LastOf
<1> QED
  BY <1>1, FramesInvHolds, PTL

\* No symbol is evaluated twice on a candle, nor on an older one.
THEOREM CandlesOnce == Spec => []NoCandleTwice
<1>1. FramesInv => NoCandleTwice
  BY DEF FramesInv, CandleInv, SymbolInv, NoCandleTwice
<1> QED
  BY <1>1, FramesInvHolds, PTL

===============================================================================
