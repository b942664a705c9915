------------------------ MODULE EodSquareoffProofs ------------------------
(***************************************************************************)
(* The safety of the end-of-day supervisor, for every number of            *)
(* supervisors and exits and every quantity.                               *)
(*                                                                         *)
(* The lock makes one supervisor at most run.  A stop that the file names  *)
(* was accepted long ago, so it is in flight only if it is listed as       *)
(* active, and nothing revives it: a supervisor beyond the cancellation    *)
(* may rely on that.  As long as no quantity was read over another order   *)
(* in flight (overlap), the quantity it read is therefore still the        *)
(* account's when it sends, and nothing else is then at work.              *)
(***************************************************************************)
EXTENDS EodSquareoff, TLAPS

Passing == {"top", "orders", "cancel", "await", "refresh", "match", "submit",
            "pause", "final", "clear"}

StopOver == ~Broker!InFlight(Stop)

\* Who runs holds the lock.
LockInv == \A p \in Proc : lock = p <=> Running(p)

\* What is in flight has shares left to close; what was not sent has no fill.
OrderInv ==
  \A o \in Order :
    /\ Broker!InFlight(o) => book[o].filled < book[o].qty
    /\ Broker!Is(o, {"NONE"}) => book[o].filled = 0

StopInv ==
  /\ ~Broker!Is(Stop, {"SENT"})
  /\ \A p \in Proc : pc[p] \in {"refresh", "match", "submit"} => StopOver
  /\ StopEndsFirst

\* Nothing is ever sent for no share.
SeenInv == \A p \in Proc : pc[p] \in {"match", "submit"} => seen[p] > 0

Fits(o) == book[o].qty - book[o].filled <= net

AloneInv ==
  ~overlap =>
    /\ net >= 0
    /\ \A o, p \in Order : Broker!InFlight(o) /\ Broker!InFlight(p) => o = p
    /\ \A o \in Order : Broker!InFlight(o) => Fits(o)
    /\ \A p \in Proc :
         /\ pc[p] \in {"match", "submit"} =>
              seen[p] = net /\ \A o \in Order : ~Broker!InFlight(o)
         /\ pc[p] = "clear" => net = 0

\* Once the local state is cleared no supervisor gets past loading it.
ClearInv ==
  ~file => /\ \A p \in Proc : pc[p] \notin Passing
           /\ overlap \/ net = 0

EodInv == TypeOK /\ LockInv /\ OrderInv /\ StopInv /\ SeenInv /\ AloneInv /\ ClearInv

----------------------------------------------------------------------------
USE OrderAssumption, QuantityAssumption, ProcAssumption DEF Order

Labels == {"off", "busy", "load", "nothing", "top", "orders", "cancel", "await",
           "refresh", "match", "submit", "pause", "final", "clear", "complete",
           "failed", "down"}

\* A step of one supervisor that leaves the broker and the local state alone
\* and takes it neither to a quantity nor to the end of the pass.
LEMMA Calm ==
  ASSUME EodInv, UNCHANGED <<market, file, lock, overlap>>, late' \in BOOLEAN,
         NEW p \in Proc, Running(p),
         NEW label \in Labels, Goto(p, label),
         label \in {"top", "orders", "cancel", "await", "refresh", "pause", "final"},
         file,
         label = "refresh" => StopOver
  PROVE  EodInv'
<1> USE DEF EodInv, market, Goto, Broker!InFlight, Broker!Is, Labels
<1>1. TypeOK'
  BY DEF TypeOK, Broker!TypeOK
<1>2. LockInv'
  BY DEF TypeOK, LockInv, Running
<1>3. OrderInv' /\ ClearInv'
  BY DEF OrderInv, ClearInv
<1>4. StopInv'
  BY DEF TypeOK, StopInv, StopOver, StopEndsFirst
<1>5. SeenInv' /\ AloneInv'
  BY DEF TypeOK, SeenInv, AloneInv, Fits
<1> QED
  BY <1>1, <1>2, <1>3, <1>4, <1>5

\* The end of a supervisor, by itself or by a crash.
LEMMA Ends ==
  ASSUME EodInv, UNCHANGED <<market, late, overlap>>,
         NEW p \in Proc, Running(p),
         NEW label \in {"nothing", "complete", "failed", "down"}, Return(p, label),
         \/ UNCHANGED file
         \/ pc[p] = "clear" /\ file' = FALSE
  PROVE  EodInv'
<1> USE DEF EodInv, market, Goto, Return, Broker!InFlight, Broker!Is
<1>1. TypeOK'
  <2>1. file' \in BOOLEAN
    BY DEF TypeOK
  <2>2. lock' \in Proc \cup {NoProc} /\ seen' \in [Proc -> 0..Quantity]
    BY DEF TypeOK
  <2> QED
    BY <2>1, <2>2 DEF TypeOK, Broker!TypeOK
<1>2. LockInv'
  BY DEF TypeOK, LockInv, Running
<1>3. \A q \in Proc : pc'[q] \notin Passing
  BY DEF TypeOK, LockInv, Running, Passing
<1>4. OrderInv' /\ StopInv' /\ SeenInv'
  BY <1>3 DEF OrderInv, StopInv, SeenInv, StopEndsFirst, Passing
<1>5. AloneInv'
  BY <1>3 DEF AloneInv, Fits, Passing
<1>6. ClearInv'
  BY <1>3 DEF ClearInv, AloneInv
<1> QED
  BY <1>1, <1>2, <1>4, <1>5, <1>6

\* A supervisor comes up; without the lock it goes no further.
LEMMA StartKeeps ==
  ASSUME EodInv, NEW p \in Proc, Start(p)
  PROVE  EodInv'
<1> USE DEF EodInv, Start, At, Quiet, market, Goto, Broker!InFlight, Broker!Is
<1>1. TypeOK'
  BY DEF TypeOK, Broker!TypeOK
<1>2. LockInv'
  BY DEF TypeOK, LockInv, Running
<1>3. \A q \in Proc : pc'[q] \in Passing => q # p /\ pc'[q] = pc[q] /\ seen'[q] = seen[q]
  BY DEF TypeOK, Passing
<1>4. OrderInv' /\ StopInv' /\ SeenInv'
  BY <1>3 DEF OrderInv, StopInv, SeenInv, StopEndsFirst, StopOver, Passing
<1>5. AloneInv' /\ ClearInv'
  BY <1>3 DEF AloneInv, ClearInv, Fits, Passing
<1> QED
  BY <1>1, <1>2, <1>4, <1>5

\* Over a flat account the local state may go.
LEMMA ToClear ==
  ASSUME EodInv, UNCHANGED <<market, file, late, lock, overlap>>,
         NEW p \in Proc, Running(p), Goto(p, "clear"), net = 0, file
  PROVE  EodInv'
<1> USE DEF EodInv, market, Goto, Broker!InFlight, Broker!Is
<1>1. TypeOK' /\ LockInv'
  BY DEF TypeOK, Broker!TypeOK, LockInv, Running
<1>2. OrderInv' /\ StopInv' /\ SeenInv' /\ ClearInv'
  BY DEF TypeOK, OrderInv, StopInv, SeenInv, StopEndsFirst, StopOver, ClearInv
<1>3. AloneInv'
  BY DEF TypeOK, AloneInv, Fits
<1> QED
  BY <1>1, <1>2, <1>3

\* The quantity is read beyond the stop; were another order in flight, the
\* reading is an overlap.
LEMMA RefreshKeeps ==
  ASSUME EodInv, NEW p \in Proc, Refresh(p)
  PROVE  EodInv'
<1> USE DEF EodInv, Refresh, At, market, Broker!InFlight, Broker!Is
<1>f. file
  BY DEF ClearInv, Passing
<1>1. TypeOK'
  BY DEF TypeOK, Broker!TypeOK
<1>2. LockInv' /\ OrderInv' /\ ClearInv'
  BY <1>f DEF TypeOK, LockInv, Running, OrderInv, ClearInv
<1>3. StopInv' /\ SeenInv'
  BY DEF TypeOK, StopInv, StopOver, StopEndsFirst, SeenInv, Broker!TypeOK
<1>4. AloneInv'
  <2> SUFFICES ASSUME ~overlap' PROVE AloneInv'
    BY DEF AloneInv
  <2>1. ~overlap /\ \A o \in Order \ {Stop} : ~Broker!InFlight(o)
    BY DEF TypeOK
  <2>2. \A o \in Order : ~Broker!InFlight(o)
    BY <2>1 DEF StopInv, StopOver
  <2> QED
    BY <2>1, <2>2 DEF TypeOK, AloneInv, Fits
<1> QED
  BY <1>1, <1>2, <1>3, <1>4

\* Where nothing is listed as active the named stop is over, and a supervisor
\* goes on to send what it read.
LEMMA MatchKeeps ==
  ASSUME EodInv, NEW p \in Proc, Match(p)
  PROVE  EodInv'
<1> USE DEF EodInv, Match, At, Quiet, market, Goto, Broker!InFlight, Broker!Is
<1>f. file
  BY DEF ClearInv, Passing
<1>1. TypeOK'
  BY DEF TypeOK, Broker!TypeOK
<1>2. LockInv' /\ OrderInv' /\ ClearInv'
  BY <1>f DEF TypeOK, LockInv, Running, OrderInv, ClearInv
<1>3. StopInv' /\ SeenInv'
  BY DEF TypeOK, StopInv, StopOver, StopEndsFirst, SeenInv
<1>4. AloneInv'
  BY DEF TypeOK, AloneInv, Fits
<1> QED
  BY <1>1, <1>2, <1>3, <1>4

LEMMA CancelKeeps ==
  ASSUME EodInv, NEW p \in Proc, CancelStop(p)
  PROVE  EodInv'
<1> USE DEF EodInv, CancelStop, At, market, Goto, Broker!Is
<1>f. file
  BY DEF ClearInv, Passing
<1>1. /\ book' \in [Order -> Broker!Entry] /\ net' = net
      /\ \A o \in Order : /\ book'[o].status = book[o].status
                          /\ book'[o].qty = book[o].qty
                          /\ book'[o].filled = book[o].filled
  <2>1. CASE book[Stop].cancels = 0
    <3> DEFINE new == [book[Stop] EXCEPT !.cancels = @ + 1]
    <3>1. book' = [book EXCEPT ![Stop] = new] /\ net' = net
      BY <2>1 DEF Broker!AskCancel
    <3>2. new \in Broker!Entry
      BY <2>1 DEF TypeOK, Broker!TypeOK, Broker!Entry
    <3>3. book' \in [Order -> Broker!Entry]
      BY <3>1, <3>2 DEF TypeOK, Broker!TypeOK
    <3> QED
      BY <3>1, <3>3 DEF TypeOK, Broker!TypeOK, Broker!Entry
  <2> QED
    BY <2>1 DEF TypeOK, Broker!TypeOK
<1>2. TypeOK'
  BY <1>1 DEF TypeOK, Broker!TypeOK
<1>3. LockInv' /\ OrderInv' /\ ClearInv'
  BY <1>1, <1>f DEF TypeOK, LockInv, Running, OrderInv, ClearInv, Broker!InFlight
<1>4. StopInv' /\ SeenInv'
  BY <1>1 DEF TypeOK, StopInv, StopOver, StopEndsFirst, SeenInv, Broker!InFlight
<1>5. AloneInv'
  BY <1>1 DEF TypeOK, AloneInv, Fits, Broker!InFlight
<1> QED
  BY <1>2, <1>3, <1>4, <1>5

\* What is sent is the quantity that was read; as long as nothing overlapped,
\* it is the account's and nothing else is at work.
LEMMA SubmitKeeps ==
  ASSUME EodInv, NEW p \in Proc, Submit(p)
  PROVE  EodInv'
<1> USE DEF EodInv, Submit, At, market, Goto, Broker!InFlight, Broker!Is
<1>f. file
  BY DEF ClearInv, Passing
<1>1. PICK x \in Exit : Broker!Submit(x, seen[p])
  OBVIOUS
<1>2. /\ seen[p] \in 0..Quantity /\ seen[p] > 0
      /\ StopOver /\ book[x].filled = 0 /\ book[x].status = "NONE"
  BY <1>1 DEF TypeOK, SeenInv, StopInv, OrderInv, Broker!Submit
<1>3. /\ book' \in [Order -> Broker!Entry] /\ net' = net
      /\ \A o \in Order : o # x => book'[o] = book[o]
      /\ book'[x].status = "SENT" /\ book'[x].qty = seen[p] /\ book'[x].filled = 0
  <2> DEFINE new == [book[x] EXCEPT !.status = "SENT", !.qty = seen[p]]
  <2>1. book' = [book EXCEPT ![x] = new] /\ net' = net
    BY <1>1 DEF Broker!Submit, TypeOK, Broker!TypeOK
  <2>2. /\ new \in Broker!Entry /\ new.status = "SENT" /\ new.qty = seen[p]
        /\ new.filled = 0
    <3>1. book[x] \in Broker!Entry
      BY DEF TypeOK, Broker!TypeOK
    <3>2. seen[p] \in 0..Quantity /\ book[x].filled = 0
      BY <1>2
    <3> QED
      BY ONLY <3>1, <3>2 DEF Broker!Entry, Broker!Status
  <2> HIDE DEF new
  <2> QED
    BY <2>1, <2>2 DEF TypeOK, Broker!TypeOK
<1>4. TypeOK'
  BY <1>3 DEF TypeOK, Broker!TypeOK
<1>5. LockInv' /\ ClearInv'
  BY <1>f DEF TypeOK, LockInv, Running, ClearInv
<1>6. OrderInv' /\ StopInv' /\ SeenInv'
  BY <1>2, <1>3 DEF TypeOK, OrderInv, StopInv, StopOver, StopEndsFirst, SeenInv
<1>7. AloneInv'
  <2> SUFFICES ASSUME ~overlap' PROVE AloneInv'
    BY DEF AloneInv
  <2>1. /\ ~overlap /\ net >= 0 /\ seen[p] = net
        /\ \A o \in Order : ~Broker!InFlight(o)
    BY DEF AloneInv
  <2>2. \A o \in Order : Broker!InFlight(o)' => o = x
    BY <1>3, <2>1
  <2>3. \A q \in Proc : pc'[q] \notin {"match", "submit", "clear"}
    BY DEF TypeOK, LockInv, Running
  <2> QED
    BY <1>3, <2>1, <2>2, <2>3 DEF AloneInv, Fits, TypeOK
<1> QED
  BY <1>4, <1>5, <1>6, <1>7

----------------------------------------------------------------------------
(* The broker *)

\* A step of the broker that closes no share leaves an order in flight in
\* flight or ends it, and puts none in flight.
LEMMA StatusKeeps ==
  ASSUME EodInv, NEW o \in Order, Broker!InFlight(o),
         NEW s \in Broker!Status \ {"NONE", "SENT"}, Broker!Become(o, s),
         UNCHANGED <<file, lock, pc, seen, late, overlap>>
  PROVE  EodInv'
<1> USE DEF EodInv, Broker!InFlight, Broker!Is
<1>1. /\ book' \in [Order -> Broker!Entry] /\ net' = net
      /\ \A x \in Order : /\ book'[x].qty = book[x].qty
                          /\ book'[x].filled = book[x].filled
                          /\ x # o => book'[x].status = book[x].status
      /\ book'[o].status = s
  <2> DEFINE new == [book[o] EXCEPT !.status = s]
  <2>1. book' = [book EXCEPT ![o] = new] /\ net' = net
    BY DEF Broker!Become, TypeOK, Broker!TypeOK
  <2>2. /\ new \in Broker!Entry /\ new.status = s
        /\ new.filled = book[o].filled /\ new.qty = book[o].qty
    BY DEF TypeOK, Broker!TypeOK, Broker!Entry
  <2> HIDE DEF new
  <2> QED
    BY <2>1, <2>2 DEF TypeOK, Broker!TypeOK
<1>2. TypeOK' /\ LockInv' /\ ClearInv'
  BY <1>1 DEF TypeOK, Broker!TypeOK, LockInv, Running, ClearInv
<1>3. OrderInv' /\ StopInv' /\ SeenInv'
  BY <1>1 DEF OrderInv, StopInv, StopOver, StopEndsFirst, SeenInv
<1>4. AloneInv'
  BY <1>1 DEF AloneInv, Fits
<1> QED
  BY <1>2, <1>3, <1>4

\* A fill closes one share of an order that fits.
LEMMA FillKeeps ==
  ASSUME EodInv, NEW o \in Order, Broker!Fill(o),
         UNCHANGED <<file, lock, pc, seen, late, overlap>>
  PROVE  EodInv'
<1> USE DEF EodInv, Broker!InFlight, Broker!Is
<1> DEFINE done == book[o].qty - book[o].filled = 1
<1>0. /\ book[o].status = "OPEN" /\ book[o] \in Broker!Entry
      /\ book[o].filled < book[o].qty
      /\ net \in Int /\ net' = net - 1
  BY DEF Broker!Fill, OrderInv, TypeOK, Broker!TypeOK
<1>1. /\ book' \in [Order -> Broker!Entry]
      /\ \A x \in Order : x # o => book'[x] = book[x]
      /\ book'[o].qty = book[o].qty /\ book'[o].filled = book[o].filled + 1
      /\ book'[o].status = IF done THEN "COMPLETE" ELSE "OPEN"
  <2> DEFINE s == IF done THEN "COMPLETE" ELSE "OPEN"
             n == book[o].filled + 1
             new == [book[o] EXCEPT !.filled = n, !.status = s]
  <2>1. book' = [book EXCEPT ![o] = new]
    BY <1>0 DEF Broker!Fill, Broker!Left, TypeOK, Broker!TypeOK
  <2>2. s \in Broker!Status /\ n \in 0..Quantity
    BY <1>0 DEF Broker!Entry, Broker!Status
  <2>3. /\ new \in Broker!Entry
        /\ new.qty = book[o].qty /\ new.filled = n /\ new.status = s
    <3> HIDE DEF s, n
    <3> QED
      BY <1>0, <2>2 DEF Broker!Entry
  <2> HIDE DEF new
  <2> QED
    BY <2>1, <2>3 DEF TypeOK, Broker!TypeOK
<1>2. TypeOK' /\ LockInv'
  BY <1>0, <1>1 DEF TypeOK, Broker!TypeOK, LockInv, Running
<1>3. OrderInv'
  BY <1>0, <1>1 DEF OrderInv, Broker!Entry
<1>4. StopInv' /\ SeenInv'
  BY <1>0, <1>1 DEF StopInv, StopOver, StopEndsFirst, SeenInv
<1>5. ~overlap => book[o].qty - book[o].filled <= net /\ net > 0
  BY <1>0 DEF AloneInv, Fits, Broker!Entry
<1>6. AloneInv'
  <2> SUFFICES ASSUME ~overlap' PROVE AloneInv'
    BY DEF AloneInv
  <2>1. \A x \in Order : Broker!InFlight(x)' => x = o
    BY <1>0, <1>1 DEF AloneInv
  <2>2. Broker!InFlight(o)' => Fits(o)'
    BY <1>0, <1>1, <1>5 DEF Fits, Broker!Entry
  <2>3. \A p \in Proc : pc[p] \notin {"match", "submit", "clear"}
    BY <1>0, <1>5 DEF AloneInv
  <2>4. net' >= 0
    BY <1>0, <1>5
  <2> QED
    BY <2>1, <2>2, <2>3, <2>4 DEF AloneInv
<1>7. ClearInv'
  BY <1>0, <1>5 DEF ClearInv
<1> QED
  BY <1>2, <1>3, <1>4, <1>6, <1>7

LEMMA BrokerKeeps ==
  ASSUME EodInv, NEW o \in Order, BrokerMoves(o)
  PROVE  EodInv'
<1> USE DEF BrokerMoves
<1>1. CASE Broker!Fill(o)
  BY <1>1, FillKeeps
<1>2. CASE ~Broker!Fill(o)
  <2>1. /\ Broker!InFlight(o)
        /\ \E s \in Broker!Status \ {"NONE", "SENT"} : Broker!Become(o, s)
    BY <1>2 DEF Broker!Accept, Broker!Trigger, Broker!Reject, Broker!Lose,
                Broker!Cancel, Broker!InFlight, Broker!Is, Broker!Status
  <2> QED
    BY <2>1, StatusKeeps
<1> QED
  BY <1>1, <1>2

----------------------------------------------------------------------------
(* The invariant *)

LEMMA EodInit == Init => EodInv
<1> SUFFICES ASSUME Init PROVE EodInv
  OBVIOUS
<1> USE DEF Broker!InFlight, Broker!Is
<1>1. PICK o \in {Stop, Leftover}, q \in 0..net,
           s \in {"NONE", "TRIGGER_PENDING", "OPEN"} :
        /\ s = "NONE" <=> q = 0
        /\ book = [x \in Order |->
                     IF x = o THEN [NoOrder EXCEPT !.status = s, !.qty = q]
                              ELSE NoOrder]
  BY ZenonT(30) DEF Init
<1>2. /\ net \in 0..Quantity /\ file = TRUE /\ lock = NoProc /\ late = FALSE
      /\ pc = [p \in Proc |-> "off"] /\ seen = [p \in Proc |-> 0]
      /\ overlap = FALSE
  BY DEF Init
<1>3. /\ book \in [Order -> Broker!Entry]
      /\ \A x \in Order \ {o} : book[x].status = "NONE" /\ book[x].filled = 0
      /\ book[o].status = s /\ book[o].qty = q /\ book[o].filled = 0
  <2> DEFINE new == [NoOrder EXCEPT !.status = s, !.qty = q]
  <2>1. /\ new \in Broker!Entry /\ NoOrder \in Broker!Entry
        /\ new.status = s /\ new.qty = q /\ new.filled = 0
        /\ NoOrder.status = "NONE" /\ NoOrder.filled = 0
    <3>1. q \in 0..Quantity /\ 0 \in 0..Quantity
      BY <1>2
    <3>2. NoOrder \in Broker!Entry /\ s \in Broker!Status
      BY <3>1 DEF NoOrder, Broker!Entry, Broker!Status
    <3> QED
      BY <3>1, <3>2 DEF NoOrder, Broker!Entry
  <2>2. book = [x \in Order |-> IF x = o THEN new ELSE NoOrder]
    BY <1>1
  <2> HIDE DEF new
  <2> QED
    BY <2>1, <2>2
<1>4. TypeOK
  <2>1. Broker!TypeOK /\ net <= Quantity /\ seen \in [Proc -> 0..Quantity]
    BY <1>2, <1>3 DEF Broker!TypeOK
  <2>2. /\ file \in BOOLEAN /\ late \in BOOLEAN /\ overlap \in BOOLEAN
        /\ lock \in Proc \cup {NoProc}
    BY <1>2
  <2> QED
    BY <1>2, <2>1, <2>2 DEF TypeOK
<1>5. LockInv /\ SeenInv /\ ClearInv
  BY <1>2 DEF LockInv, Running, SeenInv, ClearInv
<1>6. OrderInv /\ StopInv
  BY <1>1, <1>2, <1>3 DEF OrderInv, StopInv, StopEndsFirst
<1>7. AloneInv
  <2>1. \A x \in Order : Broker!InFlight(x) => x = o
    BY <1>3
  <2>2. net >= 0 /\ Fits(o)
    BY <1>2, <1>3 DEF Fits
  <2> QED
    BY <1>2, <2>1, <2>2 DEF AloneInv
<1> QED
  BY <1>4, <1>5, <1>6, <1>7 DEF EodInv

LEMMA PassKeeps ==
  ASSUME EodInv, NEW p \in Proc, Pass(p)
  PROVE  EodInv'
<1>r. Running(p)
  BY DEF Pass, Load, Top, Clear, Final, Pause, FindStop, CancelStop, AwaitStop,
         Refresh, Match, Submit, At, Running
<1>f. pc[p] \in Passing => file
  BY DEF EodInv, ClearInv
<1>t. late \in BOOLEAN
  BY DEF EodInv, TypeOK
<1> USE <1>r, <1>f, <1>t DEF Quiet, At, Passing, Labels
<1>1. CASE Load(p)
  BY <1>1, Calm, Ends DEF Load, market
<1>2. CASE Top(p)
  BY <1>2, Calm, ToClear DEF Top, market
<1>3. CASE Clear(p)
  BY <1>3, Ends DEF Clear, market
<1>4. CASE Final(p)
  BY <1>4, Ends, ToClear DEF Final, market
<1>5. CASE Pause(p)
  BY <1>5, Calm DEF Pause, market
<1>6. CASE FindStop(p)
  <2>1. ~Active(Stop) => StopOver
    BY DEF Active, StopOver, EodInv, StopInv, Broker!InFlight, Broker!Is
  <2> QED
    BY <1>6, <2>1, Calm DEF FindStop, market
<1>7. CASE AwaitStop(p)
  <2>1. ~Active(Stop) => StopOver
    BY DEF Active, StopOver, EodInv, StopInv, Broker!InFlight, Broker!Is
  <2> QED
    BY <1>7, <2>1, Calm DEF AwaitStop, market
<1> QED
  BY <1>1, <1>2, <1>3, <1>4, <1>5, <1>6, <1>7, CancelKeeps, RefreshKeeps,
     MatchKeeps, SubmitKeeps DEF Pass

LEMMA EodNext == EodInv /\ [Next]_vars => EodInv'
<1> SUFFICES ASSUME EodInv, [Next]_vars PROVE EodInv'
  OBVIOUS
<1>1. ASSUME NEW p \in Proc, PassFails(p) PROVE EodInv'
  <2>1. Running(p) /\ file
    BY <1>1 DEF PassFails, At, Running, EodInv, ClearInv, Passing
  <2> QED
    BY <1>1, <2>1, Calm DEF PassFails, Quiet, market, EodInv, TypeOK, Labels
<1>2. ASSUME NEW p \in Proc, Crash(p) PROVE EodInv'
  BY <1>2, Ends DEF Crash, Quiet, market
<1>3. ASSUME late' \in BOOLEAN, UNCHANGED <<market, file, lock, pc, seen, overlap>>
      PROVE  EodInv'
  <2> USE DEF EodInv, market, Broker!InFlight, Broker!Is
  <2>1. TypeOK' /\ LockInv' /\ OrderInv'
    BY <1>3 DEF TypeOK, Broker!TypeOK, LockInv, Running, OrderInv
  <2>2. StopInv' /\ SeenInv' /\ AloneInv' /\ ClearInv'
    BY <1>3 DEF StopInv, StopOver, StopEndsFirst, SeenInv, AloneInv, Fits, ClearInv
  <2> QED
    BY <2>1, <2>2
<1>4. CASE Deadline
  BY <1>3, <1>4 DEF Deadline
<1>5. CASE UNCHANGED vars
  BY <1>3, <1>5 DEF vars, EodInv, TypeOK
<1> QED
  BY <1>1, <1>2, <1>4, <1>5, StartKeeps, PassKeeps, BrokerKeeps DEF Next

LEMMA EodInvariant == Spec => []EodInv
BY EodInit, EodNext, PTL DEF Spec

----------------------------------------------------------------------------
(* What is committed, when one order at most is in flight *)

\* The function that the sum over S is defined by.
Sums(f, S) ==
  f = [T \in SUBSET S |->
         IF T = {} THEN 0
         ELSE LET x == CHOOSE x \in T : TRUE IN Broker!Left(x) + f[T \ {x}]]

LEMMA SumDef ==
  ASSUME NEW S, NEW n, \E f : Sums(f, S), \A f : Sums(f, S) => f[S] = n
  PROVE  MapThenSumSet(Broker!Left, S) = n
<1>1. Sums(CHOOSE f : Sums(f, S), S)
  OBVIOUS
<1>2. (CHOOSE f : Sums(f, S))[S] = n
  BY <1>1
<1> QED
  BY <1>2 DEF Sums, MapThenSumSet, MapThenFoldSet

LEMMA SumOfNone ==
  ASSUME NEW S, S = {}
  PROVE  MapThenSumSet(Broker!Left, S) = 0
<1>1. Sums([T \in SUBSET S |-> 0], S)
  BY DEF Sums
<1>2. \A f : Sums(f, S) => f[S] = 0
  BY DEF Sums
<1> QED
  BY <1>1, <1>2, SumDef

LEMMA SumOfOne ==
  ASSUME NEW S, NEW o, S = {o}, Broker!Left(o) \in Int
  PROVE  MapThenSumSet(Broker!Left, S) = Broker!Left(o)
<1>1. SUBSET S = {{}, S} /\ (CHOOSE x \in S : TRUE) = o /\ S \ {o} = {}
  OBVIOUS
<1>2. Sums([T \in SUBSET S |-> IF T = {} THEN 0 ELSE Broker!Left(o)], S)
  BY <1>1 DEF Sums
<1>3. \A f : Sums(f, S) => f[S] = Broker!Left(o)
  BY <1>1 DEF Sums
<1> QED
  BY <1>2, <1>3, SumDef

LEMMA CommittedFits ==
  ASSUME EodInv, ~overlap
  PROVE  Committed <= net /\ (net = 0 => Committed = 0)
<1> DEFINE atWork == {o \in Order : Broker!InFlight(o)}
<1>1. net \in Nat
  BY DEF EodInv, TypeOK, Broker!TypeOK, AloneInv
<1>2. CASE atWork = {}
  BY <1>1, <1>2, SumOfNone DEF Committed
<1>3. CASE atWork # {}
  <2>1. PICK o \in Order : atWork = {o} /\ Broker!InFlight(o)
    BY <1>3 DEF EodInv, AloneInv
  <2>2. Broker!Left(o) \in 1..net
    BY <1>1, <2>1 DEF EodInv, AloneInv, Fits, OrderInv, TypeOK, Broker!TypeOK,
                      Broker!Entry, Broker!Left
  <2>3. MapThenSumSet(Broker!Left, atWork) = Broker!Left(o)
    <3>1. Broker!Left(o) \in Int
      BY <1>1, <2>2
    <3> HIDE DEF atWork
    <3> QED
      BY <2>1, <3>1, SumOfOne
  <2> QED
    BY <1>1, <2>2, <2>3 DEF Committed
<1> QED
  BY <1>2, <1>3

----------------------------------------------------------------------------
(* Theorems *)

\* The types, and with them that no exit is ever sent for more shares than
\* the position had.
THEOREM TypeCorrect == Spec => []TypeOK
BY EodInvariant, PTL DEF EodInv

\* Whatever calls raise, however slow the broker and however often the
\* supervisor is run: no exit of it is at work beside the stop that the
\* position file names (cancel_protective_order before place_exit).
THEOREM CancelThenClose == Spec => []StopEndsFirst
<1>1. EodInv => StopEndsFirst
  BY DEF EodInv, StopInv
<1> QED
  BY <1>1, EodInvariant, PTL

\* However often it passes, dies and is run again, the supervisor never has
\* more at work than the account holds, unless a quantity was read while
\* another order than the named stop was in flight.
THEOREM IdempotentAlone == Spec => []NeverReversesAlone
<1>1. EodInv => NeverReversesAlone
  BY CommittedFits DEF NeverReversesAlone, NeverReverses
<1> QED
  BY <1>1, EodInvariant, PTL

\* With the same exception, the local state is cleared only over a flat
\* account with nothing at work, and the account stays that way.
THEOREM ClearedOverFlat == Spec => []ClearedMeansFlat
<1>1. EodInv => ClearedMeansFlat
  BY CommittedFits DEF ClearedMeansFlat, EodInv, ClearInv
<1> QED
  BY <1>1, EodInvariant, PTL
=============================================================================
