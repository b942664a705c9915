------------------------ MODULE EntryEvidenceProofs ------------------------
(***************************************************************************)
(* Proofs about the tick evidence, for every number of ticks a             *)
(* confirmation needs, every window, wait, age and number of signals.      *)
(*                                                                         *)
(* 1. What Within keeps of a sequence of ticks.  It is a recursion on the  *)
(*    length; its equation is reached without an induction theorem, from   *)
(*    the least length at which it would fail.                             *)
(*                                                                         *)
(* 2. EntryInv.  The rows of the feed, appended or still arriving, only    *)
(*    ever grow, so what was the first of a window stays it; and the T0 of *)
(*    the capture the main thread awaits is that of the latest signal.     *)
(***************************************************************************)
EXTENDS EntryEvidence, FiniteSetTheorems, SequenceTheorems, WellFoundedInduction, TLAPS

----------------------------------------------------------------------------
(* 1. What Within keeps *)

\* One step of the recursion of Within.
Step(rows, T, f, n) ==
  IF n = 0 THEN <<>>
  ELSE IF rows[n] \in T THEN Append(f[n - 1], rows[n]) ELSE f[n - 1]

\* f follows the recursion up to m.
Keeps(rows, T, f, m) == f = [n \in 0..m |-> Step(rows, T, f, n)]

\* A set of natural numbers has a least one.
LEMMA LeastNatural ==
  ASSUME NEW B, B \subseteq Nat, B # {}
  PROVE  \E m \in B : \A k \in B : m <= k
<1>1. PICK p \in B : TRUE
  OBVIOUS
<1> DEFINE F == {T \in SUBSET (0..p) : \E k \in B : T = 0..k}
<1>2. 0..p \in F
  OBVIOUS
<1>3. IsFiniteSet(0..p)
  BY <1>1, FS_Interval
<1>4. F \subseteq FiniteSubsetsOf(0..p)
  BY <1>3, FS_FiniteSubsetsOfFinite, Zenon
<1>5. \E T \in F : \A U \in F : <<U, T>> \notin StrictSubsetOrdering(0..p)
  <2> HIDE DEF F
  <2> QED
    BY <1>2, <1>3, <1>4, FS_StrictSubsetOrderingWellFounded,
       FS_FiniteSubsetsOfFinite, WFMin
<1>6. PICK T \in F : \A U \in F : <<U, T>> \notin StrictSubsetOrdering(0..p)
  BY <1>5
<1>7. PICK m \in B : T = 0..m
  OBVIOUS
<1>8. ASSUME NEW k \in B, k < m PROVE FALSE
  <2>1. 0..k \in SUBSET (0..p) /\ 0..k # T /\ 0..k \subseteq T
    BY <1>7, <1>8
  <2> QED
    BY <1>6, <2>1 DEF StrictSubsetOrdering
<1> QED
  BY <1>8

LEMMA KeepsExists ==
  ASSUME NEW rows \in Seq(Int), NEW T, NEW m \in Nat
  PROVE  \E f : Keeps(rows, T, f, m)
<1> DEFINE B == {n \in Nat : ~ \E f : Keeps(rows, T, f, n)}
<1>1. SUFFICES ASSUME B # {} PROVE FALSE
  OBVIOUS
<1>2. PICK n \in B : \A k \in B : n <= k
  <2>1. B \subseteq Nat
    OBVIOUS
  <2> HIDE DEF B
  <2> QED
    BY <1>1, <2>1, LeastNatural
<1>3. CASE n = 0
  <2> DEFINE f == [i \in 0..0 |-> <<>>]
  <2>1. Keeps(rows, T, f, 0)
    BY DEF Keeps, Step
  <2> QED
    BY <1>2, <1>3, <2>1
<1>4. CASE n # 0
  <2>1. n - 1 \in Nat /\ n - 1 \notin B
    BY <1>2, <1>4
  <2>2. PICK f : Keeps(rows, T, f, n - 1)
    BY <2>1
  <2> DEFINE g == [i \in 0..n |-> Step(rows, T, f, i)]
  <2>3. f = [i \in 0..n - 1 |-> Step(rows, T, f, i)]
    BY <2>2 DEF Keeps
  <2>4. \A i \in 0..n : Step(rows, T, g, i) = Step(rows, T, f, i)
    <3>1. \A i \in 0..n - 1 : f[i] = Step(rows, T, f, i)
      BY <2>3, Zenon
    <3>2. \A i \in 0..n - 1 : i \in 0..n
      BY <2>1
    <3>3. \A i \in 0..n - 1 : g[i] = f[i]
      BY <3>1, <3>2
    <3> SUFFICES ASSUME NEW i \in 0..n PROVE Step(rows, T, g, i) = Step(rows, T, f, i)
      OBVIOUS
    <3>4. i = 0 \/ i - 1 \in 0..n - 1
      BY <1>2
    <3> HIDE DEF g
    <3> QED
      BY <3>3, <3>4 DEF Step
  <2>5. Keeps(rows, T, g, n)
    <3>1. g = [i \in 0..n |-> Step(rows, T, f, i)]
      OBVIOUS
    <3> HIDE DEF g
    <3> QED
      BY <2>4, <3>1 DEF Keeps
  <2> HIDE DEF g
  <2> QED
    BY <1>2, <2>5
<1> QED
  BY <1>3, <1>4

\* The rows up to m decide what is kept of them.
LEMMA KeepsUnique ==
  ASSUME NEW rows \in Seq(Int), NEW more \in Seq(Int), NEW T,
         NEW f, NEW g, NEW k \in Nat, NEW l \in Nat, NEW m \in Nat,
         m <= k, m <= l, m <= Len(rows), m <= Len(more),
         Keeps(rows, T, f, k), Keeps(more, T, g, l),
         \A n \in 1..m : rows[n] = more[n]
  PROVE  f[m] = g[m]
<1>1. \A n \in 0..k : f[n] = Step(rows, T, f, n)
  BY Zenon DEF Keeps
<1>2. \A n \in 0..l : g[n] = Step(more, T, g, n)
  BY Zenon DEF Keeps
<1> DEFINE B == {n \in 0..m : f[n] # g[n]}
<1>3. SUFFICES ASSUME B # {} PROVE FALSE
  OBVIOUS
<1>4. PICK n \in B : \A i \in B : n <= i
  <2>1. B \subseteq Nat
    OBVIOUS
  <2> HIDE DEF B
  <2> QED
    BY <1>3, <2>1, LeastNatural
<1>5. n \in 0..k /\ n \in 0..l
  OBVIOUS
<1>6. n # 0
  BY <1>1, <1>2, <1>5 DEF Step
<1>7. f[n - 1] = g[n - 1]
  BY <1>4, <1>6
<1>8. rows[n] = more[n]
  BY <1>6
<1>9. f[n] = g[n]
  BY <1>1, <1>2, <1>5, <1>6, <1>7, <1>8 DEF Step
<1> QED
  BY <1>9

\* Within is the value of its recursion at the full length.
LEMMA WithinDef ==
  ASSUME NEW rows \in Seq(Int), NEW T
  PROVE  \E f : Keeps(rows, T, f, Len(rows)) /\ Within(rows, T) = f[Len(rows)]
<1>1. Within(rows, T) = (CHOOSE f : Keeps(rows, T, f, Len(rows)))[Len(rows)]
  BY Zenon DEF Within, Keeps, Step
<1>2. \E f : Keeps(rows, T, f, Len(rows))
  BY KeepsExists, LenProperties
<1> QED
  BY <1>1, <1>2, Zenon

\* Of no rows nothing is kept.
LEMMA WithinEmpty == ASSUME NEW T PROVE Within(<<>>, T) = <<>>
<1>1. <<>> \in Seq(Int) /\ Len(<<>>) = 0
  OBVIOUS
<1>2. PICK f : Keeps(<<>>, T, f, 0) /\ Within(<<>>, T) = f[0]
  BY <1>1, WithinDef
<1> QED
  BY <1>2 DEF Keeps, Step

\* What is kept lies in T.
LEMMA KeepsType ==
  ASSUME NEW rows, NEW T, NEW m \in Nat, NEW f, Keeps(rows, T, f, m)
  PROVE  \A n \in 0..m : f[n] \in Seq(T)
<1>1. \A n \in 0..m : f[n] = Step(rows, T, f, n)
  BY Zenon DEF Keeps
<1> DEFINE B == {n \in 0..m : f[n] \notin Seq(T)}
<1>2. SUFFICES ASSUME B # {} PROVE FALSE
  OBVIOUS
<1>3. PICK n \in B : \A i \in B : n <= i
  <2>1. B \subseteq Nat
    OBVIOUS
  <2> HIDE DEF B
  <2> QED
    BY <1>2, <2>1, LeastNatural
<1>4. n # 0
  <2>1. <<>> \in Seq(T)
    BY EmptySeq
  <2> QED
    BY <1>1, <2>1 DEF Step
<1>5. f[n - 1] \in Seq(T)
  BY <1>3, <1>4
<1>6. f[n] = f[n - 1] \/ (rows[n] \in T /\ f[n] = Append(f[n - 1], rows[n]))
  BY <1>1, <1>4 DEF Step
<1>7. f[n] \in Seq(T)
  <2>1. CASE f[n] = f[n - 1]
    BY <1>5, <2>1
  <2>2. CASE rows[n] \in T /\ f[n] = Append(f[n - 1], rows[n])
    <3>1. \A u \in Seq(T), x \in T : Append(u, x) \in Seq(T)
      BY AppendProperties
    <3> QED
      BY <1>5, <2>2, <3>1, Zenon
  <2> QED
    BY <1>6, <2>1, <2>2
<1> QED
  BY <1>7

LEMMA WithinType ==
  ASSUME NEW rows \in Seq(Int), NEW T
  PROVE  Within(rows, T) \in Seq(T)
<1>1. PICK f : Keeps(rows, T, f, Len(rows)) /\ Within(rows, T) = f[Len(rows)]
  BY WithinDef
<1>2. Len(rows) \in Nat /\ Len(rows) \in 0..Len(rows)
  OBVIOUS
<1>3. \A n \in 0..Len(rows) : f[n] \in Seq(T)
  BY <1>1, <1>2, KeepsType
<1> QED
  BY <1>1, <1>2, <1>3

\* Sequence t goes on where s ends.
Extends(s, t) == /\ Len(s) <= Len(t)
                 /\ \A i \in 1..Len(s) : t[i] = s[i]

\* More rows keep what was kept and add to its end.
LEMMA WithinExtends ==
  ASSUME NEW rows \in Seq(Int), NEW more \in Seq(Int), NEW T
  PROVE  Extends(Within(rows, T), Within(rows \o more, T))
<1> DEFINE all == rows \o more
           L   == Len(rows)
           M   == Len(all)
<1>1. /\ all \in Seq(Int) /\ L \in Nat /\ M \in Nat /\ L <= M
      /\ \A n \in 1..L : rows[n] = all[n]
  OBVIOUS
<1> HIDE DEF all
<1>2. PICK f : Keeps(rows, T, f, L) /\ Within(rows, T) = f[L]
  BY WithinDef
<1>3. PICK g : Keeps(all, T, g, M) /\ Within(all, T) = g[M]
  BY <1>1, WithinDef
<1>4. Within(rows, T) = g[L]
  BY <1>1, <1>2, <1>3, KeepsUnique
<1>5. \A n \in 0..M : g[n] = Step(all, T, g, n)
  BY <1>3, Zenon DEF Keeps
<1>6. \A n \in 0..M : g[n] \in Seq(T)
  BY <1>1, <1>3, KeepsType
<1> DEFINE C == {n \in L..M : ~ Extends(g[L], g[n])}
<1>7. SUFFICES ASSUME C # {} PROVE FALSE
  <2>1. M \in L..M
    BY <1>1
  <2>2. Extends(g[L], g[M])
    BY <1>7, <2>1
  <2> QED
    BY <1>3, <1>4, <2>2 DEF all
<1>8. PICK n \in C : \A i \in C : n <= i
  <2>1. C \subseteq Nat
    BY <1>1
  <2> HIDE DEF C
  <2> QED
    BY <1>7, <2>1, LeastNatural
<1>9. n # L
  <2>1. Extends(g[L], g[L])
    BY <1>1, <1>6 DEF Extends
  <2> QED
    BY <2>1
<1>10. n - 1 \in L..M /\ n - 1 \in 0..M /\ n \in 0..M /\ n # 0 /\ L \in 0..M
  BY <1>1, <1>9
<1>11. Extends(g[L], g[n - 1])
  BY <1>8, <1>10
<1>12. g[n] = g[n - 1] \/ g[n] = Append(g[n - 1], all[n])
  BY <1>5, <1>10 DEF Step
<1>13. Extends(g[L], g[n])
  <2>1. g[L] \in Seq(T) /\ g[n - 1] \in Seq(T) /\ g[n] \in Seq(T)
    BY <1>6, <1>10
  <2>2. CASE g[n] = g[n - 1]
    BY <1>11, <2>2
  <2>3. CASE g[n] = Append(g[n - 1], all[n])
    <3>1. PICK u : u = g[n - 1]
      OBVIOUS
    <3>2. PICK w : w = g[L]
      OBVIOUS
    <3>3. PICK x : x = all[n]
      OBVIOUS
    <3>4. u \in Seq(T) /\ w \in Seq(T) /\ Extends(w, u)
      BY <1>11, <2>1, <3>1, <3>2
    <3>5. Len(Append(u, x)) = Len(u) + 1 /\ \A i \in 1..Len(u) : Append(u, x)[i] = u[i]
      BY <3>4
    <3>6. Extends(w, Append(u, x))
      BY <3>4, <3>5 DEF Extends
    <3> QED
      BY <2>3, <3>1, <3>2, <3>3, <3>6
  <2> QED
    BY <1>12, <2>2, <2>3
<1> QED
  BY <1>13

----------------------------------------------------------------------------
(* 2. The invariant *)

Capture == [t0 : Int, state : {"PENDING", "CAPTURED", "INSUFFICIENT"},
            ticks : Seq(Int), short : BOOLEAN]

TypeOK ==
  /\ time \in Int
  /\ ticks \in Seq(Int) /\ arriving \in Seq(Int)
  /\ captures \in Seq(Capture)
  /\ entry \in 0..Len(captures)
  /\ passedAt \in Int /\ signalAt \in Int
  /\ evidence \in Seq(Int)

\* rows begin with ev.
FirstOf(ev, rows) == Len(rows) >= Required /\ ev = SubSeq(rows, 1, Required)

Rows == ticks \o arriving

\* What a capture froze stays the first of its window.
FrozenInv ==
  \A i \in DOMAIN captures :
    captures[i].state = "CAPTURED" =>
      FirstOf(captures[i].ticks, InWindow(Rows, captures[i].t0))

\* The capture the main thread awaits was started for the latest signal.
SignalInv ==
  /\ at \in {"activity", "candidate", "pullback", "recovered"} => passedAt = signalAt
  /\ at = "waiting" => entry # 0 /\ captures[entry].t0 = signalAt

\* The evidence is the first of the window of the latest signal.
EvidenceInv ==
  at \in {"confirming", "entered"} =>
    \E i \in DOMAIN captures :
      /\ captures[i].t0 = signalAt
      /\ FirstOf(evidence, InWindow(Rows, signalAt))

EntryInv == TypeOK /\ FrozenInv /\ SignalInv /\ EvidenceInv

\* Rows that grow begin as they did.
LEMMA FirstStays ==
  ASSUME NEW ev, NEW rows \in Seq(Int), NEW more \in Seq(Int), NEW t0 \in Int,
         FirstOf(ev, InWindow(rows, t0))
  PROVE  FirstOf(ev, InWindow(rows \o more, t0))
<1> DEFINE T == t0..t0 + Window
<1>1. PICK u : u = Within(rows, T)
  OBVIOUS
<1>2. PICK w : w = Within(rows \o more, T)
  OBVIOUS
<1>3. u \in Seq(T) /\ w \in Seq(T) /\ Extends(u, w)
  <2>1. rows \o more \in Seq(Int)
    OBVIOUS
  <2> QED
    BY <1>1, <1>2, <2>1, WithinType, WithinExtends
<1>4. Len(u) >= Required /\ ev = SubSeq(u, 1, Required)
  BY <1>1 DEF FirstOf, InWindow
<1>5. Len(w) >= Required /\ SubSeq(w, 1, Required) = SubSeq(u, 1, Required)
  <2> HIDE DEF T
  <2> QED
    BY <1>3, <1>4, EvidenceAssumption DEF Extends
<1> QED
  BY <1>2, <1>4, <1>5 DEF FirstOf, InWindow

LEMMA EntryInvInit == EvidenceInit => EntryInv
<1> SUFFICES ASSUME EvidenceInit PROVE EntryInv
  OBVIOUS
<1>1. <<>> \in Seq(Int) /\ <<>> \in Seq(Capture) /\ Len(<<>>) = 0
  BY EmptySeq
<1>2. TypeOK
  BY <1>1 DEF EvidenceInit, TypeOK, NoTime
<1> QED
  BY <1>2 DEF EvidenceInit, EntryInv, FrozenInv, SignalInv, EvidenceInv

LEMMA CaptureFields ==
  ASSUME captures \in Seq(Capture), NEW i \in DOMAIN captures
  PROVE  /\ captures[i] \in Capture
         /\ captures[i].t0 \in Int
         /\ captures[i].ticks \in Seq(Int)
<1>1. captures[i] \in Capture
  OBVIOUS
<1> QED
  BY <1>1 DEF Capture

\* What the feed and the clock do leaves the captures and the main thread
\* alone and only adds to the rows.
LEMMA FeedKeeps ==
  ASSUME EntryInv, UNCHANGED <<captures, main>>, time' \in Int,
         ticks' \in Seq(Int), arriving' \in Seq(Int),
         NEW more \in Seq(Int), Rows' = Rows \o more
  PROVE  EntryInv'
<1> USE DEF EntryInv, main
<1>1. Rows \in Seq(Int)
  BY DEF TypeOK, Rows
<1>2. ASSUME NEW ev, NEW t0 \in Int, FirstOf(ev, InWindow(Rows, t0))
      PROVE  FirstOf(ev, InWindow(Rows', t0))
  BY <1>1, <1>2, FirstStays
<1>3. TypeOK'
  BY DEF TypeOK
<1>4. FrozenInv'
  <2>1. \A i \in DOMAIN captures : captures[i].t0 \in Int
    BY CaptureFields DEF TypeOK
  <2> QED
    BY <1>2, <2>1 DEF FrozenInv, InWindow, FirstOf
<1>5. SignalInv'
  BY DEF SignalInv
<1>6. EvidenceInv'
  <2>1. signalAt \in Int
    BY DEF TypeOK
  <2> QED
    BY <1>2, <2>1 DEF EvidenceInv, InWindow, FirstOf
<1> QED
  BY <1>3, <1>4, <1>5, <1>6

LEMMA ReceiveInv == EntryInv /\ Receive => EntryInv'
<1> SUFFICES ASSUME EntryInv, Receive PROVE EntryInv'
  OBVIOUS
<1>1. time \in Int /\ ticks \in Seq(Int)
  BY DEF EntryInv, TypeOK
<1>2. PICK n \in 1..2 : arriving' = [i \in 1..n |-> time]
  BY DEF Receive
<1>3. arriving' \in Seq(Int)
  BY <1>1, <1>2
<1>4. Rows' = Rows \o arriving'
  <2>1. Rows = ticks /\ Rows' = ticks \o arriving'
    BY <1>1 DEF Receive, Rows
  <2> QED
    BY <2>1
<1> QED
  BY <1>1, <1>3, <1>4, FeedKeeps DEF Receive

LEMMA AppendTickInv == EntryInv /\ AppendTick => EntryInv'
<1> SUFFICES ASSUME EntryInv, AppendTick PROVE EntryInv'
  OBVIOUS
<1>1. time \in Int /\ ticks \in Seq(Int) /\ arriving \in Seq(Int) /\ arriving # <<>>
  BY DEF EntryInv, TypeOK, AppendTick
<1>2. Head(arriving) \in Int /\ Tail(arriving) \in Seq(Int)
  BY <1>1
<1>3. ticks' \in Seq(Int) /\ arriving' \in Seq(Int)
  BY <1>1, <1>2 DEF AppendTick
<1>4. Rows' = Rows
  BY <1>1, <1>2 DEF AppendTick, Rows
<1>5. Rows' = Rows \o <<>> /\ <<>> \in Seq(Int)
  BY <1>1, <1>4 DEF Rows
<1> QED
  BY <1>1, <1>3, <1>5, FeedKeeps DEF AppendTick

LEMMA PassTimeInv == EntryInv /\ PassTime => EntryInv'
<1> SUFFICES ASSUME EntryInv, PassTime PROVE EntryInv'
  OBVIOUS
<1>1. time \in Int /\ ticks \in Seq(Int) /\ arriving \in Seq(Int)
  BY DEF EntryInv, TypeOK
<1>2. Rows' = Rows \o <<>> /\ <<>> \in Seq(Int)
  BY <1>1 DEF PassTime, Rows, feed
<1>3. UNCHANGED <<captures, main>>
  BY DEF PassTime
<1>4. time' \in Int /\ ticks' \in Seq(Int) /\ arriving' \in Seq(Int)
  BY <1>1 DEF PassTime, feed
<1> QED
  BY <1>2, <1>3, <1>4, FeedKeeps

\* A capture thread rewrites its own capture, and only what it froze.
LEMMA FreezeInv ==
  ASSUME EntryInv, NEW i \in DOMAIN captures, Freeze(i)
  PROVE  EntryInv'
<1> DEFINE rows == InWindow(ticks, captures[i].t0)
<1>0. TypeOK /\ FrozenInv /\ SignalInv /\ EvidenceInv
  BY DEF EntryInv
<1>1. /\ captures \in Seq(Capture) /\ i \in 1..Len(captures)
      /\ captures[i].t0 \in Int /\ ticks \in Seq(Int) /\ arriving \in Seq(Int)
  BY <1>0, CaptureFields DEF TypeOK
<1>2. rows \in Seq(Int)
  <2>1. rows \in Seq(captures[i].t0..captures[i].t0 + Window)
    BY <1>1, WithinType DEF InWindow
  <2>2. captures[i].t0..captures[i].t0 + Window \subseteq Int
    BY <1>1, EvidenceAssumption
  <2>3. \A S, T : S \subseteq T => Seq(S) \subseteq Seq(T)
    OBVIOUS
  <2> HIDE DEF rows
  <2> QED
    BY <2>1, <2>2, <2>3, Zenon
<1>3. Len(rows) >= Required /\ Frozen(rows) = SubSeq(rows, 1, Required)
  BY DEF Freeze, Frozen
<1>4. Frozen(rows) \in Seq(Int)
  <2> HIDE DEF rows
  <2> QED
    BY <1>2, <1>3, EvidenceAssumption
<1>5. FirstOf(Frozen(rows), InWindow(Rows, captures[i].t0))
  <2>1. FirstOf(Frozen(rows), rows)
    BY <1>3 DEF FirstOf
  <2> QED
    BY <1>1, <2>1, FirstStays DEF Rows
<1> DEFINE c == [captures[i] EXCEPT !.state = "CAPTURED", !.ticks = Frozen(rows)]
<1>6. captures' = [captures EXCEPT ![i] = c]
  BY <1>1 DEF Freeze
<1>7. /\ c \in Capture /\ c.t0 = captures[i].t0 /\ c.ticks = Frozen(rows)
  <2>1. PICK k \in Capture : k = captures[i]
    BY <1>1, CaptureFields
  <2>2. PICK w \in Seq(Int) : w = Frozen(rows)
    BY <1>4
  <2>3. c = [k EXCEPT !.state = "CAPTURED", !.ticks = w]
    BY <2>1, <2>2
  <2> HIDE DEF c
  <2> QED
    BY <2>1, <2>2, <2>3 DEF Capture
<1> HIDE DEF c, rows
<1>8. /\ captures' \in Seq(Capture) /\ Len(captures') = Len(captures)
      /\ DOMAIN captures' = DOMAIN captures
  BY <1>1, <1>6, <1>7
<1>9. \A j \in DOMAIN captures : captures'[j].t0 = captures[j].t0
  BY <1>1, <1>6, <1>7
<1>10. UNCHANGED <<time, ticks, arriving, passedAt, entry, at, evidence, signalAt, Rows>>
  BY DEF Freeze, feed, main, Rows
<1>11. TypeOK'
  BY <1>0, <1>8, <1>10 DEF TypeOK
<1>12. FrozenInv'
  <2> SUFFICES ASSUME NEW j \in DOMAIN captures, captures'[j].state = "CAPTURED"
               PROVE  FirstOf(captures'[j].ticks, InWindow(Rows, captures[j].t0))
    BY <1>8, <1>9, <1>10 DEF FrozenInv, InWindow, FirstOf
  <2>1. CASE j = i
    BY <1>1, <1>5, <1>6, <1>7, <2>1
  <2>2. CASE j # i
    BY <1>0, <1>1, <1>6, <2>2 DEF FrozenInv
  <2> QED
    BY <2>1, <2>2
<1>13. SignalInv'
  BY <1>0, <1>1, <1>9, <1>10 DEF SignalInv, TypeOK
<1>14. EvidenceInv'
  BY <1>0, <1>8, <1>9, <1>10 DEF EvidenceInv, InWindow, FirstOf
<1> QED
  BY <1>11, <1>12, <1>13, <1>14 DEF EntryInv

LEMMA GiveUpInv ==
  ASSUME EntryInv, NEW i \in DOMAIN captures, GiveUp(i)
  PROVE  EntryInv'
<1>0. TypeOK /\ FrozenInv /\ SignalInv /\ EvidenceInv
  BY DEF EntryInv
<1>1. captures \in Seq(Capture) /\ i \in 1..Len(captures)
  BY <1>0 DEF TypeOK
<1> DEFINE c == [captures[i] EXCEPT !.state = "INSUFFICIENT"]
<1>2. captures' = [captures EXCEPT ![i] = c]
  BY <1>1 DEF GiveUp
<1>3. c \in Capture /\ c.t0 = captures[i].t0 /\ c.state = "INSUFFICIENT"
  <2>1. PICK k \in Capture : k = captures[i]
    BY <1>1, CaptureFields
  <2>2. c = [k EXCEPT !.state = "INSUFFICIENT"]
    BY <2>1
  <2> HIDE DEF c
  <2> QED
    BY <2>1, <2>2 DEF Capture
<1> HIDE DEF c
<1>4. /\ captures' \in Seq(Capture) /\ Len(captures') = Len(captures)
      /\ DOMAIN captures' = DOMAIN captures
  BY <1>1, <1>2, <1>3
<1>5. \A j \in DOMAIN captures : captures'[j].t0 = captures[j].t0
  BY <1>1, <1>2, <1>3
<1>6. UNCHANGED <<time, ticks, arriving, passedAt, entry, at, evidence, signalAt, Rows>>
  BY DEF GiveUp, feed, main, Rows
<1>7. TypeOK'
  BY <1>0, <1>4, <1>6 DEF TypeOK
<1>8. FrozenInv'
  <2> SUFFICES ASSUME NEW j \in DOMAIN captures, captures'[j].state = "CAPTURED"
               PROVE  FirstOf(captures'[j].ticks, InWindow(Rows, captures[j].t0))
    BY <1>4, <1>5, <1>6 DEF FrozenInv, InWindow, FirstOf
  <2>1. j # i
    BY <1>1, <1>2, <1>3
  <2> QED
    BY <1>0, <1>1, <1>2, <2>1 DEF FrozenInv
<1>9. SignalInv'
  BY <1>0, <1>1, <1>5, <1>6 DEF SignalInv, TypeOK
<1>10. EvidenceInv'
  BY <1>0, <1>4, <1>5, <1>6 DEF EvidenceInv, InWindow, FirstOf
<1> QED
  BY <1>7, <1>8, <1>9, <1>10 DEF EntryInv

\* A new capture has frozen nothing and leaves the others as they are.
LEMMA StartCaptureEffect ==
  ASSUME EntryInv, NEW t0 \in Int, StartCapture(t0), UNCHANGED feed
  PROVE  /\ captures' \in Seq(Capture)
         /\ entry' \in 1..Len(captures')
         /\ FrozenInv'
<1> DEFINE c == [t0 |-> t0, state |-> "PENDING", ticks |-> <<>>,
                 short |-> Len(InWindow(ticks, t0)) < Required]
<1>1. captures \in Seq(Capture) /\ FrozenInv
  BY DEF EntryInv, TypeOK
<1>2. captures' = Append(captures, c) /\ entry' = Len(captures')
  BY DEF StartCapture
<1>3. c \in Capture /\ c.state = "PENDING"
  <2>1. <<>> \in Seq(Int)
    BY EmptySeq
  <2>2. PICK b : b = (Len(InWindow(ticks, t0)) < Required)
    OBVIOUS
  <2>3. b \in BOOLEAN
    BY <2>2
  <2> QED
    BY <2>1, <2>2, <2>3 DEF Capture
<1> HIDE DEF c
<1>4. captures' \in Seq(Capture) /\ Len(captures') = Len(captures) + 1
  BY <1>1, <1>2, <1>3
<1>5. Rows' = Rows
  BY DEF feed, Rows
<1>6. FrozenInv'
  <2> SUFFICES ASSUME NEW j \in DOMAIN captures', captures'[j].state = "CAPTURED"
               PROVE  FirstOf(captures'[j].ticks, InWindow(Rows, captures'[j].t0))
    BY <1>5 DEF FrozenInv, InWindow, FirstOf
  <2>1. j \in DOMAIN captures /\ captures'[j] = captures[j]
    BY <1>1, <1>2, <1>3, <1>4
  <2> QED
    BY <1>1, <2>1 DEF FrozenInv
<1> QED
  BY <1>1, <1>2, <1>4, <1>6

LEMMA PassInv == EntryInv /\ Pass => EntryInv'
BY DEF EntryInv, TypeOK, FrozenInv, SignalInv, EvidenceInv, FirstOf, InWindow,
   Rows, Pass, feed

LEMMA RejectInv == EntryInv /\ Reject => EntryInv'
<1> SUFFICES ASSUME EntryInv, Reject PROVE EntryInv'
  OBVIOUS
<1>1. <<>> \in Seq(Int)
  BY EmptySeq
<1> QED
  BY <1>1 DEF EntryInv, TypeOK, FrozenInv, SignalInv, EvidenceInv, FirstOf,
     InWindow, Rows, Reject, feed

LEMMA AwaitPullbackInv == EntryInv /\ AwaitPullback => EntryInv'
BY DEF EntryInv, TypeOK, FrozenInv, SignalInv, EvidenceInv, FirstOf, InWindow,
   Rows, AwaitPullback, feed

LEMMA WaitTimeoutInv == EntryInv /\ WaitTimeout => EntryInv'
BY DEF EntryInv, TypeOK, FrozenInv, SignalInv, EvidenceInv, FirstOf, InWindow,
   Rows, WaitTimeout, feed

LEMMA AcceptInv == EntryInv /\ Accept => EntryInv'
BY DEF EntryInv, TypeOK, FrozenInv, SignalInv, EvidenceInv, FirstOf, InWindow,
   Rows, Accept, feed

LEMMA ConfirmInv == EntryInv /\ Confirm => EntryInv'
BY DEF EntryInv, TypeOK, FrozenInv, SignalInv, EvidenceInv, FirstOf, InWindow,
   Rows, Confirm, feed, NoTime

LEMMA BeginCaptureInv == EntryInv /\ BeginCapture => EntryInv'
<1> SUFFICES ASSUME EntryInv, BeginCapture PROVE EntryInv'
  OBVIOUS
<1>1. TypeOK /\ SignalInv
  BY DEF EntryInv
<1>2. passedAt \in Int /\ StartCapture(passedAt) /\ UNCHANGED feed
  BY <1>1 DEF TypeOK, BeginCapture
<1>3. captures' \in Seq(Capture) /\ entry' \in 0..Len(captures') /\ FrozenInv'
  BY <1>2, StartCaptureEffect
<1>4. UNCHANGED <<time, ticks, arriving, passedAt, evidence, signalAt>>
      /\ at = "activity" /\ at' = "candidate"
  BY DEF BeginCapture, feed
<1>5. TypeOK'
  BY <1>1, <1>3, <1>4 DEF TypeOK
<1>6. SignalInv' /\ EvidenceInv'
  BY <1>1, <1>4 DEF SignalInv, EvidenceInv
<1> QED
  BY <1>3, <1>5, <1>6 DEF EntryInv

LEMMA PullbackInv == EntryInv /\ Pullback => EntryInv'
<1> SUFFICES ASSUME EntryInv, Pullback PROVE EntryInv'
  OBVIOUS
<1>1. TypeOK /\ SignalInv
  BY DEF EntryInv
<1>2. time \in Int /\ StartCapture(time) /\ UNCHANGED feed
  BY <1>1 DEF TypeOK, Pullback, RestartAt
<1>3. captures' \in Seq(Capture) /\ entry' \in 0..Len(captures') /\ FrozenInv'
  BY <1>2, StartCaptureEffect
<1>4. /\ UNCHANGED <<time, ticks, arriving, evidence>>
      /\ passedAt' = time /\ signalAt' = time /\ at' = "recovered"
  BY DEF Pullback, RestartAt, feed
<1>5. TypeOK'
  BY <1>1, <1>2, <1>3, <1>4 DEF TypeOK
<1>6. SignalInv' /\ EvidenceInv'
  BY <1>4 DEF SignalInv, EvidenceInv
<1> QED
  BY <1>3, <1>5, <1>6 DEF EntryInv

LEMMA PopEvidenceInv == EntryInv /\ PopEvidence => EntryInv'
<1> SUFFICES ASSUME EntryInv, PopEvidence PROVE EntryInv'
  OBVIOUS
<1>1. TypeOK /\ FrozenInv /\ SignalInv
  BY DEF EntryInv
<1>2. /\ entry \in DOMAIN captures /\ captures[entry].t0 = signalAt
      /\ captures \in Seq(Capture)
  BY <1>1 DEF PopEvidence, SignalInv, TypeOK
<1>3. /\ UNCHANGED <<time, ticks, arriving, captures, passedAt, signalAt>>
      /\ entry' = 0 /\ evidence' = Evidence(captures[entry])
      /\ at' \in {"idle", "confirming"}
      /\ at' = "confirming" => evidence' # <<>>
  BY DEF PopEvidence, feed
<1>4. Rows' = Rows
  BY <1>3 DEF Rows
<1>5. evidence' \in Seq(Int)
  <2>1. captures[entry].ticks \in Seq(Int) /\ <<>> \in Seq(Int)
    BY <1>2, CaptureFields, EmptySeq
  <2> QED
    BY <1>3, <2>1 DEF Evidence
<1>6. TypeOK'
  BY <1>1, <1>3, <1>5 DEF TypeOK
<1>7. FrozenInv'
  BY <1>1, <1>3, <1>4 DEF FrozenInv, InWindow, FirstOf
<1>8. SignalInv'
  BY <1>3 DEF SignalInv
<1>9. EvidenceInv'
  <2> SUFFICES ASSUME at' = "confirming" PROVE FirstOf(evidence', InWindow(Rows, signalAt))
    BY <1>2, <1>3, <1>4 DEF EvidenceInv, InWindow, FirstOf
  <2>1. captures[entry].state = "CAPTURED" /\ evidence' = captures[entry].ticks
    BY <1>3 DEF Evidence
  <2> QED
    BY <1>1, <1>2, <2>1 DEF FrozenInv
<1> QED
  BY <1>6, <1>7, <1>8, <1>9 DEF EntryInv

LEMMA EntryInvNext == EntryInv /\ [EvidenceNext]_evidenceVars => EntryInv'
<1> SUFFICES ASSUME EntryInv, [EvidenceNext]_evidenceVars PROVE EntryInv'
  OBVIOUS
<1>1. CASE UNCHANGED evidenceVars
  BY <1>1 DEF EntryInv, TypeOK, FrozenInv, SignalInv, EvidenceInv, FirstOf,
     InWindow, Rows,
              evidenceVars, feed, main
<1>2. ASSUME NEW i \in DOMAIN captures, Freeze(i) \/ GiveUp(i) PROVE EntryInv'
  BY <1>2, FreezeInv, GiveUpInv
<1>3. CASE \/ Receive \/ AppendTick \/ PassTime
           \/ Pass \/ Reject \/ BeginCapture \/ AwaitPullback \/ Pullback
           \/ Confirm \/ PopEvidence \/ WaitTimeout \/ Accept
  BY <1>3, ReceiveInv, AppendTickInv, PassTimeInv, PassInv, RejectInv, BeginCaptureInv,
     AwaitPullbackInv, PullbackInv, ConfirmInv, PopEvidenceInv, WaitTimeoutInv, AcceptInv, Zenon
<1> QED
  BY <1>1, <1>2, <1>3, Zenon DEF EvidenceNext

LEMMA EntryInvariant == EvidenceSpec => []EntryInv
BY EntryInvInit, EntryInvNext, PTL DEF EvidenceSpec

\* The properties are read off the invariant.
LEMMA EntryInvSuffices == EntryInv => FirstThree /\ EvidenceIsCurrent
<1> SUFFICES ASSUME EntryInv PROVE FirstThree /\ EvidenceIsCurrent
  OBVIOUS
<1>1. TypeOK /\ EvidenceInv
  BY DEF EntryInv
<1>2. FirstThree
  BY <1>1 DEF EvidenceInv, FirstThree, FirstOf, Rows
<1>3. EvidenceIsCurrent
  <2> SUFFICES ASSUME FirstOf(evidence, InWindow(Rows, signalAt))
               PROVE  \A i \in DOMAIN evidence : evidence[i] >= signalAt
    BY <1>1 DEF EvidenceInv, EvidenceIsCurrent
  <2>1. signalAt \in Int /\ Rows \in Seq(Int)
    BY <1>1 DEF TypeOK, Rows
  <2> DEFINE T == signalAt..signalAt + Window
  <2>2. PICK w : w = InWindow(Rows, signalAt)
    OBVIOUS
  <2>3. w \in Seq(T)
    BY <2>1, <2>2, WithinType DEF InWindow
  <2>4. Len(w) >= Required /\ evidence = SubSeq(w, 1, Required)
    BY <2>2 DEF FirstOf
  <2>5. \A i \in 1..Len(w) : w[i] >= signalAt
    BY <2>1, <2>3, EvidenceAssumption
  <2> HIDE DEF T
  <2>6. DOMAIN evidence = 1..Required /\ \A i \in 1..Required : evidence[i] = w[i]
    BY <2>3, <2>4, EvidenceAssumption
  <2> QED
    BY <2>3, <2>4, <2>5, <2>6, EvidenceAssumption
<1> QED
  BY <1>2, <1>3

----------------------------------------------------------------------------
(* Theorems *)

\* A confirmation rests on the first valid ticks received within the window
\* of its capture, none left out, whatever the order of appends, polls,
\* timeouts and restarts (_capture_worker, _evaluate_from_frozen).
THEOREM FirstTicks == EvidenceSpec => []FirstThree
BY EntryInvariant, EntryInvSuffices, PTL

\* The evidence is never older than the latest direction step or the pullback
\* that restarted it, although the captures of earlier signals run on
\* (pop_frozen_evidence, restart_matmon_confirmation).
THEOREM CurrentTicks == EvidenceSpec => []EvidenceIsCurrent
BY EntryInvariant, EntryInvSuffices, PTL

============================================================================
