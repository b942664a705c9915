------------------------ MODULE EntryLifecycleProofs ------------------------
(***************************************************************************)
(* Proofs about the entries of a symbol, for every number of operations,   *)
(* restarts and days and every quantity.                                   *)
(*                                                                         *)
(* The argument: an order that can still fill is that of an unresolved     *)
(* operation, since an operation is only resolved on a terminal answer of  *)
(* the broker, and there is one unresolved operation at most.  The same    *)
(* terminal answer stored the final fill, so that a resolved fill the      *)
(* books miss shows as filled > applied.                                   *)
(*                                                                         *)
(* The second part is on the books.  Of the operations of today one at     *)
(* most is open: created, and not yet resolved with its whole fill         *)
(* applied.  What the account holds is what the file says plus the part of *)
(* that operation's fill the file does not know of, exactly so as long as  *)
(* no position was closed before its entry was resolved; and a resolved    *)
(* open operation (a stray) exists only while the bot is down, is booking  *)
(* it, or has it on recovery's list.                                       *)
(***************************************************************************)
EXTENDS EntryLifecycle, FiniteSetTheorems, TLAPS

\* The shape of the records, without the bounds on quantities.
OrderShape ==
  [ created : BOOLEAN, instrument : {Symbol}, action : {"ENTRY", "EXIT"},
    orderId : Op \cup {NoOp}, requested : Int, filled : Int, priced : BOOLEAN,
    terminal : BOOLEAN, applied : Int, resolved : BOOLEAN ]

BookShape == [status : Broker!Status, qty : Int, filled : Int, cancels : Int]

CallShape == [ op : Op \cup {NoOp}, filled : Int, priced : BOOLEAN,
               terminal : BOOLEAN, todo : SUBSET Op ]

\* What the store says of operation x, against what the broker holds.
Recorded(x) ==
  /\ orders[x].created => orders[x].action = "ENTRY"
  /\ ~orders[x].created => /\ book[x].status = "NONE"
                           /\ book[x].filled = 0 /\ orders[x].applied = 0
                           /\ ~orders[x].resolved /\ ~orders[x].terminal
  /\ Broker!InFlight(x) => Orders!Unresolved(x)
  /\ orders[x].terminal => /\ Broker!Ended(x)
                           /\ orders[x].filled = book[x].filled
  /\ orders[x].resolved => orders[x].terminal

OneUnresolved ==
  \A x, y \in Op : Orders!Unresolved(x) /\ Orders!Unresolved(y) => x = y

BooksInv ==
  /\ orders \in [Op -> OrderShape]
  /\ book \in [Op -> BookShape]
  /\ \A x \in Op : Recorded(x)
  /\ OneUnresolved

Booking == {"book", "markApplied", "apply", "markRecovered"}

\* An operation being placed is unresolved; a terminal answer was stored.
CallInv ==
  /\ call \in CallShape
  /\ call.terminal => call.op \in Op /\ orders[call.op].terminal
  /\ pc = "resolve" => call.terminal
  /\ pc \in {"submit", "attach", "verify"} =>
       call.op \in Op /\ Orders!Unresolved(call.op)
  /\ pc \in Booking => call.op \in Op

EntryInv == BooksInv /\ CallInv

USE DEF Orders!Unresolved, Broker!InFlight, Broker!Ended, Broker!Accepted, Broker!Is

LEMMA OneTruth ==
  ASSUME NEW P \in BOOLEAN, NEW t \in {P}
  PROVE  t \in BOOLEAN /\ (t => P)
OBVIOUS

----------------------------------------------------------------------------
(* The store *)

\* Every operation but x keeps its record.
KeepsOthers(x) == \A y \in Op \ {x} : orders'[y] = orders[y]

LEMMA CreateKeeps ==
  ASSUME BooksInv, NEW x \in Op, Orders!CreateIntent(x, Symbol, "ENTRY", Quantity),
         UNCHANGED book
  PROVE  BooksInv' /\ KeepsOthers(x) /\ Orders!Unresolved(x)'
<1> DEFINE new == [Orders!Blank EXCEPT !.created = TRUE, !.instrument = Symbol,
                                       !.action = "ENTRY", !.requested = Quantity]
<1>1. orders' = [orders EXCEPT ![x] = new]
  BY DEF Orders!CreateIntent
<1>2. (CHOOSE i \in {Symbol} : TRUE) = Symbol
  OBVIOUS
<1>b. Orders!Blank \in OrderShape
  BY <1>2 DEF Orders!Blank, OrderShape
<1>3. /\ new \in OrderShape
      /\ new.created /\ ~new.resolved /\ ~new.terminal
      /\ new.action = "ENTRY"
  <2>1. new \in OrderShape
    <3>1. Quantity \in Int /\ Symbol \in {Symbol} /\ "ENTRY" \in {"ENTRY", "EXIT"}
      BY QuantityAssumption
    <3> QED
      BY <1>b, <3>1 DEF OrderShape
  <2>2. ~Orders!Blank.resolved /\ ~Orders!Blank.terminal
    BY DEF Orders!Blank
  <2> QED
    BY <1>b, <2>1, <2>2 DEF OrderShape
<1>4. \A y \in Op : ~Orders!Unresolved(y)
  BY DEF Orders!CreateIntent, Orders!HasUnresolved, Orders!Family, BooksInv,
         Recorded, OrderShape
<1>5. /\ orders' \in [Op -> OrderShape] /\ orders'[x] = new
      /\ KeepsOthers(x)
  BY <1>1, <1>3 DEF BooksInv, KeepsOthers
<1>6. ~orders[x].created
  BY DEF Orders!CreateIntent
<1>7. \A y \in Op : Recorded(y)'
  <2>1. Recorded(x)'
    BY <1>3, <1>5, <1>6 DEF BooksInv, Recorded
  <2>2. \A y \in Op \ {x} : Recorded(y)'
    BY <1>5 DEF BooksInv, Recorded, KeepsOthers
  <2> QED
    BY <2>1, <2>2
<1> QED
  BY <1>3, <1>4, <1>5, <1>7 DEF BooksInv, OneUnresolved, KeepsOthers

LEMMA AttachKeeps ==
  ASSUME BooksInv, NEW x \in Op, Orders!AttachOrderId(x, x), UNCHANGED book
  PROVE  /\ BooksInv'
         /\ \A y \in Op : /\ orders'[y].terminal = orders[y].terminal
                          /\ Orders!Unresolved(y) => Orders!Unresolved(y)'
<1>1. orders' = [orders EXCEPT ![x].orderId = x]
  BY DEF Orders!AttachOrderId
<1>2. orders' \in [Op -> OrderShape]
  BY <1>1 DEF BooksInv, OrderShape
<1>3. \A y \in Op : /\ orders'[y].created = orders[y].created
                    /\ orders'[y].action = orders[y].action
                    /\ orders'[y].filled = orders[y].filled
                    /\ orders'[y].applied = orders[y].applied
                    /\ orders'[y].terminal = orders[y].terminal
                    /\ orders'[y].resolved = orders[y].resolved
  BY <1>1 DEF BooksInv, OrderShape
<1> QED
  BY <1>2, <1>3 DEF BooksInv, Recorded, OneUnresolved

LEMMA ApplyKeeps ==
  ASSUME BooksInv, NEW x \in Op, NEW n \in Int, Orders!MarkEntryFillApplied(x, n),
         UNCHANGED book
  PROVE  /\ BooksInv'
         /\ \A y \in Op : orders'[y].terminal = orders[y].terminal
<1>1. orders[x].created /\ orders' = [orders EXCEPT ![x].applied = n]
  BY DEF Orders!MarkEntryFillApplied
<1>2. orders' \in [Op -> OrderShape]
  BY <1>1 DEF BooksInv, OrderShape
<1>3. \A y \in Op : /\ orders'[y].created = orders[y].created
                    /\ orders'[y].action = orders[y].action
                    /\ orders'[y].filled = orders[y].filled
                    /\ ~orders[y].created => orders'[y].applied = orders[y].applied
                    /\ orders'[y].terminal = orders[y].terminal
                    /\ orders'[y].resolved = orders[y].resolved
  BY <1>1 DEF BooksInv, OrderShape
<1> QED
  BY <1>2, <1>3 DEF BooksInv, Recorded, OneUnresolved

\* An operation may be resolved once its terminal answer is stored.
LEMMA ResolveKeeps ==
  ASSUME BooksInv, NEW x \in Op, Orders!MarkResolved(x), orders[x].terminal,
         UNCHANGED book
  PROVE  /\ BooksInv'
         /\ \A y \in Op : orders'[y].terminal = orders[y].terminal
<1> DEFINE new == [orders[x] EXCEPT !.resolved = TRUE]
<1>0. orders \in [Op -> OrderShape] /\ orders[x] \in OrderShape
  BY DEF BooksInv
<1>1. orders[x].created /\ orders' = [orders EXCEPT ![x] = new]
  BY <1>0 DEF Orders!MarkResolved
<1>n. new \in OrderShape
  BY <1>0 DEF OrderShape
<1>2. orders' \in [Op -> OrderShape]
  BY <1>0, <1>1, <1>n
<1>3. \A y \in Op : /\ orders'[y].created = orders[y].created
                    /\ orders'[y].action = orders[y].action
                    /\ orders'[y].filled = orders[y].filled
                    /\ orders'[y].applied = orders[y].applied
                    /\ orders'[y].terminal = orders[y].terminal
                    /\ y # x => orders'[y].resolved = orders[y].resolved
                    /\ orders'[x].resolved
  BY <1>1 DEF BooksInv, OrderShape
<1> QED
  BY <1>1, <1>2, <1>3 DEF BooksInv, Recorded, OneUnresolved

\* An answer is stored for an unresolved operation: what it calls terminal
\* has ended at the broker, with the fill it stores.
LEMMA VerifyKeeps ==
  ASSUME BooksInv, call \in CallShape, NEW x \in Op, ~orders[x].resolved,
         Verify(x), UNCHANGED book
  PROVE  /\ BooksInv'
         /\ call' \in CallShape /\ call'.op = x
         /\ call'.terminal = orders'[x].terminal
         /\ Orders!Unresolved(x)'
<1>1. PICK a \in Answers(x) :
        /\ Orders!UpdateVerification(x, a.filled, a.priced, a.terminal)
        /\ call' = [call EXCEPT !.op = x, !.filled = a.filled,
                                !.priced = a.priced, !.terminal = a.terminal]
  BY DEF Verify
<1>2. /\ a.filled \in Int /\ a.priced \in BOOLEAN /\ a.terminal \in BOOLEAN
      /\ a.terminal => Broker!Ended(x) /\ a.filled = book[x].filled
  <2>1. book[x].filled \in Int
    BY DEF BooksInv, BookShape
  <2>2. CASE a = [filled |-> 0, priced |-> FALSE, terminal |-> FALSE]
    BY <2>2
  <2>3. CASE a \in [filled : {book[x].filled}, terminal : {Broker!Ended(x)},
                    priced : IF book[x].filled > 0 THEN BOOLEAN ELSE {FALSE}]
    <3>1. a.filled = book[x].filled /\ a.priced \in BOOLEAN
      BY <2>3
    <3>2. a.terminal \in {Broker!Ended(x)}
      BY <2>3
    <3>3. a.terminal \in BOOLEAN /\ (a.terminal => Broker!Ended(x))
      <4>1. Broker!Ended(x) \in BOOLEAN
        OBVIOUS
      <4> QED
        BY <3>2, <4>1, OneTruth
    <3> QED
      BY <2>1, <3>1, <3>3
  <2> QED
    BY <2>2, <2>3 DEF Answers
<1>3. /\ orders[x].created
      /\ orders' = [orders EXCEPT ![x].filled = a.filled, ![x].priced = a.priced,
                                  ![x].terminal = a.terminal]
  BY <1>1 DEF Orders!UpdateVerification
<1> DEFINE new == [orders[x] EXCEPT !.filled = a.filled, !.priced = a.priced,
                                    !.terminal = a.terminal]
<1>n. new \in OrderShape
  <2>1. orders[x] \in OrderShape
    BY DEF BooksInv
  <2> QED
    BY <1>2, <2>1 DEF OrderShape
<1>e. orders' = [orders EXCEPT ![x] = new]
  BY <1>3 DEF BooksInv
<1>4. orders' \in [Op -> OrderShape]
  BY <1>n, <1>e DEF BooksInv
<1>5. /\ \A y \in Op \ {x} : orders'[y] = orders[y]
      /\ orders'[x].created = orders[x].created
      /\ orders'[x].action = orders[x].action
      /\ orders'[x].filled = a.filled
      /\ orders'[x].terminal = a.terminal
      /\ orders'[x].resolved = orders[x].resolved
  <2>1. /\ new.created = orders[x].created /\ new.action = orders[x].action
        /\ new.filled = a.filled /\ new.terminal = a.terminal
        /\ new.resolved = orders[x].resolved
    BY DEF BooksInv, OrderShape
  <2> HIDE DEF new
  <2>2. orders'[x] = new /\ \A y \in Op \ {x} : orders'[y] = orders[y]
    BY <1>e DEF BooksInv
  <2> QED
    BY <2>1, <2>2
<1>6. BooksInv'
  BY <1>2, <1>3, <1>4, <1>5 DEF BooksInv, Recorded, OneUnresolved
<1>7. /\ call' \in CallShape /\ call'.op = x
      /\ call'.terminal = a.terminal
  BY <1>1, <1>2 DEF CallShape
<1> QED
  BY <1>3, <1>5, <1>6, <1>7

----------------------------------------------------------------------------
(* The broker *)

\* An order that has ended does not move, and only a submitted one begins to.
LEMMA BrokerKeeps ==
  ASSUME BooksInv, NEW o \in Op, UNCHANGED orders,
         \/ Broker!Accept(o) \/ Broker!Reject(o) \/ Broker!Lose(o)
         \/ Broker!Fill(o) \/ Broker!Cancel(o)
  PROVE  BooksInv'
<1>1. ASSUME NEW s \in Broker!Status \ {"NONE"}, Broker!InFlight(o), Broker!Become(o, s)
      PROVE  BooksInv'
  <2>1. /\ book' \in [Op -> BookShape]
        /\ \A y \in Op \ {o} : book'[y] = book[y]
        /\ book'[o].status = s /\ book'[o].filled = book[o].filled
    BY <1>1 DEF Broker!Become, BooksInv, BookShape
  <2> QED
    BY <1>1, <2>1 DEF BooksInv, Recorded, OneUnresolved
<1>2. CASE Broker!Fill(o)
  <2> DEFINE s == IF Broker!Left(o) = 1 THEN "COMPLETE" ELSE book[o].status
             n == book[o].filled + 1
             new == [book[o] EXCEPT !.filled = n, !.status = s]
  <2>n. new \in BookShape
    <3>1. /\ book[o] \in BookShape
          /\ "COMPLETE" \in Broker!Status
      BY DEF BooksInv, Broker!Status
    <3>2. s \in Broker!Status /\ n \in Int
      BY <3>1 DEF BookShape
    <3> HIDE DEF s, n
    <3> QED
      BY <3>1, <3>2 DEF BookShape
  <2>e. book' = [book EXCEPT ![o] = new]
    BY <1>2 DEF Broker!Fill, BooksInv
  <2>1. /\ Broker!InFlight(o)
        /\ book' \in [Op -> BookShape]
        /\ \A y \in Op \ {o} : book'[y] = book[y]
    BY <1>2, <2>n, <2>e DEF Broker!Fill, BooksInv
  <2>2. ~Broker!Ended(o)
    BY <1>2 DEF Broker!Fill
  <2> QED
    BY <2>1, <2>2 DEF BooksInv, Recorded, OneUnresolved
<1> QED
  BY <1>1, <1>2 DEF Broker!Accept, Broker!Reject, Broker!Lose, Broker!Cancel,
                    Broker!Status

LEMMA SubmitKeeps ==
  ASSUME BooksInv, NEW o \in Op, Broker!Submit(o, Quantity), UNCHANGED orders,
         Orders!Unresolved(o)
  PROVE  BooksInv'
<1> DEFINE new == [book[o] EXCEPT !.status = "SENT", !.qty = Quantity]
<1>n. new \in BookShape /\ new.status = "SENT" /\ new.filled = book[o].filled
  <2>1. /\ book[o] \in BookShape /\ Quantity \in Int
        /\ "SENT" \in Broker!Status
    BY QuantityAssumption DEF BooksInv, Broker!Status
  <2> QED
    BY <2>1 DEF BookShape
<1>e. book' = [book EXCEPT ![o] = new]
  BY DEF Broker!Submit, BooksInv
<1>1. /\ book[o].status = "NONE"
      /\ book' \in [Op -> BookShape]
      /\ \A y \in Op \ {o} : book'[y] = book[y]
      /\ book'[o].status = "SENT" /\ book'[o].filled = book[o].filled
  BY <1>n, <1>e DEF Broker!Submit, BooksInv
<1> QED
  BY <1>1 DEF BooksInv, Recorded, OneUnresolved

----------------------------------------------------------------------------
(* The bot *)

USE DEF Booking, market, bot, days, Goto, Save, OrderStoreStep, BrokerStep, LocalStep

LEMMA NoCallShape == NoCall \in CallShape /\ ~NoCall.terminal /\ NoCall.op = NoOp
BY DEF NoCall, CallShape

\* Steps without a write to the order store or a request to the broker, which
\* place no order and store no answer.
LEMMA Quiet ==
  ASSUME EntryInv, UNCHANGED <<orders, book>>, call' \in CallShape,
         call'.terminal => call.terminal /\ call'.op = call.op,
         pc' \notin {"submit", "attach", "verify", "resolve"},
         pc' \in Booking => call'.op \in Op
  PROVE  EntryInv'
<1>1. BooksInv'
  BY DEF EntryInv, BooksInv, Recorded, OneUnresolved
<1> QED
  BY <1>1 DEF EntryInv, CallInv

LEMMA EnteringKeeps == EntryInv /\ Entering => EntryInv'
<1> SUFFICES ASSUME EntryInv, Entering PROVE EntryInv'
  OBVIOUS
<1>s. BooksInv /\ call \in CallShape
  BY DEF EntryInv, CallInv
<1>1. CASE CreateEntryIntent
  <2>1. PICK x \in Op : /\ Orders!CreateIntent(x, Symbol, "ENTRY", Quantity)
                        /\ call' = [NoCall EXCEPT !.op = x]
    BY <1>1 DEF CreateEntryIntent
  <2>2. BooksInv' /\ Orders!Unresolved(x)'
    BY <1>1, <1>s, <2>1, CreateKeeps DEF CreateEntryIntent
  <2>3. call' \in CallShape /\ call'.op = x /\ ~call'.terminal
    BY <2>1, NoCallShape DEF CallShape
  <2> QED
    BY <1>1, <2>2, <2>3 DEF CreateEntryIntent, EntryInv, CallInv
<1>2. CASE SubmitEntry
  <2>1. call.op \in Op /\ Orders!Unresolved(call.op)
    BY <1>2 DEF SubmitEntry, EntryInv, CallInv
  <2>2. BooksInv'
    BY <1>2, <1>s, <2>1, SubmitKeeps DEF SubmitEntry
  <2> QED
    BY <1>2, <2>1, <2>2 DEF SubmitEntry, EntryInv, CallInv
<1>3. CASE AttachEntry
  <2>1. call.op \in Op /\ Orders!Unresolved(call.op)
    BY <1>3 DEF AttachEntry, EntryInv, CallInv
  <2>2. /\ BooksInv'
        /\ \A y \in Op : /\ orders'[y].terminal = orders[y].terminal
                         /\ Orders!Unresolved(y) => Orders!Unresolved(y)'
    BY <1>3, <1>s, <2>1, AttachKeeps DEF AttachEntry
  <2> QED
    BY <1>3, <2>1, <2>2 DEF AttachEntry, EntryInv, CallInv
<1>4. CASE EntryUncertain
  BY <1>4, Quiet, NoCallShape DEF EntryUncertain
<1>5. CASE VerifyEntry
  <2>1. call.op \in Op /\ Orders!Unresolved(call.op)
    BY <1>5 DEF VerifyEntry, EntryInv, CallInv
  <2>2. /\ BooksInv'
        /\ call' \in CallShape /\ call'.op = call.op
        /\ call'.terminal = orders'[call.op].terminal
        /\ Orders!Unresolved(call.op)'
    BY <1>5, <1>s, <2>1, VerifyKeeps DEF VerifyEntry
  <2>3. /\ pc' = "resolve" => call'.terminal
        /\ pc' \notin {"submit", "attach", "verify"}
    BY <1>5 DEF VerifyEntry, AfterEntry
  <2> QED
    BY <2>1, <2>2, <2>3 DEF EntryInv, CallInv
<1>6. CASE ResolveEntry
  <2>1. call.op \in Op /\ orders[call.op].terminal
    BY <1>6 DEF ResolveEntry, EntryInv, CallInv
  <2>2. BooksInv' /\ \A y \in Op : orders'[y].terminal = orders[y].terminal
    BY <1>6, <1>s, <2>1, ResolveKeeps DEF ResolveEntry
  <2> QED
    BY <1>6, <2>1, <2>2 DEF ResolveEntry, AfterEntry, EntryInv, CallInv
<1>7. CASE BookEntry
  BY <1>7, <1>s, Quiet DEF BookEntry, EntryInv, CallInv
<1>8. CASE MarkApplied
  <2>1. call.op \in Op /\ call.filled \in Int
    BY <1>8, <1>s DEF MarkApplied, EntryInv, CallInv, CallShape
  <2>2. BooksInv' /\ \A y \in Op : orders'[y].terminal = orders[y].terminal
    BY <1>8, <1>s, <2>1, ApplyKeeps DEF MarkApplied
  <2> QED
    BY <1>8, <2>1, <2>2 DEF MarkApplied, EntryInv, CallInv
<1>9. CASE ProtectEntry
  BY <1>9, <1>s, Quiet DEF ProtectEntry
<1>10. CASE SaveProtection
  BY <1>10, <1>s, Quiet, NoCallShape DEF SaveProtection
<1> QED
  BY <1>1, <1>2, <1>3, <1>4, <1>5, <1>6, <1>7, <1>8, <1>9, <1>10 DEF Entering

LEMMA RecoveringKeeps == EntryInv /\ Recovering => EntryInv'
<1> SUFFICES ASSUME EntryInv, Recovering PROVE EntryInv'
  OBVIOUS
<1>s. BooksInv /\ call \in CallShape
  BY DEF EntryInv, CallInv
<1>l. \A x : Looked(x) \in CallShape /\ ~Looked(x).terminal
  BY <1>s, NoCallShape DEF Looked, CallShape
<1>1. ASSUME NEW x \in Op, SuppressOld(x) PROVE EntryInv'
  <2>1. orders[x].filled \in Int
    BY <1>s DEF BooksInv, OrderShape
  <2>2. BooksInv'
    BY <1>1, <1>s, <2>1, ApplyKeeps DEF SuppressOld
  <2> QED
    BY <1>1, <1>l, <2>2 DEF SuppressOld, EntryInv, CallInv
<1>2. ASSUME NEW x \in Op, Reattach(x) PROVE EntryInv'
  <2>1. BooksInv' /\ \A y \in Op : orders'[y].terminal = orders[y].terminal
    BY <1>2, <1>s, AttachKeeps DEF Reattach
  <2> QED
    BY <1>2, <2>1 DEF Reattach, EntryInv, CallInv
<1>3. ASSUME NEW x \in Op, SkipUnmatched(x) PROVE EntryInv'
  BY <1>3, <1>l, Quiet DEF SkipUnmatched
<1>4. ASSUME NEW x \in Op, Reverify(x) PROVE EntryInv'
  <2>1. CASE orders[x].resolved
    <3>1. /\ call' \in CallShape /\ call'.op = x
          /\ call'.terminal = orders[x].terminal
      BY <1>4, <1>s, <2>1 DEF Reverify, BooksInv, OrderShape, CallShape
    <3>2. BooksInv'
      BY <1>4, <1>s, <2>1 DEF Reverify, BooksInv, Recorded, OneUnresolved
    <3> QED
      BY <1>4, <2>1, <3>1, <3>2 DEF Reverify, EntryInv, CallInv
  <2>2. CASE ~orders[x].resolved
    <3>1. /\ BooksInv'
          /\ call' \in CallShape /\ call'.op = x
          /\ call'.terminal = orders'[x].terminal
      BY <1>4, <1>s, <2>2, VerifyKeeps DEF Reverify
    <3> QED
      BY <1>4, <3>1 DEF Reverify, EntryInv, CallInv
  <2> QED
    BY <2>1, <2>2
<1>5. CASE RefuseOld
  BY <1>5, Quiet, NoCallShape DEF RefuseOld
<1>6. CASE BookRecovered
  BY <1>6, <1>s, Quiet DEF BookRecovered, EntryInv, CallInv
<1>7. CASE StartupDies
  BY <1>7, Quiet, NoCallShape DEF StartupDies
<1>8. ASSUME pc \in Booking,
             Orders!MarkEntryFillApplied(call.op, call.filled),
             pc' \in {"protect", "settle"}, UNCHANGED call, OrderStoreStep
      PROVE  EntryInv'
  <2>1. call.op \in Op /\ call.filled \in Int
    BY <1>8, <1>s DEF EntryInv, CallInv, CallShape
  <2>2. BooksInv' /\ \A y \in Op : orders'[y].terminal = orders[y].terminal
    BY <1>8, <1>s, <2>1, ApplyKeeps
  <2> QED
    BY <1>8, <2>1, <2>2 DEF EntryInv, CallInv
<1>9. CASE MarkRecovered
  BY <1>7, <1>8, <1>9 DEF MarkRecovered
<1>10. CASE NothingNew
  <2>1. CASE Newly < 0 /\ Goto("settle") /\ LocalStep
    BY <1>s, <2>1, Quiet
  <2> QED
    BY <1>7, <1>8, <1>10, <2>1 DEF NothingNew
<1>11. CASE Settle
  <2>1. BooksInv'
    <3>1. CASE call.terminal
      BY <1>11, <1>s, <3>1, ResolveKeeps DEF Settle, EntryInv, CallInv
    <3>2. CASE ~call.terminal
      BY <1>11, <1>s, <3>2 DEF Settle, BooksInv, Recorded, OneUnresolved
    <3> QED
      BY <3>1, <3>2
  <2> QED
    BY <1>11, <1>l, <2>1 DEF Settle, EntryInv, CallInv
<1>12. CASE RecoverStop
  BY <1>12, <1>s, Quiet DEF RecoverStop
<1> QED
  BY <1>1, <1>2, <1>3, <1>4, <1>5, <1>6, <1>9, <1>10, <1>11, <1>12 DEF Recovering

\* The broker ends the orders of the day; what had ended stays as it was.
LEMMA NewDayKeeps == EntryInv /\ NewDay => EntryInv'
<1> SUFFICES ASSUME EntryInv, NewDay PROVE EntryInv'
  OBVIOUS
<1>1. UNCHANGED <<orders, pc, call>>
  BY DEF NewDay
<1>2. ASSUME NEW o \in Op
      PROVE  /\ book'[o] \in BookShape /\ book'[o].filled = book[o].filled
             /\ book'[o].status =
                  IF Broker!InFlight(o) THEN "CANCELLED" ELSE book[o].status
  <2>1. book[o] \in BookShape /\ "CANCELLED" \in Broker!Status
    BY DEF EntryInv, BooksInv, Broker!Status
  <2>2. book'[o] = IF Broker!InFlight(o)
                     THEN [book[o] EXCEPT !.status = "CANCELLED"] ELSE book[o]
    BY DEF NewDay
  <2> QED
    BY <2>1, <2>2 DEF BookShape
<1>3. book' \in [Op -> BookShape]
  <2>1. /\ book' = [o \in Op |-> book'[o]]
    BY DEF NewDay
  <2> QED
    BY <1>2, <2>1
<1>4. ASSUME NEW o \in Op PROVE Recorded(o)'
  <2>1. Recorded(o)
    BY DEF EntryInv, BooksInv
  <2> QED
    BY <1>1, <1>2, <2>1 DEF Recorded
<1>5. BooksInv'
  BY <1>1, <1>3, <1>4 DEF EntryInv, BooksInv, OneUnresolved
<1> QED
  BY <1>1, <1>5 DEF EntryInv, CallInv

LEMMA InitKeeps == Init => EntryInv
<1> SUFFICES ASSUME Init PROVE EntryInv
  OBVIOUS
<1>1. (CHOOSE i \in {Symbol} : TRUE) = Symbol
  OBVIOUS
<1>2. \A x \in Op : orders[x] = Orders!Blank
  BY DEF Init, Orders!Init
<1>3. Orders!Blank \in OrderShape
  BY <1>1 DEF Orders!Blank, OrderShape
<1>4. orders \in [Op -> OrderShape]
  BY <1>3 DEF Init, Orders!Init
<1>5. book \in [Op -> BookShape]
  BY DEF Init, Broker!Init, BookShape, Broker!Status
<1>6. \A x \in Op : /\ ~orders[x].created /\ ~orders[x].resolved
                    /\ ~orders[x].terminal /\ orders[x].applied = 0
                    /\ book[x].status = "NONE" /\ book[x].filled = 0
  <2>1. \A x \in Op : book[x].status = "NONE" /\ book[x].filled = 0
    BY DEF Init, Broker!Init
  <2>2. \A x \in Op : /\ ~orders[x].created /\ ~orders[x].resolved
                      /\ ~orders[x].terminal /\ orders[x].applied = 0
    <3>1. /\ ~Orders!Blank.created /\ ~Orders!Blank.resolved
          /\ ~Orders!Blank.terminal /\ Orders!Blank.applied = 0
      BY DEF Orders!Blank
    <3> QED
      BY <1>2, <3>1
  <2> QED
    BY <2>1, <2>2
<1>7. BooksInv
  BY <1>4, <1>5, <1>6 DEF BooksInv, Recorded, OneUnresolved
<1> QED
  BY <1>7, NoCallShape DEF Init, EntryInv, CallInv

LEMMA NextKeeps == EntryInv /\ [Next]_vars => EntryInv'
<1> SUFFICES ASSUME EntryInv, [Next]_vars PROVE EntryInv'
  OBVIOUS
<1>s. BooksInv /\ call \in CallShape
  BY DEF EntryInv, CallInv
<1>1. CASE Entering
  BY <1>1, EnteringKeeps
<1>2. CASE Recovering
  BY <1>2, RecoveringKeeps
<1>3. ASSUME NEW n \in 1..Quantity, ExitShares(n) PROVE EntryInv'
  BY <1>3, <1>s, Quiet DEF ExitShares
<1>4. CASE Crash
  BY <1>4, Quiet, NoCallShape DEF Crash
<1>5. CASE Restart
  <2>1. call' \in CallShape /\ ~call'.terminal
    BY <1>5, NoCallShape DEF Restart, CallShape
  <2> QED
    BY <1>5, <2>1, Quiet DEF Restart
<1>6. CASE NewDay
  BY <1>6, NewDayKeeps
<1>7. CASE BrokerMoves
  <2>1. BooksInv'
    BY <1>7, <1>s, BrokerKeeps DEF BrokerMoves
  <2> QED
    BY <1>7, <2>1 DEF BrokerMoves, EntryInv, CallInv
<1>8. CASE UNCHANGED vars
  BY <1>8 DEF vars, EntryInv, BooksInv, Recorded, OneUnresolved, CallInv
<1> QED
  BY <1>1, <1>2, <1>3, <1>4, <1>5, <1>6, <1>7, <1>8 DEF Next

----------------------------------------------------------------------------
(* Theorems *)

LEMMA EntryInvariant == Spec => []EntryInv
BY InitKeeps, NextKeeps, PTL DEF Spec

\* Whatever crashes, restarts, lost responses and unreadable answers there
\* are, and for any number of entries, at most one entry order of the symbol
\* can still fill (place_entry_order never resubmits blindly).
THEOREM NeverTwice == Spec => []OneEntryInFlight
<1>1. EntryInv => OneEntryInFlight
  BY DEF EntryInv, BooksInv, Recorded, OneUnresolved, OneEntryInFlight
<1> QED
  BY <1>1, EntryInvariant, PTL

\* A filled share the order store does not call applied belongs to an
\* operation that the next start looks at.
THEOREM RecoveryMissesNothing == Spec => []UnappliedIsRecovered
<1>1. EntryInv => UnappliedIsRecovered
  <2> SUFFICES ASSUME EntryInv, NEW x \in Op, Unapplied(x) > 0 PROVE Candidate(x)
    BY DEF UnappliedIsRecovered
  <2>1. orders[x] \in OrderShape /\ book[x] \in BookShape /\ Recorded(x)
    BY DEF EntryInv, BooksInv
  <2>2. orders[x].created
    BY <2>1 DEF Recorded, Unapplied
  <2>3. CASE orders[x].resolved
    <3>1. orders[x].filled = book[x].filled
      BY <2>1, <2>3 DEF Recorded
    <3>2. orders[x].filled > orders[x].applied
      BY <2>1, <3>1 DEF OrderShape, BookShape, Unapplied
    <3> QED
      BY <2>2, <3>2 DEF Candidate, HasUnappliedFill
  <2> QED
    BY <2>2, <2>3 DEF Candidate
<1> QED
  BY <1>1, EntryInvariant, PTL

----------------------------------------------------------------------------
(* The books, the file and the account *)

\* Nothing is left to do for an operation.
Done(x) == orders[x].resolved /\ orders[x].applied = book[x].filled

\* An operation of today that may have shares the file does not know of.
Open(x) == x \notin old /\ orders[x].created /\ ~Done(x)

\* ... and that is resolved: its fill is known and not yet marked applied.
Stray(x) == Open(x) /\ orders[x].resolved

RecordInv ==
  \A x \in Op :
    /\ orders[x].filled \in Qty /\ orders[x].applied \in Qty
    /\ orders[x].requested \in Qty
    /\ book[x].qty \in Qty /\ book[x].filled \in Qty /\ book[x].cancels \in Nat
    /\ Broker!InFlight(x) => book[x].filled < book[x].qty
    /\ book[x].status = "NONE" => book[x].filled = 0
    /\ orders[x].terminal => orders[x].orderId # NoOp
    /\ orders[x].filled <= book[x].filled
    /\ orders[x].applied <= book[x].filled
    /\ orders[x].filled = 0 \/ orders[x].applied <= orders[x].filled
    /\ x \in old => orders[x].created /\ ~Broker!InFlight(x)

DayInv ==
  /\ call.filled \in Qty /\ net \in Int /\ stop \in Qty
  /\ old \subseteq Op /\ early \in BOOLEAN /\ restarts \in 0..MaxRestarts

\* The bot does not run.
Asleep == {"down", "failed", "refused"}

\* While an operation of an earlier day is unresolved no other is created.
OldInv ==
  \A x \in old : Orders!Unresolved(x) =>
    /\ file = NoPosition
    /\ \A y \in Op : orders[y].created => y \in old

\* A position that no human is called for, and that has a stop, has one of
\* its quantity.
Sound(P) ==
  P # NoPosition =>
    /\ P \in Position /\ 0 < P.qty /\ P.qty <= P.filled
    /\ ~P.manual /\ P.stopOp => stop = P.qty /\ P.stopQty = P.qty
    /\ ~P.stopOp => P.stopQty = 0

HoldingInv ==
  /\ Sound(pos) /\ Sound(file)
  /\ IF pc \in Asleep THEN pos = NoPosition
                      ELSE pc # "saveProtection" => pos = file
  /\ pc \in {"protect", "saveProtection"} =>
       /\ Held /\ file # NoPosition
       /\ pos.qty = file.qty /\ pos.filled = file.filled
  /\ pc \in {"markApplied", "protect"} => pos.manual \/ ~pos.stopOp
  /\ pc \in {"idle", "saveProtection"} /\ Held /\ ~pos.manual => pos.stopOp

Placing == {"submit", "attach", "verify", "resolve", "book"}

ControlInv ==
  /\ pc \in {"idle", "submit", "attach", "verify", "resolve", "book",
             "markApplied", "protect", "saveProtection", "recover", "apply",
             "markRecovered", "settle", "down", "failed", "refused"}
  /\ pc \in Booking \cup {"resolve"} => call.filled = orders[call.op].filled
  /\ pc \in Placing => pos = NoPosition
  /\ pc \in Placing \cup {"markApplied"} =>
       orders[call.op].applied = 0 /\ call.op \notin old
  /\ pc \in {"book", "markApplied"} => call.filled > 0
  /\ pc = "verify" => orders[call.op].orderId # NoOp
  /\ pc \in {"markApplied", "markRecovered"} => Held /\ pos.filled = call.filled
  /\ pc \in Booking => Open(call.op)
  /\ pc \in {"protect", "saveProtection", "settle"} /\ call.terminal =>
       orders[call.op].applied = book[call.op].filled
  /\ pc \in {"protect", "saveProtection", "settle"} => call.op \notin old
  /\ \/ pc \in {"apply", "markRecovered", "settle"}
     \/ pc \in {"protect", "saveProtection"} /\ call.todo # {}
     => call.op \in call.todo
  /\ pc = "recover" => call.op = NoOp /\ ~call.terminal

\* No fill is left behind but for the operation in progress and for those
\* recovery has still to look at.
StrayInv ==
  /\ pc \in Placing \cup {"idle", "markApplied"} \cup Asleep => call.todo = {}
  /\ \A x \in call.todo : x \notin old /\ x # call.op => Open(x)
  /\ \A x \in Op : Stray(x) =>
       \/ pc \in Asleep
       \/ x \in call.todo /\ (x = call.op => pc \in {"apply", "markRecovered"})
       \/ pc \in {"book", "markApplied"} /\ x = call.op

\* No share of the account is in neither the file nor an open operation.
LedgerInv ==
  /\ \A x, y \in Op : Open(x) /\ Open(y) => x = y
  /\ \A x \in Op : Open(x) /\ file # NoPosition =>
       orders[x].applied <= file.filled /\ file.filled <= book[x].filled
  /\ (\A x \in Op : ~Open(x)) => net <= BookedQty(file)
  /\ \A x \in Op : Open(x) =>
       /\ net <= BookedQty(file) + book[x].filled - orders[x].applied
       /\ file # NoPosition => net <= file.qty + book[x].filled - file.filled

\* ... and exactly so, unless a position was closed before its entry was
\* resolved.
OrderlyInv ==
  ~early =>
    /\ pc # "failed"
    /\ (\A x \in Op : ~Open(x)) => net = BookedQty(file)
    /\ \A x \in Op : Open(x) =>
         IF file = NoPosition
           THEN net = book[x].filled /\ orders[x].applied = 0
           ELSE net = file.qty + book[x].filled - file.filled

FullInv == /\ EntryInv /\ RecordInv /\ DayInv /\ OldInv /\ HoldingInv /\ ControlInv
           /\ StrayInv /\ LedgerInv /\ OrderlyInv

----------------------------------------------------------------------------
(* What the operations of the store and the broker do, field by field *)

\* The operations but x keep their records, x those fields no step changes.
Touches(x) ==
  /\ \A y \in Op \ {x} : orders'[y] = orders[y]
  /\ orders'[x].requested \in Qty
  /\ orders'[x].created

LEMMA CreateEffect ==
  ASSUME BooksInv, NEW x \in Op, Orders!CreateIntent(x, Symbol, "ENTRY", Quantity)
  PROVE  /\ Touches(x)
         /\ ~orders[x].created
         /\ \A y \in Op : ~Orders!Unresolved(y)
         /\ orders'[x].filled = 0 /\ orders'[x].applied = 0
         /\ ~orders'[x].terminal /\ ~orders'[x].resolved
<1> DEFINE new == [Orders!Blank EXCEPT !.created = TRUE, !.instrument = Symbol,
                                       !.action = "ENTRY", !.requested = Quantity]
<1>1. orders' = [orders EXCEPT ![x] = new] /\ ~orders[x].created
  BY DEF Orders!CreateIntent
<1>2. /\ new.requested = Quantity /\ new.created /\ new.filled = 0
      /\ new.applied = 0 /\ ~new.terminal /\ ~new.resolved
  BY DEF Orders!Blank
<1>3. \A y \in Op : ~Orders!Unresolved(y)
  BY DEF Orders!CreateIntent, Orders!HasUnresolved, Orders!Family, BooksInv,
         Recorded, OrderShape
<1> HIDE DEF new
<1> QED
  BY <1>1, <1>2, <1>3, QuantityAssumption DEF BooksInv, Touches, Qty

LEMMA AttachEffect ==
  ASSUME BooksInv, RecordInv, NEW x \in Op, Orders!AttachOrderId(x, x)
  PROVE  /\ Touches(x)
         /\ orders[x].created
         /\ orders'[x].orderId = x
         /\ orders'[x].filled = orders[x].filled
         /\ orders'[x].applied = orders[x].applied
         /\ orders'[x].terminal = orders[x].terminal
         /\ orders'[x].resolved = orders[x].resolved
BY DEF BooksInv, OrderShape, RecordInv, Touches, Orders!AttachOrderId

LEMMA ApplyEffect ==
  ASSUME BooksInv, RecordInv, NEW x \in Op, NEW n \in Int,
         Orders!MarkEntryFillApplied(x, n)
  PROVE  /\ Touches(x)
         /\ orders[x].created
         /\ orders[x].applied <= n /\ n <= orders[x].filled
         /\ orders'[x].applied = n
         /\ orders'[x].orderId = orders[x].orderId
         /\ orders'[x].filled = orders[x].filled
         /\ orders'[x].terminal = orders[x].terminal
         /\ orders'[x].resolved = orders[x].resolved
BY DEF BooksInv, OrderShape, RecordInv, Touches, Orders!MarkEntryFillApplied,
       Orders!CanApplyEntryFill

LEMMA ResolveEffect ==
  ASSUME BooksInv, RecordInv, NEW x \in Op, Orders!MarkResolved(x)
  PROVE  /\ Touches(x)
         /\ orders[x].created
         /\ orders'[x].resolved
         /\ orders'[x].orderId = orders[x].orderId
         /\ orders'[x].filled = orders[x].filled
         /\ orders'[x].applied = orders[x].applied
         /\ orders'[x].terminal = orders[x].terminal
BY DEF BooksInv, OrderShape, RecordInv, Touches, Orders!MarkResolved

\* The broker's answer is stored, and is in the locals of the call.
LEMMA VerifyEffect ==
  ASSUME BooksInv, RecordInv, call \in CallShape, NEW x \in Op, Verify(x)
  PROVE  /\ Touches(x)
         /\ orders[x].created
         /\ orders'[x].orderId = orders[x].orderId
         /\ orders'[x].applied = orders[x].applied
         /\ orders'[x].resolved = orders[x].resolved
         /\ orders'[x].filled \in {0, book[x].filled}
         /\ orders'[x].terminal => orders'[x].filled = book[x].filled
         /\ call'.filled = orders'[x].filled
         /\ call'.terminal = orders'[x].terminal
         /\ call'.op = x /\ call'.todo = call.todo
<1>1. PICK a \in Answers(x) :
        /\ Orders!UpdateVerification(x, a.filled, a.priced, a.terminal)
        /\ call' = [call EXCEPT !.op = x, !.filled = a.filled,
                                !.priced = a.priced, !.terminal = a.terminal]
  BY DEF Verify
<1>2. /\ a.filled \in {0, book[x].filled}
      /\ a.terminal => a.filled = book[x].filled
  <2>1. CASE a = [filled |-> 0, priced |-> FALSE, terminal |-> FALSE]
    BY <2>1
  <2>2. CASE a \in [filled : {book[x].filled}, terminal : {Broker!Ended(x)},
                    priced : IF book[x].filled > 0 THEN BOOLEAN ELSE {FALSE}]
    BY <2>2
  <2> QED
    BY <2>1, <2>2 DEF Answers
<1>3. /\ orders[x].created
      /\ orders' = [orders EXCEPT ![x].filled = a.filled, ![x].priced = a.priced,
                                  ![x].terminal = a.terminal]
  BY <1>1 DEF Orders!UpdateVerification
<1> DEFINE new == [orders[x] EXCEPT !.filled = a.filled, !.priced = a.priced,
                                    !.terminal = a.terminal]
<1>4. /\ new.created = orders[x].created /\ new.orderId = orders[x].orderId
      /\ new.applied = orders[x].applied /\ new.resolved = orders[x].resolved
      /\ new.requested = orders[x].requested
      /\ new.filled = a.filled /\ new.terminal = a.terminal
  BY DEF BooksInv, OrderShape
<1>5. orders' = [orders EXCEPT ![x] = new]
  BY <1>3 DEF BooksInv
<1>6. /\ call'.filled = a.filled /\ call'.terminal = a.terminal
      /\ call'.op = x /\ call'.todo = call.todo
  BY <1>1 DEF CallShape
<1> HIDE DEF new
<1> QED
  BY <1>2, <1>3, <1>4, <1>5, <1>6 DEF BooksInv, RecordInv, Touches

LEMMA SubmitEffect ==
  ASSUME BooksInv, NEW o \in Op, Broker!Submit(o, Quantity)
  PROVE  /\ \A y \in Op \ {o} : book'[y] = book[y]
         /\ book[o].status = "NONE" /\ book'[o].status = "SENT"
         /\ book'[o].qty = Quantity /\ book'[o].filled = book[o].filled
         /\ book'[o].cancels = book[o].cancels
         /\ net' = net
BY DEF BooksInv, BookShape, Broker!Submit

\* Only an order in flight moves; a share of it enters the account or none.
LEMMA MoveEffect ==
  ASSUME BooksInv, RecordInv, NEW o \in Op,
         \/ Broker!Accept(o) \/ Broker!Reject(o) \/ Broker!Lose(o)
         \/ Broker!Fill(o) \/ Broker!Cancel(o)
  PROVE  /\ \A y \in Op \ {o} : book'[y] = book[y]
         /\ Broker!InFlight(o) /\ book'[o].status # "NONE"
         /\ book'[o].qty = book[o].qty /\ book'[o].cancels = book[o].cancels
         /\ \/ book'[o].filled = book[o].filled /\ net' = net
            \/ /\ book'[o].filled = book[o].filled + 1 /\ net' = net + 1
               /\ Broker!InFlight(o)' => book'[o].filled < book'[o].qty
<1>1. ASSUME NEW s \in Broker!Status \ {"NONE"}, Broker!InFlight(o), Broker!Become(o, s)
      PROVE  /\ \A y \in Op \ {o} : book'[y] = book[y]
             /\ Broker!InFlight(o) /\ book'[o].status # "NONE"
             /\ book'[o].qty = book[o].qty /\ book'[o].cancels = book[o].cancels
             /\ book'[o].filled = book[o].filled /\ net' = net
  BY <1>1 DEF Broker!Become, BooksInv, BookShape
<1>2. CASE Broker!Fill(o)
  <2> DEFINE s == IF Broker!Left(o) = 1 THEN "COMPLETE" ELSE book[o].status
             n == book[o].filled + 1
             new == [book[o] EXCEPT !.filled = n, !.status = s]
  <2>1. book' = [book EXCEPT ![o] = new] /\ net' = net + 1 /\ book[o].status = "OPEN"
    BY <1>2 DEF Broker!Fill, BooksInv
  <2>2. /\ s \in {"COMPLETE", "OPEN"}
        /\ s = "OPEN" => n < book[o].qty
    <3>1. /\ book[o].filled \in Int /\ book[o].qty \in Int
          /\ book[o].filled < book[o].qty
      BY <2>1 DEF BooksInv, BookShape, RecordInv
    <3> QED
      BY <2>1, <3>1 DEF Broker!Left
  <2> HIDE DEF s, n
  <2>3. /\ new.status = s /\ new.filled = n /\ new.qty = book[o].qty
        /\ new.cancels = book[o].cancels
    BY DEF BooksInv, BookShape
  <2> HIDE DEF new
  <2>4. book'[o] = new /\ \A y \in Op \ {o} : book'[y] = book[y]
    BY <2>1 DEF BooksInv
  <2> QED
    BY <2>1, <2>2, <2>3, <2>4 DEF n
<1> QED
  BY <1>1, <1>2 DEF Broker!Accept, Broker!Reject, Broker!Lose, Broker!Cancel,
                    Broker!Status

----------------------------------------------------------------------------
(* What carries over *)

USE DEF Asleep, Placing, Held, BookedQty

\* Steps that write neither the stores nor the file and ask the broker for
\* nothing.
LEMMA Unwritten ==
  ASSUME FullInv, UNCHANGED <<orders, file, book, net, old, early>>, pc' # "failed"
  PROVE  /\ RecordInv' /\ OldInv' /\ LedgerInv' /\ OrderlyInv'
         /\ \A y : /\ Open(y)' <=> Open(y)
                   /\ Stray(y)' <=> Stray(y)
<1>1. \A y : (Open(y)' <=> Open(y)) /\ (Stray(y)' <=> Stray(y))
  BY DEF Open, Done, Stray
<1>2. RecordInv' /\ OldInv'
  BY DEF FullInv, RecordInv, OldInv
<1>3. LedgerInv' /\ OrderlyInv'
  BY <1>1 DEF FullInv, LedgerInv, OrderlyInv
<1> QED
  BY <1>1, <1>2, <1>3

\* A new record of operation x within its bounds.
LEMMA StoreRecords ==
  ASSUME BooksInv, RecordInv, NEW x \in Op, Touches(x), UNCHANGED <<book, old>>,
         orders'[x].filled \in {0, orders[x].filled, book[x].filled},
         \/ orders'[x].applied \in {0, orders[x].applied}
         \/ orders'[x].applied \in Int /\ orders[x].applied <= orders'[x].applied
              /\ orders'[x].applied <= orders[x].filled,
         orders'[x].terminal => orders'[x].orderId # NoOp
  PROVE  RecordInv'
<1>1. /\ orders'[x].filled \in Qty /\ orders'[x].filled <= book[x].filled
      /\ orders'[x].applied \in Qty /\ orders'[x].applied <= book[x].filled
      /\ orders'[x].filled = 0 \/ orders'[x].applied <= orders'[x].filled
  BY QuantityAssumption DEF RecordInv, Qty
<1> QED
  BY <1>1 DEF RecordInv, Touches

----------------------------------------------------------------------------
(* Placing an entry *)

LEMMA CreateDeep ==
  ASSUME FullInv, EntryInv', CreateEntryIntent
  PROVE  FullInv'
<1> USE DEF FullInv
<1>1. PICK x \in Op : /\ Orders!CreateIntent(x, Symbol, "ENTRY", Quantity)
                      /\ call' = [NoCall EXCEPT !.op = x]
  BY DEF CreateEntryIntent
<1>2. /\ pc = "idle" /\ pc' = "submit" /\ pos = NoPosition
      /\ UNCHANGED <<file, stop, pos, book, net, old, early, restarts>>
  BY DEF CreateEntryIntent
<1>3. /\ call'.op = x /\ call'.filled = 0 /\ ~call'.terminal /\ call'.todo = {}
  BY <1>1 DEF NoCall
<1>4. /\ Touches(x) /\ ~orders[x].created
      /\ \A y \in Op : ~Orders!Unresolved(y)
      /\ orders'[x].filled = 0 /\ orders'[x].applied = 0
      /\ ~orders'[x].terminal /\ ~orders'[x].resolved
  BY <1>1, CreateEffect DEF EntryInv
<1>5. RecordInv'
  BY <1>2, <1>4, StoreRecords DEF EntryInv
<1>6. x \notin old /\ file = NoPosition /\ book[x].filled = 0
  BY <1>2, <1>4 DEF RecordInv, HoldingInv, EntryInv, BooksInv, Recorded
<1>7. \A y \in Op : ~Open(y)
  BY <1>2, <1>4 DEF Open, Done, Stray, StrayInv
<1>8. \A y \in Op : Open(y)' <=> y = x
  BY <1>2, <1>4, <1>6, <1>7 DEF Open, Done, Touches
<1>9. DayInv' /\ OldInv'
  <2>1. DayInv'
    BY <1>2, <1>3, QuantityAssumption DEF DayInv, Qty
  <2>2. \A y \in old : y \in Op \ {x}
    BY <1>6 DEF DayInv
  <2> QED
    BY <1>2, <1>4, <2>1, <2>2 DEF OldInv, Touches
<1>10. HoldingInv'
  BY <1>2 DEF HoldingInv, Sound
<1>11. ControlInv'
  BY <1>2, <1>3, <1>4, <1>6 DEF ControlInv
<1>12. StrayInv'
  BY <1>2, <1>3, <1>4, <1>8 DEF StrayInv, Stray
<1>13. LedgerInv'
  BY <1>2, <1>4, <1>6, <1>7, <1>8 DEF LedgerInv, DayInv
<1>14. OrderlyInv'
  BY <1>2, <1>4, <1>6, <1>7, <1>8 DEF OrderlyInv, DayInv
<1> QED
  BY <1>5, <1>9, <1>10, <1>11, <1>12, <1>13, <1>14

LEMMA SubmitDeep ==
  ASSUME FullInv, EntryInv', SubmitEntry
  PROVE  FullInv'
<1> USE DEF FullInv
<1> DEFINE x == call.op
<1>1. /\ pc = "submit" /\ pc' = "attach"
      /\ UNCHANGED <<orders, file, stop, pos, call, old, early, restarts>>
      /\ Broker!Submit(x, Quantity)
  BY DEF SubmitEntry
<1>2. x \in Op /\ x \notin old
  BY <1>1 DEF EntryInv, CallInv, ControlInv
<1>3. /\ \A y \in Op \ {x} : book'[y] = book[y]
      /\ book[x].status = "NONE" /\ book'[x].status = "SENT"
      /\ book'[x].qty = Quantity /\ book'[x].filled = book[x].filled
      /\ book'[x].cancels = book[x].cancels
      /\ net' = net
  BY <1>1, <1>2, SubmitEffect DEF EntryInv
<1>4. \A y \in Op : book'[y].filled = book[y].filled
  BY <1>3
<1>5. \A y \in Op : (Open(y)' <=> Open(y)) /\ (Stray(y)' <=> Stray(y))
  BY <1>1, <1>4 DEF Open, Done, Stray
<1>6. RecordInv'
  BY <1>1, <1>2, <1>3, QuantityAssumption DEF RecordInv, Qty
<1>7. DayInv' /\ OldInv'
  BY <1>1, <1>3 DEF DayInv, OldInv
<1>8. HoldingInv' /\ ControlInv'
  BY <1>1 DEF HoldingInv, Sound, ControlInv
<1>9. StrayInv'
  BY <1>1, <1>2, <1>5 DEF StrayInv
<1>10. LedgerInv' /\ OrderlyInv'
  BY <1>1, <1>3, <1>4, <1>5 DEF LedgerInv, OrderlyInv
<1> QED
  BY <1>6, <1>7, <1>8, <1>9, <1>10

\* Attaching an order id, when placing an entry or in recovery.
LEMMA AttachDeep ==
  ASSUME FullInv, NEW x \in Op, Orders!AttachOrderId(x, x), OrderStoreStep,
         UNCHANGED call,
         pc' = pc \/ (pc = "attach" /\ pc' = "verify" /\ x = call.op),
         pc \in {"attach", "recover"}
  PROVE  RecordInv' /\ DayInv' /\ OldInv' /\ HoldingInv' /\ ControlInv'
           /\ StrayInv' /\ LedgerInv' /\ OrderlyInv'
<1> USE DEF FullInv
<1>1. UNCHANGED <<file, stop, pos, book, net, old, early, restarts>>
  OBVIOUS
<1>2. /\ Touches(x) /\ orders[x].created /\ orders'[x].orderId = x
      /\ orders'[x].filled = orders[x].filled
      /\ orders'[x].applied = orders[x].applied
      /\ orders'[x].terminal = orders[x].terminal
      /\ orders'[x].resolved = orders[x].resolved
  BY AttachEffect DEF EntryInv
<1>3. RecordInv'
  <2>1. x # NoOp
    BY OpAssumption
  <2> QED
    BY <1>1, <1>2, <2>1, StoreRecords DEF EntryInv
<1>4. \A y \in Op : /\ orders'[y].created <=> orders[y].created
                    /\ orders'[y].filled = orders[y].filled
                    /\ orders'[y].applied = orders[y].applied
                    /\ orders'[y].resolved = orders[y].resolved
  BY <1>2 DEF Touches
<1>5. \A y \in Op : (Open(y)' <=> Open(y)) /\ (Stray(y)' <=> Stray(y))
  BY <1>1, <1>4 DEF Open, Done, Stray
<1>6. DayInv' /\ OldInv'
  BY <1>1, <1>4 DEF DayInv, OldInv
<1>7. HoldingInv'
  BY <1>1 DEF HoldingInv, Sound
<1>8. ControlInv'
  BY <1>1, <1>2, <1>4, OpAssumption DEF ControlInv, EntryInv, CallInv
<1>9. StrayInv'
  BY <1>1, <1>5 DEF StrayInv, EntryInv, CallInv, CallShape
<1>10. LedgerInv' /\ OrderlyInv'
  BY <1>1, <1>4, <1>5 DEF LedgerInv, OrderlyInv
<1> QED
  BY <1>3, <1>6, <1>7, <1>8, <1>9, <1>10

LEMMA UncertainDeep ==
  ASSUME FullInv, EntryInv', EntryUncertain
  PROVE  FullInv'
<1>1. /\ pc = "attach" /\ pc' = "idle" /\ call' = NoCall
      /\ UNCHANGED <<orders, file, stop, pos, book, net, old, early, restarts>>
  BY DEF EntryUncertain
<1>2. /\ RecordInv' /\ OldInv' /\ LedgerInv' /\ OrderlyInv'
      /\ \A y : Stray(y)' <=> Stray(y)
  BY <1>1, Unwritten
<1>3. DayInv' /\ HoldingInv'
  BY <1>1, QuantityAssumption DEF FullInv, DayInv, HoldingInv, Sound, ControlInv, NoCall, Qty
<1>4. ControlInv' /\ StrayInv'
  BY <1>1, <1>2 DEF FullInv, ControlInv, StrayInv, NoCall
<1> QED
  BY <1>2, <1>3, <1>4 DEF FullInv

\* An answer for an unresolved operation changes nothing of the accounts.
LEMMA VerifyDeep ==
  ASSUME FullInv, NEW x \in Op, ~orders[x].resolved, Verify(x), OrderStoreStep,
         orders[x].orderId # NoOp, pc' # "failed"
  PROVE  /\ RecordInv' /\ DayInv' /\ OldInv' /\ LedgerInv' /\ OrderlyInv'
         /\ \A y \in Op : (Open(y)' <=> Open(y)) /\ (Stray(y)' <=> Stray(y))
         /\ orders[x].created
         /\ orders'[x].applied = orders[x].applied /\ ~orders'[x].resolved
         /\ call'.filled = orders'[x].filled
         /\ call'.op = x /\ call'.todo = call.todo
<1> USE DEF FullInv
<1>1. UNCHANGED <<file, stop, pos, book, net, old, early, restarts>>
  OBVIOUS
<1>2. /\ Touches(x)
      /\ orders[x].created
      /\ orders'[x].orderId = orders[x].orderId
      /\ orders'[x].applied = orders[x].applied
      /\ orders'[x].resolved = orders[x].resolved
      /\ orders'[x].filled \in {0, book[x].filled}
      /\ call'.filled = orders'[x].filled
      /\ call'.op = x /\ call'.todo = call.todo
  BY VerifyEffect DEF EntryInv, CallInv
<1>3. RecordInv'
  BY <1>1, <1>2, StoreRecords DEF EntryInv
<1>4. \A y \in Op : /\ orders'[y].created <=> orders[y].created
                    /\ orders'[y].applied = orders[y].applied
                    /\ orders'[y].resolved = orders[y].resolved
  BY <1>2 DEF Touches
<1>5. \A y \in Op : (Open(y)' <=> Open(y)) /\ (Stray(y)' <=> Stray(y))
  BY <1>1, <1>4 DEF Open, Done, Stray
<1>6. DayInv' /\ OldInv'
  <2>1. call'.filled \in Qty
    BY <1>2, <1>3 DEF RecordInv
  <2>2. DayInv'
    BY <1>1, <2>1 DEF DayInv
  <2> QED
    BY <1>1, <1>4, <2>2 DEF OldInv, DayInv
<1>7. LedgerInv' /\ OrderlyInv'
  BY <1>1, <1>4, <1>5 DEF LedgerInv, OrderlyInv
<1> QED
  BY <1>2, <1>3, <1>5, <1>6, <1>7

LEMMA VerifyEntryDeep ==
  ASSUME FullInv, EntryInv', VerifyEntry
  PROVE  FullInv'
<1> DEFINE x == call.op
<1>1. /\ pc = "verify" /\ Verify(x) /\ OrderStoreStep
      /\ pc' = IF call'.terminal THEN "resolve" ELSE AfterEntry(call'.filled)
  BY DEF VerifyEntry
<1>2. /\ x \in Op /\ ~orders[x].resolved /\ orders[x].orderId # NoOp
      /\ x \notin old /\ orders[x].applied = 0 /\ call.todo = {}
  BY <1>1 DEF FullInv, EntryInv, CallInv, ControlInv, StrayInv
<1>3. /\ pc' \in {"resolve", "book", "idle"}
      /\ pc' = "book" => call'.filled > 0
  BY <1>1 DEF AfterEntry
<1>4. /\ RecordInv' /\ DayInv' /\ OldInv' /\ LedgerInv' /\ OrderlyInv'
      /\ \A y \in Op : (Open(y)' <=> Open(y)) /\ (Stray(y)' <=> Stray(y))
      /\ orders[x].created
      /\ orders'[x].applied = orders[x].applied /\ ~orders'[x].resolved
      /\ call'.filled = orders'[x].filled
      /\ call'.op = x /\ call'.todo = call.todo
  BY <1>1, <1>2, <1>3, VerifyDeep
<1>5. Open(x)
  BY <1>2, <1>4 DEF Open, Done
<1>6. HoldingInv'
  BY <1>1, <1>3 DEF FullInv, HoldingInv, Sound, ControlInv
<1>7. ControlInv'
  BY <1>1, <1>2, <1>3, <1>4, <1>5 DEF FullInv, ControlInv
<1>8. StrayInv'
  BY <1>1, <1>2, <1>3, <1>4 DEF FullInv, StrayInv
<1> QED
  BY <1>4, <1>6, <1>7, <1>8 DEF FullInv

\* The accounts close over an operation that is resolved with its fill applied.
LEMMA ResolveDeep ==
  ASSUME FullInv, NEW x \in Op, Orders!MarkResolved(x), OrderStoreStep,
         orders[x].terminal, x \notin old, pc' # "failed",
         \/ orders[x].applied = book[x].filled
         \/ file = NoPosition /\ orders[x].applied = 0
  PROVE  /\ RecordInv' /\ OldInv' /\ LedgerInv' /\ OrderlyInv'
         /\ \A y \in Op : /\ y # x => (Open(y)' <=> Open(y)) /\ (Stray(y)' <=> Stray(y))
                          /\ Open(x)' <=> orders[x].applied # book[x].filled
         /\ orders'[x].filled = orders[x].filled
         /\ orders'[x].applied = orders[x].applied
<1> USE DEF FullInv
<1>1. UNCHANGED <<file, stop, pos, book, net, old, early, restarts>>
  OBVIOUS
<1>2. /\ Touches(x)
      /\ orders[x].created
      /\ orders'[x].resolved
      /\ orders'[x].orderId = orders[x].orderId
      /\ orders'[x].filled = orders[x].filled
      /\ orders'[x].applied = orders[x].applied
      /\ orders'[x].terminal = orders[x].terminal
  BY ResolveEffect DEF EntryInv
<1>3. RecordInv'
  <2>1. orders'[x].terminal => orders'[x].orderId # NoOp
    BY <1>2 DEF RecordInv
  <2> QED
    BY <1>1, <1>2, <2>1, StoreRecords DEF EntryInv
<1>4. \A y \in Op : /\ orders'[y].created <=> orders[y].created
                    /\ orders'[y].applied = orders[y].applied
                    /\ y # x => orders'[y].resolved = orders[y].resolved
  BY <1>2 DEF Touches
<1>5. /\ \A y \in Op : y # x => (Open(y)' <=> Open(y)) /\ (Stray(y)' <=> Stray(y))
      /\ Open(x)' <=> orders[x].applied # book[x].filled
      /\ Open(x)' => Open(x)
  BY <1>1, <1>2, <1>4 DEF Open, Done, Stray
<1>6. OldInv'
  BY <1>1, <1>2, <1>4 DEF OldInv, DayInv
<1>7. Open(x) \/ (\A y \in Op : Open(y)' <=> Open(y))
  BY <1>5
<1>8. /\ net \in Int /\ book[x].filled \in Int /\ orders[x].applied \in Int
      /\ file # NoPosition => file.filled \in Int /\ file.qty \in Int
  BY DEF DayInv, RecordInv, HoldingInv, Sound, Position, Qty
<1>9. LedgerInv'
  BY <1>1, <1>4, <1>5, <1>8 DEF LedgerInv
<1>10. OrderlyInv'
  <2>1. CASE Open(x)
    <3>1. \A y \in Op \ {x} : ~Open(y)'
      BY <1>5, <2>1 DEF LedgerInv
    <3>2. ~early /\ orders[x].applied = book[x].filled => net = BookedQty(file)
      BY <1>8, <2>1 DEF LedgerInv, OrderlyInv
    <3> QED
      BY <1>1, <1>4, <1>5, <2>1, <3>1, <3>2 DEF OrderlyInv
  <2>2. CASE ~Open(x)
    BY <1>1, <1>4, <1>5, <2>2 DEF OrderlyInv
  <2> QED
    BY <2>1, <2>2
<1> QED
  BY <1>2, <1>3, <1>5, <1>6, <1>9, <1>10

LEMMA ResolveEntryDeep ==
  ASSUME FullInv, EntryInv', ResolveEntry
  PROVE  FullInv'
<1> DEFINE x == call.op
<1>1. /\ pc = "resolve" /\ Orders!MarkResolved(x) /\ OrderStoreStep
      /\ pc' = AfterEntry(call.filled) /\ UNCHANGED call
  BY DEF ResolveEntry
<1>2. /\ x \in Op /\ orders[x].terminal /\ x \notin old
      /\ orders[x].applied = 0 /\ call.todo = {} /\ pos = NoPosition
      /\ file = NoPosition /\ call.filled = orders[x].filled
      /\ orders[x].filled = book[x].filled
  BY <1>1 DEF FullInv, EntryInv, BooksInv, Recorded, CallInv, ControlInv, StrayInv, HoldingInv
<1>3. /\ pc' = IF call.filled > 0 THEN "book" ELSE "idle"
  BY <1>1 DEF AfterEntry
<1>4. /\ RecordInv' /\ OldInv' /\ LedgerInv' /\ OrderlyInv'
      /\ \A y \in Op : /\ y # x => (Open(y)' <=> Open(y)) /\ (Stray(y)' <=> Stray(y))
                       /\ Open(x)' <=> orders[x].applied # book[x].filled
      /\ orders'[x].filled = orders[x].filled
      /\ orders'[x].applied = orders[x].applied
  BY <1>1, <1>2, <1>3, ResolveDeep
<1>5. call.filled \in Int /\ call.filled >= 0
  BY DEF FullInv, DayInv, Qty
<1>6. DayInv' /\ HoldingInv'
  BY <1>1, <1>2, <1>3 DEF FullInv, DayInv, HoldingInv, Sound
<1>7. ControlInv'
  BY <1>1, <1>2, <1>3, <1>4, <1>5 DEF FullInv, ControlInv
<1>8. StrayInv'
  BY <1>1, <1>2, <1>3, <1>4, <1>5 DEF FullInv, StrayInv, Stray
<1> QED
  BY <1>4, <1>6, <1>7, <1>8 DEF FullInv

----------------------------------------------------------------------------
(* The position *)

LEMMA BookDeep ==
  ASSUME FullInv, EntryInv', BookEntry
  PROVE  FullInv'
<1> USE DEF FullInv
<1> DEFINE x == call.op
           new == Confirmed
<1>1. /\ pc = "book" /\ pc' = "markApplied"
      /\ pos' = new /\ file' = new
      /\ UNCHANGED <<orders, stop, book, net, call, old, early, restarts>>
  BY DEF BookEntry
<1>2. /\ x \in Op /\ x \notin old /\ Open(x) /\ orders[x].applied = 0
      /\ call.filled > 0 /\ call.filled = orders[x].filled
      /\ pos = NoPosition /\ file = NoPosition /\ call.todo = {}
  BY <1>1 DEF EntryInv, CallInv, ControlInv, HoldingInv, StrayInv
<1>3. /\ call.filled \in Qty /\ net \in Int
      /\ book[x].filled \in Qty /\ call.filled <= book[x].filled
  BY <1>2 DEF DayInv, RecordInv
<1>4. /\ new.qty = call.filled /\ new.filled = call.filled
      /\ ~new.stopOp /\ new.stopQty = 0
      /\ new \in Position /\ new # NoPosition
  <2>1. new \in Position
    <3>1. (~call.priced) \in BOOLEAN /\ FALSE \in BOOLEAN /\ 0 \in Qty
      BY QuantityAssumption DEF Qty
    <3> QED
      BY <1>3, <3>1 DEF Confirmed, Position
  <2> QED
    BY <2>1, NoPositionAssumption DEF Confirmed
<1> HIDE DEF new
<1>5. \A y : (Open(y)' <=> Open(y)) /\ (Stray(y)' <=> Stray(y))
  BY <1>1 DEF Open, Done, Stray
<1>6. RecordInv' /\ DayInv'
  BY <1>1 DEF RecordInv, DayInv
<1>7. OldInv'
  BY <1>1, <1>2 DEF OldInv, Open
<1>8. HoldingInv'
  BY <1>1, <1>3, <1>4, <1>2 DEF HoldingInv, Sound, Qty
<1>9. ControlInv'
  BY <1>1, <1>2, <1>4, <1>5 DEF ControlInv
<1>10. StrayInv'
  BY <1>1, <1>2, <1>5 DEF StrayInv
<1>11. LedgerInv' /\ OrderlyInv'
  BY <1>1, <1>2, <1>3, <1>4, <1>5 DEF LedgerInv, OrderlyInv, Qty
<1> QED
  BY <1>6, <1>7, <1>8, <1>9, <1>10, <1>11

\* A fill may be marked that the file holds, or one no position was built for.
LEMMA ApplyDeep ==
  ASSUME FullInv, NEW x \in Op, Orders!MarkEntryFillApplied(x, call.filled),
         OrderStoreStep, Open(x), pc' # "failed",
         IF file = NoPosition THEN call.filled = 0 ELSE file.filled = call.filled
  PROVE  /\ RecordInv' /\ OldInv' /\ LedgerInv' /\ OrderlyInv'
         /\ \A y \in Op : y # x => (Open(y)' <=> Open(y)) /\ (Stray(y)' <=> Stray(y))
         /\ Open(x)' <=> ~(orders[x].resolved /\ call.filled = book[x].filled)
         /\ orders'[x].resolved = orders[x].resolved
         /\ orders'[x].applied = call.filled
         /\ \A y \in Op : y # x => orders'[y] = orders[y]
         /\ orders'[x].terminal = orders[x].terminal
<1> USE DEF FullInv
<1> DEFINE n == call.filled
<1>1. UNCHANGED <<file, stop, pos, book, net, old, early, restarts>>
  OBVIOUS
<1>n. n \in Int
  BY DEF DayInv, Qty
<1>2. /\ Touches(x)
      /\ orders[x].created
      /\ orders[x].applied <= n /\ n <= orders[x].filled
      /\ orders'[x].applied = n
      /\ orders'[x].orderId = orders[x].orderId
      /\ orders'[x].filled = orders[x].filled
      /\ orders'[x].terminal = orders[x].terminal
      /\ orders'[x].resolved = orders[x].resolved
  BY <1>n, ApplyEffect DEF EntryInv
<1>3. RecordInv'
  <2>1. orders'[x].terminal => orders'[x].orderId # NoOp
    BY <1>2 DEF RecordInv
  <2> QED
    BY <1>1, <1>2, <1>n, <2>1, StoreRecords DEF EntryInv
<1>4. \A y \in Op : /\ orders'[y].created <=> orders[y].created
                    /\ y # x => orders'[y].applied = orders[y].applied
                    /\ orders'[y].resolved = orders[y].resolved
  BY <1>2 DEF Touches
<1>5. /\ \A y \in Op : y # x => (Open(y)' <=> Open(y)) /\ (Stray(y)' <=> Stray(y))
      /\ Open(x)' <=> ~(orders[x].resolved /\ n = book[x].filled)
  BY <1>1, <1>2, <1>4 DEF Open, Done, Stray
<1>6. OldInv'
  BY <1>1, <1>4 DEF OldInv, DayInv
<1>7. /\ net \in Int /\ book[x].filled \in Int /\ orders[x].applied \in Int
      /\ n <= book[x].filled
      /\ file # NoPosition => file.filled \in Int /\ file.qty \in Int
      /\ orders[x].applied >= 0
  BY <1>2, <1>n DEF DayInv, RecordInv, HoldingInv, Sound, Position, Qty
<1>8. \A y \in Op \ {x} : ~Open(y)'
  BY <1>5 DEF LedgerInv
<1>9. LedgerInv'
  <2>1. /\ net <= BookedQty(file) + book[x].filled - n
        /\ file # NoPosition => net <= file.qty + book[x].filled - file.filled
    BY <1>2, <1>7, <1>n DEF LedgerInv
  <2> HIDE DEF n
  <2>2. (\A y \in Op : ~Open(y)') => net <= BookedQty(file)
    BY <1>5, <1>7, <1>n, <2>1
  <2>3. file # NoPosition => n <= file.filled /\ file.filled <= book[x].filled
    BY <1>7, <1>n DEF LedgerInv, n
  <2> QED
    BY <1>1, <1>2, <1>5, <1>8, <2>1, <2>2, <2>3 DEF LedgerInv
<1>10. OrderlyInv'
  <2>1. ~early => IF file = NoPosition
                    THEN net = book[x].filled /\ n = 0
                    ELSE net = file.qty + book[x].filled - file.filled
    BY <1>2, <1>7, <1>n DEF OrderlyInv
  <2>2. ~early /\ n = book[x].filled => net = BookedQty(file)
    BY <1>7, <1>n, <2>1
  <2> HIDE DEF n
  <2> QED
    BY <1>1, <1>2, <1>5, <1>8, <2>1, <2>2 DEF OrderlyInv
<1> QED
  BY <1>2, <1>3, <1>5, <1>6, <1>9, <1>10 DEF Touches

LEMMA MarkAppliedDeep ==
  ASSUME FullInv, EntryInv', MarkApplied
  PROVE  FullInv'
<1> DEFINE x == call.op
<1>1. /\ pc = "markApplied" /\ pc' = "protect" /\ UNCHANGED call
      /\ Orders!MarkEntryFillApplied(x, call.filled) /\ OrderStoreStep
  BY DEF MarkApplied
<1>2. /\ x \in Op /\ Open(x) /\ pos = file /\ file # NoPosition
      /\ file.filled = call.filled /\ x \notin old /\ call.todo = {}
      /\ call.filled = orders[x].filled
      /\ orders[x].terminal => orders[x].filled = book[x].filled
      /\ orders[x].resolved => orders[x].terminal
      /\ call.terminal => orders[x].terminal
  BY <1>1 DEF FullInv, EntryInv, BooksInv, Recorded, CallInv, ControlInv, StrayInv, HoldingInv
<1>3. /\ RecordInv' /\ OldInv' /\ LedgerInv' /\ OrderlyInv'
      /\ \A y \in Op : y # x => (Open(y)' <=> Open(y)) /\ (Stray(y)' <=> Stray(y))
      /\ Open(x)' <=> ~(orders[x].resolved /\ call.filled = book[x].filled)
      /\ orders'[x].resolved = orders[x].resolved
      /\ orders'[x].applied = call.filled
  BY <1>1, <1>2, ApplyDeep
<1>4. DayInv'
  BY <1>1 DEF FullInv, DayInv
<1>5. HoldingInv'
  BY <1>1, <1>2 DEF FullInv, HoldingInv, Sound
<1>6. ControlInv'
  BY <1>1, <1>2, <1>3 DEF FullInv, ControlInv
<1>7. StrayInv'
  BY <1>1, <1>2, <1>3 DEF FullInv, StrayInv, Stray
<1> QED
  BY <1>3, <1>4, <1>5, <1>6, <1>7 DEF FullInv

\* A stop is placed for the quantity of the position and noted exactly, or a
\* human is called.
LEMMA ProtectDeep ==
  ASSUME FullInv, EntryInv', ProtectEntry
  PROVE  FullInv'
<1> USE DEF FullInv
<1>1. /\ pc = "protect" /\ pc' = "saveProtection"
      /\ UNCHANGED <<orders, file, book, net, call, old, early, restarts>>
      /\ Protect
  BY DEF ProtectEntry
<1>2. /\ pos = file /\ pos \in Position /\ file # NoPosition
      /\ pos.manual \/ ~pos.stopOp
  BY <1>1 DEF HoldingInv, Sound
<1>3. /\ RecordInv' /\ OldInv' /\ LedgerInv' /\ OrderlyInv'
      /\ \A y : (Open(y)' <=> Open(y)) /\ (Stray(y)' <=> Stray(y))
  BY <1>1, Unwritten
<1>4. /\ pos' \in Position
      /\ pos'.qty = pos.qty /\ pos'.filled = pos.filled
      /\ pos'.stopOp \/ pos'.manual
      /\ ~pos'.manual => stop' = pos.qty /\ pos'.stopQty = pos.qty
      /\ ~pos'.stopOp => pos'.stopQty = pos.stopQty /\ ~pos.stopOp
      /\ stop' \in Qty
      /\ ~file.manual /\ file.stopOp => stop' = stop
  <2>1. CASE pos' = [pos EXCEPT !.manual = TRUE] /\ UNCHANGED stop
    BY <1>2, <2>1 DEF Position, DayInv
  <2>2. CASE /\ ~pos.manual /\ stop' = pos.qty
             /\ \E active \in BOOLEAN : pos' = StopResult(pos.qty, active)
    <3>a. PICK a \in BOOLEAN : pos' = StopResult(pos.qty, a)
      BY <2>2
    <3> DEFINE q == IF a THEN pos.qty ELSE 0
               m == ~(a /\ pos.qty = pos.qty)
    <3>1. /\ q \in Qty /\ m \in BOOLEAN /\ (~m => a) /\ (~m => q = pos.qty)
          /\ TRUE \in BOOLEAN /\ pos.qty \in Qty
      BY <1>2, QuantityAssumption DEF Position, Qty
    <3>2. pos' = [pos EXCEPT !.stopOp = TRUE, !.stopQty = q, !.manual = m]
      BY <3>a DEF StopResult
    <3> HIDE DEF q, m
    <3>3. /\ pos' \in Position /\ pos'.qty = pos.qty /\ pos'.filled = pos.filled
          /\ pos'.stopOp /\ pos'.stopQty = q /\ pos'.manual = m
      BY <1>2, <3>1, <3>2 DEF Position
    <3> QED
      BY <1>2, <2>2, <3>1, <3>3
  <2> QED
    BY <1>1, <2>1, <2>2 DEF Protect
<1>5. DayInv'
  BY <1>1, <1>4 DEF DayInv
<1>6. HoldingInv'
  BY <1>1, <1>2, <1>4, NoPositionAssumption DEF HoldingInv, Sound
<1>7. ControlInv' /\ StrayInv'
  BY <1>1, <1>3 DEF ControlInv, StrayInv
<1> QED
  BY <1>3, <1>5, <1>6, <1>7

LEMMA SaveDeep ==
  ASSUME FullInv, EntryInv', SaveProtection
  PROVE  FullInv'
<1> USE DEF FullInv
<1>1. /\ pc = "saveProtection" /\ pos' = pos /\ file' = pos
      /\ UNCHANGED <<orders, stop, book, net, old, early, restarts>>
      /\ \/ call.todo # {} /\ pc' = "settle" /\ call' = call
         \/ call.todo = {} /\ pc' = "idle" /\ call' = NoCall
  BY DEF SaveProtection
<1>2. /\ pos # NoPosition /\ file # NoPosition /\ pos.qty = file.qty
      /\ pos.filled = file.filled /\ Sound(pos)
      /\ NoCall.todo = {} /\ NoCall.op = NoOp /\ NoCall.filled = 0 /\ ~NoCall.terminal
  BY <1>1 DEF HoldingInv, NoCall
<1>3. \A y : (Open(y)' <=> Open(y)) /\ (Stray(y)' <=> Stray(y))
  BY <1>1 DEF Open, Done, Stray
<1>4. RecordInv' /\ DayInv' /\ OldInv'
  BY <1>1, <1>2, QuantityAssumption DEF RecordInv, DayInv, OldInv, Qty
<1>5. HoldingInv'
  BY <1>1, <1>2 DEF HoldingInv, Sound
<1>6. ControlInv'
  BY <1>1, <1>2 DEF ControlInv
<1>7. StrayInv'
  BY <1>1, <1>2, <1>3 DEF StrayInv
<1>8. LedgerInv' /\ OrderlyInv'
  BY <1>1, <1>2, <1>3 DEF LedgerInv, OrderlyInv
<1> QED
  BY <1>4, <1>5, <1>6, <1>7, <1>8

----------------------------------------------------------------------------
(* Recovery *)

LEMMA LookedFields ==
  ASSUME NEW x
  PROVE  /\ Looked(x).op = NoOp /\ Looked(x).filled = 0 /\ ~Looked(x).terminal
         /\ Looked(x).todo = call.todo \ {x}
BY DEF Looked, NoCall

\* Recovery has looked at an operation and leaves nothing of it behind.
LEMMA LookedOn ==
  ASSUME FullInv, NEW x \in Op, ~Stray(x)', pc' = "recover", call' = Looked(x),
         pc \in {"recover", "settle"},
         UNCHANGED <<file, stop, pos, old, early, restarts, net>>,
         \A y \in Op : y # x => (Open(y)' <=> Open(y)) /\ (Stray(y)' <=> Stray(y)),
         pc = "settle" => x = call.op
  PROVE  DayInv' /\ HoldingInv' /\ ControlInv' /\ StrayInv'
<1> USE DEF FullInv
<1>1. /\ call'.op = NoOp /\ call'.filled = 0 /\ ~call'.terminal
      /\ call'.todo = call.todo \ {x}
  BY LookedFields
<1>2. DayInv' /\ HoldingInv' /\ ControlInv'
  BY <1>1, QuantityAssumption DEF DayInv, Qty, HoldingInv, Sound, ControlInv
<1>3. StrayInv'
  <2>1. \A y \in call.todo : y \in Op
    BY DEF EntryInv, CallInv, CallShape
  <2>2. pc = "recover" => call.op \notin Op
    BY OpAssumption DEF ControlInv
  <2>3. \A y \in call'.todo : y \notin old' /\ y # call'.op => Open(y)'
    <3> SUFFICES ASSUME NEW y \in call'.todo, y \notin old PROVE Open(y)'
      OBVIOUS
    <3>1. y \in call.todo /\ y # x /\ y \in Op
      BY <1>1, <2>1
    <3>2. y # call.op
      BY <2>2, <3>1
    <3> QED
      BY <3>1, <3>2 DEF StrayInv
  <2>4. \A y \in Op : Stray(y)' => y \in call'.todo /\ y # call'.op
    <3> SUFFICES ASSUME NEW y \in Op, Stray(y)' PROVE y \in call'.todo /\ y # call'.op
      OBVIOUS
    <3>1. y # x /\ Stray(y)
      OBVIOUS
    <3>2. y \in call.todo
      BY <3>1 DEF StrayInv
    <3> QED
      BY <1>1, <3>1, <3>2, OpAssumption
  <2> QED
    BY <2>3, <2>4 DEF StrayInv
<1> QED
  BY <1>2, <1>3

\* A fill of a previous day is accounted for without a position.
LEMMA SuppressDeep ==
  ASSUME FullInv, EntryInv', NEW x \in Op, SuppressOld(x)
  PROVE  FullInv'
<1> USE DEF FullInv
<1> DEFINE n == orders[x].filled
<1>1. /\ pc = "recover" /\ pc' = "recover" /\ x \in old /\ orders[x].resolved
      /\ Orders!MarkEntryFillApplied(x, n) /\ call' = Looked(x)
      /\ UNCHANGED <<file, stop, pos, book, net, old, early, restarts>>
  BY DEF SuppressOld
<1>2. n \in Int
  BY DEF RecordInv, Qty
<1>3. /\ Touches(x)
      /\ orders[x].created
      /\ orders[x].applied <= n
      /\ orders'[x].applied = n
      /\ orders'[x].orderId = orders[x].orderId
      /\ orders'[x].filled = orders[x].filled
      /\ orders'[x].terminal = orders[x].terminal
      /\ orders'[x].resolved = orders[x].resolved
  BY <1>1, <1>2, ApplyEffect DEF EntryInv
<1>4. RecordInv'
  <2>1. orders'[x].terminal => orders'[x].orderId # NoOp
    BY <1>3 DEF RecordInv
  <2> QED
    BY <1>1, <1>2, <1>3, <2>1, StoreRecords DEF EntryInv
<1>5. \A y \in Op : /\ orders'[y].created <=> orders[y].created
                    /\ y # x => orders'[y].applied = orders[y].applied
                    /\ orders'[y].resolved = orders[y].resolved
  BY <1>3 DEF Touches
<1>6. \A y \in Op : /\ Open(y)' <=> Open(y)
                    /\ Stray(y)' <=> Stray(y)
                    /\ Open(y) => y # x
  BY <1>1, <1>5 DEF Open, Done, Stray
<1>7. OldInv'
  BY <1>1, <1>5 DEF OldInv, DayInv
<1>8. LedgerInv' /\ OrderlyInv'
  BY <1>1, <1>5, <1>6 DEF LedgerInv, OrderlyInv
<1>9. DayInv' /\ HoldingInv' /\ ControlInv' /\ StrayInv'
  <2>1. ~Stray(x)'
    BY <1>6 DEF Stray
  <2> QED
    BY <1>1, <1>6, <2>1, LookedOn
<1> QED
  BY <1>4, <1>7, <1>8, <1>9

\* An order id is missing only where nothing was ever confirmed.
LEMMA SkipDeep ==
  ASSUME FullInv, EntryInv', NEW x \in Op, SkipUnmatched(x)
  PROVE  FullInv'
<1>1. /\ pc = "recover" /\ pc' = "recover" /\ orders[x].orderId = NoOp
      /\ call' = Looked(x)
      /\ UNCHANGED <<orders, file, stop, pos, book, net, old, early, restarts>>
  BY DEF SkipUnmatched
<1>2. /\ RecordInv' /\ OldInv' /\ LedgerInv' /\ OrderlyInv'
      /\ \A y : (Open(y)' <=> Open(y)) /\ (Stray(y)' <=> Stray(y))
  BY <1>1, Unwritten
<1>3. ~Stray(x)
  BY <1>1 DEF FullInv, EntryInv, BooksInv, Recorded, RecordInv, Stray
<1> QED
  BY <1>1, <1>2, <1>3, LookedOn DEF FullInv

LEMMA RefuseDeep ==
  ASSUME FullInv, EntryInv', RefuseOld
  PROVE  FullInv'
<1> USE DEF FullInv
<1>1. /\ pc = "recover" /\ pc' = "refused" /\ call' = NoCall
      /\ UNCHANGED <<orders, file, stop, pos, book, net, old, early, restarts>>
      /\ \E x \in call.todo \cap old : ~orders[x].resolved
  BY DEF RefuseOld, NoneOld
<1>2. /\ RecordInv' /\ OldInv' /\ LedgerInv' /\ OrderlyInv'
      /\ \A y : Stray(y)' <=> Stray(y)
  BY <1>1, Unwritten
<1>3. pos = NoPosition
  <2>1. PICK x \in old : ~orders[x].resolved
    BY <1>1
  <2>2. x \in Op /\ orders[x].created
    BY <2>1 DEF DayInv, RecordInv
  <2>3. file = NoPosition
    BY <2>1, <2>2 DEF OldInv
  <2> QED
    BY <1>1, <2>3 DEF HoldingInv
<1>4. DayInv' /\ HoldingInv' /\ ControlInv' /\ StrayInv'
  BY <1>1, <1>3, <1>2, QuantityAssumption
     DEF NoCall, DayInv, Qty, HoldingInv, Sound, ControlInv, StrayInv
<1> QED
  BY <1>2, <1>4

LEMMA ReverifyDeep ==
  ASSUME FullInv, EntryInv', NEW x \in Op, Reverify(x)
  PROVE  FullInv'
<1> USE DEF FullInv
<1>1. /\ pc = "recover" /\ pc' = "apply" /\ x \in call.todo /\ x \notin old
      /\ orders[x].orderId # NoOp
      /\ UNCHANGED <<file, stop, pos, book, net, old, early, restarts>>
  BY DEF Reverify, NoneOld
<1>2. call.op = NoOp /\ x # NoOp /\ pos = file
  BY <1>1, OpAssumption DEF ControlInv, HoldingInv
<1>3. Open(x)
  BY <1>1, <1>2 DEF StrayInv
<1>4. /\ RecordInv' /\ DayInv' /\ OldInv' /\ LedgerInv' /\ OrderlyInv'
      /\ \A y \in Op : (Open(y)' <=> Open(y)) /\ (Stray(y)' <=> Stray(y))
      /\ call'.filled = orders'[x].filled
      /\ call'.op = x /\ call'.todo = call.todo
  <2>1. CASE orders[x].resolved
    <3>1. /\ UNCHANGED orders
          /\ call' = [call EXCEPT !.op = x, !.filled = orders[x].filled,
                                  !.priced = orders[x].priced,
                                  !.terminal = orders[x].terminal]
      BY <2>1 DEF Reverify
    <3>2. /\ call'.filled = orders[x].filled
          /\ call'.op = x /\ call'.todo = call.todo
      BY <3>1 DEF EntryInv, CallInv, CallShape
    <3>3. /\ RecordInv' /\ OldInv' /\ LedgerInv' /\ OrderlyInv'
          /\ \A y : (Open(y)' <=> Open(y)) /\ (Stray(y)' <=> Stray(y))
      BY <1>1, <3>1, Unwritten
    <3>4. DayInv'
      BY <1>1, <3>2 DEF DayInv, RecordInv
    <3> QED
      BY <3>1, <3>2, <3>3, <3>4
  <2>2. CASE ~orders[x].resolved
    <3>1. Verify(x) /\ OrderStoreStep
      BY <2>2 DEF Reverify
    <3> QED
      BY <1>1, <2>2, <3>1, VerifyDeep
  <2> QED
    BY <2>1, <2>2
<1>5. HoldingInv'
  BY <1>1 DEF HoldingInv, Sound
<1>6. ControlInv'
  BY <1>1, <1>3, <1>4 DEF ControlInv
<1>7. StrayInv'
  BY <1>1, <1>2, <1>4, OpAssumption DEF StrayInv, EntryInv, CallInv, CallShape
<1> QED
  BY <1>4, <1>5, <1>6, <1>7

\* A position that grew has a human called for it: its stop, if any, is for
\* the shares it had.
LEMMA RecoverBookDeep ==
  ASSUME FullInv, EntryInv', BookRecovered
  PROVE  FullInv'
<1> USE DEF FullInv
<1> DEFINE x == call.op
           new == IF Held THEN Grown ELSE Confirmed
<1>1. /\ pc = "apply" /\ pc' = "markRecovered" /\ pos' = new /\ file' = new
      /\ UNCHANGED <<orders, stop, book, net, call, old, early, restarts>>
      /\ Newly > 0
  BY DEF BookRecovered
<1>2. /\ x \in Op /\ Open(x) /\ call.filled = orders[x].filled /\ x \in call.todo
      /\ pos = file
  BY <1>1 DEF EntryInv, CallInv, ControlInv, HoldingInv
<1>3. /\ call.filled \in Qty /\ net \in Int /\ book[x].filled \in Qty
      /\ call.filled <= book[x].filled
      /\ orders[x].applied \in Qty /\ orders[x].applied <= book[x].filled
  BY <1>2 DEF DayInv, RecordInv
<1>4. /\ new \in Position /\ new # NoPosition /\ new.filled = call.filled
      /\ 0 < new.qty /\ new.qty <= call.filled
      /\ ~new.stopOp => new.stopQty = 0
      /\ new.stopOp => new.manual
      /\ new.qty = BookedQty(file) + call.filled
                     - (IF file = NoPosition THEN 0 ELSE file.filled)
      /\ call.filled > (IF file = NoPosition THEN 0 ELSE file.filled)
  <2>1. CASE Held
    <3> DEFINE q == pos.qty + Newly
               m == pos.manual \/ pos.stopQty < call.filled
    <3>1. /\ pos \in Position /\ 0 < pos.qty /\ pos.qty <= pos.filled
          /\ ~pos.manual /\ pos.stopOp => pos.stopQty = pos.qty
          /\ ~pos.stopOp => pos.stopQty = 0
      BY <2>1 DEF HoldingInv, Sound
    <3>2. Newly = call.filled - pos.filled
      BY <2>1 DEF Newly, AlreadyApplied
    <3>3. /\ pos.qty \in Qty /\ pos.filled \in Qty /\ pos.stopQty \in Qty
          /\ pos.manual \in BOOLEAN
      BY <3>1 DEF Position
    <3>n. Newly > 0
      BY <1>1
    <3>4. q \in Qty /\ q = pos.qty + call.filled - pos.filled /\ 0 < q /\ q <= call.filled
      BY <1>3, <3>1, <3>2, <3>3, <3>n, QuantityAssumption DEF Qty
    <3>5. m \in BOOLEAN /\ m
      <4>1. CASE pos.manual
        BY <4>1, <3>3
      <4>2. CASE ~pos.manual
        <5>1. pos.stopQty <= pos.qty
          BY <3>1, <3>3, <4>2 DEF Qty
        <5>2. pos.stopQty < call.filled
          BY <1>1, <1>3, <3>1, <3>2, <3>3, <5>1 DEF Qty
        <5> QED
          BY <5>2
      <4> QED
        BY <4>1, <4>2
    <3>6. new = [pos EXCEPT !.qty = q, !.filled = call.filled, !.manual = m]
      BY <2>1, <3>1 DEF Grown, Position
    <3> HIDE DEF q, m, new
    <3>7. /\ new \in Position /\ new.qty = q /\ new.filled = call.filled
          /\ new.manual = m /\ new.stopQty = pos.stopQty
          /\ new.stopOp = pos.stopOp
      BY <1>3, <3>1, <3>4, <3>5, <3>6 DEF Position
    <3>8. call.filled > pos.filled
      BY <1>1, <1>3, <3>2, <3>3 DEF Qty
    <3> QED
      BY <1>2, <2>1, <3>1, <3>4, <3>5, <3>7, <3>8, NoPositionAssumption
  <2>2. CASE ~Held
    <3>1. new = Confirmed /\ Newly = call.filled
      BY <1>3, <2>2 DEF Newly, AlreadyApplied, Qty
    <3>2. Confirmed \in Position
      <4>1. (~call.priced) \in BOOLEAN /\ FALSE \in BOOLEAN /\ 0 \in Qty
        BY QuantityAssumption DEF Qty
      <4> QED
        BY <1>3, <4>1 DEF Confirmed, Position
    <3>3. /\ Confirmed.qty = call.filled /\ Confirmed.filled = call.filled
          /\ ~Confirmed.stopOp /\ Confirmed.stopQty = 0
      BY DEF Confirmed
    <3> QED
      BY <1>1, <1>2, <1>3, <2>2, <3>1, <3>2, <3>3, NoPositionAssumption DEF Qty
  <2> QED
    BY <2>1, <2>2
<1> HIDE DEF new
<1>5. \A y : (Open(y)' <=> Open(y)) /\ (Stray(y)' <=> Stray(y))
  BY <1>1 DEF Open, Done, Stray
<1>6. RecordInv' /\ DayInv'
  BY <1>1 DEF RecordInv, DayInv
<1>7. OldInv'
  BY <1>1, <1>2 DEF OldInv, Open
<1>8. HoldingInv'
  BY <1>1, <1>4 DEF HoldingInv, Sound
<1>9. ControlInv'
  BY <1>1, <1>2, <1>4, <1>5 DEF ControlInv
<1>10. StrayInv'
  BY <1>1, <1>2, <1>5 DEF StrayInv
<1>11. /\ net <= BookedQty(file) + book[x].filled - orders[x].applied
       /\ file # NoPosition =>
            /\ file.qty \in Int /\ file.filled \in Int
            /\ net <= file.qty + book[x].filled - file.filled
            /\ orders[x].applied <= file.filled
  BY <1>2 DEF LedgerInv, HoldingInv, Sound, Position, Qty
<1>12. LedgerInv'
  <2>1. /\ orders[x].applied <= new.filled /\ new.filled <= book[x].filled
        /\ net <= new.qty + book[x].filled - orders[x].applied
        /\ net <= new.qty + book[x].filled - new.filled
    <3>1. new.filled > 0 /\ new.filled \in Int /\ new.qty \in Int
      BY <1>3, <1>4, <1>11 DEF Qty, Position, HoldingInv, Sound
    <3>2. orders[x].applied <= new.filled
      BY <1>2, <1>4, <3>1 DEF RecordInv
    <3> QED
      BY <1>3, <1>4, <1>11, <3>1, <3>2 DEF Qty
  <2>2. \A y \in Op : Open(y) => y = x
    BY <1>2 DEF LedgerInv
  <2> QED
    BY <1>1, <1>2, <1>4, <1>5, <2>1, <2>2 DEF LedgerInv
<1>13. OrderlyInv'
  <2>1. ~early => net = new.qty + book[x].filled - new.filled
    BY <1>2, <1>3, <1>4, <1>11 DEF OrderlyInv, Qty
  <2>2. \A y \in Op : Open(y) => y = x
    BY <1>2 DEF LedgerInv
  <2> QED
    BY <1>1, <1>2, <1>4, <1>5, <2>1, <2>2 DEF OrderlyInv
<1> QED
  BY <1>6, <1>7, <1>8, <1>9, <1>10, <1>12, <1>13

\* The fill in the file is marked, or is none of a file without a position.
LEMMA MarkDeep ==
  ASSUME FullInv, EntryInv', pc \in {"apply", "markRecovered"},
         Orders!MarkEntryFillApplied(call.op, call.filled), OrderStoreStep,
         UNCHANGED call, pc' \in {"settle", "protect"},
         IF file = NoPosition THEN call.filled = 0 ELSE file.filled = call.filled,
         pc' = "protect" => file # NoPosition /\ ~pos.stopOp
  PROVE  FullInv'
<1> DEFINE x == call.op
<1>1. /\ x \in Op /\ Open(x) /\ pos = file /\ x \notin old /\ x \in call.todo
      /\ call.filled = orders[x].filled
      /\ orders[x].terminal => orders[x].filled = book[x].filled
      /\ orders[x].resolved => orders[x].terminal
      /\ call.terminal => orders[x].terminal
  BY DEF FullInv, EntryInv, BooksInv, Recorded, CallInv, ControlInv, HoldingInv, Open
<1>2. /\ RecordInv' /\ OldInv' /\ LedgerInv' /\ OrderlyInv'
      /\ \A y \in Op : y # x => (Open(y)' <=> Open(y)) /\ (Stray(y)' <=> Stray(y))
      /\ Open(x)' <=> ~(orders[x].resolved /\ call.filled = book[x].filled)
      /\ orders'[x].resolved = orders[x].resolved
      /\ orders'[x].applied = call.filled
  BY <1>1, ApplyDeep
<1>3. DayInv'
  BY DEF FullInv, DayInv
<1>4. HoldingInv'
  BY <1>1 DEF FullInv, HoldingInv, Sound
<1>5. ControlInv'
  BY <1>1, <1>2 DEF FullInv, ControlInv
<1>6. StrayInv'
  BY <1>1, <1>2 DEF FullInv, EntryInv, CallInv, CallShape, StrayInv, Stray
<1> QED
  BY <1>2, <1>3, <1>4, <1>5, <1>6 DEF FullInv

LEMMA MarkRecoveredDeep ==
  ASSUME FullInv, EntryInv', MarkRecovered
  PROVE  FullInv'
<1>1. pc = "markRecovered"
  BY DEF MarkRecovered
<1>2. /\ call.op \in Op /\ Open(call.op) /\ call.filled = orders[call.op].filled
      /\ pos = file /\ file # NoPosition /\ file.filled = call.filled
  BY <1>1 DEF FullInv, EntryInv, CallInv, ControlInv, HoldingInv
<1>3. Orders!CanApplyEntryFill(call.op, call.filled)
  BY <1>2 DEF FullInv, LedgerInv, RecordInv, Qty, Orders!CanApplyEntryFill
<1> QED
  BY <1>1, <1>2, <1>3, MarkDeep DEF MarkRecovered

LEMMA NothingNewDeep ==
  ASSUME FullInv, EntryInv', NothingNew
  PROVE  FullInv'
<1> USE DEF FullInv
<1> DEFINE x == call.op
<1>1. pc = "apply"
  BY DEF NothingNew
<1>2. /\ x \in Op /\ Open(x) /\ call.filled = orders[x].filled
      /\ pos = file /\ x \notin old /\ x \in call.todo
      /\ orders[x].terminal => orders[x].filled = book[x].filled
      /\ orders[x].resolved => orders[x].terminal
      /\ call.terminal => orders[x].terminal
  BY <1>1 DEF EntryInv, BooksInv, Recorded, CallInv, ControlInv, HoldingInv, Open
<1>3. /\ call.filled \in Int /\ call.filled >= 0 /\ orders[x].applied \in Int
      /\ book[x].filled \in Int
      /\ file # NoPosition =>
           /\ file.filled \in Int
           /\ orders[x].applied <= file.filled /\ file.filled <= book[x].filled
  BY <1>2 DEF DayInv, RecordInv, LedgerInv, HoldingInv, Sound, Position, Qty
<1>4. Newly = call.filled - (IF file = NoPosition THEN 0 ELSE file.filled)
  BY <1>2 DEF Newly, AlreadyApplied
<1>5. ASSUME Newly < 0, Goto("settle"), LocalStep PROVE FullInv'
  <2>1. UNCHANGED <<orders, file, stop, pos, book, net, call, old, early, restarts>>
    BY <1>5
  <2>2. /\ RecordInv' /\ OldInv' /\ LedgerInv' /\ OrderlyInv'
        /\ \A y : (Open(y)' <=> Open(y)) /\ (Stray(y)' <=> Stray(y))
    BY <1>5, <2>1, Unwritten
  <2>3. ~orders[x].terminal
    BY <1>2, <1>3, <1>4, <1>5
  <2>4. DayInv' /\ HoldingInv'
    BY <1>1, <1>5, <2>1 DEF DayInv, HoldingInv, Sound
  <2>5. ControlInv' /\ StrayInv'
    BY <1>1, <1>2, <1>5, <2>1, <2>2, <2>3 DEF ControlInv, StrayInv, Stray
  <2> QED
    BY <2>2, <2>4, <2>5
<1>6. ASSUME Newly = 0, Orders!MarkEntryFillApplied(x, call.filled),
             Goto("settle"), OrderStoreStep
      PROVE  FullInv'
  <2>1. IF file = NoPosition THEN call.filled = 0 ELSE file.filled = call.filled
    BY <1>3, <1>4, <1>6
  <2> QED
    BY <1>1, <1>6, <2>1, MarkDeep
<1>7. ASSUME Newly = 0, ~Orders!CanApplyEntryFill(x, call.filled), StartupDies
      PROVE  FullInv'
  <2>1. /\ pc' = "failed" /\ call' = NoCall
        /\ UNCHANGED <<orders, file, stop, pos, book, net, old, early, restarts>>
    BY <1>7 DEF StartupDies
  <2>2. orders[x].applied > call.filled
    BY <1>2, <1>3, <1>7 DEF Orders!CanApplyEntryFill
  <2>3. file = NoPosition
    BY <1>3, <1>4, <1>7, <2>2
  <2>4. early
    BY <1>2, <1>3, <2>2, <2>3 DEF OrderlyInv
  <2>5. \A y : (Open(y)' <=> Open(y)) /\ (Stray(y)' <=> Stray(y))
    BY <2>1 DEF Open, Done, Stray
  <2>6. RecordInv' /\ OldInv' /\ LedgerInv'
    BY <2>1, <2>5 DEF RecordInv, OldInv, LedgerInv
  <2>7. OrderlyInv'
    BY <2>1, <2>4 DEF OrderlyInv
  <2>8. DayInv' /\ HoldingInv' /\ ControlInv' /\ StrayInv'
    BY <1>2, <2>1, <2>3, QuantityAssumption
       DEF NoCall, DayInv, Qty, HoldingInv, Sound, ControlInv, StrayInv
  <2> QED
    BY <2>6, <2>7, <2>8
<1> QED
  BY <1>5, <1>6, <1>7 DEF NothingNew

LEMMA SettleDeep ==
  ASSUME FullInv, EntryInv', Settle
  PROVE  FullInv'
<1> USE DEF FullInv
<1>0. call.op \in Op
  BY DEF Settle, EntryInv, CallInv, CallShape, ControlInv
<1> PICK x \in Op : x = call.op
  BY <1>0
<1>1. /\ pc = "settle" /\ pc' = "recover" /\ call' = Looked(x)
      /\ UNCHANGED <<file, stop, pos, book, net, old, early, restarts>>
      /\ IF call.terminal THEN Orders!MarkResolved(x) ELSE UNCHANGED orders
  BY DEF Settle
<1>2. /\ x \notin old /\ x \in call.todo
      /\ call.terminal => /\ orders[x].terminal
                          /\ orders[x].applied = book[x].filled
  BY <1>1 DEF EntryInv, CallInv, CallShape, ControlInv
<1>3. /\ RecordInv' /\ OldInv' /\ LedgerInv' /\ OrderlyInv'
      /\ \A y \in Op : y # x => (Open(y)' <=> Open(y)) /\ (Stray(y)' <=> Stray(y))
      /\ ~Stray(x)'
  <2>1. CASE call.terminal
    <3>1. /\ RecordInv' /\ OldInv' /\ LedgerInv' /\ OrderlyInv'
          /\ \A y \in Op : /\ y # x => (Open(y)' <=> Open(y)) /\ (Stray(y)' <=> Stray(y))
                           /\ Open(x)' <=> orders[x].applied # book[x].filled
      BY <1>1, <1>2, <2>1, ResolveDeep
    <3> QED
      BY <1>2, <2>1, <3>1 DEF Stray
  <2>2. CASE ~call.terminal
    <3>1. UNCHANGED orders
      BY <1>1, <2>2
    <3>2. /\ RecordInv' /\ OldInv' /\ LedgerInv' /\ OrderlyInv'
          /\ \A y : (Open(y)' <=> Open(y)) /\ (Stray(y)' <=> Stray(y))
      BY <1>1, <3>1, Unwritten
    <3>3. ~Stray(x)
      BY <1>1, <1>2 DEF StrayInv
    <3> QED
      BY <3>2, <3>3
  <2> QED
    BY <2>1, <2>2
<1> QED
  BY <1>1, <1>2, <1>3, LookedOn

LEMMA RecoverStopDeep ==
  ASSUME FullInv, EntryInv', RecoverStop
  PROVE  FullInv'
<1> USE DEF FullInv
<1>1. /\ pc = "recover" /\ call.todo = {} /\ file' = pos'
      /\ UNCHANGED <<orders, stop, book, net, call, old, early, restarts>>
      /\ \/ /\ Held /\ stop > 0 /\ pc' = "idle"
            /\ \E active \in BOOLEAN : pos' = StopResult(stop, active)
         \/ /\ ~(Held /\ stop > 0) /\ pos' = pos
            /\ pc' = IF Held /\ ~pos.stopOp /\ ~pos.manual THEN "protect" ELSE "idle"
  BY DEF RecoverStop
<1>2. pos = file /\ Sound(pos) /\ call.op = NoOp /\ call.op \notin Op /\ ~call.terminal
      /\ stop \in Qty
  BY <1>1, OpAssumption DEF HoldingInv, ControlInv, DayInv
<1>3. /\ pos = NoPosition <=> pos' = NoPosition
      /\ pos # NoPosition => pos'.qty = pos.qty /\ pos'.filled = pos.filled
      /\ Sound(pos)'
      /\ pc' = "idle" /\ pos' # NoPosition /\ ~pos'.manual => pos'.stopOp
  <2>1. ASSUME Held, stop > 0, pc' = "idle", NEW a \in BOOLEAN,
               pos' = StopResult(stop, a)
        PROVE  /\ pos' # NoPosition /\ pos'.qty = pos.qty
               /\ pos'.filled = pos.filled /\ Sound(pos)' /\ pos'.stopOp
    <3> DEFINE q == IF a THEN stop ELSE 0
               m == ~(a /\ stop = pos.qty)
    <3>1. /\ q \in Qty /\ m \in BOOLEAN /\ (~m => stop = pos.qty /\ q = pos.qty)
          /\ TRUE \in BOOLEAN
      BY <1>2, QuantityAssumption DEF Qty
    <3>2. pos' = [pos EXCEPT !.stopOp = TRUE, !.stopQty = q, !.manual = m]
      BY <2>1 DEF StopResult
    <3>3. pos \in Position /\ 0 < pos.qty /\ pos.qty <= pos.filled
      BY <1>2, <2>1 DEF Sound
    <3> HIDE DEF q, m
    <3>4. /\ pos' \in Position /\ pos'.qty = pos.qty /\ pos'.filled = pos.filled
          /\ pos'.stopOp /\ pos'.stopQty = q /\ pos'.manual = m
      BY <3>1, <3>2, <3>3 DEF Position
    <3> QED
      BY <1>1, <3>1, <3>3, <3>4, NoPositionAssumption DEF Sound
  <2>2. CASE ~(Held /\ stop > 0) /\ pos' = pos
    <3>1. Sound(pos)' /\ (pos' # NoPosition /\ ~pos'.manual => ~pos'.stopOp)
      BY <1>1, <1>2, <2>2 DEF Sound, Qty
    <3> QED
      BY <1>1, <2>2, <3>1
  <2> QED
    BY <1>1, <2>1, <2>2
<1>4. \A y : (Open(y)' <=> Open(y)) /\ (Stray(y)' <=> Stray(y))
  BY <1>1 DEF Open, Done, Stray
<1>5. RecordInv' /\ DayInv' /\ OldInv'
  BY <1>1, <1>2, <1>3 DEF RecordInv, DayInv, OldInv
<1>6. HoldingInv'
  BY <1>1, <1>3 DEF HoldingInv, Sound
<1>7. ControlInv'
  BY <1>1, <1>2 DEF ControlInv, DayInv
<1>8. StrayInv'
  BY <1>1, <1>4 DEF StrayInv
<1>9. LedgerInv' /\ OrderlyInv'
  BY <1>1, <1>2, <1>3, <1>4 DEF LedgerInv, OrderlyInv
<1> QED
  BY <1>5, <1>6, <1>7, <1>8, <1>9

----------------------------------------------------------------------------
(* Exits, crashes, nights and the broker *)

LEMMA ExitDeep ==
  ASSUME FullInv, EntryInv', NEW n \in 1..Quantity, ExitShares(n)
  PROVE  FullInv'
<1> USE DEF FullInv
<1>1. /\ pc = "idle" /\ pos # NoPosition /\ n <= pos.qty
      /\ net' = net - n /\ stop' = 0 /\ file' = pos'
      /\ pos' = IF n = pos.qty THEN NoPosition
                ELSE [pos EXCEPT !.qty = @ - n, !.stopQty = 0, !.manual = TRUE]
      /\ early' = (early \/ (n = pos.qty /\ \E x \in Op : Orders!Unresolved(x)))
      /\ UNCHANGED <<orders, book, pc, call, old, restarts>>
  BY DEF ExitShares
<1>2. /\ pos = file /\ pos \in Position /\ pos.qty <= pos.filled
      /\ pos.qty \in Int /\ pos.filled \in Int /\ net \in Int /\ n \in Int
      /\ early \in BOOLEAN /\ call.todo = {}
      /\ n > 0
  BY <1>1 DEF HoldingInv, Sound, Position, DayInv, StrayInv, Qty
<1>3. \A y : (Open(y)' <=> Open(y)) /\ (Stray(y)' <=> Stray(y))
  BY <1>1 DEF Open, Done, Stray
<1>4. \A y \in Op : Open(y) =>
        /\ Orders!Unresolved(y)
        /\ orders[y].applied \in Int /\ book[y].filled \in Int
        /\ orders[y].applied <= file.filled /\ file.filled <= book[y].filled
  BY <1>1, <1>2 DEF Open, Stray, StrayInv, LedgerInv, RecordInv, Qty
<1>5. n # pos.qty =>
        /\ pos' \in Position /\ pos'.qty = pos.qty - n /\ pos'.filled = pos.filled
        /\ pos'.qty > 0 /\ pos'.stopQty = 0 /\ pos'.manual /\ pos' # NoPosition
  <2> HAVE n # pos.qty
  <2> DEFINE q == pos.qty - n
  <2>1. q \in Qty /\ q > 0 /\ 0 \in Qty /\ TRUE \in BOOLEAN
    BY <1>1, <1>2, QuantityAssumption DEF Position, Qty
  <2>2. pos' = [pos EXCEPT !.qty = q, !.stopQty = 0, !.manual = TRUE]
    BY <1>1, <1>2 DEF Position
  <2>3. q = pos.qty - n
    OBVIOUS
  <2> HIDE DEF q
  <2> QED
    BY <1>2, <2>1, <2>2, <2>3, NoPositionAssumption DEF Position
<1>6. RecordInv'
  BY <1>1 DEF RecordInv
<1>7. DayInv'
  <2>1. early' \in BOOLEAN
    BY <1>1, <1>2
  <2> QED
    BY <1>1, <1>2, <2>1, QuantityAssumption DEF DayInv, Qty
<1>8. OldInv'
  BY <1>1, <1>2 DEF OldInv
<1>9. HoldingInv'
  <2>1. n = pos.qty => pos' = NoPosition
    BY <1>1
  <2> QED
    BY <1>1, <1>2, <1>5, <2>1 DEF HoldingInv, Sound
<1>10. ControlInv' /\ StrayInv'
  BY <1>1, <1>3 DEF ControlInv, StrayInv
<1>11. LedgerInv'
  <2>1. CASE n = pos.qty
    <3>1. file' = NoPosition
      BY <1>1, <2>1
    <3>2. (\A x \in Op : ~Open(x)) => net' <= 0
      BY <1>1, <1>2, <2>1 DEF LedgerInv
    <3>3. \A x \in Op : Open(x) => net' <= book[x].filled - orders[x].applied
      <4> SUFFICES ASSUME NEW x \in Op, Open(x)
                   PROVE  net' <= book[x].filled - orders[x].applied
        OBVIOUS
      <4>1. net <= file.qty + book[x].filled - file.filled
        BY <1>1, <1>2 DEF LedgerInv
      <4> QED
        BY <1>1, <1>2, <1>4, <2>1, <4>1
    <3>4. \A x \in Op : book[x].filled \in Int /\ orders[x].applied \in Int
      BY DEF RecordInv, Qty
    <3> QED
      BY <1>1, <1>3, <3>1, <3>2, <3>3, <3>4 DEF LedgerInv
  <2>2. CASE n # pos.qty
    <3>1. /\ file' # NoPosition /\ file'.qty = file.qty - n
          /\ file'.filled = file.filled /\ file # NoPosition
      BY <1>1, <1>2, <1>5, <2>2
    <3> QED
      BY <1>1, <1>2, <1>3, <1>4, <3>1 DEF LedgerInv
  <2> QED
    BY <2>1, <2>2
<1>12. OrderlyInv'
  <2> SUFFICES ASSUME ~early' PROVE OrderlyInv'
    BY DEF OrderlyInv
  <2>1. ~early /\ (n = pos.qty => \A y \in Op : ~Open(y))
    BY <1>1, <1>2, <1>4
  <2>2. CASE n = pos.qty
    <3>1. net = pos.qty
      BY <1>1, <1>2, <2>1, <2>2 DEF OrderlyInv
    <3> QED
      BY <1>1, <1>2, <1>3, <2>1, <2>2, <3>1 DEF OrderlyInv
  <2>3. CASE n # pos.qty
    <3>1. /\ file' # NoPosition /\ file'.qty = file.qty - n
          /\ file'.filled = file.filled /\ file # NoPosition
      BY <1>1, <1>2, <1>5, <2>3
    <3> QED
      BY <1>1, <1>2, <1>3, <1>4, <2>1, <3>1 DEF OrderlyInv
  <2> QED
    BY <2>2, <2>3
<1> QED
  BY <1>6, <1>7, <1>8, <1>9, <1>10, <1>11, <1>12

LEMMA CrashDeep ==
  ASSUME FullInv, EntryInv', Crash
  PROVE  FullInv'
<1> USE DEF FullInv
<1>1. /\ pc' = "down" /\ pos' = NoPosition /\ call' = NoCall
      /\ UNCHANGED <<orders, file, stop, book, net, old, early, restarts>>
  BY DEF Crash
<1>2. RecordInv' /\ OldInv' /\ LedgerInv' /\ OrderlyInv'
  BY <1>1, Unwritten
<1>3. DayInv' /\ HoldingInv' /\ ControlInv' /\ StrayInv'
  BY <1>1, QuantityAssumption
     DEF NoCall, DayInv, Qty, HoldingInv, Sound, ControlInv, StrayInv
<1> QED
  BY <1>2, <1>3

\* What a start has to look at are the open operations, and old ones.
LEMMA RestartDeep ==
  ASSUME FullInv, EntryInv', Restart
  PROVE  FullInv'
<1> USE DEF FullInv
<1> DEFINE T == {x \in Op : Candidate(x)}
<1>1. /\ pc' = "recover" /\ pos' = file /\ restarts' = restarts + 1
      /\ restarts < MaxRestarts
      /\ UNCHANGED <<orders, file, stop, book, net, old, early>>
      /\ call' = [NoCall EXCEPT !.todo = T]
  BY DEF Restart
<1>2. call'.op = NoOp /\ call'.filled = 0 /\ ~call'.terminal /\ call'.todo = T
  BY <1>1 DEF NoCall
<1>3. /\ RecordInv' /\ OldInv' /\ LedgerInv' /\ OrderlyInv'
      /\ \A y : (Open(y)' <=> Open(y)) /\ (Stray(y)' <=> Stray(y))
  BY <1>1, Unwritten
<1>4. DayInv'
  BY <1>1, <1>2, QuantityAssumption, MaxRestartsAssumption DEF DayInv, Qty
<1>5. HoldingInv' /\ ControlInv'
  BY <1>1, <1>2 DEF HoldingInv, Sound, ControlInv
<1>6. StrayInv'
  <2>1. \A x \in T : x \notin old => Open(x)
    BY DEF Candidate, HasUnappliedFill, Open, Done, RecordInv, Qty
  <2>2. \A x \in Op : Stray(x) => x \in T /\ x # NoOp
    <3> SUFFICES ASSUME NEW x \in Op, Stray(x) PROVE Candidate(x)
      BY OpAssumption
    <3>1. /\ orders[x].created /\ orders[x].filled = book[x].filled
          /\ orders[x].applied # book[x].filled
          /\ orders[x].applied <= book[x].filled
          /\ book[x].filled \in Int /\ orders[x].applied \in Int
      BY DEF Stray, Open, Done, RecordInv, EntryInv, BooksInv, Recorded, Qty
    <3> QED
      BY <3>1 DEF Candidate, HasUnappliedFill
  <2> QED
    BY <1>1, <1>2, <1>3, <2>1, <2>2 DEF StrayInv
<1> QED
  BY <1>3, <1>4, <1>5, <1>6

\* After the night no operation is open and the account is flat.
LEMMA NightDeep ==
  ASSUME FullInv, EntryInv', NewDay
  PROVE  FullInv'
<1> USE DEF FullInv
<1>1. /\ pc \in Asleep /\ net' = 0 /\ file' = NoPosition
      /\ old' = {x \in Op : orders[x].created}
      /\ UNCHANGED <<orders, stop, pos, pc, call, early, restarts>>
  BY DEF NewDay, Up
<1>2. \A o \in Op : /\ book'[o].qty = book[o].qty
                    /\ book'[o].filled = book[o].filled
                    /\ book'[o].cancels = book[o].cancels
                    /\ ~Broker!InFlight(o)'
                    /\ book'[o].status = "NONE" => book[o].status = "NONE"
  <2> TAKE o \in Op
  <2>1. book[o] \in BookShape
    BY DEF EntryInv, BooksInv
  <2>2. book'[o] = IF Broker!InFlight(o)
                     THEN [book[o] EXCEPT !.status = "CANCELLED"] ELSE book[o]
    BY DEF NewDay
  <2> QED
    BY <2>1, <2>2 DEF BookShape
<1>3. \A y \in Op : ~Open(y)'
  BY <1>1 DEF Open
<1>4. RecordInv'
  BY <1>1, <1>2 DEF RecordInv
<1>5. DayInv' /\ OldInv'
  BY <1>1 DEF DayInv, OldInv
<1>6. HoldingInv' /\ ControlInv'
  BY <1>1 DEF HoldingInv, Sound, ControlInv
<1>7. StrayInv'
  BY <1>1, <1>3 DEF StrayInv, Stray
<1>8. LedgerInv' /\ OrderlyInv'
  BY <1>1, <1>3 DEF LedgerInv, OrderlyInv
<1> QED
  BY <1>4, <1>5, <1>6, <1>7, <1>8

\* A share bought belongs to the one open operation.
LEMMA MovesDeep ==
  ASSUME FullInv, EntryInv', BrokerMoves
  PROVE  FullInv'
<1> USE DEF FullInv
<1>1. PICK o \in Op : \/ Broker!Accept(o) \/ Broker!Reject(o) \/ Broker!Lose(o)
                      \/ Broker!Fill(o)   \/ Broker!Cancel(o)
  BY DEF BrokerMoves
<1>2. UNCHANGED <<orders, file, stop, pos, pc, call, old, early, restarts>>
  BY DEF BrokerMoves
<1>3. /\ \A y \in Op \ {o} : book'[y] = book[y]
      /\ Broker!InFlight(o) /\ book'[o].status # "NONE"
      /\ book'[o].qty = book[o].qty /\ book'[o].cancels = book[o].cancels
      /\ \/ book'[o].filled = book[o].filled /\ net' = net
         \/ /\ book'[o].filled = book[o].filled + 1 /\ net' = net + 1
            /\ Broker!InFlight(o)' => book'[o].filled < book'[o].qty
  BY <1>1, MoveEffect DEF EntryInv
<1>4. /\ Orders!Unresolved(o) /\ Open(o)
      /\ book[o].filled \in Int /\ book[o].qty \in Int /\ orders[o].applied \in Int
      /\ book[o].filled < book[o].qty
      /\ ~orders[o].terminal
  BY <1>3 DEF EntryInv, BooksInv, Recorded, RecordInv, Open, Done, Qty
<1>5. \A y \in Op : (Open(y)' <=> Open(y)) /\ (Stray(y)' <=> Stray(y))
  BY <1>2, <1>3, <1>4 DEF Open, Done, Stray
<1>6. RecordInv'
  <2>1. \A y \in Op \ {o} : book'[y] = book[y]
    BY <1>3
  <2>2. /\ book'[o].filled \in Qty /\ book[o].filled <= book'[o].filled
        /\ Broker!InFlight(o)' => book'[o].filled < book'[o].qty
        /\ book'[o].qty \in Qty
    BY <1>3, <1>4, QuantityAssumption DEF RecordInv, Qty
  <2>3. /\ orders[o].filled <= book'[o].filled
        /\ orders[o].applied <= book'[o].filled
    BY <1>4, <2>2 DEF RecordInv, Qty
  <2> QED
    BY <1>2, <1>3, <1>4, <2>1, <2>2, <2>3 DEF RecordInv
<1>7. DayInv' /\ OldInv'
  BY <1>2, <1>3 DEF DayInv, OldInv
<1>8. HoldingInv'
  BY <1>2 DEF HoldingInv, Sound
<1>9. ControlInv'
  <2>1. call.terminal => call.op # o
    BY <1>4 DEF EntryInv, CallInv
  <2>2. call.terminal => call.op \in Op
    BY DEF EntryInv, CallInv
  <2>3. pc \in Booking => call.op \in Op
    BY DEF EntryInv, CallInv
  <2> QED
    BY <1>2, <1>3, <1>5, <2>1, <2>2, <2>3 DEF ControlInv
<1>10. StrayInv'
  BY <1>2, <1>5 DEF StrayInv, EntryInv, CallInv, CallShape
<1>11. \A y \in Op : Open(y) => y = o
  BY <1>4 DEF LedgerInv
<1>12. file # NoPosition => file.filled \in Int /\ file.qty \in Int
  BY DEF HoldingInv, Sound, Position, Qty
<1>13. LedgerInv'
  BY <1>2, <1>3, <1>4, <1>5, <1>11, <1>12 DEF LedgerInv, DayInv
<1>14. OrderlyInv'
  BY <1>2, <1>3, <1>4, <1>5, <1>11, <1>12 DEF OrderlyInv, DayInv
<1> QED
  BY <1>6, <1>7, <1>8, <1>9, <1>10, <1>13, <1>14

LEMMA InitDeep == Init => FullInv
<1> SUFFICES ASSUME Init PROVE FullInv
  OBVIOUS
<1>1. EntryInv
  BY InitKeeps
<1>2. /\ pos = NoPosition /\ file = NoPosition /\ stop = 0 /\ pc = "idle"
      /\ call = NoCall /\ old = {} /\ early = FALSE /\ restarts = 0 /\ net = 0
  BY DEF Init, Broker!Init
<1>3. \A x \in Op : /\ ~orders[x].created /\ ~orders[x].resolved
                    /\ ~orders[x].terminal /\ orders[x].filled = 0
                    /\ orders[x].applied = 0 /\ orders[x].requested = 0
  <2>1. \A x \in Op : orders[x] = Orders!Blank
    BY DEF Init, Orders!Init
  <2>2. /\ ~Orders!Blank.created /\ ~Orders!Blank.resolved
        /\ ~Orders!Blank.terminal /\ Orders!Blank.filled = 0
        /\ Orders!Blank.applied = 0 /\ Orders!Blank.requested = 0
    BY DEF Orders!Blank
  <2> QED
    BY <2>1, <2>2
<1>4. \A x \in Op : /\ book[x].status = "NONE" /\ book[x].filled = 0
                    /\ book[x].qty = 0 /\ book[x].cancels = 0
  BY DEF Init, Broker!Init
<1>5. RecordInv
  BY <1>2, <1>3, <1>4, QuantityAssumption DEF RecordInv, Qty
<1>6. \A x : x \in Op => ~Open(x)
  BY <1>3 DEF Open
<1>7. DayInv /\ OldInv /\ HoldingInv /\ ControlInv
  <2>1. DayInv
    <3>1. call.filled \in Qty /\ stop \in Qty /\ net \in Int
      BY <1>2, QuantityAssumption DEF NoCall, Qty
    <3>2. restarts \in 0..MaxRestarts /\ old \subseteq Op
      BY <1>2, MaxRestartsAssumption
    <3>3. early \in BOOLEAN
      BY <1>2
    <3> QED
      BY <3>1, <3>2, <3>3 DEF DayInv
  <2>2. OldInv /\ HoldingInv
    BY <1>2 DEF OldInv, HoldingInv, Sound
  <2>3. ControlInv
    BY <1>2 DEF ControlInv
  <2> QED
    BY <2>1, <2>2, <2>3
<1>8. StrayInv /\ LedgerInv /\ OrderlyInv
  BY <1>2, <1>6 DEF StrayInv, Stray, LedgerInv, OrderlyInv, NoCall
<1> QED
  BY <1>1, <1>5, <1>7, <1>8 DEF FullInv

LEMMA NextDeep == FullInv /\ [Next]_vars => FullInv'
<1> SUFFICES ASSUME FullInv, [Next]_vars PROVE FullInv'
  OBVIOUS
<1>e. EntryInv'
  BY NextKeeps DEF FullInv
<1>1. CASE Entering
  <2>1. CASE AttachEntry
    <3>1. /\ pc = "attach" /\ Orders!AttachOrderId(call.op, call.op)
          /\ pc' = "verify" /\ UNCHANGED call /\ OrderStoreStep
      BY <2>1 DEF AttachEntry
    <3>2. call.op \in Op
      BY <3>1 DEF FullInv, EntryInv, CallInv
    <3> QED
      BY <1>e, <3>1, <3>2, AttachDeep DEF FullInv
  <2> QED
    BY <1>e, <1>1, <2>1, CreateDeep, SubmitDeep, UncertainDeep, VerifyEntryDeep,
       ResolveEntryDeep, BookDeep, MarkAppliedDeep, ProtectDeep, SaveDeep
       DEF Entering
<1>2. CASE Recovering
  <2>1. ASSUME NEW x \in Op, Reattach(x) PROVE FullInv'
    <3>1. /\ pc = "recover" /\ Orders!AttachOrderId(x, x)
          /\ pc' = pc /\ UNCHANGED call /\ OrderStoreStep
      BY <2>1 DEF Reattach
    <3>2. /\ RecordInv' /\ DayInv' /\ OldInv' /\ HoldingInv' /\ ControlInv'
          /\ StrayInv' /\ LedgerInv' /\ OrderlyInv'
      BY <3>1, AttachDeep
    <3> QED
      BY <1>e, <3>2 DEF FullInv
  <2> QED
    BY <1>e, <1>2, <2>1, SuppressDeep, SkipDeep, ReverifyDeep, RefuseDeep,
       RecoverBookDeep, MarkRecoveredDeep, NothingNewDeep, SettleDeep,
       RecoverStopDeep DEF Recovering
<1>3. CASE UNCHANGED vars
  BY <1>e, <1>3 DEF vars, FullInv, RecordInv, DayInv, OldInv, HoldingInv, Sound,
                    ControlInv, StrayInv, LedgerInv, OrderlyInv, Open, Done, Stray
<1> QED
  BY <1>e, <1>1, <1>2, <1>3, ExitDeep, CrashDeep, RestartDeep, NightDeep, MovesDeep
     DEF Next

LEMMA FullInvariant == Spec => []FullInv
BY InitDeep, NextDeep, PTL DEF Spec

----------------------------------------------------------------------------
(* The sum over the unapplied fills *)

\* The function that MapThenSumSet chooses, and evaluates at S.
Sums(f, S) ==
  f = [T \in SUBSET S |->
         IF T = {} THEN 0
         ELSE LET x == CHOOSE x \in T : TRUE IN Unapplied(x) + f[T \ {x}]]

LEMMA SumDef ==
  ASSUME NEW S, NEW n, \E f : Sums(f, S), \A f : Sums(f, S) => f[S] = n
  PROVE  MapThenSumSet(Unapplied, S) = n
<1> DEFINE s == CHOOSE f : Sums(f, S)
<1>1. Sums(s, S)
  OBVIOUS
<1>2. s[S] = n
  BY <1>1
<1>3. MapThenSumSet(Unapplied, S) = s[S]
  BY Zenon DEF MapThenSumSet, MapThenFoldSet, Sums
<1> QED
  BY <1>2, <1>3

\* A sum over a finite set in which one operation at most has a share.
LEMMA SumOfLast ==
  ASSUME NEW S, IsFiniteSet(S), NEW x, Unapplied(x) \in Int,
         \A y \in S : y # x => Unapplied(y) = 0
  PROVE  MapThenSumSet(Unapplied, S) = IF x \in S THEN Unapplied(x) ELSE 0
<1> DEFINE g == [T \in SUBSET S |-> IF x \in T THEN Unapplied(x) ELSE 0]
           Chosen(T) == CHOOSE y \in T : TRUE
<1>1. \A T \in SUBSET S : T # {} => Chosen(T) \in T /\ T \ {Chosen(T)} \in SUBSET S
  OBVIOUS
<1>2. \A T \in SUBSET S : T # {} =>
        g[T] = Unapplied(Chosen(T)) + g[T \ {Chosen(T)}]
  <2> SUFFICES ASSUME NEW T \in SUBSET S, T # {}
               PROVE  g[T] = Unapplied(Chosen(T)) + g[T \ {Chosen(T)}]
    OBVIOUS
  <2> DEFINE y == Chosen(T)
  <2>1. y \in T /\ T \ {y} \in SUBSET S
    BY <1>1
  <2>2. g[T] = IF x \in T THEN Unapplied(x) ELSE 0
    OBVIOUS
  <2>3. g[T \ {y}] = IF x \in T \ {y} THEN Unapplied(x) ELSE 0
    BY <2>1
  <2> HIDE DEF g, y
  <2>4. y = x => g[T] = Unapplied(y) + g[T \ {y}]
    BY <2>1, <2>2, <2>3
  <2>5. y # x => g[T] = Unapplied(y) + g[T \ {y}]
    <3>1. y # x => Unapplied(y) = 0
      BY <2>1
    <3> QED
      BY <2>1, <2>2, <2>3, <3>1
  <2> QED
    BY <2>4, <2>5 DEF y
<1>3. Sums(g, S)
  <2>1. \A T \in SUBSET S :
          g[T] = IF T = {} THEN 0
                 ELSE LET y == CHOOSE y \in T : TRUE IN Unapplied(y) + g[T \ {y}]
    <3>1. g[{}] = 0
      OBVIOUS
    <3> HIDE DEF g
    <3> QED
      BY <1>2, <3>1
  <2>2. g = [T \in SUBSET S |-> g[T]]
    OBVIOUS
  <2> HIDE DEF g
  <2> QED
    BY <2>1, <2>2 DEF Sums
<1>4. ASSUME NEW f, Sums(f, S) PROVE f[S] = g[S]
  <2> DEFINE Bad == {T \in SUBSET S : f[T] # g[T]}
  <2>1. \A T \in SUBSET S :
          f[T] = IF T = {} THEN 0 ELSE Unapplied(Chosen(T)) + f[T \ {Chosen(T)}]
    BY <1>4, Zenon DEF Sums
  <2>2. ASSUME Bad # {} PROVE FALSE
    <3>1. IsWellFoundedOn(StrictSubsetOrdering(S), FiniteSubsetsOf(S))
      BY FS_StrictSubsetOrderingWellFounded, Zenon
    <3>2. FiniteSubsetsOf(S) = SUBSET S
      BY FS_FiniteSubsetsOfFinite, Zenon
    <3>3. Bad \subseteq SUBSET S
      OBVIOUS
    <3>4. \E T \in Bad : \A U \in Bad : <<U, T>> \notin StrictSubsetOrdering(S)
      <4> HIDE DEF Bad
      <4> QED
        BY <2>2, <3>1, <3>2, <3>3, WFMin
    <3>5. PICK T \in Bad : \A U \in Bad : <<U, T>> \notin StrictSubsetOrdering(S)
      BY <3>4
    <3>6. T \in SUBSET S /\ f[T] # g[T]
      OBVIOUS
    <3>7. T # {}
      BY <2>1, <3>6
    <3> DEFINE U == T \ {Chosen(T)}
    <3>8. Chosen(T) \in T /\ U \in SUBSET S
      BY <1>1, <3>6, <3>7
    <3>9. <<U, T>> \in StrictSubsetOrdering(S)
      BY <3>6, <3>8 DEF StrictSubsetOrdering
    <3>10. f[U] = g[U]
      BY <3>5, <3>8, <3>9
    <3> HIDE DEF g, Chosen, Bad
    <3> QED
      BY <1>2, <2>1, <3>6, <3>7, <3>10
  <2>3. S \in SUBSET S
    OBVIOUS
  <2> QED
    BY <2>2, <2>3
<1>5. g[S] = IF x \in S THEN Unapplied(x) ELSE 0
  OBVIOUS
<1> HIDE DEF g
<1> QED
  BY <1>3, <1>4, <1>5, SumDef

----------------------------------------------------------------------------
(* Theorems on the books and the account *)

\* Every quantity, flag and label stays within its type.
THEOREM TypeCorrect == Spec => []TypeOK
<1>1. FullInv => TypeOK
  <2> SUFFICES ASSUME FullInv PROVE TypeOK
    OBVIOUS
  <2>1. Orders!TypeOK
    <3>1. ASSUME NEW x \in Op PROVE orders[x] \in Orders!OrderRecord
      <4>1. /\ orders[x] \in OrderShape
            /\ orders[x].filled \in Qty /\ orders[x].applied \in Qty
            /\ orders[x].requested \in Qty
        BY DEF FullInv, EntryInv, BooksInv, RecordInv
      <4> QED
        BY <4>1 DEF OrderShape, Orders!OrderRecord, Orders!Action, Orders!Qty, Qty
    <3>2. orders \in [Op -> OrderShape]
      BY DEF FullInv, EntryInv, BooksInv
    <3> QED
      BY <3>1, <3>2 DEF Orders!TypeOK
  <2>2. Broker!TypeOK
    <3>1. ASSUME NEW x \in Op PROVE book[x] \in Broker!Entry
      <4>1. /\ book[x] \in BookShape
            /\ book[x].qty \in Qty /\ book[x].filled \in Qty /\ book[x].cancels \in Nat
        BY DEF FullInv, EntryInv, BooksInv, RecordInv
      <4> QED
        BY <4>1 DEF BookShape, Broker!Entry, Qty
    <3>2. book \in [Op -> BookShape] /\ net \in Int
      BY DEF FullInv, EntryInv, BooksInv, DayInv
    <3> QED
      BY <3>1, <3>2 DEF Broker!TypeOK
  <2>3. call \in Call
    BY DEF FullInv, EntryInv, CallInv, CallShape, DayInv, Call
  <2>4. pos \in Position \cup {NoPosition} /\ file \in Position \cup {NoPosition}
    BY DEF FullInv, HoldingInv, Sound
  <2> QED
    BY <2>1, <2>2, <2>3, <2>4 DEF FullInv, DayInv, ControlInv, TypeOK
<1> QED
  BY <1>1, FullInvariant, PTL

\* Whatever the bot does and wherever it crashes, for any number of entries,
\* restarts and days, every share of the account is in the position file or
\* is a fill of today that the order store does not call applied.
THEOREM AllSharesKnown == Spec => []NoShareForgotten
<1>1. FullInv => NoShareForgotten
  <2> SUFFICES ASSUME FullInv PROVE NoShareForgotten
    OBVIOUS
  <2> DEFINE S == {x \in Op \ old : orders[x].created}
             sum == MapThenSumSet(Unapplied, S)
  <2>1. IsFiniteSet(S)
    BY OpFinite, FS_Subset, Zenon
  <2>2. \A x \in Op : /\ Unapplied(x) \in Int /\ Unapplied(x) >= 0
                      /\ Unapplied(x) = book[x].filled - orders[x].applied
    BY DEF FullInv, RecordInv, Qty, Unapplied
  <2>3. \A x \in S : ~Open(x) => Unapplied(x) = 0
    BY <2>2 DEF FullInv, RecordInv, Qty, Open, Done
  <2>4. net \in Int /\ BookedQty(file) \in Int
    BY QuantityAssumption DEF FullInv, DayInv, HoldingInv, Sound, Position, Qty
  <2>5. CASE \E x \in Op : Open(x)
    <3>1. PICK x \in Op : Open(x)
      BY <2>5
    <3>2. x \in S /\ \A y \in S : y # x => ~Open(y)
      BY <3>1 DEF FullInv, LedgerInv, Open
    <3>3. sum = Unapplied(x)
      <4>1. \A y \in S : y # x => Unapplied(y) = 0
        BY <2>3, <3>2
      <4> HIDE DEF S
      <4> QED
        BY <2>1, <2>2, <3>2, <4>1, SumOfLast
    <3>4. net <= BookedQty(file) + book[x].filled - orders[x].applied
      BY <3>1 DEF FullInv, LedgerInv
    <3>5. net <= BookedQty(file) + Unapplied(x)
      BY <2>2, <2>4, <3>4 DEF FullInv, RecordInv, Qty
    <3> QED
      BY <3>3, <3>5 DEF NoShareForgotten
  <2>6. CASE \A x \in Op : ~Open(x)
    <3>1. sum = 0
      <4>1. \A y \in S : Unapplied(y) = 0
        BY <2>3, <2>6
      <4> HIDE DEF S
      <4>2. CASE S = {}
        <5>1. \E f : Sums(f, S)
          <6>1. Sums([T \in SUBSET S |-> 0], S)
            BY <4>2 DEF Sums
          <6> QED
            BY <6>1
        <5>2. \A f : Sums(f, S) => f[S] = 0
          BY <4>2 DEF Sums
        <5> QED
          BY <5>1, <5>2, SumDef
      <4>3. CASE S # {}
        <5>1. PICK x \in S : TRUE
          BY <4>3
        <5>2. Unapplied(x) \in Int /\ Unapplied(x) = 0
          BY <4>1
        <5> QED
          BY <2>1, <4>1, <5>1, <5>2, SumOfLast
      <4> QED
        BY <4>2, <4>3
    <3>2. net <= BookedQty(file)
      BY <2>6 DEF FullInv, LedgerInv
    <3>3. net <= BookedQty(file) + 0
      BY <2>4, <3>2
    <3> QED
      BY <3>1, <3>3 DEF NoShareForgotten
  <2> QED
    BY <2>5, <2>6
<1> QED
  BY <1>1, FullInvariant, PTL

\* As long as no position was closed before its entry was resolved, the books
\* never claim a share the account does not hold, whatever is recovered how
\* often.
THEOREM RecoveryIsIdempotent == Spec => []NothingInventedInOrder
<1>1. FullInv => NothingInventedInOrder
  <2> SUFFICES ASSUME FullInv, ~early, Held PROVE pos.qty <= net
    BY DEF NothingInventedInOrder, NothingInvented
  <2>1. file # NoPosition /\ pos.qty = file.qty
    BY DEF FullInv, HoldingInv, ControlInv
  <2>2. file.qty \in Int /\ file.filled \in Int
    BY <2>1 DEF FullInv, HoldingInv, Sound, Position, Qty
  <2>3. CASE \E x \in Op : Open(x)
    <3>1. PICK x \in Op : Open(x)
      BY <2>3
    <3>2. /\ net = file.qty + book[x].filled - file.filled
          /\ file.filled <= book[x].filled /\ book[x].filled \in Int
      BY <2>1, <3>1 DEF FullInv, LedgerInv, OrderlyInv, RecordInv, Qty
    <3> QED
      BY <2>1, <2>2, <3>2
  <2>4. CASE \A x \in Op : ~Open(x)
    BY <2>1, <2>2, <2>4 DEF FullInv, OrderlyInv
  <2> QED
    BY <2>3, <2>4
<1> QED
  BY <1>1, FullInvariant, PTL

\* With the same exception recovery never refuses its own bookkeeping.
THEOREM RecoveryEnds == Spec => []StartupSurvives
<1>1. FullInv => StartupSurvives
  BY DEF FullInv, OrderlyInv, StartupSurvives
<1> QED
  BY <1>1, FullInvariant, PTL

\* Between two checks a position that no human is called for has a stop of
\* exactly its quantity.
THEOREM CoveredOrFlagged == Spec => []UnflaggedMeansCovered
<1>1. FullInv => UnflaggedMeansCovered
  BY DEF FullInv, HoldingInv, Sound, UnflaggedMeansCovered
<1> QED
  BY <1>1, FullInvariant, PTL

\* With the same exception an entry is only sent from a flat account.
THEOREM SentFromFlat == Spec => OpensFromFlat
<1>1. FullInv /\ [Next]_vars =>
        [\A x \in Op : ~Broker!InFlight(x) /\ Broker!InFlight(x)'
                         => early \/ net = 0]_vars
  <2> SUFFICES ASSUME FullInv, [Next]_vars, NEW x \in Op,
                      ~Broker!InFlight(x), Broker!InFlight(x)', ~early
               PROVE  net = 0
    BY Zenon
  <2>1. BooksInv /\ RecordInv
    BY DEF FullInv, EntryInv
  <2>2. CASE SubmitEntry
    <3>1. /\ pc = "submit" /\ Broker!Submit(call.op, Quantity)
      BY <2>2 DEF SubmitEntry
    <3>2. /\ call.op \in Op /\ call.op \notin old /\ Orders!Unresolved(call.op)
          /\ pos = NoPosition /\ file = NoPosition
      BY <3>1 DEF FullInv, EntryInv, CallInv, ControlInv, HoldingInv
    <3>3. book[call.op].status = "NONE"
      BY <2>1, <3>1, <3>2, SubmitEffect
    <3>4. book[call.op].filled = 0 /\ Open(call.op)
      BY <3>2, <3>3 DEF FullInv, RecordInv, Open, Done
    <3> QED
      BY <3>2, <3>4 DEF FullInv, OrderlyInv
  <2>3. CASE BrokerMoves
    <3>1. PICK o \in Op : \/ Broker!Accept(o) \/ Broker!Reject(o) \/ Broker!Lose(o)
                          \/ Broker!Fill(o)   \/ Broker!Cancel(o)
      BY <2>3 DEF BrokerMoves
    <3>2. Broker!InFlight(o) /\ \A y \in Op \ {o} : book'[y] = book[y]
      BY <2>1, <3>1, MoveEffect
    <3> QED
      BY <3>2
  <2>4. CASE NewDay
    <3>1. \A y \in Op : ~Broker!InFlight(y)'
      <4> SUFFICES ASSUME NEW y \in Op PROVE ~Broker!InFlight(y)'
        OBVIOUS
      <4>1. book'[y] = IF Broker!InFlight(y)
                         THEN [book[y] EXCEPT !.status = "CANCELLED"] ELSE book[y]
        BY <2>4 DEF NewDay
      <4> QED
        BY <2>1, <4>1 DEF BooksInv, BookShape
    <3> QED
      BY <3>1
  <2>5. CASE UNCHANGED book
    BY <2>5
  <2>6. SubmitEntry \/ BrokerMoves \/ NewDay \/ UNCHANGED book
    <3>1. ASSUME NEW n \in 1..Quantity, ExitShares(n) PROVE UNCHANGED book
      BY <3>1 DEF ExitShares
    <3>2. ASSUME NEW y \in Op,
                 SuppressOld(y) \/ Reattach(y) \/ SkipUnmatched(y) \/ Reverify(y)
          PROVE  UNCHANGED book
      BY <3>2 DEF SuppressOld, Reattach, SkipUnmatched, Reverify
    <3>3. Recovering => UNCHANGED book
      BY <3>2 DEF Recovering, RefuseOld, BookRecovered, MarkRecovered, NothingNew,
                  StartupDies, Settle, RecoverStop
    <3>4. Entering => SubmitEntry \/ UNCHANGED book
      BY DEF Entering, CreateEntryIntent, AttachEntry, EntryUncertain, VerifyEntry,
             ResolveEntry, BookEntry, MarkApplied, ProtectEntry, SaveProtection
    <3> QED
      BY <3>1, <3>3, <3>4 DEF Next, Crash, Restart, vars
  <2> QED
    BY <2>2, <2>3, <2>4, <2>5, <2>6
<1> QED
  BY <1>1, FullInvariant, PTL DEF Spec, OpensFromFlat

============================================================================
