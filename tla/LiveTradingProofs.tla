---- MODULE LiveTradingProofs ----
(***************************************************************************)
(* Theorems about LiveTrading: its types, the limit on parallel requests,   *)
(* that no fill and no rejection is reported that the exchange does not     *)
(* know of, and that no fill is reported twice, for any set of orders, any  *)
(* limit and any size.                                                      *)
(***************************************************************************)
EXTENDS LiveTrading, FiniteSetTheorems, SequenceTheorems, WellFoundedInduction, TLAPS

OrderStates == {"none", "live", "partially_filled", "filled", "canceled", "refused"}
Answers == {"none", "New", "Rejected", "Err"}
Updates == [order : Callers, state : OrderStates, fillSz : Nat]
Results == [status : Answers \cup {"Filled"}, filled : Nat]

InRequest == {c \in Callers : tpc[c] = "request"}
InPermit == {c \in Callers : tpc[c] = "permit"}

\* The shaper: the permits that are out are the requests on their way, and the
\* mutex has one holder, who waits for a permit.
Shaped ==
  /\ limit \in Limits
  /\ tpc \in [Callers -> {"idle", "lock", "permit", "request", "report", "done"}]
  /\ map_lock = InPermit
  /\ \A c, d \in InPermit : c = d
  /\ permits \in Nat
  /\ IsFiniteSet(InRequest)
  /\ \A n \in limit : permits = n - Cardinality(InRequest)

\* The orders and what is known of them.
Traded ==
  /\ exch \in [Callers -> OrderStates]
  /\ fills \in [Callers -> 0..Size]
  /\ \A o \in Callers : fills[o] = Size <=> exch[o] = "filled"
  /\ answer \in [Callers -> Answers]
  /\ updates \in Seq(Updates)
  /\ stream \in {"down", "up", "ended"}
  /\ stream # "up" => updates = <<>>
  /\ reports \in [Callers -> Seq(Results)]
  /\ queued \in 0..Capacity /\ skipped \subseteq Callers

\* What FilledIsFinal needs of the updates and answers under way: those that
\* will be read as a fill or a rejection are true, and stay so, since an order
\* that is filled, canceled or refused changes no more.
UpdatesTrue ==
  \A i \in 1..Len(updates) :
    /\ updates[i].state = "filled" => exch[updates[i].order] = "filled"
    /\ updates[i].state = "canceled" => exch[updates[i].order] = "canceled"
AnswersTrue == \A o \in Callers : answer[o] = "Rejected" => exch[o] = "refused"

Inv == Shaped /\ Traded /\ UpdatesTrue /\ AnswersTrue /\ FilledIsFinal

----
\* The shaper's variables change in four ways; each keeps the count of permits.
LEMMA InitShaped == ShaperInit => Shaped
<1> SUFFICES ASSUME ShaperInit PROVE Shaped
  OBVIOUS
<1>1. InRequest = {} /\ InPermit = {}
  BY DEF ShaperInit, InRequest, InPermit
<1>2. IsFiniteSet(InRequest) /\ Cardinality(InRequest) = 0
  BY <1>1, FS_EmptySet
<1>3. limit \in Limits /\ limit \subseteq Nat /\ \A m, n \in limit : m = n
  BY LimitsAssumption DEF ShaperInit
<1>4. permits \in Nat /\ \A n \in limit : permits = n
  <2>1. CASE limit = {}
    BY <2>1 DEF ShaperInit
  <2>2. CASE limit # {}
    <3>1. permits = CHOOSE n \in limit : TRUE
      BY <2>2 DEF ShaperInit
    <3>2. permits \in limit
      BY <2>2, <3>1
    <3>3. QED
      BY <3>2, <1>3
  <2>3. QED
    BY <2>1, <2>2
<1>5. \A n \in limit : n - 0 = n
  BY <1>3
<1>6. QED
  BY <1>1, <1>2, <1>3, <1>4, <1>5 DEF Shaped, ShaperInit

LEMMA BeginShaped == ASSUME Shaped, NEW c \in Callers, Begin(c) PROVE Shaped'
<1>1. InPermit' = InPermit
  BY DEF Begin, Shaped, InPermit
<1>2. CASE limit = {}
  <2>1. InRequest' = InRequest \cup {c}
    BY <1>2 DEF Begin, Shaped, InRequest
  <2>2. IsFiniteSet(InRequest')
    BY <2>1, FS_AddElement DEF Shaped
  <2>3. QED
    BY <1>1, <1>2, <2>2 DEF Begin, Shaped
<1>3. CASE limit # {}
  <2>1. InRequest' = InRequest
    BY <1>3 DEF Begin, Shaped, InRequest
  <2>2. QED
    BY <1>1, <1>3, <2>1 DEF Begin, Shaped
<1>4. QED
  BY <1>2, <1>3

LEMMA LockMapShaped == ASSUME Shaped, NEW c \in Callers, LockMap(c) PROVE Shaped'
<1>1. InRequest' = InRequest
  BY DEF LockMap, Shaped, InRequest
<1>2. InPermit = {} /\ InPermit' = {c}
  BY DEF LockMap, Shaped, InPermit
<1>3. QED
  BY <1>1, <1>2 DEF LockMap, Shaped

LEMMA AcquireShaped == ASSUME Shaped, NEW c \in Callers, AcquirePermit(c) PROVE Shaped'
<1>1. c \in InPermit /\ InPermit = {c}
  BY DEF AcquirePermit, Shaped, InPermit
<1>2. InPermit' = {}
  BY <1>1 DEF AcquirePermit, Shaped, InPermit
<1>3. c \notin InRequest /\ InRequest' = InRequest \cup {c}
  BY DEF AcquirePermit, Shaped, InRequest
<1>4. IsFiniteSet(InRequest') /\ Cardinality(InRequest') = Cardinality(InRequest) + 1
  BY <1>3, FS_AddElement DEF Shaped
<1>5. Cardinality(InRequest) \in Nat
  BY FS_CardinalityType DEF Shaped
<1>6. permits' \in Nat /\ \A n \in limit' : permits' = n - Cardinality(InRequest')
  BY <1>4, <1>5, LimitsAssumption DEF AcquirePermit, Shaped
<1>7. QED
  BY <1>2, <1>4, <1>6 DEF AcquirePermit, Shaped

LEMMA ReleaseShaped ==
  ASSUME Shaped, NEW c \in Callers, NEW next \in {"report", "done"}, Release(c, next)
  PROVE Shaped'
<1>1. InPermit' = InPermit
  BY DEF Release, Shaped, InPermit
<1>2. c \in InRequest /\ InRequest' = InRequest \ {c}
  BY DEF Release, Shaped, InRequest
<1>3. IsFiniteSet(InRequest') /\ Cardinality(InRequest') = Cardinality(InRequest) - 1
  BY <1>2, FS_RemoveElement DEF Shaped
<1>4. Cardinality(InRequest) \in Nat
  BY FS_CardinalityType DEF Shaped
<1>5. permits' \in Nat /\ \A n \in limit' : permits' = n - Cardinality(InRequest')
  BY <1>3, <1>4, LimitsAssumption DEF Release, Shaped
<1>6. QED
  BY <1>1, <1>3, <1>5 DEF Release, Shaped

\* A step that leaves the shaper alone keeps it.
LEMMA StillShaped == ASSUME Shaped, UNCHANGED shaperVars PROVE Shaped'
BY DEF Shaped, shaperVars, InRequest, InPermit

----
\* Pushing an update to the stream, or to nobody.
LEMMA PushTraded ==
  ASSUME NEW o \in Callers, NEW st \in OrderStates, NEW n \in Nat,
         updates \in Seq(Updates), stream # "up" => updates = <<>>,
         Push(o, st, n), stream' = stream
  PROVE  /\ updates' \in Seq(Updates)
         /\ stream' # "up" => updates' = <<>>
         /\ \A i \in 1..Len(updates') :
              \/ i \in 1..Len(updates) /\ updates'[i] = updates[i]
              \/ updates'[i].order = o /\ updates'[i].state = st
<1> DEFINE u == [order |-> o, state |-> st, fillSz |-> n]
<1>1. u \in Updates /\ u.order = o /\ u.state = st
  BY DEF Updates
<1>2. CASE stream = "up"
  <2>1. updates' = Append(updates, u)
    BY <1>2 DEF Push
  <2> HIDE DEF u
  <2>2. QED
    BY <1>1, <1>2, <2>1
<1>3. CASE stream # "up"
  BY <1>3 DEF Push
<1>4. QED
  BY <1>2, <1>3

\* The exchange changes the state of an order that is not settled, and pushes
\* the state it changes it to, or nothing.
Settled == {"filled", "canceled", "refused"}

LEMMA ExchangeStep ==
  ASSUME Inv, NEW o \in Callers, exch[o] \notin Settled, UNCHANGED <<reports, answer>>,
         NEW st \in OrderStates, exch' = [exch EXCEPT ![o] = st],
         answer[o] = "Rejected" => st = "refused",
         updates' \in Seq(Updates),
         \A i \in 1..Len(updates') :
              \/ i \in 1..Len(updates) /\ updates'[i] = updates[i]
              \/ updates'[i].order = o /\ updates'[i].state = st
  PROVE  UpdatesTrue' /\ AnswersTrue' /\ FilledIsFinal'
<1>1. \A p \in Callers : exch[p] \in Settled => p # o /\ exch'[p] = exch[p]
  BY DEF Inv, Traded
<1>2. \A i \in 1..Len(updates) : updates[i].order \in Callers
  <2>1. \A i \in 1..Len(updates) : updates[i] \in Updates
    BY DEF Inv, Traded
  <2>2. QED
    BY <2>1 DEF Updates
<1>3. UpdatesTrue'
  BY <1>1, <1>2 DEF Inv, Traded, UpdatesTrue, Settled
<1>4. AnswersTrue'
  BY <1>1 DEF Inv, Traded, AnswersTrue, Settled
<1>5. FilledIsFinal'
  BY <1>1 DEF Inv, FilledIsFinal, Reported, Settled
<1>6. QED
  BY <1>3, <1>4, <1>5

LEMMA TakeOrderInv == ASSUME Inv, NEW o \in Callers, TakeOrder(o) PROVE Inv'
<1>1. exch[o] = "none" /\ exch' = [exch EXCEPT ![o] = "live"] /\ answer[o] # "Rejected"
  BY DEF TakeOrder, OnItsWay, Inv, AnswersTrue, resultVars
<1>2. /\ updates' \in Seq(Updates)
      /\ stream' # "up" => updates' = <<>>
      /\ \A i \in 1..Len(updates') :
           \/ i \in 1..Len(updates) /\ updates'[i] = updates[i]
           \/ updates'[i].order = o /\ updates'[i].state = "live"
  BY PushTraded DEF TakeOrder, Inv, Traded, OrderStates, resultVars
<1>3. UpdatesTrue' /\ AnswersTrue' /\ FilledIsFinal'
  BY <1>1, <1>2, ExchangeStep DEF TakeOrder, OrderStates, Settled, resultVars
<1>4. Traded'
  BY <1>1, <1>2 DEF TakeOrder, Inv, Traded, OrderStates, resultVars
<1>5. QED
  BY <1>3, <1>4, StillShaped DEF Inv, TakeOrder, resultVars

LEMMA RefuseOrderInv == ASSUME Inv, NEW o \in Callers, RefuseOrder(o) PROVE Inv'
<1>1. exch[o] = "none" /\ exch' = [exch EXCEPT ![o] = "refused"]
  BY DEF RefuseOrder, OnItsWay, resultVars
<1>2. updates' = updates /\ updates \in Seq(Updates)
  BY DEF RefuseOrder, Inv, Traded, resultVars
<1>3. UpdatesTrue' /\ AnswersTrue' /\ FilledIsFinal'
  BY <1>1, <1>2, ExchangeStep DEF RefuseOrder, OrderStates, Settled, resultVars
<1>4. Traded'
  BY <1>1 DEF RefuseOrder, Inv, Traded, OrderStates, resultVars
<1>5. QED
  BY <1>3, <1>4, StillShaped DEF Inv, RefuseOrder, resultVars

LEMMA FillInv == ASSUME Inv, NEW o \in Callers, Fill(o) PROVE Inv'
<1>1. PICK n \in 1..(Size - fills[o]) :
        LET state == IF fills[o] + n = Size THEN "filled" ELSE "partially_filled"
        IN /\ fills' = [fills EXCEPT ![o] = @ + n]
           /\ exch' = [exch EXCEPT ![o] = state]
           /\ Push(o, state, n)
  BY DEF Fill, resultVars
<1> DEFINE st == IF fills[o] + n = Size THEN "filled" ELSE "partially_filled"
<1>2. st \in OrderStates /\ exch[o] \in {"live", "partially_filled"}
  BY DEF Fill, OrderStates, resultVars
<1>3. fills[o] \in 0..Size /\ Size \in Nat /\ n \in Nat /\ fills[o] + n \in 0..Size
  BY SizeAssumption DEF Inv, Traded
<1>4. answer[o] # "Rejected"
  BY <1>2 DEF Inv, AnswersTrue
<1>5. /\ updates' \in Seq(Updates)
      /\ stream' # "up" => updates' = <<>>
      /\ \A i \in 1..Len(updates') :
           \/ i \in 1..Len(updates) /\ updates'[i] = updates[i]
           \/ updates'[i].order = o /\ updates'[i].state = st
  BY <1>1, <1>2, <1>3, PushTraded DEF Fill, Inv, Traded, resultVars
<1>6. UpdatesTrue' /\ AnswersTrue' /\ FilledIsFinal'
  <2> HIDE DEF st
  <2>1. exch' = [exch EXCEPT ![o] = st]
    BY <1>1 DEF st
  <2>2. QED
    BY <2>1, <1>2, <1>4, <1>5, ExchangeStep DEF Fill, Settled, resultVars
<1>7. Traded'
  <2>1. \A p \in Callers : fills'[p] = Size <=> exch'[p] = "filled"
    BY <1>1, <1>3 DEF Inv, Traded
  <2>2. QED
    BY <1>1, <1>2, <1>3, <1>5, <2>1 DEF Fill, Inv, Traded, resultVars
<1>8. QED
  BY <1>6, <1>7, StillShaped DEF Inv, Fill, resultVars

LEMMA CancelInv == ASSUME Inv, NEW o \in Callers, CancelOrder(o) PROVE Inv'
<1>1. exch[o] \in {"live", "partially_filled"} /\ exch' = [exch EXCEPT ![o] = "canceled"]
  BY DEF CancelOrder, resultVars
<1>2. answer[o] # "Rejected"
  BY <1>1 DEF Inv, AnswersTrue
<1>3. /\ updates' \in Seq(Updates)
      /\ stream' # "up" => updates' = <<>>
      /\ \A i \in 1..Len(updates') :
           \/ i \in 1..Len(updates) /\ updates'[i] = updates[i]
           \/ updates'[i].order = o /\ updates'[i].state = "canceled"
  BY PushTraded DEF CancelOrder, Inv, Traded, OrderStates, resultVars
<1>4. UpdatesTrue' /\ AnswersTrue' /\ FilledIsFinal'
  BY <1>1, <1>2, <1>3, ExchangeStep DEF CancelOrder, OrderStates, Settled, resultVars
<1>5. Traded'
  BY <1>1, <1>3 DEF CancelOrder, Inv, Traded, OrderStates, resultVars
<1>6. QED
  BY <1>4, <1>5, StillShaped DEF Inv, CancelOrder, resultVars

----
\* The calls: an answer is what the exchange has done with the order.
LEMMA AnswerInv == ASSUME Inv, NEW o \in Callers, Answer(o) PROVE Inv'
<1>1. Shaped'
  BY ReleaseShaped DEF Answer, Inv, resultVars
<1>2. PICK status \in StatusOfAnswer(exch[o]) : answer' = [answer EXCEPT ![o] = status]
  BY DEF Answer, resultVars
<1>3. status \in Answers /\ (status = "Rejected" => exch[o] = "refused")
  BY DEF StatusOfAnswer, Answers
<1>4. Traded' /\ UpdatesTrue' /\ AnswersTrue' /\ FilledIsFinal'
  BY <1>2, <1>3 DEF Answer, exchangeVars, Inv, Traded, UpdatesTrue, AnswersTrue, FilledIsFinal, Reported, resultVars
<1>5. QED
  BY <1>1, <1>4 DEF Inv

LEMMA CallFailsInv == ASSUME Inv, NEW o \in Callers, CallFails(o) PROVE Inv'
<1>1. Shaped'
  BY ReleaseShaped DEF CallFails, Inv, resultVars
<1>2. Traded' /\ UpdatesTrue' /\ AnswersTrue' /\ FilledIsFinal'
  BY DEF CallFails, exchangeVars, Inv, Traded, UpdatesTrue, AnswersTrue, FilledIsFinal, Reported, Answers, resultVars
<1>3. QED
  BY <1>1, <1>2 DEF Inv

\* A result is appended to those of one order.
LEMMA ReportStep ==
  ASSUME Inv, NEW o \in Callers, NEW st \in Answers \cup {"Filled"}, NEW n \in Nat,
         Report(o, st, n), UNCHANGED exch,
         st = "Filled" => exch[o] = "filled",
         st = "Rejected" => exch[o] \in {"refused", "canceled"}
  PROVE  reports' \in [Callers -> Seq(Results)] /\ queued' \in 0..Capacity /\ FilledIsFinal'
<1> DEFINE r == [status |-> st, filled |-> n]
<1>1. r \in Results /\ r.status = st
  BY DEF Results
<1>2. reports' = [reports EXCEPT ![o] = Append(reports[o], r)]
  BY DEF Report
<1> HIDE DEF r
<1>3. reports \in [Callers -> Seq(Results)]
  BY DEF Inv, Traded
<1>4. reports' \in [Callers -> Seq(Results)]
  BY <1>1, <1>2, <1>3
<1>5. \A p \in Callers : \A s : Reported(p, s)' => Reported(p, s) \/ (p = o /\ s = st)
  <2> SUFFICES ASSUME NEW p \in Callers, NEW s, Reported(p, s)'
               PROVE Reported(p, s) \/ (p = o /\ s = st)
    OBVIOUS
  <2>1. PICK i \in DOMAIN reports'[p] : reports'[p][i].status = s
    BY DEF Reported
  <2>2. CASE p # o
    BY <1>2, <1>3, <2>1, <2>2 DEF Reported
  <2>3. CASE p = o
    <3>1. reports'[p] = Append(reports[o], r) /\ reports[o] \in Seq(Results)
      BY <1>2, <1>3, <2>3
    <3>2. (i \in DOMAIN reports[o] /\ reports'[p][i] = reports[o][i]) \/ reports'[p][i] = r
      BY <2>1, <3>1
    <3>3. QED
      BY <1>1, <2>1, <2>3, <3>2 DEF Reported
  <2>4. QED
    BY <2>2, <2>3
<1>6. FilledIsFinal'
  BY <1>5 DEF Inv, FilledIsFinal
<1>7. queued' \in 0..Capacity
  BY SizeAssumption DEF Report, Inv, Traded
<1>8. QED
  BY <1>4, <1>6, <1>7

LEMMA ReportAnswerInv == ASSUME Inv, NEW o \in Callers, ReportAnswer(o) PROVE Inv'
<1>1. answer[o] \in Answers \cup {"Filled"} /\ answer[o] # "Filled"
  BY DEF Inv, Traded, Answers
<1>2. answer[o] = "Rejected" => exch[o] = "refused"
  BY DEF Inv, AnswersTrue
<1>3. reports' \in [Callers -> Seq(Results)] /\ queued' \in 0..Capacity /\ FilledIsFinal'
  BY <1>1, <1>2, ReportStep DEF ReportAnswer, exchangeVars, resultVars
<1>4. Traded' /\ UpdatesTrue' /\ AnswersTrue'
  BY <1>3 DEF ReportAnswer, exchangeVars, Inv, Traded, UpdatesTrue, AnswersTrue, resultVars
<1>5. InRequest' = InRequest /\ InPermit' = InPermit
  BY DEF ReportAnswer, Inv, Shaped, InRequest, InPermit
<1>6. Shaped'
  BY <1>5 DEF ReportAnswer, Inv, Shaped
<1>7. QED
  BY <1>3, <1>4, <1>6 DEF Inv

----
\* The private stream.
LEMMA ConnectInv == ASSUME Inv, Connect PROVE Inv'
<1>1. Shaped'
  BY StillShaped DEF Inv, Connect, resultVars
<1>2. QED
  BY <1>1 DEF Connect, exchangeVars, Inv, Traded, UpdatesTrue, AnswersTrue, FilledIsFinal, Reported, resultVars

LEMMA StreamEndsInv == ASSUME Inv, StreamEnds PROVE Inv'
<1>1. Shaped'
  BY StillShaped DEF Inv, StreamEnds, resultVars
<1>2. QED
  BY <1>1 DEF StreamEnds, Inv, Traded, UpdatesTrue, AnswersTrue, FilledIsFinal, Reported, resultVars

LEMMA HandleUpdateInv == ASSUME Inv, HandleUpdate PROVE Inv'
<1>1. Shaped'
  BY StillShaped DEF Inv, HandleUpdate
<1> DEFINE u == Head(updates)
<1>2. /\ updates \in Seq(Updates) /\ updates # <<>> /\ u = updates[1] /\ 1 \in 1..Len(updates)
      /\ u \in Updates
  BY DEF HandleUpdate, Inv, Traded
<1>3. /\ u.state = "filled" => exch[u.order] = "filled"
      /\ u.state = "canceled" => exch[u.order] = "canceled"
  BY <1>2 DEF Inv, UpdatesTrue
<1>4. u.order \in Callers /\ FilledQuote(u) \in Nat
  BY <1>2 DEF Updates, FilledQuote
<1>5. /\ StatusOf(u.state) \in Answers \cup {"Filled"}
      /\ StatusOf(u.state) = "Filled" => u.state = "filled"
      /\ StatusOf(u.state) = "Rejected" => u.state = "canceled"
  BY DEF StatusOf, Answers
<1>6. Report(u.order, StatusOf(u.state), FilledQuote(u)) /\ UNCHANGED exch
  BY DEF HandleUpdate
<1>7. reports' \in [Callers -> Seq(Results)] /\ queued' \in 0..Capacity /\ FilledIsFinal'
  <2> HIDE DEF u
  <2>1. QED
    BY <1>3, <1>4, <1>5, <1>6, ReportStep
<1>8. /\ updates' \in Seq(Updates)
      /\ \A i \in 1..Len(updates') : i + 1 \in 1..Len(updates) /\ updates'[i] = updates[i + 1]
  BY <1>2 DEF HandleUpdate
<1>9. Traded'
  BY <1>7, <1>8 DEF HandleUpdate, Inv, Traded
<1>10. UpdatesTrue'
  BY <1>8 DEF HandleUpdate, Inv, UpdatesTrue
<1>11. AnswersTrue'
  BY DEF HandleUpdate, Inv, AnswersTrue
<1>12. QED
  BY <1>1, <1>7, <1>9, <1>10, <1>11 DEF Inv

LEMMA SkipUpdateInv == ASSUME Inv, SkipUpdate PROVE Inv'
<1>1. Shaped'
  BY StillShaped DEF Inv, SkipUpdate
<1>2. updates \in Seq(Updates) /\ updates # <<>> /\ Head(updates) \in Updates
  BY DEF SkipUpdate, Inv, Traded
<1>3. /\ updates' \in Seq(Updates)
      /\ \A i \in 1..Len(updates') : i + 1 \in 1..Len(updates) /\ updates'[i] = updates[i + 1]
  BY <1>2 DEF SkipUpdate
<1>4. skipped' \subseteq Callers
  BY <1>2 DEF SkipUpdate, Inv, Traded, Updates
<1>5. Traded'
  BY <1>3, <1>4 DEF SkipUpdate, resultVars, Inv, Traded
<1>6. UpdatesTrue'
  BY <1>3 DEF SkipUpdate, Inv, UpdatesTrue
<1>7. AnswersTrue' /\ FilledIsFinal'
  BY DEF SkipUpdate, resultVars, Inv, AnswersTrue, FilledIsFinal, Reported
<1>8. QED
  BY <1>1, <1>5, <1>6, <1>7 DEF Inv

LEMMA ConsumeInv == ASSUME Inv, Consume PROVE Inv'
<1>1. Shaped'
  BY StillShaped DEF Inv, Consume
<1>2. queued' \in 0..Capacity
  BY SizeAssumption DEF Consume, Inv, Traded
<1>3. QED
  BY <1>1, <1>2 DEF Consume, exchangeVars, Inv, Traded, UpdatesTrue, AnswersTrue, FilledIsFinal, Reported

----
LEMMA InitInv == Init => Inv
<1> SUFFICES ASSUME Init PROVE Inv
  OBVIOUS
<1>1. Shaped
  BY InitShaped DEF Init
<1>2. Traded
  BY SizeAssumption DEF Init, Traded, OrderStates, Answers
<1>3. UpdatesTrue /\ AnswersTrue /\ FilledIsFinal
  BY DEF Init, UpdatesTrue, AnswersTrue, FilledIsFinal, Reported
<1>4. QED
  BY <1>1, <1>2, <1>3 DEF Inv

LEMMA NextInv == Inv /\ [Next]_vars => Inv'
<1> SUFFICES ASSUME Inv, [Next]_vars PROVE Inv'
  OBVIOUS
<1>1. ASSUME NEW o \in Callers, Shape(o), UNCHANGED <<exchangeVars, stream, answer, resultVars, skipped>>
      PROVE Inv'
  <2>1. Shaped'
    BY <1>1, BeginShaped, LockMapShaped, AcquireShaped DEF Shape, Inv
  <2>2. QED
    BY <1>1, <2>1 DEF exchangeVars, Inv, Traded, UpdatesTrue, AnswersTrue, FilledIsFinal, Reported, resultVars
<1>2. ASSUME NEW o \in Callers, Call(o) PROVE Inv'
  BY <1>1, <1>2, AnswerInv, CallFailsInv, ReportAnswerInv DEF Call
<1>3. ASSUME NEW o \in Callers, Exchange(o) PROVE Inv'
  BY <1>3, TakeOrderInv, RefuseOrderInv, FillInv, CancelInv DEF Exchange
<1>4. CASE UNCHANGED vars
  <2>1. Shaped'
    BY <1>4, StillShaped DEF vars, Inv, resultVars
  <2>2. QED
    BY <1>4, <2>1 DEF vars, exchangeVars, Inv, Traded, UpdatesTrue, AnswersTrue, FilledIsFinal, Reported, resultVars
<1>5. QED
  BY <1>2, <1>3, <1>4, ConnectInv, StreamEndsInv, HandleUpdateInv, SkipUpdateInv, ConsumeInv
     DEF Next, StreamTask

LEMMA Invariant == Spec => []Inv
BY InitInv, NextInv, PTL DEF Spec

\* execute and the private stream keep their types: the permits in the
\* semaphore are those not out with a request, and one caller holds the mutex.
THEOREM Types == Spec => []TypeOK
<1>1. Inv => TypeOK
  <2> SUFFICES ASSUME Inv PROVE TypeOK
    OBVIOUS
  <2>1. \A n \in limit : permits = n - Cardinality({c \in Callers : tpc[c] = "request"})
    BY DEF Inv, Shaped, InRequest
  <2>2. QED
    BY <2>1 DEF Inv, Shaped, Traded, TypeOK, InPermit, Answers
<1>2. QED
  BY <1>1, Invariant, PTL

\* acquire_permit keeps to max_parallel_requests_per_target.
THEOREM LimitKept == Spec => []LimitRespected
<1>1. Inv => LimitRespected
  <2> SUFFICES ASSUME Inv, NEW n \in limit PROVE Cardinality(InRequest) <= n
    BY DEF LimitRespected, InRequest
  <2>1. Cardinality(InRequest) \in Nat /\ permits \in Nat /\ n \in Nat
    BY FS_CardinalityType, LimitsAssumption DEF Inv, Shaped
  <2>2. permits = n - Cardinality(InRequest)
    BY DEF Inv, Shaped
  <2>3. QED
    BY <2>1, <2>2
<1>2. QED
  BY <1>1, Invariant, PTL

\* What handle_text and handle_command report as filled is filled at the
\* exchange, and what they report as rejected is refused or canceled there.
THEOREM FinalReports == Spec => []FilledIsFinal
<1>1. Inv => FilledIsFinal
  BY DEF Inv
<1>2. QED
  BY <1>1, Invariant, PTL

----
\* The sum of a sequence of numbers, a function defined by recursion: that it is
\* defined, and what one more and one less element do to it.

\* Induction up to n, over a set.
LEMMA UpTo ==
  ASSUME NEW n \in Nat, NEW S, 0 \in S, \A i \in 1..n : i - 1 \in S => i \in S
  PROVE  \A i \in 0..n : i \in S
<1> DEFINE B == (0..n) \ S
<1> SUFFICES B = {}
  OBVIOUS
<1>1. SUFFICES ASSUME B # {} PROVE FALSE
  OBVIOUS
<1>2. B \subseteq Nat
  OBVIOUS
<1>3. PICK i \in B : \A j \in B : ~(<<j, i>> \in OpToRel(<, Nat))
  BY <1>1, <1>2, NatLessThanWellFounded, WFMin
<1>4. \A j \in B : ~(j < i)
  BY <1>2, <1>3 DEF OpToRel
<1>5. i \in 1..n /\ i - 1 \in 0..n /\ i - 1 \notin B
  BY <1>4
<1>6. QED
  BY <1>5

\* f[i] is the sum of the first i elements of s, for i up to n.
PartialSums(f, s, n) ==
  /\ f \in [0..n -> Int]
  /\ f[0] = 0
  /\ \A i \in 1..n : f[i] = f[i - 1] + s[i]

\* One element more.
LEMMA SumsExtend ==
  ASSUME NEW s, NEW k \in Nat \ {0}, s[k] \in Int, NEW f, PartialSums(f, s, k - 1)
  PROVE  PartialSums([i \in 0..k |-> IF i = k THEN f[k - 1] + s[k] ELSE f[i]], s, k)
<1> DEFINE g == [i \in 0..k |-> IF i = k THEN f[k - 1] + s[k] ELSE f[i]]
<1>1. /\ f \in [0..(k - 1) -> Int] /\ f[0] = 0
      /\ \A i \in 1..(k - 1) : f[i] = f[i - 1] + s[i]
  BY DEF PartialSums
<1>2. g \in [0..k -> Int] /\ g[0] = 0
  BY <1>1
<1>3. ASSUME NEW i \in 1..k PROVE g[i] = g[i - 1] + s[i]
  <2>1. i - 1 \in 0..(k - 1) /\ g[i - 1] = f[i - 1]
    OBVIOUS
  <2>2. CASE i = k
    BY <2>1, <2>2
  <2>3. CASE i # k
    BY <1>1, <2>1, <2>3
  <2>4. QED
    BY <2>2, <2>3
<1>4. QED
  <2> HIDE DEF g
  <2>1. PartialSums(g, s, k)
    BY <1>2, <1>3 DEF PartialSums
  <2>2. QED
    BY <2>1 DEF g

\* There are sums of every sequence.
LEMMA SumsExist ==
  ASSUME NEW s \in Seq(Int) PROVE \E f : PartialSums(f, s, Len(s))
<1> DEFINE n == Len(s)
           S == {k \in 0..n : \E f : PartialSums(f, s, k)}
<1>1. n \in Nat /\ \A i \in 1..n : s[i] \in Int
  OBVIOUS
<1>2. PartialSums([i \in 0..0 |-> 0], s, 0)
  BY DEF PartialSums
<1>3. 0 \in S
  BY <1>1, <1>2
<1>4. ASSUME NEW k \in 1..n, k - 1 \in S PROVE k \in S
  <2>1. k \in Nat \ {0} /\ s[k] \in Int
    BY <1>1
  <2>2. PICK f : PartialSums(f, s, k - 1)
    BY <1>4
  <2>3. \E g : PartialSums(g, s, k)
    BY <2>1, <2>2, SumsExtend
  <2>4. QED
    BY <1>1, <2>3
<1>5. \A k \in 0..n : k \in S
  <2> HIDE DEF S
  <2> QED BY <1>1, <1>3, <1>4, UpTo
<1>6. QED
  BY <1>1, <1>5

\* SumOf is the last of them, whichever function CHOOSE picks.
LEMMA SumIs ==
  ASSUME NEW s, Len(s) \in Nat, NEW f, PartialSums(f, s, Len(s))
  PROVE  SumOf(s) = f[Len(s)] /\ SumOf(s) \in Int
<1> DEFINE n == Len(s)
           Step(h) == [i \in 0..n |-> IF i = 0 THEN 0 ELSE h[i - 1] + s[i]]
           sum == CHOOSE h : h = Step(h)
<1>1. f = Step(f)
  BY DEF PartialSums
<1>2. sum = Step(sum)
  BY <1>1
<1>3. SumOf(s) = sum[n]
  BY DEF SumOf
<1> DEFINE S == {i \in 0..n : sum[i] = f[i]}
<1>4. \A i \in 0..n : i \in S
  <2> HIDE DEF sum
  <2>1. \A i \in 0..n : sum[i] = IF i = 0 THEN 0 ELSE sum[i - 1] + s[i]
    BY <1>2, Zenon
  <2>2. \A i \in 0..n : f[i] = IF i = 0 THEN 0 ELSE f[i - 1] + s[i]
    BY <1>1, Zenon
  <2>3. 0 \in S /\ \A i \in 1..n : i - 1 \in S => i \in S
    BY <2>1, <2>2
  <2> HIDE DEF S
  <2>4. QED
    BY <2>3, UpTo
<1>5. QED
  <2> HIDE DEF sum
  <2>1. sum[n] = f[n] /\ f[n] \in Int
    BY <1>4 DEF PartialSums
  <2>2. QED
    BY <1>3, <2>1

\* No element, no sum.
LEMMA SumNone == ASSUME NEW s, Len(s) = 0 PROVE SumOf(s) = 0
<1>1. PartialSums([i \in 0..0 |-> 0], s, Len(s))
  BY DEF PartialSums
<1>2. QED
  BY <1>1, SumIs

\* A last element adds its size.
LEMMA SumMore ==
  ASSUME NEW s \in Seq(Int), NEW r \in Seq(Int),
         Len(r) = Len(s) + 1, \A i \in 1..Len(s) : r[i] = s[i]
  PROVE  SumOf(s) \in Int /\ SumOf(r) = SumOf(s) + r[Len(r)]
<1> DEFINE n == Len(s)
<1>1. n \in Nat /\ n + 1 \in Nat \ {0} /\ (n + 1) - 1 = n /\ r[n + 1] \in Int
  OBVIOUS
<1>2. PICK f : PartialSums(f, s, n)
  BY SumsExist
<1>3. PartialSums(f, r, n)
  BY <1>2 DEF PartialSums
<1> DEFINE g == [i \in 0..(n + 1) |-> IF i = n + 1 THEN f[n] + r[n + 1] ELSE f[i]]
<1>4. PartialSums(g, r, n + 1)
  BY <1>1, <1>3, SumsExtend
<1>5. SumOf(s) = f[n] /\ SumOf(s) \in Int
  BY <1>1, <1>2, SumIs
<1>6. SumOf(r) = g[n + 1]
  <2> HIDE DEF g
  <2> QED BY <1>1, <1>4, SumIs
<1>7. QED
  BY <1>1, <1>5, <1>6

\* Without its first element a sequence loses that.
LEMMA SumLess ==
  ASSUME NEW s \in Seq(Int), NEW r \in Seq(Int), Len(s) # 0,
         Len(r) = Len(s) - 1, \A i \in 1..Len(r) : r[i] = s[i + 1]
  PROVE  SumOf(s) \in Int /\ SumOf(r) = SumOf(s) - s[1]
<1> DEFINE n == Len(r)
<1>1. n \in Nat /\ Len(s) = n + 1 /\ s[1] \in Int /\ \A i \in 1..n : r[i] \in Int
  OBVIOUS
<1>2. PICK f : PartialSums(f, s, n + 1)
  BY <1>1, SumsExist
<1>3. /\ f \in [0..(n + 1) -> Int] /\ f[0] = 0
      /\ \A i \in 1..(n + 1) : f[i] = f[i - 1] + s[i]
  BY <1>2 DEF PartialSums
<1>4. f[1] = s[1]
  <2>1. 1 \in 1..(n + 1) /\ 1 - 1 = 0
    BY <1>1
  <2>2. f[1] = f[1 - 1] + s[1]
    BY <1>3, <2>1
  <2>3. QED
    BY <1>1, <1>3, <2>1, <2>2
<1> DEFINE g == [i \in 0..n |-> f[i + 1] - f[1]]
<1>5. PartialSums(g, r, n)
  <2>1. g \in [0..n -> Int] /\ g[0] = 0
    BY <1>1, <1>3
  <2>2. ASSUME NEW i \in 1..n PROVE g[i] = g[i - 1] + r[i]
    <3>1. /\ i + 1 \in 1..(n + 1) /\ (i + 1) - 1 = i /\ (i - 1) + 1 = i
          /\ i \in 0..n /\ i - 1 \in 0..n
      BY <1>1
    <3>2. f[i + 1] = f[i] + s[i + 1] /\ r[i] = s[i + 1]
      <4>1. f[i + 1] = f[(i + 1) - 1] + s[i + 1]
        BY <1>3, <3>1
      <4>2. QED
        BY <3>1, <4>1
    <3>3. g[i] = f[i + 1] - f[1] /\ g[i - 1] = f[i] - f[1]
      BY <3>1
    <3>4. f[i] \in Int /\ f[1] \in Int /\ s[i + 1] \in Int
      <4>1. i \in 0..(n + 1) /\ 1 \in 0..(n + 1) /\ i + 1 \in 0..(n + 1)
        BY <1>1
      <4>2. QED
        BY <1>1, <1>3, <3>1, <4>1
    <3>5. f[i + 1] - f[1] = (f[i] - f[1]) + s[i + 1]
      <4>1. \A a, b, c \in Int : (a + c) - b = (a - b) + c
        OBVIOUS
      <4>2. (f[i] + s[i + 1]) - f[1] = (f[i] - f[1]) + s[i + 1]
        BY <3>4, <4>1, Zenon
      <4>3. QED
        BY <3>2, <4>2, Zenon
    <3>6. QED
      BY <3>2, <3>3, <3>5, Zenon
  <2> HIDE DEF g
  <2>3. QED
    BY <2>1, <2>2 DEF PartialSums
<1>6. SumOf(s) = f[n + 1] /\ SumOf(s) \in Int
  BY <1>1, <1>2, SumIs
<1>7. SumOf(r) = g[n]
  <2> HIDE DEF g
  <2> QED BY <1>1, <1>5, SumIs
<1>8. g[n] = f[n + 1] - f[1]
  BY <1>1
<1>9. QED
  BY <1>4, <1>6, <1>7, <1>8

\* A sum of sizes is not negative.
LEMMA SumNat == ASSUME NEW s \in Seq(Nat) PROVE SumOf(s) \in Nat
<1> DEFINE n == Len(s)
<1>1. n \in Nat /\ s \in Seq(Int) /\ \A i \in 1..n : s[i] \in Nat
  OBVIOUS
<1>2. PICK f : PartialSums(f, s, n)
  BY <1>1, SumsExist
<1> DEFINE S == {i \in 0..n : f[i] \in Nat}
<1>3. 0 \in S /\ \A i \in 1..n : i - 1 \in S => i \in S
  <2>1. f[0] = 0 /\ \A i \in 1..n : f[i] = f[i - 1] + s[i] /\ i - 1 \in 0..n
    BY <1>2 DEF PartialSums
  <2>2. 0 \in 0..n /\ \A i \in 1..n : i \in 0..n
    BY <1>1
  <2>3. QED
    BY <1>1, <2>1, <2>2
<1>4. \A i \in 0..n : i \in S
  <2> HIDE DEF S
  <2> QED BY <1>1, <1>3, UpTo
<1>5. QED
  BY <1>1, <1>2, <1>4, SumIs

----
\* The sizes reported and still to be read.

LEMMA NumbersAre ==
  ASSUME NEW n \in Nat, NEW s \in [1..n -> Nat]
  PROVE  s \in Seq(Nat) /\ s \in Seq(Int) /\ Len(s) = n
<1>1. s \in Seq(Nat)
  BY SeqDef
<1>2. Len(s) = n
  BY <1>1, LenProperties
<1>3. QED
  BY <1>1, <1>2

LEMMA FilledAre ==
  ASSUME NEW q \in Seq(Results), NEW s, s = [i \in 1..Len(q) |-> q[i].filled]
  PROVE  s \in Seq(Nat) /\ s \in Seq(Int) /\ Len(s) = Len(q)
<1>1. Len(q) \in Nat /\ \A i \in 1..Len(q) : q[i] \in Results
  OBVIOUS
<1>2. s \in [1..Len(q) -> Nat]
  BY <1>1 DEF Results
<1>3. QED
  BY <1>1, <1>2, NumbersAre

LEMMA UnreadAre ==
  ASSUME NEW q \in Seq(Updates)
  PROVE  Len(q) \in Nat /\ \A i \in 1..Len(q) : q[i].fillSz \in Nat
<1>1. Len(q) \in Nat /\ \A i \in 1..Len(q) : q[i] \in Updates
  OBVIOUS
<1>2. QED
  BY <1>1 DEF Updates

LEMMA SizesAre ==
  ASSUME Traded, NEW o \in Callers
  PROVE  /\ ReportedSizes(o) \in Seq(Nat)
         /\ Len(ReportedSizes(o)) = Len(reports[o])
         /\ UnreadSizes(o) \in Seq(Nat)
         /\ Len(UnreadSizes(o)) = Len(updates)
<1>1. reports[o] \in Seq(Results) /\ updates \in Seq(Updates)
  BY DEF Traded
<1> DEFINE s == ReportedSizes(o)
           r == UnreadSizes(o)
<1>2. s = [i \in 1..Len(reports[o]) |-> reports[o][i].filled]
  BY DEF ReportedSizes
<1>3. s \in Seq(Nat) /\ Len(s) = Len(reports[o])
  <2> HIDE DEF s
  <2> QED BY <1>1, <1>2, FilledAre
<1>4. r \in Seq(Nat) /\ Len(r) = Len(updates)
  <2>1. Len(updates) \in Nat /\ r \in [1..Len(updates) -> Nat]
    BY <1>1, UnreadAre DEF UnreadSizes
  <2> HIDE DEF r
  <2>2. QED
    BY <2>1, NumbersAre
<1>5. QED
  BY <1>3, <1>4

\* What is reported and unread of an order does not grow beyond what is filled.
Counted(o) == SumOf(ReportedSizes(o)) + SumOf(UnreadSizes(o)) <= fills[o]

LEMMA ReportCounts ==
  ASSUME Traded, Traded', NEW o \in Callers, NEW st, NEW n \in Nat, Report(o, st, n),
         NEW p \in Callers
  PROVE  /\ SumOf(ReportedSizes(p)) \in Int
         /\ SumOf(ReportedSizes(p)') = SumOf(ReportedSizes(p)) + (IF p = o THEN n ELSE 0)
<1> DEFINE s == ReportedSizes(p)
           r == ReportedSizes(p)'
<1>1. s \in Seq(Int) /\ r \in Seq(Int) /\ Len(s) = Len(reports[p]) /\ Len(r) = Len(reports'[p])
  <2>1. reports[p] \in Seq(Results) /\ reports'[p] \in Seq(Results)
    BY DEF Traded
  <2>2. QED
    BY <2>1, FilledAre DEF ReportedSizes
<1>2. CASE p = o
  <2>1. /\ reports[p] \in Seq(Results)
        /\ reports'[p] = Append(reports[p], [status |-> st, filled |-> n])
    BY <1>2 DEF Report, Traded
  <2>2. Len(reports'[p]) = Len(reports[p]) + 1
    BY <2>1
  <2>3. \A i \in 1..Len(reports[p]) : reports'[p][i] = reports[p][i]
    BY <2>1
  <2>4. reports'[p][Len(reports'[p])].filled = n
    BY <2>1
  <2>5. \A i \in 1..Len(s) : r[i] = s[i]
    BY <1>1, <2>2, <2>3 DEF ReportedSizes
  <2>6. r[Len(r)] = n
    BY <1>1, <2>1, <2>2, <2>4 DEF ReportedSizes
  <2> HIDE DEF s, r
  <2>7. SumOf(s) \in Int /\ SumOf(r) = SumOf(s) + n
    BY <1>1, <2>2, <2>5, <2>6, SumMore
  <2>8. QED
    BY <1>2, <2>7 DEF s, r
<1>3. CASE p # o
  <2>1. reports'[p] = reports[p]
    BY <1>3 DEF Report, Traded
  <2>2. r = s
    BY <2>1 DEF ReportedSizes
  <2>3. SumOf(s) \in Nat
    BY SizesAre, SumNat
  <2>4. QED
    BY <1>3, <2>2, <2>3
<1>4. QED
  BY <1>2, <1>3

LEMMA PushCounts ==
  ASSUME Traded, Traded', NEW o \in Callers, NEW st \in OrderStates, NEW n \in Nat,
         Push(o, st, n), NEW p \in Callers
  PROVE  /\ SumOf(UnreadSizes(p)) \in Int
         /\ SumOf(UnreadSizes(p)') \in Int
         /\ SumOf(UnreadSizes(p)') <= SumOf(UnreadSizes(p)) + (IF p = o THEN n ELSE 0)
<1> DEFINE s == UnreadSizes(p)
           r == UnreadSizes(p)'
<1>0. updates \in Seq(Updates) /\ updates' \in Seq(Updates)
  BY DEF Traded
<1>1. /\ Len(updates) \in Nat /\ s \in [1..Len(updates) -> Nat]
      /\ Len(updates') \in Nat /\ r \in [1..Len(updates') -> Nat]
  BY <1>0, UnreadAre DEF UnreadSizes
<1>2. /\ s \in Seq(Int) /\ Len(s) = Len(updates) /\ SumOf(s) \in Nat
      /\ r \in Seq(Int) /\ Len(r) = Len(updates') /\ SumOf(r) \in Nat
  <2> HIDE DEF s, r
  <2> QED BY <1>1, NumbersAre, SumNat
<1>3. CASE stream = "up"
  <2> DEFINE u == [order |-> o, state |-> st, fillSz |-> n]
  <2>1. updates \in Seq(Updates) /\ updates' = Append(updates, u)
    BY <1>3 DEF Push, Traded
  <2>2. Len(updates') = Len(updates) + 1
    BY <2>1
  <2>3. \A i \in 1..Len(updates) : updates'[i] = updates[i]
    BY <2>1
  <2>4. updates'[Len(updates')] = u
    BY <2>1
  <2>5. \A i \in 1..Len(s) : r[i] = s[i]
    BY <1>2, <2>2, <2>3 DEF UnreadSizes
  <2>6. r[Len(r)] = IF p = o THEN n ELSE 0
    BY <1>2, <2>1, <2>2, <2>4 DEF UnreadSizes
  <2> HIDE DEF s, r
  <2>7. SumOf(r) = SumOf(s) + r[Len(r)]
    BY <1>2, <2>2, <2>5, SumMore
  <2>8. QED
    BY <1>2, <2>6, <2>7 DEF s, r
<1>4. CASE stream # "up"
  <2>1. r = s
    BY <1>4 DEF Push, UnreadSizes
  <2>2. QED
    BY <1>2, <2>1
<1>5. QED
  BY <1>3, <1>4

\* Reading an update takes its size out of one sum.
LEMMA ReadCounts ==
  ASSUME Traded, Traded', updates # <<>>, updates' = Tail(updates), NEW p \in Callers
  PROVE  /\ Head(updates).order \in Callers /\ Head(updates).fillSz \in Nat
         /\ SumOf(UnreadSizes(p)) \in Nat
         /\ SumOf(UnreadSizes(p)') =
              SumOf(UnreadSizes(p)) - (IF p = Head(updates).order THEN Head(updates).fillSz ELSE 0)
<1> DEFINE u == Head(updates)
           s == UnreadSizes(p)
           r == UnreadSizes(p)'
           n == IF p = u.order THEN u.fillSz ELSE 0
<1>1. /\ updates \in Seq(Updates) /\ updates # <<>> /\ u = updates[1] /\ u \in Updates
      /\ updates' = Tail(updates)
  BY DEF Traded
<1>2. u.order \in Callers /\ u.fillSz \in Nat /\ n \in Nat
  BY <1>1 DEF Updates
<1>3. s \in Seq(Int) /\ r \in Seq(Int) /\ Len(s) = Len(updates) /\ Len(r) = Len(updates')
  <2>1. updates \in Seq(Updates) /\ updates' \in Seq(Updates)
    BY DEF Traded
  <2>2. /\ Len(updates) \in Nat /\ s \in [1..Len(updates) -> Nat]
        /\ Len(updates') \in Nat /\ r \in [1..Len(updates') -> Nat]
    BY <2>1, UnreadAre DEF UnreadSizes
  <2> HIDE DEF s, r
  <2>3. QED
    BY <2>2, NumbersAre
<1>4. Len(updates) # 0 /\ Len(updates') = Len(updates) - 1
  BY <1>1
<1>5. \A i \in 1..Len(updates') : updates'[i] = updates[i + 1] /\ i + 1 \in 1..Len(updates)
  BY <1>1
<1>6. \A i \in 1..Len(r) : r[i] = s[i + 1]
  BY <1>3, <1>5 DEF UnreadSizes
<1>7. s[1] = n
  BY <1>1, <1>4 DEF UnreadSizes
<1>8. SumOf(s) \in Int /\ SumOf(r) = SumOf(s) - n
  <2> HIDE DEF s, r, n
  <2> QED BY <1>3, <1>4, <1>6, <1>7, SumLess
<1>9. SumOf(s) \in Nat
  BY SizesAre, SumNat
<1>10. QED
  BY <1>2, <1>8, <1>9

\* Reported, its size goes to the other.
LEMMA UpdateCounts ==
  ASSUME Traded, Traded', HandleUpdate, NEW p \in Callers, Counted(p)
  PROVE  Counted(p)'
<1> DEFINE u == Head(updates)
           n == IF p = u.order THEN u.fillSz ELSE 0
<1>1. /\ u.order \in Callers /\ u.fillSz \in Nat /\ SumOf(UnreadSizes(p)) \in Nat
      /\ SumOf(UnreadSizes(p)') = SumOf(UnreadSizes(p)) - n
  BY ReadCounts DEF HandleUpdate
<1>2. n \in Nat
  BY <1>1
<1>3. /\ SumOf(ReportedSizes(p)) \in Int
      /\ SumOf(ReportedSizes(p)') = SumOf(ReportedSizes(p)) + n
  <2>1. Report(u.order, StatusOf(u.state), u.fillSz)
    BY DEF HandleUpdate, FilledQuote
  <2> HIDE DEF u
  <2>2. QED
    BY <1>1, <2>1, ReportCounts
<1>4. QED
  <2> HIDE DEF u, n
  <2>1. SumOf(ReportedSizes(p)') + SumOf(UnreadSizes(p)')
          = SumOf(ReportedSizes(p)) + SumOf(UnreadSizes(p))
    BY <1>1, <1>2, <1>3
  <2>2. fills' = fills
    BY DEF HandleUpdate
  <2>3. QED
    BY <2>1, <2>2 DEF Counted

\* Skipped, it is in neither.
LEMMA SkipCounts ==
  ASSUME Traded, Traded', SkipUpdate, NEW p \in Callers, Counted(p)
  PROVE  Counted(p)'
<1> DEFINE n == IF p = Head(updates).order THEN Head(updates).fillSz ELSE 0
<1>1. /\ SumOf(UnreadSizes(p)) \in Nat /\ n \in Nat
      /\ SumOf(UnreadSizes(p)') = SumOf(UnreadSizes(p)) - n
  BY ReadCounts DEF SkipUpdate
<1>2. ReportedSizes(p)' = ReportedSizes(p) /\ fills' = fills
  BY DEF SkipUpdate, resultVars, ReportedSizes
<1>3. SumOf(ReportedSizes(p)) \in Nat /\ fills[p] \in Nat
  <2>1. SumOf(ReportedSizes(p)) \in Nat
    BY SizesAre, SumNat
  <2>2. QED
    BY <2>1, SizeAssumption DEF Traded
<1>4. QED
  <2> HIDE DEF n
  <2>1. SumOf(ReportedSizes(p)) + SumOf(UnreadSizes(p)') <= fills[p]
    BY <1>1, <1>3 DEF Counted
  <2>2. QED
    BY <1>2, <2>1 DEF Counted

\* The exchange pushes no more than it fills.
LEMMA ExchangeCounts ==
  ASSUME Traded, Traded', NEW o \in Callers, Exchange(o), NEW p \in Callers, Counted(p)
  PROVE  Counted(p)'
<1>1. ReportedSizes(p)' = ReportedSizes(p)
  BY DEF Exchange, TakeOrder, RefuseOrder, Fill, CancelOrder, ReportedSizes, resultVars
<1>2. SumOf(ReportedSizes(p)) \in Nat /\ fills[p] \in Nat /\ fills'[p] \in Nat
  <2>1. SumOf(ReportedSizes(p)) \in Nat
    BY SizesAre, SumNat
  <2>2. QED
    BY <2>1, SizeAssumption DEF Traded
<1>3. ASSUME NEW st \in OrderStates, NEW n \in Nat, Push(o, st, n),
             fills'[p] = fills[p] + (IF p = o THEN n ELSE 0)
      PROVE  Counted(p)'
  <2>1. /\ SumOf(UnreadSizes(p)) \in Int /\ SumOf(UnreadSizes(p)') \in Int
        /\ SumOf(UnreadSizes(p)') <= SumOf(UnreadSizes(p)) + (IF p = o THEN n ELSE 0)
    BY <1>3, PushCounts
  <2>2. SumOf(ReportedSizes(p)) + SumOf(UnreadSizes(p)') <= fills'[p]
    BY <1>2, <1>3, <2>1 DEF Counted
  <2>3. QED
    BY <1>1, <2>2 DEF Counted
<1>4. CASE TakeOrder(o)
  <2>1. Push(o, "live", 0) /\ fills' = fills
    BY <1>4 DEF TakeOrder, resultVars
  <2>2. QED
    BY <1>2, <1>3, <2>1 DEF OrderStates
<1>5. CASE CancelOrder(o)
  <2>1. Push(o, "canceled", 0) /\ fills' = fills
    BY <1>5 DEF CancelOrder, resultVars
  <2>2. QED
    BY <1>2, <1>3, <2>1 DEF OrderStates
<1>6. CASE RefuseOrder(o)
  BY <1>1, <1>6 DEF RefuseOrder, Counted, UnreadSizes, resultVars
<1>7. CASE Fill(o)
  <2>1. PICK n \in 1..(Size - fills[o]) :
          /\ fills' = [fills EXCEPT ![o] = @ + n]
          /\ \E st \in OrderStates : Push(o, st, n)
    BY <1>7 DEF Fill, OrderStates, resultVars
  <2>2. n \in Nat /\ fills'[p] = fills[p] + (IF p = o THEN n ELSE 0)
    BY <1>2, <2>1 DEF Traded
  <2>3. QED
    BY <1>3, <2>1, <2>2
<1>8. QED
  BY <1>4, <1>5, <1>6, <1>7 DEF Exchange

\* handle_command and handle_text report no more than what the exchange filled:
\* no fill twice, however many updates an order has and whatever becomes of its
\* REST call.
THEOREM NoFillTwice == Spec => []ReportsWithinFills
<1>1. Init => ReportsWithinFills
  <2> SUFFICES ASSUME Init, NEW o \in Callers PROVE Counted(o)
    BY DEF ReportsWithinFills, Counted
  <2>1. Traded
    BY InitInv DEF Inv
  <2>2. Len(ReportedSizes(o)) = 0 /\ Len(UnreadSizes(o)) = 0
    BY <2>1, SizesAre DEF Init
  <2>3. fills[o] = 0
    BY DEF Init
  <2>4. QED
    BY <2>2, <2>3, SumNone DEF Counted
<1>2. Inv /\ Inv' /\ ReportsWithinFills /\ [Next]_vars => ReportsWithinFills'
  <2> SUFFICES ASSUME Inv, Inv', ReportsWithinFills, [Next]_vars, NEW p \in Callers
               PROVE Counted(p)'
    BY DEF ReportsWithinFills, Counted
  <2>1. Traded /\ Traded' /\ Counted(p)
    BY DEF Inv, ReportsWithinFills, Counted
  <2>2. CASE UNCHANGED <<fills, updates, reports>>
    BY <2>1, <2>2 DEF Counted, ReportedSizes, UnreadSizes
  <2>3. ASSUME NEW o \in Callers, Call(o) PROVE Counted(p)'
    <3>1. CASE ReportAnswer(o)
      <4>1. Report(o, answer[o], 0) /\ UNCHANGED <<fills, updates>>
        BY <3>1 DEF ReportAnswer, exchangeVars, resultVars
      <4>2. /\ SumOf(ReportedSizes(p)) \in Int
            /\ SumOf(ReportedSizes(p)') = SumOf(ReportedSizes(p)) + (IF p = o THEN 0 ELSE 0)
        BY <2>1, <4>1, ReportCounts
      <4>3. SumOf(ReportedSizes(p)') = SumOf(ReportedSizes(p))
        BY <4>2
      <4>4. UnreadSizes(p)' = UnreadSizes(p)
        BY <4>1 DEF UnreadSizes
      <4>5. QED
        BY <2>1, <4>1, <4>3, <4>4 DEF Counted
    <3>2. CASE ~ReportAnswer(o)
      BY <2>2, <2>3, <3>2 DEF Call, Answer, CallFails, exchangeVars, resultVars
    <3>3. QED
      BY <3>1, <3>2
  <2>4. CASE StreamEnds
    <3>1. ReportedSizes(p)' = ReportedSizes(p) /\ fills' = fills /\ updates' = <<>>
      BY <2>4 DEF StreamEnds, ReportedSizes, resultVars
    <3>2. SumOf(UnreadSizes(p)') = 0
      <4>1. Len(UnreadSizes(p)') = 0
        <5>1. updates' \in Seq(Updates) /\ Len(updates') = 0
          BY <3>1
        <5> DEFINE r == UnreadSizes(p)'
        <5>2. Len(updates') \in Nat /\ r \in [1..Len(updates') -> Nat]
          BY <5>1, UnreadAre DEF UnreadSizes
        <5> HIDE DEF r
        <5>3. Len(r) = 0
          BY <5>1, <5>2, NumbersAre
        <5>4. QED
          BY <5>3 DEF r
      <4>2. QED
        BY <4>1, SumNone
    <3>3. SumOf(UnreadSizes(p)) \in Nat /\ SumOf(ReportedSizes(p)) \in Nat
      BY <2>1, SizesAre, SumNat
    <3>4. fills[p] \in Nat
      BY <2>1, SizeAssumption DEF Traded
    <3>5. SumOf(ReportedSizes(p)) + 0 <= fills[p]
      BY <2>1, <3>3, <3>4 DEF Counted
    <3>6. QED
      BY <3>1, <3>2, <3>5 DEF Counted
  <2>5. CASE Connect
    BY <2>2, <2>5 DEF Connect, exchangeVars, resultVars
  <2>6. QED
    <3>1. Consume \/ UNCHANGED vars => UNCHANGED <<fills, updates, reports>>
      BY DEF Consume, vars, exchangeVars, resultVars
    <3>2. QED
      BY <2>1, <2>2, <2>3, <2>4, <2>5, <3>1, UpdateCounts, SkipCounts, ExchangeCounts
         DEF Next, StreamTask
<1>3. QED
  BY <1>1, <1>2, Invariant, PTL DEF Spec
====
