---- MODULE LiveTrading ----
(***************************************************************************)
(* Orders on their way to the OKX exchange (w2uos-exec/src/okx.rs): a REST  *)
(* call per order (place_order through the traffic shaper), and a private   *)
(* web socket on which the exchange reports what becomes of them. The two   *)
(* race: an order may be filled before its REST answer is in.               *)
(*                                                                          *)
(* A caller is an order. The execution service's task has one call under   *)
(* way at a time; the calls of several tasks include those of one. The      *)
(* exchange is external: it takes or refuses an order, fills it in parts,   *)
(* and pushes each change of state with the size of the last fill only.     *)
(* Whatever waits for room in orders.result waits in the bus; here it is    *)
(* taken that its consumers drain it, which BusChannels says when they do.  *)
(***************************************************************************)
EXTENDS TrafficShaper, Integers, SequencesExt

CONSTANTS
  Size,       \* size of an order, in the parts it is filled in
  Capacity    \* capacity of a channel of the bus, 1024 in the code

ASSUME SizeAssumption == Size \in Nat \ {0} /\ Capacity \in Nat \ {0}

VARIABLES
  exch,       \* external: the order at the exchange
  fills,      \* external: how much of it is filled
  updates,    \* external: pushed on the web socket, not read yet
  stream,     \* OkxPrivateStream: "down", "up" or "ended"
  answer,     \* what the REST call of an order returned
  reports,    \* the OrderResults published for an order, in order
  queued,     \* how many of them are in orders.result
  skipped     \* history: the orders whose last fill was pushed and not read

exchangeVars == <<exch, fills, updates>>
resultVars == <<reports, queued>>
vars == <<shaperVars, exchangeVars, stream, answer, resultVars, skipped>>

Init ==
  /\ ShaperInit
  /\ exch = [o \in Callers |-> "none"]
  /\ fills = [o \in Callers |-> 0]
  /\ updates = <<>>
  /\ stream = "down"
  /\ answer = [o \in Callers |-> "none"]
  /\ reports = [o \in Callers |-> <<>>]
  /\ queued = 0
  /\ skipped = {}

----
\* The exchange. It pushes to a stream that is up; there is no replay.
Push(o, state, size) ==
  updates' = IF stream = "up" THEN Append(updates, [order |-> o, state |-> state, fillSz |-> size])
             ELSE updates

\* The request may still arrive after its caller has given up.
OnItsWay(o) == exch[o] = "none" /\ (tpc[o] = "request" \/ answer[o] = "Err")

TakeOrder(o) ==
  /\ OnItsWay(o)
  /\ exch' = [exch EXCEPT ![o] = "live"]
  /\ Push(o, "live", 0)
  /\ UNCHANGED <<shaperVars, fills, stream, answer, resultVars, skipped>>

RefuseOrder(o) ==
  /\ OnItsWay(o)
  /\ exch' = [exch EXCEPT ![o] = "refused"]
  /\ UNCHANGED <<shaperVars, fills, updates, stream, answer, resultVars, skipped>>

Fill(o) ==
  /\ exch[o] \in {"live", "partially_filled"}
  /\ \E n \in 1..(Size - fills[o]) :
       LET state == IF fills[o] + n = Size THEN "filled" ELSE "partially_filled"
       IN /\ fills' = [fills EXCEPT ![o] = @ + n]
          /\ exch' = [exch EXCEPT ![o] = state]
          /\ Push(o, state, n)
  /\ UNCHANGED <<shaperVars, stream, answer, resultVars, skipped>>

CancelOrder(o) ==
  /\ exch[o] \in {"live", "partially_filled"}
  /\ exch' = [exch EXCEPT ![o] = "canceled"]
  /\ Push(o, "canceled", 0)
  /\ UNCHANGED <<shaperVars, fills, stream, answer, resultVars, skipped>>

----
\* place_order and handle_command: the statuses an answer can be read as. A
\* refusal without an entry in data has no sCode, and then the order is New.
StatusOfAnswer(state) == IF state = "refused" THEN {"Rejected", "New"} ELSE {"New"}

\* The exchange answers; the order may have been filled meanwhile.
Answer(o) ==
  /\ exch[o] # "none"
  /\ Release(o, "report")
  /\ \E status \in StatusOfAnswer(exch[o]) : answer' = [answer EXCEPT ![o] = status]
  /\ UNCHANGED <<exchangeVars, stream, resultVars, skipped>>

\* The answer is lost, or the request before it: place_order returns Err after
\* its timeout, and nothing tells whether the order stands.
CallFails(o) ==
  /\ Release(o, "done")
  /\ answer' = [answer EXCEPT ![o] = "Err"]
  /\ UNCHANGED <<exchangeVars, stream, resultVars, skipped>>

\* publish on orders.result.
Report(o, status, size) ==
  /\ queued < Capacity /\ queued' = queued + 1
  /\ reports' = [reports EXCEPT ![o] = Append(@, [status |-> status, filled |-> size])]

Consume ==
  /\ queued > 0 /\ queued' = queued - 1
  /\ UNCHANGED <<shaperVars, exchangeVars, stream, answer, reports, skipped>>

\* The execution service publishes the result of the call.
ReportAnswer(o) ==
  /\ tpc[o] = "report"
  /\ tpc' = [tpc EXCEPT ![o] = "done"]
  /\ Report(o, answer[o], 0)
  /\ UNCHANGED <<limit, map_lock, permits, exchangeVars, stream, answer, skipped>>

----
\* The private stream: connect, login and subscribe, seen as one step.
Connect ==
  /\ stream = "down" /\ stream' = "up"
  /\ UNCHANGED <<shaperVars, exchangeVars, answer, resultVars, skipped>>

\* Closed by the exchange, or an error on the socket, or no connection in the
\* first place; run returns and nothing starts it again.
StreamEnds ==
  /\ stream # "ended" /\ stream' = "ended"
  /\ updates' = <<>>
  /\ UNCHANGED <<shaperVars, exch, fills, answer, resultVars, skipped>>

\* Faulty: whatever has been filled counts as filled.
StatusOfAnyFill(state) ==
  CASE state \in {"filled", "partially_filled"} -> "Filled"
    [] state = "canceled" -> "Rejected"
    [] OTHER -> "New"

\* handle_text: the status a state is read as.
StatusOf(state) ==
  CASE state = "filled"   -> "Filled"
    [] state = "canceled" -> "Rejected"
    [] OTHER              -> "New"

\* Faulty: the size of all the fills so far.
FilledSoFar(u) == fills[u.order]

\* handle_text: filled_quote is the last fill's.
FilledQuote(u) == u.fillSz

\* Faulty: an update that overtakes the REST answer belongs to no known order.
HandleUpdateOfKnown ==
  /\ stream = "up" /\ updates # <<>>
  /\ LET u == Head(updates) IN
       IF tpc[u.order] = "done" THEN Report(u.order, StatusOf(u.state), FilledQuote(u))
       ELSE UNCHANGED resultVars
  /\ updates' = Tail(updates)
  /\ UNCHANGED <<shaperVars, exch, fills, stream, answer, skipped>>

\* The next update is read when the result of the one before is out.
HandleUpdate ==
  /\ stream = "up" /\ updates # <<>>
  /\ LET u == Head(updates) IN Report(u.order, StatusOf(u.state), FilledQuote(u))
  /\ updates' = Tail(updates)
  /\ UNCHANGED <<shaperVars, exch, fills, stream, answer, skipped>>

\* A text with "event" in it, of whatever field, is taken for an answer to login
\* or subscribe. One that does not parse is lost, and so is an entry with an
\* instId without a quote, with those after it in its envelope.
SkipUpdate ==
  /\ stream = "up" /\ updates # <<>>
  /\ LET u == Head(updates) IN
       skipped' = IF u.state = "filled" THEN skipped \cup {u.order} ELSE skipped
  /\ updates' = Tail(updates)
  /\ UNCHANGED <<shaperVars, exch, fills, stream, answer, resultVars>>

StreamTask == HandleUpdate \/ SkipUpdate

----
Call(o) ==
  \/ Shape(o) /\ UNCHANGED <<exchangeVars, stream, answer, resultVars, skipped>>
  \/ Answer(o) \/ CallFails(o) \/ ReportAnswer(o)
Exchange(o) == TakeOrder(o) \/ RefuseOrder(o) \/ Fill(o) \/ CancelOrder(o)

Next ==
  \/ \E o \in Callers : Call(o) \/ Exchange(o)
  \/ Connect \/ StreamEnds \/ StreamTask \/ Consume

Spec == Init /\ [][Next]_vars

\* The runtime polls the tasks; a request ends, with an answer or by its
\* timeout (30 s unless the profile takes it away). The exchange owes nothing.
Fairness == WF_vars(StreamTask) /\ WF_vars(Consume) /\ \A o \in Callers : WF_vars(Call(o))

FairSpec == Spec /\ Fairness

----
TypeOK ==
  /\ limit \in Limits
  /\ tpc \in [Callers -> {"idle", "lock", "permit", "request", "report", "done"}]
  /\ map_lock = {c \in Callers : tpc[c] = "permit"}
  /\ permits \in Nat
  /\ \A n \in limit : permits = n - Cardinality({c \in Callers : tpc[c] = "request"})
  /\ fills \in [Callers -> 0..Size]
  /\ \A o \in Callers : fills[o] = Size <=> exch[o] = "filled"
  /\ answer \in [Callers -> {"none", "New", "Rejected", "Err"}]
  /\ stream # "up" => updates = <<>>
  /\ queued \in 0..Capacity /\ skipped \subseteq Callers

\* A call that has begun returns, whoever queues for the mutex and for a permit.
CallsReturn == \A o \in Callers : tpc[o] # "idle" ~> tpc[o] = "done"

\* The sum of a sequence of numbers, and the two sequences it is taken of: the
\* sizes reported for an order, and those of its updates still to be read.
SumOf(s) ==
  LET sum[i \in 0..Len(s)] == IF i = 0 THEN 0 ELSE sum[i - 1] + s[i]
  IN  sum[Len(s)]
ReportedSizes(o) == [i \in 1..Len(reports[o]) |-> reports[o][i].filled]
UnreadSizes(o) ==
  [i \in 1..Len(updates) |-> IF updates[i].order = o THEN updates[i].fillSz ELSE 0]

\* Every fill is reported at most once: what the results published for an order and the
\* updates still to be read say is filled is never more than what the exchange
\* filled, although the state "filled" follows others that carry fills.
ReportsWithinFills ==
  \A o \in Callers : SumOf(ReportedSizes(o)) + SumOf(UnreadSizes(o)) <= fills[o]

Reported(o, status) == \E i \in DOMAIN reports[o] : reports[o][i].status = status

\* A fill that the exchange pushed ends up on the bus unless the stream ends or
\* cannot read its update, also when the REST answer of the order is late or
\* never came. Nothing in the code makes up for the two exceptions.
FillsAreReported ==
  \A o \in Callers :
    (\E i \in DOMAIN updates : updates[i].order = o /\ updates[i].state = "filled")
      ~> Reported(o, "Filled") \/ o \in skipped \/ stream = "ended"

\* The supervisor and the books are told that an order is filled only when all
\* of it is, and never that it was both filled and rejected, although a New may
\* come after either.
FilledIsFinal ==
  \A o \in Callers :
    /\ Reported(o, "Filled") => exch[o] = "filled"
    /\ Reported(o, "Rejected") => exch[o] \in {"refused", "canceled"}
====
