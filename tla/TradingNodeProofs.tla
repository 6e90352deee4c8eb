---- MODULE TradingNodeProofs ----
(***************************************************************************)
(* Theorems about the composed node. OnlyTripsBlock: orders are never        *)
(* blocked without a trip, whatever the configuration, the plans, the        *)
(* capacity of the queues and the moment of the operator's resets, start-up  *)
(* included. BooksAgree: the supervisor's book is the execution service's,   *)
(* up to the results on their way and those only one of the two hears of.    *)
(***************************************************************************)
EXTENDS TradingNode, WellFoundedInduction, TLAPS

\* The queue of the block message.
BlockSubject == "control.exec.block_new_orders"

\* The queues are a function of the subjects: what is published to one subject
\* leaves the others alone.
QueuesOK == chan = [s \in Subjects |-> chan[s]]

Inv == QueuesOK /\ BlockImpliesTrip

\* What the bus does to its queues: a message joins one, or nobody is there to
\* get it; one is taken; a subscriber joins.
Sends(s, m) ==
  /\ chan' = IF s \in subscribed THEN [chan EXCEPT ![s] = Append(@, m)] ELSE chan
  /\ UNCHANGED subscribed
Takes(s) == chan[s] # <<>> /\ chan' = [chan EXCEPT ![s] = Tail(@)] /\ UNCHANGED subscribed
Joins(s) == subscribed' = subscribed \cup {s} /\ UNCHANGED chan
Waits == UNCHANGED <<chan, subscribed>>

\* A step of the bus on another subject does not touch the block queue.
LEMMA OtherSubject ==
  ASSUME QueuesOK, NEW s \in Subjects \ {BlockSubject},
         (\E m : Sends(s, m)) \/ Takes(s) \/ Joins(s)
  PROVE  QueuesOK' /\ chan'[BlockSubject] = chan[BlockSubject]
<1>1. BlockSubject \in Subjects
  BY DEF BlockSubject, Subjects
<1>2. QED
  BY <1>1 DEF QueuesOK, Sends, Takes, Joins

\* The bus keeps its shape on any subject.
LEMMA BusKeeps ==
  ASSUME QueuesOK, NEW s \in Subjects,
         (\E m : Sends(s, m)) \/ Takes(s) \/ Joins(s)
  PROVE  QueuesOK'
BY DEF QueuesOK, Sends, Takes, Joins

\* A step that leaves the breaker, the flag, the block queue and the worker's
\* place alone, or brings the worker to a place before the announcement.
LEMMA Untouched ==
  ASSUME Inv, QueuesOK', chan'[BlockSubject] = chan[BlockSubject],
         UNCHANGED <<circuit_breaker_active, block_new_orders>>,
         rpc' = rpc \/ rpc' \notin {"pause", "block", "log"}
  PROVE  Inv'
BY DEF Inv, BlockImpliesTrip, BlockSubject

\* A step that leaves the breaker set.
LEMMA BreakerSet ==
  ASSUME QueuesOK', circuit_breaker_active' = TRUE PROVE Inv'
BY DEF Inv, BlockImpliesTrip

\* evaluate announces nothing it has not stored.
LEMMA EvaluateTrips ==
  ASSUME NEW pnl, NEW exp, NEW errs, Risk!Evaluate(pnl, exp, errs)
  PROVE  \/ UNCHANGED <<circuit_breaker_active, rpc>>
         \/ circuit_breaker_active' = TRUE
BY DEF Risk!Evaluate, Risk!Trip

\* The worker blocks orders only on its way through an announcement, and then
\* its breaker is set.
LEMMA RiskWorkerInv ==
  ASSUME Inv, RiskWorker PROVE Inv'
<1> USE DEF BlockSubject
<1>1. UNCHANGED block_new_orders
  BY DEF RiskWorker, execVars
<1>2. CASE Risk!SubscribeOrders \/ Risk!SubscribeLog \/ Risk!SubscribeConfig
  <2>1. \E s \in Subjects \ {BlockSubject} : Joins(s)
    BY <1>2
    DEF Risk!SubscribeOrders, Risk!SubscribeLog, Risk!SubscribeConfig, Risk!SubscribeAt,
       Risk!RiskTakes,
                Risk!Subscribe, Joins, Subjects
  <2>2. QueuesOK' /\ chan'[BlockSubject] = chan[BlockSubject]
    BY <2>1, OtherSubject DEF Inv
  <2>3. QED
    BY <1>1, <1>2, <2>2, Untouched
    DEF Risk!SubscribeOrders, Risk!SubscribeLog, Risk!SubscribeConfig, Risk!SubscribeAt,
       Risk!RiskTakes
<1>3. CASE Risk!TakeOrder \/ Risk!TakeLog \/ Risk!TakeConfig
  <2>1. \E s \in Subjects \ {BlockSubject} : Takes(s)
    BY <1>3 DEF Risk!TakeOrder, Risk!TakeLog, Risk!TakeConfig,
                Risk!Receive, Takes, Subjects
  <2>2. QueuesOK' /\ chan'[BlockSubject] = chan[BlockSubject]
    BY <2>1, OtherSubject DEF Inv
  <2>3. \/ UNCHANGED <<circuit_breaker_active, rpc>>
        \/ circuit_breaker_active' = TRUE
    BY <1>3, EvaluateTrips DEF Risk!TakeOrder, Risk!TakeLog, Risk!TakeConfig
  <2>4. QED
    BY <1>1, <2>2, <2>3, Untouched, BreakerSet
<1>4. CASE Risk!Tick
  <2>1. QueuesOK' /\ chan'[BlockSubject] = chan[BlockSubject]
    BY <1>4 DEF Risk!Tick, Risk!bus, Inv, QueuesOK
  <2>2. \/ UNCHANGED <<circuit_breaker_active, rpc>>
        \/ circuit_breaker_active' = TRUE
    BY <1>4, EvaluateTrips DEF Risk!Tick
  <2>3. QED
    BY <1>1, <2>1, <2>2, Untouched, BreakerSet
<1>5. CASE Risk!PublishPause \/ Risk!PublishBlock \/ Risk!PublishTripLog
  <2>1. rpc \in {"pause", "block", "log"} /\ UNCHANGED circuit_breaker_active
    BY <1>5
    DEF Risk!PublishPause, Risk!PublishBlock, Risk!PublishTripLog, Risk!PublishTrip,
        Risk!RiskGives
  <2>2. \E s \in Subjects : \E m : Sends(s, m)
    BY <1>5
    DEF Risk!PublishPause, Risk!PublishBlock, Risk!PublishTripLog, Risk!PublishTrip,
        Risk!RiskGives, Risk!Publish, Sends, Subjects
  <2>3. QueuesOK'
    BY <2>2, BusKeeps DEF Inv
  <2>4. circuit_breaker_active
    BY <2>1 DEF Inv, BlockImpliesTrip
  <2>5. BlockImpliesTrip'
    BY <2>1, <2>4 DEF BlockImpliesTrip
  <2>6. QED
    BY <2>3, <2>5 DEF Inv
<1>6. CASE Risk!RiskWaits
  <2>1. Waits /\ UNCHANGED <<circuit_breaker_active, rpc>>
    BY <1>6
    DEF Risk!RiskWaits, Risk!AwaitRoom, Risk!HoldLock, Risk!Ask, Risk!riskVars, Waits
  <2>2. QED
    BY <1>1, <2>1, Untouched DEF Inv, QueuesOK, Waits
<1>7. QED
  BY <1>2, <1>3, <1>4, <1>5, <1>6 DEF RiskWorker, Risk!Worker

\* The main task of the execution service neither touches the flag nor
\* publishes a block.
LEMMA ExecMainInv ==
  ASSUME Inv, ExecMain PROVE Inv'
<1> USE DEF BlockSubject
<1>1. UNCHANGED <<circuit_breaker_active, rpc>>
  BY DEF ExecMain, riskVars
<1>2. CASE Exec!SubscribeCommand \/ Exec!SubscribeConfig
  <2>1. \E s \in Subjects \ {BlockSubject} : Joins(s)
    BY <1>2
    DEF Exec!SubscribeCommand, Exec!SubscribeConfig, Exec!SubscribeMain, Exec!ExecTakes,
                Exec!Subscribe, Joins, Subjects
  <2>2. UNCHANGED block_new_orders
    BY <1>2
    DEF Exec!SubscribeCommand, Exec!SubscribeConfig, Exec!SubscribeMain, Exec!ExecTakes
  <2>3. QED
    BY <1>1, <2>1, <2>2, OtherSubject, Untouched DEF Inv
<1>3. CASE Exec!TakeCommand \/ Exec!TakeConfig
  <2>1. \E s \in Subjects \ {BlockSubject} : Takes(s)
    BY <1>3 DEF Exec!TakeCommand, Exec!TakeConfig, Exec!Receive, Takes, Subjects
  <2>2. UNCHANGED block_new_orders
    BY <1>3 DEF Exec!TakeCommand, Exec!TakeConfig
  <2>3. QED
    BY <1>1, <2>1, <2>2, OtherSubject, Untouched DEF Inv
<1>4. CASE Exec!SimulateFill \/ Exec!SimulateReject \/ Exec!PlaceOrder \/ Exec!PlaceFails
  <2>1. UNCHANGED <<chan, block_new_orders>>
    BY <1>4 DEF Exec!SimulateFill, Exec!SimulateReject, Exec!PlaceOrder,
                Exec!PlaceFails, Exec!bus
  <2>2. QED
    BY <1>1, <2>1, Untouched DEF Inv, QueuesOK
<1>5. CASE \/ Exec!PublishStarted \/ Exec!PublishInfo \/ Exec!PublishError
           \/ Exec!PublishWarn \/ Exec!PublishResult \/ Exec!PublishTrade
  <2>1. \E s \in Subjects \ {BlockSubject} : \E m : Sends(s, m)
    BY <1>5 DEF Exec!PublishStarted, Exec!PublishInfo, Exec!PublishError,
                Exec!PublishWarn, Exec!PublishLog, Exec!PublishResult,
                Exec!PublishTrade, Exec!ExecGives, Exec!Publish, Sends, Subjects
  <2>2. UNCHANGED block_new_orders
    BY <1>5 DEF Exec!PublishStarted, Exec!PublishInfo, Exec!PublishError,
                Exec!PublishWarn, Exec!PublishLog, Exec!PublishResult,
                Exec!PublishTrade, Exec!ExecGives
  <2>3. QED
    BY <1>1, <2>1, <2>2, OtherSubject, Untouched DEF Inv
<1>6. CASE Exec!ExecWaits
  <2>1. Waits /\ UNCHANGED block_new_orders
    BY <1>6
    DEF Exec!ExecWaits, Exec!AwaitRoom, Exec!HoldLock, Exec!Ask, Exec!execVars, Waits
  <2>2. QED
    BY <1>1, <2>1, Untouched DEF Inv, QueuesOK, Waits
<1>7. QED
  BY <1>2, <1>3, <1>4, <1>5, <1>6 DEF ExecMain, Exec!MainTask

\* The block task stores true for a message that was under way; the reset
\* task only ever stores false.
LEMMA ExecFlagsInv ==
  ASSUME Inv, ExecBlock \/ ExecReset PROVE Inv'
<1> USE DEF BlockSubject
<1>1. UNCHANGED <<circuit_breaker_active, rpc>>
  BY DEF ExecBlock, ExecReset, riskVars
<1>2. CASE Exec!SubscribeBlock \/ Exec!SubscribeReset \/ Exec!FlagWaits
  <2>1. UNCHANGED <<chan, block_new_orders>>
    BY <1>2 DEF Exec!SubscribeBlock, Exec!SubscribeReset, Exec!SubscribeFlag,
                Exec!Subscribe, Exec!FlagWaits, Exec!Ask, Exec!execVars
  <2>2. QED
    BY <1>1, <2>1, Untouched DEF Inv, QueuesOK
<1>3. CASE Exec!BlockTask
  <2>1. chan[BlockSubject] # <<>> /\ Takes(BlockSubject)
    BY <1>3 DEF Exec!BlockTask, Exec!Receive, Takes
  <2>2. BlockSubject \in Subjects
    BY DEF Subjects
  <2>3. QueuesOK'
    BY <2>1, <2>2, BusKeeps DEF Inv
  <2>4. circuit_breaker_active
    BY <2>1 DEF Inv, BlockImpliesTrip
  <2>5. BlockImpliesTrip'
    BY <1>1, <2>4 DEF BlockImpliesTrip
  <2>6. QED
    BY <2>3, <2>5 DEF Inv
<1>4. CASE Exec!ResetTask
  <2>1. \E s \in Subjects \ {BlockSubject} : Takes(s)
    BY <1>4 DEF Exec!ResetTask, Exec!Receive, Takes, Subjects
  <2>2. QueuesOK' /\ chan'[BlockSubject] = chan[BlockSubject]
    BY <2>1, OtherSubject DEF Inv
  <2>3. block_new_orders' = FALSE
    BY <1>4 DEF Exec!ResetTask
  <2>4. BlockImpliesTrip'
    BY <1>1, <2>2, <2>3 DEF Inv, BlockImpliesTrip
  <2>5. QED
    BY <2>2, <2>4 DEF Inv
<1>5. QED
  BY <1>2, <1>3, <1>4 DEF ExecBlock, ExecReset

\* The private stream only publishes results.
LEMMA ExecStreamInv ==
  ASSUME Inv, ExecStream PROVE Inv'
<1> USE DEF BlockSubject
<1>1. UNCHANGED <<circuit_breaker_active, rpc, block_new_orders>>
  BY DEF ExecStream, riskVars, Exec!StreamTask, Exec!StreamReport, Exec!StreamWaits,
      Exec!execVars
<1>2. Waits \/ \E s \in Subjects \ {BlockSubject} : \E m : Sends(s, m)
  BY DEF ExecStream, Exec!StreamTask, Exec!StreamReport, Exec!StreamWaits, Exec!AwaitRoom,
         Exec!HoldLock, Exec!Publish, Sends, Waits, Subjects
<1>3. QueuesOK' /\ chan'[BlockSubject] = chan[BlockSubject]
  BY <1>2, OtherSubject DEF Inv, QueuesOK, Waits
<1>4. QED
  BY <1>1, <1>3, Untouched

\* The strategy host never publishes a block.
LEMMA StratInv ==
  ASSUME Inv, (\E s \in Symbols : StratPair(s)) \/ StratFlags PROVE Inv'
<1> USE DEF BlockSubject
<1>1. UNCHANGED <<circuit_breaker_active, rpc, block_new_orders>>
  BY DEF StratPair, StratFlags, riskVars, execVars
<1>2. QueuesOK' /\ chan'[BlockSubject] = chan[BlockSubject]
  <2>1. ASSUME NEW s \in Symbols, Strat!PairTask(s)
        PROVE  \/ UNCHANGED chan
               \/ \E subject \in Subjects \ {BlockSubject} : \E m : Sends(subject, m)
    BY <2>1 DEF Strat!PairTask, Strat!StartPair, Strat!TakeSnapshot,
                Strat!PublishOrder, Strat!PublishDecision, Strat!PairWaits, Strat!AwaitRoom,
                Strat!HoldLock, Strat!Ask, Strat!bus, Strat!Publish, Sends, Subjects
  <2>2. ASSUME Strat!FlagTasks
        PROVE  \/ UNCHANGED chan
               \/ \E subject \in Subjects \ {BlockSubject} :
                    Joins(subject) \/ Takes(subject)
    BY <2>2 DEF Strat!FlagTasks, Strat!SubscribePause, Strat!SubscribeResume,
                Strat!SubscribeFlag, Strat!FlagWaits, Strat!Ask, Strat!PauseTask,
                Strat!ResumeTask, Strat!Subscribe, Joins, Strat!Receive, Takes, Subjects
  <2>3. CASE UNCHANGED chan
    BY <2>3 DEF Inv, QueuesOK
  <2>4. QED
    BY <2>1, <2>2, <2>3, OtherSubject DEF Inv, StratPair, StratFlags
<1>3. QED
  BY <1>1, <1>2, Untouched

\* The operator, the clock, the test order and the sessions: reset_circuit on
\* the API's instance leaves the worker's breaker alone.
Outside ==
  \/ ErrorsAge \/ ApiReset \/ ApiResetExec \/ ApiOther
  \/ TestOrder \/ TestOrderWaits \/ SessionAsks \/ SessionJoins

LEMMA OutsideInv ==
  ASSUME Inv, Outside PROVE Inv'
<1> USE DEF BlockSubject
<1>1. UNCHANGED <<circuit_breaker_active, rpc, block_new_orders>>
  BY DEF Outside, ErrorsAge, ApiReset, ApiResetExec, ApiOther, TestOrder, TestOrderWaits,
         SessionAsks, SessionJoins, riskVars, execVars, Risk!riskVars,
         Risk!ErrorsAge, Risk!ResetCircuit, Risk!ResetExec, Risk!ResumeAll,
         Risk!PublishFromReset, Risk!ResetWaits, Risk!BlockThread
<1>2. CASE \/ ErrorsAge \/ ApiReset \/ Risk!ResetWaits \/ Risk!BlockThread
           \/ TestOrderWaits \/ SessionAsks \/ SessionJoins
  <2>1. UNCHANGED chan
    BY <1>2
    DEF ErrorsAge, ApiReset, TestOrderWaits, SessionAsks, SessionJoins, Risk!ErrorsAge,
       Risk!ResetCircuit, Risk!ResetWaits, Risk!BlockThread, Risk!AwaitRoom, Risk!HoldLock,
       Risk!bus, AwaitRoom, HoldLock, Ask
  <2>2. QED
    BY <1>1, <2>1, Untouched DEF Inv, QueuesOK
<1>3. CASE Risk!ResetExec \/ Risk!ResumeAll \/ TestOrder
  <2>1. \E s \in Subjects \ {BlockSubject} : \E m : Sends(s, m)
    BY <1>3 DEF TestOrder, Risk!ResetExec, Risk!ResumeAll, Risk!PublishFromReset,
       Risk!ResetGives, Risk!Publish, Publish, Sends, Subjects
  <2>2. QED
    BY <1>1, <2>1, OtherSubject, Untouched DEF Inv
<1>4. QED
  BY <1>2, <1>3 DEF Outside, ApiResetExec, ApiOther

\* Orders are blocked only after a trip: in every reachable state of the node
\* the block flag, a block message under way or an announcement implies that
\* the supervisor's worker has set its breaker.
THEOREM OnlyTripsBlock == Spec => []BlockImpliesTrip
<1>1. Init => Inv
  <2> SUFFICES ASSUME Init PROVE Inv
    OBVIOUS
  <2>1. QueuesOK /\ chan["control.exec.block_new_orders"] = <<>>
    BY DEF Init, BusInit, QueuesOK, Subjects
  <2>2. block_new_orders = FALSE /\ rpc \in {"select", "sub_orders"}
    BY DEF Init, Exec!ExecInit, Risk!RiskInit
  <2>3. QED
    BY <2>1, <2>2 DEF Inv, BlockImpliesTrip
<1>2. Inv /\ [Next]_vars => Inv'
  <2> SUFFICES ASSUME Inv, [Next]_vars PROVE Inv'
    OBVIOUS
  <2>1. CASE UNCHANGED vars
    BY <2>1 DEF vars, bus, riskVars, execVars, Inv, QueuesOK, BlockImpliesTrip
  <2>2. QED
    BY <2>1, RiskWorkerInv, ExecMainInv, ExecFlagsInv, ExecStreamInv, StratInv, OutsideInv
       DEF Next, Outside
<1>3. Inv => BlockImpliesTrip
  BY DEF Inv
<1>4. QED
  BY <1>1, <1>2, <1>3, PTL DEF Spec

----
\* The net cash of a queue of results, a function defined by recursion: that it
\* is defined, and what appending and taking a result do to it.

\* Induction up to n, over a set.
LEMMA UpTo ==
  ASSUME NEW n \in Nat, NEW S, 0 \in S, \A i \in 1..n : i - 1 \in S => i \in S
  PROVE  \A i \in 0..n : i \in S
<1> DEFINE B == (0..n) \ S
<1> SUFFICES B = {}
  OBVIOUS
<1>1. SUFFICES ASSUME B # {} PROVE FALSE
  OBVIOUS
<1>2. B \subseteq Nat
  OBVIOUS
<1>3. PICK i \in B : \A j \in B : ~(<<j, i>> \in OpToRel(<, Nat))
  BY <1>1, <1>2, NatLessThanWellFounded, WFMin
<1>4. \A j \in B : ~(j < i)
  BY <1>2, <1>3 DEF OpToRel
<1>5. i \in 1..n /\ i - 1 \in 0..n /\ i - 1 \notin B
  BY <1>4
<1>6. QED
  BY <1>5

\* f[i] is the net cash of the first i results of q, for i up to n.
TotalsTo(f, q, n) ==
  /\ f \in [0..n -> Int]
  /\ f[0] = 0
  /\ \A i \in 1..n : f[i] = f[i - 1] + Risk!PnlDelta(q[i])

Totals(f, q) == TotalsTo(f, q, Len(q))

\* Every result of q has an amount.
Amounts(q) == Len(q) \in Nat /\ \A i \in 1..Len(q) : Risk!PnlDelta(q[i]) \in Int

\* The totals of k - 1 results give those of k.
LEMMA TotalsExtend ==
  ASSUME NEW q, NEW k \in Nat \ {0}, Risk!PnlDelta(q[k]) \in Int, NEW f, TotalsTo(f, q, k - 1)
  PROVE  TotalsTo([i \in 0..k |-> IF i = k THEN f[k - 1] + Risk!PnlDelta(q[k]) ELSE f[i]], q, k)
<1> DEFINE g == [i \in 0..k |-> IF i = k THEN f[k - 1] + Risk!PnlDelta(q[k]) ELSE f[i]]
<1>1. /\ f \in [0..(k - 1) -> Int] /\ f[0] = 0
      /\ \A i \in 1..(k - 1) : f[i] = f[i - 1] + Risk!PnlDelta(q[i])
  BY DEF TotalsTo
<1>2. f[k - 1] \in Int
  BY <1>1
<1>3. g \in [0..k -> Int] /\ g[0] = 0
  BY <1>1, <1>2
<1>4. ASSUME NEW i \in 1..k PROVE g[i] = g[i - 1] + Risk!PnlDelta(q[i])
  <2>1. i - 1 \in 0..(k - 1) /\ g[i - 1] = f[i - 1]
    OBVIOUS
  <2>2. CASE i = k
    BY <2>1, <2>2
  <2>3. CASE i # k
    BY <1>1, <2>1, <2>3
  <2>4. QED
    BY <2>2, <2>3
<1>5. QED
  <2> HIDE DEF g
  <2>1. TotalsTo(g, q, k)
    BY <1>3, <1>4 DEF TotalsTo
  <2>2. QED
    BY <2>1 DEF g

\* There are totals of every queue.
LEMMA TotalsExist == ASSUME NEW q, Amounts(q) PROVE \E f : Totals(f, q)
<1> DEFINE n == Len(q)
           S == {k \in 0..n : \E f : TotalsTo(f, q, k)}
<1>1. n \in Nat /\ \A i \in 1..n : Risk!PnlDelta(q[i]) \in Int
  BY DEF Amounts
<1>2. TotalsTo([i \in 0..0 |-> 0], q, 0)
  BY DEF TotalsTo
<1>3. 0 \in S
  BY <1>1, <1>2
<1>4. ASSUME NEW k \in 1..n, k - 1 \in S PROVE k \in S
  <2>1. k \in Nat \ {0} /\ Risk!PnlDelta(q[k]) \in Int
    BY <1>1
  <2>2. PICK f : TotalsTo(f, q, k - 1)
    BY <1>4
  <2>3. \E g : TotalsTo(g, q, k)
    BY <2>1, <2>2, TotalsExtend
  <2>4. QED
    BY <1>1, <2>3
<1>5. \A k \in 0..n : k \in S
  <2> HIDE DEF S
  <2> QED BY <1>1, <1>3, <1>4, UpTo
<1>6. n \in S
  BY <1>1, <1>5
<1>7. QED
  BY <1>6 DEF Totals

\* NetOf is the last of them, whichever function CHOOSE picks.
LEMMA NetIs == ASSUME NEW q, Amounts(q), NEW f, Totals(f, q) PROVE NetOf(q) = f[Len(q)]
<1> DEFINE n == Len(q)
           Step(h) == [i \in 0..n |-> IF i = 0 THEN 0 ELSE h[i - 1] + Risk!PnlDelta(q[i])]
           net == CHOOSE h : h = Step(h)
<1>1. n \in Nat
  BY DEF Amounts
<1>2. f = Step(f)
  BY <1>1 DEF Totals, TotalsTo
<1>3. net = Step(net)
  BY <1>2
<1>4. NetOf(q) = net[n]
  BY DEF NetOf
<1>5. net[0] = f[0] /\ \A i \in 1..n : net[i - 1] = f[i - 1] => net[i] = f[i]
  <2> HIDE DEF net
  <2>1. \A i \in 0..n : net[i] = IF i = 0 THEN 0 ELSE net[i - 1] + Risk!PnlDelta(q[i])
    BY <1>3, Zenon
  <2>2. \A i \in 0..n : f[i] = IF i = 0 THEN 0 ELSE f[i - 1] + Risk!PnlDelta(q[i])
    BY <1>2, Zenon
  <2>3. QED
    BY <1>1, <2>1, <2>2
<1> DEFINE S == {i \in 0..n : net[i] = f[i]}
<1>6. \A i \in 0..n : i \in S
  <2> HIDE DEF net
  <2>1. 0 \in S
    BY <1>1, <1>5
  <2>2. \A i \in 1..n : i - 1 \in S => i \in S
    BY <1>1, <1>5
  <2> HIDE DEF S
  <2>3. QED
    BY <1>1, <2>1, <2>2, UpTo
<1>7. net[n] = f[n]
  BY <1>1, <1>6
<1>8. QED
  BY <1>4, <1>7

\* Nothing under way.
LEMMA NetEmpty == NetOf(<<>>) = 0
<1>1. Totals([i \in 0..0 |-> 0], <<>>) /\ Amounts(<<>>)
  BY DEF Totals, TotalsTo, Amounts
<1>2. NetOf(<<>>) = [i \in 0..0 |-> 0][Len(<<>>)]
  BY <1>1, NetIs
<1>3. QED
  BY <1>2

\* A result that joins the queue adds its amount.
LEMMA NetAppend ==
  ASSUME NEW T, NEW q \in Seq(T), NEW m \in T, \A x \in T : Risk!PnlDelta(x) \in Int
  PROVE  NetOf(q) \in Int /\ NetOf(Append(q, m)) = NetOf(q) + Risk!PnlDelta(m)
<1> DEFINE n == Len(q)
           r == Append(q, m)
<1>1. n \in Nat /\ Amounts(q)
  BY DEF Amounts
<1>2. Len(r) = n + 1 /\ r[n + 1] = m /\ \A i \in 1..n : r[i] = q[i]
  OBVIOUS
<1>3. Amounts(r)
  BY <1>1, <1>2 DEF Amounts
<1>4. PICK f : Totals(f, q)
  BY <1>1, TotalsExist
<1>5. TotalsTo(f, r, n)
  <2> HIDE DEF r
  <2> QED BY <1>1, <1>2, <1>4 DEF Totals, TotalsTo
<1> DEFINE g == [i \in 0..(n + 1) |-> IF i = n + 1 THEN f[n] + Risk!PnlDelta(m) ELSE f[i]]
<1>6. Totals(g, r)
  <2>1. n + 1 \in Nat \ {0} /\ (n + 1) - 1 = n /\ Risk!PnlDelta(r[n + 1]) \in Int
    BY <1>1, <1>2
  <2> HIDE DEF r
  <2>2. TotalsTo([i \in 0..(n + 1) |->
                   IF i = n + 1 THEN f[(n + 1) - 1] + Risk!PnlDelta(r[n + 1]) ELSE f[i]], r, n + 1)
    BY <1>5, <2>1, TotalsExtend
  <2>3. QED
    BY <1>2, <2>1, <2>2 DEF Totals
<1>7. NetOf(r) = g[n + 1] /\ NetOf(q) = f[n]
  <2> HIDE DEF r, g
  <2> QED BY <1>1, <1>2, <1>3, <1>4, <1>6, NetIs
<1>8. f[n] \in Int
  BY <1>1, <1>4 DEF Totals, TotalsTo
<1>9. QED
  BY <1>1, <1>7, <1>8

\* A result that leaves the queue takes its amount along.
LEMMA NetTail ==
  ASSUME NEW T, NEW q \in Seq(T), q # <<>>, \A x \in T : Risk!PnlDelta(x) \in Int
  PROVE  NetOf(Tail(q)) = NetOf(q) - Risk!PnlDelta(Head(q))
<1> DEFINE n == Len(q)
           r == Tail(q)
<1>1. n \in Nat \ {0} /\ Amounts(q)
  BY DEF Amounts
<1>2. Len(r) = n - 1 /\ Head(q) = q[1] /\ \A i \in 1..(n - 1) : r[i] = q[i + 1]
  OBVIOUS
<1>3. Amounts(r)
  <2> HIDE DEF r
  <2> QED BY <1>1, <1>2 DEF Amounts
<1>4. PICK f : Totals(f, q)
  BY <1>1, TotalsExist
<1>5. /\ f \in [0..n -> Int] /\ f[0] = 0
      /\ \A i \in 1..n : f[i] = f[i - 1] + Risk!PnlDelta(q[i])
  BY <1>4 DEF Totals, TotalsTo
<1> DEFINE g == [i \in 0..(n - 1) |-> f[i + 1] - f[1]]
<1>6. Totals(g, r)
  <2> HIDE DEF r
  <2>1. g \in [0..(n - 1) -> Int] /\ g[0] = 0
    BY <1>1, <1>5
  <2>2. ASSUME NEW i \in 1..(n - 1) PROVE g[i] = g[i - 1] + Risk!PnlDelta(r[i])
    <3>1. i + 1 \in 1..n /\ (i - 1) + 1 = i /\ i \in 0..(n - 1) /\ i - 1 \in 0..(n - 1)
      BY <1>1
    <3>2. f[i + 1] = f[i] + Risk!PnlDelta(r[i])
      <4>1. (i + 1) - 1 = i /\ r[i] = q[i + 1]
        BY <1>2
      <4>2. f[i + 1] = f[(i + 1) - 1] + Risk!PnlDelta(q[i + 1])
        BY <1>5, <3>1
      <4>3. QED
        BY <4>1, <4>2
    <3>3. g[i] = f[i + 1] - f[1] /\ g[i - 1] = f[i] - f[1]
      BY <3>1
    <3>4. f[i] \in Int /\ f[1] \in Int /\ f[i + 1] \in Int /\ Risk!PnlDelta(r[i]) \in Int
      BY <1>1, <1>2, <1>3, <1>5, <3>1 DEF Amounts
    <3>5. QED
      BY <3>2, <3>3, <3>4
  <2> HIDE DEF g
  <2>3. QED
    BY <1>1, <1>2, <2>1, <2>2 DEF Totals, TotalsTo
<1>7. NetOf(r) = g[n - 1] /\ NetOf(q) = f[n]
  <2> HIDE DEF r, g
  <2> QED BY <1>1, <1>2, <1>3, <1>4, <1>6, NetIs
<1>8. g[n - 1] = f[n] - f[1] /\ f[1] = Risk!PnlDelta(Head(q)) /\ f[n] \in Int
  <2>1. (n - 1) + 1 = n /\ n - 1 \in 0..(n - 1) /\ 1 \in 1..n /\ Risk!PnlDelta(q[1]) \in Int
    BY <1>1 DEF Amounts
  <2>2. f[1] = 0 + Risk!PnlDelta(q[1])
    BY <1>5, <2>1
  <2>3. QED
    BY <1>1, <1>2, <1>5, <2>1, <2>2
<1>9. QED
  BY <1>7, <1>8

----
\* The books.

\* The two queues the book depends on.
Commands == chan["orders.command"]
Results == chan["orders.result"]

\* The cash of the result that is about to be published.
Unreported == IF epc = "result" THEN Exec!CashDelta(job) ELSE 0

\* What the equation of the books rests on: only typed results and commands are
\* queued, held and planned.
BookTypes ==
  /\ QueuesOK
  /\ Commands \in Seq(Exec!OrderCommands)
  /\ Results \in Seq(Exec!OrderResults)
  /\ Exec!JobOK
  /\ plan \in [Symbols -> Seq(PlannedOrders)]
  /\ test_orders \subseteq TestOrders
  /\ {daily_pnl_quote, balance_usdt, unheard, streamed} \subseteq Int

\* The inductive invariant.
Book == BookTypes /\ RiskAgreesWithLedger

\* The subjects that carry nothing of the book.
Aside == Subjects \ {"orders.command", "orders.result"}

\* What the results and commands do for the book does not change.
Kept ==
  /\ QueuesOK'
  /\ UNCHANGED <<Commands, Results>>

\* The bus on other subjects, and the subscriptions, leave the two queues alone.
LEMMA AsideKeeps ==
  ASSUME BookTypes,
         \/ Waits
         \/ \E s \in Aside : (\E m : Sends(s, m)) \/ Takes(s)
         \/ \E s \in Subjects : Joins(s)
  PROVE  Kept
<1>1. "orders.command" \in Subjects /\ "orders.result" \in Subjects
  BY DEF Subjects
<1>2. CASE Waits
  BY <1>2 DEF BookTypes, Kept, QueuesOK, Waits, Commands, Results
<1>3. ASSUME NEW s \in Aside, (\E m : Sends(s, m)) \/ Takes(s) PROVE Kept
  BY <1>1, <1>3
  DEF BookTypes, Kept, QueuesOK, Aside, Sends, Takes, Commands, Results
<1>4. ASSUME NEW s \in Subjects, Joins(s) PROVE Kept
  BY <1>1, <1>4
  DEF BookTypes, Kept, QueuesOK, Joins, Commands, Results
<1>5. QED
  BY <1>2, <1>3, <1>4

\* The book agrees in both services and nothing on its way changes.
LEMMA BookFrame ==
  ASSUME Book, Kept, Exec!JobOK', UNCHANGED <<plan, daily_pnl_quote, balance_usdt, unheard, streamed>>,
         test_orders' \subseteq test_orders, UNCHANGED Unreported
  PROVE  Book'
BY DEF Book, BookTypes, Kept, RiskAgreesWithLedger, InFlight, Commands, Results,
       Unreported

\* The two services read the same cash from a result.
LEMMA SameDelta ==
  ASSUME NEW res \in Exec!OrderResults
  PROVE  /\ Exec!CashDelta(res) = Risk!PnlDelta(res)
         /\ Risk!PnlDelta(res) \in Int
<1>1. res.filled_size_quote \in Sizes \cup {0}
  BY DEF Exec!OrderResults
<1>2. Sizes \cup {0} \subseteq Int
  BY AmountAssumption
<1>3. res.filled_size_quote \in Int
  BY <1>1, <1>2, Zenon
<1>4. QED
  BY <1>3 DEF Exec!CashDelta, Risk!PnlDelta

\* What is about to be published has an amount.
LEMMA UnreportedInt == ASSUME Exec!JobOK PROVE Unreported \in Int
<1>1. CASE epc = "result"
  <2>1. job \in Exec!OrderResults
    BY <1>1 DEF Exec!JobOK
  <2>2. QED
    BY <1>1, <2>1, SameDelta DEF Unreported
<1>2. QED
  BY <1>1 DEF Unreported

\* The results on their way have a net amount.
LEMMA NetInt == ASSUME NEW q \in Seq(Exec!OrderResults) PROVE NetOf(q) \in Int
<1>1. \A x \in Exec!OrderResults : Risk!PnlDelta(x) \in Int
  BY SameDelta
<1>2. q = <<>> \/ Head(q) \in Exec!OrderResults
  OBVIOUS
<1>3. QED
  BY <1>1, <1>2, NetEmpty, NetAppend

\* The books agree after a step that moves the balance by what it moves in the
\* supervisor's book, on the way there and before it is sent.
LEMMA BookMoves ==
  ASSUME BookTypes, RiskAgreesWithLedger, BookTypes',
         (balance_usdt' - balance_usdt) + (streamed' - streamed)
           = (daily_pnl_quote' - daily_pnl_quote) + (NetOf(Results') - NetOf(Results))
             + (unheard' - unheard) + (Unreported' - Unreported)
  PROVE  RiskAgreesWithLedger'
<1>1. PICK a \in Int, b \in Int : a = NetOf(Results) /\ b = NetOf(Results')
  <2>1. Results \in Seq(Exec!OrderResults) /\ Results' \in Seq(Exec!OrderResults)
    BY DEF BookTypes
  <2>2. QED
    BY <2>1, NetInt
<1>2. PICK u \in Int, v \in Int : u = Unreported /\ v = Unreported'
  <2>1. Unreported \in Int
    BY UnreportedInt DEF BookTypes
  <2>2. Unreported' \in Int
    <3>1. epc' = "result" => job' \in Exec!OrderResults
      BY DEF BookTypes, Exec!JobOK
    <3>2. QED
      BY <3>1, SameDelta DEF Unreported
  <2>3. QED
    BY <2>1, <2>2
<1>3. PICK d \in Int, e \in Int : d = daily_pnl_quote /\ e = daily_pnl_quote'
  BY DEF BookTypes
<1>4. PICK x \in Int, y \in Int : x = balance_usdt /\ y = balance_usdt'
  BY DEF BookTypes
<1>5. PICK g \in Int, h \in Int : g = unheard /\ h = unheard'
  BY DEF BookTypes
<1>6. PICK s \in Int, t \in Int : s = streamed /\ t = streamed'
  BY DEF BookTypes
<1>7. x + s = InitialBalance + d + a + g + u
  BY <1>1, <1>2, <1>3, <1>4, <1>5, <1>6
  DEF RiskAgreesWithLedger, InFlight, Results, Unreported
<1>8. (y - x) + (t - s) = (e - d) + (b - a) + (h - g) + (v - u)
  BY <1>1, <1>2, <1>3, <1>4, <1>5, <1>6, Zenon
<1>9. y + t = InitialBalance + e + b + h + v
  <2>1. InitialBalance \in Int
    BY AmountAssumption
  <2>2. QED
    BY <1>7, <1>8, <2>1
<1>10. QED
  BY <1>1, <1>2, <1>3, <1>4, <1>5, <1>6, <1>9
  DEF RiskAgreesWithLedger, InFlight, Results, Unreported

\* A command queued behind the others is a command.
LEMMA CommandQueued ==
  ASSUME BookTypes, NEW m \in Exec!OrderCommands, Sends("orders.command", m)
  PROVE  /\ QueuesOK' /\ UNCHANGED Results
         /\ Commands' \in Seq(Exec!OrderCommands)
<1>1. "orders.command" \in Subjects /\ "orders.result" \in Subjects
  BY DEF Subjects
<1>2. chan' = chan \/ chan' = [chan EXCEPT !["orders.command"] = Append(@, m)]
  BY DEF Sends
<1>3. QueuesOK' /\ UNCHANGED Results
  BY <1>1, <1>2 DEF BookTypes, QueuesOK, Sends, Results
<1>4. Commands' = Commands \/ Commands' = Append(Commands, m)
  BY <1>1, <1>2 DEF BookTypes, QueuesOK, Commands
<1>5. Commands \in Seq(Exec!OrderCommands)
  BY DEF BookTypes
<1>6. Commands' \in Seq(Exec!OrderCommands)
  BY <1>4, <1>5
<1>7. QED
  BY <1>3, <1>6

\* The supervisor takes a result: what leaves the queue enters its book.
LEMMA BookTakeOrder ==
  ASSUME Book, Risk!TakeOrder, UNCHANGED <<execVars, stratVars, nodeVars>>
  PROVE  Book'
<1> DEFINE res == Head(Results)
<1>1. Takes("orders.result") /\ daily_pnl_quote' = daily_pnl_quote + Risk!PnlDelta(res)
  BY DEF Risk!TakeOrder, Risk!Receive, Takes, Results
<1>2. "orders.command" \in Subjects /\ "orders.result" \in Subjects
  BY DEF Subjects
<1>3. Results # <<>> /\ Results' = Tail(Results)
  BY <1>1, <1>2 DEF Book, BookTypes, QueuesOK, Takes, Results
<1>4. QueuesOK' /\ UNCHANGED Commands
  BY <1>1, <1>2 DEF Book, BookTypes, QueuesOK, Takes, Commands
<1>5. /\ Results \in Seq(Exec!OrderResults) /\ daily_pnl_quote \in Int
      /\ \A x \in Exec!OrderResults : Risk!PnlDelta(x) \in Int
  BY SameDelta DEF Book, BookTypes
<1>6. res \in Exec!OrderResults /\ Results' \in Seq(Exec!OrderResults)
  BY <1>3, <1>5
<1>7. NetOf(Results') = NetOf(Results) - Risk!PnlDelta(res)
  <2>1. NetOf(Tail(Results)) = NetOf(Results) - Risk!PnlDelta(Head(Results))
    BY <1>3, <1>5, NetTail
  <2>2. QED
    BY <1>3, <2>1
<1>8. PICK d \in Int : d = Risk!PnlDelta(res)
  BY <1>5, <1>6
<1>9. UNCHANGED <<epc, job, balance_usdt, unheard, streamed, plan, test_orders>>
  BY DEF execVars, stratVars, nodeVars
<1>10. daily_pnl_quote' = daily_pnl_quote + d
  BY <1>1, <1>8, Zenon
<1>11. BookTypes'
  BY <1>4, <1>5, <1>6, <1>9, <1>10 DEF Book, BookTypes, Commands, Exec!JobOK
<1>12. NetOf(Results') = NetOf(Results) - d /\ NetOf(Results) \in Int
  BY <1>5, <1>7, <1>8, NetInt
<1>13. Unreported' = Unreported /\ Unreported \in Int /\ balance_usdt \in Int
  BY <1>9, UnreportedInt DEF Book, BookTypes, Unreported
<1>14. (balance_usdt' - balance_usdt) + (streamed' - streamed)
         = (daily_pnl_quote' - daily_pnl_quote) + (NetOf(Results') - NetOf(Results))
           + (unheard' - unheard) + (Unreported' - Unreported)
  <2>1. daily_pnl_quote \in Int /\ balance_usdt' - balance_usdt = 0
        /\ streamed' - streamed = 0 /\ unheard' - unheard = 0
    BY <1>9 DEF Book, BookTypes
  <2>2. QED
    BY <1>10, <1>12, <1>13, <2>1
<1>15. QED
  BY <1>11, <1>14, BookMoves DEF Book

\* The worker's other steps are about other subjects.
LEMMA BookRiskWorker ==
  ASSUME Book, RiskWorker PROVE Book'
<1>1. UNCHANGED <<execVars, stratVars, nodeVars>>
  BY DEF RiskWorker
<1>2. CASE Risk!TakeOrder
  BY <1>1, <1>2, BookTakeOrder
<1>3. CASE ~Risk!TakeOrder
  <2>1. Kept
    <3>1. CASE Risk!SubscribeOrders \/ Risk!SubscribeLog \/ Risk!SubscribeConfig
      <4>1. \E s \in Subjects : Joins(s)
        BY <3>1
        DEF Risk!SubscribeOrders, Risk!SubscribeLog, Risk!SubscribeConfig, Risk!SubscribeAt,
       Risk!RiskTakes,
                    Risk!Subscribe, Joins, Subjects
      <4>2. QED
        BY <4>1, AsideKeeps DEF Book
    <3>2. CASE Risk!TakeLog \/ Risk!TakeConfig
      <4>1. \E s \in Aside : Takes(s)
        BY <3>2 DEF Risk!TakeLog, Risk!TakeConfig, Risk!Receive, Takes, Subjects, Aside
      <4>2. QED
        BY <4>1, AsideKeeps DEF Book
    <3>3. CASE Risk!Tick
      BY <3>3, AsideKeeps DEF Risk!Tick, Risk!bus, Waits, Book
    <3>4. CASE Risk!PublishPause \/ Risk!PublishBlock \/ Risk!PublishTripLog
      <4>1. \E s \in Aside : \E m : Sends(s, m)
        BY <3>4
        DEF Risk!PublishPause, Risk!PublishBlock, Risk!PublishTripLog, Risk!PublishTrip,
            Risk!RiskGives, Risk!Publish, Sends, Subjects, Aside
      <4>2. QED
        BY <4>1, AsideKeeps DEF Book
    <3>5. CASE Risk!RiskWaits
      BY <3>5, AsideKeeps
      DEF Risk!RiskWaits, Risk!AwaitRoom, Risk!HoldLock, Risk!Ask, Waits, Book
    <3>6. QED
      BY <1>3, <3>1, <3>2, <3>3, <3>4, <3>5 DEF RiskWorker, Risk!Worker
  <2>2. UNCHANGED daily_pnl_quote
    BY <1>3 DEF RiskWorker, Risk!Worker, Risk!SubscribeOrders, Risk!SubscribeLog,
       Risk!SubscribeConfig, Risk!SubscribeAt, Risk!TakeLog, Risk!TakeConfig, Risk!Tick,
       Risk!PublishPause, Risk!PublishBlock, Risk!PublishTripLog, Risk!PublishTrip,
       Risk!RiskWaits, Risk!riskVars
  <2>3. QED
    BY <1>1, <2>1, <2>2, BookFrame
    DEF execVars, stratVars, nodeVars, Unreported, Book, BookTypes, Exec!JobOK
<1>4. QED
  BY <1>2, <1>3

\* A command is taken off its queue: the block flag decides about its fate.
LEMMA BookTakeCommand ==
  ASSUME Book, Exec!TakeCommand, UNCHANGED <<riskVars, stratVars, nodeVars>>
  PROVE  Book'
<1> DEFINE m == Head(Commands)
<1>1. "orders.command" \in Subjects /\ "orders.result" \in Subjects
  BY DEF Subjects
<1>2. Takes("orders.command")
  BY DEF Exec!TakeCommand, Exec!Receive, Takes
<1>3. Commands # <<>> /\ Commands' = Tail(Commands)
  BY <1>1, <1>2 DEF Book, BookTypes, QueuesOK, Takes, Commands
<1>4. QueuesOK' /\ UNCHANGED Results
  BY <1>1, <1>2 DEF Book, BookTypes, QueuesOK, Takes, Results
<1>5. m \in Exec!OrderCommands /\ Commands' \in Seq(Exec!OrderCommands)
  <2>1. Commands \in Seq(Exec!OrderCommands)
    BY DEF Book, BookTypes
  <2>2. QED
    BY <1>3, <2>1
<1>6. /\ epc # "result"
      /\ \/ epc' = "warn" /\ UNCHANGED job
         \/ epc' = "result" /\ job' = Exec!Result(m, "Rejected", 0)
         \/ epc' = "execute" /\ job' = m
  BY DEF Exec!TakeCommand, Commands
<1>7. Exec!JobOK' /\ Unreported' = Unreported
  <2>1. Exec!Result(m, "Rejected", 0) \in Exec!OrderResults
    BY <1>5 DEF Exec!OrderCommands, Exec!OrderResults, Exec!Result
  <2>2. Exec!CashDelta(Exec!Result(m, "Rejected", 0)) = 0
    BY DEF Exec!CashDelta, Exec!Result
  <2> HIDE DEF m
  <2>3. Exec!JobOK'
    BY <1>5, <1>6, <2>1 DEF Exec!JobOK
  <2>4. Unreported' = Unreported
    BY <1>6, <2>2 DEF Unreported
  <2>5. QED
    BY <2>3, <2>4
<1>8. UNCHANGED <<plan, test_orders, daily_pnl_quote, balance_usdt, unheard, streamed>>
  BY DEF Exec!TakeCommand, Exec!books, riskVars, stratVars, nodeVars
<1>9. BookTypes'
  BY <1>4, <1>5, <1>7, <1>8 DEF Book, BookTypes, Results
<1>10. RiskAgreesWithLedger'
  BY <1>4, <1>7, <1>8
  DEF Book, RiskAgreesWithLedger, InFlight, Results, Unreported
<1>11. QED
  BY <1>9, <1>10 DEF Book

\* The order is executed: what the balance moves by is what the result says.
LEMMA BookExecute ==
  ASSUME Book, UNCHANGED <<riskVars, stratVars, nodeVars>>,
         Exec!SimulateFill \/ Exec!SimulateReject \/ Exec!PlaceOrder \/ Exec!PlaceFails
  PROVE  Book'
<1>1. /\ epc = "execute" /\ Waits
      /\ UNCHANGED <<plan, test_orders, daily_pnl_quote, unheard, streamed>>
  <2>1. epc = "execute" /\ UNCHANGED Exec!bus /\ UNCHANGED Exec!books
    <3>1. CASE Exec!SimulateFill
      BY <3>1 DEF Exec!SimulateFill
    <3>2. CASE Exec!SimulateReject
      BY <3>2 DEF Exec!SimulateReject
    <3>3. CASE Exec!PlaceOrder
      BY <3>3 DEF Exec!PlaceOrder
    <3>4. CASE Exec!PlaceFails
      BY <3>4 DEF Exec!PlaceFails
    <3>5. QED
      BY <3>1, <3>2, <3>3, <3>4
  <2>2. QED
    BY <2>1 DEF Exec!books, Exec!bus, Waits, riskVars, stratVars, nodeVars
<1>2. job \in Exec!OrderCommands
  BY <1>1 DEF Book, BookTypes, Exec!JobOK
<1>3. QueuesOK' /\ UNCHANGED <<Commands, Results>>
  BY <1>1, AsideKeeps DEF Book, Kept
<1>4. job.size_quote \in Sizes
  BY <1>2 DEF Exec!OrderCommands
<1>5. ASSUME NEW status \in {"New", "Filled", "Rejected"}, NEW size \in {0, job.size_quote}
      PROVE  Exec!Result(job, status, size) \in Exec!OrderResults
  BY <1>2, <1>4 DEF Exec!OrderCommands, Exec!OrderResults, Exec!Result
<1>6. /\ epc' = "result" => job' \in Exec!OrderResults
      /\ balance_usdt' = balance_usdt + Unreported'
      /\ epc' \in {"result", "error"}
  <2>1. CASE Exec!SimulateFill
    BY <1>5, <2>1 DEF Exec!SimulateFill, Unreported
  <2>2. CASE Exec!SimulateReject \/ Exec!PlaceOrder
    <3>1. /\ epc' = "result" /\ balance_usdt' = balance_usdt
          /\ \E status \in {"New", "Rejected"} : job' = Exec!Result(job, status, 0)
      BY <2>2 DEF Exec!SimulateReject, Exec!PlaceOrder
    <3>2. Unreported' = 0
      BY <3>1 DEF Unreported, Exec!CashDelta, Exec!Result
    <3>3. QED
      BY <1>5, <3>1, <3>2 DEF Book, BookTypes
  <2>3. CASE Exec!PlaceFails
    BY <2>3 DEF Exec!PlaceFails, Unreported, Book, BookTypes
  <2>4. QED
    BY <2>1, <2>2, <2>3
<1>7. Exec!JobOK'
  BY <1>6 DEF Exec!JobOK
<1>8. Unreported = 0 /\ Unreported' \in Int
  <2>1. Unreported' \in Int
    BY <1>6, SameDelta DEF Unreported
  <2>2. QED
    BY <1>1, <2>1 DEF Unreported
<1>9. balance_usdt \in Int /\ balance_usdt' \in Int
  BY <1>6, <1>8 DEF Book, BookTypes
<1>10. BookTypes'
  BY <1>1, <1>3, <1>7, <1>9 DEF Book, BookTypes, Commands, Results
<1>11. QED
  <2>1. daily_pnl_quote' - daily_pnl_quote = 0 /\ unheard' - unheard = 0 /\ streamed' - streamed = 0
    BY <1>1 DEF Book, BookTypes
  <2>2. NetOf(Results') - NetOf(Results) = 0
    BY <1>3, NetInt DEF Book, BookTypes
  <2>3. (balance_usdt' - balance_usdt) + 0 = 0 + 0 + 0 + (Unreported' - Unreported)
    BY <1>6, <1>8, <1>9
  <2>4. RiskAgreesWithLedger'
    BY <1>10, <2>1, <2>2, <2>3, BookMoves DEF Book
  <2>5. QED
    BY <1>10, <2>4 DEF Book

\* A result that is published joins the queue of the supervisor, and its cash
\* those under way, or nobody hears of it.
LEMMA ResultSent ==
  ASSUME BookTypes, NEW res \in Exec!OrderResults, Sends("orders.result", res)
  PROVE  /\ QueuesOK' /\ UNCHANGED Commands
         /\ Results' \in Seq(Exec!OrderResults)
         /\ Exec!Heard(res) \in Int
         /\ NetOf(Results) \in Int
         /\ NetOf(Results') = NetOf(Results) + Exec!Heard(res)
<1>1. "orders.command" \in Subjects /\ "orders.result" \in Subjects
  BY DEF Subjects
<1>2. QueuesOK' /\ UNCHANGED Commands
  BY <1>1 DEF BookTypes, QueuesOK, Sends, Commands
<1>3. Results \in Seq(Exec!OrderResults) /\ NetOf(Results) \in Int
  BY NetInt DEF BookTypes
<1>4. CASE "orders.result" \in subscribed
  <2>1. Results' = Append(Results, res)
    BY <1>1, <1>4 DEF BookTypes, QueuesOK, Sends, Results
  <2>2. NetOf(Results') = NetOf(Results) + Risk!PnlDelta(res)
    BY <1>3, <2>1, SameDelta, NetAppend
  <2>3. Exec!Heard(res) = Risk!PnlDelta(res)
    BY <1>4, SameDelta DEF Exec!Heard
  <2>4. NetOf(Results') = NetOf(Results) + Exec!Heard(res)
    BY <2>2, <2>3, Zenon
  <2>5. Exec!Heard(res) \in Int
    BY <2>3, SameDelta, Zenon
  <2>6. Results' \in Seq(Exec!OrderResults)
    BY <1>3, <2>1
  <2>7. QED
    BY <1>2, <1>3, <2>4, <2>5, <2>6
<1>5. CASE "orders.result" \notin subscribed
  <2>1. Results' = Results /\ Exec!Heard(res) = 0
    BY <1>5 DEF Sends, Results, Exec!Heard
  <2>2. QED
    BY <1>2, <1>3, <2>1
<1>6. QED
  BY <1>4, <1>5

\* The execution service's result: its cash is on the way now, or unheard.
LEMMA BookPublishResult ==
  ASSUME Book, Exec!PublishResult, UNCHANGED <<riskVars, stratVars, nodeVars>>
  PROVE  Book'
<1>1. /\ Sends("orders.result", job) /\ epc = "result" /\ epc' = "info"
      /\ unheard' = unheard + Exec!CashDelta(job) - Exec!Heard(job)
      /\ UNCHANGED <<job, balance_usdt, streamed, plan, test_orders, daily_pnl_quote>>
  BY DEF Exec!PublishResult, Exec!Publish, Exec!ExecGives, Sends, riskVars, stratVars,
      nodeVars
<1>2. job \in Exec!OrderResults
  BY <1>1 DEF Book, BookTypes, Exec!JobOK
<1>3. /\ QueuesOK' /\ UNCHANGED Commands /\ Results' \in Seq(Exec!OrderResults)
      /\ NetOf(Results') = NetOf(Results) + Exec!Heard(job)
  BY <1>1, <1>2, ResultSent DEF Book
<1>4. PICK c \in Int, h \in Int, a \in Int :
        c = Exec!CashDelta(job) /\ h = Exec!Heard(job) /\ a = NetOf(Results)
  BY <1>1, <1>2, SameDelta, ResultSent DEF Book
<1>5. unheard' = unheard + c - h /\ unheard \in Int
  BY <1>1, <1>4 DEF Book, BookTypes
<1>6. BookTypes'
  BY <1>1, <1>2, <1>3, <1>5 DEF Book, BookTypes, Exec!JobOK, Commands
<1>7. Unreported = c /\ Unreported' = 0
  BY <1>1, <1>4 DEF Unreported
<1>8. QED
  <2>1. /\ daily_pnl_quote' - daily_pnl_quote = 0 /\ balance_usdt' - balance_usdt = 0
        /\ streamed' - streamed = 0
    BY <1>1 DEF Book, BookTypes
  <2>2. NetOf(Results') = a + h
    BY <1>3, <1>4, Zenon
  <2>3. 0 + 0 = 0 + (NetOf(Results') - NetOf(Results)) + (unheard' - unheard)
                + (Unreported' - Unreported)
    BY <1>4, <1>5, <1>7, <2>2
  <2>4. RiskAgreesWithLedger'
    BY <1>6, <2>1, <2>3, BookMoves DEF Book
  <2>5. QED
    BY <1>6, <2>4 DEF Book

\* The private stream's result by-passes the ledger.
LEMMA BookStream ==
  ASSUME Book, ExecStream PROVE Book'
<1>1. CASE Exec!StreamReport
  <2>1. PICK res \in Exec!OrderResults :
          Sends("orders.result", res) /\ streamed' = streamed + Exec!Heard(res)
    BY <1>1 DEF Exec!StreamReport, Exec!Publish, Sends
  <2>2. UNCHANGED <<epc, job, balance_usdt, unheard, plan, test_orders, daily_pnl_quote>>
    BY <1>1 DEF ExecStream, Exec!StreamReport, riskVars, stratVars, nodeVars
  <2>3. /\ QueuesOK' /\ UNCHANGED Commands /\ Results' \in Seq(Exec!OrderResults)
        /\ NetOf(Results') = NetOf(Results) + Exec!Heard(res)
    BY <2>1, ResultSent DEF Book
  <2>4. PICK h \in Int, a \in Int : h = Exec!Heard(res) /\ a = NetOf(Results)
    BY <2>1, ResultSent DEF Book
  <2>5. streamed' = streamed + h /\ streamed \in Int
    BY <2>1, <2>4 DEF Book, BookTypes
  <2>6. BookTypes'
    BY <2>2, <2>3, <2>5 DEF Book, BookTypes, Exec!JobOK, Commands
  <2>7. /\ daily_pnl_quote' - daily_pnl_quote = 0 /\ balance_usdt' - balance_usdt = 0
        /\ unheard' - unheard = 0 /\ Unreported' - Unreported = 0
    <3>1. Unreported' = Unreported /\ Unreported \in Int
      BY <2>2, UnreportedInt DEF Unreported, Book, BookTypes
    <3>2. QED
      BY <2>2, <3>1 DEF Book, BookTypes
  <2>8. NetOf(Results') = a + h
    BY <2>3, <2>4, Zenon
  <2>9. 0 + (streamed' - streamed) = 0 + (NetOf(Results') - NetOf(Results)) + 0 + 0
    BY <2>4, <2>5, <2>8
  <2>10. RiskAgreesWithLedger'
    BY <2>6, <2>7, <2>9, BookMoves DEF Book
  <2>11. QED
    BY <2>6, <2>10 DEF Book
<1>2. CASE Exec!StreamWaits
  <2>1. Waits /\ UNCHANGED <<epc, job, balance_usdt, unheard, streamed>>
    BY <1>2
    DEF Exec!StreamWaits, Exec!AwaitRoom, Exec!HoldLock, Exec!execVars, Exec!books, Waits
  <2>2. QED
    BY <2>1, AsideKeeps, BookFrame
    DEF ExecStream, riskVars, stratVars, nodeVars, Unreported, Book, BookTypes, Exec!JobOK
<1>3. QED
  BY <1>1, <1>2 DEF ExecStream, Exec!StreamTask

\* Of the main task's other steps none has a result in its hands to lose.
LEMMA BookExecMain ==
  ASSUME Book, ExecMain PROVE Book'
<1>1. UNCHANGED <<riskVars, stratVars, nodeVars>>
  BY DEF ExecMain
<1>2. CASE Exec!TakeCommand
  BY <1>1, <1>2, BookTakeCommand
<1>3. CASE Exec!SimulateFill \/ Exec!SimulateReject \/ Exec!PlaceOrder \/ Exec!PlaceFails
  BY <1>1, <1>3, BookExecute
<1>4. CASE Exec!PublishResult
  BY <1>1, <1>4, BookPublishResult
<1>5. CASE \/ Exec!PublishStarted \/ Exec!SubscribeCommand \/ Exec!SubscribeConfig
           \/ Exec!PublishInfo \/ Exec!PublishTrade \/ Exec!PublishError
           \/ Exec!PublishWarn \/ Exec!TakeConfig \/ Exec!ExecWaits
  <2>1. Kept
    <3>1. CASE Exec!SubscribeCommand \/ Exec!SubscribeConfig
      <4>1. \E s \in Subjects : Joins(s)
        BY <3>1
        DEF Exec!SubscribeCommand, Exec!SubscribeConfig, Exec!SubscribeMain, Exec!ExecTakes,
                    Exec!Subscribe, Joins, Subjects
      <4>2. QED
        BY <4>1, AsideKeeps DEF Book
    <3>2. CASE Exec!TakeConfig
      <4>1. \E s \in Aside : Takes(s)
        BY <3>2 DEF Exec!TakeConfig, Exec!Receive, Takes, Subjects, Aside
      <4>2. QED
        BY <4>1, AsideKeeps DEF Book
    <3>3. CASE \/ Exec!PublishStarted \/ Exec!PublishInfo \/ Exec!PublishError
               \/ Exec!PublishWarn \/ Exec!PublishTrade
      <4>1. \E s \in Aside : \E m : Sends(s, m)
        BY <3>3 DEF Exec!PublishStarted, Exec!PublishInfo, Exec!PublishError,
                    Exec!PublishWarn, Exec!PublishLog, Exec!PublishTrade, Exec!ExecGives,
                    Exec!Publish, Sends, Subjects, Aside
      <4>2. QED
        BY <4>1, AsideKeeps DEF Book
    <3>4. CASE Exec!ExecWaits
      BY <3>4, AsideKeeps
      DEF Exec!ExecWaits, Exec!AwaitRoom, Exec!HoldLock, Exec!Ask, Waits, Book
    <3>5. QED
      BY <1>5, <3>1, <3>2, <3>3, <3>4
  <2>2. /\ UNCHANGED <<balance_usdt, unheard, streamed>>
        /\ \/ UNCHANGED <<epc, job>>
           \/ /\ epc # "result"
              /\ epc' \notin {"execute", "result"}
              /\ epc' \in {"info", "trade"} => epc = "info" /\ UNCHANGED job
    BY <1>5 DEF Exec!PublishStarted, Exec!SubscribeCommand, Exec!SubscribeConfig,
       Exec!SubscribeMain, Exec!ExecTakes, Exec!PublishInfo, Exec!PublishTrade, Exec!PublishError,
       Exec!PublishWarn, Exec!PublishLog, Exec!TakeConfig, Exec!ExecWaits, Exec!execVars,
       Exec!books
  <2>3. Exec!JobOK' /\ UNCHANGED Unreported
    BY <2>2 DEF Book, BookTypes, Exec!JobOK, Unreported
  <2>4. QED
    BY <1>1, <2>1, <2>2, <2>3, BookFrame DEF riskVars, stratVars, nodeVars
<1>6. QED
  BY <1>2, <1>3, <1>4, <1>5 DEF ExecMain, Exec!MainTask

\* The flag tasks of the execution service.
LEMMA BookExecFlags ==
  ASSUME Book, ExecBlock \/ ExecReset PROVE Book'
<1>1. UNCHANGED <<riskVars, stratVars, test_orders>>
  BY DEF ExecBlock, ExecReset, nodeVars
<1>2. UNCHANGED <<epc, job, balance_usdt, unheard, streamed>>
  BY DEF ExecBlock, ExecReset, Exec!SubscribeBlock, Exec!SubscribeReset, Exec!FlagWaits,
         Exec!SubscribeFlag, Exec!BlockTask, Exec!ResetTask, Exec!execVars, Exec!books
<1>3. Kept
  <2>1. \/ Waits
        \/ \E s \in Subjects : Joins(s)
        \/ \E s \in Aside : Takes(s)
    BY DEF ExecBlock, ExecReset, Exec!SubscribeBlock, Exec!SubscribeReset, Exec!FlagWaits,
           Exec!Ask, Waits,
           Exec!SubscribeFlag, Exec!BlockTask, Exec!ResetTask, Exec!Subscribe, Joins, Exec!Receive, Takes, Subjects, Aside
  <2>2. QED
    BY <2>1, AsideKeeps DEF Book
<1>4. QED
  BY <1>1, <1>2, <1>3, BookFrame
  DEF riskVars, stratVars, Book, BookTypes, Exec!JobOK, Unreported

\* A step that adds a command and changes nothing else of the book.
LEMMA BookCommand ==
  ASSUME Book, NEW m \in Exec!OrderCommands, Sends("orders.command", m),
         UNCHANGED <<epc, job, balance_usdt, unheard, streamed, daily_pnl_quote>>,
         plan' \in [Symbols -> Seq(PlannedOrders)], test_orders' \subseteq test_orders
  PROVE  Book'
<1>1. /\ QueuesOK' /\ UNCHANGED Results
      /\ Commands' \in Seq(Exec!OrderCommands)
  BY CommandQueued DEF Book
<1>2. BookTypes'
  BY <1>1 DEF Book, BookTypes, Results, Exec!JobOK
<1>3. RiskAgreesWithLedger'
  BY <1>1 DEF Book, RiskAgreesWithLedger, InFlight, Results
<1>4. QED
  BY <1>2, <1>3 DEF Book

\* The strategy host's orders are commands.
LEMMA BookStrat ==
  ASSUME Book, (\E s \in Symbols : StratPair(s)) \/ StratFlags PROVE Book'
<1>1. UNCHANGED <<epc, job, balance_usdt, unheard, streamed, daily_pnl_quote, test_orders>>
  BY DEF StratPair, StratFlags, riskVars, execVars, nodeVars
<1>2. ASSUME NEW s \in Symbols, Strat!PublishOrder(s) PROVE Book'
  <2>1. /\ plan[s] # <<>> /\ plan' = [plan EXCEPT ![s] = Tail(@)]
        /\ Sends("orders.command", Strat!Command(s, Head(plan[s])))
    BY <1>2 DEF Strat!PublishOrder, Strat!Publish, Sends
  <2>2. plan[s] \in Seq(PlannedOrders) /\ plan \in [Symbols -> Seq(PlannedOrders)]
    BY DEF Book, BookTypes
  <2>3. Head(plan[s]) \in PlannedOrders /\ Tail(plan[s]) \in Seq(PlannedOrders)
    BY <2>1, <2>2
  <2>4. Strat!Command(s, Head(plan[s])) \in Exec!OrderCommands
    BY <2>3, OrderAssumption
  <2>5. plan' \in [Symbols -> Seq(PlannedOrders)]
    BY <2>1, <2>2, <2>3
  <2>6. QED
    BY <1>1, <2>1, <2>4, <2>5, BookCommand
<1>3. ASSUME Kept, plan' \in [Symbols -> Seq(PlannedOrders)] PROVE Book'
  BY <1>1, <1>3 DEF Book, BookTypes, Kept, RiskAgreesWithLedger, InFlight,
     Commands, Results, Exec!JobOK
<1>4. ASSUME NEW s \in Symbols,
             \/ Strat!StartPair(s) \/ Strat!TakeSnapshot(s)
             \/ Strat!PublishDecision(s) \/ Strat!PairWaits(s)
      PROVE  Book'
  <2>1. Waits \/ \E x \in Aside : \E m : Sends(x, m)
    BY <1>4 DEF Strat!StartPair, Strat!TakeSnapshot, Strat!PublishDecision, Strat!PairWaits,
                Strat!AwaitRoom, Strat!HoldLock, Strat!Ask, Strat!bus, Strat!Publish,
                Sends, Waits, Subjects, Aside
  <2>2. \/ UNCHANGED plan
        \/ \E p \in Plans : plan' = [plan EXCEPT ![s] = p]
    BY <1>4 DEF Strat!StartPair, Strat!TakeSnapshot, Strat!PublishDecision, Strat!PairWaits,
                Strat!stratVars
  <2>3. plan' \in [Symbols -> Seq(PlannedOrders)]
    <3>1. Plans \subseteq Seq(PlannedOrders)
      BY OrderAssumption
    <3>2. QED
      BY <2>2, <3>1 DEF Book, BookTypes
  <2>4. QED
    BY <1>3, <2>1, <2>3, AsideKeeps DEF Book
<1>5. CASE StratFlags
  <2>1. \/ Waits
        \/ \E s \in Subjects : Joins(s)
        \/ \E s \in Aside : Takes(s)
    BY <1>5
    DEF StratFlags, Strat!FlagWaits, Strat!Ask, Waits, Strat!FlagTasks,
        Strat!SubscribePause, Strat!SubscribeResume,
           Strat!SubscribeFlag, Strat!PauseTask, Strat!ResumeTask, Strat!Subscribe, Joins, Strat!Receive, Takes, Subjects, Aside
  <2>2. UNCHANGED plan
    BY <1>5 DEF StratFlags, Strat!FlagTasks, Strat!SubscribePause, Strat!SubscribeResume,
           Strat!SubscribeFlag, Strat!FlagWaits, Strat!PauseTask, Strat!ResumeTask,
           Strat!stratVars
  <2>3. QED
    BY <1>3, <2>1, <2>2, AsideKeeps DEF Book, BookTypes
<1>6. QED
  BY <1>2, <1>4, <1>5 DEF StratPair, Strat!PairTask

\* The operator, the clock, the test order and the sessions.
LEMMA BookOutside ==
  ASSUME Book, Outside PROVE Book'
<1>1. UNCHANGED <<epc, job, balance_usdt, unheard, streamed, plan, daily_pnl_quote>>
  BY DEF Outside, ErrorsAge, ApiReset, ApiResetExec, ApiOther, TestOrder, TestOrderWaits,
         SessionAsks, SessionJoins, riskVars, execVars, stratVars, Risk!riskVars,
         Risk!ErrorsAge, Risk!ResetCircuit, Risk!ResetExec, Risk!ResumeAll,
         Risk!PublishFromReset, Risk!ResetWaits, Risk!BlockThread
<1>2. CASE TestOrder
  <2>1. PICK c \in test_orders :
          Sends("orders.command", c) /\ test_orders' = test_orders \ {c}
    BY <1>2 DEF TestOrder, Publish, Sends
  <2>2. c \in Exec!OrderCommands
    BY <2>1, OrderAssumption DEF Book, BookTypes
  <2>3. plan' \in [Symbols -> Seq(PlannedOrders)]
    BY <1>1 DEF Book, BookTypes
  <2>4. QED
    BY <1>1, <2>1, <2>2, <2>3, BookCommand
<1>3. CASE Outside /\ ~TestOrder
  <2>1. ASSUME \/ ErrorsAge \/ ApiReset \/ Risk!ResetWaits \/ Risk!BlockThread
               \/ TestOrderWaits \/ SessionAsks \/ SessionJoins
        PROVE  Kept
    <3>1. Waits
      BY <2>1 DEF ErrorsAge, ApiReset, TestOrderWaits, SessionAsks, SessionJoins,
         Risk!ErrorsAge, Risk!ResetCircuit, Risk!ResetWaits, Risk!BlockThread,
         Risk!AwaitRoom, Risk!HoldLock, Risk!bus, AwaitRoom, HoldLock, Ask, Waits
    <3>2. QED
      BY <3>1, AsideKeeps DEF Book
  <2>2. ASSUME Risk!ResetExec \/ Risk!ResumeAll PROVE Kept
    <3>1. \E s \in Aside : \E m : Sends(s, m)
      BY <2>2 DEF Risk!ResetExec, Risk!ResumeAll, Risk!PublishFromReset,
         Risk!ResetGives, Risk!Publish, Sends, Subjects, Aside
    <3>2. QED
      BY <3>1, AsideKeeps DEF Book
  <2>3. Kept
    BY <1>3, <2>1, <2>2 DEF Outside, ApiResetExec, ApiOther
  <2>4. UNCHANGED test_orders
    BY <1>3 DEF Outside, ErrorsAge, ApiReset, ApiResetExec, ApiOther, TestOrderWaits,
         SessionAsks, SessionJoins, nodeVars
  <2>5. QED
    BY <1>1, <2>3, <2>4, BookFrame DEF Book, BookTypes, Exec!JobOK, Unreported
<1>4. QED
  BY <1>2, <1>3

\* The supervisor's book is the execution service's ledger, up to the results
\* on their way, but for what only one of them ever hears of: the results that
\* were published before the supervisor subscribed, and those of the private
\* stream. No other fill is lost, counted twice or counted with another sign,
\* whatever the commands, the configurations, the capacity of the queues, the
\* order in which the services start and the moment of resets and sessions.
THEOREM BooksAgree == Spec => []RiskAgreesWithLedger
<1>1. Init => Book
  <2> SUFFICES ASSUME Init PROVE Book
    OBVIOUS
  <2>1. "orders.command" \in Subjects /\ "orders.result" \in Subjects
    BY DEF Subjects
  <2>2. QueuesOK /\ Commands = <<>> /\ Results = <<>>
    BY <2>1 DEF Init, BusInit, QueuesOK, Commands, Results
  <2>3. /\ epc \in {"select", "started"} /\ unheard = 0 /\ streamed = 0
        /\ balance_usdt = InitialBalance /\ daily_pnl_quote = 0
        /\ plan = [s \in Symbols |-> <<>>] /\ test_orders = TestOrders
    BY DEF Init, Exec!ExecInit, Risk!RiskInit, Strat!StratInit
  <2>4. BookTypes
    BY <2>2, <2>3, AmountAssumption DEF BookTypes, Exec!JobOK
  <2>5. RiskAgreesWithLedger
    <3>1. InFlight = 0
      BY <2>2, NetEmpty DEF InFlight, Results
    <3>2. QED
      BY <2>3, <3>1, AmountAssumption DEF RiskAgreesWithLedger
  <2>6. QED
    BY <2>4, <2>5 DEF Book
<1>2. Book /\ [Next]_vars => Book'
  <2> SUFFICES ASSUME Book, [Next]_vars PROVE Book'
    OBVIOUS
  <2>1. CASE UNCHANGED vars
    BY <2>1 DEF vars, bus, riskVars, execVars, stratVars, nodeVars, Book, BookTypes,
       QueuesOK, Commands, Results, Exec!JobOK, RiskAgreesWithLedger, InFlight
  <2>2. QED
    BY <2>1, BookRiskWorker, BookExecMain, BookExecFlags, BookStream, BookStrat, BookOutside
       DEF Next, Outside
<1>3. Book => RiskAgreesWithLedger
  BY DEF Book
<1>4. QED
  BY <1>1, <1>2, <1>3, PTL DEF Spec
====
