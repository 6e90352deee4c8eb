---- MODULE DataPlane ----
(***************************************************************************)
(* Ticks and replayed snapshots on their way through the node: market data  *)
(* and backtests publish snapshots, a strategy task per pair decides, the   *)
(* execution task executes, and the log service joins what they log. All    *)
(* have subscribed but for the metrics of backtests and web socket sessions; *)
(* pausing, risk and the books are in TradingNode.                          *)
(***************************************************************************)
EXTENDS Backtest, LogService

CONSTANTS
  Feeds,       \* the feeds the node may have
  ExecModes,   \* the values exec_live may have
  MaxOrders    \* bound on the orders the strategies plan

ASSUME InputsAssumption == MaxInputs \in Nat /\ MaxOrders \in Nat

VARIABLES
  spc,         \* pair -> what its strategy task still has to publish
  fresh,       \* trace ids made by strategies, after those of the ticks
  planned,     \* orders planned so far
  epc,         \* where the execution task is with its job
  job,         \* the order it executes
  exec_live,   \* execution is in LiveOkx mode with a client
  traded,      \* history: the orders sent to the exchange
  sessions     \* subscriptions of sessions that had to wait for the lock

tradeVars == <<spc, fresh, planned, epc, job, exec_live, traded, sessions>>
vars == <<bus, marketVars, backtestVars, logVars, tradeVars>>

NoJob == [trace |-> 0, replayed |-> FALSE]
\* Bounds: what is left of the inputs.
InputsLeft ==
  MaxInputs - (2 * tick.trace + 2 * runs + planned + Cardinality(failed) + 2 * sessions)
            - (IF feed = "none" THEN 2 ELSE 0)
Least(a, b) == IF a < b THEN a ELSE b

Idle == [orders |-> 0, decided |-> FALSE, job |-> NoJob]

Init ==
  /\ BusInit({"orders.command", "log.event", "log.trade"})
  /\ MarketInit(Feeds)
  /\ BacktestInit(feed = "none")
  /\ LogInit
  /\ spc = [p \in PairSet |-> Idle]
  /\ fresh = MaxTicks
  /\ planned = 0
  /\ epc = "select" /\ job = NoJob
  /\ exec_live \in ExecModes
  /\ traded = {}
  /\ sessions = 0

----
\* handle_snapshot: the plan for a snapshot; one without a trace id gets its own.
Decide(p) ==
  /\ spc[p] = Idle /\ market[p] # <<>>
  /\ market' = [market EXCEPT ![p] = Tail(@)]
  /\ LET replayed == Head(market[p]).trace = NoTrace
         trace == IF replayed THEN fresh + 1 ELSE Head(market[p]).trace
     IN /\ fresh' = IF replayed THEN fresh + 1 ELSE fresh
        /\ \E n \in 0..Least(MaxOrders - planned, InputsLeft) :
             /\ planned' = planned + n
             /\ spc' = [spc EXCEPT ![p] = [orders |-> n, decided |-> TRUE,
                          job |-> [trace |-> trace, replayed |-> replayed]]]
  /\ UNCHANGED <<feed, dpc, tick, history, rows, bus, backtestVars, logVars,
                 epc, job, exec_live, traded, sessions>>

\* The commands of the plan, one after the other.
PublishCommand(p) ==
  /\ spc[p].orders > 0
  /\ Publish(p, "orders.command", spc[p].job)
  /\ spc' = [spc EXCEPT ![p].orders = @ - 1]
  /\ UNCHANGED <<marketVars, backtestVars, logVars, fresh, planned, epc, job, exec_live, traded,
                 sessions>>

\* Then the decision, which an order's result may overtake.
PublishDecision(p) ==
  /\ spc[p].decided /\ spc[p].orders = 0
  /\ Publish(p, "log.event", [trace |-> spc[p].job.trace, stage |-> "strategy_decision"])
  /\ spc' = [spc EXCEPT ![p] = Idle]
  /\ UNCHANGED <<marketVars, backtestVars, logVars, fresh, planned, epc, job, exec_live, traded,
                 sessions>>

StrategyWaits(p) ==
  /\ spc[p].decided
  /\ AwaitRoom(p, IF spc[p].orders > 0 THEN "orders.command" ELSE "log.event")
  /\ UNCHANGED <<marketVars, backtestVars, logVars, tradeVars>>

StrategyTask(p) == Decide(p) \/ PublishCommand(p) \/ PublishDecision(p) \/ StrategyWaits(p)

\* The execution task takes a command; live, it goes to the exchange.
Execute ==
  /\ epc = "select" /\ epc' = "result"
  /\ Receive("orders.command")
  /\ job' = Head(chan["orders.command"])
  /\ traded' = IF exec_live THEN traded \cup {job'} ELSE traded
  /\ UNCHANGED <<marketVars, backtestVars, logVars, spc, fresh, planned, exec_live, sessions>>

\* Live, the call is taken as answered with New; what else can become of it, and
\* of the order, is in LiveTrading.
PublishResult ==
  /\ epc = "result" /\ epc' = "event"
  /\ \E res \in (IF exec_live THEN {"New"} ELSE {"Filled", "Rejected"}) : DeliverResult("exec", res)
  /\ UNCHANGED <<chan, subscribed, marketVars, status, bpc, snaps, last_ts, listening, trades, runs,
                 logVars, spc, fresh, planned, job, exec_live, traded, sessions>>

PublishOrderEvent ==
  /\ epc = "event" /\ epc' = "trade"
  /\ Publish("exec", "log.event", [trace |-> job.trace, stage |-> "order_result"])
  /\ UNCHANGED <<marketVars, backtestVars, logVars, spc, fresh, planned, job, exec_live, traded,
                 sessions>>

PublishTrade ==
  /\ epc = "trade" /\ epc' = "select"
  /\ Publish("exec", "log.trade", job.trace)
  /\ job' = NoJob
  /\ UNCHANGED <<marketVars, backtestVars, logVars, spc, fresh, planned, exec_live, traded, sessions>>

ExecGives == [result |-> "orders.result", event |-> "log.event", trade |-> "log.trade"]
ExecWaits ==
  /\ epc \in DOMAIN ExecGives /\ AwaitRoom("exec", ExecGives[epc])
  /\ UNCHANGED <<marketVars, backtestVars, logVars, tradeVars>>

ExecTask == Execute \/ PublishResult \/ PublishOrderEvent \/ PublishTrade \/ ExecWaits

----
Feed ==
  /\ dpc = "tick" => InputsLeft >= 2
  /\ FeedTask
  /\ UNCHANGED <<backtestVars, logVars, tradeVars>>
Writer == WriteHistory /\ UNCHANGED <<backtestVars, logVars, tradeVars>>
Start == InputsLeft >= 2 /\ StartBacktest /\ UNCHANGED <<logVars, tradeVars>>
Engine(e) == EngineTask(e) /\ UNCHANGED <<logVars, tradeVars>>
Metrics(e) == RecordResult(e) /\ UNCHANGED <<logVars, tradeVars>>
Log ==
  /\ LogTask
  /\ Cardinality(failed') - Cardinality(failed) <= InputsLeft
  /\ UNCHANGED <<marketVars, backtestVars, tradeVars>>

\* A session subscribes and from then on drains what it gets; without a
\* publisher in the lock nobody notices.
SessionAsks ==
  /\ InputsLeft >= 2 /\ sessions' = sessions + 1
  /\ Ask("session")
  /\ UNCHANGED <<marketVars, backtestVars, logVars, spc, fresh, planned, epc, job, exec_live, traded>>

SessionJoins ==
  /\ "session" \in asking /\ PassAsWriter("session")
  /\ UNCHANGED <<chan, subscribed, marketVars, backtestVars, logVars, tradeVars>>

Next ==
  \/ Feed \/ Writer \/ Start \/ Log \/ ExecTask \/ SessionAsks \/ SessionJoins
  \/ \E e \in Engines : Engine(e) \/ Metrics(e)
  \/ \E p \in PairSet : StrategyTask(p)

Spec == Init /\ [][Next]_vars

\* The runtime polls every task that can go on. Nobody has to start a backtest,
\* and the store's writer may hang.
Fairness ==
  /\ WF_vars(Feed) /\ WF_vars(Log) /\ WF_vars(ExecTask)
  /\ \A e \in Engines : WF_vars(Engine(e)) /\ WF_vars(Metrics(e))
  /\ \A p \in PairSet : WF_vars(StrategyTask(p))

FairSpec == Spec /\ Fairness

----
TypeOK ==
  /\ dpc \in {"tick", "publish", "history", "log"} /\ tick.trace \in 0..MaxTicks
  /\ feed = "none" => tick = NoTick
  /\ \A p \in PairSet : Len(market[p]) <= Cap /\ \A i \in DOMAIN market[p] : market[p][i].pair = p
  /\ Len(history) <= HistoryCap
  /\ Stored \subseteq rows
  /\ status.running \in BOOLEAN /\ status.result \subseteq Nat
  /\ \A e \in Engines : Len(results[e]) <= Cap
  /\ fresh \in Traces \cup {0} /\ planned <= MaxOrders
  /\ Cardinality(failed) <= MaxFailures
  /\ epc \in {"select", "result", "event", "trade"}
  /\ epc = "select" => job = NoJob

\* "Strict separation between simulation and live execution" (CONTRIBUTING.md):
\* no order that answers a replayed snapshot goes to the exchange. But a backtest
\* publishes on the subjects of the live feed, and neither the coordinator nor the
\* execution service asks for the mode.
ReplayNeverTradesLive == \A o \in traded : ~o.replayed
====
