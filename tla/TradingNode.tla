---- MODULE TradingNode ----
(***************************************************************************)
(* The trading path of a node (w2uos-node/src/main.rs): the strategy host,  *)
(* the execution service and the risk supervisor on one bus, with the test  *)
(* order that main publishes after start_all and the operator's calls of    *)
(* POST /risk/reset_circuit. Every service starts by spawning its tasks, so *)
(* their subscriptions race each other; Booted skips that phase.            *)
(*                                                                          *)
(* Web socket sessions (w2uos-api/src/server.rs) subscribe at any time: one *)
(* that finds publishers in the lock keeps everybody else out of it.        *)
(*                                                                          *)
(* The configuration manager and market data are not part of this module:   *)
(* no configuration update arrives, and snapshots are always at hand.       *)
(***************************************************************************)
EXTENDS BusChannels, Integers

CONSTANTS
  Symbols, Sizes,
  RiskConfigs, RiskDefault,
  LimitPrices, InitialBalance, FillStart, FillStep, Scale,
  ExecConfigs, ExecStarts, MaxReports,
  PlannedOrders, Plans, MaxPlan, MaxSnapshots,
  Booted,        \* TRUE: every task has subscribed in Init
  TestOrders,    \* the commands main may publish after start_all: at most one
  MaxRequests    \* bound on the calls of the API that the bus notices

VARIABLES
  rpc, daily_pnl_quote, exposure, circuit_breaker_active, last_errors,
  risk_config, api_active, apc, unevaluated,
  epc, job, balance_usdt, positions, fill_counter, block_new_orders,
  exec_config, okx_client, streaming, reported, unheard, streamed, late,
  spc, plan, paused, overrun, snapshots,
  test_orders,   \* the test orders not yet published
  resets,        \* reset calls made
  issued,        \* history: for each queued reset, was the breaker set when it was issued?
  sessions       \* subscriptions of sessions that had to wait

Risk == INSTANCE RiskSupervisor
          WITH Connected <- Booted, Listeners <- {}, MaxEvents <- 0, events <- 0
Exec == INSTANCE ExecutionService
          WITH ExecConnected <- Booted, MaxInputs <- 0, inputs <- 0
Strat == INSTANCE StrategyHost
          WITH StratConnected <- Booted, MaxSignals <- 0, signals <- 0

riskVars == <<rpc, daily_pnl_quote, exposure, circuit_breaker_active,
              last_errors, risk_config, api_active, apc, unevaluated>>
execVars == <<epc, job, balance_usdt, positions, fill_counter,
              block_new_orders, exec_config, okx_client, streaming,
              <<reported, unheard, streamed>>, late>>
stratVars == <<spc, plan, paused, overrun, snapshots>>
nodeVars == <<test_orders, resets, issued, sessions>>
vars == <<bus, riskVars, execVars, stratVars, nodeVars>>

ASSUME AmountAssumption == Sizes \subseteq Nat /\ InitialBalance \in Nat

\* What the engines plan and main publishes are order commands.
ASSUME OrderAssumption ==
  /\ Plans \subseteq Seq(PlannedOrders)
  /\ \A s \in Symbols : \A o \in PlannedOrders : Strat!Command(s, o) \in Exec!OrderCommands
  /\ TestOrders \subseteq Exec!OrderCommands

----
Init ==
  /\ BusInit(IF Booted THEN Risk!RiskSubjects \cup Exec!ExecSubjects \cup Strat!StratSubjects
             ELSE {})
  /\ Risk!RiskInit
  /\ Exec!ExecInit
  /\ Strat!StratInit
  /\ test_orders = TestOrders
  /\ resets = 0
  /\ issued = <<>>
  /\ sessions = 0

RiskWorker == Risk!Worker /\ UNCHANGED <<execVars, stratVars, nodeVars>>
ErrorsAge == Risk!ErrorsAge /\ UNCHANGED <<execVars, stratVars, nodeVars>>
ExecMain == Exec!MainTask /\ UNCHANGED <<riskVars, stratVars, nodeVars>>

ExecBlock ==
  /\ Exec!SubscribeBlock \/ Exec!SubscribeReset \/ Exec!FlagWaits \/ Exec!BlockTask
  /\ UNCHANGED <<riskVars, stratVars, nodeVars>>

ExecReset ==
  /\ Exec!ResetTask
  /\ issued' = Tail(issued)
  /\ UNCHANGED <<riskVars, stratVars, test_orders, resets, sessions>>

ExecStream == Exec!StreamTask /\ UNCHANGED <<riskVars, stratVars, nodeVars>>

StratPair(s) == Strat!PairTask(s) /\ UNCHANGED <<riskVars, execVars, nodeVars>>
StratFlags == Strat!FlagTasks /\ UNCHANGED <<riskVars, execVars, nodeVars>>

\* The operator's call; it is answered whether or not the breaker is set.
ApiReset ==
  /\ resets + sessions < MaxRequests
  /\ resets' = resets + 1
  /\ Risk!ResetCircuit
  /\ UNCHANGED <<execVars, stratVars, test_orders, issued, sessions>>

ApiResetExec ==
  /\ Risk!ResetExec
  /\ issued' = IF "control.exec.reset_circuit" \in subscribed
               THEN Append(issued, circuit_breaker_active) ELSE issued
  /\ UNCHANGED <<execVars, stratVars, test_orders, resets, sessions>>

ApiOther ==
  /\ Risk!ResumeAll \/ Risk!ResetWaits \/ Risk!BlockThread
  /\ UNCHANGED <<execVars, stratVars, nodeVars>>

\* The test order of main, published 200 ms after start_all.
TestOrder ==
  \E c \in test_orders :
    /\ Publish("main", "orders.command", c)
    /\ test_orders' = test_orders \ {c}
    /\ UNCHANGED <<riskVars, execVars, stratVars, resets, issued, sessions>>

TestOrderWaits ==
  /\ test_orders # {} /\ AwaitRoom("main", "orders.command")
  /\ UNCHANGED <<riskVars, execVars, stratVars, nodeVars>>

\* A session subscribes to a subject, and from then on drains what it gets.
\* Without a publisher in the lock nobody notices.
SessionAsks ==
  /\ resets + sessions < MaxRequests
  /\ sessions' = sessions + 1
  /\ Ask("session")
  /\ UNCHANGED <<riskVars, execVars, stratVars, test_orders, resets, issued>>

SessionJoins ==
  /\ "session" \in asking /\ PassAsWriter("session")
  /\ UNCHANGED <<chan, subscribed, riskVars, execVars, stratVars, nodeVars>>

Next ==
  \/ RiskWorker \/ ErrorsAge
  \/ ExecMain \/ ExecBlock \/ ExecReset \/ ExecStream
  \/ \E s \in Symbols : StratPair(s)
  \/ StratFlags
  \/ ApiReset \/ ApiResetExec \/ ApiOther
  \/ TestOrder \/ TestOrderWaits
  \/ SessionAsks \/ SessionJoins

Spec == Init /\ [][Next]_vars

\* The tasks that act on a trip run when they can (tokio). Nothing is asked of
\* the others: the strategies, the execution of orders, the calls of the API and
\* the exchange may stop anywhere, also while they hold the lock.
FairSpec == Spec /\ WF_vars(RiskWorker) /\ WF_vars(ExecBlock) /\ WF_vars(StratFlags)

----
\* The net cash of the results on their way to the supervisor.
NetOf(q) ==
  LET net[i \in 0..Len(q)] == IF i = 0 THEN 0 ELSE net[i - 1] + Risk!PnlDelta(q[i])
  IN  net[Len(q)]
InFlight == NetOf(chan["orders.result"])

\* The supervisor's book is the execution service's ledger, up to the results
\* under way, but for what only one of the two ever sees: the fills the ledger
\* had published before anybody subscribed, and those of the private stream. No
\* other fill is lost, counted twice or counted with another sign.
RiskAgreesWithLedger ==
  balance_usdt + streamed =
    InitialBalance + daily_pnl_quote + InFlight + unheard
      + (IF epc = "result" THEN Exec!CashDelta(job) ELSE 0)

\* Orders are only ever blocked because the supervisor tripped: the flag, a
\* block message under way or the announcement imply the worker's breaker.
BlockImpliesTrip ==
  \/ circuit_breaker_active
  \/ /\ ~block_new_orders
     /\ chan["control.exec.block_new_orders"] = <<>>
     /\ rpc \notin {"pause", "block", "log"}

\* A trip ends trading for good unless the operator resets the circuit: the
\* strategies are paused and new orders blocked, whatever was queued then and
\* whoever is stuck. The exception is a subscription that hangs: as long as it
\* waits behind a publisher without room, the trip cannot be announced.
TripStopsTrading ==
  SubscriptionsReturn =>
    (circuit_breaker_active ~> [](resets > 0 \/ (paused /\ block_new_orders)))

\* A breached limit leads to blocked orders, also after the operator has reset
\* the breaker once.
BreachIsEnforced ==
  Risk!LimitsBreached(daily_pnl_quote, exposure, risk_config) ~> block_new_orders

\* Only a reset that was issued after the trip lifts the block.
OnlyLaterResetUnblocks ==
  [][block_new_orders /\ ~block_new_orders' => Head(issued)]_vars
====
