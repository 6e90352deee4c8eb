---- MODULE ExecutionService ----
(***************************************************************************)
(* The execution service (w2uos-exec/src/service.rs): one task that takes   *)
(* order commands and configuration updates, two small tasks that set and   *)
(* clear the block flag, and, when it starts live, the private order stream *)
(* of the exchange, whose reports by-pass the ledger. The flag is read once *)
(* per command, before the awaits of handle_command, and may change before  *)
(* the order is executed.                                                   *)
(*                                                                          *)
(* A position is counted in 1/Scale base units, so that size / price is an  *)
(* integer; the f64 rounding of the code is finer. The OKX exchange behind  *)
(* place_order is external: it accepts, refuses, or the call fails. Its     *)
(* stream may report any order of the account; what it does with the orders *)
(* placed here is in LiveTrading.                                           *)
(***************************************************************************)
EXTENDS BusChannels, Integers, FiniteSets

CONSTANTS
  Symbols,          \* traded symbols (symbol_key)
  Sizes,            \* order sizes in quote currency
  LimitPrices,      \* limit prices a command may carry
  InitialBalance,   \* initial_balance_usdt
  FillStart,        \* first value of fill_counter, 30000 in the code
  FillStep,         \* its increment, 10 in the code
  Scale,            \* parts of a base unit that positions are counted in
  ExecConfigs,      \* the execution configurations a reload may publish
  ExecStarts,       \* the ones the service may be created with
  ExecConnected,    \* TRUE: all three tasks have already subscribed in Init
  MaxReports,       \* bound on the reports of the private stream
  MaxInputs         \* bound on the messages the environment publishes

\* What the control flow reads of an ExecutionConfig; okx is an Option, told
\* apart by its presence alone.
ExecConfig == [mode : {"Simulated", "LiveOkx"}, live_trading_enabled : BOOLEAN,
               okx : BOOLEAN]

ASSUME ExecAssumption ==
  /\ Sizes \subseteq Nat
  /\ LimitPrices \subseteq Nat
  /\ {InitialBalance, FillStart, FillStep, Scale} \subseteq Nat
  /\ ExecConfigs \subseteq ExecConfig
  /\ ExecStarts \subseteq ExecConfigs
  /\ ExecConnected \in BOOLEAN
  /\ {MaxReports, MaxInputs} \subseteq Nat

VARIABLES
  epc,                \* where the main task is in run
  job,                \* the command being executed, then its result
  balance_usdt,       \* state.balance_usdt
  positions,          \* state.positions, an absent entry is 0
  fill_counter,       \* price of the last simulated market fill
  block_new_orders,   \* the circuit breaker flag
  exec_config,        \* the current configuration
  okx_client,         \* is okx_client Some(_)?
  streaming,          \* reports the private stream may still make, 0 without it
  reported,           \* history: net cash of the Filled results of the ledger
  unheard,            \* history: the part of it published to no subscriber
  streamed,           \* history: net cash of the stream's Filled results, if heard
  late,               \* history: orders executed since the flag was last set
  inputs              \* messages the environment has published

books == <<reported, unheard, streamed>>
execVars == <<epc, job, balance_usdt, positions, fill_counter,
              block_new_orders, exec_config, okx_client, streaming, books, late>>
vars == <<bus, execVars, inputs>>

\* limit_price is an Option: the empty set or a singleton.
OrderCommands == [symbol : Symbols, side : {"Buy", "Sell"}, size_quote : Sizes,
                  limit_price : {{}} \cup {{p} : p \in LimitPrices}]
OrderResults == [symbol : Symbols, side : {"Buy", "Sell"},
                 status : {"New", "Filled", "Rejected"},
                 filled_size_quote : Sizes \cup {0}]
Malformed == [malformed |-> TRUE]   \* a payload that is no OrderCommand
NoJob == [idle |-> TRUE]
Signal == "signal"                  \* the empty payload of the control messages

ExecSubjects == {"orders.command", "control.config.update.execution",
                 "control.exec.block_new_orders", "control.exec.reset_circuit"}

----
Result(cmd, status, filled) ==
  [symbol |-> cmd.symbol, side |-> cmd.side, status |-> status,
   filled_size_quote |-> filled]

\* What a result means for the cash balance.
CashDelta(res) ==
  IF res.status # "Filled" THEN 0
  ELSE IF res.side = "Buy" THEN -res.filled_size_quote ELSE res.filled_size_quote

\* A limit price of zero buys nothing and still costs size_quote.
BaseUnits(size, price) == IF price > 0 THEN (size * Scale) \div price ELSE 0

\* next_fill_price: the limit price, or the counter after its increment.
FillCounterAfter(cmd) == IF cmd.limit_price = {} THEN fill_counter + FillStep
                         ELSE fill_counter
FillPrice(cmd) == IF cmd.limit_price = {} THEN fill_counter + FillStep
                  ELSE CHOOSE p \in cmd.limit_price : TRUE

\* okx_client after a reload. It survives one that asks for live trading
\* without saying where.
ClientAfter(cfg) ==
  /\ cfg.live_trading_enabled
  /\ cfg.okx \/ okx_client

\* The client new() builds.
InitialClient(cfg) == cfg.live_trading_enabled /\ cfg.okx

GoesLive == exec_config.mode = "LiveOkx" /\ okx_client

----
\* Faulty forms of the operations, kept to confirm that the properties fail
\* when the code is wrong.

\* handle_command without its first test.
TakeCommandUnchecked ==
  /\ epc = "select"
  /\ Receive("orders.command")
  /\ LET m == Head(chan["orders.command"])
     IN  IF m = Malformed THEN epc' = "warn" /\ UNCHANGED job
         ELSE epc' = "execute" /\ job' = m
  /\ UNCHANGED <<balance_usdt, positions, fill_counter, block_new_orders,
                 exec_config, okx_client, streaming, books, late>>

\* a sell whose position is checked against the balance, not the units held.
CanFillOnCash(cmd, units) == balance_usdt >= cmd.size_quote

\* a sell that takes the position and forgets to credit the balance.
SimulateFillNoCredit ==
  /\ epc = "execute" /\ epc' = "result"
  /\ ~GoesLive
  /\ LET units == BaseUnits(job.size_quote, FillPrice(job))
         buy   == job.side = "Buy"
     IN  /\ IF buy THEN balance_usdt >= job.size_quote
                   ELSE positions[job.symbol] >= units
         /\ job' = Result(job, "Filled", job.size_quote)
         /\ balance_usdt' = IF buy THEN balance_usdt - job.size_quote ELSE balance_usdt
         /\ positions' = [positions EXCEPT ![job.symbol] = IF buy THEN @ + units ELSE @ - units]
  /\ fill_counter' = FillCounterAfter(job)
  /\ late' = IF block_new_orders THEN late + 1 ELSE late
  /\ UNCHANGED <<bus, block_new_orders, exec_config, okx_client, streaming, books>>

----
\* The check before anything is taken away.
CanFill(cmd, units) ==
  IF cmd.side = "Buy" THEN balance_usdt >= cmd.size_quote
                      ELSE positions[cmd.symbol] >= units

\* select! branch orders.command up to the first await: the block flag is read.
TakeCommand ==
  /\ epc = "select"
  /\ Receive("orders.command")
  /\ LET m == Head(chan["orders.command"])
     IN  \/ m = Malformed /\ epc' = "warn" /\ UNCHANGED job
         \/ /\ m # Malformed /\ block_new_orders
            /\ epc' = "result" /\ job' = Result(m, "Rejected", 0)
         \/ /\ m # Malformed /\ ~block_new_orders
            /\ epc' = "execute" /\ job' = m
  /\ UNCHANGED <<balance_usdt, positions, fill_counter, block_new_orders,
                 exec_config, okx_client, streaming, books, late>>

\* The simulated branch of handle_command; an order that was let in before the
\* flag was set is executed all the same.
SimulateFill ==
  /\ epc = "execute" /\ epc' = "result"
  /\ ~GoesLive
  /\ LET units == BaseUnits(job.size_quote, FillPrice(job))
         fill  == Result(job, "Filled", job.size_quote)
     IN  /\ CanFill(job, units)
         /\ job' = fill
         /\ balance_usdt' = balance_usdt + CashDelta(fill)
         /\ positions' = [positions EXCEPT ![job.symbol] =
                            IF job.side = "Buy" THEN @ + units ELSE @ - units]
  /\ fill_counter' = FillCounterAfter(job)
  /\ late' = IF block_new_orders THEN late + 1 ELSE late
  /\ UNCHANGED <<bus, block_new_orders, exec_config, okx_client, streaming, books>>

\* Insufficient balance or position. The price has been drawn all the same.
SimulateReject ==
  /\ epc = "execute" /\ epc' = "result"
  /\ ~GoesLive
  /\ ~CanFill(job, BaseUnits(job.size_quote, FillPrice(job)))
  /\ job' = Result(job, "Rejected", 0)
  /\ fill_counter' = FillCounterAfter(job)
  /\ UNCHANGED <<bus, balance_usdt, positions, block_new_orders, exec_config,
                 okx_client, streaming, books, late>>

\* The live branch: the exchange takes the order (New) or refuses it.
PlaceOrder ==
  /\ epc = "execute" /\ epc' = "result"
  /\ GoesLive
  /\ \E status \in {"New", "Rejected"} : job' = Result(job, status, 0)
  /\ late' = IF block_new_orders THEN late + 1 ELSE late
  /\ UNCHANGED <<bus, balance_usdt, positions, fill_counter, block_new_orders,
                 exec_config, okx_client, streaming, books>>

\* The live branch: place_order returns Err, the order may stand or not.
PlaceFails ==
  /\ epc = "execute" /\ epc' = "error"
  /\ GoesLive
  /\ job' = NoJob
  /\ late' = IF block_new_orders THEN late + 1 ELSE late
  /\ UNCHANGED <<bus, balance_usdt, positions, fill_counter, block_new_orders,
                 exec_config, okx_client, streaming, books>>

\* What the main task publishes and subscribes to, by where it does so.
ExecGives == [started |-> "log.event", result |-> "orders.result", info |-> "log.event",
              trade |-> "log.trade", error |-> "log.event", warn |-> "log.event"]
ExecTakes == [sub_command |-> "orders.command",
              sub_config |-> "control.config.update.execution"]

\* The net cash of a result, or nothing when nobody is there to hear of it.
Heard(res) == IF "orders.result" \in subscribed THEN CashDelta(res) ELSE 0

PublishResult ==
  /\ epc = "result" /\ epc' = "info"
  /\ Publish("exec", ExecGives.result, job)
  /\ reported' = reported + CashDelta(job)
  /\ unheard' = unheard + CashDelta(job) - Heard(job)
  /\ UNCHANGED <<job, balance_usdt, positions, fill_counter, block_new_orders,
                 exec_config, okx_client, streaming, streamed, late>>

\* A log event of the main task; where it goes on depends on what it logs.
PublishLog(at, level, next) ==
  /\ epc = at /\ epc' = next
  /\ Publish("exec", ExecGives[at], level)
  /\ UNCHANGED <<job, balance_usdt, positions, fill_counter, block_new_orders,
                 exec_config, okx_client, streaming, books, late>>

PublishStarted == PublishLog("started", "Info", "sub_command")
PublishInfo == PublishLog("info", "Info", "trade")
PublishError == PublishLog("error", "Error", "select")
PublishWarn == PublishLog("warn", "Warn", "select")

\* The trade record: an order that is only New is recorded as Rejected.
TradeOf(res) ==
  [res EXCEPT !.status = IF @ = "Filled" THEN "Filled" ELSE "Rejected"]

PublishTrade ==
  /\ epc = "trade" /\ epc' = "select"
  /\ Publish("exec", ExecGives.trade, TradeOf(job))
  /\ job' = NoJob
  /\ UNCHANGED <<balance_usdt, positions, fill_counter, block_new_orders,
                 exec_config, okx_client, streaming, books, late>>

\* select! branch control.config.update.execution.
TakeConfig ==
  /\ epc = "select"
  /\ Receive("control.config.update.execution")
  /\ exec_config' = Head(chan["control.config.update.execution"])
  /\ okx_client' = ClientAfter(exec_config')
  /\ UNCHANGED <<epc, job, balance_usdt, positions, fill_counter,
                 block_new_orders, streaming, books, late>>

\* The two subscriptions of the main task, after the start event.
SubscribeMain(at, next) ==
  /\ epc = at /\ epc' = next
  /\ Subscribe(ExecTakes[at])
  /\ UNCHANGED <<job, balance_usdt, positions, fill_counter, block_new_orders,
                 exec_config, okx_client, streaming, books, late>>

SubscribeCommand == SubscribeMain("sub_command", "sub_config")
SubscribeConfig == SubscribeMain("sub_config", "select")

\* The main task waits, in a publish for room or in a subscribe for the lock.
ExecWaits ==
  /\ \/ epc \in DOMAIN ExecGives /\ AwaitRoom("exec", ExecGives[epc])
     \/ epc \in DOMAIN ExecTakes /\ Ask(ExecTakes[epc])
  /\ UNCHANGED execVars

\* The subscriptions of the block and reset tasks, spawned by run.
SubscribeFlag(subject) ==
  /\ subject \notin subscribed
  /\ Subscribe(subject)
  /\ UNCHANGED execVars

FlagSubjects == {"control.exec.block_new_orders", "control.exec.reset_circuit"}
SubscribeBlock == SubscribeFlag("control.exec.block_new_orders")
SubscribeReset == SubscribeFlag("control.exec.reset_circuit")
FlagWaits == (\E s \in FlagSubjects \ subscribed : Ask(s)) /\ UNCHANGED execVars

\* The block task stores true.
BlockTask ==
  /\ Receive("control.exec.block_new_orders")
  /\ block_new_orders' = TRUE
  /\ late' = IF block_new_orders THEN late ELSE 0
  /\ UNCHANGED <<epc, job, balance_usdt, positions, fill_counter, exec_config,
                 okx_client, streaming, books>>

\* The reset task stores false.
ResetTask ==
  /\ Receive("control.exec.reset_circuit")
  /\ block_new_orders' = FALSE
  /\ UNCHANGED <<epc, job, balance_usdt, positions, fill_counter, exec_config,
                 okx_client, streaming, books, late>>

\* The private stream, spawned by run in a service that starts live: what the
\* exchange says of an order is published as it comes.
StreamSpawned(cfg) == cfg.mode = "LiveOkx" /\ cfg.okx

StreamReport ==
  /\ streaming > 0 /\ streaming' = streaming - 1
  /\ \E res \in OrderResults :
       /\ res.status = "Filled" => res.filled_size_quote > 0
       /\ Publish("stream", "orders.result", res)
       /\ streamed' = streamed + Heard(res)
  /\ UNCHANGED <<epc, job, balance_usdt, positions, fill_counter, block_new_orders,
                 exec_config, okx_client, reported, unheard, late>>

StreamWaits == streaming > 0 /\ AwaitRoom("stream", "orders.result") /\ UNCHANGED execVars

ExecInit ==
  /\ epc = IF ExecConnected THEN "select" ELSE "started"
  /\ job = NoJob
  /\ balance_usdt = InitialBalance
  /\ positions = [s \in Symbols |-> 0]
  /\ fill_counter = FillStart
  /\ block_new_orders = FALSE
  /\ exec_config \in ExecStarts
  /\ okx_client = InitialClient(exec_config)
  /\ streaming = IF StreamSpawned(exec_config) THEN MaxReports ELSE 0
  /\ reported = 0
  /\ unheard = 0
  /\ streamed = 0
  /\ late = 0

MainTask ==
  \/ PublishStarted \/ SubscribeCommand \/ SubscribeConfig
  \/ TakeCommand \/ SimulateFill \/ SimulateReject \/ PlaceOrder \/ PlaceFails
  \/ PublishResult \/ PublishInfo \/ PublishTrade \/ PublishError \/ PublishWarn
  \/ TakeConfig \/ ExecWaits

FlagTasks == SubscribeBlock \/ SubscribeReset \/ FlagWaits \/ BlockTask \/ ResetTask
StreamTask == StreamReport \/ StreamWaits

----
\* The service alone: anybody may publish what it subscribes to, and is known
\* by the subject. Nobody listens to its results here.
BudgetLeft == inputs + Cardinality(holding \cap ExecSubjects) < MaxInputs

EnvPublish(s, m) ==
  /\ inputs < MaxInputs /\ (s \in holding \/ BudgetLeft)
  /\ inputs' = inputs + 1
  /\ Publish(s, s, m)
  /\ UNCHANGED execVars

EnvCommand == \E m \in OrderCommands \cup {Malformed} : EnvPublish("orders.command", m)
EnvConfig == \E c \in ExecConfigs : EnvPublish("control.config.update.execution", c)
EnvBlock == EnvPublish("control.exec.block_new_orders", Signal)
EnvReset == EnvPublish("control.exec.reset_circuit", Signal)
EnvWaits ==
  /\ BudgetLeft
  /\ \E s \in ExecSubjects : AwaitRoom(s, s)
  /\ UNCHANGED <<execVars, inputs>>

Init ==
  /\ BusInit(IF ExecConnected THEN ExecSubjects ELSE {})
  /\ ExecInit
  /\ inputs = 0

Next ==
  \/ MainTask /\ UNCHANGED inputs
  \/ FlagTasks /\ UNCHANGED inputs
  \/ StreamTask /\ UNCHANGED inputs
  \/ EnvCommand \/ EnvConfig \/ EnvBlock \/ EnvReset \/ EnvWaits

Spec == Init /\ [][Next]_vars

----
\* What travels on each subject.
Payload ==
  [s \in Subjects |->
    CASE s = "orders.command" -> OrderCommands \cup {Malformed}
      [] s = "orders.result" -> OrderResults
      [] s = "log.trade" -> OrderResults
      [] s = "log.event" -> {"Info", "Warn", "Error"}
      [] s = "control.config.update.execution" -> ExecConfigs
      [] OTHER -> {Signal}]

\* The command held while executing, the result held until the trade is out.
JobOK ==
  /\ epc = "execute" => job \in OrderCommands
  /\ epc \in {"result", "info", "trade"} => job \in OrderResults

\* The types of the service's state. The balance and the positions never go
\* negative: handle_command checks them before it takes anything away.
TypeOK ==
  /\ ChanOK(Payload)
  /\ epc \in {"started", "sub_command", "sub_config", "select", "execute",
              "result", "info", "trade", "error", "warn"}
  /\ JobOK
  /\ balance_usdt \in Nat
  /\ positions \in [Symbols -> Nat]
  /\ fill_counter \in Nat
  /\ block_new_orders \in BOOLEAN
  /\ exec_config \in ExecConfigs
  /\ okx_client \in BOOLEAN
  /\ streaming \in 0..MaxReports
  /\ {reported, unheard, streamed} \subseteq Int
  /\ late \in Nat
  /\ inputs \in 0..MaxInputs

\* The books agree: the simulated balance differs from the initial one by what
\* the published results say, plus the fill whose result is still to be sent.
LedgerReconciles ==
  balance_usdt = InitialBalance + reported
                 + (IF epc = "result" THEN CashDelta(job) ELSE 0)

\* Setting the block flag stops the flow: the only order that is executed
\* while the flag stands is the one whose check came before the store, and
\* once it has been executed no second one is under way.
AtMostOneLateOrder ==
  block_new_orders => late <= IF epc = "execute" THEN 0 ELSE 1
====
