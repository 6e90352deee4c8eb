---- MODULE ExecutionServiceProofs ----
(***************************************************************************)
(* Proofs about ExecutionService for every value of its constants. The      *)
(* conjunction Inv is inductive: the ledger needs the type of `job` (a      *)
(* command while executing, a result while publishing), and the bound on    *)
(* late orders speaks of the order between its check and its execution.     *)
(***************************************************************************)
EXTENDS ExecutionService, TLAPS

Inv == TypeOK /\ LedgerReconciles /\ AtMostOneLateOrder

----
\* What the bus operations do to the queues, for every payload typing T.

\* publish only appends a message of the subject's type, or drops it.
LEMMA PublishKeeps ==
  ASSUME NEW T, ChanOK(T), NEW s \in Subjects, NEW m \in T[s], NEW task,
         Publish(task, s, m)
  PROVE  ChanOK(T)'
<1>1. chan[s] \in Seq(T[s]) /\ Append(chan[s], m) \in Seq(T[s])
  BY DEF ChanOK
<1>2. QED
  BY <1>1 DEF ChanOK, Publish

\* recv hands out a message of the subject's type and keeps the others.
LEMMA ReceiveKeeps ==
  ASSUME NEW T, ChanOK(T), NEW s \in Subjects, Receive(s)
  PROVE  ChanOK(T)' /\ Head(chan[s]) \in T[s]
<1>1. chan[s] \in Seq(T[s]) /\ Tail(chan[s]) \in Seq(T[s]) /\ Head(chan[s]) \in T[s]
  BY DEF ChanOK, Receive
<1>2. QED
  BY <1>1 DEF ChanOK, Receive

\* subscribe touches no queue, nor does a step that leaves the bus alone or waits
\* for it, and the queues of a fresh bus are empty.
LEMMA SubscribeKeeps ==
  ASSUME NEW T, ChanOK(T), NEW s \in Subjects, Subscribe(s) PROVE ChanOK(T)'
BY DEF ChanOK, Subscribe

LEMMA BusUnchanged == ASSUME NEW T, ChanOK(T), UNCHANGED bus PROVE ChanOK(T)'
BY DEF ChanOK, bus

LEMMA WaitKeeps == ASSUME NEW T, ChanOK(T), UNCHANGED <<chan, subscribed>> PROVE ChanOK(T)'
BY DEF ChanOK

LEMMA BusInitOK ==
  ASSUME NEW T, NEW there \in SUBSET Subjects, BusInit(there) PROVE ChanOK(T)
BY DEF ChanOK, BusInit

----
\* The subjects the service uses are subjects of the bus, and this is what
\* they carry.
LEMMA PayloadFacts ==
  /\ {"orders.command", "orders.result", "log.event", "log.trade",
      "control.exec.block_new_orders", "control.exec.reset_circuit",
      "control.config.update.execution"} \subseteq Subjects
  /\ Payload["orders.command"] = OrderCommands \cup {Malformed}
  /\ Payload["orders.result"] = OrderResults
  /\ Payload["log.trade"] = OrderResults
  /\ Payload["log.event"] = {"Info", "Warn", "Error"}
  /\ Payload["control.config.update.execution"] = ExecConfigs
  /\ Payload["control.exec.block_new_orders"] = {Signal}
  /\ Payload["control.exec.reset_circuit"] = {Signal}
BY DEF Payload, Subjects

\* A result built by handle_command is an OrderResult.
LEMMA ResultType ==
  ASSUME NEW cmd \in OrderCommands, NEW status \in {"New", "Filled", "Rejected"},
         NEW filled \in {0, cmd.size_quote}
  PROVE  /\ Result(cmd, status, filled) \in OrderResults
         /\ Result(cmd, status, filled).status = status
         /\ Result(cmd, status, filled).side = cmd.side
         /\ Result(cmd, status, filled).filled_size_quote = filled
BY DEF OrderCommands, OrderResults, Result

\* What a result is worth in cash.
LEMMA CashDeltaType ==
  ASSUME NEW res \in OrderResults
  PROVE  /\ CashDelta(res) \in Int
         /\ res.status # "Filled" => CashDelta(res) = 0
<1>1. res.filled_size_quote \in Nat
  <2>1. res.filled_size_quote \in Sizes \cup {0}
    BY DEF OrderResults
  <2>2. Sizes \subseteq Nat /\ 0 \in Nat
    BY ExecAssumption
  <2>3. QED
    BY <2>1, <2>2, Zenon
<1>2. QED
  BY <1>1 DEF CashDelta

\* What is heard of a result is its cash, or nothing.
LEMMA HeardType ==
  ASSUME NEW res \in OrderResults PROVE Heard(res) \in Int
BY CashDeltaType DEF Heard

\* A quantity of base units is a natural number, and so is the fill price.
LEMMA UnitsType ==
  ASSUME NEW cmd \in OrderCommands, fill_counter \in Nat
  PROVE  /\ BaseUnits(cmd.size_quote, FillPrice(cmd)) \in Nat
         /\ FillCounterAfter(cmd) \in Nat
<1>1. cmd.size_quote \in Nat /\ {Scale, FillStep} \subseteq Nat
  BY ExecAssumption DEF OrderCommands
<1>2. FillPrice(cmd) \in Nat
  <2>1. CASE cmd.limit_price = {}
    BY <2>1, <1>1 DEF FillPrice
  <2>2. CASE cmd.limit_price # {}
    <3>1. PICK p \in LimitPrices : cmd.limit_price = {p}
      BY <2>2 DEF OrderCommands
    <3>2. QED
      BY <3>1, ExecAssumption DEF FillPrice
  <2>3. QED
    BY <2>1, <2>2
<1>3. cmd.size_quote * Scale \in Nat
  BY <1>1
<1>4. QED
  BY <1>1, <1>2, <1>3 DEF BaseUnits, FillCounterAfter

\* new(): nothing held, nothing reported, nothing late.
LEMMA InitInv == Init => Inv
<1> SUFFICES ASSUME Init PROVE Inv
  OBVIOUS
<1>1. ChanOK(Payload)
  BY BusInitOK DEF Init, ExecSubjects, Subjects
<1>2. okx_client \in BOOLEAN
  <2>1. exec_config \in ExecConfig
    BY ExecAssumption DEF Init, ExecInit
  <2>2. exec_config.live_trading_enabled \in BOOLEAN /\ exec_config.okx \in BOOLEAN
    BY <2>1 DEF ExecConfig
  <2>3. QED
    BY <2>2, Zenon DEF Init, ExecInit, InitialClient
<1>3. epc \in {"started", "select"}
  BY DEF Init, ExecInit
<1>4. TypeOK
  <2>1. JobOK
    BY <1>3 DEF JobOK
  <2>2. /\ balance_usdt \in Nat /\ fill_counter \in Nat
        /\ positions \in [Symbols -> Nat]
        /\ exec_config \in ExecConfigs
        /\ streaming \in 0..MaxReports /\ {reported, unheard, streamed} \subseteq Int
        /\ late \in Nat /\ inputs \in 0..MaxInputs
    BY ExecAssumption DEF Init, ExecInit
  <2>3. block_new_orders \in BOOLEAN
    BY DEF Init, ExecInit
  <2>4. QED
    BY <1>1, <1>2, <1>3, <2>1, <2>2, <2>3 DEF TypeOK
<1>5. QED
  BY <1>3, <1>4, ExecAssumption DEF Inv, Init, ExecInit, LedgerReconciles, AtMostOneLateOrder

\* Steps of the main task that only log or subscribe: the books stay as they are.
LEMMA BookkeepingStep ==
  ASSUME Inv, ChanOK(Payload)', inputs' = inputs,
         epc' \in {"sub_command", "sub_config", "select", "trade"},
         epc \notin {"result", "execute"},
         epc' = "trade" => epc = "info",
         job' = job \/ epc' = "select",
         UNCHANGED <<balance_usdt, positions, fill_counter, block_new_orders,
                     exec_config, okx_client, streaming, books, late>>
  PROVE  Inv'
<1>1. JobOK'
  BY DEF Inv, TypeOK, JobOK
<1>2. TypeOK'
  BY <1>1 DEF Inv, TypeOK, books
<1>3. LedgerReconciles'
  BY DEF Inv, LedgerReconciles, books
<1>4. AtMostOneLateOrder'
  BY DEF Inv, AtMostOneLateOrder
<1>5. QED
  BY <1>2, <1>3, <1>4 DEF Inv

\* A step that only moves messages.
LEMMA QuietStep ==
  ASSUME Inv, ChanOK(Payload)', inputs' \in 0..MaxInputs, UNCHANGED execVars PROVE Inv'
BY DEF Inv, TypeOK, JobOK, LedgerReconciles, AtMostOneLateOrder, execVars, books

\* Taking a command: it is refused under the flag, else it awaits execution.
LEMMA TakeCommandInv ==
  ASSUME Inv, TakeCommand, inputs' = inputs PROVE Inv'
<1> DEFINE m == Head(chan["orders.command"])
<1>1. ChanOK(Payload)' /\ m \in OrderCommands \cup {Malformed}
  BY ReceiveKeeps, PayloadFacts DEF Inv, TypeOK, TakeCommand, books
<1>2. CASE m = Malformed
  <2>1. epc' = "warn" /\ job' = job
    BY <1>2 DEF TakeCommand, books
  <2>2. QED
    BY <1>1, <2>1 DEF Inv, TypeOK, JobOK, LedgerReconciles, AtMostOneLateOrder, TakeCommand, books
<1>3. CASE m # Malformed /\ block_new_orders
  <2>1. epc' = "result" /\ job' = Result(m, "Rejected", 0)
    BY <1>3 DEF TakeCommand, books
  <2>2. job' \in OrderResults /\ job'.status = "Rejected"
    BY <1>1, <1>3, <2>1, ResultType
  <2>3. CashDelta(job') = 0
    BY <2>2, CashDeltaType
  <2>4. TypeOK'
    BY <1>1, <2>1, <2>2 DEF Inv, TypeOK, JobOK, TakeCommand, books
  <2>5. LedgerReconciles'
    BY <2>1, <2>3 DEF Inv, TypeOK, LedgerReconciles, TakeCommand, books
  <2>6. AtMostOneLateOrder'
    BY <2>1 DEF Inv, AtMostOneLateOrder, TakeCommand, books
  <2>7. QED
    BY <2>4, <2>5, <2>6 DEF Inv
<1>4. CASE m # Malformed /\ ~block_new_orders
  <2>1. epc' = "execute" /\ job' = m /\ epc = "select"
    BY <1>4 DEF TakeCommand, books
  <2>2. job' \in OrderCommands
    BY <1>1, <1>4, <2>1
  <2>3. TypeOK'
    BY <1>1, <2>1, <2>2 DEF Inv, TypeOK, JobOK, TakeCommand, books
  <2>4. LedgerReconciles'
    BY <2>1 DEF Inv, TypeOK, LedgerReconciles, TakeCommand, books
  <2>5. AtMostOneLateOrder'
    BY <1>4, <2>1 DEF Inv, AtMostOneLateOrder, TakeCommand, books
  <2>6. QED
    BY <2>3, <2>4, <2>5 DEF Inv
<1>5. QED
  BY <1>2, <1>3, <1>4 DEF TakeCommand, books

\* A simulated fill moves the cash that its result will report.
LEMMA SimulateFillInv ==
  ASSUME Inv, SimulateFill, inputs' = inputs PROVE Inv'
<1> DEFINE units == BaseUnits(job.size_quote, FillPrice(job))
           fill  == Result(job, "Filled", job.size_quote)
<1>1. job \in OrderCommands /\ epc = "execute" /\ epc' = "result"
  BY DEF Inv, TypeOK, JobOK, SimulateFill, books
<1>2. units \in Nat /\ FillCounterAfter(job) \in Nat
  BY <1>1, UnitsType DEF Inv, TypeOK
<1>3. /\ fill \in OrderResults /\ fill.status = "Filled"
      /\ fill.side = job.side /\ fill.filled_size_quote = job.size_quote
  BY <1>1, ResultType
<1>4. job' = fill /\ balance_usdt' = balance_usdt + CashDelta(fill)
  BY DEF SimulateFill, books
<1>5. job.size_quote \in Nat /\ job.symbol \in Symbols /\ job.side \in {"Buy", "Sell"}
  BY <1>1, ExecAssumption DEF OrderCommands
<1>6. balance_usdt \in Nat /\ positions \in [Symbols -> Nat]
  BY DEF Inv, TypeOK
<1>7. balance_usdt' \in Nat
  <2>1. job.side = "Buy" => balance_usdt >= job.size_quote
    BY DEF SimulateFill, CanFill, books
  <2>2. CashDelta(fill) = IF job.side = "Buy" THEN -job.size_quote ELSE job.size_quote
    BY <1>3 DEF CashDelta
  <2>3. QED
    BY <1>4, <1>5, <1>6, <2>1, <2>2
<1>8. positions' \in [Symbols -> Nat]
  <2>1. positions' = [positions EXCEPT ![job.symbol] =
                        IF job.side = "Buy" THEN @ + units ELSE @ - units]
    BY DEF SimulateFill, books
  <2>2. job.side # "Buy" => positions[job.symbol] >= units
    BY DEF SimulateFill, CanFill, books
  <2>3. (IF job.side = "Buy" THEN positions[job.symbol] + units
                             ELSE positions[job.symbol] - units) \in Nat
    BY <1>2, <1>5, <1>6, <2>2
  <2>4. QED
    BY <1>6, <2>1, <2>3
<1>9. ChanOK(Payload)'
  BY BusUnchanged DEF Inv, TypeOK, SimulateFill, books
<1>10. late' \in Nat /\ (block_new_orders => late' <= 1)
  BY <1>1 DEF Inv, TypeOK, AtMostOneLateOrder, SimulateFill, books
<1>11. TypeOK'
  <2>1. JobOK'
    BY <1>1, <1>3, <1>4 DEF JobOK
  <2>2. fill_counter' \in Nat
    BY <1>2 DEF SimulateFill, books
  <2>3. QED
    BY <1>1, <1>7, <1>8, <1>9, <1>10, <2>1, <2>2 DEF Inv, TypeOK, SimulateFill, books
<1>12. LedgerReconciles'
  <2>1. CashDelta(fill) \in Int
    BY <1>3, CashDeltaType
  <2>2. balance_usdt = InitialBalance + reported
    BY <1>1, ExecAssumption DEF Inv, TypeOK, LedgerReconciles
  <2>3. reported' = reported
    BY DEF SimulateFill, books
  <2>4. QED
    BY <1>1, <1>4, <2>1, <2>2, <2>3, ExecAssumption DEF Inv, TypeOK, LedgerReconciles
<1>13. AtMostOneLateOrder'
  BY <1>1, <1>10 DEF AtMostOneLateOrder, SimulateFill, books
<1>14. QED
  BY <1>11, <1>12, <1>13 DEF Inv

\* A step that ends in an order placed, refused or failed, with no cash moved.
LEMMA NoFillInv ==
  ASSUME Inv, inputs' = inputs, UNCHANGED bus,
         epc = "execute",
         \/ epc' = "error"
         \/ /\ epc' = "result"
            /\ \E status \in {"New", "Rejected"} : job' = Result(job, status, 0),
         fill_counter' \in Nat,
         late' = late \/ late' = (IF block_new_orders THEN late + 1 ELSE late),
         UNCHANGED <<balance_usdt, positions, block_new_orders, exec_config,
                     okx_client, streaming, books>>
  PROVE  Inv'
<1>1. job \in OrderCommands
  BY DEF Inv, TypeOK, JobOK
<1>2. epc' = "result" => job' \in OrderResults /\ CashDelta(job') = 0
  <2> SUFFICES ASSUME NEW status \in {"New", "Rejected"}, job' = Result(job, status, 0)
               PROVE  job' \in OrderResults /\ CashDelta(job') = 0
    OBVIOUS
  <2>1. job' \in OrderResults /\ job'.status = status
    BY <1>1, ResultType
  <2>2. QED
    BY <2>1, CashDeltaType
<1>3. ChanOK(Payload)'
  BY BusUnchanged DEF Inv, TypeOK
<1>4. late' \in Nat /\ (block_new_orders => late' <= 1)
  BY DEF Inv, TypeOK, AtMostOneLateOrder
<1>5. TypeOK'
  <2>1. JobOK'
    BY <1>2 DEF JobOK
  <2>2. QED
    BY <1>3, <1>4, <2>1 DEF Inv, TypeOK, books
<1>6. LedgerReconciles'
  BY <1>2, ExecAssumption DEF Inv, TypeOK, LedgerReconciles, books
<1>7. AtMostOneLateOrder'
  BY <1>4 DEF AtMostOneLateOrder
<1>8. QED
  BY <1>5, <1>6, <1>7 DEF Inv

\* Publishing the result moves the cash from "pending" to "reported".
LEMMA PublishResultInv ==
  ASSUME Inv, PublishResult, inputs' = inputs PROVE Inv'
<1>1. job \in OrderResults /\ epc = "result" /\ epc' = "info" /\ job' = job
  BY DEF Inv, TypeOK, JobOK, PublishResult
<1>2. ChanOK(Payload)'
  BY <1>1, PublishKeeps, PayloadFacts DEF Inv, TypeOK, PublishResult, ExecGives
<1>3. CashDelta(job) \in Int /\ Heard(job) \in Int
  BY <1>1, CashDeltaType, HeardType
<1>4. TypeOK'
  BY <1>1, <1>2, <1>3 DEF Inv, TypeOK, JobOK, PublishResult
<1>5. LedgerReconciles'
  BY <1>1, <1>3, ExecAssumption DEF Inv, TypeOK, LedgerReconciles, PublishResult
<1>6. AtMostOneLateOrder'
  BY <1>1 DEF Inv, AtMostOneLateOrder, PublishResult
<1>7. QED
  BY <1>4, <1>5, <1>6 DEF Inv

\* A trade record is shaped like a result.
LEMMA TradeType ==
  ASSUME NEW res \in OrderResults PROVE TradeOf(res) \in OrderResults
BY DEF TradeOf, OrderResults

\* A configuration update touches neither the books nor the flag.
LEMMA TakeConfigInv ==
  ASSUME Inv, TakeConfig, inputs' = inputs PROVE Inv'
<1>1. ChanOK(Payload)' /\ Head(chan["control.config.update.execution"]) \in ExecConfigs
  BY ReceiveKeeps, PayloadFacts DEF Inv, TypeOK, TakeConfig, books
<1>2. exec_config' \in ExecConfigs
  BY <1>1 DEF TakeConfig, books
<1>3. okx_client' \in BOOLEAN
  <2>1. exec_config' \in ExecConfig
    BY <1>2, ExecAssumption
  <2>2. exec_config'.live_trading_enabled \in BOOLEAN /\ exec_config'.okx \in BOOLEAN
    BY <2>1 DEF ExecConfig
  <2>3. okx_client \in BOOLEAN
    BY DEF Inv, TypeOK
  <2>4. okx_client' = (exec_config'.live_trading_enabled /\ (exec_config'.okx \/ okx_client))
    BY DEF TakeConfig, ClientAfter, books
  <2>5. QED
    BY <2>4, Zenon
<1>4. TypeOK'
  BY <1>1, <1>2, <1>3 DEF Inv, TypeOK, JobOK, TakeConfig, books
<1>5. LedgerReconciles' /\ AtMostOneLateOrder'
  BY DEF Inv, LedgerReconciles, AtMostOneLateOrder, TakeConfig, books
<1>6. QED
  BY <1>4, <1>5 DEF Inv

\* The block and reset tasks. Setting a clear flag starts a new count.
LEMMA FlagTasksInv ==
  ASSUME Inv, FlagTasks, inputs' = inputs PROVE Inv'
<1>1. CASE SubscribeBlock \/ SubscribeReset
  <2>1. ChanOK(Payload)' /\ UNCHANGED execVars
    BY <1>1, SubscribeKeeps, PayloadFacts
       DEF Inv, TypeOK, SubscribeBlock, SubscribeReset, SubscribeFlag
  <2>2. QED
    BY <2>1, QuietStep DEF Inv, TypeOK
<1>2. CASE BlockTask
  <2>1. ChanOK(Payload)'
    BY <1>2, ReceiveKeeps, PayloadFacts DEF Inv, TypeOK, BlockTask, books
  <2>2. block_new_orders' = TRUE /\ late' = IF block_new_orders THEN late ELSE 0
    BY <1>2 DEF BlockTask, books
  <2>3. TypeOK'
    BY <1>2, <2>1, <2>2 DEF Inv, TypeOK, JobOK, BlockTask, books
  <2>4. LedgerReconciles'
    BY <1>2 DEF Inv, LedgerReconciles, BlockTask, books
  <2>5. AtMostOneLateOrder'
    BY <1>2, <2>2 DEF Inv, TypeOK, AtMostOneLateOrder, BlockTask, books
  <2>6. QED
    BY <2>3, <2>4, <2>5 DEF Inv
<1>3. CASE ResetTask
  <2>1. ChanOK(Payload)'
    BY <1>3, ReceiveKeeps, PayloadFacts DEF Inv, TypeOK, ResetTask, books
  <2>2. QED
    BY <1>3, <2>1 DEF Inv, TypeOK, JobOK, LedgerReconciles, AtMostOneLateOrder, ResetTask, books
<1>4. CASE FlagWaits
  BY <1>4, WaitKeeps, QuietStep DEF Inv, TypeOK, FlagWaits, Ask
<1>5. QED
  BY <1>1, <1>2, <1>3, <1>4 DEF FlagTasks

\* The private stream touches neither the ledger nor the flag.
LEMMA StreamTaskInv ==
  ASSUME Inv, StreamTask, inputs' = inputs PROVE Inv'
<1>1. CASE StreamReport
  <2>1. PICK res \in OrderResults :
          Publish("stream", "orders.result", res) /\ streamed' = streamed + Heard(res)
    BY <1>1 DEF StreamReport
  <2>2. ChanOK(Payload)'
    BY <2>1, PublishKeeps, PayloadFacts DEF Inv, TypeOK
  <2>3. streamed' \in Int
    BY <2>1, HeardType DEF Inv, TypeOK
  <2>4. streaming' \in 0..MaxReports
    BY <1>1, ExecAssumption DEF Inv, TypeOK, StreamReport
  <2>5. QED
    BY <1>1, <2>2, <2>3, <2>4
       DEF Inv, TypeOK, JobOK, LedgerReconciles, AtMostOneLateOrder, StreamReport
<1>2. CASE StreamWaits
  BY <1>2, WaitKeeps, QuietStep DEF Inv, TypeOK, StreamWaits, AwaitRoom, HoldLock
<1>3. QED
  BY <1>1, <1>2 DEF StreamTask

\* The main task: one case per action.
LEMMA MainTaskInv ==
  ASSUME Inv, MainTask, inputs' = inputs PROVE Inv'
<1>1. CASE PublishStarted \/ PublishInfo \/ PublishError \/ PublishWarn
  <2>1. ChanOK(Payload)'
    BY <1>1, PublishKeeps, PayloadFacts
       DEF Inv, TypeOK, PublishStarted, PublishInfo, PublishError, PublishWarn, PublishLog,
           ExecGives
  <2>2. QED
    BY <1>1, <2>1, BookkeepingStep
       DEF PublishStarted, PublishInfo, PublishError, PublishWarn, PublishLog
<1>2. CASE SubscribeCommand \/ SubscribeConfig
  <2>1. ChanOK(Payload)'
    BY <1>2, SubscribeKeeps, PayloadFacts
       DEF Inv, TypeOK, SubscribeCommand, SubscribeConfig, SubscribeMain, ExecTakes
  <2>2. QED
    BY <1>2, <2>1, BookkeepingStep DEF SubscribeCommand, SubscribeConfig, SubscribeMain
<1>3. CASE TakeCommand
  BY <1>3, TakeCommandInv
<1>4. CASE SimulateFill
  BY <1>4, SimulateFillInv
<1>5. CASE SimulateReject
  <2>1. FillCounterAfter(job) \in Nat
    BY <1>5, UnitsType DEF Inv, TypeOK, JobOK, SimulateReject
  <2>2. QED
    BY <1>5, <2>1, NoFillInv DEF SimulateReject
<1>6. CASE PlaceOrder
  BY <1>6, NoFillInv DEF PlaceOrder, Inv, TypeOK
<1>7. CASE PlaceFails
  BY <1>7, NoFillInv DEF PlaceFails, Inv, TypeOK
<1>8. CASE PublishResult
  BY <1>8, PublishResultInv
<1>9. CASE PublishTrade
  <2>1. TradeOf(job) \in OrderResults
    BY <1>9, TradeType DEF Inv, TypeOK, JobOK, PublishTrade
  <2>2. ChanOK(Payload)'
    BY <1>9, <2>1, PublishKeeps, PayloadFacts DEF Inv, TypeOK, PublishTrade, ExecGives
  <2>3. QED
    BY <1>9, <2>2, BookkeepingStep DEF PublishTrade
<1>10. CASE TakeConfig
  BY <1>10, TakeConfigInv
<1>11. CASE ExecWaits
  BY <1>11, WaitKeeps, QuietStep DEF Inv, TypeOK, ExecWaits, AwaitRoom, HoldLock, Ask
<1>12. QED
  BY <1>1, <1>2, <1>3, <1>4, <1>5, <1>6, <1>7, <1>8, <1>9, <1>10, <1>11 DEF MainTask

\* The environment only fills the queues.
LEMMA EnvInv ==
  ASSUME Inv, EnvCommand \/ EnvConfig \/ EnvBlock \/ EnvReset \/ EnvWaits PROVE Inv'
<1>1. CASE EnvCommand \/ EnvConfig \/ EnvBlock \/ EnvReset
  <2>1. PICK s \in Subjects : \E m \in Payload[s] : EnvPublish(s, m)
    BY <1>1, PayloadFacts DEF EnvCommand, EnvConfig, EnvBlock, EnvReset
  <2>2. ChanOK(Payload)'
    BY <2>1, PublishKeeps DEF Inv, TypeOK, EnvPublish
  <2>3. inputs' \in 0..MaxInputs
    BY <2>1, ExecAssumption DEF Inv, TypeOK, EnvPublish
  <2>4. QED
    BY <2>1, <2>2, <2>3, QuietStep DEF EnvPublish
<1>2. CASE EnvWaits
  BY <1>2, WaitKeeps, QuietStep DEF Inv, TypeOK, EnvWaits, AwaitRoom, HoldLock
<1>3. QED
  BY <1>1, <1>2

\* Inv is inductive.
LEMMA StepInv == Inv /\ [Next]_vars => Inv'
<1> SUFFICES ASSUME Inv, [Next]_vars PROVE Inv'
  OBVIOUS
<1>1. CASE MainTask /\ inputs' = inputs
  BY <1>1, MainTaskInv
<1>2. CASE FlagTasks /\ inputs' = inputs
  BY <1>2, FlagTasksInv
<1>3. CASE StreamTask /\ inputs' = inputs
  BY <1>3, StreamTaskInv
<1>4. CASE EnvCommand \/ EnvConfig \/ EnvBlock \/ EnvReset \/ EnvWaits
  BY <1>4, EnvInv
<1>5. CASE UNCHANGED vars
  BY <1>5, BusUnchanged, QuietStep DEF Inv, TypeOK, vars
<1>6. QED
  BY <1>1, <1>2, <1>3, <1>4, <1>5 DEF Next

\* Every reachable state of the service, whatever the sizes, prices, balances
\* and bounds: well typed, books balanced, at most one late order.
THEOREM Invariance == Spec => []Inv
BY InitInv, StepInv, PTL DEF Spec

\* The balance and the positions never go negative.
THEOREM Types == Spec => []TypeOK
<1>1. Inv => TypeOK
  BY DEF Inv
<1>2. QED
  BY <1>1, Invariance, PTL

\* What the results report is what happened to the balance.
THEOREM Ledger == Spec => []LedgerReconciles
<1>1. Inv => LedgerReconciles
  BY DEF Inv
<1>2. QED
  BY <1>1, Invariance, PTL

\* The block flag lets at most one order slip through.
THEOREM LateOrders == Spec => []AtMostOneLateOrder
<1>1. Inv => AtMostOneLateOrder
  BY DEF Inv
<1>2. QED
  BY <1>1, Invariance, PTL
====
