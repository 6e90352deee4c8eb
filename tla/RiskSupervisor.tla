---- MODULE RiskSupervisor ----
(***************************************************************************)
(* The risk supervisor (w2uos-kernel/src/risk_supervisor.rs).               *)
(*                                                                          *)
(* `start` runs a CLONE of the service: Clone copies the RiskState into a   *)
(* new Mutex, so there are two states. The worker's one (the variables      *)
(* without prefix) is fed by the bus; the API's one (api_active) is what    *)
(* GET /risk/status shows and what POST /risk/reset_circuit changes. The    *)
(* configuration is shared by both (an Arc), and only the worker writes it. *)
(* reset_circuit keeps the Mutex of the API's state locked over its awaits. *)
(*                                                                          *)
(* status.total_notional and status.open_positions are recomputed from      *)
(* `exposure` by every call that changes it, so they are operators here.    *)
(* Amounts are integers; an absent exposure entry is 0.                     *)
(***************************************************************************)
EXTENDS BusChannels, Integers, FiniteSets, Functions

CONSTANTS
  Symbols,       \* traded symbols (symbol_key)
  Sizes,         \* order sizes in quote currency
  RiskConfigs,   \* the risk configurations a reload may publish
  RiskDefault,   \* the one the service is created with
  Connected,     \* TRUE: the worker has already subscribed in Init
  Listeners,     \* the control subjects somebody subscribed to
  MaxEvents      \* bound on the messages the environment publishes

\* max_error_rate_per_minute is an Option: the empty set or a singleton.
RiskConfig ==
  [max_daily_loss_abs : Nat, max_total_notional : Nat,
   max_open_positions : Nat, max_error_rate : SUBSET Nat]

ASSUME RiskAssumption ==
  /\ IsFiniteSet(Symbols)
  /\ Sizes \subseteq Nat
  /\ RiskConfigs \subseteq RiskConfig
  /\ RiskDefault \in RiskConfigs
  /\ Connected \in BOOLEAN
  /\ Listeners \subseteq Subjects
  /\ MaxEvents \in Nat

VARIABLES
  rpc,                      \* where the worker is in run / trigger_breaker
  daily_pnl_quote,          \* worker: status.daily_pnl_quote
  exposure,                 \* worker: quote exposure of each symbol
  circuit_breaker_active,   \* worker: status.circuit_breaker_active
  last_errors,              \* worker: errors of the last 60 s, and older ones
  risk_config,              \* the shared configuration
  api_active,               \* API instance: status.circuit_breaker_active
  apc,                      \* where a reset_circuit call is; "stuck" for ever
  unevaluated,              \* history: risk_config is newer than the last evaluate
  events                    \* messages the environment has published

riskVars == <<rpc, daily_pnl_quote, exposure, circuit_breaker_active,
              last_errors, risk_config, api_active, apc, unevaluated>>
vars == <<bus, riskVars, events>>

Sides == {"Buy", "Sell"}
Statuses == {"New", "Filled", "Rejected"}
OrderResults == [symbol : Symbols, side : Sides, status : Statuses,
                 filled_size_quote : Sizes \cup {0}]
Levels == {"Info", "Warn", "Error"}

RiskSubjects == {"orders.result", "log.event", "control.config.update.risk"}
Signal == "signal"   \* the empty payload of the control messages

----
\* What record_order does with one result, as functions of the old values.

\* Faulty: every fill is counted as an outflow, whatever its side.
PnlDeltaUnsided(res) ==
  IF res.status # "Filled" THEN 0 ELSE -res.filled_size_quote

\* What a filled order adds to the cash side of the book.
PnlDelta(res) ==
  IF res.status # "Filled" THEN 0
  ELSE IF res.side = "Buy" THEN -res.filled_size_quote ELSE res.filled_size_quote

total_notional(exp) == SumFunction(exp)
open_positions(exp) == Cardinality({s \in DOMAIN exp : exp[s] > 0})

LimitsBreached(pnl, exp, cfg) ==
  \/ pnl <= -cfg.max_daily_loss_abs
  \/ total_notional(exp) > cfg.max_total_notional
  \/ open_positions(exp) > cfg.max_open_positions

ErrorRateExceeded(errs, cfg) == \E r \in cfg.max_error_rate : errs.fresh > r

\* What evaluate is meant to detect, on the worker's current state.
Breached ==
  \/ LimitsBreached(daily_pnl_quote, exposure, risk_config)
  \/ ErrorRateExceeded(last_errors, risk_config)

\* prune_errors pops the entries older than 60 s from the front. Entries are
\* pushed in time order, so they are told apart by fresh / stale alone.
PruneErrors(errs) == [errs EXCEPT !.stale = 0]

----
\* Faulty forms of the operations, kept to confirm that the properties fail
\* when the code is wrong.

\* evaluate that counts the errors without pruning them first.
EvaluateNoPrune(pnl, exp, errs) ==
  /\ last_errors' = errs
  /\ unevaluated' = FALSE
  /\ IF /\ ~circuit_breaker_active
        /\ \/ LimitsBreached(pnl, exp, risk_config)
           \/ \E r \in risk_config.max_error_rate : errs.fresh + errs.stale > r
     THEN circuit_breaker_active' = TRUE /\ rpc' = "pause"
     ELSE UNCHANGED <<circuit_breaker_active, rpc>>

\* evaluate that returns after the limits, before the error-rate test.
EvaluateNoErrorRate(pnl, exp, errs) ==
  /\ last_errors' = errs
  /\ unevaluated' = FALSE
  /\ IF ~circuit_breaker_active /\ LimitsBreached(pnl, exp, risk_config)
     THEN circuit_breaker_active' = TRUE /\ rpc' = "pause"
     ELSE UNCHANGED <<circuit_breaker_active, rpc>>

\* run without the ticker branch.
TickNever == FALSE /\ UNCHANGED vars

\* record_order that keeps an entry that went negative.
ExposureSigned(exp, res) ==
  [exp EXCEPT ![res.symbol] = @ - PnlDelta(res)]

\* record_order that removes the entry on any sell.
ExposureClosedBySell(exp, res) ==
  IF res.status = "Filled" /\ res.side = "Sell"
  THEN [exp EXCEPT ![res.symbol] = 0]
  ELSE [exp EXCEPT ![res.symbol] = @ - PnlDelta(res)]

\* An entry at or below zero is removed.
ExposureAfter(exp, res) ==
  LET entry == exp[res.symbol] - PnlDelta(res)
  IN  [exp EXCEPT ![res.symbol] = IF entry > 0 THEN entry ELSE 0]

----
\* Faulty: trigger_breaker that announces a trip it has not stored.
TripUnstored == UNCHANGED circuit_breaker_active /\ rpc' = "pause"

\* trigger_breaker up to its first await.
Trip ==
  /\ circuit_breaker_active' = TRUE
  /\ rpc' = "pause"

\* evaluate, from the values the calling branch has just stored. The pruned
\* list is written back only on the way to the error-rate test.
Evaluate(pnl, exp, errs) ==
  /\ unevaluated' = FALSE
  /\ \/ /\ circuit_breaker_active
        /\ last_errors' = errs
        /\ UNCHANGED <<circuit_breaker_active, rpc>>
     \/ /\ ~circuit_breaker_active
        /\ LimitsBreached(pnl, exp, risk_config)
        /\ last_errors' = errs
        /\ Trip
     \/ /\ ~circuit_breaker_active
        /\ ~LimitsBreached(pnl, exp, risk_config)
        /\ last_errors' = IF risk_config.max_error_rate = {} THEN errs
                          ELSE PruneErrors(errs)
        /\ IF ErrorRateExceeded(PruneErrors(errs), risk_config)
           THEN Trip
           ELSE UNCHANGED <<circuit_breaker_active, rpc>>

\* What the worker subscribes and publishes to, by where it does so.
RiskTakes == [sub_orders |-> "orders.result", sub_log |-> "log.event",
              sub_config |-> "control.config.update.risk"]
RiskGives == [pause |-> "control.strategy.pause_all",
              block |-> "control.exec.block_new_orders", log |-> "log.event"]

\* run subscribes to its three subjects one after the other.
SubscribeAt(at, next) ==
  /\ rpc = at /\ rpc' = next
  /\ Subscribe(RiskTakes[at])
  /\ UNCHANGED <<daily_pnl_quote, exposure, circuit_breaker_active, last_errors,
                 risk_config, api_active, apc, unevaluated>>

SubscribeOrders == SubscribeAt("sub_orders", "sub_log")
SubscribeLog == SubscribeAt("sub_log", "sub_config")
SubscribeConfig == SubscribeAt("sub_config", "select")

\* select! branch orders.result: record_order, then evaluate.
TakeOrder ==
  /\ rpc = "select"
  /\ Receive("orders.result")
  /\ LET res == Head(chan["orders.result"])
         pnl == daily_pnl_quote + PnlDelta(res)
         exp == ExposureAfter(exposure, res)
     IN  /\ daily_pnl_quote' = pnl
         /\ exposure' = exp
         /\ Evaluate(pnl, exp, last_errors)
  /\ UNCHANGED <<risk_config, api_active, apc>>

\* select! branch log.event: only an Error is recorded and evaluated.
TakeLog ==
  /\ rpc = "select"
  /\ Receive("log.event")
  /\ IF Head(chan["log.event"]) = "Error"
     THEN Evaluate(daily_pnl_quote, exposure,
                   [last_errors EXCEPT !.fresh = @ + 1])
     ELSE UNCHANGED <<rpc, circuit_breaker_active, last_errors, unevaluated>>
  /\ UNCHANGED <<daily_pnl_quote, exposure, risk_config, api_active, apc>>

\* select! branch config update: stored, not evaluated.
TakeConfig ==
  /\ rpc = "select"
  /\ Receive("control.config.update.risk")
  /\ risk_config' = Head(chan["control.config.update.risk"])
  /\ unevaluated' = TRUE
  /\ UNCHANGED <<rpc, daily_pnl_quote, exposure, circuit_breaker_active,
                 last_errors, api_active, apc>>

\* select! branch ticker: every 5 s, the first time at once.
Tick ==
  /\ rpc = "select"
  /\ Evaluate(daily_pnl_quote, exposure, last_errors)
  /\ UNCHANGED <<bus, daily_pnl_quote, exposure, risk_config, api_active, apc>>

\* trigger_breaker's three publishes. The last one goes to a subject whose
\* subscriber is this very task.
PublishTrip(at, subject, msg, next) ==
  /\ rpc = at /\ rpc' = next
  /\ Publish("risk", subject, msg)
  /\ UNCHANGED <<daily_pnl_quote, exposure, circuit_breaker_active, last_errors,
                 risk_config, api_active, apc, unevaluated>>

\* Faulty: the block message sent to the strategies a second time.
PublishBlockToStrategies ==
  PublishTrip("block", "control.strategy.pause_all", Signal, "log")

PublishPause == PublishTrip("pause", RiskGives.pause, Signal, "block")
PublishBlock == PublishTrip("block", RiskGives.block, Signal, "log")
PublishTripLog == PublishTrip("log", RiskGives.log, "Error", "select")

\* The worker waits, in a publish for room or in a subscribe for the lock.
RiskWaits ==
  /\ \/ rpc \in DOMAIN RiskGives /\ AwaitRoom("risk", RiskGives[rpc])
     \/ rpc \in DOMAIN RiskTakes /\ Ask(RiskTakes[rpc])
  /\ UNCHANGED riskVars

\* 60 s after they were recorded, the oldest errors leave the window.
ErrorsAge ==
  /\ \E k \in 1..last_errors.fresh :
       last_errors' = [fresh |-> last_errors.fresh - k, stale |-> last_errors.stale + k]
  /\ UNCHANGED <<bus, rpc, daily_pnl_quote, exposure, circuit_breaker_active,
                 risk_config, api_active, apc, unevaluated>>

\* reset_circuit on the API's instance, called by POST /risk/reset_circuit,
\* up to its first await. A call that another worker thread takes meanwhile
\* waits for the Mutex, and is made when this one is over.
ResetCircuit ==
  /\ apc = "idle" /\ apc' = "reset"
  /\ api_active' = FALSE
  /\ UNCHANGED <<bus, rpc, daily_pnl_quote, exposure, circuit_breaker_active,
                 last_errors, risk_config, unevaluated>>

PublishFromReset(at, subject, next) ==
  /\ apc = at /\ apc' = next
  /\ Publish("api", subject, Signal)
  /\ UNCHANGED <<rpc, daily_pnl_quote, exposure, circuit_breaker_active,
                 last_errors, risk_config, api_active, unevaluated>>

ResetGives == [reset |-> "control.exec.reset_circuit",
               resume |-> "control.strategy.resume_all"]
ResetExec == PublishFromReset("reset", ResetGives.reset, "resume")
ResumeAll == PublishFromReset("resume", ResetGives.resume, "idle")

ResetWaits ==
  /\ apc \in DOMAIN ResetGives /\ AwaitRoom("api", ResetGives[apc])
  /\ UNCHANGED riskVars

\* The worker thread on which the call waits takes another request that locks
\* the state: a reset, or GET /risk/status. lock() blocks the thread, and only
\* that thread would go on with the call that holds the Mutex.
BlockThread ==
  /\ apc \in DOMAIN ResetGives
  /\ "api" \in holding \/ asking # {}
  /\ apc' = "stuck"
  /\ UNCHANGED <<bus, rpc, daily_pnl_quote, exposure, circuit_breaker_active,
                 last_errors, risk_config, api_active, unevaluated>>

RiskInit ==
  /\ rpc = IF Connected THEN "select" ELSE "sub_orders"
  /\ daily_pnl_quote = 0
  /\ exposure = [s \in Symbols |-> 0]
  /\ circuit_breaker_active = FALSE
  /\ last_errors = [fresh |-> 0, stale |-> 0]
  /\ risk_config = RiskDefault
  /\ api_active = FALSE
  /\ apc = "idle"
  /\ unevaluated = TRUE

Worker ==
  \/ SubscribeOrders \/ SubscribeLog \/ SubscribeConfig
  \/ TakeOrder \/ TakeLog \/ TakeConfig \/ Tick
  \/ PublishPause \/ PublishBlock \/ PublishTripLog \/ RiskWaits

\* The steps of a call under way.
ResetCall == ResetExec \/ ResumeAll \/ ResetWaits
Reset == ResetCircuit \/ ResetCall \/ BlockThread

----
\* The supervisor alone: anybody may publish what it subscribes to, and the
\* tasks behind the control subjects drain them. Who publishes from outside
\* is known by the subject.
BudgetLeft == events + Cardinality(holding \cap RiskSubjects) < MaxEvents

EnvPublish(s, m) ==
  /\ events < MaxEvents /\ (s \in holding \/ BudgetLeft)
  /\ events' = events + 1
  /\ Publish(s, s, m)
  /\ UNCHANGED riskVars

\* The execution service reports no size for an order it did not fill.
EnvResult ==
  \E r \in OrderResults :
    /\ r.status = "Filled" <=> r.filled_size_quote > 0
    /\ EnvPublish("orders.result", r)
EnvLog == \E l \in Levels : EnvPublish("log.event", l)
EnvConfig == \E c \in RiskConfigs : EnvPublish("control.config.update.risk", c)

EnvWaits ==
  /\ BudgetLeft
  /\ \E s \in RiskSubjects : AwaitRoom(s, s)
  /\ UNCHANGED <<riskVars, events>>

EnvReceive(s) == Receive(s) /\ UNCHANGED <<riskVars, events>>

Init ==
  /\ BusInit(Listeners \cup IF Connected THEN RiskSubjects ELSE {})
  /\ RiskInit
  /\ events = 0

Next ==
  \/ Worker /\ UNCHANGED events
  \/ ErrorsAge /\ UNCHANGED events
  \/ Reset /\ UNCHANGED events
  \/ EnvResult \/ EnvLog \/ EnvConfig \/ EnvWaits
  \/ \E s \in Listeners \ RiskSubjects : EnvReceive(s)

\* tokio::select! polls its ready branches in random order, so every branch
\* that stays ready is taken; a task that can run is run.
WorkerFairness ==
  /\ WF_vars((SubscribeOrders \/ SubscribeLog \/ SubscribeConfig) /\ UNCHANGED events)
  /\ WF_vars(TakeOrder /\ UNCHANGED events)
  /\ WF_vars(TakeLog /\ UNCHANGED events)
  /\ WF_vars(TakeConfig /\ UNCHANGED events)
  /\ WF_vars(Tick /\ UNCHANGED events)
  /\ WF_vars((PublishPause \/ PublishBlock \/ PublishTripLog \/ RiskWaits) /\ UNCHANGED events)

Spec == Init /\ [][Next]_vars
FairSpec ==
  /\ Spec /\ WorkerFairness
  /\ \A s \in Listeners \ RiskSubjects : WF_vars(EnvReceive(s))

----
\* What travels on each subject.
Payload ==
  [s \in Subjects |->
    CASE s = "orders.result" -> OrderResults
      [] s = "log.event" -> Levels
      [] s = "control.config.update.risk" -> RiskConfigs
      [] OTHER -> {Signal}]

\* The types of the worker's state, of the API's copy and of the queues; an
\* exposure entry is never negative because record_order removes it.
TypeOK ==
  /\ ChanOK(Payload)
  /\ rpc \in {"sub_orders", "sub_log", "sub_config", "select", "pause", "block", "log"}
  /\ daily_pnl_quote \in Int
  /\ exposure \in [Symbols -> Nat]
  /\ circuit_breaker_active \in BOOLEAN
  /\ last_errors \in [fresh : Nat, stale : Nat]
  /\ risk_config \in RiskConfigs
  /\ api_active \in BOOLEAN
  /\ apc \in {"idle", "reset", "resume", "stuck"}
  /\ unevaluated \in BOOLEAN
  /\ events \in 0..MaxEvents

\* evaluate misses nothing: whenever the worker is back in select! without the
\* breaker, the limits it last read hold on everything it has recorded. Only a
\* configuration that arrived since then may be breached unnoticed.
NoMissedTrip ==
  rpc = "select" /\ ~circuit_breaker_active /\ ~unevaluated => ~Breached

\* The breaker is only set for a limit that is breached at that moment: errors
\* that left the 60 s window do not count (prune_errors comes first).
TripJustified ==
  [][~circuit_breaker_active /\ circuit_breaker_active' => Breached']_vars

\* The cash that went out of the book is still visible as exposure: removing an
\* oversold entry in record_order never hides more than came back.
OutflowIsExposed == -daily_pnl_quote <= total_notional(exposure)

\* A breach that lasts is acted on even if no order and no error follows it,
\* for instance one that a new configuration creates: the ticker sees to it.
BreachTrips == (rpc = "select" /\ Breached) ~> (circuit_breaker_active \/ ~Breached)
====
