# W2UOS in TLA+

A TLA+ development of the W2UOS trading node: the message bus, the risk
supervisor with its circuit breaker, the execution service with its OKX client,
the strategy host, market data, backtests, logging, the kernel with the
configuration manager, the cluster service and the API, and the compositions
that put them together. TLC checks the modules on small instances; TLAPS proves
every safety property the passing runs check, for every value of the constants.
`PROJECT.json` lists the runs, the source lines each definition models, the
hazards and the findings.

## 1. Inventory

| Part | Source | State | Operations | Hard behaviour |
|---|---|---|---|---|
| Message bus | `w2uos-bus` | subject -> list of bounded channels (1024), behind one `RwLock` for all subjects | `publish`, `subscribe`, `recv`, drop of a receiver | a send is awaited under the read lock; a subscribe that waits for it keeps out every later publish, on whatever subject |
| Risk supervisor | `w2uos-kernel/risk_supervisor.rs`, `risk_config.rs` | profit and loss, exposure, recent errors, breaker flag, all twice: the worker's clone and the API's instance; shared configuration | `record_order`, `record_error`, `evaluate`, `trigger_breaker`, reload, ticker, `reset_circuit` | `select!` order, publishes to its own queue, a reset that does not reach the worker, a Mutex held over awaits, errors that age |
| Execution service | `w2uos-exec` | balance, positions, fill counter, block flag, configuration, OKX client | `handle_command` (simulated or live), reload, block task, reset task | the flag is read before awaits; two tasks write it |
| OKX client and private stream | `w2uos-exec/okx.rs` | none | REST call per order; turns order reports into `orders.result` | a fill may overtake the REST answer; a call may fail after the order was taken; no reconnect; partial fills; updates that are skipped or do not parse |
| Strategy host | `w2uos-kernel/strategy_host.rs`, `wru-strategy` | paused flag, configuration (never read again) | `handle_snapshot` per pair, pause, resume | the flag is read once, the orders go out one by one |
| Configuration manager | `w2uos-kernel/config_manager.rs`, `w2uos-config` | current configuration, last modification time | watch, `reload_now`, `publish_updates` | edits during a reload, failure halfway; publishes what the file says, not what `main` made of it |
| Kernel | `w2uos-kernel/lib.rs` | service list and states | `start_all` | "Running" services may not have subscribed yet |
| Cluster service | `w2uos-kernel/cluster.rs` | last heartbeat of each node | send, receive | two tasks write one entry |
| Logging | `w2uos-log` | recent events, open latency traces, records, sinks | `handle_event`, `handle_trade`, `record_latency` | joins events by trace id; two writes per event, each of which a failing sink cuts short |
| Traffic shaper | `w2uos-net` | semaphore per target | `execute` | waits for a permit under the map's lock |
| Market data | `w2uos-data` | streams, history queue, store | simulated and OKX streams, history writer, reload | `try_send` drops; the writer lags |
| Backtest | `w2uos-backtest` | status shared by two owners, metrics | run, start, status | publishes into the live subjects; the result is read while orders are under way |
| API, dashboard | `w2uos-api`, `w2uos-dashboard` | users; views | REST, WebSocket | two calls change the node: `POST /risk/reset_circuit` and `POST /backtest/start`; a session subscribes at any time |
| Node | `w2uos-node/main.rs` | - | wiring, `start_all`, test order | every service subscribes in a task of its own after `start` has returned |

The parts talk through the bus only: the feed and backtests publish
`market.<pair>`, strategies publish `orders.command`, the
execution service answers with `orders.result` (and `log.event`, `log.trade`),
the supervisor reads `orders.result` and `log.event` and, on a trip, publishes
`control.strategy.pause_all` and `control.exec.block_new_orders`; the API's
reset publishes `control.exec.reset_circuit` and `control.strategy.resume_all`;
the configuration manager publishes `control.config.update.*`. The exceptions are
the API's calls: of `reset_circuit` on the supervisor object, which is not the
one the worker runs, and of the backtest coordinator. The one thing persisted
that is read back is the market history, which only backtests read, and no
code of the node calls a service's `stop`, so there is no recovery to model:
rows of earlier sessions are part of the initial state of a backtest.

What makes each part correct: the bus delivers every message once and in order to
whoever has subscribed, and its calls return, under conditions; the supervisor
trips on every breach and only then, and goes on supervising; the execution
service's ledger is never negative and agrees with what it reports, and a block
stops the flow of orders; the host stops with its current outcome when paused; and
together, a breach ends in blocked orders and the supervisor's book is the ledger.
A reload converges, whenever the file is edited, and every service follows it;
orders at the exchange are reported as filled when they are and for what they
were; a backtest replays in order, ends, and reports its fills; a trace is
recorded once; and live and simulated execution stay apart.

## 2. Plan

Done, in this order: (1) `BusChannels`, `RiskSupervisor`; (2)
`ExecutionService`; (3) `StrategyHost`; (4) `TradingNode`; (5) `LocalBus`; (6)
`NodeConfig`, `ConfigManager`, `Cluster`, `Kernel`, `ApiServer` and their
composition `ControlPlane`; (7) `TrafficShaper` and `LiveTrading`; (8)
`MarketData`, `LogService`, `Backtest` and their composition `DataPlane`; the
proofs of the safety properties of all of them, and that `LocalBus` implements
`BusChannels`.

Left, in this order:

1. A refinement: a *trading gate* (open, closed; a trip closes it, a later reset
   opens it) that `TradingNode` implements as long as no stale reset is under
   way.
2. The simulated feed's reading of changed subscriptions, and the end of OKX's
   public stream.
3. A composition of `LiveTrading` with the supervisor: what it learns of live
   fills after the stream has ended. `TradingNode` has the stream, but no
   exchange behind it.
4. A session whose subscription hangs on a thread that `reset_circuit` blocks.

## 3. Modules

The trading path:

**`BusChannels`** - the bus as a service sees it: a bounded FIFO for the one
modelled subscription of a subject, and the lock over all subjects. A task is in
the lock (`holding`) only while it waits for room there: `AwaitRoom` is the step
by which it begins to, and `Publish` the one by which it gets room and leaves, or
passes without waiting. A subscription that finds somebody in the lock is
`asking` for it, and while one is, a publish that is not in the lock yet cannot
begin, whatever its subject, and whether or not there is room. With no subscriber
the message is gone, but the publisher passes through the lock all the same. The
two subjects with several subscribers (`Shared`: the log service, metrics and
sessions read `log.event` and `orders.result` too) have one of them here; the
others are taken to drain, and a publisher may wait for them, which is why it may
hold the lock although the modelled queue has room. What happens inside a
publish is `LocalBus`.

**`RiskSupervisor`** - the worker's program counter `rpc` stands for the awaits:
three subscriptions, `select!`, and the three publishes of `trigger_breaker`.
Between two awaits everything is one step, since the worker's state has no other
writer: `TakeOrder` is `record_order` followed by `evaluate`. The variables
`daily_pnl_quote`, `exposure`, `circuit_breaker_active`, `last_errors` are the
worker's clone, `api_active` the API's; `ResetCircuit`, `ResetExec` and
`ResumeAll` are the three steps of `reset_circuit`, which has locked the Mutex of
the API's state all the while: another call waits, and one that the same worker
thread takes while the first is waiting blocks both for good (`BlockThread`).
Errors are counted as younger or older than 60 s, which is all `prune_errors` can
tell apart; `ErrorsAge` is the clock. `max_daily_loss_pct` is absent because
`evaluate` never reads it. A payload that does not parse changes nothing and is
left out.

**`ExecutionService`** - `epc` stands for the awaits of `run` and
`handle_command`. `TakeCommand` ends where the block flag has been read; what
follows (`SimulateFill`, `SimulateReject`, `PlaceOrder`, `PlaceFails`) happens
later, which is where the flag may have changed. Positions are counted in
1/`Scale` base units, so that `size / price` is an integer for the sizes and
prices of a run. The exchange is external: an order is taken, refused, or the
call fails. The private stream of a service that starts live is a task that
publishes reports of any content (`StreamTask`); fills it reports reach
`orders.result` and not the ledger. The configuration keeps what the control flow
reads.

**`StrategyHost`** - one task per pair (`spc`, `plan`) and the two flag tasks.
The engine is a trait object and may answer with any outcome of `Plans`. The
pairs subscribe in any order, the code's loop takes them in the configuration's.

**`TradingNode`** - instances of the three on one bus, the test order of `main`,
the operator's calls and web socket sessions, of which there is what others can
notice: a subscription that has to wait for the lock. `Booted` starts it with
every subscription made; without it the subscriptions race, as `start` only
spawns tasks.

**`LocalBus`** - the bus from inside: the FIFO `RwLock` (`waitq`, `readers`), the
subscriber lists, the position of each publisher in the list it is serving. For
what happens to the queues it is `BusChannels` with a channel per subscriber
(`ImplementsChannels`). That is safety, and of the queues only: it says that the
services above may be modelled on bounded queues, and nothing of when a publish
or a subscribe returns. For that `BusChannels` has a lock of its own, smaller than
the one here: no walk along the list of subscribers, and nobody is seen waiting who
could pass.

Orders at the exchange:

**`TrafficShaper`** - `execute` and `acquire_permit`: a caller takes the mutex of
the semaphore map, waits for its permit under it, makes its request and gives
the permit back without the mutex. One target is enough: the mutex is the same
for all.

**`LiveTrading`** - extends the shaper: callers are orders. The exchange is
external; it takes or refuses an order, fills it in parts, cancels it, and
pushes each change to the private stream. `Answer`, `CallFails` and
`ReportAnswer` are `place_order` and the arm of `handle_command` that publishes
its outcome, `Connect`, `HandleUpdate`, `SkipUpdate` and `StreamEnds` the stream's
task: it passes over a text that has "event" anywhere in it, and loses one that
does not parse, or the entries of an envelope after one whose `instId` has no
quote. A request may reach the exchange after its caller has timed out.
`orders.result` has a capacity, and its consumers are taken to drain it; whether
they do is a question for the modules on `BusChannels`.

The control plane:

**`NodeConfig`** - operators only: a document is a function from the keys that
control flow reads to values. `MergeToml`, `ApplyEnvOverrides` and
`ResolveSecret` are `load_with_env`, `Section` is what a reload publishes for a
consumer and `Wired` what `main` hands it at start-up; that the two differ is the
subject of `config_live`.

**`ConfigManager`** - the watch task, in the steps its awaits make: `Stat` (which
notes the modification time), `Reload` (which stores the configuration, then
tries the log level), `PublishUpdate` five times.

**`Cluster`** - the send and the receive task and the node's own map entry.
**`Kernel`** - `start_all`, service by service. **`ApiServer`** - the middleware,
users and roles, all routes, and the logging task of a refusal. The middleware
decides by the path as the request writes it, the router by what it means; a
request has a route and a spelling of it (`Spellings`), and `RequiredRole` takes
both. What the two POST routes do is in `RiskSupervisor` and `Backtest`.

**`ControlPlane`** - the four on one bus, with the consumers of updates: the
configuration each holds, the profile its HTTP client is made of, and the one of
the OKX client. A service subscribes some time after the kernel has started it.

The data plane:

**`MarketData`** - the feed's task in three steps (publish, offer to the history,
log), the history channel, the writer, the store. **`LogService`** - the map of
open traces, latency records, and the composite sink: what each sink has taken,
and what has failed in it. A handler writes the record, if there is one, and the
event, each with its own outcome. **`Backtest`** - the run of
an engine (`bpc`), its metrics, and its two owners: the coordinator behind the
API and the kernel service of a node in Backtest mode. The rows to replay are
ranked: `SortedBefore` is the time stamp, then, as the sort is stable, the place
among the loaded rows. A pair is configured once and has one row per time stamp.

**`DataPlane`** - the three with the strategies and the execution service, of
which only the publishes are kept (who decides what is in the modules above), and
sessions, as in `TradingNode`. The run's own subscription to `orders.result`
(`SubscribeMetrics`) takes the lock too.

`MC*` modules and configurations instantiate these. `*Proofs` hold the theorems.
Definitions marked faulty are deliberate defects; each property is known to fail
with one of them in place of the right definition.

## 4. Runs

| Run | Checks | Shows |
|---|---|---|
| `risk` | `TypeOK` `NoMissedTrip` `OutflowIsExposed` `TripJustified` `BreachTrips` | trips on every recorded breach, on nothing else, and also when only a reload creates the breach |
| `exec` | `TypeOK` `LedgerReconciles` `AtMostOneLateOrder` | the ledger, and one late order at most after a block |
| `strategy_host` | `TypeOK` `OverrunIsOnePlan` `PlanCompletes` | pausing lets the current outcome finish, and nothing more |
| `bus_delivery` | `TypeOK` `NothingLost` `ListIsStable` `ImplementsChannels` `PublishReturns` `SubscribeReturns` | exactly-once, in order, a FIFO channel to each subscriber, and when a publish and a subscribe return, with a subject nobody drains beside the others |
| `node` | `RiskAgreesWithLedger` `BlockImpliesTrip` `TripStopsTrading` | the composition, with a reset or a session at any moment, live or simulated |
| `control` | `TypeOK` `ClientMatchesProfile` `LagIsQueued` `OnlyTradersAct` `ReloadConverges` `ServicesFollowCurrent` | an edit at any moment, of a half-written or a refused file too, leaves manager and services in agreement in the end |
| `live` | `TypeOK` `LimitRespected` `ReportsWithinFills` `FilledIsFinal` `CallsReturn` `FillsAreReported` | limits and calls of the shaper; reports match the exchange whatever overtakes what |
| `data` | `TypeOK` `RecordedOnce` `ReplayInOrder` `StatusHonest` `MetricsMatchFills` `LostOnlyWhereItFailed` `RunEnds` `FeedOutlivesStore` | live ticks and backtests side by side, in order, counted and recorded once; a failed write costs itself only; no run or tick waits for ever unless a subscription does |

Four runs end in a counterexample; `PROJECT.json` quotes what each contradicts.

| Run | Property | What happens |
|---|---|---|
| `node_latch` | `BreachIsEnforced` | trip, reset, breach again: the worker's own flag is still set, so `evaluate` returns at once and orders stay unblocked |
| `node_stale_reset` | `OnlyLaterResetUnblocks` | a reset is queued, the breaker trips, the block is stored, then the old reset clears it |
| `config_live` | `LiveStaysLive` | a node starts live; the manager's first tick publishes the execution section without the mode `main` filled in, and orders are filled from the simulated ledger |
| `replay_live` | `ReplayNeverTradesLive` | a backtest is started on a live node; its snapshot is decided on and the order goes to the exchange |

**When progress is promised.** The bus can stop for good. A publisher that finds
no room waits under the read lock; a subscribe, on whatever subject, waits for
the write lock; then no publish can begin, and if one of those would have led to
the room, nothing moves again. So a property about progress on the bus has a
premise: `SubscriptionsReturn`, no subscription hangs (in `bus_delivery` the same,
of its receivers). It constrains the behaviours considered, not the code: resets,
sessions and start-up subscriptions do come while publishers hold the lock, and
every state in which they wait is explored, also those they never leave, for the
safety properties. Without the premise TLC refutes `TripStopsTrading` (in 16 steps,
with three snapshots: `orders.command` is full and its publisher holds the lock, a
session asks, and execution cannot publish the result after which it would take
the next command; the supervisor's trip cannot go out) and `RunEnds` (in 11 steps
of the instance of `data`: an engine holds the lock for the third row of a pair, a
session asks, and the strategy cannot publish the decision after which it would
take the next snapshot). These are limits of the code, stated by no document as a
promise, and not findings. `PublishReturns` has the same premise, and besides asks
the receivers of the publisher's own subject to drain; `r3`, on a subject of its
own, need not. `SubscribeReturns` asks for room, again and again, in every channel
of the bus. The modules taken alone need no premise, and say less: `BreachTrips` is
about a worker in `select!`, which sets its flag without the bus; in `StrategyHost`
what the pairs publish is drained, and who waits for room of the environment's
gets it, so `PlanCompletes` is progress beside such an environment only; in
`LiveTrading` the results are drained.

What else the properties leave out on purpose. `RiskAgreesWithLedger` names the
two ways in which the books part: fills published before the supervisor has
subscribed (`unheard`, none in the run, which is `Booted`) and fills of the
private stream (`streamed`). A trip announced before the block task has subscribed
blocks nothing. `BlockImpliesTrip` says nothing after the first trip, since the
worker's breaker never clears. `NoMissedTrip` excuses a reload not evaluated yet;
`BreachTrips` does not. `ServicesFollowCurrent` excuses a consumer whose last
update found it unsubscribed, and a configuration whose log level was refused,
since then nothing is published. `ClientMatchesProfile` does not say that the OKX
client of a live update without credentials follows the profile: it does not.
`OnlyTradersAct` says what the code asks for: a user's key for any change, and a
trader's where the path is written as the route has it or with escapes in its
last segment. `FillsAreReported` excuses a stream that has ended and an update it
could not read. `StatusHonest` is about nodes in Live mode: elsewhere two engines
write the status. `MetricsMatchFills` counts what is queued, which the result
read at the end of a run misses. That the map of open traces keeps the entry of
a decision without orders is not stated.

**Bounds.** Channels hold 1 or 2 messages instead of 1024, so that full queues
happen; the properties do not depend on the number. `risk` (79 000 states): three
messages from the environment and three configurations, enough for two fills or
two errors and a reload in any order around a trip. `exec` (860 000 states):
three inputs out of commands with and without a limit price, one price of which is
0, simulated and live configurations, blocks and resets; one report of the
stream. `strategy_host` (133 000 states): two pairs, outcomes of up to two orders,
two signals. `node` (302 000 states): the test order and one snapshot, which may
buy or sell, over queues of 1; the second buy reaches the loss limit and an empty
book breaches the other configuration's, so that orders are under way while the
trip is announced; one request, which is a reset or a session that has to wait;
one report of the stream where the node starts live. `bus_delivery` (246 000
states): two publishers with two messages each and three receivers that join and
leave at any time, with capacity 1. One publisher has two receivers, the other
a receiver on another subject that need not be drained; two publishers on one
subject are left to the proof. `control` (384 000 states): four files (live, every
section changed with a profile no client can be built of, replaying with a refused
level and a node profile no client could be built of, half-written), and one edit,
or two heartbeats, or a request in any of its spellings, at any moment of the
start-up and of the reload it causes; users that share a key. Every hazard of a
reload takes one edit, which the initial reload makes the second. `live` (411 000
states): two orders of two parts, without a limit and with a limit of 1, so that
one waits for the other's permit, and `orders.result` of capacity 1; an order can
be partially filled, cancelled after, or filled in one go. `data` (142 000 states):
two pairs. One has three stored rows, as many as its strategy, its queue and a
publisher can hold, which is what a full ring takes; a tick of the other is later
and comes first in the order of the pairs, so that the sort has work. Feed or
replaying node; two backtests, ticks, sessions, orders or failed writes within a
budget of `MaxInputs`, in which a tick, a backtest and a session count for two.
That is enough for a second run beside the orders of the first, a tick that races
a replay, a history channel of 1 that overflows, and a session that finds the
engine in the lock.

**Fairness.** tokio runs every task that can run, and `select!` polls its ready
branches in random order, so a branch that stays ready is taken: weak fairness
of every task and, in `RiskSupervisor`, of every branch. The ticker fires every
5 s. A sender waiting for room is served in FIFO order by tokio's channel: strong
fairness of `Send` and of the strategies' publishes. In the compositions only the
tasks a property depends on are fair. In `TradingNode` these are the supervisor's
worker, the block task and the flag tasks of the host: strategies, the execution
of orders, the calls of the API and the exchange may stop anywhere, also while
they hold the lock. In `ControlPlane` it is the kernel, the manager and the
consumers; the cluster and the API may stop anywhere. In `LiveTrading` the stream's
task, the consumers of its results and every call are fair, a request ends by
its timeout if by nothing else, and the exchange owes nothing: it need not take,
fill or push. In `DataPlane` every task is fair but the history's writer, which may
hang, and sessions; nobody has to start a backtest. Nothing is assumed of the
operator, of time (`ErrorsAge`), of publishers that may or may not publish, or
of a receiver not in `Draining`. Deadlock is not checked: with its bounded
inputs used up a model stops, and "everybody waits for ever" is what the
liveness properties, and the premise they need, are about.

## 5. Proofs

Every safety property of the passing runs is a theorem: type invariants,
invariants, the action property `TripJustified` and a refinement. The assumptions
on the constants are the named `ASSUME`s of the modules; most say that amounts and
bounds are natural numbers and capacities are not 0. Each proof module repeats the
few lemmas it needs about a queue, that is, what each operation of `BusChannels`
keeps of it.

`RiskSupervisorProofs`, from `RiskAssumption` and `CapAssumption`: `Types`,
`NoMissedTrips`, `JustifiedTrips`, `OutflowExposed`. The inductive invariant adds
`Phases`: while the worker announces a trip, the breaker is set. It is needed
because `NoMissedTrip` speaks about the worker back in `select!`, and the step
back there from the announcement must not find an unset breaker over a breached
book. `ErrorsAge` only lowers the number of counted errors, every branch but
`TakeConfig` ends in `evaluate`, and `TakeConfig` raises `unevaluated`.
`OutflowIsExposed` is inductive once one knows what replacing one entry does to a
sum (`SumExcept`): a fill moves book and exposure by the same amount, but for an
oversold entry, whose removal only raises what is left.

`ExecutionServiceProofs`, from `ExecAssumption` and `CapAssumption`: `Types`,
`Ledger`, `LateOrders`. That balance and positions never go negative follows
from `CanFill` alone, for all sizes and prices, a price of 0 included.
`AtMostOneLateOrder` is inductive as stated: an order held in `execute` while the
flag is set has used up the allowance before it is counted.

`StrategyHostProofs`, from `StratAssumption` and `CapAssumption`: `Types` and
`OnePlan`. `OverrunIsOnePlan` says nothing while the host runs, so the invariant
adds `PlansAreShort` (needed when the flag is set) and `IdleIsEmpty` (a pair
that is not publishing holds no orders).

`TradingNodeProofs`: `OnlyTripsBlock`, the invariant `BlockImpliesTrip` of the
composed node, from no assumption at all, booted or not. The argument follows
the block through the node: only the announcement publishes to the block
subject, the worker announces only what it has stored, only the block task
raises the flag, and nothing ever clears the worker's breaker. `BooksAgree` is
`RiskAgreesWithLedger`, from `AmountAssumption` and `OrderAssumption`, for any
configurations, live ones included, and from the start-up on. The invariant `Book`
carries the types along the way an order takes: plan, command, job, result. The
difference of the two books is the sum over the results that are queued and the
one not published yet, plus what was published to nobody (`unheard`), less what the
private stream has told the supervisor alone (`streamed`); it changes at both ends
of the queue at once, by the lemmas about such sums (`NetAppend`, `NetTail`), and
a result that nobody hears moves from the one term to the other (`ResultSent`).

`LocalBusProofs`, from `BusAssumption`: `Types`, `StableList`, `Delivery`,
`Refinement`. `LockInv` says who may be where in the lock: the readers are the
publishers that send, and nobody waits twice. `ListInv` says that a publisher
that sends has the end of its subject's list before it, in which every
subscriber stands once; the read lock keeps that list as it is. From the two
follows `FlowInv`: what a subscriber was handed of a publisher are the messages
since it subscribed, numbered without gap and in order, up to the last one or,
while its turn is still to come, the last but one. `Refinement` takes the steps
one by one: a `Send` is a publish on the subscriber's channel, `Join` its
subscription, `Recv` a receive; `Drop`, which `BusChannels` does not know, ends the
subscription. The two locks are not compared: the refinement is of the queues, and
of safety.

`LiveTradingProofs`, from `LimitsAssumption` and `SizeAssumption`: `Types`,
`LimitKept`, `FinalReports`, `NoFillTwice`, for any set of orders, finite or not.
The shaper's half of the invariant (`Shaped`) says that the requests on their way
are finitely many and that with them the permits add up to the limit, and that
one caller at most waits for a permit, which is what makes the mutex a mutex. The
limit follows since permits are never negative. `FinalReports` needs to know of
the updates and answers not yet reported that they are true (`UpdatesTrue`,
`AnswersTrue`); they stay true because a settled order changes no more.
`NoFillTwice` is about `ReportsWithinFills`, which counts what is reported of an
order and what is still unread, together, and is inductive with the types: the
exchange adds to what it has filled as much as it pushes, and a report takes from
the unread what it adds.

`ControlPlaneProofs`, from `UsersAssumption`, `EditsAssumption` and
`LoggersAssumption`: `LagBounded`, `ClientsFollow`, `TradersAct`, `Types`. For the
lag the invariant orders the queue (`Youngest`): the heartbeat at a place is behind
by those after it, so what the receive task stores over a newer entry is not
older than the queue allows. `OutboxKnown` is there for the manager's publishes,
which must not touch that queue. `TradersAct` rests on the first match of
`authenticate` being the least index of a match (`AuthenticateFirst`), and claims
a trader's key only for the spellings of which `RequiredRole` asks it. `Types` is
about a kernel that runs, whose services are all started (`KernelOK`), and about
queues that are empty while nobody has subscribed (`QueuesOK`).

`DataPlaneProofs`: `TracesRecorded`, `StatusTrue`, `FillsCounted`, `WritesAccounted`,
`ReplaysSorted`, `Types`. Each has its own invariant about the few variables it
needs, and the frame lemmas (`LogFrame`, `BacktestFrame`) leave it with the
steps of one task. `TracesRecorded`, from no assumption: the feed makes a
trace's tick event once and before anything of it can be complete (`TicksOnce`),
so a record that takes the trace out of the map cannot be made again by the
stages that come later, of which there may be many (`Joined`). `StatusTrue` needs
that a node with a feed has one engine (`Placed`). `FillsCounted` counts a queue
from both ends. `WritesAccounted` is about items, not their number: each one due is
in a sink or has failed there or before (`PersistAccounts`). The invariant
(`SinkInv`) needs the map of open traces: that the stages which have come in of a
trace that is not complete are all there (`OpenTracesKept`), since otherwise a
record would be due that no handler writes. It takes no assumption.
`ReplaysSorted`, from `MarketAssumption`: the sort is a strict total order of the
rows (`SortIsTotal`, `SortIsTransitive`), ranks in a finite set are therefore
distinct, and every place of the replay has its row (`EveryPlaceTaken`);
`StoreInv` says that the writer only ever adds rows, and what is left of a run
stays in order and not before what it has published (`RestInOrder`). `Types`
also takes `CapAssumption`, `FailuresAssumption` and `InputsAssumption`, and that
trace ids do not run out, which are UUIDs in the code.

Sums are recursive functions, and the library's induction theorems take a
predicate as a parameter, which the provers cannot instantiate. The lemmas about
sums (`SumsExist` and its neighbours) instead take the least number at which
such a fact would fail (`UpTo`, from the library's `WFMin`).

Only model-checked: the liveness properties (the prover has no fairness or
ENABLED), that is `BreachTrips`, `PlanCompletes`, `PublishReturns`,
`SubscribeReturns`, `TripStopsTrading`, `ReloadConverges`,
`ServicesFollowCurrent`, `CallsReturn`, `FillsAreReported`, `RunEnds` and
`FeedOutlivesStore`; and the four counterexamples.

## 6. Not modelled

Listed with reasons under `components`. In short:

- the dashboard: a browser user interface without state the node depends on;
- request signing, serialisation and the field lists of configuration files:
  pure functions or I/O; a payload that does not parse is dropped by every
  consumer and changes nothing;
- WebSocket sessions but for what the bus notices. Their subscriptions do disturb
  it: they take the lock and, while they wait, keep publishers out, which
  `TradingNode` and `DataPlane` have. Once subscribed a session drains what it gets,
  after its end too (the task goes on reading), so its queue is left out. A session
  on a thread that `reset_circuit` has blocked would neither join nor drain, and
  is not modelled;
- the queues of all but one subscriber of `log.event` and of `orders.result`, which
  are taken to drain, and more than one refusal at a time waiting to be logged;
- the windows of recent events and latency records, the summary and the
  histogram, profit and drawdown of a backtest: reads and arithmetic for display;
- jitter, the choice of a client per request, and delays between replayed
  snapshots: only time passes;
- `stop` of the services, which no code of the node calls, and `health_check`
  but for the kernel's;
- the error path of `start_all`: no registered service's `start` fails;
- the rest of the plan above: changed subscriptions, the end of the public stream;
- f64 rounding, which the integer amounts leave out.
