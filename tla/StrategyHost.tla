---- MODULE StrategyHost ----
(***************************************************************************)
(* The strategy host (w2uos-kernel/src/strategy_host.rs): one task per      *)
(* subscribed pair turns market snapshots into order commands, and two      *)
(* small tasks set and clear the shared `paused` flag. The flag is read     *)
(* once per snapshot; the orders of one outcome are published one by one.   *)
(*                                                                          *)
(* The strategy engine is a trait object: it may answer a snapshot with any *)
(* outcome of Plans. Market data always has a next snapshot to offer. A     *)
(* configuration update is stored by a fourth task and read by nobody.      *)
(***************************************************************************)
EXTENDS BusChannels, FiniteSets

CONSTANTS
  Symbols,         \* the subscribed pairs
  PlannedOrders,   \* orders without their symbol
  Plans,           \* the outcomes an engine may answer a snapshot with
  MaxPlan,         \* bound on the orders of one outcome
  StratConnected,  \* TRUE: all tasks have already subscribed in Init
  MaxSnapshots,    \* bound on the snapshots handled
  MaxSignals       \* bound on the control messages of the environment

ASSUME StratAssumption ==
  /\ Plans \subseteq Seq(PlannedOrders)
  /\ MaxPlan \in Nat
  /\ \A p \in Plans : Len(p) <= MaxPlan
  /\ StratConnected \in BOOLEAN
  /\ {MaxSnapshots, MaxSignals} \subseteq Nat

VARIABLES
  spc,         \* where the task of each pair is
  plan,        \* orders of the current outcome still to be published
  paused,      \* the shared flag
  overrun,     \* history: orders of a pair published since the flag was set
  snapshots,   \* snapshots handled
  signals      \* control messages the environment has published

stratVars == <<spc, plan, paused, overrun, snapshots>>
vars == <<bus, stratVars, signals>>

Signal == "signal"
StratSubjects == {"control.strategy.pause_all", "control.strategy.resume_all"}

\* The order command of a planned order.
Command(s, order) ==
  [symbol |-> s, side |-> order.side, size_quote |-> order.size_quote,
   limit_price |-> order.limit_price]

----
\* Faulty forms of the operations, kept to confirm that the properties fail
\* when the code is wrong.

\* handle_snapshot without its early return.
TakeSnapshotUnchecked(s) ==
  /\ spc[s] = "idle"
  /\ snapshots < MaxSnapshots
  /\ snapshots' = snapshots + 1
  /\ \E p \in Plans : plan' = [plan EXCEPT ![s] = p]
  /\ spc' = [spc EXCEPT ![s] = "orders"]
  /\ UNCHANGED <<bus, paused, overrun>>

\* the orders of an outcome published without taking them off the list.
PublishOrderAgain(s) ==
  /\ spc[s] = "orders" /\ plan[s] # <<>>
  /\ Publish(s, "orders.command", Command(s, Head(plan[s])))
  /\ UNCHANGED <<spc, plan, paused, overrun, snapshots>>

\* the planned order published as it is, without the pair's symbol.
PublishOrderBare(s) ==
  /\ spc[s] = "orders" /\ plan[s] # <<>>
  /\ Publish(s, "orders.command", Head(plan[s]))
  /\ plan' = [plan EXCEPT ![s] = Tail(@)]
  /\ UNCHANGED <<spc, paused, overrun, snapshots>>

----
\* start: the subscription of a pair's market data, and its task. A pair's task
\* and its subscription are known by the symbol.
StartPair(s) ==
  /\ spc[s] = "new"
  /\ PassAsWriter(s)
  /\ spc' = [spc EXCEPT ![s] = "idle"]
  /\ UNCHANGED <<chan, subscribed, plan, paused, overrun, snapshots>>

\* start: the subscriptions of the pause and resume tasks.
SubscribeFlag(subject) ==
  /\ subject \notin subscribed
  /\ Subscribe(subject)
  /\ UNCHANGED stratVars

SubscribePause == SubscribeFlag("control.strategy.pause_all")
SubscribeResume == SubscribeFlag("control.strategy.resume_all")
FlagWaits == (\E s \in StratSubjects \ subscribed : Ask(s)) /\ UNCHANGED stratVars

\* handle_snapshot up to its first await: the flag is read, then the engine
\* is asked; while paused the snapshot is dropped.
TakeSnapshot(s) ==
  /\ spc[s] = "idle"
  /\ snapshots < MaxSnapshots
  /\ snapshots' = snapshots + 1
  /\ IF paused THEN UNCHANGED <<spc, plan>>
     ELSE /\ \E p \in Plans : plan' = [plan EXCEPT ![s] = p]
          /\ spc' = [spc EXCEPT ![s] = "orders"]
  /\ UNCHANGED <<bus, paused, overrun>>

PublishOrder(s) ==
  /\ spc[s] = "orders" /\ plan[s] # <<>>
  /\ Publish(s, "orders.command", Command(s, Head(plan[s])))
  /\ plan' = [plan EXCEPT ![s] = Tail(@)]
  /\ overrun' = [overrun EXCEPT ![s] = IF paused THEN @ + 1 ELSE @]
  /\ UNCHANGED <<spc, paused, snapshots>>

\* The strategy_decision event, after all orders are out.
PublishDecision(s) ==
  /\ spc[s] = "orders" /\ plan[s] = <<>>
  /\ spc' = [spc EXCEPT ![s] = "idle"]
  /\ Publish(s, "log.event", "Info")
  /\ UNCHANGED <<plan, paused, overrun, snapshots>>

\* The pair's task waits, for room or, while it is new, for the lock.
PairWaits(s) ==
  /\ \/ spc[s] = "orders" /\ AwaitRoom(s, IF plan[s] # <<>> THEN "orders.command" ELSE "log.event")
     \/ spc[s] = "new" /\ Ask(s)
  /\ UNCHANGED stratVars

\* The pause task stores true.
PauseTask ==
  /\ Receive("control.strategy.pause_all")
  /\ paused' = TRUE
  /\ overrun' = IF paused THEN overrun ELSE [s \in Symbols |-> 0]
  /\ UNCHANGED <<spc, plan, snapshots>>

\* The resume task stores false.
ResumeTask ==
  /\ Receive("control.strategy.resume_all")
  /\ paused' = FALSE
  /\ UNCHANGED <<spc, plan, overrun, snapshots>>

StratInit ==
  /\ spc = [s \in Symbols |-> IF StratConnected THEN "idle" ELSE "new"]
  /\ plan = [s \in Symbols |-> <<>>]
  /\ paused = FALSE
  /\ overrun = [s \in Symbols |-> 0]
  /\ snapshots = 0

PairTask(s) ==
  StartPair(s) \/ TakeSnapshot(s) \/ PublishOrder(s) \/ PublishDecision(s) \/ PairWaits(s)

FlagTasks == SubscribePause \/ SubscribeResume \/ FlagWaits \/ PauseTask \/ ResumeTask

----
\* The host alone: anybody may pause and resume it, and the execution service
\* and the log drain what it publishes. Who publishes from outside is known by
\* the subject; one that waits is sure of its turn among the MaxSignals.
BudgetLeft == signals + Cardinality(holding \cap StratSubjects) < MaxSignals

EnvSignal(s) ==
  /\ signals < MaxSignals /\ (s \in holding \/ BudgetLeft)
  /\ signals' = signals + 1
  /\ Publish(s, s, Signal)
  /\ UNCHANGED stratVars

EnvWaits(s) ==
  /\ BudgetLeft
  /\ AwaitRoom(s, s)
  /\ UNCHANGED <<stratVars, signals>>

EnvReceive(s) == Receive(s) /\ UNCHANGED <<stratVars, signals>>

Init ==
  /\ BusInit({"orders.command", "log.event"}
             \cup IF StratConnected THEN StratSubjects ELSE {})
  /\ StratInit
  /\ signals = 0

Next ==
  \/ \E s \in Symbols : PairTask(s) /\ UNCHANGED signals
  \/ FlagTasks /\ UNCHANGED signals
  \/ \E s \in StratSubjects : EnvSignal(s) \/ EnvWaits(s)
  \/ \E s \in {"orders.command", "log.event"} : EnvReceive(s)

Spec == Init /\ [][Next]_vars

\* Every task runs when it can, tokio's lock and channels serve those that wait
\* in order, and what the pairs publish is drained. Nobody has to send a signal,
\* but a publish that waits for room goes on once there is some.
FairSpec ==
  /\ Spec
  /\ \A s \in Symbols :
       /\ SF_vars((PublishOrder(s) \/ PublishDecision(s)) /\ UNCHANGED signals)
       /\ WF_vars(StartPair(s) /\ UNCHANGED signals)
  /\ WF_vars(FlagTasks /\ UNCHANGED signals)
  /\ \A s \in StratSubjects : WF_vars(s \in holding /\ EnvSignal(s))
  /\ \A s \in {"orders.command", "log.event"} : WF_vars(EnvReceive(s))

----
Commands == {Command(s, o) : s \in Symbols, o \in PlannedOrders}

\* What travels on each subject.
Payload ==
  [s \in Subjects |->
    CASE s = "orders.command" -> Commands
      [] s = "log.event" -> {"Info"}
      [] OTHER -> {Signal}]

\* The types of the host's state.
TypeOK ==
  /\ ChanOK(Payload)
  /\ spc \in [Symbols -> {"new", "idle", "orders"}]
  /\ plan \in [Symbols -> Seq(PlannedOrders)]
  /\ paused \in BOOLEAN
  /\ overrun \in [Symbols -> Nat]
  /\ snapshots \in 0..MaxSnapshots
  /\ signals \in 0..MaxSignals

\* Pausing lets a pair finish the outcome it was publishing and nothing more:
\* what it published since, with what it still has to, is at most one outcome.
OverrunIsOnePlan ==
  paused => \A s \in Symbols : overrun[s] + Len(plan[s]) <= MaxPlan

\* An outcome is published to the end, decision event included, also when the
\* host is paused halfway: the flag is not looked at again. As long as the
\* subscribers drain, tasks that subscribe meanwhile do not hold it up.
PlanCompletes == \A s \in Symbols : (spc[s] = "orders") ~> (spc[s] = "idle")
====
