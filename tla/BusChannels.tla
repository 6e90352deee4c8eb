---- MODULE BusChannels ----
(***************************************************************************)
(* The message bus as the services see it (w2uos-bus/src/lib.rs): for every *)
(* subject one modelled subscription, a bounded FIFO channel, and the one   *)
(* RwLock over the lists of all subjects. `publish` waits for room under    *)
(* its read half; `subscribe` takes its write half, and while one waits for *)
(* it nobody else may begin a publish, on whatever subject. The walk over   *)
(* the list of a subject's subscribers and dropped receivers are in module  *)
(* LocalBus; here the message goes into the channel when publish returns.   *)
(*                                                                          *)
(* Some subjects have subscribers besides the modelled one, which drain     *)
(* what they get whatever happens: a publisher may wait for room there too. *)
(***************************************************************************)
EXTENDS Naturals, Sequences

CONSTANT Cap   \* capacity of a subscription's channel, 1024 in the code

ASSUME CapAssumption == Cap \in Nat \ {0}

VARIABLES
  chan,         \* subject -> messages queued for its subscriber, oldest first
  subscribed,   \* the subjects that have a subscriber
  holding,      \* the tasks that wait for room under the read lock
  asking        \* the subscriptions that wait for the write lock

lock == <<holding, asking>>
bus == <<chan, subscribed, lock>>

\* The subjects of the trading path and of the control plane. Nobody subscribes
\* to "control.config.update.logging", and only LogService reads "log.trade".
Subjects ==
  {"orders.command", "orders.result", "log.event", "log.trade",
   "control.strategy.pause_all", "control.strategy.resume_all",
   "control.exec.block_new_orders", "control.exec.reset_circuit",
   "control.config.update.risk", "control.config.update.execution",
   "control.config.update.strategy", "control.config.update.market",
   "control.config.update.logging", "cluster.heartbeat"}

\* The log service, the metrics of backtests and the sessions of /ws/stream
\* read these as well.
Shared == {"log.event", "orders.result"}

BusInit(there) ==
  /\ chan = [s \in Subjects |-> <<>>]
  /\ subscribed = there
  /\ holding = {}
  /\ asking = {}

\* tokio's RwLock serves in order of arrival: a reader that is not in yet
\* waits for the writers that wait. A publish that finds room is in and out.
PassAsReader(task) ==
  /\ task \in holding \/ asking = {}
  /\ holding' = holding \ {task}
  /\ UNCHANGED asking

\* A writer waits for all readers.
PassAsWriter(subscription) ==
  /\ holding = {}
  /\ asking' = asking \ {subscription}
  /\ UNCHANGED holding

\* publish has the read lock and no room.
HoldLock(task) ==
  /\ asking = {} /\ task \notin holding
  /\ holding' = holding \cup {task}
  /\ UNCHANGED <<chan, subscribed, asking>>

\* subscribe finds publishers in the lock.
Ask(subscription) ==
  /\ holding # {} /\ subscription \notin asking
  /\ asking' = asking \cup {subscription}
  /\ UNCHANGED <<chan, subscribed, holding>>

\* A publisher never waits for a subject nobody subscribed to.
Room(s) == s \in subscribed => Len(chan[s]) < Cap

AwaitRoom(task, s) == (~Room(s) \/ s \in Shared) /\ HoldLock(task)

\* Faulty: a message that finds no room is dropped.
PublishOrDrop(task, s, m) ==
  /\ PassAsReader(task)
  /\ chan' = IF s \in subscribed /\ Room(s) THEN [chan EXCEPT ![s] = Append(@, m)] ELSE chan
  /\ UNCHANGED subscribed

\* publish: waits for room in the channel; with no subscriber the message is
\* dropped and the call still succeeds.
Publish(task, s, m) ==
  /\ Room(s)
  /\ PassAsReader(task)
  /\ chan' = IF s \in subscribed THEN [chan EXCEPT ![s] = Append(@, m)] ELSE chan
  /\ UNCHANGED subscribed

\* subscribe: messages published before this step are not seen.
Subscribe(s) ==
  /\ PassAsWriter(s)
  /\ subscribed' = subscribed \cup {s}
  /\ UNCHANGED chan

\* receiver.recv() with a message queued.
Receive(s) ==
  /\ chan[s] # <<>>
  /\ chan' = [chan EXCEPT ![s] = Tail(@)]
  /\ UNCHANGED <<subscribed, lock>>

\* The queues are well formed when subject s carries messages of T[s].
ChanOK(T) ==
  /\ chan = [s \in Subjects |-> chan[s]]
  /\ \A s \in Subjects : chan[s] \in Seq(T[s])
  /\ subscribed \subseteq Subjects

\* No subscription hangs: one that asks for the lock gets it.
SubscriptionsReturn == []<>(asking = {})
====
