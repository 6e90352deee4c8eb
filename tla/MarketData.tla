---- MODULE MarketData ----
(***************************************************************************)
(* Market data (w2uos-data/src/service.rs, okx.rs, history.rs): a feed,     *)
(* simulated or OKX's public stream, that publishes every tick on its       *)
(* pair's subject, offers it to the history and logs it; and a writer task  *)
(* that puts what the history's channel holds into the store.               *)
(* A snapshot is its time stamp, its pair and its trace id: what a replay   *)
(* and the log tell apart. Time stamps count up; prices are left out.       *)
(***************************************************************************)
EXTENDS BusChannels, SequencesExt

CONSTANTS
  Pairs,        \* the pairs subscribed to, in the configuration's order
  Stored,       \* the rows earlier sessions left in the store, with their ts
  Started,      \* when the session starts, in time stamps
  HistoryCap,   \* capacity of the history channel, 1024 in the code
  MaxTicks      \* bound on the ticks

PairSet == ToSet(Pairs)

ASSUME MarketAssumption ==
  /\ Pairs \in Seq(PairSet)
  /\ HistoryCap \in Nat /\ MaxTicks \in Nat /\ Started \in Nat
  /\ IsFiniteSet(Stored) /\ Stored \subseteq [ts : Nat, pair : PairSet]

VARIABLES
  feed,      \* "Simulated", "LiveOkx", or "none": a node that replays has no feed
  dpc,       \* where the feed's task is with the current tick
  tick,      \* the current tick; its number is its trace id
  market,    \* pair -> snapshots queued for the pair's strategy task
  history,   \* the history channel
  rows       \* the store

marketVars == <<feed, dpc, tick, market, history, rows>>

NoTick == [ts |-> Started, pair |-> Pairs[1], trace |-> 0]

MarketInit(feeds) ==
  /\ feed \in feeds
  /\ dpc = "tick"
  /\ tick = NoTick
  /\ market = [p \in PairSet |-> <<>>]
  /\ history = <<>>
  /\ rows = Stored

\* Faulty: the snapshot does not wait for room.
ForceSnapshot(task, snap) ==
  /\ PassAsReader(task)
  /\ market' = [market EXCEPT ![snap.pair] = Append(@, snap)]

\* bus.publish on a pair's subject.
PublishSnapshot(task, snap) ==
  /\ Len(market[snap.pair]) < Cap
  /\ PassAsReader(task)
  /\ market' = [market EXCEPT ![snap.pair] = Append(@, snap)]

AwaitSnapshotRoom(task, pair) == Len(market[pair]) >= Cap /\ HoldLock(task)

\* A ticker interval of the simulated feed, which walks the subscriptions in
\* order, or a message of the stream, whose order is the exchange's.
NextPair(p) ==
  feed = "Simulated" => p = Pairs[(tick.trace % Len(Pairs)) + 1]

Tick(p) ==
  /\ feed # "none" /\ dpc = "tick" /\ tick.trace < MaxTicks
  /\ NextPair(p)
  /\ tick' = [ts |-> tick.ts + 1, pair |-> p, trace |-> tick.trace + 1]
  /\ dpc' = "publish"
  /\ UNCHANGED <<feed, market, history, rows, bus>>

PublishTick ==
  /\ dpc = "publish" /\ dpc' = "history"
  /\ PublishSnapshot("feed", tick)
  /\ UNCHANGED <<feed, tick, history, rows, chan, subscribed>>

\* Faulty: send instead of try_send.
SendHistory ==
  /\ dpc = "history" /\ dpc' = "log"
  /\ Len(history) < HistoryCap
  /\ history' = Append(history, tick)
  /\ UNCHANGED <<feed, tick, market, rows, bus>>

\* try_send: a snapshot that finds the channel full is dropped.
OfferHistory ==
  /\ dpc = "history" /\ dpc' = "log"
  /\ history' = IF Len(history) < HistoryCap THEN Append(history, tick) ELSE history
  /\ UNCHANGED <<feed, tick, market, rows, bus>>

\* Only the simulated feed names the stage of its event.
LogTick ==
  /\ dpc = "log" /\ dpc' = "tick"
  /\ Publish("feed", "log.event", [trace |-> tick.trace,
                                   stage |-> IF feed = "Simulated" THEN "tick" ELSE "none"])
  /\ UNCHANGED <<feed, tick, market, history, rows>>

FeedWaits ==
  /\ \/ dpc = "publish" /\ AwaitSnapshotRoom("feed", tick.pair)
     \/ dpc = "log" /\ AwaitRoom("feed", "log.event")
  /\ UNCHANGED marketVars

\* The writer task; a failed insert loses the snapshot. The trace id is not stored.
WriteHistory ==
  /\ history # <<>>
  /\ history' = Tail(history)
  /\ LET row == [ts |-> Head(history).ts, pair |-> Head(history).pair]
     IN rows' \in {rows, rows \cup {row}}
  /\ UNCHANGED <<feed, dpc, tick, market, bus>>

\* load_snapshots: a pair's rows. ORDER BY ts is in LoadedBefore.
LoadSnapshots(p) == {r \in rows : r.pair = p}

FeedTask ==
  (\E p \in PairSet : Tick(p)) \/ PublishTick \/ OfferHistory \/ LogTick \/ FeedWaits

----
\* The feed goes on whatever the store does: a tick whose snapshot is being
\* offered to the history is logged in the end, with a writer that hangs. Only
\* a subscription that hangs can keep the feed out of the bus.
FeedOutlivesStore == SubscriptionsReturn => (dpc = "history" ~> dpc = "tick")
====
