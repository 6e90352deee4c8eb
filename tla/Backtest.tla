---- MODULE Backtest ----
(***************************************************************************)
(* Backtests (w2uos-backtest/src/lib.rs). An engine loads the rows of its   *)
(* pairs, subscribes to the order results and publishes the rows as market  *)
(* snapshots. "api" is the engine of BacktestCoordinator, started by        *)
(* POST /backtest/start, "kernel" that of BacktestKernelService on a node   *)
(* in Backtest mode; they share one status.                                 *)
(* A run's metrics are its count of fills, its progress is current_ts.      *)
(***************************************************************************)
EXTENDS MarketData

CONSTANTS
  MaxInputs,   \* bound on ticks, backtests and sessions, which count for two, and on
               \* orders and failed writes
  MaxRuns      \* bound on the backtests of the API

Engines == {"api", "kernel"}
NoTrace == 0   \* the Option trace_id of a snapshot that has none

VARIABLES
  status,      \* [running, current_ts, result]: result is an Option, None or Some(trades)
  bpc,         \* engine -> where its run is, "off" without one
  snaps,       \* engine -> the snapshots still to publish
  last_ts,     \* engine -> the time stamp published last
  results,     \* engine -> order results queued for its metrics, when subscribed
  listening,   \* the engines whose metrics are subscribed
  trades,      \* engine -> trade_count
  runs,        \* backtests the API has started
  filled       \* history: engine -> fills published while its metrics listened

backtestVars == <<status, bpc, snaps, last_ts, results, listening, trades, runs, filled>>
engineVars == <<results, listening, trades, runs, filled>>

BacktestInit(replaying) ==
  /\ status = [running |-> FALSE, current_ts |-> 0, result |-> {}]
  /\ bpc = [e \in Engines |-> IF e = "kernel" /\ replaying THEN "load" ELSE "off"]
  /\ snaps = [e \in Engines |-> <<>>]
  /\ last_ts = [e \in Engines |-> 0]
  /\ results = [e \in Engines |-> <<>>]
  /\ listening = {}
  /\ trades = [e \in Engines |-> 0]
  /\ runs = 0
  /\ filled = [e \in Engines |-> 0]

At(e, here, next) == bpc[e] = here /\ bpc' = [bpc EXCEPT ![e] = next]

\* BacktestCoordinator::start: refused while the task of its last run goes on,
\* whatever the kernel's engine does.
StartBacktest ==
  /\ runs < MaxRuns
  /\ At("api", "off", "reset")
  /\ runs' = runs + 1
  /\ UNCHANGED <<status, snaps, last_ts, results, listening, trades, filled, marketVars, bus>>

\* Faulty: the old result stays.
ResetRunningOnly ==
  /\ At("api", "reset", "load")
  /\ status' = [status EXCEPT !.running = TRUE]
  /\ UNCHANGED <<snaps, last_ts, engineVars, marketVars, bus>>

\* The spawned task's first step.
ResetStatus ==
  /\ At("api", "reset", "load")
  /\ status' = [status EXCEPT !.running = TRUE, !.result = {}]
  /\ UNCHANGED <<snaps, last_ts, engineVars, marketVars, bus>>

\* The order the rows are loaded in: pair after pair, a pair's by time stamp.
Place(p) == CHOOSE i \in 1..Len(Pairs) : Pairs[i] = p
LoadedBefore(r, s) == IF r.pair = s.pair THEN r.ts < s.ts ELSE Place(r.pair) < Place(s.pair)

\* Faulty: the loaded rows are not sorted.
Unsorted(r, s) == LoadedBefore(r, s)

\* all_snaps.sort_by_key(ts), which is stable.
SortedBefore(r, s) == r.ts < s.ts \/ (r.ts = s.ts /\ LoadedBefore(r, s))

\* The rows of all the pairs, each where the sort puts it: after those before it.
LoadAll ==
  LET all == UNION {LoadSnapshots(p) : p \in PairSet}
      Rank(r) == Cardinality({s \in all : SortedBefore(s, r)})
  IN [i \in 1..Cardinality(all) |-> CHOOSE r \in all : Rank(r) = i - 1]

Load(e) ==
  /\ At(e, "load", "subscribe")
  /\ snaps' = [snaps EXCEPT ![e] = LoadAll]
  /\ last_ts' = [last_ts EXCEPT ![e] = 0]
  /\ UNCHANGED <<status, engineVars, marketVars, bus>>

\* A failed query ends the run; status.running stays as it is.
LoadFails(e) ==
  /\ At(e, "load", "off")
  /\ UNCHANGED <<status, snaps, last_ts, engineVars, marketVars, bus>>

\* New metrics subscribe; those of an earlier run go on counting for nobody.
SubscribeMetrics(e) ==
  /\ At(e, "subscribe", "replay")
  /\ PassAsWriter(e)
  /\ listening' = listening \cup {e}
  /\ results' = [results EXCEPT ![e] = <<>>]
  /\ trades' = [trades EXCEPT ![e] = 0]
  /\ filled' = [filled EXCEPT ![e] = 0]
  /\ UNCHANGED <<status, snaps, last_ts, runs, marketVars, chan, subscribed>>

\* A snapshot goes to its pair's subject, like a tick but without a trace id.
Replay(e) ==
  /\ snaps[e] # <<>>
  /\ At(e, "replay", "status")
  /\ LET row == Head(snaps[e]) IN
     /\ PublishSnapshot(e, [ts |-> row.ts, pair |-> row.pair, trace |-> NoTrace])
     /\ last_ts' = [last_ts EXCEPT ![e] = row.ts]
  /\ snaps' = [snaps EXCEPT ![e] = Tail(@)]
  /\ UNCHANGED <<status, engineVars, feed, dpc, tick, history, rows, chan, subscribed>>

\* An engine waits for the lock to subscribe, or for room.
EngineWaits(e) ==
  /\ \/ bpc[e] = "subscribe" /\ Ask(e)
     \/ bpc[e] = "replay" /\ snaps[e] # <<>> /\ AwaitSnapshotRoom(e, Head(snaps[e]).pair)
  /\ UNCHANGED <<marketVars, backtestVars>>

UpdateStatus(e) ==
  /\ At(e, "status", "replay")
  /\ status' = [status EXCEPT !.running = TRUE, !.current_ts = last_ts[e]]
  /\ UNCHANGED <<snaps, last_ts, engineVars, marketVars, bus>>

\* Faulty: the run waits until every snapshot has brought a fill.
FinishWhenFilled(e) ==
  /\ snaps[e] = <<>> /\ trades[e] >= Cardinality(Stored)
  /\ At(e, "replay", "off")
  /\ status' = [status EXCEPT !.running = FALSE, !.result = {trades[e]}]
  /\ UNCHANGED <<snaps, last_ts, engineVars, marketVars, bus>>

\* The result is read as soon as the last snapshot is out, whatever orders are
\* still on their way. The coordinator stores the same result again.
Finish(e) ==
  /\ snaps[e] = <<>>
  /\ At(e, "replay", "off")
  /\ status' = [status EXCEPT !.running = FALSE, !.result = {trades[e]}]
  /\ UNCHANGED <<snaps, last_ts, engineVars, marketVars, bus>>

\* Faulty: every result counts.
CountsAny(res) == TRUE

\* BacktestMetrics::record: only a fill counts.
Counts(res) == res = "Filled"

RecordResult(e) ==
  /\ results[e] # <<>>
  /\ results' = [results EXCEPT ![e] = Tail(@)]
  /\ trades' = [trades EXCEPT ![e] = IF Counts(Head(results[e])) THEN @ + 1 ELSE @]
  /\ UNCHANGED <<status, bpc, snaps, last_ts, listening, runs, filled, marketVars, bus>>

\* orders.result is published to every engine whose metrics listen.
DeliverResult(task, res) ==
  /\ PassAsReader(task)
  /\ \A e \in listening : Len(results[e]) < Cap
  /\ results' = [e \in Engines |-> IF e \in listening THEN Append(results[e], res) ELSE results[e]]
  /\ filled' = [e \in Engines |-> IF e \in listening /\ res = "Filled"
                                  THEN filled[e] + 1 ELSE filled[e]]

EngineTask(e) ==
  \/ e = "api" /\ ResetStatus
  \/ Load(e) \/ LoadFails(e) \/ SubscribeMetrics(e) \/ Replay(e) \/ UpdateStatus(e)
  \/ Finish(e) \/ EngineWaits(e)

----
\* Whatever order the rows were written and loaded in, a run publishes them in
\* the order of their time stamps, over all its pairs.
ReplayInOrder ==
  \A e \in Engines :
    /\ \A i \in 1..Len(snaps[e]) : last_ts[e] <= snaps[e][i].ts
    /\ \A i, j \in 1..Len(snaps[e]) : i < j => snaps[e][i].ts <= snaps[e][j].ts

\* On a node in Live mode the status tells the truth about the one engine there
\* is: it shows no result and says "running" while a run publishes, and a result
\* only when none does. The result of the run before is still there between a
\* start and the first step of its task, and a failed load leaves "running".
StatusHonest ==
  feed # "none" =>
    /\ bpc["api"] \in {"load", "subscribe", "replay", "status"} =>
         status.running /\ status.result = {}
    /\ status.result # {} => ~status.running

\* The metrics count the fills published since they subscribed, all of them and
\* nothing else, but for those that are still in their queue.
Uncounted(queue) == {i \in 1..Len(queue) : queue[i] = "Filled"}
MetricsMatchFills ==
  \A e \in listening : trades[e] + Cardinality(Uncounted(results[e])) = filled[e]

\* A run that has begun ends, although it publishes to the bus that the orders it
\* causes go over, and nobody answers some of its snapshots with an order; but
\* only as long as no subscription hangs, its own or another. One that waits
\* for a publisher without room keeps the tasks that would make room from
\* publishing, and then from receiving.
RunEnds == SubscriptionsReturn => \A e \in Engines : bpc[e] # "off" ~> bpc[e] = "off"
====
