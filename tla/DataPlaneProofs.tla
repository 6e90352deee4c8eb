---- MODULE DataPlaneProofs ----
(***************************************************************************)
(* Theorems about the data plane: traces are recorded once, the sinks lose  *)
(* nothing but what has failed in them, a backtest replays in order, its    *)
(* status and metrics tell the truth, and the types, for any pairs, rows,   *)
(* capacities and bounds. Each has an invariant of its own, about the few   *)
(* variables it needs.                                                      *)
(***************************************************************************)
EXTENDS DataPlane, FiniteSetTheorems, SequenceTheorems, TLAPS

\* The tasks keep to their variables: only a LogTask touches the log's, only a
\* start, an engine, its metrics and a published result a backtest's.
LEMMA FeedFrame ==
  ASSUME [Next]_vars PROVE feed' = feed
<1>1. ASSUME NEW e \in Engines, Engine(e) PROVE feed' = feed
  BY <1>1 DEF Engine, EngineTask, ResetStatus, Load, LoadFails, SubscribeMetrics, Replay,
     UpdateStatus, Finish, EngineWaits, marketVars
<1>2. ASSUME NEW p \in PairSet, StrategyTask(p) PROVE feed' = feed
  BY <1>2
  DEF StrategyTask, Decide, PublishCommand, PublishDecision, StrategyWaits, marketVars
<1>3. CASE Feed \/ Writer \/ Start \/ Log \/ SessionAsks \/ SessionJoins
  BY <1>3
  DEF Feed, FeedTask, Tick, OfferHistory, PublishTick, FeedWaits, LogTick, Writer,
      WriteHistory, Start,
     StartBacktest, Log, SessionAsks, SessionJoins, marketVars
<1>4. CASE ExecTask
  BY <1>4
  DEF ExecTask, Execute, PublishResult, PublishOrderEvent, PublishTrade, ExecWaits,
      marketVars
<1>5. ASSUME NEW e \in Engines, Metrics(e) PROVE feed' = feed
  BY <1>5 DEF Metrics, RecordResult, marketVars
<1>6. CASE UNCHANGED vars
  BY <1>6 DEF vars, marketVars
<1>7. QED
  BY <1>1, <1>2, <1>3, <1>4, <1>5, <1>6 DEF Next

LEMMA LogFrame ==
  ASSUME [Next]_vars PROVE Log \/ UNCHANGED logVars
<1>1. ASSUME NEW p \in PairSet, StrategyTask(p) PROVE UNCHANGED logVars
  BY <1>1 DEF StrategyTask, Decide, PublishCommand, PublishDecision, StrategyWaits
<1>2. CASE ExecTask
  BY <1>2 DEF ExecTask, Execute, PublishResult, PublishOrderEvent, PublishTrade, ExecWaits
<1>3. QED
  BY <1>1, <1>2
  DEF Next, Feed, Writer, Start, Engine, Metrics, SessionAsks, SessionJoins, vars

LEMMA BacktestFrame ==
  ASSUME [Next]_vars
  PROVE  \/ UNCHANGED backtestVars
         \/ StartBacktest
         \/ PublishResult
         \/ \E e \in Engines : EngineTask(e) \/ RecordResult(e)
<1>1. ASSUME NEW p \in PairSet, StrategyTask(p) PROVE UNCHANGED backtestVars
  BY <1>1 DEF StrategyTask, Decide, PublishCommand, PublishDecision, StrategyWaits
<1>2. CASE ExecTask
  BY <1>2 DEF ExecTask, Execute, PublishOrderEvent, PublishTrade, ExecWaits
<1>3. QED
  BY <1>1, <1>2
  DEF Next, Feed, Writer, Start, Engine, Metrics, Log, SessionAsks, SessionJoins, vars

----
\* The sinks. An item is accounted for when each sink has it or stands behind a
\* sink where it has failed, itself included.
Accounted(st, fl, x) ==
  \A k \in 1..Len(Sinks) : x \in st[Sinks[k]] \/ \E i \in 1..k : <<Sinks[i], x>> \in fl

LEMMA SinkNames ==
  /\ Len(Sinks) = 2 /\ DOMAIN Sinks = 1..2
  /\ \A k \in 1..2 : Sinks[k] \in ToSet(Sinks)
  /\ ToSet(Sinks) = {"file", "sql"}
<1>1. Sinks \in Seq({"file", "sql"}) /\ Len(Sinks) = 2 /\ Sinks[1] = "file" /\ Sinks[2] = "sql"
  BY DEF Sinks
<1>2. DOMAIN Sinks = 1..2
  BY <1>1
<1>3. QED
  BY <1>1, <1>2 DEF ToSet

\* What a handler writes is accounted for afterwards, and what was still is.
LEMMA PersistAccounts ==
  ASSUME NEW items, NEW taken \in [items -> 0..Len(Sinks)], Persist(items, taken)
  PROVE  /\ \A x \in items : Accounted(stored', failed', x)
         /\ \A x : Accounted(stored, failed, x) => Accounted(stored', failed', x)
<1> USE SinkNames
<1>1. /\ \A k \in 1..2 : stored'[Sinks[k]] =
             stored[Sinks[k]] \cup {x \in items : \E i \in 1..taken[x] : Sinks[i] = Sinks[k]}
      /\ failed' = failed \cup
             {<<Sinks[taken[x] + 1], x>> : x \in {y \in items : taken[y] < Len(Sinks)}}
  BY DEF Persist
<1>2. ASSUME NEW x \in items, NEW k \in 1..2
      PROVE  x \in stored'[Sinks[k]] \/ \E i \in 1..k : <<Sinks[i], x>> \in failed'
  <2>1. taken[x] \in 0..2
    OBVIOUS
  <2>2. CASE k <= taken[x]
    <3>1. k \in 1..taken[x]
      BY <2>1, <2>2
    <3>2. QED
      BY <1>1, <3>1
  <2>3. CASE ~(k <= taken[x])
    <3>1. taken[x] + 1 \in 1..k /\ taken[x] < Len(Sinks)
      BY <2>1, <2>3
    <3>2. <<Sinks[taken[x] + 1], x>> \in failed'
      BY <1>1, <3>1
    <3>3. QED
      BY <3>1, <3>2
  <2>4. QED
    BY <2>2, <2>3
<1>3. QED
  BY <1>1, <1>2 DEF Accounted

\* Finitely many writes fail: one per item and sink.
LEMMA PersistFails ==
  ASSUME IsFiniteSet(failed), NEW items, IsFiniteSet(items),
         NEW taken \in [items -> 0..Len(Sinks)], Persist(items, taken)
  PROVE  IsFiniteSet(failed')
<1> DEFINE new == {<<Sinks[taken[x] + 1], x>> : x \in {y \in items : taken[y] < Len(Sinks)}}
<1>1. failed' = failed \cup new
  BY DEF Persist
<1>2. new \in SUBSET (ToSet(Sinks) \X items)
  <2>1. ASSUME NEW x \in items, taken[x] < Len(Sinks) PROVE Sinks[taken[x] + 1] \in ToSet(Sinks)
    <3>1. taken[x] \in 0..2 /\ taken[x] < 2
      BY <2>1, SinkNames
    <3>2. taken[x] + 1 \in 1..2
      BY <3>1
    <3>3. QED
      BY <3>2, SinkNames
  <2>2. QED
    BY <2>1
<1>3. IsFiniteSet(ToSet(Sinks))
  <2>1. IsFiniteSet({"file"} \cup {"sql"}) /\ {"file", "sql"} = {"file"} \cup {"sql"}
    BY FS_Singleton, FS_Union
  <2>2. QED
    BY <2>1, SinkNames
<1>4. IsFiniteSet(ToSet(Sinks) \X items)
  BY <1>3, FS_Product
<1> HIDE DEF new
<1>5. IsFiniteSet(new)
  BY <1>2, <1>4, FS_Subset
<1>6. QED
  BY <1>1, <1>5, FS_Union

\* The map has, of a trace that is not complete yet, all the stages that have
\* come in, so the one that completes it finds the others there.
OpenTracesKept ==
  /\ latency_state \subseteq seen
  /\ \A t : ~Complete(seen, t) =>
       \A s \in Stages : <<t, s>> \in seen => <<t, s>> \in latency_state

SinkInv == OpenTracesKept /\ LostOnlyWhereItFailed /\ IsFiniteSet(failed)

LEMMA EventPersisted == ASSUME SinkInv, HandleEvent PROVE SinkInv'
<1> DEFINE e == Head(chan["log.event"])
           x == <<e.trace, e.stage>>
           state == IF e.stage = "none" THEN latency_state ELSE latency_state \cup {x}
           complete == e.stage # "none" /\ Complete(state, e.trace)
           records == IF complete THEN {<<e.trace, "latency">>} ELSE {}
<1>1. /\ latency_state' = IF complete THEN WithoutTrace(state, e.trace) ELSE state
      /\ seen' = seen \cup {x}
      /\ Write(records, x)
  BY DEF HandleEvent
<1>2. PICK taken \in [records \cup {x} -> 0..Len(Sinks)] : Persist(records \cup {x}, taken)
  BY <1>1 DEF Write
<1>3. records \subseteq {<<e.trace, "latency">>} /\ (complete => records = {<<e.trace, "latency">>})
  OBVIOUS
<1>4. state \subseteq seen' /\ latency_state \subseteq state
      /\ (e.stage # "none" => x \in state)
  BY <1>1 DEF SinkInv, OpenTracesKept
<1>5. latency_state' \subseteq state
      /\ \A t : t # e.trace \/ ~complete => \A s : <<t, s>> \in state => <<t, s>> \in latency_state'
  BY <1>1 DEF WithoutTrace
<1>6. complete => Complete(state, e.trace)
  OBVIOUS
<1>7. Complete(state, e.trace) /\ e.stage # "none" => complete
  OBVIOUS
<1> HIDE DEF e, x, state, complete, records
<1>8. "none" \notin Stages
  BY DEF Stages
<1>9. ASSUME NEW t, ~Complete(seen, t), NEW s \in Stages, <<t, s>> \in seen'
      PROVE  <<t, s>> \in state
  <2>1. CASE <<t, s>> \in seen
    BY <1>4, <1>9, <2>1 DEF SinkInv, OpenTracesKept
  <2>2. CASE <<t, s>> = x
    BY <1>4, <1>8, <1>9, <2>2 DEF x
  <2>3. QED
    BY <1>1, <1>9, <2>1, <2>2
<1>10. \A t : Complete(seen, t) => Complete(seen', t)
  BY <1>1 DEF Complete
<1>11. OpenTracesKept'
  <2>1. ASSUME NEW t, ~Complete(seen', t), NEW s \in Stages, <<t, s>> \in seen'
        PROVE  <<t, s>> \in latency_state'
    <3>1. <<t, s>> \in state
      BY <1>9, <1>10, <2>1
    <3>2. t # e.trace \/ ~complete
      BY <1>4, <1>6, <2>1 DEF Complete
    <3>3. QED
      BY <1>5, <3>1, <3>2
  <2>2. QED
    BY <1>4, <1>5, <2>1 DEF OpenTracesKept
<1>12. ASSUME NEW y \in Due' PROVE y \in Due \/ y \in records \cup {x}
  <2>1. CASE y \in seen'
    BY <1>1, <2>1 DEF Due
  <2>2. ASSUME NEW t \in Traces, Complete(seen', t), y = <<t, "latency">>
        PROVE  y \in Due \/ y \in records
    <3>1. CASE Complete(seen, t)
      BY <2>2, <3>1 DEF Due
    <3>2. CASE ~Complete(seen, t)
      <4>1. Complete(state, t)
        BY <1>9, <2>2, <3>2 DEF Complete
      <4>2. PICK s \in Stages : <<t, s>> \notin seen
        BY <3>2 DEF Complete
      <4>3. <<t, s>> = x
        BY <1>1, <2>2, <4>2 DEF Complete
      <4>4. t = e.trace /\ e.stage # "none"
        BY <1>8, <4>2, <4>3 DEF x
      <4>5. QED
        BY <1>3, <1>7, <2>2, <4>1, <4>4
    <3>3. QED
      BY <3>1, <3>2
  <2>3. QED
    BY <1>12, <2>1, <2>2 DEF Due
<1>13. LostOnlyWhereItFailed'
  <2>1. \A y \in Due : Accounted(stored, failed, y)
    BY DEF SinkInv, LostOnlyWhereItFailed, Accounted
  <2>2. \A y \in Due' : Accounted(stored', failed', y)
    BY <1>2, <1>12, <2>1, PersistAccounts
  <2>3. QED
    BY <2>2 DEF LostOnlyWhereItFailed, Accounted
<1>14. IsFiniteSet(failed')
  <2>1. IsFiniteSet({<<e.trace, "latency">>} \cup {x}) /\ records \cup {x} \in
          SUBSET ({<<e.trace, "latency">>} \cup {x})
    BY <1>3, FS_Singleton, FS_Union
  <2>2. IsFiniteSet(records \cup {x})
    BY <2>1, FS_Subset
  <2>3. QED
    BY <1>2, <2>2, PersistFails DEF SinkInv
<1>15. QED
  BY <1>11, <1>13, <1>14 DEF SinkInv

LEMMA TradePersisted == ASSUME SinkInv, HandleTrade PROVE SinkInv'
<1> DEFINE x == <<Head(chan["log.trade"]), "trade">>
<1>1. seen' = seen \cup {x} /\ Write({}, x) /\ UNCHANGED latency_state
  BY DEF HandleTrade
<1>2. \A t : \A s \in Stages : <<t, s>> # x
  BY DEF Stages
<1> HIDE DEF x
<1>3. PICK taken \in [{} \cup {x} -> 0..Len(Sinks)] : Persist({} \cup {x}, taken)
  BY <1>1 DEF Write
<1>4. \A t : Complete(seen', t) <=> Complete(seen, t)
  BY <1>1, <1>2 DEF Complete
<1>5. OpenTracesKept'
  BY <1>1, <1>2, <1>4 DEF SinkInv, OpenTracesKept
<1>6. \A y \in Due' : y \in Due \/ y = x
  BY <1>1, <1>4 DEF Due
<1>7. LostOnlyWhereItFailed'
  <2>1. \A y \in Due : Accounted(stored, failed, y)
    BY DEF SinkInv, LostOnlyWhereItFailed, Accounted
  <2>2. \A y \in Due' : Accounted(stored', failed', y)
    BY <1>3, <1>6, <2>1, PersistAccounts
  <2>3. QED
    BY <2>2 DEF LostOnlyWhereItFailed, Accounted
<1>8. IsFiniteSet(failed')
  <2>1. {} \cup {x} = {x} /\ IsFiniteSet({x})
    BY FS_Singleton
  <2>2. QED
    BY <1>3, <2>1, PersistFails DEF SinkInv
<1>9. QED
  BY <1>5, <1>7, <1>8 DEF SinkInv

LEMMA SinkInvariant == Spec => []SinkInv
<1>1. Init => SinkInv
  <2> SUFFICES ASSUME Init PROVE SinkInv
    OBVIOUS
  <2>1. seen = {} /\ latency_state = {} /\ failed = {}
    BY DEF Init, LogInit
  <2>2. Due = {}
    BY <2>1 DEF Due, Complete, Stages
  <2>3. QED
    BY <2>1, <2>2, FS_EmptySet DEF SinkInv, OpenTracesKept, LostOnlyWhereItFailed
<1>2. SinkInv /\ [Next]_vars => SinkInv'
  <2> SUFFICES ASSUME SinkInv, [Next]_vars PROVE SinkInv'
    OBVIOUS
  <2>1. CASE Log
    BY <2>1, EventPersisted, TradePersisted DEF Log, LogTask
  <2>2. CASE UNCHANGED logVars
    BY <2>2 DEF logVars, SinkInv, OpenTracesKept, LostOnlyWhereItFailed, Due, Complete
  <2>3. QED
    BY <2>1, <2>2, LogFrame
<1>3. QED
  BY <1>1, <1>2, PTL DEF Spec

\* handle_event and handle_trade: an event, a trade or a latency record that is
\* missing from a sink has failed there or in a sink before it. The two writes
\* of an event do not depend on each other, and no trace is completed without
\* its record being written: the map still has the stages that came before.
THEOREM WritesAccounted == Spec => []LostOnlyWhereItFailed
<1>1. SinkInv => LostOnlyWhereItFailed
  BY DEF SinkInv
<1>2. QED
  BY <1>1, SinkInvariant, PTL

----
\* The status, on a node that has a feed and therefore one engine.
Places == {"off", "reset", "load", "subscribe", "replay", "status"}

Placed ==
  /\ bpc \in [Engines -> Places]
  /\ status = [running |-> status.running, current_ts |-> status.current_ts,
               result |-> status.result]
  /\ feed # "none" => bpc["kernel"] = "off"

\* The coordinator's engine starts and ends, publishes and waits.
LEMMA StatusStep ==
  ASSUME Placed, StatusHonest, UNCHANGED feed, NEW e \in Engines,
         EngineTask(e) \/ StartBacktest
  PROVE  Placed' /\ StatusHonest'
<1> USE DEF Engines, Placed, StatusHonest, At
<1>1. CASE StartBacktest
  BY <1>1 DEF StartBacktest, Places
<1>2. CASE ResetStatus
  BY <1>2 DEF ResetStatus, Places
<1>3. CASE Load(e) \/ LoadFails(e) \/ SubscribeMetrics(e) \/ Replay(e) \/ EngineWaits(e)
  BY <1>3 DEF Load, LoadFails, SubscribeMetrics, Replay, EngineWaits, backtestVars, Places
<1>4. CASE UpdateStatus(e)
  BY <1>4 DEF UpdateStatus, Places
<1>5. CASE Finish(e)
  BY <1>5 DEF Finish, Places
<1>6. QED
  BY <1>1, <1>2, <1>3, <1>4, <1>5 DEF EngineTask

StatusInv == Placed /\ StatusHonest

LEMMA StatusInvariant == Spec => []StatusInv
<1>1. Init => StatusInv
  BY DEF Init, MarketInit, BacktestInit, StatusInv, Placed, StatusHonest, Places, Engines
<1>2. StatusInv /\ [Next]_vars => StatusInv'
  <2> SUFFICES ASSUME StatusInv, [Next]_vars PROVE StatusInv'
    OBVIOUS
  <2>1. feed' = feed
    BY FeedFrame
  <2>2. CASE UNCHANGED <<bpc, status>>
    BY <2>1, <2>2 DEF StatusInv, Placed, StatusHonest
  <2>3. CASE UNCHANGED backtestVars \/ PublishResult \/ \E e \in Engines : RecordResult(e)
    BY <2>2, <2>3 DEF backtestVars, PublishResult, RecordResult
  <2>4. CASE StartBacktest \/ \E e \in Engines : EngineTask(e)
    <3>1. "api" \in Engines
      BY DEF Engines
    <3>2. QED
      BY <2>1, <2>4, <3>1, StatusStep DEF StatusInv
  <2>5. QED
    BY <2>3, <2>4, BacktestFrame
<1>3. QED
  BY <1>1, <1>2, PTL DEF Spec

\* GET /backtest/status on a node in Live mode: while a run publishes it says so
\* and shows no result, and with a result it does not say that one runs.
THEOREM StatusTrue == Spec => []StatusHonest
<1>1. StatusInv => StatusHonest
  BY DEF StatusInv
<1>2. QED
  BY <1>1, StatusInvariant, PTL

----
\* Queues of any messages: what appending and taking one does to them.
IsQueue(q) == \E S : q \in Seq(S)

LEMMA QueueEmpty == IsQueue(<<>>)
<1>1. <<>> \in Seq({})
  OBVIOUS
<1>2. QED
  BY <1>1 DEF IsQueue

LEMMA QueueAppend ==
  ASSUME NEW q, IsQueue(q), NEW m
  PROVE  /\ IsQueue(Append(q, m))
         /\ Len(q) \in Nat /\ Len(Append(q, m)) = Len(q) + 1
         /\ \A i \in 1..Len(q) : Append(q, m)[i] = q[i]
         /\ Append(q, m)[Len(q) + 1] = m
<1>1. PICK S : q \in Seq(S)
  BY DEF IsQueue
<1>2. q \in Seq(S \cup {m})
  BY <1>1, SeqDef
<1>3. Append(q, m) \in Seq(S \cup {m})
  BY <1>2
<1>4. /\ Len(q) \in Nat /\ Len(Append(q, m)) = Len(q) + 1
      /\ \A i \in 1..Len(q) : Append(q, m)[i] = q[i]
      /\ Append(q, m)[Len(q) + 1] = m
  BY <1>2
<1>5. QED
  BY <1>3, <1>4 DEF IsQueue

LEMMA QueueTail ==
  ASSUME NEW q, IsQueue(q), q # <<>>
  PROVE  /\ IsQueue(Tail(q))
         /\ Len(q) \in Nat \ {0} /\ Len(Tail(q)) = Len(q) - 1
         /\ \A i \in 1..Len(Tail(q)) : i + 1 \in 1..Len(q) /\ Tail(q)[i] = q[i + 1]
         /\ Head(q) = q[1]
<1>1. PICK S : q \in Seq(S)
  BY DEF IsQueue
<1>2. Tail(q) \in Seq(S)
  BY <1>1
<1>3. /\ Len(q) \in Nat \ {0} /\ Len(Tail(q)) = Len(q) - 1
      /\ \A i \in 1..Len(Tail(q)) : i + 1 \in 1..Len(q) /\ Tail(q)[i] = q[i + 1]
      /\ Head(q) = q[1]
  BY <1>1
<1>4. QED
  BY <1>2, <1>3 DEF IsQueue

----
\* The metrics: a fill is in the queue once, and counted once when taken.
LEMMA UncountedFinite ==
  ASSUME NEW q, IsQueue(q)
  PROVE  IsFiniteSet(Uncounted(q)) /\ Cardinality(Uncounted(q)) \in Nat
<1>1. Len(q) \in Nat
  BY DEF IsQueue
<1>2. IsFiniteSet(1..Len(q)) /\ Uncounted(q) \subseteq 1..Len(q)
  BY <1>1, FS_Interval DEF Uncounted
<1>3. QED
  BY <1>2, FS_Subset, FS_CardinalityType

LEMMA UncountedAppend ==
  ASSUME NEW q, IsQueue(q), NEW m
  PROVE  Cardinality(Uncounted(Append(q, m)))
           = Cardinality(Uncounted(q)) + (IF m = "Filled" THEN 1 ELSE 0)
<1> DEFINE r == Append(q, m)
           n == Len(q) + 1
<1>1. /\ Len(q) \in Nat /\ Len(r) = n /\ r[n] = m
      /\ \A i \in 1..Len(q) : r[i] = q[i]
  BY QueueAppend
<1>2. 1..n = (1..Len(q)) \cup {n} /\ n \notin 1..Len(q)
  BY <1>1
<1> HIDE DEF r, n
<1>3. Uncounted(r) = IF m = "Filled" THEN Uncounted(q) \cup {n} ELSE Uncounted(q)
  BY <1>1, <1>2 DEF Uncounted
<1>4. n \notin Uncounted(q)
  BY <1>2 DEF Uncounted
<1>5. IsFiniteSet(Uncounted(q)) /\ Cardinality(Uncounted(q)) \in Nat
  BY UncountedFinite
<1>6. Cardinality(Uncounted(q) \cup {n}) = Cardinality(Uncounted(q)) + 1
  BY <1>4, <1>5, FS_AddElement
<1>7. QED
  BY <1>3, <1>5, <1>6 DEF r

LEMMA UncountedTail ==
  ASSUME NEW q, IsQueue(q), q # <<>>
  PROVE  Cardinality(Uncounted(q))
           = Cardinality(Uncounted(Tail(q))) + (IF Head(q) = "Filled" THEN 1 ELSE 0)
<1> DEFINE r == Tail(q)
           Shifted == {i + 1 : i \in Uncounted(r)}
<1>1. /\ IsQueue(r) /\ Len(q) \in Nat \ {0} /\ Len(r) = Len(q) - 1 /\ Head(q) = q[1]
      /\ \A i \in 1..Len(r) : r[i] = q[i + 1]
  BY QueueTail
<1> HIDE DEF r
<1>2. Uncounted(q) = Shifted \cup (IF Head(q) = "Filled" THEN {1} ELSE {})
  <2>1. ASSUME NEW i PROVE i \in Uncounted(q) <=> i \in Shifted \/ (i = 1 /\ Head(q) = "Filled")
    <3>1. CASE i \in Uncounted(q) /\ i # 1
      <4>1. i - 1 \in 1..Len(r) /\ (i - 1) + 1 = i
        BY <1>1, <3>1 DEF Uncounted
      <4>2. r[i - 1] = "Filled"
        BY <1>1, <3>1, <4>1 DEF Uncounted
      <4>3. QED
        BY <3>1, <4>1, <4>2 DEF Uncounted
    <3>2. CASE i \in Shifted
      <4>1. PICK j \in Uncounted(r) : i = j + 1
        BY <3>2
      <4>2. QED
        BY <1>1, <4>1 DEF Uncounted
    <3>3. CASE i = 1
      BY <1>1, <3>3 DEF Uncounted
    <3>4. QED
      BY <3>1, <3>2, <3>3
  <2>2. QED
    BY <2>1
<1>3. 1 \notin Shifted
  BY <1>1 DEF Uncounted
<1>4. IsFiniteSet(Uncounted(r)) /\ Cardinality(Uncounted(r)) \in Nat
  BY <1>1, UncountedFinite
<1>5. IsFiniteSet(Shifted) /\ Cardinality(Shifted) = Cardinality(Uncounted(r))
  <2> DEFINE up == [i \in Uncounted(r) |-> i + 1]
  <2>1. Uncounted(r) \subseteq Nat
    BY <1>1 DEF Uncounted
  <2>2. up \in Injection(Uncounted(r), Shifted)
    BY <2>1 DEF Injection, IsInjective
  <2>3. up \in Surjection(Uncounted(r), Shifted)
    BY DEF Surjection
  <2> HIDE DEF up, Shifted
  <2>4. QED
    BY <1>4, <2>2, <2>3, FS_Surjection
<1>6. Cardinality(Shifted \cup {1}) = Cardinality(Shifted) + 1
  BY <1>3, <1>5, FS_AddElement
<1>7. QED
  <2> HIDE DEF Shifted
  <2>1. CASE Head(q) = "Filled"
    BY <1>2, <1>4, <1>5, <1>6, <2>1 DEF r
  <2>2. CASE Head(q) # "Filled"
    <3>1. Uncounted(q) = Shifted
      BY <1>2, <2>2
    <3>2. QED
      BY <1>4, <1>5, <2>2, <3>1 DEF r
  <2>3. QED
    BY <2>1, <2>2

Metered ==
  /\ trades \in [Engines -> Nat]
  /\ filled \in [Engines -> Nat]
  /\ results = [e \in Engines |-> results[e]]
  /\ \A e \in Engines : IsQueue(results[e])

MeterInv == Metered /\ MetricsMatchFills /\ listening \subseteq Engines

LEMMA MeterInvariant == Spec => []MeterInv
<1> DEFINE Count(e) == Cardinality(Uncounted(results[e]))
<1>1. Init => MeterInv
  BY QueueEmpty DEF Init, BacktestInit, MeterInv, Metered, MetricsMatchFills
<1>2. MeterInv /\ [Next]_vars => MeterInv'
  <2> SUFFICES ASSUME MeterInv, [Next]_vars PROVE MeterInv'
    OBVIOUS
  <2>1. \A e \in Engines : Count(e) \in Nat
    BY UncountedFinite DEF MeterInv, Metered
  <2>2. CASE UNCHANGED engineVars
    BY <2>2 DEF engineVars, MeterInv, Metered, MetricsMatchFills
  <2>3. CASE UNCHANGED backtestVars
    BY <2>2, <2>3 DEF backtestVars, engineVars
  <2>4. CASE StartBacktest
    BY <2>4 DEF StartBacktest, MeterInv, Metered, MetricsMatchFills
  <2>5. ASSUME NEW e \in Engines, SubscribeMetrics(e) PROVE MeterInv'
    <3>1. /\ results' = [results EXCEPT ![e] = <<>>] /\ listening' = listening \cup {e}
          /\ trades' = [trades EXCEPT ![e] = 0] /\ filled' = [filled EXCEPT ![e] = 0]
      BY <2>5 DEF SubscribeMetrics
    <3>2. Metered'
      BY <3>1, QueueEmpty DEF MeterInv, Metered
    <3>3. Uncounted(<<>>) = {} /\ Cardinality({}) = 0
      BY FS_EmptySet DEF Uncounted
    <3>4. ASSUME NEW d \in listening' PROVE trades'[d] + Count(d)' = filled'[d]
      <4>1. CASE d = e
        <5>1. trades'[d] = 0 /\ filled'[d] = 0 /\ results'[d] = <<>>
          BY <3>1, <4>1 DEF MeterInv, Metered
        <5>2. Count(d)' = 0
          BY <3>3, <5>1
        <5>3. QED
          BY <5>1, <5>2
      <4>2. CASE d # e
        BY <3>1, <3>4, <4>2 DEF MeterInv, Metered, MetricsMatchFills
      <4>3. QED
        BY <4>1, <4>2
    <3>5. QED
      BY <3>1, <3>2, <3>4 DEF MeterInv, MetricsMatchFills
  <2>6. ASSUME NEW e \in Engines, RecordResult(e) PROVE MeterInv'
    <3>1. /\ results[e] # <<>> /\ results' = [results EXCEPT ![e] = Tail(results[e])]
          /\ trades' = [trades EXCEPT ![e] = IF Head(results[e]) = "Filled" THEN @ + 1 ELSE @]
          /\ UNCHANGED <<listening, filled>>
      BY <2>6 DEF RecordResult, Counts
    <3>2. IsQueue(results[e]) /\ IsQueue(Tail(results[e]))
      BY <3>1, QueueTail DEF MeterInv, Metered
    <3>3. Metered'
      <4>1. trades[e] \in Nat /\ trades[e] + 1 \in Nat
        BY DEF MeterInv, Metered
      <4>2. trades' \in [Engines -> Nat]
        BY <3>1, <4>1 DEF MeterInv, Metered
      <4>3. /\ results' = [d \in Engines |-> results'[d]]
            /\ \A d \in Engines : IsQueue(results'[d])
        BY <3>1, <3>2 DEF MeterInv, Metered
      <4>4. QED
        BY <3>1, <4>2, <4>3 DEF MeterInv, Metered
    <3>4. Count(e) = Cardinality(Uncounted(Tail(results[e])))
                       + (IF Head(results[e]) = "Filled" THEN 1 ELSE 0)
      BY <3>1, <3>2, UncountedTail
    <3>5. results'[e] = Tail(results[e])
      BY <3>1 DEF MeterInv, Metered
    <3>6. Count(e)' \in Nat
      BY <3>2, <3>5, UncountedFinite
    <3>7. ASSUME NEW d \in listening' PROVE trades'[d] + Count(d)' = filled'[d]
      <4>1. CASE d = e
        <5>1. trades[e] + Count(e) = filled[e] /\ trades[e] \in Nat
          BY <3>1, <4>1 DEF MeterInv, Metered, MetricsMatchFills
        <5>2. trades'[e] = trades[e] + (IF Head(results[e]) = "Filled" THEN 1 ELSE 0)
          BY <3>1, <5>1 DEF MeterInv, Metered
        <5>3. Count(e) = Count(e)' + (IF Head(results[e]) = "Filled" THEN 1 ELSE 0)
          BY <3>4, <3>5
        <5>4. QED
          BY <3>1, <3>6, <4>1, <5>1, <5>2, <5>3
      <4>2. CASE d # e
        BY <3>1, <3>7, <4>2 DEF MeterInv, Metered, MetricsMatchFills
      <4>3. QED
        BY <4>1, <4>2
    <3>8. QED
      BY <3>1, <3>3, <3>7 DEF MeterInv, MetricsMatchFills
  <2>7. CASE PublishResult
    <3>1. PICK res : DeliverResult("exec", res)
      BY <2>7 DEF PublishResult
    <3>2. UNCHANGED <<trades, listening>>
      BY <2>7 DEF PublishResult
    <3>3. ASSUME NEW d \in Engines
          PROVE  /\ IsQueue(results'[d]) /\ filled'[d] \in Nat
                 /\ d \in listening => trades[d] + Count(d)' = filled'[d]
      <4>1. CASE d \in listening
        <5>1. /\ results'[d] = Append(results[d], res)
              /\ filled'[d] = filled[d] + (IF res = "Filled" THEN 1 ELSE 0)
          BY <3>1, <4>1 DEF DeliverResult, MeterInv, Metered
        <5>2. Count(d)' = Count(d) + (IF res = "Filled" THEN 1 ELSE 0)
          BY <5>1, UncountedAppend DEF MeterInv, Metered
        <5>3. trades[d] + Count(d) = filled[d] /\ trades[d] \in Nat /\ filled[d] \in Nat
          BY <4>1 DEF MeterInv, Metered, MetricsMatchFills
        <5>4. IsQueue(results'[d])
          BY <5>1, QueueAppend DEF MeterInv, Metered
        <5>5. QED
          BY <2>1, <5>1, <5>2, <5>3, <5>4
      <4>2. CASE d \notin listening
        BY <3>1, <4>2 DEF DeliverResult, MeterInv, Metered
      <4>3. QED
        BY <4>1, <4>2
    <3>4. Metered'
      BY <3>1, <3>2, <3>3 DEF DeliverResult, MeterInv, Metered
    <3>5. QED
      BY <3>2, <3>3, <3>4 DEF MeterInv, MetricsMatchFills
  <2>8. ASSUME NEW e \in Engines, EngineTask(e) PROVE MeterInv'
    BY <2>2, <2>3, <2>5, <2>8
    DEF EngineTask, ResetStatus, Load, LoadFails, Replay, UpdateStatus, Finish, EngineWaits
  <2>9. QED
    BY <2>3, <2>4, <2>6, <2>7, <2>8, BacktestFrame
<1>3. QED
  BY <1>1, <1>2, PTL DEF Spec

\* GET /backtest/status and the kernel's engine show the fills their metrics have
\* taken: each fill published while they listened is counted once or still queued.
THEOREM FillsCounted == Spec => []MetricsMatchFills
<1>1. MeterInv => MetricsMatchFills
  BY DEF MeterInv
<1>2. QED
  BY <1>1, MeterInvariant, PTL

----
\* The bus, whatever it carries, and the queue of the log service.
Queues ==
  /\ chan = [s \in Subjects |-> chan[s]]
  /\ \A s \in Subjects : IsQueue(chan[s])

Events == chan["log.event"]

LEMMA PublishQueues ==
  ASSUME Queues, NEW task, NEW s \in Subjects, NEW m, Publish(task, s, m)
  PROVE  /\ Queues'
         /\ s # "log.event" => Events' = Events
         /\ Events' = Events \/ Events' = Append(Events, m)
<1>1. IsQueue(Append(chan[s], m))
  BY QueueAppend DEF Queues
<1>2. "log.event" \in Subjects
  BY DEF Subjects
<1>3. QED
  BY <1>1, <1>2 DEF Queues, Publish, Events

LEMMA ReceiveQueues ==
  ASSUME Queues, NEW s \in Subjects, Receive(s)
  PROVE  /\ Queues'
         /\ s # "log.event" => Events' = Events
         /\ s = "log.event" => Events # <<>> /\ Events' = Tail(Events)
<1>1. IsQueue(Tail(chan[s]))
  BY QueueTail DEF Queues, Receive
<1>2. "log.event" \in Subjects
  BY DEF Subjects
<1>3. QED
  BY <1>1, <1>2 DEF Queues, Receive, Events

\* A task or a subscription that begins to wait moves no message.
LEMMA WaitsMoveNothing ==
  ASSUME \/ UNCHANGED bus
         \/ \E task, s : AwaitRoom(task, s)
         \/ \E task, p : AwaitSnapshotRoom(task, p)
         \/ \E s : Ask(s)
  PROVE  UNCHANGED <<chan, subscribed>>
BY DEF bus, AwaitRoom, AwaitSnapshotRoom, HoldLock, Ask

----
\* The feed logs each of its traces once: what its events in the queue and those
\* handled say has been logged, and no two say the same.
Logged(t) == t <= tick.trace /\ (t = tick.trace => dpc = "tick")
TickEvents == {i \in 1..Len(Events) : Events[i].stage = "tick"}

TicksOnce ==
  /\ tick.trace \in Nat
  /\ \A i \in TickEvents :
       /\ Events[i].trace \in Nat /\ Logged(Events[i].trace)
       /\ <<Events[i].trace, "tick">> \notin seen
  /\ \A i, j \in TickEvents : Events[i].trace = Events[j].trace => i = j
  /\ \A t \in Nat : <<t, "tick">> \in seen => Logged(t)

\* The map of open traces: it has the stages that have come in of a trace without
\* a record, and never again the tick of one that has it.
Joined ==
  /\ latency_records \in [Traces -> Nat]
  /\ \A t \in Traces :
       IF Complete(seen, t) THEN <<t, "tick">> \notin latency_state
       ELSE \A s \in Stages : <<t, s>> \in latency_state <=> <<t, s>> \in seen

RecordInv == Queues /\ TicksOnce /\ Joined /\ RecordedOnce

\* A step that logs no tick and handles no event.
LEMMA NoTickLogged ==
  ASSUME RecordInv, Queues', UNCHANGED <<latency_state, latency_records>>,
         \A t : \A s \in Stages : <<t, s>> \in seen' <=> <<t, s>> \in seen,
         \/ Events' = Events
         \/ \E m : Events' = Append(Events, m) /\ m.stage # "tick",
         \/ UNCHANGED <<tick, dpc>>
         \/ UNCHANGED tick /\ dpc = "publish" /\ dpc' = "history"
         \/ UNCHANGED tick /\ dpc = "history" /\ dpc' = "log"
         \/ tick'.trace = tick.trace + 1
         \/ UNCHANGED tick /\ dpc = "log" /\ dpc' = "tick"
  PROVE  RecordInv'
<1>1. TickEvents' = TickEvents /\ \A i \in TickEvents : Events'[i] = Events[i]
  <2>1. CASE Events' = Events
    BY <2>1 DEF TickEvents
  <2>2. ASSUME NEW m, Events' = Append(Events, m), m.stage # "tick"
        PROVE  TickEvents' = TickEvents /\ \A i \in TickEvents : Events'[i] = Events[i]
    <3>1. IsQueue(Events)
      BY DEF RecordInv, Queues, Events, Subjects
    <3>2. /\ Len(Events) \in Nat /\ Len(Events') = Len(Events) + 1
          /\ \A i \in 1..Len(Events) : Events'[i] = Events[i]
          /\ Events'[Len(Events) + 1] = m
      BY <2>2, <3>1, QueueAppend
    <3>3. 1..Len(Events') = (1..Len(Events)) \cup {Len(Events) + 1}
      BY <3>2
    <3> HIDE DEF Events
    <3>4. QED
      BY <2>2, <3>2, <3>3 DEF TickEvents
  <2>3. QED
    BY <2>1, <2>2
<1>2. tick.trace \in Nat /\ tick'.trace \in Nat
  BY DEF RecordInv, TicksOnce
<1>3. \A t \in Nat : Logged(t) => Logged(t)'
  BY <1>2 DEF Logged
<1>4. \A t : <<t, "tick">> \in seen' <=> <<t, "tick">> \in seen
  BY DEF Stages
<1>5. TicksOnce'
  <2> HIDE DEF Events
  <2>1. QED
    BY <1>1, <1>2, <1>3, <1>4 DEF RecordInv, TicksOnce
<1>6. \A t : Complete(seen', t) <=> Complete(seen, t)
  BY DEF Complete
<1>7. QED
  BY <1>5, <1>6 DEF RecordInv, Joined, RecordedOnce

\* The feed logs the current tick.
LEMMA TickLogged == ASSUME RecordInv, LogTick, UNCHANGED logVars PROVE RecordInv'
<1> DEFINE m == [trace |-> tick.trace, stage |-> IF feed = "Simulated" THEN "tick" ELSE "none"]
<1>1. /\ Publish("feed", "log.event", m) /\ UNCHANGED tick /\ dpc = "log" /\ dpc' = "tick"
      /\ UNCHANGED <<latency_state, latency_records, seen>>
  BY DEF LogTick, logVars
<1>2. Queues' /\ (Events' = Events \/ Events' = Append(Events, m))
  <2> HIDE DEF m
  <2>1. QED
    BY <1>1, PublishQueues DEF RecordInv, Subjects
<1>3. CASE Events' = Events \/ feed # "Simulated"
  BY <1>1, <1>2, <1>3, NoTickLogged
<1>4. CASE Events' = Append(Events, m) /\ feed = "Simulated"
  <2>1. m.stage = "tick" /\ m.trace = tick.trace
    BY <1>4
  <2> HIDE DEF m
  <2>2. IsQueue(Events)
    BY DEF RecordInv, Queues, Events, Subjects
  <2> DEFINE n == Len(Events) + 1
  <2>3. /\ Len(Events) \in Nat /\ Len(Events') = n
        /\ \A i \in 1..Len(Events) : Events'[i] = Events[i]
        /\ Events'[n] = m
    BY <1>4, <2>2, QueueAppend
  <2>4. 1..n = (1..Len(Events)) \cup {n} /\ n \notin 1..Len(Events)
    BY <2>3
  <2> HIDE DEF n
  <2>5. /\ TickEvents' = TickEvents \cup {n} /\ n \notin TickEvents
        /\ \A i \in TickEvents : Events'[i] = Events[i]
    BY <2>1, <2>3, <2>4 DEF TickEvents
  <2>6. /\ tick.trace \in Nat
        /\ \A i \in TickEvents : Events[i].trace # tick.trace
        /\ <<tick.trace, "tick">> \notin seen
    BY <1>1 DEF RecordInv, TicksOnce, Logged
  <2>7. \A t \in Nat : (t = tick.trace \/ Logged(t)) => Logged(t)'
    BY <1>1, <2>6 DEF Logged
  <2>8. TicksOnce'
    <3> HIDE DEF Events
    <3>1. QED
      BY <1>1, <2>1, <2>3, <2>5, <2>6, <2>7 DEF RecordInv, TicksOnce
  <2>9. QED
    BY <1>1, <1>2, <2>8 DEF RecordInv, Joined, RecordedOnce
<1>5. QED
  BY <1>2, <1>3, <1>4

\* The log service handles an event.
LEMMA EventHandled ==
  ASSUME RecordInv, HandleEvent, UNCHANGED <<tick, dpc>> PROVE RecordInv'
<1> DEFINE e == Head(Events)
           x == <<e.trace, e.stage>>
           state == latency_state \cup {x}
           complete == e.stage # "none" /\ Complete(state, e.trace)
<1>1. Queues' /\ Events # <<>> /\ Events' = Tail(Events)
  BY ReceiveQueues DEF HandleEvent, RecordInv, Subjects
<1>2. IsQueue(Events)
  BY DEF RecordInv, Queues, Events, Subjects
<1>3. /\ Len(Events) \in Nat \ {0} /\ Len(Events') = Len(Events) - 1
      /\ \A i \in 1..Len(Events') : i + 1 \in 1..Len(Events) /\ Events'[i] = Events[i + 1]
      /\ e = Events[1]
  BY <1>1, <1>2, QueueTail
<1>4. /\ seen' = seen \cup {x}
      /\ e.stage = "none" => UNCHANGED <<latency_state, latency_records>>
      /\ e.stage # "none" =>
           /\ latency_state' = IF Complete(state, e.trace) THEN WithoutTrace(state, e.trace)
                               ELSE state
           /\ latency_records' = IF Complete(state, e.trace)
                                 THEN [latency_records EXCEPT ![e.trace] = @ + 1]
                                 ELSE latency_records
  BY DEF HandleEvent, Events
<1> HIDE DEF e, Events
<1>5. e.stage = "tick" =>
        /\ e.trace \in Nat /\ Logged(e.trace) /\ <<e.trace, "tick">> \notin seen
        /\ 1 \in TickEvents
  BY <1>3 DEF RecordInv, TicksOnce, TickEvents
<1>6. \A t : <<t, "tick">> \in seen' =>
               <<t, "tick">> \in seen \/ (t = e.trace /\ e.stage = "tick")
  BY <1>4
<1>7. TicksOnce'
  <2>1. \A i \in TickEvents' : /\ i + 1 \in TickEvents /\ Events'[i] = Events[i + 1]
                               /\ i \in Nat \ {0}
    BY <1>3 DEF TickEvents
  <2>2. \A t \in Nat : Logged(t)' <=> Logged(t)
    BY DEF Logged
  <2>3. \A i \in TickEvents' : <<Events'[i].trace, "tick">> \notin seen'
    <3> SUFFICES ASSUME NEW i \in TickEvents', <<Events'[i].trace, "tick">> \in seen'
                 PROVE FALSE
      OBVIOUS
    <3>1. <<Events[i + 1].trace, "tick">> \notin seen /\ i + 1 # 1
      BY <2>1 DEF RecordInv, TicksOnce
    <3>2. Events[i + 1].trace = e.trace /\ e.stage = "tick"
      BY <1>6, <2>1, <3>1
    <3>3. i + 1 = 1
      BY <1>3, <1>5, <2>1, <3>2 DEF RecordInv, TicksOnce
    <3>4. QED
      BY <3>1, <3>3
  <2>4. \A i, j \in TickEvents' : Events'[i].trace = Events'[j].trace => i = j
    <3> SUFFICES ASSUME NEW i \in TickEvents', NEW j \in TickEvents',
                        Events'[i].trace = Events'[j].trace
                 PROVE i = j
      OBVIOUS
    <3>1. i + 1 = j + 1
      BY <2>1 DEF RecordInv, TicksOnce
    <3>2. QED
      BY <2>1, <3>1
  <2>5. \A i \in TickEvents' : Events'[i].trace \in Nat /\ Logged(Events[i].trace)'
    BY <2>1, <2>2 DEF RecordInv, TicksOnce
  <2>6. \A t \in Nat : <<t, "tick">> \in seen' => Logged(t)'
    BY <1>5, <1>6, <2>2 DEF RecordInv, TicksOnce
  <2>7. QED
    BY <2>3, <2>4, <2>5, <2>6 DEF RecordInv, TicksOnce
<1>8. ASSUME NEW t \in Traces
      PROVE  /\ latency_records'[t] = IF Complete(seen', t) THEN 1 ELSE 0
             /\ IF Complete(seen', t) THEN <<t, "tick">> \notin latency_state'
                ELSE \A s \in Stages : <<t, s>> \in latency_state' <=> <<t, s>> \in seen'
  <2>1. /\ latency_records[t] = IF Complete(seen, t) THEN 1 ELSE 0
        /\ IF Complete(seen, t) THEN <<t, "tick">> \notin latency_state
           ELSE \A s \in Stages : <<t, s>> \in latency_state <=> <<t, s>> \in seen
        /\ latency_records \in [Traces -> Nat]
    BY DEF RecordInv, RecordedOnce, Joined
  <2>2. CASE e.stage = "none"
    <3>1. \A s \in Stages : <<t, s>> \in seen' <=> <<t, s>> \in seen
      BY <1>4, <2>2 DEF Stages
    <3>2. QED
      BY <1>4, <2>1, <2>2, <3>1 DEF Complete
  <2>3. CASE e.stage # "none" /\ t # e.trace
    <3>1. \A s : /\ <<t, s>> \in seen' <=> <<t, s>> \in seen
                 /\ <<t, s>> \in latency_state' <=> <<t, s>> \in latency_state
      BY <1>4, <2>3 DEF WithoutTrace
    <3>2. Complete(seen', t) <=> Complete(seen, t)
      BY <3>1 DEF Complete
    <3>3. latency_records'[t] = latency_records[t]
      BY <1>4, <2>1, <2>3
    <3>4. QED
      BY <2>1, <3>1, <3>2, <3>3
  <2>4. CASE e.stage # "none" /\ t = e.trace /\ Complete(seen, t)
    <3>1. e.stage # "tick"
      BY <1>5, <2>4 DEF Complete, Stages
    <3>2. <<t, "tick">> \notin state
      BY <2>1, <2>4, <3>1
    <3>3. ~Complete(state, t)
      BY <3>2 DEF Complete, Stages
    <3>4. Complete(seen', t)
      BY <1>4, <2>4 DEF Complete
    <3>5. QED
      BY <1>4, <2>1, <2>4, <3>2, <3>3, <3>4
  <2>5. CASE e.stage # "none" /\ t = e.trace /\ ~Complete(seen, t)
    <3>1. \A s \in Stages : <<t, s>> \in state <=> <<t, s>> \in seen'
      BY <1>4, <2>1, <2>5
    <3>2. Complete(state, t) <=> Complete(seen', t)
      BY <3>1 DEF Complete
    <3>3. CASE Complete(state, t)
      <4>1. latency_records'[t] = 1
        BY <1>4, <2>1, <2>5, <3>3
      <4>2. <<t, "tick">> \notin latency_state'
        BY <1>4, <2>5, <3>3 DEF WithoutTrace
      <4>3. QED
        BY <3>2, <3>3, <4>1, <4>2
    <3>4. CASE ~Complete(state, t)
      BY <1>4, <2>1, <2>5, <3>1, <3>2, <3>4
    <3>5. QED
      BY <3>3, <3>4
  <2>6. QED
    BY <2>2, <2>3, <2>4, <2>5
<1>9. latency_records' \in [Traces -> Nat]
  BY <1>4 DEF RecordInv, Joined
<1>10. Joined' /\ RecordedOnce'
  BY <1>8, <1>9 DEF Joined, RecordedOnce
<1>11. QED
  BY <1>1, <1>7, <1>10 DEF RecordInv

\* What a step does to the log service's queue and to the feed.
LEMMA RecordStep == ASSUME RecordInv, [Next]_vars PROVE RecordInv'
<1>1. Queues
  BY DEF RecordInv
<1>2. CASE Log
  <2>1. UNCHANGED <<tick, dpc>>
    BY <1>2 DEF Log, marketVars
  <2>2. CASE HandleTrade
    <3>1. /\ Receive("log.trade") /\ UNCHANGED <<latency_state, latency_records>>
          /\ \A t : \A s \in Stages : <<t, s>> \in seen' <=> <<t, s>> \in seen
      BY <2>2 DEF HandleTrade, Stages
    <3>2. Queues' /\ Events' = Events
      BY <1>1, <3>1, ReceiveQueues DEF Subjects
    <3>3. QED
      BY <2>1, <3>1, <3>2, NoTickLogged
  <2>3. QED
    BY <1>2, <2>1, <2>2, EventHandled DEF Log, LogTask
<1>3. CASE UNCHANGED logVars
  <2> USE <1>3 DEF logVars
  <2>1. CASE UNCHANGED <<chan, subscribed>>
    <3>1. Queues' /\ Events' = Events
      BY <1>1, <2>1 DEF Queues, Events
    <3>2. \/ UNCHANGED <<tick, dpc>>
          \/ UNCHANGED tick /\ dpc = "publish" /\ dpc' = "history"
          \/ UNCHANGED tick /\ dpc = "history" /\ dpc' = "log"
          \/ tick'.trace = tick.trace + 1
          \/ LogTick
      <4>1. ASSUME NEW p \in PairSet, StrategyTask(p) PROVE UNCHANGED <<tick, dpc>>
        BY <4>1
        DEF StrategyTask, Decide, PublishCommand, PublishDecision, StrategyWaits, marketVars
      <4>2. CASE ExecTask
        BY <4>2
        DEF ExecTask, Execute, PublishResult, PublishOrderEvent, PublishTrade, ExecWaits,
           marketVars
      <4>3. ASSUME NEW e \in Engines, Engine(e) PROVE UNCHANGED <<tick, dpc>>
        BY <4>3 DEF Engine, EngineTask, ResetStatus, Load, LoadFails, SubscribeMetrics,
           Replay, UpdateStatus, Finish, EngineWaits, marketVars
      <4>4. ASSUME NEW e \in Engines, Metrics(e) PROVE UNCHANGED <<tick, dpc>>
        BY <4>4 DEF Metrics, RecordResult, marketVars
      <4>5. CASE Feed
        BY <4>5 DEF marketVars, Feed, FeedTask, Tick, OfferHistory, PublishTick, FeedWaits
      <4>6. CASE Writer \/ Start \/ Log \/ SessionAsks \/ SessionJoins \/ UNCHANGED vars
        BY <4>6
        DEF Writer, WriteHistory, Start, StartBacktest, Log, SessionAsks, SessionJoins,
            vars, marketVars
      <4>7. QED
        BY <4>1, <4>2, <4>3, <4>4, <4>5, <4>6 DEF Next
    <3>3. QED
      BY <3>1, <3>2, NoTickLogged, TickLogged
  <2>2. CASE LogTick
    BY <2>2, TickLogged
  <2>3. ASSUME UNCHANGED <<tick, dpc>>,
               \/ \E s \in Subjects \ {"log.event"} : Receive(s) \/ \E task, m : Publish(task, s, m)
               \/ \E task, m : m.stage # "tick" /\ Publish(task, "log.event", m)
        PROVE  RecordInv'
    <3>1. Queues' /\ (Events' = Events \/ \E m : m.stage # "tick" /\ Events' = Append(Events, m))
      <4>1. "log.event" \in Subjects
        BY DEF Subjects
      <4>2. QED
        BY <1>1, <2>3, <4>1, PublishQueues, ReceiveQueues
    <3>2. QED
      BY <2>3, <3>1, NoTickLogged
  <2>4. ASSUME NEW p \in PairSet, StrategyTask(p) PROVE RecordInv'
    <3>1. CASE Decide(p)
      BY <2>1, <3>1, WaitsMoveNothing DEF Decide
    <3>2. CASE PublishCommand(p)
      BY <2>3, <3>2 DEF PublishCommand, marketVars, Subjects
    <3>3. CASE PublishDecision(p)
      <4>1. [trace |-> spc[p].job.trace, stage |-> "strategy_decision"].stage # "tick"
        OBVIOUS
      <4>2. QED
        BY <2>3, <3>3, <4>1 DEF PublishDecision, marketVars
    <3>4. CASE StrategyWaits(p)
      BY <2>1, <3>4, WaitsMoveNothing DEF StrategyWaits
    <3>5. QED
      BY <2>4, <3>1, <3>2, <3>3, <3>4 DEF StrategyTask
  <2>5. CASE ExecTask
    <3>1. CASE Execute
      BY <2>3, <3>1 DEF Execute, marketVars, Subjects
    <3>2. CASE PublishResult
      BY <2>1, <3>2 DEF PublishResult
    <3>3. CASE PublishOrderEvent
      <4>1. [trace |-> job.trace, stage |-> "order_result"].stage # "tick"
        OBVIOUS
      <4>2. QED
        BY <2>3, <3>3, <4>1 DEF PublishOrderEvent, marketVars
    <3>4. CASE PublishTrade
      BY <2>3, <3>4 DEF PublishTrade, marketVars, Subjects
    <3>5. CASE ExecWaits
      BY <2>1, <3>5, WaitsMoveNothing DEF ExecWaits
    <3>6. QED
      BY <2>5, <3>1, <3>2, <3>3, <3>4, <3>5 DEF ExecTask
  <2>6. CASE Feed
    BY <2>1, <2>2, <2>6, WaitsMoveNothing
    DEF Feed, FeedTask, Tick, OfferHistory, PublishTick, FeedWaits
  <2>7. ASSUME NEW e \in Engines, Engine(e) \/ Metrics(e) PROVE RecordInv'
    BY <2>1, <2>7, WaitsMoveNothing
    DEF Engine, EngineTask, ResetStatus, Load, LoadFails, SubscribeMetrics,
       Replay, UpdateStatus, Finish, EngineWaits, Metrics, RecordResult
  <2>8. CASE Writer \/ Start \/ SessionAsks \/ SessionJoins \/ UNCHANGED vars
    BY <2>1, <2>8, WaitsMoveNothing
    DEF Writer, WriteHistory, Start, StartBacktest, SessionAsks, SessionJoins, vars
  <2>9. CASE Log
    BY <1>2, <2>9
  <2>10. QED
    BY <2>4, <2>5, <2>6, <2>7, <2>8, <2>9 DEF Next
<1>4. QED
  BY <1>2, <1>3, LogFrame

\* handle_event and record_latency write one record for a trace whose three
\* stages have come in and none before, in whatever order the tasks log them,
\* however many orders answer a tick, and with backtests under way.
THEOREM TracesRecorded == Spec => []RecordedOnce
<1>1. Init => RecordInv
  <2> SUFFICES ASSUME Init PROVE RecordInv
    OBVIOUS
  <2>1. Queues /\ Events = <<>>
    BY QueueEmpty DEF Init, BusInit, Queues, Events, Subjects
  <2>2. tick.trace = 0 /\ seen = {} /\ latency_state = {}
        /\ latency_records = [t \in Traces |-> 0]
    BY DEF Init, MarketInit, LogInit, NoTick
  <2>3. TicksOnce
    BY <2>1, <2>2 DEF TicksOnce, TickEvents
  <2>4. Joined /\ RecordedOnce
    BY <2>2 DEF Joined, RecordedOnce, Complete, Stages
  <2>5. QED
    BY <2>1, <2>3, <2>4 DEF RecordInv
<1>2. RecordInv /\ [Next]_vars => RecordInv'
  BY RecordStep
<1>3. RecordInv => RecordedOnce
  BY DEF RecordInv
<1>4. QED
  BY <1>1, <1>2, <1>3, PTL DEF Spec
----
\* Types. The market's part.
MarketTypes ==
  /\ dpc \in {"tick", "publish", "history", "log"} /\ tick.trace \in 0..MaxTicks
  /\ feed = "none" => tick = NoTick
  /\ market = [p \in PairSet |-> market[p]]
  /\ \A p \in PairSet :
       /\ IsQueue(market[p]) /\ Len(market[p]) <= Cap
       /\ \A i \in 1..Len(market[p]) : market[p][i].pair = p
  /\ IsQueue(history) /\ Len(history) <= HistoryCap
  /\ Stored \subseteq rows

\* A snapshot joins the queue of its pair, if there is a pair of that name.
LEMMA SnapshotTypes ==
  ASSUME MarketTypes, NEW task, NEW snap, PublishSnapshot(task, snap)
  PROVE  /\ market' = [p \in PairSet |-> market'[p]]
         /\ \A p \in PairSet :
              /\ IsQueue(market'[p]) /\ Len(market'[p]) <= Cap
              /\ \A i \in 1..Len(market'[p]) : market'[p][i].pair = p
<1>1. /\ market = [p \in PairSet |-> market[p]]
      /\ market' = [market EXCEPT ![snap.pair] = Append(market[snap.pair], snap)]
      /\ Len(market[snap.pair]) < Cap
  BY DEF PublishSnapshot, MarketTypes
<1>2. ASSUME NEW p \in PairSet
      PROVE  /\ IsQueue(market'[p]) /\ Len(market'[p]) <= Cap
             /\ \A i \in 1..Len(market'[p]) : market'[p][i].pair = p
  <2>1. /\ IsQueue(market[p]) /\ Len(market[p]) <= Cap
        /\ \A i \in 1..Len(market[p]) : market[p][i].pair = p
    BY DEF MarketTypes
  <2>2. CASE p = snap.pair
    <3> DEFINE q == market[p]
               r == Append(q, snap)
    <3>1. /\ IsQueue(r) /\ Len(q) \in Nat /\ Len(r) = Len(q) + 1
          /\ \A i \in 1..Len(q) : r[i] = q[i]
          /\ r[Len(q) + 1] = snap
      BY <2>1, QueueAppend
    <3>2. Len(r) <= Cap
      BY <1>1, <2>2, <3>1, CapAssumption
    <3>3. market'[p] = r
      BY <1>1, <2>2
    <3> HIDE DEF r
    <3>4. \A i \in 1..Len(r) : r[i].pair = p
      <4>1. \A i \in 1..Len(r) : i \in 1..Len(q) \/ i = Len(q) + 1
        BY <3>1
      <4>2. QED
        BY <2>1, <2>2, <3>1, <4>1
    <3>5. QED
      BY <3>1, <3>2, <3>3, <3>4
  <2>3. CASE p # snap.pair
    BY <1>1, <2>1, <2>3
  <2>4. QED
    BY <2>2, <2>3
<1>3. QED
  BY <1>1, <1>2

LEMMA MarketStep == ASSUME MarketTypes, [Next]_vars PROVE MarketTypes'
<1> USE MarketAssumption
<1>1. CASE UNCHANGED marketVars
  BY <1>1 DEF marketVars, MarketTypes
<1>2. CASE (\E p \in PairSet : Tick(p)) \/ FeedWaits
  BY <1>1, <1>2 DEF Tick, FeedWaits, MarketTypes
<1>14. CASE PublishTick
  <2>1. PublishSnapshot("feed", tick) /\ UNCHANGED <<feed, tick, history, rows>> /\ dpc' = "history"
    BY <1>14 DEF PublishTick
  <2>2. /\ market' = [q \in PairSet |-> market'[q]]
        /\ \A q \in PairSet :
             /\ IsQueue(market'[q]) /\ Len(market'[q]) <= Cap
             /\ \A i \in 1..Len(market'[q]) : market'[q][i].pair = q
    BY <2>1, SnapshotTypes
  <2>3. QED
    BY <2>1, <2>2 DEF MarketTypes
<1>3. CASE OfferHistory
  <2>1. CASE Len(history) < HistoryCap
    <3>1. IsQueue(history') /\ Len(history) \in Nat /\ Len(history') = Len(history) + 1
      BY <1>3, <2>1, QueueAppend DEF OfferHistory, MarketTypes
    <3>2. Len(history') <= HistoryCap
      BY <2>1, <3>1
    <3>3. QED
      BY <1>3, <3>1, <3>2 DEF OfferHistory, MarketTypes
  <2>2. CASE ~(Len(history) < HistoryCap)
    BY <1>3, <2>2 DEF OfferHistory, MarketTypes
  <2>3. QED
    BY <2>1, <2>2
<1>4. CASE LogTick
  BY <1>4 DEF LogTick, MarketTypes
<1>5. CASE WriteHistory
  <2>1. IsQueue(history') /\ Len(history) \in Nat \ {0} /\ Len(history') = Len(history) - 1
    BY <1>5, QueueTail DEF WriteHistory, MarketTypes
  <2>2. Len(history') <= HistoryCap
    BY <2>1 DEF MarketTypes
  <2>3. rows \subseteq rows' /\ UNCHANGED <<feed, dpc, tick, market>>
    BY <1>5 DEF WriteHistory
  <2>4. QED
    BY <2>1, <2>2, <2>3 DEF MarketTypes
<1>6. ASSUME NEW e \in Engines, EngineTask(e) PROVE MarketTypes'
  <2>1. CASE Replay(e)
    <3>1. \E snap : PublishSnapshot(e, snap)
      BY <2>1 DEF Replay
    <3>2. UNCHANGED <<feed, dpc, tick, history, rows>>
      BY <2>1 DEF Replay
    <3>3. /\ market' = [q \in PairSet |-> market'[q]]
          /\ \A q \in PairSet :
               /\ IsQueue(market'[q]) /\ Len(market'[q]) <= Cap
               /\ \A i \in 1..Len(market'[q]) : market'[q][i].pair = q
      BY <3>1, SnapshotTypes
    <3>4. QED
      BY <3>2, <3>3 DEF MarketTypes
  <2>2. CASE ~Replay(e)
    BY <1>1, <1>6, <2>2 DEF EngineTask, ResetStatus, Load, LoadFails, SubscribeMetrics,
       UpdateStatus, Finish, EngineWaits
  <2>3. QED
    BY <2>1, <2>2
<1>7. ASSUME NEW p \in PairSet, Decide(p) PROVE MarketTypes'
  <2>1. /\ market[p] # <<>> /\ market' = [market EXCEPT ![p] = Tail(market[p])]
        /\ UNCHANGED <<feed, dpc, tick, history, rows>>
    BY <1>7 DEF Decide
  <2> DEFINE q == market[p]
             r == Tail(q)
  <2>2. IsQueue(q) /\ Len(q) <= Cap /\ \A i \in 1..Len(q) : q[i].pair = p
    BY DEF MarketTypes
  <2>3. /\ IsQueue(r) /\ Len(q) \in Nat \ {0} /\ Len(r) = Len(q) - 1
        /\ \A i \in 1..Len(r) : i + 1 \in 1..Len(q) /\ r[i] = q[i + 1]
    BY <2>1, <2>2, QueueTail
  <2> HIDE DEF r
  <2>4. Len(r) <= Cap /\ \A i \in 1..Len(r) : r[i].pair = p
    BY <2>2, <2>3, CapAssumption
  <2>5. market' = [market EXCEPT ![p] = r]
    BY <2>1 DEF r
  <2>6. QED
    BY <2>1, <2>3, <2>4, <2>5 DEF MarketTypes
<1>8. ASSUME NEW p \in PairSet, StrategyTask(p) PROVE MarketTypes'
  BY <1>1, <1>7, <1>8 DEF StrategyTask, PublishCommand, PublishDecision, StrategyWaits
<1>9. CASE ExecTask
  BY <1>1, <1>9
  DEF ExecTask, Execute, PublishResult, PublishOrderEvent, PublishTrade, ExecWaits
<1>10. CASE Start \/ Log \/ SessionAsks \/ SessionJoins \/ UNCHANGED vars
  BY <1>1, <1>10 DEF Start, StartBacktest, Log, SessionAsks, SessionJoins, vars
<1>11. CASE Feed \/ Writer
  BY <1>2, <1>3, <1>4, <1>5, <1>11, <1>14 DEF Feed, FeedTask, Writer
<1>12. ASSUME NEW e \in Engines, Metrics(e) PROVE MarketTypes'
  BY <1>1, <1>12 DEF Metrics, RecordResult
<1>13. QED
  BY <1>6, <1>8, <1>9, <1>10, <1>11, <1>12 DEF Next, Engine

\* The log's part: no more writes fail than the bound says.
SinkTypes == Cardinality(failed) <= MaxFailures

LEMMA SinkStep == ASSUME SinkTypes, [Next]_vars PROVE SinkTypes'
<1>1. CASE Log
  BY <1>1 DEF Log, LogTask, HandleEvent, HandleTrade, Write, Persist, SinkTypes
<1>2. CASE UNCHANGED logVars
  BY <1>2 DEF logVars, SinkTypes
<1>3. QED
  BY <1>1, <1>2, LogFrame

\* The backtest's part.
RunTypes ==
  /\ status.running \in BOOLEAN /\ status.result \subseteq Nat
  /\ runs \in Nat
  /\ \A e \in Engines : Len(results[e]) <= Cap

LEMMA RunStep ==
  ASSUME Placed, Metered, RunTypes, [Next]_vars PROVE RunTypes'
<1>1. CASE UNCHANGED <<status, runs, results>>
  BY <1>1 DEF RunTypes
<1>2. CASE UNCHANGED backtestVars
  BY <1>1, <1>2 DEF backtestVars
<1>3. CASE StartBacktest
  BY <1>3 DEF StartBacktest, RunTypes
<1>4. CASE PublishResult
  <2>1. PICK res : DeliverResult("exec", res)
    BY <1>4 DEF PublishResult
  <2>2. ASSUME NEW e \in Engines PROVE Len(results'[e]) <= Cap
    <3>1. CASE e \in listening
      <4>1. results'[e] = Append(results[e], res) /\ Len(results[e]) < Cap
        BY <2>1, <3>1 DEF DeliverResult
      <4>2. Len(results[e]) \in Nat /\ Len(results'[e]) = Len(results[e]) + 1
        BY <4>1, QueueAppend DEF Metered
      <4>3. QED
        BY <4>1, <4>2, CapAssumption
    <3>2. CASE e \notin listening
      BY <2>1, <3>2 DEF DeliverResult, RunTypes
    <3>3. QED
      BY <3>1, <3>2
  <2>3. QED
    BY <1>4, <2>2 DEF PublishResult, RunTypes
<1>5. ASSUME NEW e \in Engines, RecordResult(e) PROVE RunTypes'
  <2>1. /\ results[e] # <<>> /\ results' = [results EXCEPT ![e] = Tail(results[e])]
        /\ UNCHANGED <<status, runs>>
    BY <1>5 DEF RecordResult
  <2>2. Len(results[e]) \in Nat \ {0} /\ Len(Tail(results[e])) = Len(results[e]) - 1
    BY <2>1, QueueTail DEF Metered
  <2>3. Len(Tail(results[e])) <= Cap
    BY <2>2, CapAssumption DEF RunTypes
  <2>4. \A d \in Engines : Len(results'[d]) <= Cap
    BY <2>1, <2>3 DEF Metered, RunTypes
  <2>5. QED
    BY <2>1, <2>4 DEF RunTypes
<1>6. ASSUME NEW e \in Engines, EngineTask(e) PROVE RunTypes'
  <2>1. CASE SubscribeMetrics(e)
    <3>1. results' = [results EXCEPT ![e] = <<>>] /\ UNCHANGED <<status, runs>>
      BY <2>1 DEF SubscribeMetrics
    <3>2. Len(<<>>) <= Cap
      BY CapAssumption
    <3>3. \A d \in Engines : Len(results'[d]) <= Cap
      BY <3>1, <3>2 DEF Metered, RunTypes
    <3>4. QED
      BY <3>1, <3>3 DEF RunTypes
  <2>2. CASE ResetStatus \/ UpdateStatus(e)
    BY <2>2 DEF ResetStatus, UpdateStatus, engineVars, Placed, RunTypes
  <2>3. CASE Finish(e)
    <3>1. trades[e] \in Nat
      BY DEF Metered
    <3>2. QED
      BY <2>3, <3>1 DEF Finish, engineVars, Placed, RunTypes
  <2>4. CASE Load(e) \/ LoadFails(e) \/ Replay(e) \/ EngineWaits(e)
    BY <1>1, <1>2, <2>4 DEF Load, LoadFails, Replay, EngineWaits, engineVars
  <2>5. QED
    BY <1>6, <2>1, <2>2, <2>3, <2>4 DEF EngineTask
<1>7. QED
  BY <1>2, <1>3, <1>4, <1>5, <1>6, BacktestFrame

\* The strategies' and the execution's part.
TradeTypes ==
  /\ fresh \in Nat
  /\ sessions \in Nat
  /\ planned \in 0..MaxOrders
  /\ epc \in {"select", "result", "event", "trade"}
  /\ epc = "select" => job = NoJob

LEMMA TradeStep ==
  ASSUME MarketTypes, SinkInv, RunTypes, TradeTypes, [Next]_vars PROVE TradeTypes'
<1>1. CASE UNCHANGED tradeVars
  BY <1>1 DEF tradeVars, TradeTypes
<1>2. ASSUME NEW p \in PairSet, Decide(p) PROVE TradeTypes'
  <2>1. InputsLeft \in Int
    <3>1. Cardinality(failed) \in Nat
      BY FS_CardinalityType DEF SinkInv
    <3>2. /\ tick.trace \in Nat /\ runs \in Nat /\ planned \in Nat /\ MaxInputs \in Nat
          /\ sessions \in Nat
      BY MarketAssumption, InputsAssumption DEF MarketTypes, RunTypes, TradeTypes
    <3>3. QED
      BY <3>1, <3>2 DEF InputsLeft
  <2>2. PICK n \in 0..Least(MaxOrders - planned, InputsLeft) : planned' = planned + n
    BY <1>2 DEF Decide
  <2>3. planned' \in 0..MaxOrders
    <3>1. planned \in 0..MaxOrders /\ MaxOrders - planned \in Int
      BY InputsAssumption DEF TradeTypes
    <3>2. Least(MaxOrders - planned, InputsLeft) <= MaxOrders - planned
          /\ Least(MaxOrders - planned, InputsLeft) \in Int
      BY <2>1, <3>1 DEF Least
    <3>3. QED
      BY <2>2, <3>1, <3>2, InputsAssumption
  <2>4. fresh' \in Nat /\ UNCHANGED <<epc, job, sessions>>
    BY <1>2 DEF Decide, TradeTypes
  <2>5. QED
    BY <2>3, <2>4 DEF TradeTypes
<1>3. ASSUME NEW p \in PairSet, StrategyTask(p) PROVE TradeTypes'
  BY <1>1, <1>2, <1>3
  DEF StrategyTask, PublishCommand, PublishDecision, StrategyWaits, TradeTypes
<1>4. CASE ExecTask
  BY <1>1, <1>4
  DEF ExecTask, Execute, PublishResult, PublishOrderEvent, PublishTrade, ExecWaits,
      TradeTypes
<1>5. CASE SessionAsks
  BY <1>5 DEF SessionAsks, TradeTypes
<1>6. QED
  BY <1>1, <1>3, <1>4, <1>5
  DEF Next, Feed, Writer, Start, Log, Engine, Metrics, SessionAsks, SessionJoins, vars

TypeInv == MarketTypes /\ SinkTypes /\ RunTypes /\ TradeTypes

\* The data plane keeps its types, its queues within their capacities and its
\* counters within their bounds; trace ids do not run out.
THEOREM Types == Nat \ {0} \subseteq Traces => (Spec => []TypeOK)
<1> SUFFICES ASSUME Nat \ {0} \subseteq Traces PROVE Spec => []TypeOK
  OBVIOUS
<1>1. Init => TypeInv
  <2> SUFFICES ASSUME Init PROVE TypeInv
    OBVIOUS
  <2>1. Len(<<>>) = 0 /\ 0 <= Cap
    BY CapAssumption
  <2>2. MarketTypes
    BY <2>1, QueueEmpty, MarketAssumption DEF Init, MarketInit, MarketTypes, NoTick
  <2>3. SinkTypes /\ RunTypes /\ TradeTypes
    BY <2>1, FailuresAssumption, InputsAssumption, MarketAssumption, FS_EmptySet
    DEF Init, LogInit, BacktestInit, SinkTypes, RunTypes, TradeTypes
  <2>4. QED
    BY <2>2, <2>3 DEF TypeInv
<1>2. TypeInv /\ StatusInv /\ MeterInv /\ SinkInv /\ [Next]_vars => TypeInv'
  BY MarketStep, SinkStep, RunStep, TradeStep DEF TypeInv, StatusInv, MeterInv
<1>3. TypeInv => TypeOK
  <2> SUFFICES ASSUME TypeInv PROVE TypeOK
    OBVIOUS
  <2>1. ASSUME NEW p \in PairSet
        PROVE  Len(market[p]) <= Cap /\ \A i \in DOMAIN market[p] : market[p][i].pair = p
    <3>1. IsQueue(market[p]) /\ Len(market[p]) <= Cap
          /\ \A i \in 1..Len(market[p]) : market[p][i].pair = p
      BY DEF TypeInv, MarketTypes
    <3>2. DOMAIN market[p] = 1..Len(market[p])
      BY <3>1 DEF IsQueue
    <3>3. QED
      BY <3>1, <3>2
  <2>2. fresh \in Traces \cup {0}
    BY DEF TypeInv, TradeTypes
  <2>3. planned <= MaxOrders
    BY InputsAssumption DEF TypeInv, TradeTypes
  <2>4. QED
    BY <2>1, <2>2, <2>3 DEF TypeInv, MarketTypes, SinkTypes, RunTypes, TradeTypes, TypeOK
<1>4. QED
  BY <1>1, <1>2, <1>3, StatusInvariant, MeterInvariant, SinkInvariant, PTL DEF Spec

----
\* The order of a replay. The sort is a strict total order of the rows, so every
\* place has its row.
Rows == [ts : Nat, pair : PairSet]

LEMMA PairsNumbered ==
  ASSUME NEW p \in PairSet
  PROVE  Place(p) \in Nat /\ Pairs[Place(p)] = p
<1>1. Len(Pairs) \in Nat /\ DOMAIN Pairs = 1..Len(Pairs)
  BY MarketAssumption
<1>2. \E i \in 1..Len(Pairs) : Pairs[i] = p
  BY <1>1 DEF PairSet, ToSet
<1>3. Place(p) \in 1..Len(Pairs) /\ Pairs[Place(p)] = p
  BY <1>2 DEF Place
<1>4. QED
  BY <1>1, <1>3

LEMMA SortIsTotal ==
  ASSUME NEW r \in Rows, NEW s \in Rows
  PROVE  /\ ~SortedBefore(r, r)
         /\ r = s \/ SortedBefore(r, s) \/ SortedBefore(s, r)
<1>1. r.ts \in Nat /\ s.ts \in Nat /\ r.pair \in PairSet /\ s.pair \in PairSet
  BY DEF Rows
<1>2. Place(r.pair) \in Nat /\ Place(s.pair) \in Nat
      /\ (Place(r.pair) = Place(s.pair) => r.pair = s.pair)
  BY <1>1, PairsNumbered
<1>3. r.ts = s.ts /\ r.pair = s.pair => r = s
  BY DEF Rows
<1>4. QED
  BY <1>1, <1>2, <1>3 DEF SortedBefore, LoadedBefore

LEMMA SortIsTransitive ==
  ASSUME NEW r \in Rows, NEW s \in Rows, NEW t \in Rows,
         SortedBefore(r, s), SortedBefore(s, t)
  PROVE  SortedBefore(r, t)
<1>1. r.ts \in Nat /\ s.ts \in Nat /\ t.ts \in Nat
      /\ r.pair \in PairSet /\ s.pair \in PairSet /\ t.pair \in PairSet
  BY DEF Rows
<1>2. Place(r.pair) \in Nat /\ Place(s.pair) \in Nat /\ Place(t.pair) \in Nat
  BY <1>1, PairsNumbered
<1>3. QED
  BY <1>1, <1>2 DEF SortedBefore, LoadedBefore

Before(S, r) == {s \in S : SortedBefore(s, r)}

LEMMA RankGrows ==
  ASSUME NEW S \in SUBSET Rows, IsFiniteSet(S), NEW r \in S
  PROVE  /\ Cardinality(Before(S, r)) \in Nat
         /\ Cardinality(Before(S, r)) < Cardinality(S)
         /\ \A s \in S : SortedBefore(s, r) =>
              Cardinality(Before(S, s)) < Cardinality(Before(S, r))
<1>1. \A s \in S : IsFiniteSet(Before(S, s)) /\ Cardinality(Before(S, s)) \in Nat
  BY FS_Subset, FS_CardinalityType DEF Before
<1>2. Cardinality(Before(S, r)) < Cardinality(S)
  <2>1. r \notin Before(S, r) /\ Before(S, r) \in SUBSET S
    BY SortIsTotal DEF Before
  <2>2. Cardinality(S) \in Nat
    BY FS_CardinalityType
  <2>3. Cardinality(Before(S, r)) <= Cardinality(S)
        /\ Cardinality(Before(S, r)) # Cardinality(S)
    BY <2>1, FS_Subset
  <2>4. QED
    BY <1>1, <2>2, <2>3
<1>3. ASSUME NEW s \in S, SortedBefore(s, r)
      PROVE  Cardinality(Before(S, s)) < Cardinality(Before(S, r))
  <2>1. Before(S, s) \in SUBSET Before(S, r)
    BY <1>3, SortIsTransitive DEF Before
  <2>2. s \in Before(S, r) /\ s \notin Before(S, s)
    BY <1>3, SortIsTotal DEF Before
  <2>3. Cardinality(Before(S, s)) <= Cardinality(Before(S, r))
        /\ Cardinality(Before(S, s)) # Cardinality(Before(S, r))
    BY <1>1, <2>1, <2>2, FS_Subset
  <2>4. QED
    BY <1>1, <2>3
<1>4. QED
  BY <1>1, <1>2, <1>3

LEMMA EveryPlaceTaken ==
  ASSUME NEW S \in SUBSET Rows, IsFiniteSet(S), NEW i \in 1..Cardinality(S)
  PROVE  \E r \in S : Cardinality(Before(S, r)) = i - 1
<1> DEFINE n == Cardinality(S)
           place == [r \in S |-> Cardinality(Before(S, r)) + 1]
<1>1. n \in Nat
  BY FS_CardinalityType
<1>2. \A r \in S : Cardinality(Before(S, r)) \in Nat /\ Cardinality(Before(S, r)) < n
  BY RankGrows
<1>3. \A r \in S : Cardinality(Before(S, r)) + 1 \in 1..n
  BY <1>1, <1>2
<1>4. \A r, s \in S : place[r] = place[s] => r = s
  <2> SUFFICES ASSUME NEW r \in S, NEW s \in S, r # s PROVE place[r] # place[s]
    OBVIOUS
  <2>1. SortedBefore(r, s) \/ SortedBefore(s, r)
    BY SortIsTotal
  <2>2. Cardinality(Before(S, r)) # Cardinality(Before(S, s))
    BY <1>2, <2>1, RankGrows
  <2>3. QED
    BY <1>2, <2>2
<1>5. place \in Injection(S, 1..n)
  BY <1>3, <1>4 DEF Injection, IsInjective
<1>6. IsFiniteSet(1..n) /\ Cardinality(1..n) = n
  BY <1>1, FS_Interval
<1> HIDE DEF place
<1>7. place \in Surjection(S, 1..n)
  BY <1>5, <1>6, FS_Injection
<1>8. PICK r \in S : place[r] = i
  BY <1>7 DEF Surjection
<1>9. QED
  BY <1>2, <1>8 DEF place

\* What load gives a run: rows, in the order of their time stamps.
InOrder(q) ==
  /\ \A i \in 1..Len(q) : q[i] \in Rows
  /\ \A i, j \in 1..Len(q) : i < j => q[i].ts <= q[j].ts

LEMMA LoadedInOrder ==
  ASSUME IsFiniteSet(rows), rows \subseteq Rows
  PROVE  IsQueue(LoadAll) /\ InOrder(LoadAll)
<1> DEFINE all == UNION {LoadSnapshots(p) : p \in PairSet}
           n == Cardinality(all)
           Row(i) == CHOOSE r \in all : Cardinality(Before(all, r)) = i - 1
           q == [i \in 1..n |-> Row(i)]
<1>1. LoadAll = q
  BY DEF LoadAll, Before
<1>2. all \in SUBSET rows /\ all \in SUBSET Rows
  BY DEF LoadSnapshots
<1>3. IsFiniteSet(all) /\ n \in Nat
  BY <1>2, FS_Subset, FS_CardinalityType
<1> HIDE DEF all
<1>4. \A i \in 1..n : Row(i) \in all /\ Cardinality(Before(all, Row(i))) = i - 1
  BY <1>2, <1>3, EveryPlaceTaken
<1>5. q \in Seq(all) /\ Len(q) = n
  BY <1>3, <1>4
<1>6. ASSUME NEW i \in 1..n, NEW j \in 1..n, i < j PROVE q[i].ts <= q[j].ts
  <2>1. q[i] \in all /\ q[j] \in all
        /\ Cardinality(Before(all, q[i])) = i - 1 /\ Cardinality(Before(all, q[j])) = j - 1
    BY <1>4
  <2>2. ~SortedBefore(q[j], q[i])
    <3>1. SortedBefore(q[j], q[i]) => j - 1 < i - 1
      BY <1>2, <1>3, <2>1, RankGrows
    <3>2. QED
      BY <1>3, <1>6, <3>1
  <2>3. q[i].ts \in Nat /\ q[j].ts \in Nat
    BY <1>2, <2>1 DEF Rows
  <2>4. QED
    BY <2>2, <2>3 DEF SortedBefore
<1>7. \A i \in 1..n : q[i] \in Rows
  BY <1>2, <1>4
<1> HIDE DEF q
<1>8. QED
  BY <1>1, <1>5, <1>6, <1>7 DEF IsQueue, InOrder

\* The store has rows only, of a pair each, whoever wrote them.
IsRow(snap) == snap.ts \in Nat /\ snap.pair \in PairSet

StoreInv ==
  /\ tick.ts \in Nat
  /\ dpc \in {"publish", "history"} => IsRow(tick)
  /\ IsQueue(history) /\ \A i \in 1..Len(history) : IsRow(history[i])
  /\ IsFiniteSet(rows) /\ rows \subseteq Rows

LEMMA StoreStep == ASSUME StoreInv, [Next]_vars PROVE StoreInv'
<1>1. CASE UNCHANGED <<dpc, tick, history, rows>>
  BY <1>1 DEF StoreInv
<1>2. CASE (\E p \in PairSet : Tick(p)) \/ PublishTick \/ FeedWaits
  BY <1>2 DEF Tick, PublishTick, FeedWaits, marketVars, StoreInv, IsRow
<1>3. CASE OfferHistory
  <2> DEFINE r == Append(history, tick)
  <2>1. /\ IsQueue(r) /\ Len(history) \in Nat /\ Len(r) = Len(history) + 1
        /\ \A i \in 1..Len(history) : r[i] = history[i]
        /\ r[Len(history) + 1] = tick
    BY QueueAppend DEF StoreInv
  <2>2. (history' = r \/ history' = history) /\ dpc = "history" /\ dpc' = "log"
        /\ UNCHANGED <<tick, rows>>
    BY <1>3 DEF OfferHistory
  <2> HIDE DEF r
  <2>3. \A i \in 1..Len(r) : IsRow(r[i])
    <3>1. \A i \in 1..Len(r) : i \in 1..Len(history) \/ i = Len(history) + 1
      BY <2>1
    <3>2. QED
      BY <2>1, <2>2, <3>1 DEF StoreInv
  <2>4. QED
    BY <2>1, <2>2, <2>3 DEF StoreInv
<1>4. CASE LogTick
  BY <1>4 DEF LogTick, StoreInv
<1>5. CASE WriteHistory
  <2> DEFINE r == Tail(history)
             row == [ts |-> Head(history).ts, pair |-> Head(history).pair]
  <2>1. /\ history # <<>> /\ history' = r /\ rows' \in {rows, rows \cup {row}}
        /\ UNCHANGED <<dpc, tick>>
    BY <1>5 DEF WriteHistory
  <2>2. /\ IsQueue(r) /\ Len(history) \in Nat \ {0} /\ Head(history) = history[1]
        /\ \A i \in 1..Len(r) : i + 1 \in 1..Len(history) /\ r[i] = history[i + 1]
    BY <2>1, QueueTail DEF StoreInv
  <2>3. row \in Rows
    BY <2>2 DEF StoreInv, IsRow, Rows
  <2> HIDE DEF r, row
  <2>4. IsFiniteSet(rows') /\ rows' \subseteq Rows
    BY <2>1, <2>3, FS_AddElement DEF StoreInv
  <2>5. \A i \in 1..Len(r) : IsRow(r[i])
    BY <2>2 DEF StoreInv
  <2>6. QED
    BY <2>1, <2>2, <2>4, <2>5 DEF StoreInv
<1>6. ASSUME NEW e \in Engines, Engine(e) \/ Metrics(e) PROVE StoreInv'
  BY <1>1, <1>6 DEF Engine, EngineTask, ResetStatus, Load, LoadFails, SubscribeMetrics,
     Replay, UpdateStatus, Finish, EngineWaits, Metrics, RecordResult, marketVars
<1>7. ASSUME NEW p \in PairSet, StrategyTask(p) PROVE StoreInv'
  BY <1>1, <1>7
  DEF StrategyTask, Decide, PublishCommand, PublishDecision, StrategyWaits, marketVars
<1>8. CASE ExecTask
  BY <1>1, <1>8
  DEF ExecTask, Execute, PublishResult, PublishOrderEvent, PublishTrade, ExecWaits,
     marketVars
<1>9. CASE Start \/ Log \/ SessionAsks \/ SessionJoins \/ UNCHANGED vars
  BY <1>1, <1>9 DEF Start, StartBacktest, Log, SessionAsks, SessionJoins, vars, marketVars
<1>10. CASE Feed \/ Writer
  BY <1>2, <1>3, <1>4, <1>5, <1>10 DEF Feed, FeedTask, Writer
<1>11. QED
  BY <1>6, <1>7, <1>8, <1>9, <1>10 DEF Next

\* A run still has rows to publish that are in order, after what it published.
Ahead(q, ts) == \A i \in 1..Len(q) : ts <= q[i].ts

LEMMA RestInOrder ==
  ASSUME NEW q, IsQueue(q), q # <<>>, InOrder(q)
  PROVE  IsQueue(Tail(q)) /\ InOrder(Tail(q)) /\ Ahead(Tail(q), Head(q).ts)
<1> DEFINE r == Tail(q)
<1>1. /\ IsQueue(r) /\ Len(q) \in Nat \ {0} /\ Len(r) = Len(q) - 1 /\ Head(q) = q[1]
      /\ \A i \in 1..Len(r) : i + 1 \in 1..Len(q) /\ r[i] = q[i + 1]
  BY QueueTail
<1> HIDE DEF r
<1>2. \A i \in 1..Len(r) : r[i] \in Rows
  BY <1>1 DEF InOrder
<1>3. ASSUME NEW i \in 1..Len(r), NEW j \in 1..Len(r), i < j PROVE r[i].ts <= r[j].ts
  <2>1. i + 1 \in 1..Len(q) /\ j + 1 \in 1..Len(q) /\ i + 1 < j + 1
    BY <1>1, <1>3
  <2>2. q[i + 1].ts <= q[j + 1].ts
    BY <2>1 DEF InOrder
  <2>3. QED
    BY <1>1, <2>2
<1>4. ASSUME NEW i \in 1..Len(r) PROVE Head(q).ts <= r[i].ts
  <2>1. 1 \in 1..Len(q) /\ i + 1 \in 1..Len(q) /\ 1 < i + 1
    BY <1>1
  <2>2. QED
    BY <1>1, <2>1 DEF InOrder
<1>5. QED
  BY <1>1, <1>2, <1>3, <1>4 DEF InOrder, Ahead, r

ReplayInv ==
  /\ snaps = [e \in Engines |-> snaps[e]] /\ last_ts = [e \in Engines |-> last_ts[e]]
  /\ \A e \in Engines :
       IsQueue(snaps[e]) /\ InOrder(snaps[e]) /\ Ahead(snaps[e], last_ts[e])

LEMMA ReplayStep == ASSUME StoreInv, ReplayInv, [Next]_vars PROVE ReplayInv'
<1>1. CASE UNCHANGED <<snaps, last_ts>>
  BY <1>1 DEF ReplayInv
<1>2. CASE UNCHANGED backtestVars \/ StartBacktest \/ PublishResult
  BY <1>1, <1>2 DEF backtestVars, StartBacktest, PublishResult
<1>3. ASSUME NEW e \in Engines, Load(e) PROVE ReplayInv'
  <2>1. snaps' = [snaps EXCEPT ![e] = LoadAll] /\ last_ts' = [last_ts EXCEPT ![e] = 0]
    BY <1>3 DEF Load
  <2>2. IsQueue(LoadAll) /\ InOrder(LoadAll)
    BY LoadedInOrder DEF StoreInv
  <2>3. Ahead(LoadAll, 0)
    BY <2>2 DEF Ahead, InOrder, Rows
  <2>4. QED
    BY <2>1, <2>2, <2>3 DEF ReplayInv
<1>4. ASSUME NEW e \in Engines, Replay(e) PROVE ReplayInv'
  <2>1. /\ snaps[e] # <<>> /\ snaps' = [snaps EXCEPT ![e] = Tail(snaps[e])]
        /\ last_ts' = [last_ts EXCEPT ![e] = Head(snaps[e]).ts]
    BY <1>4 DEF Replay
  <2>2. /\ IsQueue(Tail(snaps[e])) /\ InOrder(Tail(snaps[e]))
        /\ Ahead(Tail(snaps[e]), Head(snaps[e]).ts)
    BY <2>1, RestInOrder DEF ReplayInv
  <2>3. QED
    BY <2>1, <2>2 DEF ReplayInv
<1>5. ASSUME NEW e \in Engines, EngineTask(e) \/ RecordResult(e) PROVE ReplayInv'
  BY <1>1, <1>2, <1>3, <1>4, <1>5 DEF EngineTask, ResetStatus, LoadFails, SubscribeMetrics,
     UpdateStatus, Finish, EngineWaits, RecordResult
<1>6. QED
  BY <1>2, <1>5, BacktestFrame

\* BacktestEngine::run publishes the rows of all its pairs in the order of their
\* time stamps, for any rows in the store and with the writer adding to it.
THEOREM ReplaysSorted == Spec => []ReplayInOrder
<1>1. Init => StoreInv /\ ReplayInv
  <2> SUFFICES ASSUME Init PROVE StoreInv /\ ReplayInv
    OBVIOUS
  <2>1. Len(<<>>) = 0 /\ 1..0 = {}
    OBVIOUS
  <2>2. StoreInv
    BY <2>1, QueueEmpty, MarketAssumption DEF Init, MarketInit, NoTick, StoreInv, Rows
  <2>3. ReplayInv
    BY <2>1, QueueEmpty DEF Init, BacktestInit, ReplayInv, InOrder, Ahead
  <2>4. QED
    BY <2>2, <2>3
<1>2. StoreInv /\ ReplayInv /\ [Next]_vars => StoreInv' /\ ReplayInv'
  BY StoreStep, ReplayStep
<1>3. ReplayInv => ReplayInOrder
  BY DEF ReplayInv, ReplayInOrder, InOrder, Ahead
<1>4. QED
  BY <1>1, <1>2, <1>3, PTL DEF Spec
====
