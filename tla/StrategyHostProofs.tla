---- MODULE StrategyHostProofs ----
(***************************************************************************)
(* Theorems about StrategyHost: its types, and that pausing lets a pair     *)
(* finish one outcome and nothing more, for any set of pairs, any outcomes  *)
(* and any capacity of the queues.                                          *)
(***************************************************************************)
EXTENDS StrategyHost, TLAPS

\* OverrunIsOnePlan says nothing while the host runs, and PauseTask needs to
\* know then that what a pair holds is one outcome at most.
PlansAreShort == \A s \in Symbols : Len(plan[s]) <= MaxPlan

\* A pair holds orders only while it publishes them.
IdleIsEmpty == \A s \in Symbols : spc[s] # "orders" => plan[s] = <<>>

Inv == TypeOK /\ PlansAreShort /\ IdleIsEmpty /\ OverrunIsOnePlan

----
\* What the bus operations do to the queues, for every payload typing T.

\* publish only appends a message of the subject's type, or drops it.
LEMMA PublishKeeps ==
  ASSUME NEW T, ChanOK(T), NEW s \in Subjects, NEW m \in T[s], NEW task,
         Publish(task, s, m)
  PROVE  ChanOK(T)'
<1>1. chan[s] \in Seq(T[s]) /\ Append(chan[s], m) \in Seq(T[s])
  BY DEF ChanOK
<1>2. QED
  BY <1>1 DEF ChanOK, Publish

\* recv hands out a message of the subject's type and keeps the others.
LEMMA ReceiveKeeps ==
  ASSUME NEW T, ChanOK(T), NEW s \in Subjects, Receive(s)
  PROVE  ChanOK(T)' /\ Head(chan[s]) \in T[s]
<1>1. chan[s] \in Seq(T[s]) /\ Tail(chan[s]) \in Seq(T[s]) /\ Head(chan[s]) \in T[s]
  BY DEF ChanOK, Receive
<1>2. QED
  BY <1>1 DEF ChanOK, Receive

\* subscribe touches no queue, nor does a step that leaves the bus alone or waits
\* for it, and the queues of a fresh bus are empty.
LEMMA SubscribeKeeps ==
  ASSUME NEW T, ChanOK(T), NEW s \in Subjects, Subscribe(s) PROVE ChanOK(T)'
BY DEF ChanOK, Subscribe

LEMMA BusUnchanged == ASSUME NEW T, ChanOK(T), UNCHANGED bus PROVE ChanOK(T)'
BY DEF ChanOK, bus

LEMMA WaitKeeps == ASSUME NEW T, ChanOK(T), UNCHANGED <<chan, subscribed>> PROVE ChanOK(T)'
BY DEF ChanOK

LEMMA BusInitOK ==
  ASSUME NEW T, NEW there \in SUBSET Subjects, BusInit(there) PROVE ChanOK(T)
BY DEF ChanOK, BusInit

----
\* The subjects the host uses are subjects of the bus, and this is what they
\* carry.
LEMMA PayloadFacts ==
  /\ {"orders.command", "log.event", "control.strategy.pause_all",
      "control.strategy.resume_all"} \subseteq Subjects
  /\ Payload["orders.command"] = Commands
  /\ Payload["log.event"] = {"Info"}
  /\ Payload["control.strategy.pause_all"] = {Signal}
  /\ Payload["control.strategy.resume_all"] = {Signal}
BY DEF Subjects, Payload

\* The host starts with nothing to publish.
LEMMA InitInv == Init => Inv
<1> SUFFICES ASSUME Init PROVE Inv
  OBVIOUS
<1>1. ChanOK(Payload)
  BY BusInitOK DEF Init, StratSubjects, Subjects
<1>2. TypeOK
  <2>1. 0 \in 0..MaxSnapshots /\ 0 \in 0..MaxSignals
    BY StratAssumption
  <2>2. spc \in [Symbols -> {"new", "idle", "orders"}]
    BY DEF Init, StratInit
  <2>3. plan \in [Symbols -> Seq(PlannedOrders)]
    <3>1. <<>> \in Seq(PlannedOrders)
      OBVIOUS
    <3>2. QED
      BY <3>1 DEF Init, StratInit
  <2>4. paused \in BOOLEAN /\ overrun \in [Symbols -> Nat]
    BY DEF Init, StratInit
  <2>5. QED
    BY <1>1, <2>1, <2>2, <2>3, <2>4 DEF Init, StratInit, TypeOK
<1>3. PlansAreShort
  BY StratAssumption DEF Init, StratInit, PlansAreShort
<1>4. IdleIsEmpty /\ OverrunIsOnePlan
  BY DEF Init, StratInit, IdleIsEmpty, OverrunIsOnePlan
<1>5. QED
  BY <1>2, <1>3, <1>4 DEF Inv

\* A step that only moves messages.
LEMMA QuietStep ==
  ASSUME Inv, ChanOK(Payload)', signals' \in 0..MaxSignals, UNCHANGED stratVars PROVE Inv'
BY DEF Inv, TypeOK, stratVars, PlansAreShort, IdleIsEmpty, OverrunIsOnePlan

\* A snapshot is dropped while paused; otherwise the new outcome is short and
\* the pair was empty-handed before.
LEMMA TakeSnapshotInv ==
  ASSUME Inv, NEW s \in Symbols, TakeSnapshot(s), signals' = signals PROVE Inv'
<1>1. ChanOK(Payload)'
  BY BusUnchanged DEF Inv, TypeOK, TakeSnapshot
<1>2. snapshots' \in 0..MaxSnapshots
  BY StratAssumption DEF Inv, TypeOK, TakeSnapshot
<1>3. CASE paused
  BY <1>1, <1>2, <1>3
  DEF Inv, TypeOK, TakeSnapshot, PlansAreShort, IdleIsEmpty, OverrunIsOnePlan
<1>4. CASE ~paused
  <2>1. PICK p \in Plans : plan' = [plan EXCEPT ![s] = p]
    BY <1>4 DEF TakeSnapshot
  <2>2. p \in Seq(PlannedOrders) /\ Len(p) <= MaxPlan
    BY StratAssumption
  <2>3. TypeOK'
    BY <1>1, <1>2, <1>4, <2>1, <2>2 DEF Inv, TypeOK, TakeSnapshot
  <2>4. PlansAreShort' /\ IdleIsEmpty'
    BY <1>4, <2>1, <2>2 DEF Inv, TypeOK, TakeSnapshot, PlansAreShort, IdleIsEmpty
  <2>5. OverrunIsOnePlan'
    BY <1>4 DEF TakeSnapshot, OverrunIsOnePlan
  <2>6. QED
    BY <2>3, <2>4, <2>5 DEF Inv
<1>5. QED
  BY <1>3, <1>4

\* An order that goes out moves from what is still to be published to what
\* has been.
LEMMA PublishOrderInv ==
  ASSUME Inv, NEW s \in Symbols, PublishOrder(s), signals' = signals PROVE Inv'
<1> DEFINE rest == Tail(plan[s])
<1>1. plan[s] \in Seq(PlannedOrders) /\ plan[s] # <<>>
  BY DEF Inv, TypeOK, PublishOrder
<1>2. Head(plan[s]) \in PlannedOrders /\ rest \in Seq(PlannedOrders)
      /\ Len(rest) = Len(plan[s]) - 1
  BY <1>1
<1>3. ChanOK(Payload)'
  <2>1. Command(s, Head(plan[s])) \in Commands
    BY <1>2 DEF Commands
  <2>2. QED
    BY <2>1, PublishKeeps, PayloadFacts DEF Inv, TypeOK, PublishOrder
<1>4. TypeOK'
  BY <1>2, <1>3 DEF Inv, TypeOK, PublishOrder
<1>5. PlansAreShort' /\ IdleIsEmpty'
  <2>1. ASSUME NEW t \in Symbols PROVE Len(plan'[t]) <= MaxPlan
    <3>1. CASE t = s
      BY <1>1, <1>2, <3>1, StratAssumption DEF Inv, TypeOK, PublishOrder, PlansAreShort
    <3>2. CASE t # s
      BY <3>2 DEF Inv, TypeOK, PublishOrder, PlansAreShort
    <3>3. QED
      BY <3>1, <3>2
  <2>2. IdleIsEmpty'
    BY DEF Inv, TypeOK, PublishOrder, IdleIsEmpty
  <2>3. QED
    BY <2>1, <2>2 DEF PlansAreShort
<1>6. OverrunIsOnePlan'
  <2> SUFFICES ASSUME paused, NEW t \in Symbols
               PROVE  overrun'[t] + Len(plan'[t]) <= MaxPlan
    BY DEF OverrunIsOnePlan, PublishOrder
  <2>1. overrun[t] + Len(plan[t]) <= MaxPlan
    BY DEF Inv, OverrunIsOnePlan
  <2>2. CASE t = s
    <3>1. overrun'[t] = overrun[t] + 1 /\ plan'[t] = rest
      BY <2>2 DEF Inv, TypeOK, PublishOrder
    <3>2. overrun[t] \in Nat /\ Len(plan[t]) \in Nat
      BY <1>1, <2>2 DEF Inv, TypeOK
    <3>3. QED
      BY <1>2, <2>1, <2>2, <3>1, <3>2
  <2>3. CASE t # s
    BY <2>1, <2>3 DEF Inv, TypeOK, PublishOrder
  <2>4. QED
    BY <2>2, <2>3
<1>7. QED
  BY <1>4, <1>5, <1>6 DEF Inv

\* The start of a pair and the decision event change neither the orders nor
\* the flag.
LEMMA PairEdgesInv ==
  ASSUME Inv, NEW s \in Symbols, StartPair(s) \/ PublishDecision(s), signals' = signals
  PROVE  Inv'
<1>1. ChanOK(Payload)'
  <2>1. CASE StartPair(s)
    BY <2>1, WaitKeeps DEF Inv, TypeOK, StartPair
  <2>2. CASE PublishDecision(s)
    BY <2>2, PublishKeeps, PayloadFacts DEF Inv, TypeOK, PublishDecision
  <2>3. QED
    BY <2>1, <2>2
<1>2. /\ spc' = [spc EXCEPT ![s] = "idle"]
      /\ plan[s] = <<>>
      /\ UNCHANGED <<plan, paused, overrun, snapshots>>
  BY DEF Inv, IdleIsEmpty, StartPair, PublishDecision
<1>3. QED
  BY <1>1, <1>2 DEF Inv, TypeOK, PlansAreShort, IdleIsEmpty, OverrunIsOnePlan

\* Storing true starts the count at zero, with one outcome at most in hand.
LEMMA FlagTasksInv ==
  ASSUME Inv, FlagTasks, signals' = signals PROVE Inv'
<1>1. CASE SubscribePause \/ SubscribeResume
  <2>1. ChanOK(Payload)' /\ UNCHANGED stratVars
    BY <1>1, SubscribeKeeps, PayloadFacts
    DEF Inv, TypeOK, SubscribePause, SubscribeResume, SubscribeFlag
  <2>2. QED
    BY <2>1, QuietStep DEF Inv, TypeOK
<1>2. CASE PauseTask
  <2>1. ChanOK(Payload)'
    BY <1>2, ReceiveKeeps, PayloadFacts DEF Inv, TypeOK, PauseTask
  <2>2. TypeOK' /\ PlansAreShort' /\ IdleIsEmpty'
    BY <1>2, <2>1 DEF Inv, TypeOK, PauseTask, PlansAreShort, IdleIsEmpty
  <2>3. OverrunIsOnePlan'
    <3>1. CASE paused
      BY <1>2, <3>1 DEF Inv, PauseTask, OverrunIsOnePlan
    <3>2. CASE ~paused
      <4> SUFFICES ASSUME NEW t \in Symbols
                   PROVE  overrun'[t] + Len(plan'[t]) <= MaxPlan
        BY DEF OverrunIsOnePlan
      <4>1. overrun'[t] = 0 /\ plan' = plan
        BY <1>2, <3>2 DEF PauseTask
      <4>2. Len(plan[t]) \in Nat /\ Len(plan[t]) <= MaxPlan
        BY DEF Inv, TypeOK, PlansAreShort
      <4>3. QED
        BY <4>1, <4>2
    <3>3. QED
      BY <3>1, <3>2
  <2>4. QED
    BY <2>2, <2>3 DEF Inv
<1>3. CASE ResumeTask
  <2>1. ChanOK(Payload)'
    BY <1>3, ReceiveKeeps, PayloadFacts DEF Inv, TypeOK, ResumeTask
  <2>2. QED
    BY <1>3, <2>1
    DEF Inv, TypeOK, ResumeTask, PlansAreShort, IdleIsEmpty, OverrunIsOnePlan
<1>4. CASE FlagWaits
  BY <1>4, WaitKeeps, QuietStep DEF Inv, TypeOK, FlagWaits, Ask
<1>5. QED
  BY <1>1, <1>2, <1>3, <1>4 DEF FlagTasks

\* The environment touches the queues only.
LEMMA EnvInv ==
  ASSUME Inv,
         \/ \E s \in StratSubjects : EnvSignal(s) \/ EnvWaits(s)
         \/ \E s \in {"orders.command", "log.event"} : EnvReceive(s)
  PROVE  Inv'
<1>1. ASSUME NEW s \in StratSubjects, EnvSignal(s) PROVE Inv'
  <2>1. s \in Subjects /\ Signal \in Payload[s]
    BY PayloadFacts DEF StratSubjects
  <2>2. ChanOK(Payload)'
    BY <1>1, <2>1, PublishKeeps DEF EnvSignal, Inv, TypeOK
  <2>3. signals' \in 0..MaxSignals
    BY <1>1, StratAssumption DEF EnvSignal, Inv, TypeOK
  <2>4. QED
    BY <1>1, <2>2, <2>3, QuietStep DEF EnvSignal
<1>2. ASSUME NEW s \in StratSubjects, EnvWaits(s) PROVE Inv'
  BY <1>2, WaitKeeps, QuietStep DEF EnvWaits, AwaitRoom, HoldLock, Inv, TypeOK
<1>3. ASSUME NEW s \in {"orders.command", "log.event"}, EnvReceive(s) PROVE Inv'
  BY <1>3, ReceiveKeeps, PayloadFacts, QuietStep DEF Inv, TypeOK, EnvReceive
<1>4. QED
  BY <1>1, <1>2, <1>3

\* The invariant holds in every state of the strategy host.
THEOREM Invariance == Spec => []Inv
<1>1. Init => Inv
  BY InitInv
<1>2. Inv /\ [Next]_vars => Inv'
  <2> SUFFICES ASSUME Inv, [Next]_vars PROVE Inv'
    OBVIOUS
  <2>1. CASE UNCHANGED vars
    BY <2>1, BusUnchanged, QuietStep DEF Inv, TypeOK, vars
  <2>2. ASSUME NEW s \in Symbols, PairTask(s), signals' = signals PROVE Inv'
    <3>1. CASE PairWaits(s)
      BY <2>2, <3>1, WaitKeeps, QuietStep DEF PairWaits, AwaitRoom, HoldLock, Ask, Inv, TypeOK
    <3>2. QED
      BY <2>2, <3>1, TakeSnapshotInv, PublishOrderInv, PairEdgesInv DEF PairTask
  <2>3. CASE FlagTasks /\ UNCHANGED signals
    BY <2>3, FlagTasksInv
  <2>4. CASE \/ \E s \in StratSubjects : EnvSignal(s) \/ EnvWaits(s)
             \/ \E s \in {"orders.command", "log.event"} : EnvReceive(s)
    BY <2>4, EnvInv
  <2>5. QED
    BY <2>1, <2>2, <2>3, <2>4 DEF Next
<1>3. QED
  BY <1>1, <1>2, PTL DEF Spec

\* The types of the flag, of the outcomes in hand and of the queues hold for
\* any pairs and any engine.
THEOREM Types == Spec => []TypeOK
BY Invariance, PTL DEF Inv

\* After pause_all has been handled, a pair publishes at most the rest of the
\* outcome it had begun: handle_snapshot reads the flag before the engine.
THEOREM OnePlan == Spec => []OverrunIsOnePlan
BY Invariance, PTL DEF Inv
====
