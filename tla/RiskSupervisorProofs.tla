---- MODULE RiskSupervisorProofs ----
(***************************************************************************)
(* Proofs about RiskSupervisor for every value of its constants. The        *)
(* inductive invariant adds Phases to NoMissedTrip: the worker announces    *)
(* only a breaker it has set, and it has evaluated nothing before it runs.  *)
(* The types are needed because ageing compares error counts. For the trips *)
(* it does not matter how the notional is summed up, only that evaluate     *)
(* sees the values just recorded; OutflowIsExposed needs what recording one *)
(* fill does to the sum, which the lemmas about SumFunction say.            *)
(***************************************************************************)
EXTENDS RiskSupervisor, FiniteSetTheorems, WellFoundedInduction, TLAPS

\* What the worker's position in run and trigger_breaker tells.
Phases ==
  /\ rpc \in {"pause", "block", "log"} => circuit_breaker_active
  /\ rpc \in {"sub_orders", "sub_log", "sub_config"} => unevaluated

Inv == TypeOK /\ Phases /\ NoMissedTrip

----
\* What the bus operations do to the queues, for every payload typing T.

\* publish only appends a message of the subject's type, or drops it.
LEMMA PublishKeeps ==
  ASSUME NEW T, ChanOK(T), NEW s \in Subjects, NEW m \in T[s], NEW task,
         Publish(task, s, m)
  PROVE  ChanOK(T)'
<1>1. chan[s] \in Seq(T[s]) /\ Append(chan[s], m) \in Seq(T[s])
  BY DEF ChanOK
<1>2. QED
  BY <1>1 DEF ChanOK, Publish

\* recv hands out a message of the subject's type and keeps the others.
LEMMA ReceiveKeeps ==
  ASSUME NEW T, ChanOK(T), NEW s \in Subjects, Receive(s)
  PROVE  ChanOK(T)' /\ Head(chan[s]) \in T[s]
<1>1. chan[s] \in Seq(T[s]) /\ Tail(chan[s]) \in Seq(T[s]) /\ Head(chan[s]) \in T[s]
  BY DEF ChanOK, Receive
<1>2. QED
  BY <1>1 DEF ChanOK, Receive

\* subscribe touches no queue, nor does a step that leaves the bus alone or waits
\* for it, and the queues of a fresh bus are empty.
LEMMA SubscribeKeeps ==
  ASSUME NEW T, ChanOK(T), NEW s \in Subjects, Subscribe(s) PROVE ChanOK(T)'
BY DEF ChanOK, Subscribe

LEMMA BusUnchanged == ASSUME NEW T, ChanOK(T), UNCHANGED bus PROVE ChanOK(T)'
BY DEF ChanOK, bus

LEMMA WaitKeeps == ASSUME NEW T, ChanOK(T), UNCHANGED <<chan, subscribed>> PROVE ChanOK(T)'
BY DEF ChanOK

LEMMA BusInitOK ==
  ASSUME NEW T, NEW there \in SUBSET Subjects, BusInit(there) PROVE ChanOK(T)
BY DEF ChanOK, BusInit

----
\* The subjects the supervisor uses and what they carry.
LEMMA PayloadFacts ==
  /\ {"orders.result", "log.event", "control.config.update.risk",
      "control.strategy.pause_all", "control.strategy.resume_all",
      "control.exec.block_new_orders", "control.exec.reset_circuit"} \subseteq Subjects
  /\ Payload["orders.result"] = OrderResults
  /\ Payload["log.event"] = Levels
  /\ Payload["control.config.update.risk"] = RiskConfigs
  /\ Payload["control.strategy.pause_all"] = {Signal}
  /\ Payload["control.strategy.resume_all"] = {Signal}
  /\ Payload["control.exec.block_new_orders"] = {Signal}
  /\ Payload["control.exec.reset_circuit"] = {Signal}
BY DEF Payload, Subjects

\* record_order keeps the book well typed; an entry never goes negative.
LEMMA RecordOrderType ==
  ASSUME NEW res \in OrderResults, NEW pnl \in Int, NEW exp \in [Symbols -> Nat]
  PROVE  /\ pnl + PnlDelta(res) \in Int
         /\ ExposureAfter(exp, res) \in [Symbols -> Nat]
<1>1. res.filled_size_quote \in Nat
  <2>1. res.filled_size_quote \in Sizes \cup {0}
    BY DEF OrderResults
  <2>2. Sizes \subseteq Nat /\ 0 \in Nat
    BY RiskAssumption
  <2>3. QED
    BY <2>1, <2>2, Zenon
<1>2. PnlDelta(res) \in Int
  BY <1>1 DEF PnlDelta
<1>3. res.symbol \in Symbols
  BY DEF OrderResults
<1>4. exp[res.symbol] - PnlDelta(res) \in Int
  BY <1>2, <1>3
<1>5. ExposureAfter(exp, res) \in [Symbols -> Nat]
  <2> DEFINE entry == exp[res.symbol] - PnlDelta(res)
             kept  == IF entry > 0 THEN entry ELSE 0
  <2>1. kept \in Nat
    BY <1>4
  <2> HIDE DEF kept
  <2>2. [exp EXCEPT ![res.symbol] = kept] \in [Symbols -> Nat]
    BY <2>1
  <2>3. QED
    BY <2>2 DEF ExposureAfter, kept
<1>6. QED
  BY <1>2, <1>5

\* evaluate sets the breaker exactly when what was just recorded breaches a
\* limit, and otherwise leaves no breach behind.
LEMMA EvaluateFacts ==
  ASSUME NEW pnl, NEW exp, NEW errs \in [fresh : Nat, stale : Nat],
         risk_config \in RiskConfigs, circuit_breaker_active \in BOOLEAN,
         rpc = "select", Evaluate(pnl, exp, errs),
         daily_pnl_quote' = pnl, exposure' = exp, risk_config' = risk_config
  PROVE  /\ last_errors' \in [fresh : Nat, stale : Nat]
         /\ circuit_breaker_active' \in BOOLEAN
         /\ rpc' \in {"select", "pause"}
         /\ unevaluated' = FALSE
         /\ circuit_breaker_active => circuit_breaker_active'
         /\ ~circuit_breaker_active /\ circuit_breaker_active' => Breached'
         /\ ~circuit_breaker_active' => ~Breached'
<1>1. PruneErrors(errs) \in [fresh : Nat, stale : Nat]
      /\ PruneErrors(errs).fresh = errs.fresh
  BY DEF PruneErrors
<1>2. CASE circuit_breaker_active
  BY <1>2 DEF Evaluate
<1>3. CASE ~circuit_breaker_active /\ LimitsBreached(pnl, exp, risk_config)
  <2>1. /\ last_errors' = errs /\ circuit_breaker_active' = TRUE
        /\ rpc' = "pause" /\ unevaluated' = FALSE
    BY <1>3 DEF Evaluate, Trip
  <2>2. Breached'
    BY <1>3 DEF Breached
  <2>3. QED
    BY <1>3, <2>1, <2>2
<1>4. CASE ~circuit_breaker_active /\ ~LimitsBreached(pnl, exp, risk_config)
  <2>1. /\ last_errors' = IF risk_config.max_error_rate = {} THEN errs
                          ELSE PruneErrors(errs)
        /\ unevaluated' = FALSE
        /\ IF ErrorRateExceeded(PruneErrors(errs), risk_config)
           THEN circuit_breaker_active' = TRUE /\ rpc' = "pause"
           ELSE circuit_breaker_active' = circuit_breaker_active /\ rpc' = rpc
    BY <1>4 DEF Evaluate, Trip
  <2>2. last_errors' \in [fresh : Nat, stale : Nat] /\ last_errors'.fresh = errs.fresh
    BY <1>1, <2>1
  <2>3. Breached' <=> ErrorRateExceeded(PruneErrors(errs), risk_config)
    <3>1. Breached' <=> ErrorRateExceeded(last_errors', risk_config)
      BY <1>4 DEF Breached
    <3>2. QED
      BY <1>1, <2>2, <3>1 DEF ErrorRateExceeded
  <2>4. QED
    BY <1>4, <2>1, <2>2, <2>3
<1>5. QED
  BY <1>2, <1>3, <1>4

\* A branch of select! that ends in evaluate.
LEMMA EvaluateStep ==
  ASSUME Inv, ChanOK(Payload)', events' = events, rpc = "select",
         NEW pnl \in Int, NEW exp \in [Symbols -> Nat],
         NEW errs \in [fresh : Nat, stale : Nat],
         daily_pnl_quote' = pnl, exposure' = exp, Evaluate(pnl, exp, errs),
         UNCHANGED <<risk_config, api_active, apc>>
  PROVE  Inv' /\ (~circuit_breaker_active /\ circuit_breaker_active' => Breached')
<1>1. risk_config \in RiskConfigs /\ circuit_breaker_active \in BOOLEAN
  BY DEF Inv, TypeOK
<1>2. /\ last_errors' \in [fresh : Nat, stale : Nat]
      /\ circuit_breaker_active' \in BOOLEAN
      /\ rpc' \in {"select", "pause"}
      /\ unevaluated' = FALSE
      /\ ~circuit_breaker_active /\ circuit_breaker_active' => Breached'
      /\ ~circuit_breaker_active' => ~Breached'
  BY <1>1, EvaluateFacts
<1>3. rpc' = "pause" => circuit_breaker_active'
  BY DEF Evaluate, Trip
<1>4. TypeOK'
  BY <1>2 DEF Inv, TypeOK
<1>5. Phases'
  BY <1>2, <1>3 DEF Phases
<1>6. NoMissedTrip'
  BY <1>2 DEF NoMissedTrip
<1>7. QED
  BY <1>2, <1>4, <1>5, <1>6 DEF Inv

\* A step that leaves the worker's book, breaker and configuration alone.
LEMMA QuietStep ==
  ASSUME Inv, ChanOK(Payload)', events' \in 0..MaxEvents,
         \/ rpc' = rpc
         \/ rpc = "sub_orders" /\ rpc' = "sub_log"
         \/ rpc = "sub_log" /\ rpc' = "sub_config"
         \/ rpc = "sub_config" /\ rpc' = "select"
         \/ rpc = "pause" /\ rpc' = "block"
         \/ rpc = "block" /\ rpc' = "log"
         \/ rpc = "log" /\ rpc' = "select",
         apc' \in {"idle", "reset", "resume", "stuck"}, api_active' \in BOOLEAN,
         UNCHANGED <<daily_pnl_quote, exposure, circuit_breaker_active,
                     last_errors, risk_config, unevaluated>>
  PROVE  Inv'
<1>1. TypeOK'
  BY DEF Inv, TypeOK
<1>2. Phases'
  BY DEF Inv, Phases
<1>3. NoMissedTrip'
  <2>1. Breached' <=> Breached
    BY DEF Breached
  <2>2. QED
    BY <2>1 DEF Inv, Phases, NoMissedTrip
<1>4. QED
  BY <1>1, <1>2, <1>3 DEF Inv

\* The worker starts unevaluated, with an empty book.
LEMMA InitInv == Init => Inv
<1> SUFFICES ASSUME Init PROVE Inv
  OBVIOUS
<1>1. ChanOK(Payload)
  <2>1. Listeners \cup (IF Connected THEN RiskSubjects ELSE {}) \in SUBSET Subjects
    BY RiskAssumption DEF RiskSubjects, Subjects
  <2>2. QED
    BY <2>1, BusInitOK DEF Init
<1>2. rpc \in {"select", "sub_orders"} /\ unevaluated = TRUE
  BY DEF Init, RiskInit
<1>3. TypeOK
  <2>1. circuit_breaker_active \in BOOLEAN /\ api_active \in BOOLEAN /\ unevaluated \in BOOLEAN
    BY DEF Init, RiskInit
  <2>2. /\ daily_pnl_quote \in Int /\ exposure \in [Symbols -> Nat]
        /\ last_errors \in [fresh : Nat, stale : Nat] /\ events \in 0..MaxEvents
        /\ risk_config \in RiskConfigs /\ apc \in {"idle", "reset", "resume", "stuck"}
    BY RiskAssumption DEF Init, RiskInit
  <2>3. QED
    BY <1>1, <1>2, <2>1, <2>2 DEF TypeOK
<1>4. QED
  BY <1>2, <1>3 DEF Inv, Phases, NoMissedTrip

\* The select! branches, the three publishes and the three subscriptions.
LEMMA WorkerInv ==
  ASSUME Inv, Worker, events' = events
  PROVE  Inv' /\ (~circuit_breaker_active /\ circuit_breaker_active' => Breached')
<1>0. /\ ChanOK(Payload) /\ events \in 0..MaxEvents
      /\ daily_pnl_quote \in Int /\ exposure \in [Symbols -> Nat]
      /\ last_errors \in [fresh : Nat, stale : Nat]
      /\ apc \in {"idle", "reset", "resume", "stuck"} /\ api_active \in BOOLEAN
  BY DEF Inv, TypeOK
<1>1. CASE SubscribeOrders \/ SubscribeLog \/ SubscribeConfig
  <2>1. ChanOK(Payload)'
    BY <1>0, <1>1, SubscribeKeeps, PayloadFacts
       DEF SubscribeOrders, SubscribeLog, SubscribeConfig, SubscribeAt, RiskTakes
  <2>2. QED
    BY <1>0, <1>1, <2>1, QuietStep
       DEF SubscribeOrders, SubscribeLog, SubscribeConfig, SubscribeAt
<1>2. CASE TakeOrder
  <2> DEFINE res == Head(chan["orders.result"])
  <2>1. ChanOK(Payload)' /\ res \in OrderResults
    BY <1>0, <1>2, ReceiveKeeps, PayloadFacts DEF TakeOrder
  <2>2. /\ daily_pnl_quote + PnlDelta(res) \in Int
        /\ ExposureAfter(exposure, res) \in [Symbols -> Nat]
    BY <1>0, <2>1, RecordOrderType
  <2>3. QED
    BY <1>0, <1>2, <2>1, <2>2, EvaluateStep DEF TakeOrder
<1>3. CASE TakeLog
  <2>1. ChanOK(Payload)' /\ rpc = "select"
    BY <1>0, <1>3, ReceiveKeeps, PayloadFacts DEF TakeLog
  <2>2. CASE Head(chan["log.event"]) = "Error"
    <3> DEFINE errs == [last_errors EXCEPT !.fresh = @ + 1]
    <3>1. errs \in [fresh : Nat, stale : Nat]
      BY <1>0
    <3>2. Evaluate(daily_pnl_quote, exposure, errs)
      BY <1>3, <2>2 DEF TakeLog
    <3> HIDE DEF errs
    <3>3. QED
      BY <1>0, <1>3, <2>1, <3>1, <3>2, EvaluateStep DEF TakeLog
  <2>3. CASE Head(chan["log.event"]) # "Error"
    BY <1>0, <1>3, <2>1, <2>3, QuietStep DEF TakeLog
  <2>4. QED
    BY <2>2, <2>3
<1>4. CASE TakeConfig
  <2>1. ChanOK(Payload)' /\ Head(chan["control.config.update.risk"]) \in RiskConfigs
    BY <1>0, <1>4, ReceiveKeeps, PayloadFacts DEF TakeConfig
  <2>2. QED
    BY <1>4, <2>1 DEF Inv, TypeOK, Phases, NoMissedTrip, TakeConfig
<1>5. CASE Tick
  <2>1. ChanOK(Payload)'
    BY <1>0, <1>5, BusUnchanged DEF Tick
  <2>2. QED
    BY <1>0, <1>5, <2>1, EvaluateStep DEF Tick
<1>6. CASE PublishPause \/ PublishBlock \/ PublishTripLog
  <2>1. ChanOK(Payload)'
    BY <1>0, <1>6, PublishKeeps, PayloadFacts
       DEF PublishPause, PublishBlock, PublishTripLog, PublishTrip, RiskGives, Levels
  <2>2. QED
    BY <1>0, <1>6, <2>1, QuietStep
       DEF PublishPause, PublishBlock, PublishTripLog, PublishTrip
<1>7. CASE RiskWaits
  <2>1. ChanOK(Payload)'
    BY <1>0, <1>7, WaitKeeps DEF RiskWaits, AwaitRoom, HoldLock, Ask
  <2>2. QED
    BY <1>0, <1>7, <2>1, QuietStep DEF RiskWaits, riskVars
<1>8. QED
  BY <1>1, <1>2, <1>3, <1>4, <1>5, <1>6, <1>7 DEF Worker

\* Ageing only takes errors out of the window.
LEMMA ErrorsAgeInv ==
  ASSUME Inv, ErrorsAge, events' = events
  PROVE  Inv' /\ circuit_breaker_active' = circuit_breaker_active
<1>1. PICK k \in 1..last_errors.fresh :
        last_errors' = [fresh |-> last_errors.fresh - k, stale |-> last_errors.stale + k]
  BY DEF ErrorsAge
<1>2. last_errors.fresh \in Nat /\ last_errors.stale \in Nat
  BY DEF Inv, TypeOK
<1>3. /\ last_errors' \in [fresh : Nat, stale : Nat]
      /\ last_errors'.fresh <= last_errors.fresh
  BY <1>1, <1>2
<1>4. TypeOK'
  <2>1. ChanOK(Payload)'
    BY BusUnchanged DEF Inv, TypeOK, ErrorsAge
  <2>2. QED
    BY <1>3, <2>1 DEF Inv, TypeOK, ErrorsAge
<1>5. Breached' => Breached
  <2>1. \A r \in risk_config.max_error_rate : r \in Nat
    <3>1. risk_config \in RiskConfig
      BY RiskAssumption DEF Inv, TypeOK
    <3>2. QED
      BY <3>1 DEF RiskConfig
  <2>2. ErrorRateExceeded(last_errors, risk_config)' => ErrorRateExceeded(last_errors, risk_config)
    BY <1>2, <1>3, <2>1 DEF ErrorRateExceeded, ErrorsAge
  <2>3. QED
    BY <2>2 DEF Breached, ErrorsAge
<1>6. QED
  BY <1>4, <1>5 DEF Inv, Phases, NoMissedTrip, ErrorsAge

\* The API's calls and the other services only move messages.
LEMMA OthersInv ==
  ASSUME Inv,
         \/ Reset /\ UNCHANGED events
         \/ EnvResult \/ EnvLog \/ EnvConfig \/ EnvWaits
         \/ \E s \in Listeners \ RiskSubjects : EnvReceive(s)
  PROVE  Inv' /\ circuit_breaker_active' = circuit_breaker_active
<1>0. /\ ChanOK(Payload) /\ events \in 0..MaxEvents
      /\ apc \in {"idle", "reset", "resume", "stuck"} /\ api_active \in BOOLEAN
  BY DEF Inv, TypeOK
<1>1. CASE Reset /\ UNCHANGED events
  <2>1. CASE ResetExec \/ ResumeAll
    <3>1. ChanOK(Payload)'
      BY <1>0, <2>1, PublishKeeps, PayloadFacts
         DEF ResetExec, ResumeAll, PublishFromReset, ResetGives
    <3>2. QED
      BY <1>0, <1>1, <2>1, <3>1, QuietStep DEF ResetExec, ResumeAll, PublishFromReset
  <2>2. CASE ResetCircuit \/ ResetWaits \/ BlockThread
    <3>1. ChanOK(Payload)'
      BY <1>0, <2>2, WaitKeeps DEF ResetCircuit, ResetWaits, BlockThread, AwaitRoom, HoldLock, bus
    <3>2. QED
      BY <1>0, <1>1, <2>2, <3>1, QuietStep DEF ResetCircuit, ResetWaits, BlockThread, riskVars
  <2>3. QED
    BY <1>1, <2>1, <2>2 DEF Reset, ResetCall
<1>2. CASE EnvResult \/ EnvLog \/ EnvConfig
  <2>1. PICK s \in Subjects : \E m \in Payload[s] : EnvPublish(s, m)
    BY <1>2, PayloadFacts DEF EnvResult, EnvLog, EnvConfig
  <2>2. ChanOK(Payload)'
    BY <1>0, <2>1, PublishKeeps DEF EnvPublish
  <2>3. events' \in 0..MaxEvents
    BY <1>0, <2>1, RiskAssumption DEF EnvPublish
  <2>4. QED
    BY <1>0, <2>1, <2>2, <2>3, QuietStep DEF EnvPublish, riskVars
<1>3. CASE \E s \in Listeners \ RiskSubjects : EnvReceive(s)
  <2>1. PICK s \in Subjects : EnvReceive(s)
    BY <1>3, RiskAssumption
  <2>2. ChanOK(Payload)'
    BY <1>0, <2>1, ReceiveKeeps DEF EnvReceive
  <2>3. QED
    BY <1>0, <2>1, <2>2, QuietStep DEF EnvReceive, riskVars
<1>4. CASE EnvWaits
  <2>1. ChanOK(Payload)'
    BY <1>0, <1>4, WaitKeeps DEF EnvWaits, AwaitRoom, HoldLock
  <2>2. QED
    BY <1>0, <1>4, <2>1, QuietStep DEF EnvWaits, riskVars
<1>5. QED
  BY <1>1, <1>2, <1>3, <1>4

\* Inv is inductive, and every step that sets the breaker is justified.
LEMMA StepInv ==
  ASSUME Inv, [Next]_vars
  PROVE  Inv' /\ (~circuit_breaker_active /\ circuit_breaker_active' => Breached')
<1>1. CASE Worker /\ UNCHANGED events
  BY <1>1, WorkerInv
<1>2. CASE ErrorsAge /\ UNCHANGED events
  BY <1>2, ErrorsAgeInv
<1>3. CASE \/ Reset /\ UNCHANGED events
           \/ EnvResult \/ EnvLog \/ EnvConfig \/ EnvWaits
           \/ \E s \in Listeners \ RiskSubjects : EnvReceive(s)
  BY <1>3, OthersInv
<1>4. CASE UNCHANGED vars
  <2>1. ChanOK(Payload)'
    BY <1>4, BusUnchanged DEF Inv, TypeOK, vars
  <2>2. QED
    BY <1>4, <2>1, QuietStep DEF Inv, TypeOK, vars, riskVars
<1>5. QED
  BY <1>1, <1>2, <1>3, <1>4 DEF Next

\* Every reachable state of the supervisor, for all limits, sizes and bounds.
THEOREM Invariance == Spec => []Inv
<1>1. Inv /\ [Next]_vars => Inv'
  BY StepInv
<1>2. QED
  BY <1>1, InitInv, PTL DEF Spec

\* The worker's state keeps its types; exposures stay non-negative.
THEOREM Types == Spec => []TypeOK
<1>1. Inv => TypeOK
  BY DEF Inv
<1>2. QED
  BY <1>1, Invariance, PTL

\* evaluate never returns to select! with an unnoticed breach.
THEOREM NoMissedTrips == Spec => []NoMissedTrip
<1>1. Inv => NoMissedTrip
  BY DEF Inv
<1>2. QED
  BY <1>1, Invariance, PTL

\* The breaker is never set without a breach.
THEOREM JustifiedTrips == Spec => TripJustified
<1>1. Inv /\ [Next]_vars
        => [~circuit_breaker_active /\ circuit_breaker_active' => Breached']_vars
  BY StepInv
<1>2. QED
  BY <1>1, Invariance, PTL DEF Spec, TripJustified

----
\* The sum over a finite function: that it is defined, and what changing one
\* value does to it.

\* Induction up to n, over a set.
LEMMA UpTo ==
  ASSUME NEW n \in Nat, NEW S, 0 \in S, \A i \in 1..n : i - 1 \in S => i \in S
  PROVE  \A i \in 0..n : i \in S
<1> DEFINE B == (0..n) \ S
<1> SUFFICES B = {}
  OBVIOUS
<1>1. SUFFICES ASSUME B # {} PROVE FALSE
  OBVIOUS
<1>2. B \subseteq Nat
  OBVIOUS
<1>3. PICK i \in B : \A j \in B : ~(<<j, i>> \in OpToRel(<, Nat))
  BY <1>1, <1>2, NatLessThanWellFounded, WFMin
<1>4. \A j \in B : ~(j < i)
  BY <1>2, <1>3 DEF OpToRel
<1>5. i \in 1..n /\ i - 1 \in 0..n /\ i - 1 \notin B
  BY <1>4
<1>6. QED
  BY <1>5

\* The element SumFunction takes next, and what is left without it.
Pick(T) == CHOOSE x \in T : TRUE
Rest(T) == T \ {Pick(T)}

\* The subsets of S with at most k elements.
Small(S, k) == {T \in SUBSET S : Cardinality(T) <= k}

\* h gives the sum of fun over each set of D.
Sums(h, fun, D) ==
  /\ h \in [D -> Int]
  /\ \A T \in D : h[T] = IF T = {} THEN 0 ELSE fun[Pick(T)] + h[Rest(T)]

\* What is left is smaller.
LEMMA RestSmaller ==
  ASSUME NEW S, IsFiniteSet(S), NEW T \in SUBSET S, T # {}
  PROVE  /\ Pick(T) \in T /\ Rest(T) \in SUBSET S
         /\ Cardinality(T) \in Nat \ {0}
         /\ Cardinality(Rest(T)) = Cardinality(T) - 1
<1>1. IsFiniteSet(T)
  BY FS_Subset
<1>2. Pick(T) \in T
  BY DEF Pick
<1>3. Cardinality(T) \in Nat /\ Cardinality(T) # 0
  BY <1>1, FS_CardinalityType, FS_EmptySet
<1>4. Cardinality(T \ {Pick(T)}) = Cardinality(T) - 1
  BY <1>1, <1>2, FS_RemoveElement
<1>5. QED
  BY <1>2, <1>3, <1>4 DEF Rest

\* Induction over the subsets of a finite set, the picked element being last.
LEMMA SubsetInduction ==
  ASSUME NEW S, IsFiniteSet(S), NEW P, {} \in P,
         \A T \in SUBSET S : T # {} /\ Rest(T) \in P => T \in P
  PROVE  SUBSET S \subseteq P
<1> DEFINE n == Cardinality(S)
           K == {k \in 0..n : \A T \in Small(S, k) : T \in P}
<1>1. n \in Nat
  BY FS_CardinalityType
<1>2. \A T \in SUBSET S : Cardinality(T) \in 0..n
  BY <1>1, FS_Subset, FS_CardinalityType
<1>3. 0 \in K
  <2>1. ASSUME NEW T \in Small(S, 0) PROVE T \in P
    <3>1. T \in SUBSET S /\ Cardinality(T) <= 0
      BY DEF Small
    <3>2. T = {}
      BY <1>2, <3>1, RestSmaller
    <3>3. QED
      BY <3>2
  <2>2. QED
    BY <1>1, <2>1
<1>4. ASSUME NEW k \in 1..n, k - 1 \in K PROVE k \in K
  <2>1. ASSUME NEW T \in Small(S, k) PROVE T \in P
    <3>1. T \in SUBSET S /\ Cardinality(T) <= k
      BY DEF Small
    <3>2. CASE T = {}
      BY <3>2
    <3>3. CASE T # {}
      <4>1. Rest(T) \in Small(S, k - 1)
        BY <3>1, <3>3, RestSmaller DEF Small
      <4>2. QED
        BY <1>4, <3>1, <3>3, <4>1
    <3>4. QED
      BY <3>2, <3>3
  <2>2. QED
    BY <2>1
<1>5. \A k \in 0..n : k \in K
  <2> HIDE DEF K, n
  <2> QED BY <1>1, <1>3, <1>4, UpTo
<1>6. ASSUME NEW T \in SUBSET S PROVE T \in P
  <2>1. T \in Small(S, n)
    BY <1>1, <1>2 DEF Small
  <2>2. n \in K
    BY <1>1, <1>5
  <2>3. QED
    BY <2>1, <2>2
<1>7. QED
  BY <1>6

\* There is such a function of all subsets.
LEMMA SumsExist ==
  ASSUME NEW S, IsFiniteSet(S), NEW fun \in [S -> Int]
  PROVE  \E h : Sums(h, fun, SUBSET S)
<1> DEFINE n == Cardinality(S)
           K == {k \in 0..n : \E h : Sums(h, fun, Small(S, k))}
<1>1. n \in Nat
  BY FS_CardinalityType
<1>2. 0 \in K
  <2>1. \A T \in Small(S, 0) : T = {}
    BY RestSmaller DEF Small
  <2>2. Sums([T \in Small(S, 0) |-> 0], fun, Small(S, 0))
    BY <2>1 DEF Sums
  <2>3. QED
    BY <1>1, <2>2
<1>3. ASSUME NEW k \in 1..n, k - 1 \in K PROVE k \in K
  <2>1. PICK f : Sums(f, fun, Small(S, k - 1))
    BY <1>3
  <2> DEFINE g == [T \in Small(S, k) |-> IF T = {} THEN 0 ELSE fun[Pick(T)] + f[Rest(T)]]
  <2>2. ASSUME NEW T \in Small(S, k), T # {}
        PROVE  /\ Pick(T) \in S /\ Rest(T) \in Small(S, k - 1)
    <3>1. T \in SUBSET S /\ Cardinality(T) <= k
      BY DEF Small
    <3>2. QED
      BY <2>2, <3>1, RestSmaller DEF Small
  <2>3. g \in [Small(S, k) -> Int]
    BY <2>1, <2>2 DEF Sums
  <2>4. ASSUME NEW T \in Small(S, k - 1) PROVE T \in Small(S, k) /\ g[T] = f[T]
    <3>1. T \in Small(S, k)
      <4>1. T \in SUBSET S /\ Cardinality(T) <= k - 1
        BY DEF Small
      <4>2. Cardinality(T) \in Nat
        BY <4>1, FS_Subset, FS_CardinalityType
      <4>3. QED
        BY <4>1, <4>2 DEF Small
    <3>2. QED
      BY <2>1, <3>1 DEF Sums
  <2>5. ASSUME NEW T \in Small(S, k)
        PROVE  g[T] = IF T = {} THEN 0 ELSE fun[Pick(T)] + g[Rest(T)]
    BY <2>2, <2>4
  <2>6. Sums(g, fun, Small(S, k))
    <3> HIDE DEF g
    <3> QED BY <2>3, <2>5 DEF Sums
  <2>7. QED
    BY <2>6
<1>4. \A k \in 0..n : k \in K
  <2> HIDE DEF K, n
  <2> QED BY <1>1, <1>2, <1>3, UpTo
<1>5. n \in K
  BY <1>1, <1>4
<1>6. Small(S, n) = SUBSET S
  BY FS_Subset DEF Small
<1>7. QED
  BY <1>5, <1>6

\* SumFunction is one.
LEMMA SumIs ==
  ASSUME NEW S, IsFiniteSet(S), NEW fun \in [S -> Int]
  PROVE  \E h : Sums(h, fun, SUBSET S) /\ SumFunction(fun) = h[S]
<1> DEFINE Step(h) == [T \in SUBSET S |->
                         IF T = {} THEN 0
                         ELSE fun[CHOOSE x \in T : TRUE] + h[T \ {CHOOSE x \in T : TRUE}]]
           iter == CHOOSE h : h = Step(h)
<1>1. SumFunction(fun) = iter[S]
  BY DEF SumFunction, SumFunctionOnSet, FoldFunctionOnSet, MapThenFoldSet
<1>2. PICK f : Sums(f, fun, SUBSET S)
  BY SumsExist
<1>3. f = Step(f)
  BY <1>2 DEF Sums, Pick, Rest
<1>4. iter = Step(iter)
  BY <1>3
<1> DEFINE P == {T \in SUBSET S : iter[T] = f[T]}
<1>5. \A T \in SUBSET S : iter[T] = IF T = {} THEN 0 ELSE fun[Pick(T)] + iter[Rest(T)]
  <2> HIDE DEF iter
  <2> QED BY <1>4, Zenon DEF Pick, Rest
<1>6. \A T \in SUBSET S : f[T] = IF T = {} THEN 0 ELSE fun[Pick(T)] + f[Rest(T)]
  BY <1>2 DEF Sums
<1>7. SUBSET S \subseteq P
  <2> HIDE DEF iter
  <2>1. {} \in P
    BY <1>5, <1>6
  <2>2. \A T \in SUBSET S : T # {} /\ Rest(T) \in P => T \in P
    BY <1>5, <1>6
  <2> HIDE DEF P
  <2>3. QED
    BY <2>1, <2>2, SubsetInduction
<1>8. S \in SUBSET S
  OBVIOUS
<1>9. iter[S] = f[S]
  <2> HIDE DEF iter
  <2> QED BY <1>7, <1>8
<1>10. QED
  BY <1>1, <1>2, <1>9

\* The sum of zeros.
LEMMA SumZero ==
  ASSUME NEW S, IsFiniteSet(S)
  PROVE  SumFunction([s \in S |-> 0]) = 0
<1> DEFINE fun == [s \in S |-> 0]
<1>1. fun \in [S -> Int] /\ \A s \in S : fun[s] = 0
  OBVIOUS
<1> HIDE DEF fun
<1>2. PICK h : Sums(h, fun, SUBSET S) /\ SumFunction(fun) = h[S]
  BY <1>1, SumIs
<1> DEFINE P == {T \in SUBSET S : h[T] = 0}
<1>3. {} \in P
  BY <1>2 DEF Sums
<1>4. ASSUME NEW T \in SUBSET S, T # {}, Rest(T) \in P PROVE T \in P
  <2>1. Pick(T) \in S
    BY <1>4, RestSmaller
  <2>2. QED
    BY <1>1, <1>2, <1>4, <2>1 DEF Sums
<1>5. SUBSET S \subseteq P
  <2> HIDE DEF P
  <2> QED BY <1>3, <1>4, SubsetInduction
<1>6. S \in SUBSET S
  OBVIOUS
<1>7. QED
  BY <1>2, <1>5, <1>6 DEF fun

\* Changing one value changes the sum by as much.
LEMMA SumExcept ==
  ASSUME NEW S, IsFiniteSet(S), NEW fun \in [S -> Int], NEW s \in S, NEW v \in Int
  PROVE  /\ SumFunction(fun) \in Int
         /\ SumFunction([fun EXCEPT ![s] = v]) = SumFunction(fun) - fun[s] + v
<1> DEFINE gun == [fun EXCEPT ![s] = v]
<1>1. gun \in [S -> Int] /\ gun[s] = v /\ \A x \in S \ {s} : gun[x] = fun[x]
  OBVIOUS
<1> HIDE DEF gun
<1>2. PICK f : Sums(f, fun, SUBSET S) /\ SumFunction(fun) = f[S]
  BY SumIs
<1>3. PICK g : Sums(g, gun, SUBSET S) /\ SumFunction(gun) = g[S]
  BY <1>1, SumIs
<1> DEFINE P == {T \in SUBSET S : g[T] = f[T] + IF s \in T THEN v - fun[s] ELSE 0}
<1>4. \A T \in SUBSET S : f[T] \in Int /\ g[T] \in Int
  BY <1>2, <1>3 DEF Sums
<1>5. {} \in P
  <2>1. f[{}] = 0 /\ g[{}] = 0
    BY <1>2, <1>3 DEF Sums
  <2>2. QED
    BY <2>1
<1>6. ASSUME NEW T \in SUBSET S, T # {}, Rest(T) \in P PROVE T \in P
  <2>1. Pick(T) \in T /\ Pick(T) \in S /\ Rest(T) \in SUBSET S
    BY <1>6, RestSmaller
  <2>2. f[T] = fun[Pick(T)] + f[Rest(T)] /\ g[T] = gun[Pick(T)] + g[Rest(T)]
    BY <1>2, <1>3, <1>6 DEF Sums
  <2>3. g[Rest(T)] = f[Rest(T)] + IF s \in Rest(T) THEN v - fun[s] ELSE 0
    BY <1>6
  <2>4. f[Rest(T)] \in Int /\ fun[s] \in Int /\ fun[Pick(T)] \in Int
    BY <1>4, <2>1
  <2>5. CASE Pick(T) = s
    <3>1. s \notin Rest(T) /\ s \in T
      BY <2>1, <2>5 DEF Rest
    <3>2. QED
      BY <1>1, <2>2, <2>3, <2>4, <2>5, <3>1
  <2>6. CASE Pick(T) # s
    <3>1. s \in Rest(T) <=> s \in T
      BY <2>6 DEF Rest
    <3>2. gun[Pick(T)] = fun[Pick(T)]
      BY <1>1, <2>1, <2>6
    <3>3. QED
      BY <2>2, <2>3, <2>4, <3>1, <3>2
  <2>7. QED
    BY <2>5, <2>6
<1>7. SUBSET S \subseteq P
  <2> HIDE DEF P
  <2> QED BY <1>5, <1>6, SubsetInduction
<1>8. S \in SUBSET S
  OBVIOUS
<1>9. g[S] = f[S] + (v - fun[s])
  BY <1>7, <1>8
<1>10. QED
  BY <1>2, <1>3, <1>4, <1>8, <1>9 DEF gun

----
\* record_order adds to the exposure at least what it takes out of the book.
LEMMA RecordOrderExposes ==
  ASSUME NEW res \in OrderResults, NEW pnl \in Int, NEW exp \in [Symbols -> Nat],
         -pnl <= total_notional(exp)
  PROVE  -(pnl + PnlDelta(res)) <= total_notional(ExposureAfter(exp, res))
<1> DEFINE s     == res.symbol
           entry == exp[s] - PnlDelta(res)
           kept  == IF entry > 0 THEN entry ELSE 0
<1>1. s \in Symbols /\ IsFiniteSet(Symbols) /\ exp \in [Symbols -> Int]
  BY RiskAssumption DEF OrderResults
<1>2. PnlDelta(res) \in Int
  <2>1. res.filled_size_quote \in Sizes \cup {0} /\ Sizes \subseteq Nat /\ 0 \in Nat
    BY RiskAssumption DEF OrderResults
  <2>2. res.filled_size_quote \in Nat
    BY <2>1, Zenon
  <2>3. QED
    BY <2>2 DEF PnlDelta
<1>3. exp[s] \in Int /\ kept \in Int /\ kept >= exp[s] - PnlDelta(res)
  BY <1>1, <1>2
<1>4. ExposureAfter(exp, res) = [exp EXCEPT ![s] = kept]
  BY DEF ExposureAfter
<1>5. /\ SumFunction(exp) \in Int
      /\ SumFunction(ExposureAfter(exp, res)) = SumFunction(exp) - exp[s] + kept
  <2> HIDE DEF kept, s
  <2>1. /\ SumFunction(exp) \in Int
        /\ SumFunction([exp EXCEPT ![s] = kept]) = SumFunction(exp) - exp[s] + kept
    BY <1>1, <1>3, SumExcept
  <2>2. QED
    BY <1>4, <2>1, Zenon
<1>6. -pnl <= SumFunction(exp)
  BY DEF total_notional
<1>7. -(pnl + PnlDelta(res)) <= SumFunction(ExposureAfter(exp, res))
  <2> HIDE DEF kept, s
  <2> QED BY <1>2, <1>3, <1>5, <1>6
<1>8. QED
  BY <1>7 DEF total_notional

\* No other step changes the book.
LEMMA ExposedNext ==
  ASSUME Inv, OutflowIsExposed, [Next]_vars
  PROVE  OutflowIsExposed'
<1>1. CASE UNCHANGED <<daily_pnl_quote, exposure>>
  BY <1>1 DEF OutflowIsExposed
<1>2. CASE TakeOrder
  <2>1. Head(chan["orders.result"]) \in OrderResults
    BY <1>2, ReceiveKeeps, PayloadFacts DEF TakeOrder, Inv, TypeOK
  <2>2. daily_pnl_quote \in Int /\ exposure \in [Symbols -> Nat]
    BY DEF Inv, TypeOK
  <2>3. QED
    BY <1>2, <2>1, <2>2, RecordOrderExposes DEF TakeOrder, OutflowIsExposed
<1>3. CASE ~TakeOrder
  <2>1. UNCHANGED <<daily_pnl_quote, exposure>>
    BY <1>3 DEF Next, vars, riskVars, Worker, SubscribeOrders, SubscribeLog,
       SubscribeConfig, SubscribeAt, TakeLog, TakeConfig, Tick, PublishPause, PublishBlock,
       PublishTripLog, PublishTrip, RiskWaits, ErrorsAge, Reset, ResetCircuit, ResetCall,
       ResetExec, ResumeAll, PublishFromReset, ResetWaits, BlockThread,
       EnvResult, EnvLog, EnvConfig, EnvWaits, EnvPublish, EnvReceive
  <2>2. QED
    BY <1>1, <2>1
<1>4. QED
  BY <1>2, <1>3

\* Removing an oversold entry never hides more than came back: what left the
\* book is still exposed, for any finite set of symbols and any sizes.
THEOREM OutflowExposed == Spec => []OutflowIsExposed
<1>1. Init => OutflowIsExposed
  <2> SUFFICES ASSUME Init PROVE OutflowIsExposed
    OBVIOUS
  <2>1. SumFunction([s \in Symbols |-> 0]) = 0
    BY RiskAssumption, SumZero
  <2>2. daily_pnl_quote = 0 /\ exposure = [s \in Symbols |-> 0]
    BY DEF Init, RiskInit
  <2>3. QED
    BY <2>1, <2>2 DEF OutflowIsExposed, total_notional
<1>2. QED
  BY <1>1, ExposedNext, Invariance, PTL DEF Spec
====
