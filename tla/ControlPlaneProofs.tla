---- MODULE ControlPlaneProofs ----
(***************************************************************************)
(* Theorems about ControlPlane, for any documents, users, capacity of the   *)
(* queues and number of edits and heartbeats: what the node shows of its    *)
(* heartbeat is behind by what is queued, whoever changes the node has a    *)
(* key the middleware accepts, the HTTP clients are those of the profiles   *)
(* in force, and the type invariant, which says for instance that a running *)
(* kernel has started every service and that nothing is queued for nobody.  *)
(***************************************************************************)
EXTENDS ControlPlane, SequenceTheorems, WellFoundedInduction, TLAPS

HB == "cluster.heartbeat"
Pending == IF hpc = "publish" THEN 1 ELSE 0

\* The queued heartbeats are the youngest there are: the one at place i can be
\* behind the last one made, b, by those after it and by p not published yet.
Youngest(q, b, p) ==
  /\ q \in Seq(Nat)
  /\ \A i \in 1..Len(q) : b + i <= q[i] + Len(q) + p

BeatsInOrder ==
  /\ chan = [s \in Subjects |-> chan[s]]
  /\ beats \in Nat /\ heartbeat \in Nat /\ hpc \in {"tick", "publish"}
  /\ HB \notin subscribed => chan[HB] = <<>> /\ heartbeat = beats
  /\ Youngest(chan[HB], beats, Pending)
  /\ beats <= heartbeat + Len(chan[HB]) + Pending

\* The manager publishes sections that have a subject.
OutboxKnown ==
  /\ outbox \in Seq(DOMAIN UpdateSubject)
  /\ mpc = "publish" => outbox # <<>>

ClientsBuilt ==
  /\ applied = [c \in Consumers |-> applied[c]]
  /\ client = [c \in Clients |-> client[c]]
  /\ ClientMatchesProfile

----
\* The subjects used here are subjects of the bus.
LEMMA UpdateSubjects ==
  /\ HB \in Subjects
  /\ \A c \in DOMAIN UpdateSubject : UpdateSubject[c] \in Subjects \ {HB}
  /\ Consumers \subseteq DOMAIN UpdateSubject
  /\ "log.event" \in Subjects \ {HB}
BY DEF UpdateSubject, Subjects, HB, Consumers

\* Heartbeats. A step that leaves the queue of heartbeats and the cluster's
\* variables alone disturbs nothing.
LEMMA OtherSteps ==
  ASSUME BeatsInOrder, UNCHANGED clusterVars, chan' = [s \in Subjects |-> chan'[s]],
         chan'[HB] = chan[HB], HB \in subscribed' <=> HB \in subscribed
  PROVE  BeatsInOrder'
BY DEF BeatsInOrder, clusterVars, Pending

LEMMA OtherPublish ==
  ASSUME BeatsInOrder, UNCHANGED clusterVars, NEW task, NEW s \in Subjects \ {HB}, NEW m,
         Publish(task, s, m)
  PROVE  BeatsInOrder'
<1>1. chan' = [x \in Subjects |-> chan'[x]] /\ chan'[HB] = chan[HB]
  BY DEF Publish, BeatsInOrder, Subjects, HB
<1>2. QED
  BY <1>1, OtherSteps DEF Publish

LEMMA OtherReceive ==
  ASSUME BeatsInOrder, UNCHANGED clusterVars, NEW s \in Subjects \ {HB}, Receive(s)
  PROVE  BeatsInOrder'
<1>1. chan' = [x \in Subjects |-> chan'[x]] /\ chan'[HB] = chan[HB]
  BY DEF Receive, BeatsInOrder, Subjects, HB
<1>2. QED
  BY <1>1, OtherSteps DEF Receive

LEMMA OtherSubscribe ==
  ASSUME BeatsInOrder, UNCHANGED clusterVars, NEW s \in Subjects \ {HB}, Subscribe(s)
  PROVE  BeatsInOrder'
BY OtherSteps DEF Subscribe, BeatsInOrder

LEMMA BusLeftAlone ==
  ASSUME BeatsInOrder, UNCHANGED clusterVars, UNCHANGED <<chan, subscribed>>
  PROVE  BeatsInOrder'
BY OtherSteps DEF BeatsInOrder

\* A task or a subscription that begins to wait moves no message.
LEMMA WaitsMoveNothing ==
  ASSUME \/ UNCHANGED bus
         \/ \E task, s : AwaitRoom(task, s)
         \/ \E s : Ask(s)
  PROVE  UNCHANGED <<chan, subscribed>>
BY DEF bus, AwaitRoom, HoldLock, Ask

LEMMA SubscribeHeartbeatStep == ASSUME BeatsInOrder, SubscribeHeartbeat PROVE BeatsInOrder'
BY DEF SubscribeHeartbeat, Subscribe, clusterVars, BeatsInOrder, Pending, HB

\* A heartbeat is made, it is appended to the queue, the oldest one is taken.
LEMMA YoungestMore ==
  ASSUME NEW q, NEW b \in Nat, Youngest(q, b, 0) PROVE Youngest(q, b + 1, 1)
<1>1. \A i \in 1..Len(q) : q[i] \in Nat
  BY ElementOfSeq DEF Youngest
<1>2. QED
  BY <1>1 DEF Youngest

LEMMA YoungestAppend ==
  ASSUME NEW q, NEW b \in Nat, Youngest(q, b, 1) PROVE Youngest(Append(q, b), b, 0)
<1>1. q \in Seq(Nat) /\ \A i \in 1..Len(q) : q[i] \in Nat
  BY ElementOfSeq DEF Youngest
<1>2. /\ Append(q, b) \in Seq(Nat)
      /\ Len(Append(q, b)) = Len(q) + 1
      /\ \A i \in 1..Len(q) : Append(q, b)[i] = q[i]
      /\ Append(q, b)[Len(q) + 1] = b
  BY <1>1, AppendProperties
<1>3. Len(q) \in Nat
  BY <1>1
<1>4. ASSUME NEW i \in 1..(Len(q) + 1)
      PROVE b + i <= Append(q, b)[i] + (Len(q) + 1) + 0
  <2>1. CASE i \in 1..Len(q)
    BY <1>1, <1>2, <1>3, <2>1 DEF Youngest
  <2>2. CASE i = Len(q) + 1
    BY <1>2, <1>3, <2>2
  <2>3. QED
    BY <1>3, <2>1, <2>2
<1>5. QED
  BY <1>2, <1>4 DEF Youngest

LEMMA YoungestTail ==
  ASSUME NEW q, NEW b \in Nat, NEW p \in Nat, Youngest(q, b, p), q # <<>>
  PROVE  /\ Youngest(Tail(q), b, p)
         /\ Head(q) \in Nat
         /\ b <= Head(q) + Len(Tail(q)) + p
<1>1. q \in Seq(Nat) /\ \A i \in 1..Len(q) : q[i] \in Nat
  BY ElementOfSeq DEF Youngest
<1>2. /\ Head(q) = q[1] /\ Len(q) \in Nat \ {0}
      /\ Tail(q) \in Seq(Nat) /\ Len(Tail(q)) + 1 = Len(q) /\ Len(Tail(q)) \in Nat
      /\ \A i \in 1..Len(Tail(q)) : Tail(q)[i] = q[i + 1]
  BY <1>1, HeadTailProperties
<1>3. ASSUME NEW i \in 1..Len(Tail(q))
      PROVE b + i <= Tail(q)[i] + Len(Tail(q)) + p
  <2>1. i + 1 \in 1..Len(q)
    BY <1>2
  <2>2. b + (i + 1) <= q[i + 1] + Len(q) + p /\ q[i + 1] \in Nat
    BY <1>1, <2>1 DEF Youngest
  <2>3. ASSUME NEW x \in Nat, NEW l \in Nat, b + (i + 1) <= x + (l + 1) + p
        PROVE b + i <= x + l + p
    BY <2>3
  <2>4. b + (i + 1) <= q[i + 1] + (Len(Tail(q)) + 1) + p
    BY <1>2, <2>2
  <2>5. b + i <= q[i + 1] + Len(Tail(q)) + p
    BY <1>2, <2>2, <2>3, <2>4
  <2>6. QED
    BY <1>2, <2>5
<1>4. b + 1 <= q[1] + Len(q) + p /\ q[1] \in Nat
  BY <1>1, <1>2 DEF Youngest
<1>5. QED
  BY <1>2, <1>3, <1>4 DEF Youngest

LEMMA BeatStep == ASSUME BeatsInOrder, Beat PROVE BeatsInOrder'
<1>1. /\ hpc = "tick" /\ hpc' = "publish" /\ beats' = beats + 1 /\ heartbeat' = beats + 1
      /\ chan' = chan /\ subscribed' = subscribed
  BY DEF Beat, bus
<1>2. Pending = 0 /\ Pending' = 1
  BY <1>1 DEF Pending
<1>3. Youngest(chan[HB], beats + 1, 1)
  BY <1>2, YoungestMore DEF BeatsInOrder
<1>4. Len(chan[HB]) \in Nat
  BY DEF BeatsInOrder, Youngest
<1>5. beats' <= heartbeat' + Len(chan'[HB]) + Pending'
  BY <1>1, <1>2, <1>4 DEF BeatsInOrder
<1>6. Youngest(chan'[HB], beats', Pending')
  BY <1>1, <1>2, <1>3
<1>7. QED
  BY <1>1, <1>5, <1>6 DEF BeatsInOrder

LEMMA PublishBeatStep == ASSUME BeatsInOrder, PublishBeat PROVE BeatsInOrder'
<1>1. /\ hpc = "publish" /\ hpc' = "tick" /\ beats' = beats /\ heartbeat' = heartbeat
      /\ subscribed' = subscribed
  BY DEF PublishBeat, Publish
<1>2. Pending = 1 /\ Pending' = 0
  BY <1>1 DEF Pending
<1>3. Youngest(chan[HB], beats, 1) /\ beats \in Nat /\ heartbeat \in Nat /\ Len(chan[HB]) \in Nat
  <2>1. Youngest(chan[HB], beats, 1) /\ beats \in Nat /\ heartbeat \in Nat
    BY <1>2 DEF BeatsInOrder
  <2>2. QED
    BY <2>1 DEF Youngest
<1>4. CASE HB \notin subscribed
  <2>1. chan' = chan /\ chan[HB] = <<>> /\ heartbeat = beats
    BY <1>4 DEF PublishBeat, Publish, HB, BeatsInOrder
  <2>2. Youngest(chan'[HB], beats', Pending')
    BY <2>1 DEF Youngest
  <2>3. beats' <= heartbeat' + Len(chan'[HB]) + Pending'
    BY <1>1, <1>2, <1>3, <2>1
  <2>4. QED
    BY <1>1, <2>1, <2>2, <2>3 DEF BeatsInOrder
<1>5. CASE HB \in subscribed
  <2>1. chan' = [chan EXCEPT ![HB] = Append(chan[HB], beats)]
    BY <1>5 DEF PublishBeat, Publish, HB
  <2>2. chan' = [s \in Subjects |-> chan'[s]] /\ chan'[HB] = Append(chan[HB], beats)
    BY <2>1, UpdateSubjects DEF BeatsInOrder
  <2>3. Youngest(chan'[HB], beats', Pending')
    BY <1>1, <1>2, <1>3, <2>2, YoungestAppend
  <2>4. Len(chan'[HB]) = Len(chan[HB]) + 1
    BY <1>3, <2>2 DEF Youngest
  <2>5. beats' <= heartbeat' + Len(chan'[HB]) + Pending'
    BY <1>1, <1>2, <1>3, <2>4 DEF BeatsInOrder
  <2>6. QED
    BY <1>1, <1>5, <2>2, <2>3, <2>5 DEF BeatsInOrder
<1>6. QED
  BY <1>4, <1>5

LEMMA ReceiveBeatStep == ASSUME BeatsInOrder, ReceiveBeat PROVE BeatsInOrder'
<1>1. /\ chan[HB] # <<>> /\ heartbeat' = Head(chan[HB]) /\ beats' = beats /\ hpc' = hpc
      /\ chan' = [chan EXCEPT ![HB] = Tail(chan[HB])] /\ subscribed' = subscribed
  BY DEF ReceiveBeat, Receive, HB
<1>2. HB \in subscribed
  BY <1>1 DEF BeatsInOrder
<1>3. chan' = [s \in Subjects |-> chan'[s]] /\ chan'[HB] = Tail(chan[HB])
  BY <1>1, UpdateSubjects DEF BeatsInOrder
<1>4. Pending' = Pending /\ Pending \in Nat
  BY <1>1 DEF Pending
<1>5. /\ Youngest(Tail(chan[HB]), beats, Pending)
      /\ Head(chan[HB]) \in Nat
      /\ beats <= Head(chan[HB]) + Len(Tail(chan[HB])) + Pending
  BY <1>1, <1>4, YoungestTail DEF BeatsInOrder
<1>6. QED
  BY <1>1, <1>2, <1>3, <1>4, <1>5 DEF BeatsInOrder

----
\* The manager's outbox: a reload puts the five sections into it, a publish takes
\* the first one out.
LEMMA OutboxInit == Init => OutboxKnown
BY DEF Init, ConfigManagerInit, OutboxKnown

LEMMA OutboxNext == ASSUME OutboxKnown, [Next]_vars PROVE OutboxKnown'
<1>1. CASE ManagerTask
  <2>1. CASE Stat
    BY <2>1 DEF Stat, OutboxKnown
  <2>2. CASE Reload
    <3>1. Updates \in Seq(DOMAIN UpdateSubject) /\ Updates # <<>>
      BY DEF Updates, UpdateSubject
    <3>2. QED
      BY <2>2, <3>1 DEF Reload, OutboxKnown
  <2>3. CASE PublishUpdate
    <3>1. outbox' = Tail(outbox) /\ outbox # <<>> /\ outbox \in Seq(DOMAIN UpdateSubject)
      BY <2>3 DEF PublishUpdate, OutboxKnown
    <3>2. outbox' \in Seq(DOMAIN UpdateSubject)
      BY <3>1, HeadTailProperties
    <3>3. QED
      BY <2>3, <3>2 DEF PublishUpdate, OutboxKnown
  <2>4. CASE UpdateWaits
    BY <2>4 DEF UpdateWaits, cmVars, OutboxKnown
  <2>5. QED
    BY <1>1, <2>1, <2>2, <2>3, <2>4 DEF ManagerTask, Watch
<1>2. CASE UNCHANGED cmVars
  BY <1>2 DEF cmVars, OutboxKnown
<1>3. CASE Operator
  BY <1>3 DEF Operator, Edit, OutboxKnown
<1>4. QED
  BY <1>1, <1>2, <1>3
  DEF Next, vars, KernelTask, ConsumerTask, ServiceSubscribes, ServiceWaits,
     Apply, ClusterTask, Api

LEMMA BeatsInit == Init => BeatsInOrder
BY DEF Init, BusInit, ClusterInit, BeatsInOrder, Youngest, Pending, Subjects, HB

LEMMA BeatsNext == ASSUME BeatsInOrder, OutboxKnown, [Next]_vars PROVE BeatsInOrder'
<1>1. CASE KernelTask
  BY <1>1, WaitsMoveNothing, BusLeftAlone DEF KernelTask
<1>2. CASE ManagerTask
  <2>1. CASE PublishUpdate
    <3>1. /\ mpc = "publish"
          /\ Publish("manager", UpdateSubject[Head(outbox)], Section(Head(outbox), current))
      BY <2>1 DEF PublishUpdate
    <3>2. Head(outbox) \in DOMAIN UpdateSubject
      BY <3>1, HeadTailProperties DEF OutboxKnown
    <3>3. UpdateSubject[Head(outbox)] \in Subjects \ {HB}
      BY <3>2, UpdateSubjects
    <3>4. QED
      BY <1>2, <3>1, <3>3, OtherPublish DEF ManagerTask
  <2>2. CASE Stat \/ Reload \/ UpdateWaits
    BY <1>2, <2>2, WaitsMoveNothing, BusLeftAlone DEF ManagerTask, Stat, Reload, UpdateWaits
  <2>3. QED
    BY <1>2, <2>1, <2>2 DEF ManagerTask, Watch
<1>3. CASE Operator
  BY <1>3, WaitsMoveNothing, BusLeftAlone DEF Operator, Edit
<1>4. ASSUME NEW c \in Consumers, ConsumerTask(c) PROVE BeatsInOrder'
  <2>1. UpdateSubject[c] \in Subjects \ {HB}
    BY UpdateSubjects
  <2>2. CASE ServiceSubscribes(c, UpdateSubject[c])
    BY <2>1, <2>2, OtherSubscribe DEF ServiceSubscribes
  <2>3. CASE Apply(c)
    BY <2>1, <2>3, OtherReceive DEF Apply
  <2>4. CASE ServiceWaits(c, UpdateSubject[c])
    BY <2>4, WaitsMoveNothing, BusLeftAlone DEF ServiceWaits
  <2>5. QED
    BY <1>4, <2>2, <2>3, <2>4 DEF ConsumerTask
<1>5. CASE ClusterTask
  <2>1. CASE ClusterWaits
    BY <2>1, WaitsMoveNothing, BusLeftAlone DEF ClusterWaits
  <2>2. QED
    BY <1>5, <2>1, SubscribeHeartbeatStep, BeatStep, PublishBeatStep, ReceiveBeatStep
       DEF ClusterTask, ReceiveTask
<1>6. CASE Api
  <2>1. CASE LogRefusal
    BY <1>6, <2>1, UpdateSubjects, OtherPublish DEF Api, LogRefusal
  <2>2. CASE Request \/ RefusalWaits
    BY <1>6, <2>2, WaitsMoveNothing, BusLeftAlone
       DEF Api, Request, Act, Refuse, RefusalWaits
  <2>3. QED
    BY <1>6, <2>1, <2>2 DEF Api
<1>7. CASE UNCHANGED vars
  BY <1>7, WaitsMoveNothing, BusLeftAlone DEF vars
<1>8. QED
  BY <1>1, <1>2, <1>3, <1>4, <1>5, <1>6, <1>7 DEF Next

\* What GET /cluster/nodes shows of the own node lags behind the send task by no
\* more than what the two tasks of run have on its way, also before the receive
\* task has subscribed.
THEOREM LagBounded == Spec => []LagIsQueued
<1>1. BeatsInOrder => LagIsQueued
  <2> SUFFICES ASSUME BeatsInOrder PROVE LagIsQueued
    OBVIOUS
  <2>1. beats <= heartbeat + Len(chan[HB]) + Pending /\ Len(chan[HB]) \in Nat
        /\ beats \in Nat /\ heartbeat \in Nat /\ Pending \in Nat
    BY DEF BeatsInOrder, Youngest, Pending
  <2>2. beats - heartbeat <= Len(chan[HB]) + Pending
    BY <2>1
  <2>3. QED
    BY <2>2 DEF LagIsQueued, Pending, HB
<1>2. QED
  BY <1>1, BeatsInit, OutboxInit, BeatsNext, OutboxNext, PTL DEF Spec

----
\* Clients. A new profile brings its client along if one can be built of it.
LEMMA ClientsInit == Init => ClientsBuilt
<1> SUFFICES ASSUME Init PROVE ClientsBuilt
  OBVIOUS
<1>1. /\ applied = [c \in Consumers |-> applied[c]]
      /\ client = [c \in Clients |-> client[c]]
      /\ \A c \in Clients : client[c] = applied[c].profile
  BY DEF Init, Clients
<1>2. ~applied["execution"].live_trading_enabled => okx_client = "none"
  BY DEF Init
<1>3. QED
  BY <1>1, <1>2 DEF ClientsBuilt, ClientMatchesProfile

LEMMA ApplyBuilds == ASSUME ClientsBuilt, NEW c \in Consumers, Apply(c) PROVE ClientsBuilt'
<1> DEFINE cfg == Head(chan[UpdateSubject[c]])
<1>1. /\ applied' = [applied EXCEPT ![c] = cfg]
      /\ client' = IF c \in Clients THEN [client EXCEPT ![c] = Rebuilt(c, cfg.profile)] ELSE client
      /\ okx_client' = IF c = "execution" THEN RebuiltOkx(cfg, client'[c]) ELSE okx_client
  BY DEF Apply
<1> HIDE DEF cfg
<1>2. /\ applied' = [d \in Consumers |-> applied'[d]]
      /\ client' = [d \in Clients |-> client'[d]]
  BY <1>1 DEF ClientsBuilt
<1>3. ASSUME NEW d \in Clients, Buildable(applied'[d].profile)
      PROVE client'[d] = applied'[d].profile
  <2>1. d \in Consumers
    BY DEF Clients, Consumers
  <2>2. CASE d = c
    BY <1>1, <1>3, <2>1, <2>2 DEF ClientsBuilt, Rebuilt
  <2>3. CASE d # c
    <3>1. applied'[d] = applied[d] /\ client'[d] = client[d]
      BY <1>1, <2>1, <2>3 DEF ClientsBuilt
    <3>2. QED
      BY <1>3, <3>1 DEF ClientsBuilt, ClientMatchesProfile
  <2>4. QED
    BY <2>2, <2>3
<1>4. ASSUME ~applied'["execution"].live_trading_enabled PROVE okx_client' = "none"
  <2>1. CASE c = "execution"
    <3>1. applied'["execution"] = cfg
      BY <1>1, <2>1 DEF ClientsBuilt
    <3>2. RebuiltOkx(cfg, client'[c]) = "none"
      BY <1>4, <3>1 DEF RebuiltOkx
    <3>3. QED
      BY <1>1, <2>1, <3>2
  <2>2. CASE c # "execution"
    <3>1. applied'["execution"] = applied["execution"] /\ okx_client' = okx_client
      BY <1>1, <2>2 DEF ClientsBuilt, Consumers
    <3>2. QED
      BY <1>4, <3>1 DEF ClientsBuilt, ClientMatchesProfile
  <2>3. QED
    BY <2>1, <2>2
<1>5. QED
  BY <1>2, <1>3, <1>4 DEF ClientsBuilt, ClientMatchesProfile

LEMMA ClientsNext == ASSUME ClientsBuilt, [Next]_vars PROVE ClientsBuilt'
<1>1. CASE UNCHANGED consumerVars
  BY <1>1 DEF consumerVars, ClientsBuilt, ClientMatchesProfile
<1>2. ASSUME NEW c \in Consumers, ConsumerTask(c) PROVE ClientsBuilt'
  BY <1>1, <1>2, ApplyBuilds DEF ConsumerTask, ServiceSubscribes, ServiceWaits
<1>3. QED
  BY <1>1, <1>2 DEF Next, vars, KernelTask, ManagerTask, Operator, ClusterTask, Api

\* The tasks that take configuration updates keep the HTTP client in step with
\* the profile, whatever updates come in whatever order, and drop the OKX client
\* when trading is not live.
THEOREM ClientsFollow == Spec => []ClientMatchesProfile
<1>1. ClientsBuilt => ClientMatchesProfile
  BY DEF ClientsBuilt
<1>2. QED
  BY <1>1, ClientsInit, ClientsNext, PTL DEF Spec

----
\* The middleware. The user who is found is the first with the key.
LEMMA AuthenticateFirst ==
  ASSUME NEW key, Matches(key) # {}
  PROVE  /\ Authenticate(key) \in Matches(key)
         /\ \A j \in Matches(key) : Authenticate(key) <= j
<1> DEFINE M == Matches(key)
<1>1. M \subseteq Nat
  BY DEF Matches
<1>2. \E i \in M : \A j \in M : i <= j
  <2>1. PICK i \in M : \A j \in M : ~(<<j, i>> \in OpToRel(<, Nat))
    BY <1>1, NatLessThanWellFounded, WFMin
  <2>2. \A j \in M : ~(j < i)
    BY <1>1, <2>1 DEF OpToRel
  <2>3. QED
    BY <1>1, <2>2
<1>3. QED
  BY <1>2 DEF Authenticate

LEMMA AdmittedTrades ==
  ASSUME NEW key, NEW spelling \in Spellings, NEW path \in Routes.post,
         Admitted(key, path, spelling)
  PROVE  /\ Matches(key) # {}
         /\ spelling # "first" =>
              \E i \in Matches(key) :
                /\ Users[i].role \in {"Trader", "Admin"}
                /\ \A j \in 1..(i - 1) : Users[j].key # key
<1> DEFINE i == Authenticate(key)
<1>1. path # "/health"
  BY DEF Routes
<1>2. Matches(key) # {} /\ RequiredRole(path, spelling) \in Allows[Users[i].role]
  BY <1>1 DEF Admitted
<1>3. i \in Matches(key) /\ \A j \in Matches(key) : i <= j
  BY <1>2, AuthenticateFirst
<1>4. i \in 1..Len(Users)
  BY <1>3 DEF Matches
<1>5. Users[i].role \in {"ReadOnly", "Trader", "Admin"} /\ Len(Users) \in Nat
  <2>1. Users[i] \in [key : Keys \ {"none"}, role : {"ReadOnly", "Trader", "Admin"}]
    BY <1>4, UsersAssumption, ElementOfSeq
  <2>2. QED
    BY <2>1, UsersAssumption
<1>6. spelling # "first" => Users[i].role # "ReadOnly"
  BY <1>2 DEF Allows, RequiredRole
<1>7. ASSUME NEW j \in 1..(i - 1) PROVE Users[j].key # key
  <2>1. j \in 1..Len(Users) /\ ~(i <= j)
    BY <1>4, <1>5
  <2>2. j \notin Matches(key)
    BY <1>3, <2>1
  <2>3. QED
    BY <2>1, <2>2 DEF Matches
<1>8. QED
  BY <1>2, <1>3, <1>5, <1>6, <1>7

LEMMA ActedNext == ASSUME OnlyTradersAct, [Next]_vars PROVE OnlyTradersAct'
<1>1. CASE UNCHANGED acted
  BY <1>1 DEF OnlyTradersAct
<1>2. ASSUME NEW key \in Keys, NEW spelling \in Spellings, Act(key, spelling)
      PROVE  OnlyTradersAct'
  <2>1. PICK path \in Routes.post : Admitted(key, path, spelling)
    BY <1>2 DEF Act
  <2>2. acted' = acted \cup {[key |-> key, spelling |-> spelling]}
    BY <1>2 DEF Act
  <2>3. QED
    BY <2>1, <2>2, AdmittedTrades DEF OnlyTradersAct
<1>3. CASE Api
  BY <1>1, <1>2, <1>3 DEF Api, Request, Refuse, LogRefusal, RefusalWaits, apiVars
<1>4. QED
  BY <1>1, <1>3 DEF Next, vars, apiVars, KernelTask, ManagerTask, Operator, ClusterTask,
     ConsumerTask, ServiceSubscribes, ServiceWaits, Apply

\* Nobody changes the node without the key of a user; and unless the first
\* segment of the path is written with escapes, the first user with that key is
\* a trader or an admin, for any list of users, keys shared or not.
THEOREM TradersAct == Spec => []OnlyTradersAct
<1>1. Init => OnlyTradersAct
  BY DEF Init, ApiInit, OnlyTradersAct
<1>2. QED
  BY <1>1, ActedNext, PTL DEF Spec

----
\* Types, one part of the state at a time.
FilesOK ==
  /\ file \in Docs /\ mtime \in 1..(MaxEdits + 1) /\ last_modified \in 0..mtime
  /\ mpc \in {"tick", "load", "publish"}
  /\ mpc = "publish" <=> outbox # <<>>
  /\ untold \subseteq DOMAIN UpdateSubject

BuiltOK ==
  /\ applied = [c \in Consumers |-> applied[c]]
  /\ client = [c \in Clients |-> client[c]]
  /\ \A c \in Clients : Buildable(client[c]) \/ \A i \in DOMAIN services : services[i] # c

KernelOK == kernel_state = "Running" => started = Len(services)

LoggersOK == loggers \in 0..MaxLoggers

\* Nothing is queued for a subject without a subscriber.
QueuesOK ==
  /\ chan = [s \in Subjects |-> chan[s]]
  /\ \A s \in Subjects : s \notin subscribed => chan[s] = <<>>

LEMMA FilesNext == ASSUME FilesOK, OutboxKnown, [Next]_vars PROVE FilesOK'
<1>1. CASE UNCHANGED cmVars
  BY <1>1 DEF cmVars, FilesOK
<1>2. CASE Operator
  <2>1. mtime \in 1..MaxEdits /\ mtime' = mtime + 1 /\ file' \in Docs
        /\ UNCHANGED <<last_modified, mpc, outbox, untold>>
    BY <1>2, EditsAssumption DEF Operator, Edit, FilesOK
  <2>2. QED
    BY <2>1, EditsAssumption DEF FilesOK
<1>3. CASE ManagerTask
  <2>1. CASE Stat
    BY <2>1, EditsAssumption DEF Stat, FilesOK
  <2>2. CASE Reload
    <3>1. Updates # <<>>
      BY DEF Updates
    <3>2. UNCHANGED <<file, mtime, last_modified, untold>> /\ outbox = <<>>
      BY <2>2 DEF Reload, FilesOK
    <3>3. mpc' \in {"tick", "publish"} /\ (mpc' = "publish" <=> outbox' # <<>>)
      BY <2>2, <3>1, <3>2 DEF Reload
    <3>4. QED
      BY <3>2, <3>3 DEF FilesOK
  <2>3. CASE PublishUpdate
    <3>1. Head(outbox) \in DOMAIN UpdateSubject
      BY <2>3, HeadTailProperties DEF PublishUpdate, OutboxKnown
    <3>2. /\ UNCHANGED <<file, mtime, last_modified>>
          /\ mpc' = IF outbox' = <<>> THEN "tick" ELSE "publish"
          /\ untold' \subseteq untold \cup {Head(outbox)}
      BY <2>3 DEF PublishUpdate
    <3>3. QED
      BY <3>1, <3>2 DEF FilesOK
  <2>4. CASE UpdateWaits
    BY <1>1, <2>4 DEF UpdateWaits
  <2>5. QED
    BY <1>3, <2>1, <2>2, <2>3, <2>4 DEF ManagerTask, Watch
<1>4. QED
  BY <1>1, <1>2, <1>3
  DEF Next, vars, KernelTask, ConsumerTask, ServiceSubscribes, ServiceWaits,
     Apply, ClusterTask, Api

\* A profile no client can be built of replaces no client.
LEMMA BuiltNext == ASSUME BuiltOK, [Next]_vars PROVE BuiltOK'
<1>1. UNCHANGED services
  BY DEF Next, vars, kernelVars, KernelTask, StartAll, StartService, SetRunning,
     ManagerTask, Operator, ClusterTask, Api, ConsumerTask, ServiceSubscribes, ServiceWaits, Apply
<1>2. CASE UNCHANGED <<applied, client>>
  BY <1>1, <1>2 DEF BuiltOK
<1>3. ASSUME NEW c \in Consumers, Apply(c) PROVE BuiltOK'
  <2> DEFINE cfg == Head(chan[UpdateSubject[c]])
  <2>1. /\ applied' = [applied EXCEPT ![c] = cfg]
        /\ client' = IF c \in Clients THEN [client EXCEPT ![c] = Rebuilt(c, cfg.profile)] ELSE client
    BY <1>3 DEF Apply
  <2> HIDE DEF cfg
  <2>2. /\ applied' = [d \in Consumers |-> applied'[d]]
        /\ client' = [d \in Clients |-> client'[d]]
    BY <2>1 DEF BuiltOK
  <2>3. ASSUME NEW d \in Clients
        PROVE  Buildable(client'[d]) \/ \A i \in DOMAIN services : services[i] # d
    <3>1. client'[d] = client[d] \/ Buildable(client'[d])
      BY <2>1 DEF BuiltOK, Rebuilt
    <3>2. QED
      BY <3>1 DEF BuiltOK
  <2>4. QED
    BY <1>1, <2>2, <2>3 DEF BuiltOK
<1>4. QED
  BY <1>2, <1>3 DEF Next, vars, consumerVars, KernelTask, ManagerTask, Operator,
     ClusterTask, Api, ConsumerTask, ServiceSubscribes, ServiceWaits

\* start_all says Running last, and nothing is started afterwards.
LEMMA KernelNext == ASSUME KernelOK, [Next]_vars PROVE KernelOK'
<1>1. CASE UNCHANGED kernelVars
  BY <1>1 DEF kernelVars, KernelOK
<1>2. CASE StartService
  <2>1. kernel_state # "Running" \/ ~(started < Len(services)) \/ started # Len(services)
    OBVIOUS
  <2>2. started < Len(services) => started # Len(services)
    OBVIOUS
  <2>3. QED
    BY <1>2, <2>2 DEF StartService, KernelOK
<1>3. CASE SetRunning
  BY <1>3 DEF SetRunning, KernelOK
<1>4. QED
  BY <1>1, <1>2, <1>3 DEF Next, vars, KernelTask, StartAll, ManagerTask, Operator,
     ClusterTask, Api, ConsumerTask, ServiceSubscribes, ServiceWaits, Apply

LEMMA LoggersNext == ASSUME LoggersOK, [Next]_vars PROVE LoggersOK'
<1>1. CASE UNCHANGED loggers
  BY <1>1 DEF LoggersOK
<1>2. CASE LogRefusal
  BY <1>2, LoggersAssumption DEF LogRefusal, LoggersOK
<1>3. ASSUME NEW key, NEW spelling, Refuse(key, spelling) PROVE LoggersOK'
  BY <1>3, LoggersAssumption DEF Refuse, LoggersOK
<1>4. QED
  BY <1>1, <1>2, <1>3 DEF Next, vars, apiVars, KernelTask, ManagerTask, Operator,
     ClusterTask, Api, Request, Act, RefusalWaits, ConsumerTask, ServiceSubscribes, ServiceWaits, Apply

\* A message goes to a subscriber or nowhere, and nobody unsubscribes.
LEMMA QueuesKept ==
  ASSUME QueuesOK,
         \/ UNCHANGED <<chan, subscribed>>
         \/ \E s \in Subjects : (\E task, m : Publish(task, s, m)) \/ Receive(s) \/ Subscribe(s)
  PROVE  QueuesOK'
<1>1. CASE UNCHANGED <<chan, subscribed>>
  BY <1>1 DEF QueuesOK
<1>2. ASSUME NEW s \in Subjects, (\E task, m : Publish(task, s, m)) \/ Receive(s) \/ Subscribe(s)
      PROVE  QueuesOK'
  BY <1>2 DEF QueuesOK, Publish, Receive, Subscribe
<1>3. QED
  BY <1>1, <1>2

LEMMA QueuesNext == ASSUME QueuesOK, OutboxKnown, [Next]_vars PROVE QueuesOK'
<1>1. CASE KernelTask \/ Operator \/ UNCHANGED vars
  BY <1>1, WaitsMoveNothing, QueuesKept DEF KernelTask, Operator, Edit, vars
<1>2. CASE ManagerTask
  <2>1. CASE PublishUpdate
    <3>1. /\ mpc = "publish"
          /\ Publish("manager", UpdateSubject[Head(outbox)], Section(Head(outbox), current))
      BY <2>1 DEF PublishUpdate
    <3>2. Head(outbox) \in DOMAIN UpdateSubject
      BY <3>1, HeadTailProperties DEF OutboxKnown
    <3>3. UpdateSubject[Head(outbox)] \in Subjects
      BY <3>2, UpdateSubjects
    <3>4. QED
      BY <3>1, <3>3, QueuesKept
  <2>2. CASE Stat \/ Reload \/ UpdateWaits
    BY <2>2, WaitsMoveNothing, QueuesKept DEF Stat, Reload, UpdateWaits
  <2>3. QED
    BY <1>2, <2>1, <2>2 DEF ManagerTask, Watch
<1>3. ASSUME NEW c \in Consumers, ConsumerTask(c) PROVE QueuesOK'
  <2>1. UpdateSubject[c] \in Subjects
    BY UpdateSubjects
  <2>2. QED
    BY <1>3, <2>1, WaitsMoveNothing, QueuesKept
    DEF ConsumerTask, ServiceSubscribes, ServiceWaits, Apply
<1>4. CASE ClusterTask
  BY <1>4, UpdateSubjects, WaitsMoveNothing, QueuesKept
  DEF ClusterTask, ReceiveTask, Beat, PublishBeat, ClusterWaits, ReceiveBeat,
      SubscribeHeartbeat, HB
<1>5. CASE Api
  BY <1>5, UpdateSubjects, WaitsMoveNothing, QueuesKept
  DEF Api, Request, Act, Refuse, LogRefusal, RefusalWaits
<1>6. QED
  BY <1>1, <1>2, <1>3, <1>4, <1>5 DEF Next

\* main ends before it has a node without the clients its services need.
LEMMA BuiltInit == Init => BuiltOK
<1> SUFFICES ASSUME Init PROVE BuiltOK
  OBVIOUS
<1>1. /\ applied = [c \in Consumers |-> Wired(c, current)]
      /\ client = [c \in Clients |-> applied[c].profile]
      /\ services = Registered(current) /\ Startable(current)
  BY DEF Init, KernelInit
<1>2. client["execution"] = current.exec_profile /\ client["market"] = current.node_profile
  BY <1>1 DEF Wired, Clients, Consumers
<1>3. current.kernel_mode # "Live" => \A i \in DOMAIN services : services[i] # "market"
  BY <1>1 DEF Registered
<1>4. \A c \in Clients : Buildable(client[c]) \/ \A i \in DOMAIN services : services[i] # c
  BY <1>1, <1>2, <1>3 DEF Startable, Clients
<1>5. QED
  BY <1>1, <1>4 DEF BuiltOK

\* The composition keeps its types, for any documents, overlay and environment,
\* any users and any bounds.
THEOREM Types == Spec => []TypeOK
<1>1. Init => FilesOK /\ KernelOK /\ LoggersOK /\ QueuesOK
  <2> SUFFICES ASSUME Init PROVE FilesOK /\ KernelOK /\ LoggersOK /\ QueuesOK
    OBVIOUS
  <2>1. FilesOK
    BY EditsAssumption DEF Init, ConfigManagerInit, FilesOK
  <2>2. KernelOK /\ LoggersOK /\ QueuesOK
    BY LoggersAssumption
    DEF Init, KernelInit, ApiInit, BusInit, KernelOK, LoggersOK, QueuesOK
  <2>3. QED
    BY <2>1, <2>2
<1>2. FilesOK /\ BuiltOK /\ KernelOK /\ LoggersOK /\ QueuesOK => TypeOK
  <2> SUFFICES ASSUME FilesOK, BuiltOK, KernelOK, LoggersOK, QueuesOK PROVE TypeOK
    OBVIOUS
  <2>1. DOMAIN applied = Consumers
    BY DEF BuiltOK
  <2>2. loggers <= MaxLoggers
    BY LoggersAssumption DEF LoggersOK
  <2>3. QED
    BY <2>1, <2>2 DEF FilesOK, BuiltOK, KernelOK, QueuesOK, TypeOK, Healthy
<1>3. QED
  BY <1>1, <1>2, BuiltInit, OutboxInit, OutboxNext, FilesNext, BuiltNext, KernelNext,
     LoggersNext, QueuesNext, PTL DEF Spec
====
