---- MODULE Cluster ----
(***************************************************************************)
(* The cluster service (w2uos-kernel/src/cluster.rs) of one node. Its send  *)
(* task stores a heartbeat in the map and then publishes it; its receive    *)
(* task stores what it takes from the bus. Both write the node's own entry. *)
(* The bus is local to the process, so no other node's heartbeat arrives.   *)
(* A heartbeat is its number; 0 is the absent entry.                        *)
(***************************************************************************)
EXTENDS BusChannels

CONSTANT MaxBeats   \* bound on the heartbeats sent

ASSUME BeatsAssumption == MaxBeats \in Nat

VARIABLES
  beats,        \* heartbeats made by the send task
  hpc,          \* where the send task is
  heartbeat     \* the node's entry in the map

clusterVars == <<beats, hpc, heartbeat>>

ClusterInit ==
  /\ beats = 0
  /\ hpc = "tick"
  /\ heartbeat = 0

SubscribeHeartbeat ==
  /\ "cluster.heartbeat" \notin subscribed
  /\ Subscribe("cluster.heartbeat")
  /\ UNCHANGED clusterVars

\* Faulty: the send task leaves the map to the receive task.
BeatUnstored ==
  /\ hpc = "tick" /\ beats < MaxBeats
  /\ hpc' = "publish"
  /\ beats' = beats + 1
  /\ UNCHANGED <<bus, heartbeat>>

\* The ticker: a new heartbeat goes into the map.
Beat ==
  /\ hpc = "tick" /\ beats < MaxBeats
  /\ hpc' = "publish"
  /\ beats' = beats + 1
  /\ heartbeat' = beats + 1
  /\ UNCHANGED bus

PublishBeat ==
  /\ hpc = "publish" /\ hpc' = "tick"
  /\ Publish("cluster", "cluster.heartbeat", beats)
  /\ UNCHANGED <<beats, heartbeat>>

\* The send task waits for room, or the receive task for the lock.
ClusterWaits ==
  /\ \/ hpc = "publish" /\ AwaitRoom("cluster", "cluster.heartbeat")
     \/ "cluster.heartbeat" \notin subscribed /\ Ask("cluster.heartbeat")
  /\ UNCHANGED clusterVars

\* The receive task stores what arrives, also over a newer entry.
ReceiveBeat ==
  /\ Receive("cluster.heartbeat")
  /\ heartbeat' = Head(chan["cluster.heartbeat"])
  /\ UNCHANGED <<beats, hpc>>

ReceiveTask == SubscribeHeartbeat \/ ReceiveBeat

\* GET /cluster/nodes may show an older heartbeat than one it has shown before,
\* but it lags behind the send task by no more than what is still on its way.
LagIsQueued ==
  beats - heartbeat <= Len(chan["cluster.heartbeat"]) + IF hpc = "publish" THEN 1 ELSE 0
====
