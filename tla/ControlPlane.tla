---- MODULE ControlPlane ----
(***************************************************************************)
(* The control plane of a node: the kernel starts the services in order,    *)
(* the configuration manager publishes what it loads, and the services      *)
(* apply it, all over one bus, beside the cluster service and the API.      *)
(* What the services do with their configuration is in their own modules;   *)
(* the log service, which only its own tasks wait for, is in LogService.     *)
(***************************************************************************)
EXTENDS ConfigManager, Cluster, ApiServer, Kernel, FiniteSets

CONSTANT MaxInputs   \* bound on edits, requests and heartbeats together

Consumers == {"risk", "execution", "strategy", "market"}
Clients == {"execution", "market"}   \* the ones that own an HTTP client

VARIABLES
  applied,      \* the configuration each consumer holds
  client,       \* the profile its HTTP client and its traffic shaper are made of
  okx_client    \* the profile the OKX client is made of, "none" without one

consumerVars == <<applied, client, okx_client>>
vars == <<bus, cmVars, clusterVars, apiVars, kernelVars, consumerVars>>

\* main: ends with an error when a client cannot be built, and has no market
\* data service outside Live mode (its configuration is still put together).
Startable(cfg) ==
  /\ Buildable(cfg.exec_profile)
  /\ cfg.kernel_mode = "Live" => Buildable(cfg.node_profile)

Init ==
  /\ BusInit({})
  /\ ConfigManagerInit
  /\ Startable(current)
  /\ KernelInit(Registered(current))
  /\ ClusterInit
  /\ ApiInit
  /\ applied = [c \in Consumers |-> Wired(c, current)]
  /\ client = [c \in Clients |-> applied[c].profile]
  /\ okx_client = IF applied["execution"].live_trading_enabled /\ applied["execution"].okx
                  THEN client["execution"] ELSE "none"

----
\* A service's task subscribes once the kernel has spawned it.
ServiceSubscribes(service, subject) ==
  /\ service \in RunningServices
  /\ subject \notin subscribed
  /\ Subscribe(subject)
  /\ UNCHANGED <<cmVars, clusterVars, apiVars, kernelVars, consumerVars>>

ServiceWaits(service, subject) ==
  /\ service \in RunningServices
  /\ subject \notin subscribed
  /\ Ask(subject)
  /\ UNCHANGED <<cmVars, clusterVars, apiVars, kernelVars, consumerVars>>

\* Faulty: a consumer that has a client keeps it.
RebuiltNever(c, profile) == client[c]

\* build_client_and_shaper: a profile no client can be built of is stored
\* all the same, beside the old client.
Rebuilt(c, profile) == IF Buildable(profile) THEN profile ELSE client[c]

\* The execution service's OKX client. Without the credentials, which only main
\* fills in, the old one stays while trading is live.
RebuiltOkx(cfg, profile) ==
  CASE ~cfg.live_trading_enabled -> "none"
    [] cfg.live_trading_enabled /\ cfg.okx -> profile
    [] OTHER -> okx_client

\* The consumer's task takes an update.
Apply(c) ==
  LET s == UpdateSubject[c]
      cfg == Head(chan[s])
  IN /\ Receive(s)
     /\ applied' = [applied EXCEPT ![c] = cfg]
     /\ client' = IF c \in Clients THEN [client EXCEPT ![c] = Rebuilt(c, cfg.profile)] ELSE client
     /\ okx_client' = IF c = "execution" THEN RebuiltOkx(cfg, client'[c]) ELSE okx_client
     /\ UNCHANGED <<cmVars, clusterVars, apiVars, kernelVars>>

ConsumerTask(c) ==
  ServiceSubscribes(c, UpdateSubject[c]) \/ ServiceWaits(c, UpdateSubject[c]) \/ Apply(c)
KernelTask == StartAll /\ UNCHANGED <<bus, cmVars, clusterVars, apiVars, consumerVars>>

\* Bound: the inputs so far, all but a heartbeat counting for two.
Inputs == 2 * ((mtime - 1) + Cardinality(acted) + loggers) + beats

\* A step of the configuration manager's task, of the cluster's, of the API.
ManagerTask ==
  /\ "config" \in RunningServices
  /\ Watch
  /\ UNCHANGED <<clusterVars, apiVars, kernelVars, consumerVars>>
Operator ==
  /\ Edit
  /\ UNCHANGED <<clusterVars, apiVars, kernelVars, consumerVars>>
  /\ Inputs' <= MaxInputs
ClusterTask ==
  /\ "cluster" \in RunningServices
  /\ Beat \/ PublishBeat \/ ClusterWaits \/ ReceiveTask
  /\ UNCHANGED <<cmVars, apiVars, kernelVars, consumerVars>>
  /\ Inputs' <= MaxInputs
Api ==
  /\ (Inputs < MaxInputs /\ Request) \/ LogRefusal \/ RefusalWaits
  /\ UNCHANGED <<cmVars, clusterVars, kernelVars, consumerVars>>
  /\ Inputs' <= MaxInputs

Next ==
  \/ KernelTask \/ ManagerTask \/ Operator
  \/ \E c \in Consumers : ConsumerTask(c)
  \/ ClusterTask \/ Api

Spec == Init /\ [][Next]_vars

\* The runtime polls every task that can go on. Nobody has to edit the file,
\* call the API or wait for the next heartbeat, and the tasks of the cluster
\* service and of the API may stop anywhere, also while they hold the lock.
Fairness ==
  /\ WF_vars(KernelTask) /\ WF_vars(ManagerTask)
  /\ \A c \in Consumers : WF_vars(ConsumerTask(c))

FairSpec == Spec /\ Fairness

----
\* One type invariant for the composition. A service that is registered has a
\* client; outside Live mode there is no market data service to have one.
TypeOK ==
  /\ file \in Docs /\ mtime \in 1..(MaxEdits + 1) /\ last_modified \in 0..mtime
  /\ mpc \in {"tick", "load", "publish"}
  /\ mpc = "publish" <=> outbox # <<>>
  /\ untold \subseteq DOMAIN UpdateSubject
  /\ DOMAIN applied = Consumers
  /\ \A c \in Clients : Buildable(client[c]) \/ \A i \in DOMAIN services : services[i] # c
  /\ kernel_state = "Running" => Healthy
  /\ loggers <= MaxLoggers
  /\ \A s \in Subjects : s \notin subscribed => chan[s] = <<>>

\* Once the file is left alone, every consumer whose last update did not find it
\* unsubscribed holds its section of the configuration the manager holds, however
\* long it took to apply the earlier ones and as long as no subscription hangs.
\* A level the filter refuses ends the reload before the first publish, so this
\* cannot be said of it.
ServicesFollowCurrent ==
  SubscriptionsReturn =>
    <>[](LevelValid(current) =>
           \A c \in Consumers : c \in untold \/ applied[c] = Section(c, current))

\* The client in use is made of the profile the service shows, unless no client
\* can be made of it; and there is no OKX client once trading is not live.
ClientMatchesProfile ==
  /\ \A c \in Clients : Buildable(applied[c].profile) => client[c] = applied[c].profile
  /\ ~applied["execution"].live_trading_enabled => okx_client = "none"

\* "Strict separation between simulation and live execution" (CONTRIBUTING.md):
\* a node that main has put into live mode does not slip into simulation while
\* its file still asks for live trading and has the credentials. It does: the
\* first tick publishes the execution section as it is in the file, without the
\* mode that main has filled in.
LiveStaysLive ==
  [][applied["execution"].mode = "LiveOkx" /\ WiredLive(Load(file))
       => applied'["execution"].mode = "LiveOkx"]_vars
====
