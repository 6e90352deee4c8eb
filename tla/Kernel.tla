---- MODULE Kernel ----
(***************************************************************************)
(* The kernel's life cycle (w2uos-kernel/src/lib.rs): start_all starts the  *)
(* registered services in order. A service's start only spawns its task, so *)
(* "Running" says that the task exists, not that it has subscribed.         *)
(***************************************************************************)
EXTENDS Naturals, Sequences

VARIABLES
  services,       \* the registered services, in the order main registers them
  started,        \* how many of them start_all has started
  kernel_state

kernelVars == <<services, started, kernel_state>>

KernelInit(registered) ==
  /\ services = registered
  /\ started = 0
  /\ kernel_state = "Initialized"

StartService ==
  /\ started < Len(services)
  /\ started' = started + 1
  /\ UNCHANGED <<services, kernel_state>>

\* Faulty: the state is set before the loop.
SetRunningFirst ==
  /\ kernel_state = "Initialized"
  /\ kernel_state' = "Running"
  /\ UNCHANGED <<services, started>>

SetRunning ==
  /\ started = Len(services) /\ kernel_state = "Initialized"
  /\ kernel_state' = "Running"
  /\ UNCHANGED <<services, started>>

StartAll == StartService \/ SetRunning

\* The services that service_states shows as Running, the others are Registered.
RunningServices == {services[i] : i \in 1..started}

\* health_check: the answer of GET /health.
Healthy == kernel_state = "Running" /\ started = Len(services)
====
