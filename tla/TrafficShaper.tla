---- MODULE TrafficShaper ----
(***************************************************************************)
(* The traffic shaper (w2uos-net/src/traffic.rs): calls with one tag share  *)
(* a semaphore that is made on first use and kept in a map behind a mutex.  *)
(* acquire_permit holds the mutex while it waits for the permit, so the     *)
(* mutex is what the calls queue for. Each caller makes one call. Jitter is *)
(* the time a caller takes to begin, and building another client for a     *)
(* request (select_client) succeeds where the shaper's own was built.       *)
(***************************************************************************)
EXTENDS Naturals, FiniteSets

CONSTANTS
  Callers,
  Limits     \* values of max_parallel_requests_per_target: an Option, {} or {n}

ASSUME LimitsAssumption == \A l \in Limits : l \subseteq Nat \ {0} /\ \A m, n \in l : m = n

VARIABLES
  limit,      \* the limit of the shaper's profile
  tpc,        \* where each caller is in execute
  map_lock,   \* the callers that hold the mutex of semaphores: none or one
  permits     \* permits left in the semaphore

shaperVars == <<limit, tpc, map_lock, permits>>

ShaperInit ==
  /\ limit \in Limits
  /\ tpc = [c \in Callers |-> "idle"]
  /\ map_lock = {}
  /\ permits = IF limit = {} THEN 0 ELSE CHOOSE n \in limit : TRUE

\* Without a limit there is no semaphore.
Begin(c) ==
  /\ tpc[c] = "idle"
  /\ tpc' = [tpc EXCEPT ![c] = IF limit = {} THEN "request" ELSE "lock"]
  /\ UNCHANGED <<limit, map_lock, permits>>

LockMap(c) ==
  /\ tpc[c] = "lock" /\ map_lock = {}
  /\ map_lock' = {c}
  /\ tpc' = [tpc EXCEPT ![c] = "permit"]
  /\ UNCHANGED <<limit, permits>>

\* Faulty: a permit that is not taken out of the semaphore.
LookAtPermits(c) ==
  /\ tpc[c] = "permit" /\ permits > 0
  /\ map_lock' = {}
  /\ tpc' = [tpc EXCEPT ![c] = "request"]
  /\ UNCHANGED <<limit, permits>>

\* acquire_owned; the guard of the map is dropped when acquire_permit returns.
AcquirePermit(c) ==
  /\ tpc[c] = "permit" /\ permits > 0
  /\ permits' = permits - 1
  /\ map_lock' = {}
  /\ tpc' = [tpc EXCEPT ![c] = "request"]
  /\ UNCHANGED limit

\* Faulty: the permit goes back through the map.
ReleaseThroughMap(c, next) ==
  /\ tpc[c] = "request" /\ map_lock = {}
  /\ permits' = IF limit = {} THEN permits ELSE permits + 1
  /\ tpc' = [tpc EXCEPT ![c] = next]
  /\ UNCHANGED <<limit, map_lock>>

\* The request is over, with an answer or an error; drop(permit) needs no lock.
Release(c, next) ==
  /\ tpc[c] = "request"
  /\ permits' = IF limit = {} THEN permits ELSE permits + 1
  /\ tpc' = [tpc EXCEPT ![c] = next]
  /\ UNCHANGED <<limit, map_lock>>

Shape(c) == Begin(c) \/ LockMap(c) \/ AcquirePermit(c)

----
\* No more requests are on their way than the profile allows.
LimitRespected ==
  \A n \in limit : Cardinality({c \in Callers : tpc[c] = "request"}) <= n
====
