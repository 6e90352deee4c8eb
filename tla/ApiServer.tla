---- MODULE ApiServer ----
(***************************************************************************)
(* The REST API (w2uos-api/src/server.rs, auth.rs, context.rs): the         *)
(* middleware decides who may call what, a refusal is logged by a task of   *)
(* its own, and two of the routes change the state of the node.             *)
(***************************************************************************)
EXTENDS BusChannels

CONSTANTS
  Users,        \* the sequence of users: [key, role]
  Keys,         \* the keys requests come with; "none" is a missing header
  MaxLoggers    \* bound on the refusals being logged at a time

VARIABLES
  acted,      \* history: the requests that changed the node's state
  loggers     \* tasks of record_auth_failure that have not published yet

apiVars == <<acted, loggers>>

\* The routes of build_app, with their methods.
Routes ==
  [get  |-> {"/status", "/health", "/positions", "/logs", "/net/profile", "/cluster/nodes",
             "/risk/status", "/metrics/latency/summary", "/metrics/latency/histogram",
             "/backtest/status", "/ws/stream"},
   post |-> {"/risk/reset_circuit", "/backtest/start"}]

\* Role::allows: the roles that may do what the role asked for may do.
Allows ==
  [ReadOnly |-> {"ReadOnly"}, Trader |-> {"ReadOnly", "Trader"},
   Admin |-> {"ReadOnly", "Trader", "Admin"}]

ASSUME UsersAssumption ==
  Users \in Seq([key : Keys \ {"none"}, role : {"ReadOnly", "Trader", "Admin"}])

\* How a request may write the path of its route: as it is, or with escapes in
\* the last segment or in the first. The router undoes the escapes, so all three
\* reach the route; the middleware compares the path as it is written.
Spellings == {"plain", "last", "first"}

\* Faulty: the rule for POST below /risk/ and /backtest is missing.
RequiredRoleByNameOnly(path, spelling) ==
  IF path \in Routes.post /\ spelling = "plain" THEN "Trader" ELSE "ReadOnly"

\* required_role_for_path: no route is below /config or /control/. The two POST
\* routes are named in it, and a written path that still has "/risk/" or
\* "/backtest" in it is one of a Trader's when it is posted.
RequiredRole(path, spelling) ==
  IF path \in Routes.post /\ spelling # "first" THEN "Trader" ELSE "ReadOnly"

ASSUME LoggersAssumption == MaxLoggers \in Nat

\* authenticate: the first user with the key, if there is one.
Matches(key) == {i \in 1..Len(Users) : Users[i].key = key}
Authenticate(key) == CHOOSE i \in Matches(key) : \A j \in Matches(key) : i <= j

ApiInit ==
  /\ acted = {}
  /\ loggers = 0

\* The wrap_fn middleware lets the request through.
Admitted(key, path, spelling) ==
  \/ path = "/health" /\ spelling = "plain"
  \/ /\ Matches(key) # {}
     /\ RequiredRole(path, spelling) \in Allows[Users[Authenticate(key)].role]

\* The handlers of the POST routes call reset_circuit (module RiskSupervisor) and
\* start_backtest (module Backtest). Those of the GET routes copy state into the
\* answer, and /ws/stream starts a session (modules TradingNode, DataPlane).
Act(key, spelling) ==
  /\ \E path \in Routes.post : Admitted(key, path, spelling)
  /\ acted' = acted \cup {[key |-> key, spelling |-> spelling]}
  /\ UNCHANGED <<loggers, bus>>

\* 401 or 403: record_auth_failure spawns a task that publishes the event.
Refuse(key, spelling) ==
  /\ \E path \in Routes.get \cup Routes.post : ~Admitted(key, path, spelling)
  /\ loggers < MaxLoggers
  /\ loggers' = loggers + 1
  /\ UNCHANGED <<acted, bus>>

\* Of the tasks that log refusals, one at a time may be waiting in the lock.
LogRefusal ==
  /\ loggers > 0
  /\ Publish("refusal", "log.event", "Warn")
  /\ loggers' = loggers - 1
  /\ UNCHANGED acted

RefusalWaits == loggers > 0 /\ AwaitRoom("refusal", "log.event") /\ UNCHANGED apiVars

Request ==
  \E key \in Keys, spelling \in Spellings : Act(key, spelling) \/ Refuse(key, spelling)

----
\* Nobody changes the node's state without a user's key, and whoever writes the
\* path as the route has it, or escapes its last segment only, needs the key of
\* a trader or an admin, whatever other users share it: the first one's role
\* decides. Of a path whose first segment is escaped the code asks no more than
\* a user's key, although the route is the same.
OnlyTradersAct ==
  \A request \in acted :
    /\ Matches(request.key) # {}
    /\ request.spelling # "first" =>
         \E i \in Matches(request.key) :
           /\ Users[i].role \in {"Trader", "Admin"}
           /\ \A j \in 1..(i - 1) : Users[j].key # request.key
====
