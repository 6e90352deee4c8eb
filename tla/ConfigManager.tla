---- MODULE ConfigManager ----
(***************************************************************************)
(* The configuration manager (w2uos-kernel/src/config_manager.rs): a task   *)
(* that looks at the modification time of the base file every five seconds, *)
(* loads a changed file and publishes its sections one after the other.     *)
(* Only the base file is watched: the overlay and the environment are       *)
(* constants here, read again by every load.                                *)
(***************************************************************************)
EXTENDS NodeConfig, BusChannels

CONSTANTS
  Docs,        \* the documents an operator may put into the file
  MaxEdits     \* bound on the edits

ASSUME EditsAssumption == MaxEdits \in Nat

VARIABLES
  file,            \* what the configuration file holds
  mtime,           \* its modification time
  last_modified,   \* the time the manager saw last; 0 is None
  current,         \* the configuration it has loaded last, the seed before
  mpc,             \* where the watch task is: "tick", "load" or "publish"
  outbox,          \* the sections it has still to publish
  untold           \* history: the consumers whose last update had no subscriber

cmVars == <<file, mtime, last_modified, current, mpc, outbox, untold>>

\* publish_updates, in its order. Nobody subscribes to the logging section.
Updates == <<"risk", "execution", "strategy", "market", "logging">>

UpdateSubject ==
  [risk |-> "control.config.update.risk", execution |-> "control.config.update.execution",
   strategy |-> "control.config.update.strategy", market |-> "control.config.update.market",
   logging |-> "control.config.update.logging"]

ConfigManagerInit ==
  /\ file \in Docs
  /\ mtime = 1
  /\ last_modified = 0
  /\ current = Seed(file)
  /\ mpc = "tick"
  /\ outbox = <<>>
  /\ untold = DOMAIN UpdateSubject

\* Somebody writes the file; a file that is not there is one without keys.
Edit ==
  /\ mtime <= MaxEdits
  /\ mtime' = mtime + 1
  /\ file' \in Docs \ {file}
  /\ UNCHANGED <<last_modified, current, mpc, outbox, untold, bus>>

\* watch, one tick: the time is noted before the load, which may fail. The
\* first tick comes at once and finds no time noted.
Stat ==
  /\ mpc = "tick" /\ mtime # last_modified
  /\ last_modified' = mtime
  /\ mpc' = "load"
  /\ UNCHANGED <<file, mtime, current, outbox, untold, bus>>

\* reload_now until its first publish. The new configuration is stored before
\* its log level is tried, and a bad level ends the reload there.
Reload ==
  /\ mpc = "load"
  /\ current' = IF Loadable(file) THEN Load(file) ELSE current
  /\ IF Loadable(file) /\ LevelValid(Load(file))
     THEN mpc' = "publish" /\ outbox' = Updates
     ELSE mpc' = "tick" /\ UNCHANGED outbox
  /\ UNCHANGED <<file, mtime, last_modified, untold, bus>>

\* Faulty: the modification time is read again once everything is published.
PublishAndRestat ==
  /\ mpc = "publish"
  /\ LET c == Head(outbox) IN
     /\ Publish("manager", UpdateSubject[c], Section(c, current))
     /\ untold' = IF UpdateSubject[c] \in subscribed THEN untold \ {c} ELSE untold \cup {c}
  /\ outbox' = Tail(outbox)
  /\ mpc' = IF outbox' = <<>> THEN "tick" ELSE "publish"
  /\ last_modified' = IF outbox' = <<>> THEN mtime ELSE last_modified
  /\ UNCHANGED <<file, mtime, current>>

\* One publish of publish_updates; it waits for a consumer whose queue is full.
PublishUpdate ==
  /\ mpc = "publish"
  /\ LET c == Head(outbox) IN
     /\ Publish("manager", UpdateSubject[c], Section(c, current))
     /\ untold' = IF UpdateSubject[c] \in subscribed THEN untold \ {c} ELSE untold \cup {c}
  /\ outbox' = Tail(outbox)
  /\ mpc' = IF outbox' = <<>> THEN "tick" ELSE "publish"
  /\ UNCHANGED <<file, mtime, last_modified, current>>

UpdateWaits ==
  /\ mpc = "publish" /\ AwaitRoom("manager", UpdateSubject[Head(outbox)])
  /\ UNCHANGED cmVars

Watch == Stat \/ Reload \/ PublishUpdate \/ UpdateWaits

----
\* Once the file is left alone, the manager holds what it says, however the
\* edits fell between its stat, its load and its publishes. (A file that does
\* not load leaves the previous configuration in place.) The manager looks at
\* the file between two reloads, so a subscription that hangs keeps it away.
ReloadConverges ==
  SubscriptionsReturn => <>[](Loadable(file) => current = Load(file))
====
