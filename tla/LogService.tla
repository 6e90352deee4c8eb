---- MODULE LogService ----
(***************************************************************************)
(* The log service (w2uos-log/src/service.rs, sink.rs): one task that joins *)
(* the three stages of a trace into a latency record and hands every event, *)
(* record and trade to a composite sink: the file, then the database.       *)
(* What an event says is left out but its trace and its stage; recent_events *)
(* and the windows of 1000 events and 2000 records are left out with it.    *)
(* An item is a trace and what it is: the stage of an event, or "trade", or *)
(* "latency" for the record.                                                *)
(***************************************************************************)
EXTENDS BusChannels, SequencesExt

CONSTANTS
  Traces,        \* trace ids
  MaxFailures    \* bound on the items a sink fails to take

ASSUME FailuresAssumption == MaxFailures \in Nat

VARIABLES
  latency_state,    \* the <<trace, stage>> pairs of the map's entries
  latency_records,  \* trace -> how many records it has
  stored,           \* sink -> the items it has taken
  failed,           \* history: <<sink, item>> for each write a sink has refused
  seen              \* history: the events and trades that have come in

logVars == <<latency_state, latency_records, stored, failed, seen>>

Stages == {"tick", "strategy_decision", "order_result"}
Sinks == <<"file", "sql">>

LogInit ==
  /\ latency_state = {}
  /\ latency_records = [t \in Traces |-> 0]
  /\ stored = [s \in ToSet(Sinks) |-> {}]
  /\ failed = {}
  /\ seen = {}

\* CompositeLogSink: an item goes to one sink after the other, and no further
\* than the first that fails; taken[item] sinks have it.
Persist(items, taken) ==
  /\ stored' = [s \in ToSet(Sinks) |->
                 stored[s] \cup {x \in items : \E i \in 1..taken[x] : Sinks[i] = s}]
  /\ failed' = failed \cup
       {<<Sinks[taken[x] + 1], x>> : x \in {y \in items : taken[y] < Len(Sinks)}}
  /\ Cardinality(failed') <= MaxFailures

\* Faulty: the handler ends with the first write that fails.
WriteUntilFailure(records, item) ==
  \E taken \in [records \cup {item} -> 0..Len(Sinks)] :
    Persist(IF \E r \in records : taken[r] < Len(Sinks) THEN records ELSE records \cup {item},
            taken)

\* A handler's writes, each with its own outcome: the record if there is one,
\* and what has come in. A failure is only logged.
Write(records, item) ==
  \E taken \in [records \cup {item} -> 0..Len(Sinks)] : Persist(records \cup {item}, taken)

\* Faulty: the entry of a complete trace stays in the map.
KeptState(state, t) == state

\* The entry of a complete trace is removed.
WithoutTrace(state, t) == {x \in state : x[1] # t}

Complete(state, t) == \A s \in Stages : <<t, s>> \in state

\* handle_event with record_latency.
HandleEvent ==
  /\ Receive("log.event")
  /\ LET e == Head(chan["log.event"])
         x == <<e.trace, e.stage>>
         state == IF e.stage = "none" THEN latency_state ELSE latency_state \cup {x}
         complete == e.stage # "none" /\ Complete(state, e.trace)
     IN /\ latency_state' = IF complete THEN WithoutTrace(state, e.trace) ELSE state
        /\ latency_records' = IF complete THEN [latency_records EXCEPT ![e.trace] = @ + 1]
                              ELSE latency_records
        /\ seen' = seen \cup {x}
        /\ Write(IF complete THEN {<<e.trace, "latency">>} ELSE {}, x)

HandleTrade ==
  /\ Receive("log.trade")
  /\ LET x == <<Head(chan["log.trade"]), "trade">>
     IN  seen' = seen \cup {x} /\ Write({}, x)
  /\ UNCHANGED <<latency_state, latency_records>>

LogTask == HandleEvent \/ HandleTrade

----
\* A trace has one latency record from the moment its third stage has come in,
\* in whatever order the three tasks published them, and never a second one.
RecordedOnce ==
  \A t \in Traces : latency_records[t] = IF Complete(seen, t) THEN 1 ELSE 0

\* What the sinks ought to hold: all that has come in, and the record of every
\* trace whose stages have.
Due == seen \cup {<<t, "latency">> : t \in {u \in Traces : Complete(seen, u)}}

\* A failed write costs that item, in that sink and those after it, and nothing
\* else: whatever is missing from a sink has failed there, or in one before it.
\* A record that cannot be written does not take the event with it.
LostOnlyWhereItFailed ==
  \A x \in Due : \A k \in 1..Len(Sinks) :
    x \in stored[Sinks[k]] \/ \E i \in 1..k : <<Sinks[i], x>> \in failed
====
