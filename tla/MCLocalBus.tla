---- MODULE MCLocalBus ----
(* Instances of LocalBus for TLC. *)
EXTENDS LocalBus

\* The third receiver, alone with its publisher on a subject, need not be
\* drained.
TwoSubjects ==
  [t \in Publishers \cup Receivers |-> IF t \in {"p2", "r3"} THEN "b" ELSE "a"]
====
