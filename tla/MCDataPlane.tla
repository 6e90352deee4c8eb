---- MODULE MCDataPlane ----
(* An instance of DataPlane: three rows of a pair from an earlier session, as *)
(* many as its strategy task, its queue and a publisher can hold. A tick of   *)
(* the other pair is later, and comes first in the order of the pairs.        *)
EXTENDS DataPlane

MCPairs == <<"eth", "btc">>
MCStored == {[ts |-> t, pair |-> "btc"] : t \in 1..3}
MCTraces == 1..8
====
