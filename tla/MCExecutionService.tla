---- MODULE MCExecutionService ----
(* Instances of ExecutionService for TLC. *)
EXTENDS ExecutionService

Cfg(mode, live, okx) == [mode |-> mode, live_trading_enabled |-> live, okx |-> okx]

Simulated == Cfg("Simulated", FALSE, FALSE)
Live == Cfg("LiveOkx", TRUE, TRUE)
RawLive == Cfg("Simulated", TRUE, FALSE)      \* what a reload publishes on a live node
LiveDisabled == Cfg("LiveOkx", FALSE, FALSE)  \* a mode without permission
MCConfigs == {Simulated, Live, RawLive, LiveDisabled}
MCStarts == {Simulated, Live}
====
