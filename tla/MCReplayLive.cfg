SPECIFICATION Spec
CONSTANTS
  Cap = 1
  Pairs <- MCPairs
  Stored <- MCStored
  Started = 3
  HistoryCap = 1
  MaxTicks = 2
  Traces <- MCTraces
  MaxFailures = 1
  MaxRuns = 2
  MaxOrders = 2
  MaxInputs = 4
  Feeds = {"LiveOkx", "none"}
  ExecModes = {TRUE}
INVARIANT
  ReplayNeverTradesLive
CHECK_DEADLOCK FALSE
