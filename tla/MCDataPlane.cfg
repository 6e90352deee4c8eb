SPECIFICATION FairSpec
CONSTANTS
  Cap = 1
  Pairs <- MCPairs
  Stored <- MCStored
  Started = 3
  HistoryCap = 1
  MaxTicks = 2
  Traces <- MCTraces
  MaxFailures = 1
  MaxRuns = 2
  MaxOrders = 2
  MaxInputs = 4
  Feeds = {"Simulated", "none"}
  ExecModes = {FALSE}
INVARIANTS
  TypeOK
  RecordedOnce
  ReplayInOrder
  StatusHonest
  MetricsMatchFills
  LostOnlyWhereItFailed
PROPERTIES
  RunEnds
  FeedOutlivesStore
CHECK_DEADLOCK FALSE
