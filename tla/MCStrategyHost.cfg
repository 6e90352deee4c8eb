SPECIFICATION FairSpec
CONSTANTS
  Cap = 1
  Symbols = {"btc", "eth"}
  PlannedOrders <- MCOrders
  Plans <- MCPlans
  MaxPlan = 2
  StratConnected = FALSE
  MaxSnapshots = 3
  MaxSignals = 2
INVARIANTS TypeOK OverrunIsOnePlan
PROPERTY PlanCompletes
CHECK_DEADLOCK FALSE
