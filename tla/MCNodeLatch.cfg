SPECIFICATION FairSpec
CONSTANTS
  Cap = 2
  Symbols = {"btc"}
  Sizes = {2}
  RiskConfigs <- MCRiskConfigs
  LimitPrices = {}
  InitialBalance = 6
  FillStart = 0
  FillStep = 1
  Scale = 60
  PlannedOrders <- MCOrders
  Plans <- BuyOnly
  MaxPlan = 2
  MaxSnapshots = 3
  RiskDefault <- Normal
  ExecConfigs <- MCExecConfigs
  ExecStarts <- OnlySimulated
  Booted = TRUE
  TestOrders = {}
  MaxRequests = 1
  MaxReports = 1
PROPERTY BreachIsEnforced
CHECK_DEADLOCK FALSE
