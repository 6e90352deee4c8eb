SPECIFICATION FairSpec
CONSTANTS
  Cap = 1
  Symbols = {"btc"}
  Sizes = {2}
  RiskConfigs <- MCRiskConfigs
  LimitPrices = {}
  InitialBalance = 6
  FillStart = 0
  FillStep = 1
  Scale = 60
  PlannedOrders <- MCOrders
  Plans <- BuyOrSell
  MaxPlan = 1
  MaxSnapshots = 1
  RiskDefault <- Normal
  ExecConfigs <- MCExecConfigs
  ExecStarts <- MCStarts
  Booted = TRUE
  TestOrders <- MCTest
  MaxRequests = 1
  MaxReports = 1
INVARIANTS RiskAgreesWithLedger BlockImpliesTrip
PROPERTY TripStopsTrading
CHECK_DEADLOCK FALSE
