SPECIFICATION Spec
CONSTANTS
  Cap = 2
  Symbols = {"btc"}
  Sizes = {2, 4}
  LimitPrices = {0, 1}
  InitialBalance = 4
  FillStart = 1
  FillStep = 1
  Scale = 60
  ExecConfigs <- MCConfigs
  ExecStarts <- MCStarts
  ExecConnected = FALSE
  MaxReports = 1
  MaxInputs = 3
INVARIANTS TypeOK LedgerReconciles AtMostOneLateOrder
CHECK_DEADLOCK FALSE
