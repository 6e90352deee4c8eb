SPECIFICATION FairSpec
CONSTANTS
  Cap = 2
  Symbols <- MCSymbols
  Sizes <- MCSizes
  RiskConfigs <- MCConfigs
  RiskDefault <- Normal
  Connected = FALSE
  Listeners = {"control.exec.block_new_orders"}
  MaxEvents = 3
INVARIANTS TypeOK NoMissedTrip OutflowIsExposed
PROPERTIES TripJustified BreachTrips
CHECK_DEADLOCK FALSE
