SPECIFICATION FairSpec
CONSTANTS
  Overlay <- MCOverlay
  EnvVars <- MCEnvVars
  SecretSet = TRUE
  Docs <- MCDocs
  MaxEdits = 1
  MaxBeats = 2
  Cap = 1
  Users <- MCUsers
  Keys <- MCKeys
  MaxLoggers = 1
  MaxInputs = 2
INVARIANTS
  TypeOK
  ClientMatchesProfile
  LagIsQueued
  OnlyTradersAct
PROPERTIES
  ReloadConverges
  ServicesFollowCurrent
CHECK_DEADLOCK FALSE
