SPECIFICATION FairSpec
CONSTANTS
  Overlay <- MCNoKeys
  EnvVars <- MCNoKeys
  SecretSet = TRUE
  Docs <- MCLiveDocs
  MaxEdits = 0
  MaxBeats = 2
  Cap = 1
  Users <- MCUsers
  Keys <- MCKeys
  MaxLoggers = 1
  MaxInputs = 2
PROPERTY
  LiveStaysLive
CHECK_DEADLOCK FALSE
