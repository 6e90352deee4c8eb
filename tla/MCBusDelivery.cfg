SPECIFICATION FairSpec
CONSTANTS
  BusSubjects = {"a", "b"}
  Publishers = {"p1", "p2"}
  Receivers = {"r1", "r2", "r3"}
  SubjectOf <- TwoSubjects
  Draining = {"r1", "r2"}
  Capacity = 1
  MaxMsgs = 2
INVARIANTS TypeOK NothingLost ListIsStable
PROPERTIES ImplementsChannels PublishReturns SubscribeReturns
CHECK_DEADLOCK FALSE
