\* Three IP requests, two STATE commands, one restart.
SPECIFICATION FairSpec
CONSTANTS
  NumIds = 5
  FirstId = 0
  MaxAsked = 3
  MaxStates = 2
  MaxBoots = 1
  IpRetryMax = 2
  MaxMiss = 3
INVARIANTS
  RetriesBounded
  ConfirmedIsNotPending
PROPERTIES
  WatchdogIsPatient
  HandshakeEnds
  SilenceRestarts
  AnswerIsRepeated
CHECK_DEADLOCK FALSE
