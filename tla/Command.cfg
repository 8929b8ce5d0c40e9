\* Two commands, a change by the Thread network and a press of the button.
SPECIFICATION FairSpec
CONSTANTS
  panid = panid
  key = key
  Fields <- TwoFields
  Values <- TwoValues
  Erased = Erased
  HoldCount = 2
  MaxCommands = 2
  MaxChanges = 1
  MaxPresses = 1
INVARIANTS
  AnsweredOnce
  ThreadNeedsIp6
PROPERTIES
  SetKeepsOthers
  ErasedStaysErased
  EveryCommandEnds
  DeferredRestarts
CHECK_DEADLOCK FALSE
