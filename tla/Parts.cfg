\* Three frames; two boots; one silent border router on each side; four
\* changes of two aspects.
SPECIFICATION PartsSpec
CONSTANTS
  Sof = 9
  MaxData = 3
  ReadSize = 3
  Payloads <- ThreePayloads
  MaxFrames = 3
  MaxBoots = 2
  Before = 1
  After = 1
  Poll = 2
  Timeout = 2
  Interval = 4
  MaxMiss = 3
  Aspects <- TwoAspects
  Values <- TwoValues
  Initial = 0
  MaxChanges = 4
  role = role
  dataset = dataset
INVARIANTS
  HoldsLessThanAFrame
  HeldBackByRemains
  UnwoundInOrder
  KeptAlive
  ArmedMeansTimer
  PrevIsKnown
PROPERTIES
  NothingSkipped
  UnreachableRestarts
  ChangesReported
CHECK_DEADLOCK FALSE
