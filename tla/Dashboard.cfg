\* One aspect that changes and changes back, on a page that opens meanwhile.
SPECIFICATION FairViewSpec
CONSTANTS
  role = role
  Aspects <- OneAspect
  Reads <- StateReads
  Optional = {}
  None = None
  Values <- TwoValues
  Initial = 0
  MaxChanges = 2
  MaxLoads = 2
PROPERTIES
  ViewCatchesUp
  LossIsShown
CHECK_DEADLOCK FALSE
