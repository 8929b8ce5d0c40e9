\* Two calls racing for two ids: every call returns, every id comes back.
SPECIFICATION FairSpec
CONSTANTS
  a = a
  b = b
  c = c
  Requests <- TwoCalls
  IpRequests <- OneIpCall
  NumIds = 2
  FirstNotifyId = 1
  None = None
  MaxConcurrent = 2
  MaxConnections = 1
  MaxNotifies = 0
  IpRetryMax = 1
PROPERTIES
  IdsComeBack
  EveryCallReturns
CHECK_DEADLOCK FALSE
