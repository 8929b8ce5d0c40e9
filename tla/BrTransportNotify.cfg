\* A NOTIFY frame under the id of a request in flight.
SPECIFICATION Spec
CONSTANTS
  a = a
  b = b
  c = c
  Requests <- TwoCalls
  IpRequests <- OneIpCall
  NumIds = 3
  FirstNotifyId = 1
  None = None
  MaxConcurrent = 2
  MaxConnections = 2
  MaxNotifies = 1
  IpRetryMax = 1
INVARIANT NotifyIsNoAnswer
CHECK_DEADLOCK FALSE
