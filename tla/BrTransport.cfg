\* Two calls racing for three ids, one of them an IP request.
SPECIFICATION Spec
CONSTANTS
  a = a
  b = b
  c = c
  Requests <- TwoCalls
  IpRequests <- OneIpCall
  NumIds = 3
  FirstNotifyId = 1
  None = None
  MaxConcurrent = 2
  MaxConnections = 2
  MaxNotifies = 1
  IpRetryMax = 1
INVARIANTS
  PendingIsOpen
  NoLostWaiter
  AtMostOnce
  MisdeliveryNeedsReuse
PROPERTIES
  KeepsPromise
CHECK_DEADLOCK FALSE
