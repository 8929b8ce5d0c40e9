\* One instance announced twice, two clients for it, one decision, one restart.
SPECIFICATION Spec
CONSTANTS
  i1 = i1
  i2 = i2
  net = net
  x = x
  y = y
  Instances <- OneInstance
  Networks <- OneNetwork
  NetworkOf <- Same
  Admins <- OneAdmin
  MaxAnnouncements = 2
  MaxClients = 2
  MaxConnections = 2
  MaxRestarts = 1
INVARIANTS
  OnlyDecidedPushed
  OneClientPerInstance
PROPERTY KeepsLifecycle
CHECK_DEADLOCK FALSE
