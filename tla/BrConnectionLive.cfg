\* One client that loses its connection and makes another.
SPECIFICATION FairSpec
CONSTANTS
  i1 = i1
  i2 = i2
  net = net
  x = x
  y = y
  Instances <- OneInstance
  Networks <- OneNetwork
  NetworkOf <- Same
  Admins <- OneAdmin
  MaxAnnouncements = 1
  MaxClients = 1
  MaxConnections = 2
  MaxRestarts = 0
PROPERTIES
  AcceptReachesDashboard
  LossIsRecorded
CHECK_DEADLOCK FALSE
