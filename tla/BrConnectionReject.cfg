\* Two administrators decide about the same pending network.
SPECIFICATION Spec
CONSTANTS
  i1 = i1
  i2 = i2
  net = net
  x = x
  y = y
  Instances <- OneInstance
  Networks <- OneNetwork
  NetworkOf <- Same
  Admins <- TwoAdmins
  MaxAnnouncements = 1
  MaxClients = 1
  MaxConnections = 1
  MaxRestarts = 0
PROPERTY RejectedStays
CHECK_DEADLOCK FALSE
