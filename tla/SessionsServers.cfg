SPECIFICATION Spec
CONSTANTS
  s1 = s1
  s2 = s2
  s3 = s3
  alice = alice
  bob = bob
  None = None
  Socket <- TwoSockets
  User = {alice, bob}
  Principal <- TwoUsers
  Sub = {x}
  Port <- Ports12
  Pool <- Ports12
  FixedPort = {1}
  Request <- AllRequests
  IpProtection = TRUE
  BindHostIsAddress = FALSE
INVARIANT ServersAreFiled
CHECK_DEADLOCK FALSE
