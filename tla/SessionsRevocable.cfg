SPECIFICATION Spec
CONSTANTS
  s1 = s1
  s2 = s2
  s3 = s3
  alice = alice
  bob = bob
  None = None
  Socket <- TwoSockets
  User = {alice, bob}
  Principal <- SameUser
  Sub = {}
  Port <- Ports12
  Pool <- Ports12
  FixedPort = {}
  Request <- PortOnlyRequests
  IpProtection = TRUE
  BindHostIsAddress = TRUE
INVARIANT LiveTunnelRevocable
CHECK_DEADLOCK FALSE
