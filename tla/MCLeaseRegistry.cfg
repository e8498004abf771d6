SPECIFICATION Spec
CONSTANTS
  n1 = n1
  n2 = n2
  s1 = s1
  s2 = s2
  None = None
  Node = {n1, n2}
  Socket = {s1, s2}
  Home <- TwoNodes
  Sub = {x}
  TTL = 2
  MaxAttempts = 1
  MaxCalls = 1
INVARIANTS
  TypeOK
  ClaimInFlight
  BeatingHoldsLease
PROPERTY LeaseEndsByItsHolder
CHECK_DEADLOCK FALSE
