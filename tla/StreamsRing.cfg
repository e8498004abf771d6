SPECIFICATION Spec
CONSTANTS
  s1 = s1
  s2 = s2
  alice = alice
  bob = bob
  r1 = r1
  r2 = r2
  None = None
  Request = {r1, r2}
  Socket = {s1, s2}
  User = {alice, bob}
  Owner <- TwoOwners
  MaxConcurrent = 1
  MaxBody = 2
  MaxChunks = 3
  Parts = 3
INVARIANT RingIsTheOwners
CHECK_DEADLOCK FALSE
