SPECIFICATION Spec
CONSTANTS
  n1 = n1
  n2 = n2
  s1 = s1
  s2 = s2
  None = None
  Node = {n1, n2}
  Socket = {s1, s2}
  Home <- TwoNodes
  Sub = {x, y}
  TTL = 2
  MaxAttempts = 1
  MaxCalls = 1
INVARIANT OneServerPerName
CHECK_DEADLOCK FALSE
