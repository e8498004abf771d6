SPECIFICATION FairSpec
CONSTANTS
  n1 = n1
  n2 = n2
  s1 = s1
  s2 = s2
  None = None
  Node = {n1}
  Socket = {s1, s2}
  Home <- OneNode
  Sub = {x}
  TTL = 1
  MaxAttempts = 1
  MaxCalls = 1
PROPERTY SilentFreesName
CHECK_DEADLOCK FALSE
