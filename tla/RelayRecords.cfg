SPECIFICATION Spec
CONSTANTS
  s1 = s1
  s2 = s2
  c1 = c1
  c2 = c2
  None = None
  Socket = {s1}
  Conn = {c1, c2}
  Limit = 1
  High = 1
  Low = 0
  Chunks <- OneTalks
INVARIANT RecordSaysClosed
CHECK_DEADLOCK FALSE
