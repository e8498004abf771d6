SPECIFICATION ServingSpec
CONSTANTS
  Sockets = {s1, s2}
  Streams = {c1}
  StaysOpen = {}
PROPERTY DrainCompletes
CHECK_DEADLOCK FALSE
