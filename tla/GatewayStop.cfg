SPECIFICATION FairSpec
CONSTANTS
  Sockets = {s1}
  Streams = {c1}
  StaysOpen = {c1}
PROPERTY StopEnds
CHECK_DEADLOCK FALSE
