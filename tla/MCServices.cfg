SPECIFICATION Spec
CONSTANTS
  None = None
  Parts = {"keys", "api", "audit", "cli", "units", "door", "page"}
  k1 = k1
  d1 = d1
  e1 = e1
  e2 = e2
  KeyIds = {k1}
  Clients <- OneClient
  Sockets = {s1, s2}
  Requests <- TwoRequests
  Callers <- ThreeCallers
  Reserved = {"n2"}
  Mappings <- TwoMappings
  Stock <- SmallStock
  Sessions <- OneSession
  IdemKeys = {"i1"}
  ReplyTtl = 1
  Events = {e1, e2}
  Strangers = {e2}
  MaxRetries = 1
  MemoryCap = 1
  Earlier <- TwoEarlier
  PageLimit = 1
  u1 = u1
  u2 = u2
  PageUsers = {u1, u2}
  MaxChanges = 2
  MaxAsked = 2
  Processes = {p1, p2}
  NewProcesses = {p2}
  ServiceNames = {web, ssh}
  Managers = {m1, m2}
  NewManagers = {m2}
  MaxCommands = 2
  Ips = {ip1, ip2}
  Window = 2
  Day = 1
  ConnLimit = 1
  MaxTokens = 2
  MaxTime = 3
SYMMETRY PageSymmetry
INVARIANTS
  AnswersTrue
  EventsKept
  PagesComplete
  AliveIsListed
  UnitsListed
  DoorHolds
  RestIsCurrent
PROPERTIES
  RevocationReaches
  RetryIsReplayed
CHECK_DEADLOCK FALSE
