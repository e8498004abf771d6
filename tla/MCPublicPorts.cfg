SPECIFICATION FairSpec
CONSTANTS
  Socket = {s1, s2}
  Key = {k1, k2, k3}
  Port <- MCPort
  Pool <- MCPool
INVARIANTS
  TypeOK
  PortClaimedOnce
  BooksMatchServers
PROPERTY ReservationEnds
