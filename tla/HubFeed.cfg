CONSTANTS
  Callers = {p1, p2}
  Connections = {c1, c2}
  Messages = {fix, state, infinite}
  Unmarshallable = {infinite}
  NoMessage = NoMessage
  MaxBroadcasts = 2
SPECIFICATION FairSpec
INVARIANTS
  TypeOK
  NoGhostClients
PROPERTIES
  OneFeed
  NobodyHeldUp
CHECK_DEADLOCK FALSE
