CONSTANTS
  Streams = {t1, t2, t3}
  Peers = {p1, p2, p3}
  Trusted = {p1, p2}
  Sensors = {s1}
  NoPeer = NoPeer
  NoSensor = NoSensor
  MaxFixes = 1
SPECIFICATION FairSpec
INVARIANTS
  TypeOK
  NoGhostSellers
  SensorsOfLiveStreams
  CreditedAtMostOnce
PROPERTIES
  ReputationKept
  GoneSellersLeave
CHECK_DEADLOCK FALSE
