CONSTANTS
  Streams = {t1, t2}
  Peers = {p1}
  Trusted = {p1}
  Sensors = {s1}
  NoPeer = NoPeer
  NoSensor = NoSensor
  MaxFixes = 0
SYMMETRY StreamSymmetry
SPECIFICATION Spec
INVARIANTS
  ConnectedSellersListed
CHECK_DEADLOCK FALSE
