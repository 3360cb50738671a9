CONSTANTS
  Sensors = {s1, s2, s3, s4}
  Keys = {k1}
  Stamps <- WideStamps
  MinSensors = 4
  CorrelationWindow = 1
  MaxArrivals = 4
SYMMETRY SensorSymmetry
SPECIFICATION Spec
INVARIANTS
  TypeOK
  BatchSpread
  AnchorsDistinct
  NoOrphanGroup
  IndexConsistent
CHECK_DEADLOCK FALSE
