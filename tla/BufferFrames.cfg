CONSTANTS
  Sensors = {s1, s2, s3}
  Keys = {k1, k2}
  Stamps <- TwoStamps
  MinSensors = 3
  CorrelationWindow = 1
  MaxArrivals = 3
SPECIFICATION FairSpec
INVARIANTS
  BatchesSolvable
PROPERTIES
  OneFate
  EveryObservationSettles
CHECK_DEADLOCK FALSE
