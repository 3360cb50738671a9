CONSTANTS
  Workers = {w1, w2}
  Sensors <- ThreeSensors
  MinSensors = 2
  InlierGate = 1
  Residuals <- GateResiduals
  CorrectionErrors <- NoneOrLarge
  MaxResidualUpdate = 800
  JitterScale = 300
  ResidualScale = 250
  FullSamples = 18
  MinTrustedScore = 35
  MinReliableSamples = 2
  MaxReliableJitter = 250
  MinPairSamples = 3
  MaxBatches = 4
SYMMETRY WorkerSymmetry
SPECIFICATION Spec
INVARIANTS
  TypeOK
  TrustNeverExcludes
  PairsBackedByClocks
  UnreliableHasCause
CHECK_DEADLOCK FALSE
