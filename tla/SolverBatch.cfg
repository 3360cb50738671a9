CONSTANTS
  Costs <- FewCosts
  NoCost = NoCost
  Tolerance = 1
  Starts = 2
  MaxIterations = 3
  Batches <- SmallBatches
  MinSensors = 2
  RobustSubsetSize = 3
  MaxSelectionSubsetSize = 3
  MaxSelectionCombinations = 3
  Rms <- FewRms
  SumSq <- FewSumSq
  RmsTolerance = 1
  NoResult = NoResult
SPECIFICATION FairSpec
INVARIANTS
  TypeOK
  SubsetsExact
  BestIsBest
  ResultIsTrue
  FitDownhill
CHECK_DEADLOCK FALSE
PROPERTIES
  SolveEnds
