CONSTANTS
  a1 = a1
  Goroutines = {g1, g2}
  Aircraft = {a1}
  Icao <- OneIcao
  NoFix = NoFix
  MaxStates = 2
  MaxSummaries = 2
SYMMETRY GoroutineSymmetry
SPECIFICATION Spec
INVARIANTS
  TypeOK
  StatesCatchUp
  SummariesCatchUp
  SilenceHasCause
CHECK_DEADLOCK FALSE
