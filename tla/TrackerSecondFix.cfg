CONSTANTS
  Aircraft = {a1, a2}
  Times <- DayTimes
  MaxGap = 2
  MaxFixes = 4
SYMMETRY AircraftSymmetry
SPECIFICATION Spec
INVARIANTS
  SuccessiveFixesSmoothed
CHECK_DEADLOCK FALSE
