CONSTANTS
  Aircraft <- TwoAircraft
  GroupSizes <- SmallGroups
  WaitingRetention = 1
  FixRateWindow = 2
  ActiveRetention = 3
  ListSize = 1
  MaxTime = 4
  MaxHeard = 2
  MaxFixes = 2
SPECIFICATION Spec
INVARIANTS
  TypeOK
  SnapshotExact
  WaitingSinceFix
  NoBetterLeftOut
CHECK_DEADLOCK FALSE
