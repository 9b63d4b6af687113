\* Three findings of one partition, windows shorter than the idle period, one failure.
CONSTANTS
  p1 = p1
  None = None
  Partitions = {p1}
  Kinds <- ShortWindows
  Idle = 1
  Cooldown = 1
  Step = 2
  Epoch = 1
  MaxObs = 3
  MaxTime = 4
  MaxFindings = 3
  MaxCrashes = 1
SPECIFICATION Spec
INVARIANTS
  TypeOK
  UpdateIdsIdentify
  NoUpdateMissing
  EveryFindingShown
PROPERTIES
  NoneOverstays
CHECK_DEADLOCK FALSE
