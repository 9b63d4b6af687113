\* Windows longer than the idle period, no failure.
CONSTANTS
  p1 = p1
  None = None
  Partitions = {p1}
  Kinds <- LongWindows
  Idle = 1
  Cooldown = 1
  Step = 2
  Epoch = 1
  MaxObs = 3
  MaxTime = 4
  MaxFindings = 2
  MaxCrashes = 0
SPECIFICATION Spec
INVARIANT
  UpdateIdsIdentify
CHECK_DEADLOCK FALSE
