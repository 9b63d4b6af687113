\* A loss of power.
CONSTANTS
  W = 2
  MaxSeq = 3
  Malformed <- OneMalformed
  MaxHealth = 0
  SegCap = 2
  MaxRecs = 3
  MaxLog = 4
  MaxFailures = 1
  MaxErrors = 0
  CrashPlans <- OnePowerLoss
SPECIFICATION Spec
INVARIANTS
  TypeOK
  NeverSkipped
  PublishedIsDurable
  FilterMatchesSpool
  ResentOnlyAfterFault
  SpoolIsBounded
CHECK_DEADLOCK FALSE
