\* A crash of the process, with the publisher and the broker making progress.
CONSTANTS
  W = 2
  MaxSeq = 2
  Malformed <- NoneMalformed
  MaxHealth = 1
  SegCap = 1
  MaxRecs = 2
  MaxLog = 3
  MaxFailures = 1
  MaxErrors = 1
  CrashPlans <- OneProcessCrash
SPECIFICATION FairSpec
INVARIANT
  FilterMatchesSpool
PROPERTIES
  SpooledIsPublished
  SpaceFreesUninterrupted
CHECK_DEADLOCK FALSE
