\* A restart between persisting the cursor and releasing segments.
CONSTANTS
  W = 2
  MaxSeq = 2
  Malformed <- NoneMalformed
  MaxHealth = 1
  SegCap = 1
  MaxRecs = 2
  MaxLog = 3
  MaxFailures = 1
  MaxErrors = 1
  CrashPlans <- OneProcessCrash
SPECIFICATION FairSpec
PROPERTIES
  SpaceFrees
CHECK_DEADLOCK FALSE
