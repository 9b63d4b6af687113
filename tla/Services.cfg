\* Each service with a few records, rows, updates or jobs, and a few failures.
CONSTANTS
  Sinks <- AllSinks
  Log <- SomeLog
  MaxBatch = 3
  Tries = 2
  MaxFaults = 2
  Rows = {r1, r2, r3}
  MaxMishaps = 2
  RingSize = 3
  QueueSize = 2
  MaxSeq = 5
  MaxLives = 2
  Keep = 1
  MaxCheckpoints = 4
  MaxSlips = 3
SPECIFICATION FairSpec
INVARIANTS
  RecordsAreHandled
  PartitionsAreKept
  StreamHasNoGap
  StateIsHandedOn
PROPERTY
  WorkIsDone
CHECK_DEADLOCK FALSE
