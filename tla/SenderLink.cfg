\* Both modes, a crash, a link that repeats and reorders, and more runs than are remembered.
CONSTANTS
  W = 4
  Modes <- Both
  Files <- TwoFiles
  MaxLines = 2
  MaxReplaced = 1
  LinesPerPass = 1
  Total <- TwoRuns
  PersistEvery = 2
  Skipped <- Headers
  Rejected <- TooLarge
  MaxCompleted = 1
  MaxNumbers = 5
  MaxCrashes = 1
SPECIFICATION FairSpec
INVARIANTS
  TypeOK
  NumberingIsSound
  NothingSkipped
  SuppressedWasAccepted
  ReplayAcceptedOnce
PROPERTY
  WorkIsFinished
CHECK_DEADLOCK FALSE
