\* A crash while two files are followed.
CONSTANTS
  W = 4
  Modes <- TailOnly
  Files <- TwoFiles
  MaxLines = 2
  MaxReplaced = 0
  LinesPerPass = 1
  Total <- TwoRuns
  PersistEvery = 2
  Skipped <- Headers
  Rejected <- TooLarge
  MaxCompleted = 2
  MaxNumbers = 3
  MaxCrashes = 1
SPECIFICATION Spec
INVARIANTS
  ResentIsExactDuplicate
CHECK_DEADLOCK FALSE
