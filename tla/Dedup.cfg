\* Three streams compete for the room of two; numbers wrap around the ring.
CONSTANTS
  Streams = {s1, s2, s3}
  W = 3
  MaxStreams = 2
  MaxSeq = 6
  MaxRepeats = 1
  MaxGaps = 1
SPECIFICATION Spec
SYMMETRY Symmetry
INVARIANTS
  FilterIsWellFormed
  RingIsExact
  MissingIsExact
PROPERTIES
  OutcomesAreRight
  ImplementsFilter
CHECK_DEADLOCK FALSE
