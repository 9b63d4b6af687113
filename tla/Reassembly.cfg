\* Fragments of six records, three of which share a key.
CONSTANTS
  a = a
  a1 = a1
  a2 = a2
  b = b
  c = c
  w = w
  KeyA = KeyA
  Missing = Missing
  Records <- AllRecords
  Key <- KeyOf
  Total <- TotalOf
  ChunkBytes = 2
  MaxPending = 2
  Timeout = 2
  MaxTime = 3
  MaxFrames = 5
SPECIFICATION Spec
INVARIANTS
  TableIsInOrder
  NothingVanishes
  CompletedIsWhole
PROPERTIES
  NoneOverstays
CHECK_DEADLOCK FALSE
