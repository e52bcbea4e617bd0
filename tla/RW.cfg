\* One reader and one writer may be killed; fork may fail.
SPECIFICATION FairSpec
CONSTANTS
  Readers = {r1, r2}
  Writers = {w1, w2}
  Limit = 2
  Mortal = {r1, w1}
INVARIANTS
  SemaphoresCount
  Overshoot
PROPERTIES
  DeadReaderBlocks
  Implements
  Termination
\* The children end, or stay blocked behind a dead one.
CHECK_DEADLOCK FALSE
