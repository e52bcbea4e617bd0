\* Two producers, two consumers, any of which may be killed; fork may fail.
SPECIFICATION FairSpec
CONSTANTS
  Producers = {p1, p2}
  Consumers = {c1, c2}
  Items = 2
  Cells = 2
  Mortal <- MCAll
INVARIANTS
  SemaphoresAccount
  RemovedAfterUse
PROPERTIES
  DeadHolderBlocks
  Implements
  Termination
\* The children end, or stay blocked behind a dead one.
CHECK_DEADLOCK FALSE
