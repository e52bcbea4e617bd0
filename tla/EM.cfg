SPECIFICATION FairSpec
CONSTANTS
  Readers = {r1, r2}
  Writers = {w1, w2}
  Rounds = 2
INVARIANTS
  EventsNotLost
  SomeoneRuns
PROPERTIES
  ProgramEnds
\* Nothing runs after main has returned.
CHECK_DEADLOCK FALSE
