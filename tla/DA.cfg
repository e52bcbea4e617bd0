\* Three launches, two of which can meet while a third has died; two signals.
SPECIFICATION Spec
CONSTANTS
  Copies = {c1, c2, c3}
  Nobody = Nobody
  Absent = Absent
  Empty = Empty
  HUP = HUP
  TERM = TERM
  Signals = {HUP, TERM, USR1}
  MaxSignals = 2
INVARIANTS
  OneDaemon
  NumberStands
PROPERTIES
  StartsUp
  TermEnds
\* Launched copies may all have ended.
CHECK_DEADLOCK FALSE
