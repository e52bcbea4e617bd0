\* Three CPUs, a table of two records and a history of one slice.
SPECIFICATION RaceSpec
CONSTANTS
  CPUs = {c1, c2, c3}
  FirstLength = 2
  SecondLength = 1
  Word = 16
  MaxDumps = 2
SYMMETRY MCSymmetry
INVARIANTS
  OverrunBounded
  DivisionNeedsMeeting
\* The kernel stops where it divides by zero.
CHECK_DEADLOCK FALSE
