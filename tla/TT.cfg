\* Three addresses for a table of two, up to four slices for a history of three.
\* A period longer than no unit of the clock is over one unit later.
\* The product of a mean of two packets' lengths with 130 wraps, no sum does.
SPECIFICATION Spec
CONSTANTS
  Sources = {a1, a2, a3}
  Sizes = {2}
  NoAddr = NoAddr
  FirstLength = 2
  SecondLength = 3
  Period = 0
  Second = 16
  Start = 0
  MaxTime = 5
  MaxPackets = 5
  Word = 131072
  EpsPercent = 30
  InitialVec <- MCInitialVec
SYMMETRY MCSymmetry
INVARIANTS
  TableFaithful
  SlicesFaithful
PROPERTIES
  FlagsMeanExcess
  Implements
\* The clock and the packets are bounded.
CHECK_DEADLOCK FALSE
