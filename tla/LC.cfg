\* Two command lines, two other modules.
SPECIFICATION Spec
CONSTANTS
  Others = {m1, m2}
  Commands = {c1, c2}
  Self = Self
  Modules = Modules
  Poison = Poison
  Null = Null
SYMMETRY MCSymmetry
INVARIANTS
  ListSound
  NothingLeft
PROPERTIES
  HiddenStays
\* A module that failed to load may be the last thing that happens.
CHECK_DEADLOCK FALSE
