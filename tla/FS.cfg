\* Three mount points, an array of three entries.
SPECIFICATION Spec
CONSTANTS
  Mounters = {p1, p2, p3}
  MAX_CACHE_SIZE = 3
  Objects = {o1, o2, o3, o4}
  Null = Null
  Garbage = Garbage
SYMMETRY MCSymmetry
INVARIANTS
  PrivateOwn
  UnloadsClean
\* Nothing goes on once memory is corrupt, or the module failed to load.
CHECK_DEADLOCK FALSE
