\* One command line of each kind; five periods for a history of three.
SPECIFICATION Spec
CONSTANTS
  Listers = {l1}
  Length = 3
  MaxSlices = 5
INVARIANTS
  CopiesFromTable
  ListingInOrder
  ListingComplete
  StatsInOrder
