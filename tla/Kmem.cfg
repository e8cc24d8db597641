\* Four pages in two regions.  A kernel that has panicked stops.
SPECIFICATION Spec
CONSTANTS
  MemoryMap <- MCMap
  PageSize = 2
  End = 3
  Limit = 18
  MaxCount = 3
  PerPage = 2
INVARIANTS MemoryConserved ListServes
CHECK_DEADLOCK FALSE
