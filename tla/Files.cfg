SPECIFICATION Spec
CONSTANTS
  NInodes = 2
  NBlocks = 2
  BlockSize = 2
  MaxBlocks = 2
  MaxOpen = 1
  Procs = {p, q}
  Roots = {p}
  p = p
  q = q
  Strings <- MCStrings
  Lengths = {0, 2}
  Added <- MCAdded
INVARIANTS TypeOK BlocksOwned NoDesync
PROPERTIES ImplementsStore
