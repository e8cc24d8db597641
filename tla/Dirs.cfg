\* The root and two inodes, two entries beside .. in a directory, for a
\* process of the root user that may become an ordinary one.
SPECIFICATION Spec
CONSTANTS
  a = a
  b = b
  c = c
  NInodes = 3
  NDirect = 4
  Procs = {"p"}
  Uids = {0, 7}
  Gids = {0}
  Members <- MCMembers
  Owners = {}
  Perms = {}
  Names = {a, b, c}
  MaxRefs = 3
SYMMETRY NameSymmetry
INVARIANT TreeConsistent
PROPERTIES FreedIsEmpty MoveFreesNothing
