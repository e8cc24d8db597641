\* A move by a user who does not own what is moved.
SPECIFICATION Spec
CONSTANTS
  a = a
  b = b
  NInodes = 2
  NDirect = 4
  Procs = {"p"}
  Uids = {0, 7}
  Gids = {0, 2, 3}
  Members <- MCMembers
  Owners <- MCOwners
  Perms <- MCPerms
  Names = {a, b}
  MaxRefs = 2
SYMMETRY NameSymmetry
PROPERTY MoveNeedsMeta
