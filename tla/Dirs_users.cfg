\* The root and one inode, for every order of users and groups.
SPECIFICATION Spec
CONSTANTS
  a = a
  b = b
  NInodes = 2
  NDirect = 4
  Procs = {"p"}
  Uids = {0, 7}
  Gids = {0, 2, 3}
  Members <- MCMembers
  Owners <- MCOwners
  Perms <- MCPerms
  Names = {a, b}
  MaxRefs = 2
SYMMETRY NameSymmetry
INVARIANT GroupsAreOwn
PROPERTY OwnersDecide
