\* A program that passes ".." as a name.
SPECIFICATION Spec
CONSTANTS
  a = a
  b = b
  NInodes = 4
  NDirect = 4
  Procs = {"p"}
  Uids = {0, 7}
  Gids = {0}
  Members <- MCMembers
  Owners = {}
  Perms = {}
  Names = {a, b, ".."}
  MaxRefs = 3
PROPERTY UpStays
