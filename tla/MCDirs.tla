------------------------------- MODULE MCDirs -------------------------------
(* Users and groups for model checking: one user who may become sudo.      *)
EXTENDS Dirs

MCMembers == [g \in Gids |-> IF g = Sudo THEN {7} ELSE {}]
MCOwners  == {<<7, 0>>, <<0, 3>>}
MCPerms   == {{"user write", "user read"}, {"group write", "read"}}
NameSymmetry == Permutations(Names)
=============================================================================
