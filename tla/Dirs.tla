-------------------------------- MODULE Dirs --------------------------------
(***************************************************************************)
(* Directories: inodes with reference counts and directory entries (kfs.c) *)
(* and the system calls that change them, with the users and permissions   *)
(* those calls test (syscalls.c).  The contents of files are not here.     *)
(*                                                                         *)
(* A path leads to an inode that can be reached from the root or from the  *)
(* working directory, through any entries: seeking tests no permission.    *)
(* The inode that a call is given below is the one its path leads to.      *)
(* A system call is one step.  A call that fails before it has written     *)
(* anything changes nothing and is left out.  The device does not fail.    *)
(***************************************************************************)
EXTENDS Naturals, Sequences, FiniteSets, SequencesExt, FiniteSetsExt

CONSTANTS
    NInodes,   \* inodes on the device, the meta inode not counted
    NDirect,   \* NUM_DIRECT_POINTERS
    Procs,     \* processes
    Uids,      \* user IDs
    Gids,      \* group IDs
    Members,   \* the users that _sys_setgid finds in /.groups for a group
    Owners,    \* pairs of user and group passed to fchown()
    Perms,     \* permissions passed to fSetPerm(), as sets of bits
    Names,     \* names passed to fcreate(), fremove() and fmove()
    MaxRefs    \* bound on the references of what fmove() is given

Root    == 1                     \* the inode of the root directory
Up      == ".."
RootUid == 0                     \* UID_ROOT
User    == 0                     \* GID_USER
Open    == 1                     \* GID_OPEN
Sudo    == 2                     \* GID_SUDO
Bits    == {"write", "read", "group write", "group read",
            "user write", "user read"}

ASSUME DirsAssumption ==
    /\ NInodes \in Nat /\ NInodes >= 1
    /\ NDirect \in Nat /\ NDirect >= 2
    /\ RootUid \in Uids /\ User \in Gids
    /\ Members \in [Gids -> SUBSET Uids]
    /\ MaxRefs \in Nat
    /\ Owners \subseteq Uids \X Gids
    /\ Perms \subseteq SUBSET Bits

Nodes == 1 .. NInodes

VARIABLES
    node,      \* the inodes on the device
    cwd,       \* pcb->wDir
    uid,       \* pcb->uid
    gid        \* pcb->gid

vars == <<node, cwd, uid, gid>>

(* What _fs_clearInode leaves.                                             *)
Free == [type |-> "free", refs |-> 0, uid |-> RootUid, gid |-> User,
         perms |-> {}, entries |-> <<>>]

Entry(name, x) == [name |-> name, node |-> x]

InUse == {x \in Nodes : node[x].type # "free"}

TypeOK ==
    /\ DOMAIN node = Nodes
    /\ \A x \in Nodes :
          /\ node[x].type \in {"free", "dir", "file"} /\ node[x].refs \in Nat
          /\ node[x].uid \in Uids /\ node[x].gid \in Gids
          /\ node[x].perms \subseteq Bits
          /\ Len(node[x].entries) < NDirect
          /\ \A e \in ToSet(node[x].entries) :
                e.name \in Names \cup {Up} /\ e.node \in Nodes
          /\ node[x].type = "free" => node[x] = Free
    /\ cwd \in [Procs -> Nodes] /\ uid \in [Procs -> Uids] /\ gid \in [Procs -> Gids]

(* A new image: the root directory is its own parent.                      *)
Init ==
    /\ node = [x \in Nodes |->
                 IF x # Root THEN Free
                 ELSE [Free EXCEPT !.type = "dir", !.refs = 1, !.perms = Bits,
                                   !.entries = <<Entry(Up, Root)>>]]
    /\ cwd = [p \in Procs |-> Root]
    /\ uid = [p \in Procs |-> RootUid]
    /\ gid = [p \in Procs |-> User]

-----------------------------------------------------------------------------
(* Paths, names and permissions.                                           *)

Targets(x) == {e.node : e \in ToSet(node[x].entries)}

(* What any path from an inode of S leads to.                              *)
Reachable(S) ==
    {x \in Nodes : \A T \in SUBSET Nodes :
        S \subseteq T /\ (\A y \in T : Targets(y) \subseteq T) => x \in T}

Paths(p) == Reachable({Root, cwd[p]})

IsDir(n) == n.type = "dir"

Dir(p) == {d \in Paths(p) : IsDir(node[d])}

Named(n, name) == {i \in DOMAIN n.entries : n.entries[i].name = name}

Bypass(p) == uid[p] = RootUid \/ gid[p] = Sudo

InGroup(p, n) == IF n.gid = User THEN n.uid = uid[p] ELSE n.gid = gid[p]

(* The bits that count for this process: all, its group's and the owner's. *)
Permits(p, n, all, group, user) ==
    IF Bypass(p) THEN TRUE
    ELSE n.perms \cap
            ({all} \cup (IF InGroup(p, n) THEN {group} ELSE {})
                   \cup (IF n.uid = uid[p] THEN {user} ELSE {})) # {}

CanRead(p, n)  == Permits(p, n, "read", "group read", "user read")
CanWrite(p, n) == Permits(p, n, "write", "group write", "user write")
CanMeta(p, n)  == IF Bypass(p) THEN TRUE ELSE n.uid = uid[p]

-----------------------------------------------------------------------------
(* Entries.  nodes is the device as the caller left it.                    *)

(* _fs_addDirEnt adds unless the name is there or there is no pointer left:*)
(* _fs_setNodeEnt never uses the last one.                                 *)
Addable(n, name) ==
    IsDir(n) /\ Named(n, name) = {} /\ Len(n.entries) + 1 < NDirect

AddedUncounted(nodes, d, name, x) ==     \* mutant: the reference is not counted
    [nodes EXCEPT ![d].entries = Append(@, Entry(name, x))]

(* An inode that is free cannot be written back: the entry stays all the   *)
(* same.                                                                   *)
Added(nodes, d, name, x) ==
    [nodes EXCEPT
        ![d].entries = Append(@, Entry(name, x)),
        ![x].refs = IF nodes[x].type = "free" THEN @ ELSE @ + 1]

(* _fs_freeNode, which refuses a directory without any entry.              *)
Freed(n) == IF IsDir(n) /\ n.entries = <<>> THEN n ELSE Free

(* _fs_rmDirEnt: the last entry moves into the gap.  The directory was     *)
(* read before its child is written, and is written after it.              *)
Removed(nodes, d, i) ==
    LET x == nodes[d].entries[i].node
        child == nodes[x]
        less == IF child.refs <= 1 THEN Freed(child)
                ELSE [child EXCEPT !.refs = @ - 1]
    IN  [nodes EXCEPT
            ![x] = less,
            ![d] = [nodes[d] EXCEPT
                      !.entries = Front([@ EXCEPT ![i] = Last(nodes[d].entries)])]]

(* What fremove() asks of the child.                                       *)
RemovableByWriters(p, child) ==          \* mutant: the right of fmove()
    /\ CanWrite(p, child)
    /\ ~(IsDir(child) /\ Len(child.entries) > 1 /\ child.refs = 1)

RemovableFull(p, child) ==               \* mutant: directories are not looked into
    CanMeta(p, child)

Removable(p, child) ==
    /\ CanMeta(p, child)
    /\ ~(IsDir(child) /\ Len(child.entries) > 1 /\ child.refs = 1)

-----------------------------------------------------------------------------
(* System calls.                                                           *)

FreeNodes == {x \in Nodes \ {Root} : node[x].type = "free"}

(* _sys_fcreate.  The inode is written before the entry, which may find no *)
(* room.                                                                   *)
FCreate(p, d, name, isFile) ==
    /\ Named(node[d], name) = {} /\ CanWrite(p, node[d])
    /\ FreeNodes # {}
    /\ LET x == Min(FreeNodes)
           new == [type |-> IF isFile THEN "file" ELSE "dir", refs |-> 0,
                   uid |-> uid[p], gid |-> gid[p], perms |-> Bits,
                   entries |-> IF isFile THEN <<>> ELSE <<Entry(Up, d)>>]
           written == [node EXCEPT ![x] = new]
       IN  node' = IF Addable(node[d], name) THEN Added(written, d, name, x)
                   ELSE written
    /\ UNCHANGED <<cwd, uid, gid>>

(* _sys_fremove                                                            *)
FRemove(p, d, name) ==
    /\ Named(node[d], name) # {}
    /\ LET i == Min(Named(node[d], name))
       IN  /\ Removable(p, node[node[d].entries[i].node])
           /\ node' = Removed(node, d, i)
    /\ UNCHANGED <<cwd, uid, gid>>

(* _sys_fmove adds the new name and then calls _sys_fremove for the old    *)
(* one, which may refuse.                                                  *)
FMoveRemovesFirst(p, sd, sname, dd, dname) ==   \* mutant: the other order
    /\ Named(node[sd], sname) # {}
    /\ CanWrite(p, node[sd]) /\ CanWrite(p, node[dd])
    /\ Addable(node[dd], dname)
    /\ LET i == Min(Named(node[sd], sname))
           x == node[sd].entries[i].node
       IN  /\ Removable(p, node[x])
           /\ node' = Added(Removed(node, sd, i), dd, dname, x)
    /\ UNCHANGED <<cwd, uid, gid>>

FMove(p, sd, sname, dd, dname) ==
    /\ Named(node[sd], sname) # {}
    /\ CanWrite(p, node[sd]) /\ CanWrite(p, node[dd])
    /\ LET i == Min(Named(node[sd], sname))
           x == node[sd].entries[i].node
           both == Added(node, dd, dname, x)
       IN  /\ node[x].refs < MaxRefs
           /\ CanWrite(p, node[x])
           /\ Addable(node[dd], dname)
           /\ node' = IF node[x].type # "free" /\ Removable(p, both[x])
                      THEN Removed(both, sd, i) ELSE both
    /\ UNCHANGED <<cwd, uid, gid>>

(* _sys_setDir                                                             *)
SetDir(p, d) ==
    /\ CanRead(p, node[d])
    /\ cwd' = [cwd EXCEPT ![p] = d]
    /\ UNCHANGED <<node, uid, gid>>

(* _sys_fchown and _sys_fSetPerm.  A free inode cannot be written back.    *)
FChown(p, x, u, g) ==
    /\ node[x].type # "free" /\ CanMeta(p, node[x])
    /\ node' = [node EXCEPT ![x].uid = u, ![x].gid = g]
    /\ UNCHANGED <<cwd, uid, gid>>

FSetPerm(p, x, perms) ==
    /\ node[x].type # "free" /\ CanMeta(p, node[x])
    /\ node' = [node EXCEPT ![x].perms = perms]
    /\ UNCHANGED <<cwd, uid, gid>>

(* _sys_setuid of another user                                             *)
SetUidKeepsGroup(p, u) ==                \* mutant: the group is kept
    /\ uid[p] = RootUid /\ u # RootUid
    /\ uid' = [uid EXCEPT ![p] = u]
    /\ UNCHANGED <<node, cwd, gid>>

SetUid(p, u) ==
    /\ uid[p] = RootUid /\ u # RootUid
    /\ uid' = [uid EXCEPT ![p] = u]
    /\ gid' = [gid EXCEPT ![p] = User]
    /\ UNCHANGED <<node, cwd>>

(* _sys_setgid: /.groups has a line for every group; root is in all groups.*)
SetGid(p, g) ==
    /\ g \in {User, Open} \/ uid[p] = RootUid \/ uid[p] \in Members[g]
    /\ gid' = [gid EXCEPT ![p] = g]
    /\ UNCHANGED <<node, cwd, uid>>

-----------------------------------------------------------------------------
Call(p) ==
    \/ \E d \in Dir(p), name \in Names, isFile \in BOOLEAN : FCreate(p, d, name, isFile)
    \/ \E d \in Dir(p), name \in Names : FRemove(p, d, name)
    \/ \E sd, dd \in Dir(p), sname, dname \in Names : FMove(p, sd, sname, dd, dname)
    \/ \E d \in Dir(p) : SetDir(p, d)
    \/ \E x \in Paths(p), owner \in Owners : FChown(p, x, owner[1], owner[2])
    \/ \E x \in Paths(p), perms \in Perms : FSetPerm(p, x, perms)
    \/ \E u \in Uids : SetUid(p, u)
    \/ \E g \in Gids : SetGid(p, g)

Next == \E p \in Procs : Call(p)

Spec == Init /\ [][Next]_vars

-----------------------------------------------------------------------------
(* Properties.                                                             *)

(* No program passes ".." to fcreate(), fremove() or fmove(), which take it*)
(* like any other name.  The properties of the tree need this.             *)
UpIsNotNamed == Up \notin Names

(* The names of an inode, but for the ".." that fcreate() writes.          *)
Links(x) ==
    {e \in Nodes \X (2 .. NDirect) :
        e[2] <= Len(node[e[1]].entries) /\ node[e[1]].entries[e[2]].node = x}

(* An inode has at least as many references as names, so that removing one *)
(* name never frees an inode under another, and no name leads to an inode  *)
(* that is free or has been given to another file.                         *)
LinksCounted == \A x \in Nodes : node[x].refs >= Cardinality(Links(x))

(* No directory holds a name twice, and ".." stays its first.              *)
NamesUnique ==
    \A d \in Nodes : IsDir(node[d]) =>
       /\ \A i, j \in DOMAIN node[d].entries :
             node[d].entries[i].name = node[d].entries[j].name => i = j
       /\ node[d].entries # <<>> /\ node[d].entries[1].name = Up

(* fs.h: removing the last link to a directory that is not empty fails.    *)
(* Whatever is freed has no entries left and no other name.                *)
FreedIsEmpty ==
    [][\A x \in InUse : node'[x].type = "free"
          => Len(node[x].entries) <= 1 /\ Cardinality(Links(x)) <= 1]_vars

(* Moving a file frees nothing, whichever of its two halves fails.         *)
MoveFreesNothing ==
    [][\/ InUse \subseteq InUse'
       \/ ~ \E p \in Procs : \E sd, dd \in Dir(p), sname, dname \in Names :
               FMove(p, sd, sname, dd, dname)]_vars

(* Between any two calls the references of every inode cover its names, and*)
(* no directory has a name twice, whichever calls failed half-way.         *)
TreeConsistent == TypeOK /\ LinksCounted /\ NamesUnique

(* Only a process with meta rights can take a name from an inode, or change*)
(* its owner or permissions, whatever rights it has on the directory.      *)
OwnersDecide ==
    [][\A x \in InUse : (\A p \in Procs : ~CanMeta(p, node[x]))
          => /\ Cardinality(Links(x)') >= Cardinality(Links(x))
             /\ <<node[x].uid, node[x].gid, node[x].perms>>
                   = <<node[x].uid, node[x].gid, node[x].perms>>']_vars

(* The group of a process that has given up root is one it may have.       *)
GroupsAreOwn ==
    \A p \in Procs :
       gid[p] \in {User, Open} \/ uid[p] = RootUid \/ uid[p] \in Members[gid[p]]

-----------------------------------------------------------------------------
(* What the documents say and the code does not do.                        *)

(* Permissions.txt:4: meta permission controls removing and moving an      *)
(* entry.  An inode gets another name only from a process that has it.     *)
MoveNeedsMeta ==
    [][\A x \in InUse : Cardinality(Links(x)') > Cardinality(Links(x))
          => \E p \in Procs : CanMeta(p, node[x])]_vars

(* fs.h:107: removing a reference to the parent fails.  A directory keeps  *)
(* its "..".                                                               *)
UpStays ==
    [][\A d \in InUse : IsDir(node[d]) /\ Named(node[d], Up) # {} /\ IsDir(node'[d])
          => Named(node'[d], Up) # {}]_vars
=============================================================================
