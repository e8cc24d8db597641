-------------------------------- MODULE Files --------------------------------
(***************************************************************************)
(* The contents of files: the map of blocks, the blocks that inodes point  *)
(* to (kfs.c), open files and the system calls on them (syscalls.c).  The  *)
(* paths that lead to the inodes are in module Dirs.                       *)
(*                                                                         *)
(* A system call is one step.  The driver never reports an error to kfs:   *)
(* the RAM disk has none and those of the IDE driver are not negative (see *)
(* module Disk).  Offsets are in bytes, blocks are numbered as in the map; *)
(* pointer 0 leads to the first block of the device, which holds inodes,   *)
(* and stands for every block that is not in the map.                      *)
(*                                                                         *)
(* A directory is here because its inode can be that of a file which some  *)
(* process still has open: it is made and removed, with the entry '..'     *)
(* only, whose bytes are a pointer to no block of the map.                 *)
(***************************************************************************)
EXTENDS Naturals, Sequences, FiniteSets, SequencesExt, FiniteSetsExt, Functions

CONSTANTS
    NInodes,     \* inodes, from 2 on, that can be files
    NBlocks,     \* data blocks
    BlockSize,   \* BLOCK_SIZE
    MaxBlocks,   \* 4 * NUM_DIRECT_POINTERS
    MaxOpen,     \* MAX_OPEN_FILES
    Procs,       \* processes
    Roots,       \* those of the root user
    Strings,     \* what is passed to write()
    Lengths,     \* the lengths passed to read()
    Added        \* the texts of the files AddFile put on the image, in order

(* Files on the image are not empty: AddFile gives an empty one a block and*)
(* no byte, and _fs_write would use an entry it has not read (kfs.c:316).  *)
ASSUME FilesAssumption ==
    /\ NInodes \in Nat /\ NBlocks \in Nat /\ MaxOpen \in Nat \ {0}
    /\ BlockSize \in Nat \ {0, 1} /\ MaxBlocks \in Nat \ {0}
    /\ Roots \subseteq Procs
    /\ Lengths \subseteq Nat
    /\ Len(Added) <= NInodes
    /\ \A i \in DOMAIN Added : Len(Added[i]) \in 1 .. MaxBlocks * BlockSize

Inodes == 2 .. NInodes + 1
Map    == 1 .. NBlocks           \* the blocks that the map is of
MaxLen == MaxBlocks * BlockSize
Zero   == "zero"                 \* a byte of a block that was cleared
Inode  == "inode"                \* a byte of the first block
Input  == "input"                \* a byte that came over the serial line
Typed  == UNION {ToSet(s) : s \in Strings \cup ToSet(Added)}
Bytes  == Typed \cup {Zero, Inode}

ASSUME TextsAssumption ==
    /\ Strings \subseteq Seq(Typed) /\ Added \in Seq(Seq(Typed))
    /\ Input \notin Typed

VARIABLES
    node,        \* the inodes
    dirs,        \* those that are directories
    used,        \* the blocks marked in the map
    data,        \* the blocks
    files,       \* pcb->files
    waiting,     \* the processes that read() put on the SIO queue
    reply        \* bytes the last call copied, or said it wrote

vars == <<node, dirs, used, data, files, waiting, reply>>

(* What _fs_clearInode leaves, and a descriptor that is not open.          *)
Free  == [inUse |-> FALSE, nBytes |-> 0, nBlocks |-> 0,
          block |-> [i \in 0 .. MaxBlocks - 1 |-> 0]]
Blank == [inode |-> 0, offset |-> 0]

TypeOK ==
    /\ node \in [Inodes -> [inUse : BOOLEAN, nBytes : 0 .. MaxLen,
                            nBlocks : 0 .. MaxBlocks,
                            block : [0 .. MaxBlocks - 1 -> Map \cup {0}]]]
    /\ dirs \subseteq Inodes
    /\ used \subseteq Map
    /\ data \in [Map \cup {0} -> [0 .. BlockSize - 1 -> Bytes]]
    /\ files \in [Procs -> [1 .. MaxOpen -> [inode : Inodes \cup {0}, offset : 0 .. MaxLen]]]
    /\ waiting \subseteq Procs
    /\ reply \in Seq(Bytes \cup {Input})

-----------------------------------------------------------------------------
(* Blocks.                                                                 *)

Ceil(n) == (n + BlockSize - 1) \div BlockSize

Cleared == [i \in 0 .. BlockSize - 1 |-> Zero]

(* _fs_alloc_block takes the lowest block that the map has free: the next k*)
(* of them.                                                                *)
Lowest(marked, i) ==
    CHOOSE b \in Map \ marked : Cardinality({c \in Map \ marked : c <= b}) = i

NextFreeFromZero(marked, k) ==           \* mutant: numbered from the first block
    [i \in 1 .. k |-> Lowest(marked, i) - 1]

NextFree(marked, k) == [i \in 1 .. k |-> Lowest(marked, i)]

(* The byte at an offset of a file.                                        *)
ByteAt(blocks, n, o) == blocks[n.block[o \div BlockSize]][o % BlockSize]

Content(n) == [k \in 1 .. n.nBytes |-> ByteAt(data, n, k - 1)]

(* The blocks after s was stored from offset o on in a file with these     *)
(* pointers: a block that is begun is cleared, a block that is continued   *)
(* is loaded first.                                                        *)
StoredCleared(blocks, pointer, o, s) ==  \* mutant: every block is cleared
    LET touched == o \div BlockSize .. Ceil(o + Len(s)) - 1
        Byte(i, old) ==
          LET at == i * BlockSize + old
          IN  IF at \in o .. o + Len(s) - 1 THEN s[at - o + 1] ELSE Zero
    IN  [b \in DOMAIN blocks |->
           IF \E i \in touched : pointer[i] = b
           THEN LET i == CHOOSE i \in touched : pointer[i] = b
                IN  [k \in 0 .. BlockSize - 1 |-> Byte(i, k)]
           ELSE blocks[b]]

Stored(blocks, pointer, o, s) ==
    LET touched == o \div BlockSize .. Ceil(o + Len(s)) - 1
        Byte(b, i, old) ==
          LET at == i * BlockSize + old
          IN  IF at \in o .. o + Len(s) - 1 THEN s[at - o + 1]
              ELSE IF i * BlockSize >= o THEN Zero ELSE blocks[b][old]
    IN  [b \in DOMAIN blocks |->
           IF \E i \in touched : pointer[i] = b
           THEN LET i == CHOOSE i \in touched : pointer[i] = b
                IN  [k \in 0 .. BlockSize - 1 |-> Byte(b, i, k)]
           ELSE blocks[b]]

(* An image that MakeFSImage made, and one file more by AddFile: blocks    *)
(* until the text is read, so that a text that ends with its block is given*)
(* another.                                                                *)
MadeImage ==
    [node |-> [x \in Inodes |-> Free], used |-> {},
     data |-> [b \in Map \cup {0} |->
                 IF b = 0 THEN [i \in 0 .. BlockSize - 1 |-> Inode] ELSE Cleared]]

BlocksOf(s) == Min({Len(s) \div BlockSize + 1, MaxBlocks})

AddFile(image, s) ==
    LET x == Min({y \in Inodes : ~image.node[y].inUse})
        blocks == NextFree(image.used, BlocksOf(s))
        pointer == [i \in 0 .. MaxBlocks - 1 |->
                      IF i < Len(blocks) THEN blocks[i + 1] ELSE 0]
    IN  [node |-> [image.node EXCEPT ![x] =
                     [inUse |-> TRUE, nBytes |-> Len(s),
                      nBlocks |-> Len(blocks), block |-> pointer]],
         used |-> image.used \cup ToSet(blocks),
         data |-> Stored(image.data, pointer, 0, s)]

ImageOf[k \in 0 .. Len(Added)] ==
    IF k = 0 THEN MadeImage ELSE AddFile(ImageOf[k - 1], Added[k])

(* AddFile fails, and leaves no image, when a block is missing.            *)
ASSUME ImageAssumption ==
    \A k \in 1 .. Len(Added) :
        BlocksOf(Added[k]) <= Cardinality(Map \ ImageOf[k - 1].used)

Image == ImageOf[Len(Added)]

Init ==
    /\ node = Image.node /\ dirs = {} /\ used = Image.used /\ data = Image.data
    /\ files = [p \in Procs |-> [fd \in 1 .. MaxOpen |-> Blank]]
    /\ waiting = {}
    /\ reply = <<>>

-----------------------------------------------------------------------------
(* Open files.                                                             *)

Open(p) == {fd \in 1 .. MaxOpen : files[p][fd] # Blank}

(* The bits of an inode that has been cleared allow root only; those of    *)
(* files are not told apart here.                                          *)
Permitted(p, x) == node[x].inUse \/ p \in Roots

(* _sys_fopen of a file, with or without append                            *)
FOpen(p, x, append) ==
    /\ node[x].inUse /\ x \notin dirs
    /\ Open(p) # 1 .. MaxOpen
    /\ LET fd == Min(1 .. MaxOpen \ Open(p))
       IN  files' = [files EXCEPT ![p][fd] =
                       [inode |-> x, offset |-> IF append THEN node[x].nBytes ELSE 0]]
    /\ reply' = <<>>
    /\ UNCHANGED <<node, dirs, used, data, waiting>>

(* _sys_fclose                                                             *)
FClose(p, fd) ==
    /\ fd \in Open(p)
    /\ files' = [files EXCEPT ![p][fd] = Blank]
    /\ reply' = <<>>
    /\ UNCHANGED <<node, dirs, used, data, waiting>>

(* A process exits and another takes its place: _proc_create has no file   *)
(* open.                                                                   *)
Replace(p) ==
    /\ p \notin waiting
    /\ Open(p) # {}
    /\ files' = [files EXCEPT ![p] = [fd \in 1 .. MaxOpen |-> Blank]]
    /\ reply' = <<>>
    /\ UNCHANGED <<node, dirs, used, data, waiting>>

(* _fs_setInode: of the inodes in its block only this one changes.         *)
Saved(x, n) == [node EXCEPT ![x] = n]

(* _sys_fcreate: a file is one byte long and has no block, a directory has *)
(* one entry.                                                              *)
FCreate(x, isFile) ==
    /\ {y \in Inodes : ~node[y].inUse} # {}
    /\ x = Min({y \in Inodes : ~node[y].inUse})
    /\ node' = [node EXCEPT ![x].inUse = TRUE, ![x].nBytes = 1]
    /\ dirs' = IF isFile THEN dirs ELSE dirs \cup {x}
    /\ reply' = <<>>
    /\ UNCHANGED <<used, data, files, waiting>>

Owned(n) == {n.block[i] : i \in 0 .. n.nBlocks - 1}

(* _sys_fremove of the last name: _fs_freeNode, which frees no block of a  *)
(* directory.  A directory with more than '..' stays.                      *)
FRemoveNotCleared(x) ==                  \* mutant: nBlocks is not reset
    /\ node[x].inUse /\ (x \in dirs => node[x].nBytes = 1)
    /\ used' = IF x \in dirs THEN used ELSE used \ Owned(node[x])
    /\ node' = [node EXCEPT ![x].inUse = FALSE, ![x].nBytes = 0]
    /\ dirs' = dirs \ {x}
    /\ reply' = <<>>
    /\ UNCHANGED <<data, files, waiting>>

FRemove(x) ==
    /\ node[x].inUse /\ (x \in dirs => node[x].nBytes = 1)
    /\ used' = IF x \in dirs THEN used ELSE used \ Owned(node[x])
    /\ node' = Saved(x, Free)
    /\ dirs' = dirs \ {x}
    /\ reply' = <<>>
    /\ UNCHANGED <<data, files, waiting>>

-----------------------------------------------------------------------------
(* Reading.                                                                *)

(* _fs_read                                                                *)
Copied(x, offset, length) ==
    SubSeq(Content(node[x]), offset + 1, offset + length)

ReadBytes(n, offset, length) ==
    IF offset >= n.nBytes THEN 0 ELSE Min({length, n.nBytes - offset})

(* _sys_read of a file: at the end E_EOF is returned; a read that copies   *)
(* nothing otherwise puts the process on the queue of SIO readers.         *)
Read(p, fd, length) ==
    LET x == files[p][fd].inode
        offset == files[p][fd].offset
        count == ReadBytes(node[x], offset, length)
    IN  /\ fd \in Open(p) /\ Permitted(p, x)
        /\ reply' = Copied(x, offset, count)
        /\ files' = [files EXCEPT ![p][fd].offset = @ + count]
        /\ waiting' = IF count = 0 /\ offset # node[x].nBytes THEN waiting \cup {p} ELSE waiting
        /\ UNCHANGED <<node, dirs, used, data>>

(* A character comes over the serial line: the first reader gets it.       *)
SioReceive(p) ==
    /\ p \in waiting
    /\ waiting' = waiting \ {p}
    /\ reply' = <<Input>>
    /\ UNCHANGED <<node, dirs, used, data, files>>

-----------------------------------------------------------------------------
(* Writing.                                                                *)

(* What _fs_write has written when it stops: all of s, or what fits in the *)
(* file, or in the blocks that are free.                                   *)
Fitting(n, s) ==
    LET room == Min({MaxLen, (n.nBlocks + Cardinality(Map \ used)) * BlockSize})
    IN  IF n.nBytes + Len(s) <= room THEN s ELSE SubSeq(s, 1, room - n.nBytes)

(* The inode with k bytes more, and the blocks for them.                   *)
ExtendedUncounted(n, k) ==               \* mutant: nBlocks does not grow
    LET more == IF k = 0 THEN 0 ELSE Max({Ceil(n.nBytes + k), n.nBlocks}) - n.nBlocks
        new  == NextFree(used, more)
    IN  [n EXCEPT !.block = [i \in DOMAIN n.block |->
                               IF i \in n.nBlocks .. n.nBlocks + more - 1
                               THEN new[i - n.nBlocks + 1] ELSE n.block[i]],
                  !.nBytes = @ + k]

Extended(n, k) ==
    LET more == IF k = 0 THEN 0 ELSE Max({Ceil(n.nBytes + k), n.nBlocks}) - n.nBlocks
        new  == NextFree(used, more)
    IN  [n EXCEPT !.block = [i \in DOMAIN n.block |->
                               IF i \in n.nBlocks .. n.nBlocks + more - 1
                               THEN new[i - n.nBlocks + 1] ELSE n.block[i]],
                  !.nBlocks = @ + more, !.nBytes = @ + k]

(* _fs_write and _sys_write, whatever the inode is by now.  The inode is   *)
(* written to the device last, when all of s was written and the file still*)
(* exists; a write stopped by the length of a file returns what it wrote   *)
(* all the same.                                                           *)
Write(p, fd, s) ==
    LET x == files[p][fd].inode
        n == node[x]
        written == Fitting(n, s)
        grown == Extended(n, Len(written))
    IN  /\ fd \in Open(p) /\ Permitted(p, x)
        /\ files[p][fd].offset = n.nBytes
        /\ data' = Stored(data, grown.block, n.nBytes, written)
        /\ used' = used \cup (Owned(grown) \ Owned(n))
        /\ files' = [files EXCEPT ![p][fd].offset = grown.nBytes]
        /\ node' = IF written = s /\ n.inUse THEN Saved(x, grown) ELSE node
        /\ reply' = IF (IF written = s THEN n.inUse ELSE grown.nBytes = MaxLen)
                    THEN written ELSE <<>>
        /\ UNCHANGED <<dirs, waiting>>

-----------------------------------------------------------------------------
(* A call is refused, as fclose of a channel that is not open always is.   *)
Refuse ==
    /\ reply' = <<>>
    /\ UNCHANGED <<node, dirs, used, data, files, waiting>>

Call(p) ==
    \/ \E x \in Inodes, append \in BOOLEAN : FOpen(p, x, append)
    \/ Replace(p) \/ Refuse
    \/ \E x \in Inodes : FRemove(x) \/ \E isFile \in BOOLEAN : FCreate(x, isFile)
    \/ \E fd \in Open(p) :
          \/ FClose(p, fd)
          \/ \E length \in Lengths : Read(p, fd, length)
          \/ \E s \in Strings : Write(p, fd, s)

Next ==
    \/ \E p \in Procs \ waiting : Call(p)
    \/ \E p \in waiting : SioReceive(p)

Spec == Init /\ [][Next]_vars

-----------------------------------------------------------------------------
(* Properties.                                                             *)

(* The blocks of the files are marked in the map, and no block is in two   *)
(* files or twice in one.                                                  *)
BlocksOwned ==
    /\ \A x \in Inodes : Owned(node[x]) \subseteq used
    /\ \A x, y \in Inodes :
          \A i \in 0 .. node[x].nBlocks - 1, j \in 0 .. node[y].nBlocks - 1 :
             node[x].block[i] = node[y].block[j] => x = y /\ i = j

(* The length of a file and its blocks agree, so that _fs_write never finds*)
(* a desync between write position and end of file, nor loads or stores a  *)
(* pointer it has not set.                                                 *)
NoDesync ==
    \A x \in Inodes : node[x].nBytes \div BlockSize <= node[x].nBlocks

(* Files, whatever happens to descriptors and blocks, are texts that grow  *)
(* at their end; what a read copies at once is of the text.                *)
Store == INSTANCE FileStore WITH
    Files <- Inodes, Texts <- UNION {Prefixes(s) : s \in Strings},
    text <- [x \in Inodes |-> Content(node[x])],
    reply <- IF reply = <<Input>> THEN <<>> ELSE reply

ImplementsStore == Store!Spec

-----------------------------------------------------------------------------
(* What the documents say and the code does not do.                        *)

(* kfs.c:267: _fs_write returns the number of bytes written to disk.       *)
WrittenIsKept ==
    [][\A p \in Procs : \A fd \in Open(p), s \in Strings :
          LET x == files[p][fd].inode
          IN  Write(p, fd, s) => node'[x].nBytes = node[x].nBytes + Len(reply')]_vars

(* fs.h:92: fOpen returns an error on a directory, so that no descriptor   *)
(* writes one.                                                             *)
DirsUnwritten == [][\A x \in dirs \cap dirs' : node'[x] = node[x]]_vars

(* ulib.h:61-65: read() reads from the stream of the channel it is given.  *)
ReadsItsChannel == [][reply' # <<Input>>]_vars
=============================================================================
