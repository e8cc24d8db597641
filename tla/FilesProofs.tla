----------------------------- MODULE FilesProofs -----------------------------
(***************************************************************************)
(* Proofs about the contents of files, for every number of inodes, blocks, *)
(* processes and open files and every size of a block: no block is lost to *)
(* its file or shared by two, lengths and blocks agree, and files are the  *)
(* texts of module FileStore.                                              *)
(***************************************************************************)
EXTENDS Files, QueueLemmas

-----------------------------------------------------------------------------
(* The inductive invariant, over any inodes and any map of blocks: images  *)
(* on their way to the first one of the system have it too.                *)

Pointers == 0 .. MaxBlocks - 1
NodeSet  == [inUse : BOOLEAN, nBytes : 0 .. MaxLen, nBlocks : 0 .. MaxBlocks,
             block : [Pointers -> Map \cup {0}]]
Disk     == [Map \cup {0} -> [0 .. BlockSize - 1 -> Bytes]]

(* A file lies in its blocks, but for the first byte of a new one, and the *)
(* pointers behind its blocks are 0.  Nothing is left of a removed file.   *)
NodeSound(n) ==
    /\ n \in NodeSet
    /\ n.nBytes <= n.nBlocks * BlockSize \/ n.nBytes = 1
    /\ \A i \in Pointers : i >= n.nBlocks => n.block[i] = 0
    /\ IF n.inUse THEN n.nBytes >= 1 ELSE n = Free

Apart(nodes) ==
    \A x, y \in Inodes :
       \A i \in 0 .. nodes[x].nBlocks - 1, j \in 0 .. nodes[y].nBlocks - 1 :
          nodes[x].block[i] = nodes[y].block[j] => x = y /\ i = j

NodesSound(nodes, marked) ==
    /\ nodes \in [Inodes -> NodeSet]
    /\ marked \subseteq Map
    /\ \A x \in Inodes : NodeSound(nodes[x]) /\ Owned(nodes[x]) \subseteq marked
    /\ Apart(nodes)

Descriptors == [inode : Inodes \cup {0}, offset : 0 .. MaxLen]

FilesOpen ==
    /\ files \in [Procs -> [1 .. MaxOpen -> Descriptors]]
    /\ \A p \in Procs, fd \in 1 .. MaxOpen : files[p][fd].inode = 0 => files[p][fd] = Blank

IInv ==
    /\ NodesSound(node, used)
    /\ data \in Disk
    /\ FilesOpen
    /\ dirs \subseteq Inodes
    /\ waiting \subseteq Procs
    /\ reply \in Seq(Bytes \cup {Input})

LEMMA ConstantsAre ==
    /\ NInodes \in Nat /\ NBlocks \in Nat /\ MaxOpen \in Nat \ {0}
    /\ BlockSize \in Nat \ {0, 1} /\ BlockSize \in Nat \ {0}
    /\ MaxBlocks \in Nat \ {0}
    /\ MaxLen \in Nat /\ MaxLen = MaxBlocks * BlockSize /\ MaxLen >= 1
  <1>1. /\ BlockSize \in Nat \ {0, 1} /\ BlockSize \in Nat \ {0} /\ MaxBlocks \in Nat \ {0}
        /\ NInodes \in Nat /\ NBlocks \in Nat /\ MaxOpen \in Nat \ {0}
    BY FilesAssumption
  <1>2. MaxBlocks * BlockSize \in Nat /\ MaxBlocks * BlockSize >= 1
    <2>1. \A a, b \in Nat \ {0} : a * b \in Nat /\ a * b >= 1
      OBVIOUS
    <2> QED  BY <1>1, <2>1
  <1> QED  BY <1>1, <1>2 DEF MaxLen

-----------------------------------------------------------------------------
(* Blocks of the map.                                                      *)

LEMMA FreeFinite ==
    ASSUME NEW marked
    PROVE  /\ Map \ marked \in SUBSET Nat
           /\ IsFiniteSet(Map \ marked)
           /\ Cardinality(Map \ marked) \in Nat
  <1>1. IsFiniteSet(Map) /\ Map \in SUBSET Nat
    BY ConstantsAre, FS_Interval DEF Map
  <1>2. Map \ marked \in SUBSET Map
    OBVIOUS
  <1>3. IsFiniteSet(Map \ marked)
    BY <1>1, <1>2, FS_Subset
  <1> QED  BY <1>1, <1>3, FS_CardinalityType

(* What _fs_alloc_block takes is free, and each time another.              *)
LEMMA NextFreeIs ==
    ASSUME NEW marked, NEW k \in 0 .. Cardinality(Map \ marked)
    PROVE  /\ NextFree(marked, k) \in [1 .. k -> Map \ marked]
           /\ Len(NextFree(marked, k)) = k
           /\ \A i, j \in 1 .. k : NextFree(marked, k)[i] = NextFree(marked, k)[j] => i = j
  <1> DEFINE F == Map \ marked
             upTo(b) == Cardinality({c \in F : c <= b})
  <1>1. F \in SUBSET Nat /\ IsFiniteSet(F) /\ Cardinality(F) \in Nat
    BY FreeFinite
  <1>2. ASSUME NEW i \in 1 .. k  PROVE Lowest(marked, i) \in F /\ upTo(Lowest(marked, i)) = i
    <2>1. i \in 1 .. Cardinality(F)
      BY <1>1
    <2>2. \E b \in F : upTo(b) = i
      <3> HIDE DEF F
      <3> QED  BY <1>1, <2>1, RankedMember
    <2>3. Lowest(marked, i) = CHOOSE b \in F : upTo(b) = i
      BY DEF Lowest
    <2> HIDE DEF F, upTo
    <2> QED  BY <2>2, <2>3
  <1> HIDE DEF upTo
  <1>3. NextFree(marked, k) \in [1 .. k -> F]
    BY <1>2 DEF NextFree
  <1>4. k \in Nat
    BY <1>1
  <1>5. Len(NextFree(marked, k)) = k
    BY <1>4 DEF NextFree
  <1>6. \A i \in 1 .. k : NextFree(marked, k)[i] = Lowest(marked, i)
    BY DEF NextFree
  <1> QED  BY <1>2, <1>3, <1>5, <1>6

-----------------------------------------------------------------------------
(* Offsets and blocks.                                                     *)

LEMMA OffsetIs ==
    ASSUME NEW o \in Nat, NEW i \in Nat
    PROVE  /\ o \div BlockSize \in Nat
           /\ o % BlockSize \in 0 .. BlockSize - 1
           /\ o = ((o \div BlockSize) * BlockSize) + (o % BlockSize)
           /\ i * BlockSize \in Nat
           /\ i <= o \div BlockSize <=> i * BlockSize <= o
  <1>1. BlockSize \in Nat \ {0}
    BY ConstantsAre
  <1>2. \A n \in Nat \ {0} : /\ o \div n \in Nat /\ o % n \in 0 .. n - 1
                             /\ o = ((o \div n) * n) + (o % n) /\ i * n \in Nat
    OBVIOUS
  <1> QED  BY <1>1, <1>2, WholePages

LEMMA CeilIs ==
    ASSUME NEW o \in Nat, NEW i \in Nat
    PROVE  /\ Ceil(o) \in Nat
           /\ Ceil(o) <= i <=> o <= i * BlockSize
  BY ConstantsAre, WholePages DEF Ceil

(* The block of a byte is one of those up to the end of the file.          *)
LEMMA BlockOfByte ==
    ASSUME NEW e \in Nat, NEW o \in 0 .. e - 1
    PROVE  o \div BlockSize \in 0 .. Ceil(e) - 1
  <1>1. o \in Nat /\ o < e
    OBVIOUS
  <1> DEFINE i == o \div BlockSize
  <1>2. i \in Nat /\ i * BlockSize <= o /\ i * BlockSize \in Nat
    <2>1. i \in Nat
      BY <1>1, OffsetIs
    <2> HIDE DEF i
    <2>2. i <= i
      BY <2>1
    <2> QED  BY <1>1, <2>1, <2>2, OffsetIs DEF i
  <1> HIDE DEF i
  <1>3. Ceil(e) \in Nat /\ ~(Ceil(e) <= i)
    BY <1>1, <1>2, CeilIs
  <1> QED  BY <1>2, <1>3 DEF i

(* A byte is in one place of one block.                                    *)
LEMMA ByteOfBlock ==
    ASSUME NEW i \in Nat, NEW k \in 0 .. BlockSize - 1
    PROVE  (i * BlockSize) + k \in Nat
  <1>1. i * BlockSize \in Nat
    BY OffsetIs
  <1>2. k \in Nat
    BY ConstantsAre
  <1> QED  BY <1>1, <1>2

-----------------------------------------------------------------------------
(* What a write leaves in the blocks.                                      *)

Touched(o, s) == o \div BlockSize .. Ceil(o + Len(s)) - 1

StoredByte(blocks, b, i, k, o, s) ==
    LET at == i * BlockSize + k
    IN  IF at \in o .. o + Len(s) - 1 THEN s[at - o + 1]
        ELSE IF i * BlockSize >= o THEN Zero ELSE blocks[b][k]

LEMMA StoredByteType ==
    ASSUME NEW blocks \in Disk, NEW b \in Map \cup {0}, NEW i \in Nat,
           NEW k \in 0 .. BlockSize - 1, NEW o \in Nat, NEW s \in Seq(Bytes)
    PROVE  StoredByte(blocks, b, i, k, o, s) \in Bytes
  <1> DEFINE at == i * BlockSize + k
  <1>1. at \in Nat /\ Len(s) \in Nat
    BY ByteOfBlock
  <1>2. blocks[b][k] \in Bytes /\ Zero \in Bytes
    BY DEF Disk, Bytes
  <1> HIDE DEF at
  <1>3. at \in o .. o + Len(s) - 1 => s[at - o + 1] \in Bytes
    <2> SUFFICES ASSUME at \in o .. o + Len(s) - 1 PROVE s[at - o + 1] \in Bytes
      OBVIOUS
    <2>1. at - o + 1 \in 1 .. Len(s)
      BY <1>1
    <2> QED  BY <2>1, ElementOfSeq
  <1> QED  BY <1>2, <1>3 DEF StoredByte, at

StoredAs(after, blocks, pointer, o, s) ==
    /\ after \in Disk
    /\ \A b \in Map \cup {0} :
          (\A i \in Touched(o, s) : pointer[i] # b) => after[b] = blocks[b]
    /\ \A i \in Touched(o, s), k \in 0 .. BlockSize - 1 :
          after[pointer[i]][k] = StoredByte(blocks, pointer[i], i, k, o, s)

LEMMA StoredIs ==
    ASSUME NEW blocks \in Disk, NEW pointer \in [Pointers -> Map \cup {0}],
           NEW o \in Nat, NEW s \in Seq(Bytes),
           Touched(o, s) \subseteq Pointers,
           \A i, j \in Touched(o, s) : pointer[i] = pointer[j] => i = j
    PROVE  StoredAs(Stored(blocks, pointer, o, s), blocks, pointer, o, s)
  <1> DEFINE touched == Touched(o, s)
             after == Stored(blocks, pointer, o, s)
             row(b, i) == [k \in 0 .. BlockSize - 1 |-> StoredByte(blocks, b, i, k, o, s)]
             hit(b) == \E i \in touched : pointer[i] = b
             which(b) == CHOOSE i \in touched : pointer[i] = b
  <1>1. DOMAIN blocks = Map \cup {0}
    BY DEF Disk
  <1>2. after = [b \in Map \cup {0} |-> IF hit(b) THEN row(b, which(b)) ELSE blocks[b]]
    BY <1>1 DEF Stored, StoredByte, Touched
  <1>3. \A b : hit(b) => which(b) \in touched /\ pointer[which(b)] = b
    OBVIOUS
  <1>4. \A i \in touched : i \in Nat /\ pointer[i] \in Map \cup {0}
    BY DEF Pointers
  <1> HIDE DEF after, hit, which, row
  <1>5. ASSUME NEW b \in Map \cup {0}  PROVE after[b] \in [0 .. BlockSize - 1 -> Bytes]
    <2>1. CASE hit(b)
      <3>1. which(b) \in Nat
        BY <1>3, <1>4, <2>1
      <3>2. row(b, which(b)) \in [0 .. BlockSize - 1 -> Bytes]
        BY <3>1, StoredByteType DEF row
      <3> QED  BY <1>2, <2>1, <3>2
    <2>2. CASE ~hit(b)
      BY <1>2, <2>2 DEF Disk
    <2> QED  BY <2>1, <2>2
  <1>6. after \in Disk
    BY <1>2, <1>5 DEF Disk
  <1>7. ASSUME NEW b \in Map \cup {0}, \A i \in touched : pointer[i] # b
        PROVE  after[b] = blocks[b]
    <2>1. ~hit(b)
      BY <1>7 DEF hit
    <2> QED  BY <1>2, <2>1
  <1>8. ASSUME NEW i \in touched, NEW k \in 0 .. BlockSize - 1
        PROVE  after[pointer[i]][k] = StoredByte(blocks, pointer[i], i, k, o, s)
    <2>1. hit(pointer[i])
      BY DEF hit
    <2>2. which(pointer[i]) = i
      BY <1>3, <2>1
    <2>3. after[pointer[i]] = row(pointer[i], i)
      BY <1>2, <1>4, <2>1, <2>2
    <2> QED  BY <2>3 DEF row
  <1> QED  BY <1>6, <1>7, <1>8 DEF after, StoredAs

-----------------------------------------------------------------------------
(* A file that grows by s: its old blocks stay, the new ones were free.    *)

Growing(n, g, s, marked) ==
    /\ g \in NodeSet
    /\ n.nBlocks <= g.nBlocks
    /\ \A i \in 0 .. n.nBlocks - 1 : g.block[i] = n.block[i]
    /\ \A i \in n.nBlocks .. g.nBlocks - 1 : g.block[i] \in Map \ marked
    /\ \A i, j \in n.nBlocks .. g.nBlocks - 1 : g.block[i] = g.block[j] => i = j
    /\ \A i \in Pointers : i >= g.nBlocks => g.block[i] = 0
    /\ g.nBytes = n.nBytes + Len(s)
    /\ Len(s) = 0 \/ g.nBytes <= g.nBlocks * BlockSize

LEMMA BlocksInMap ==
    ASSUME NEW nodes, NEW marked, NodesSound(nodes, marked), NEW x \in Inodes,
           NEW i \in 0 .. nodes[x].nBlocks - 1
    PROVE  /\ i \in Pointers
           /\ nodes[x].block[i] \in marked /\ nodes[x].block[i] \in Map
           /\ nodes[x].block[i] # 0
  <1>1. nodes[x] \in NodeSet /\ Owned(nodes[x]) \subseteq marked /\ marked \subseteq Map
    BY DEF NodesSound
  <1>2. nodes[x].nBlocks \in 0 .. MaxBlocks
    BY <1>1 DEF NodeSet
  <1>3. nodes[x].block[i] \in Owned(nodes[x])
    BY DEF Owned
  <1>4. i \in Pointers
    BY <1>2, ConstantsAre DEF Pointers
  <1>5. 0 \notin Map
    BY DEF Map
  <1> QED  BY <1>1, <1>3, <1>4, <1>5

(* All its pointers are different, and are those of no other file.         *)
PointsAlone(nodes, x, g, i) ==
    /\ g.block[i] \in Map /\ g.block[i] # 0 /\ i \in Pointers
    /\ \A j \in 0 .. g.nBlocks - 1 : g.block[i] = g.block[j] => i = j
    /\ \A y \in Inodes : \A j \in 0 .. nodes[y].nBlocks - 1 :
          g.block[i] = nodes[y].block[j] => x = y /\ i = j

LEMMA GrownApart ==
    ASSUME NEW nodes, NEW marked, NodesSound(nodes, marked), NEW x \in Inodes,
           NEW g, NEW s, Growing(nodes[x], g, s, marked),
           NEW i \in 0 .. g.nBlocks - 1
    PROVE  PointsAlone(nodes, x, g, i)
  <1> DEFINE n == nodes[x]
  <1>1. n.nBlocks \in Nat /\ g.nBlocks \in 0 .. MaxBlocks
    BY DEF NodesSound, NodeSet, Growing
  <1>2. \A j \in 0 .. g.nBlocks - 1 : j \in 0 .. n.nBlocks - 1 \/ j \in n.nBlocks .. g.nBlocks - 1
    BY <1>1
  <1>3. \A j \in 0 .. n.nBlocks - 1 : g.block[j] = n.block[j] /\ n.block[j] \in marked /\ n.block[j] # 0
    BY BlocksInMap DEF Growing
  <1>4. \A j \in n.nBlocks .. g.nBlocks - 1 : g.block[j] \in Map \ marked
    BY DEF Growing
  <1>5. marked \subseteq Map /\ Apart(nodes) /\ 0 \notin Map
    BY DEF NodesSound, Map
  <1>6. g.block[i] \in Map /\ g.block[i] # 0 /\ i \in Pointers
    BY <1>1, <1>2, <1>3, <1>4, <1>5, ConstantsAre DEF Pointers
  <1>7. ASSUME NEW y \in Inodes, NEW j \in 0 .. nodes[y].nBlocks - 1, g.block[i] = nodes[y].block[j]
        PROVE  x = y /\ i = j
    <2>1. nodes[y].block[j] \in marked
      BY BlocksInMap
    <2>2. i \in 0 .. n.nBlocks - 1
      BY <1>2, <1>4, <1>7, <2>1
    <2>3. n.block[i] = nodes[y].block[j]
      BY <1>3, <1>7, <2>2
    <2> QED  BY <1>5, <2>2, <2>3 DEF Apart
  <1>8. ASSUME NEW j \in 0 .. g.nBlocks - 1, g.block[i] = g.block[j]
        PROVE  i = j
    <2>1. CASE j \in 0 .. n.nBlocks - 1
      <3>1. g.block[i] = nodes[x].block[j]
        BY <1>3, <1>8, <2>1
      <3> QED  BY <1>7, <2>1, <3>1
    <2>2. CASE j \in n.nBlocks .. g.nBlocks - 1
      <3>1. i \in n.nBlocks .. g.nBlocks - 1
        BY <1>2, <1>3, <1>4, <1>8, <2>2
      <3> QED  BY <1>8, <2>2, <3>1 DEF Growing
    <2> QED  BY <1>2, <2>1, <2>2
  <1> QED  BY <1>6, <1>7, <1>8 DEF PointsAlone

LEMMA MoreMarked ==
    ASSUME NEW nodes, NEW marked, NodesSound(nodes, marked), NEW more \in SUBSET Map
    PROVE  NodesSound(nodes, marked \cup more)
  BY DEF NodesSound

LEMMA GrownSound ==
    ASSUME NEW nodes, NEW marked, NodesSound(nodes, marked), NEW x \in Inodes,
           NEW g, NEW s, Growing(nodes[x], g, s, marked), NodeSound(g)
    PROVE  NodesSound([nodes EXCEPT ![x] = g], marked \cup Owned(g))
  <1> DEFINE after == [nodes EXCEPT ![x] = g]
             all == marked \cup Owned(g)
  <1>1. /\ nodes \in [Inodes -> NodeSet] /\ marked \subseteq Map /\ Apart(nodes)
        /\ \A y \in Inodes : NodeSound(nodes[y]) /\ Owned(nodes[y]) \subseteq marked
    BY DEF NodesSound
  <1>2. g \in NodeSet
    BY DEF Growing
  <1>3. after \in [Inodes -> NodeSet] /\ after[x] = g /\ \A y \in Inodes \ {x} : after[y] = nodes[y]
    BY <1>1, <1>2
  <1>4. \A i \in 0 .. g.nBlocks - 1 :
           /\ g.block[i] \in Map
           /\ \A j \in 0 .. g.nBlocks - 1 : g.block[i] = g.block[j] => i = j
           /\ \A y \in Inodes : \A j \in 0 .. nodes[y].nBlocks - 1 :
                 g.block[i] = nodes[y].block[j] => x = y /\ i = j
    <2>1. \A i \in 0 .. g.nBlocks - 1 : PointsAlone(nodes, x, g, i)
      BY GrownApart
    <2> QED  BY <2>1 DEF PointsAlone
  <1> HIDE DEF after
  <1>5. Owned(g) \subseteq Map
    BY <1>4 DEF Owned
  <1>6. \A y \in Inodes : NodeSound(after[y]) /\ Owned(after[y]) \subseteq all
    BY <1>1, <1>3
  <1>7. Apart(after)
    <2> SUFFICES ASSUME NEW y \in Inodes, NEW z \in Inodes,
                        NEW i \in 0 .. after[y].nBlocks - 1, NEW j \in 0 .. after[z].nBlocks - 1,
                        after[y].block[i] = after[z].block[j]
                 PROVE  y = z /\ i = j
      BY DEF Apart
    <2>1. CASE y # x /\ z # x
      BY <1>1, <1>3, <2>1 DEF Apart
    <2>2. CASE y = x /\ z # x
      BY <1>3, <1>4, <2>2
    <2>3. CASE y # x /\ z = x
      BY <1>3, <1>4, <2>3
    <2>4. CASE y = x /\ z = x
      BY <1>3, <1>4, <2>4
    <2> QED  BY <2>1, <2>2, <2>3, <2>4
  <1> QED  BY <1>1, <1>3, <1>5, <1>6, <1>7 DEF NodesSound, after

(* _fs_freeNode gives back what only that file has.                        *)
LEMMA FreeSound == NodeSound(Free) /\ Owned(Free) = {} /\ Free.nBlocks = 0 /\ Free \in NodeSet
  <1>1. Free \in NodeSet
    BY ConstantsAre DEF Free, NodeSet, Pointers
  <1>2. Free.nBlocks = 0 /\ Free.nBytes = 0 /\ ~Free.inUse /\ \A i \in Pointers : Free.block[i] = 0
    BY DEF Free, Pointers
  <1>3. 0 * BlockSize = 0
    BY ConstantsAre
  <1>4. Owned(Free) = {}
    BY <1>2 DEF Owned
  <1> QED  BY <1>1, <1>2, <1>3, <1>4 DEF NodeSound

LEMMA FreedSound ==
    ASSUME NEW nodes, NEW marked, NodesSound(nodes, marked), NEW x \in Inodes
    PROVE  NodesSound([nodes EXCEPT ![x] = Free], marked \ Owned(nodes[x]))
  <1> DEFINE after == [nodes EXCEPT ![x] = Free]
  <1>1. /\ nodes \in [Inodes -> NodeSet] /\ marked \subseteq Map /\ Apart(nodes)
        /\ \A y \in Inodes : NodeSound(nodes[y]) /\ Owned(nodes[y]) \subseteq marked
    BY DEF NodesSound
  <1>2. after \in [Inodes -> NodeSet] /\ after[x] = Free /\ \A y \in Inodes \ {x} : after[y] = nodes[y]
    BY <1>1, FreeSound
  <1> HIDE DEF after
  <1>3. \A y \in Inodes \ {x} : Owned(nodes[y]) \cap Owned(nodes[x]) = {}
    BY <1>1 DEF Apart, Owned
  <1>4. \A y \in Inodes : NodeSound(after[y]) /\ Owned(after[y]) \subseteq marked \ Owned(nodes[x])
    BY <1>1, <1>2, <1>3, FreeSound
  <1>5. Apart(after)
    <2>1. \A y \in Inodes : 0 .. after[y].nBlocks - 1 # {} => y # x
      BY <1>2, FreeSound
    <2> QED  BY <1>1, <1>2, <2>1 DEF Apart
  <1> QED  BY <1>1, <1>2, <1>4, <1>5 DEF NodesSound, after

-----------------------------------------------------------------------------
(* What a write does to the bytes of files.                                *)

(* A write touches blocks of its file only, or rewrites one it has loaded. *)
LEMMA TouchedIs ==
    ASSUME NEW nodes, NEW marked, NodesSound(nodes, marked), NEW x \in Inodes,
           NEW g, NEW s \in Seq(Bytes), Growing(nodes[x], g, s, marked)
    PROVE  /\ nodes[x].nBytes \in Nat /\ Len(s) \in Nat /\ g.nBlocks \in 0 .. MaxBlocks
           /\ Touched(nodes[x].nBytes, s) \subseteq Pointers
           /\ Len(s) > 0 => Touched(nodes[x].nBytes, s) \subseteq 0 .. g.nBlocks - 1
           /\ Len(s) = 0 => Touched(nodes[x].nBytes, s) \subseteq {nodes[x].nBytes \div BlockSize}
  <1> DEFINE o == nodes[x].nBytes
             e == o + Len(s)
  <1>1. o \in Nat /\ Len(s) \in Nat /\ e \in Nat /\ g.nBlocks \in 0 .. MaxBlocks /\ e <= MaxLen
    <2>1. nodes[x] \in NodeSet /\ g \in NodeSet /\ g.nBytes = e
      BY DEF NodesSound, Growing
    <2> QED  BY <2>1, ConstantsAre DEF NodeSet
  <1>2. o \div BlockSize \in Nat /\ Ceil(e) \in Nat
    BY <1>1, OffsetIs, CeilIs
  <1>3. Ceil(e) <= MaxBlocks
    <2> HIDE DEF e
    <2> QED  BY <1>1, ConstantsAre, CeilIs
  <1>4. Len(s) > 0 => Ceil(e) <= g.nBlocks
    <2> SUFFICES ASSUME Len(s) > 0 PROVE Ceil(e) <= g.nBlocks
      OBVIOUS
    <2>1. e <= g.nBlocks * BlockSize
      BY DEF Growing
    <2> HIDE DEF e
    <2> QED  BY <1>1, <2>1, CeilIs
  <1>5. Len(s) = 0 => Ceil(e) <= o \div BlockSize + 1
    <2> SUFFICES ASSUME Len(s) = 0 PROVE Ceil(o) <= o \div BlockSize + 1
      BY <1>1
    <2> DEFINE i == o \div BlockSize + 1
    <2>1. i \in Nat /\ ~(i <= o \div BlockSize)
      BY <1>2
    <2> HIDE DEF i
    <2>2. i * BlockSize \in Nat /\ ~(i * BlockSize <= o)
      BY <1>1, <2>1, OffsetIs
    <2> HIDE DEF o
    <2>3. Ceil(o) <= i
      BY <1>1, <2>1, <2>2, CeilIs
    <2> QED  BY <2>3 DEF i
  <1>6. Touched(o, s) = o \div BlockSize .. Ceil(e) - 1
    BY DEF Touched
  <1> HIDE DEF o, e
  <1>7. Touched(o, s) \subseteq Pointers
    BY <1>2, <1>3, <1>6, ConstantsAre DEF Pointers
  <1>8. Len(s) > 0 => Touched(o, s) \subseteq 0 .. g.nBlocks - 1
    BY <1>1, <1>2, <1>4, <1>6
  <1>9. Len(s) = 0 => Touched(o, s) \subseteq {o \div BlockSize}
    BY <1>2, <1>5, <1>6
  <1> QED  BY <1>1, <1>7, <1>8, <1>9 DEF o

(* Behind the old end of the file are the new bytes; what is before it in  *)
(* a block that is continued stays.                                        *)
LEMMA StoredBytes ==
    ASSUME NEW nodes, NEW marked, NodesSound(nodes, marked), NEW x \in Inodes,
           NEW g, NEW s \in Seq(Bytes), Growing(nodes[x], g, s, marked), NEW blocks \in Disk
    PROVE  StoredAs(Stored(blocks, g.block, nodes[x].nBytes, s),
                    blocks, g.block, nodes[x].nBytes, s)
  <1> DEFINE o == nodes[x].nBytes
  <1>1. o \in Nat /\ Touched(o, s) \subseteq Pointers
    BY TouchedIs
  <1>2. g.block \in [Pointers -> Map \cup {0}]
    BY DEF Growing, NodeSet
  <1>3. \A i, j \in Touched(o, s) : g.block[i] = g.block[j] => i = j
    <2>1. CASE Len(s) = 0
      <3>1. Touched(o, s) \subseteq {o \div BlockSize}
        BY <2>1, TouchedIs
      <3> QED  BY <3>1
    <2>2. CASE Len(s) > 0
      <3>1. Touched(o, s) \subseteq 0 .. g.nBlocks - 1
        BY <2>2, TouchedIs
      <3>2. \A i \in 0 .. g.nBlocks - 1 : PointsAlone(nodes, x, g, i)
        BY GrownApart
      <3> QED  BY <3>1, <3>2 DEF PointsAlone
    <2>3. Len(s) \in Nat
      OBVIOUS
    <2> QED  BY <2>1, <2>2, <2>3
  <1> HIDE DEF o
  <1> QED  BY <1>1, <1>2, <1>3, StoredIs DEF o

(* Every byte that a file had it still has, in the file that grows and in  *)
(* every other.                                                            *)
LEMMA BytesKept ==
    ASSUME NEW nodes, NEW marked, NodesSound(nodes, marked), NEW x \in Inodes,
           NEW g, NEW s \in Seq(Bytes), Growing(nodes[x], g, s, marked), NEW blocks \in Disk,
           NEW y \in Inodes, NEW at \in 0 .. nodes[y].nBytes - 1
    PROVE  ByteAt(Stored(blocks, g.block, nodes[x].nBytes, s), nodes[y], at)
              = ByteAt(blocks, nodes[y], at)
  <1> DEFINE o == nodes[x].nBytes
             after == Stored(blocks, g.block, o, s)
             i == at \div BlockSize
             k == at % BlockSize
             b == nodes[y].block[i]
  <1>1. /\ \A c \in Map \cup {0} :
              (\A j \in Touched(o, s) : g.block[j] # c) => after[c] = blocks[c]
        /\ \A j \in Touched(o, s) : \A l \in 0 .. BlockSize - 1 :
              after[g.block[j]][l] = StoredByte(blocks, g.block[j], j, l, o, s)
    BY StoredBytes DEF StoredAs
  <1>2. /\ o \in Nat /\ Len(s) \in Nat /\ g.nBlocks \in 0 .. MaxBlocks
        /\ Touched(o, s) \subseteq Pointers
        /\ Len(s) > 0 => Touched(o, s) \subseteq 0 .. g.nBlocks - 1
        /\ Len(s) = 0 => Touched(o, s) \subseteq {o \div BlockSize}
    BY TouchedIs
  <1>3. nodes[y] \in NodeSet /\ NodeSound(nodes[y])
    BY DEF NodesSound
  <1>4. nodes[y].nBytes \in 0 .. MaxLen /\ nodes[y].nBlocks \in 0 .. MaxBlocks
    BY <1>3 DEF NodeSet
  <1>5. at \in Nat /\ at < nodes[y].nBytes
    BY <1>4, ConstantsAre
  <1>6. i \in Nat /\ k \in 0 .. BlockSize - 1 /\ at = (i * BlockSize) + k /\ i * BlockSize \in Nat
    <2>1. /\ at \div BlockSize \in Nat /\ at % BlockSize \in 0 .. BlockSize - 1
          /\ at = ((at \div BlockSize) * BlockSize) + (at % BlockSize)
      BY <1>5, OffsetIs
    <2>2. (at \div BlockSize) * BlockSize \in Nat
      BY <1>5, <2>1, OffsetIs
    <2> QED  BY <2>1, <2>2
  <1>7. i \in Pointers
    <2>1. Ceil(nodes[y].nBytes) <= MaxBlocks /\ Ceil(nodes[y].nBytes) \in Nat
      <3> DEFINE e == nodes[y].nBytes
      <3>1. e \in Nat /\ e <= MaxBlocks * BlockSize /\ MaxBlocks \in Nat
        BY <1>4, ConstantsAre
      <3> HIDE DEF e
      <3> QED  BY <3>1, CeilIs DEF e
    <2>2. i \in 0 .. Ceil(nodes[y].nBytes) - 1
      BY <1>4, <1>5, BlockOfByte
    <2> QED  BY <2>1, <2>2, ConstantsAre DEF Pointers
  <1>8. b \in Map \cup {0} /\ (i >= nodes[y].nBlocks => b = 0)
    BY <1>3, <1>7 DEF NodeSet, NodeSound
  <1>9. ASSUME NEW j \in Touched(o, s), g.block[j] = b
        PROVE  after[b][k] = blocks[b][k]
    <2>1. CASE Len(s) = 0
      <3>1. j \in Nat /\ j < Ceil(o) /\ o + Len(s) = o
        <4>1. Touched(o, s) = o \div BlockSize .. Ceil(o) - 1 /\ o + Len(s) = o
          BY <1>2, <2>1 DEF Touched
        <4>2. Ceil(o) \in Nat /\ o \div BlockSize \in Nat
          BY <1>2, CeilIs, OffsetIs
        <4> HIDE DEF o
        <4> QED  BY <4>1, <4>2
      <3> HIDE DEF o, b, k
      <3>2. /\ Ceil(o) \in Nat /\ (Ceil(o) <= j <=> o <= j * BlockSize)
            /\ j * BlockSize \in Nat
        BY <1>2, <3>1, CeilIs, OffsetIs
      <3>3. ~(j * BlockSize >= o)
        BY <1>2, <3>1, <3>2
      <3>4. StoredByte(blocks, b, j, k, o, s) = blocks[b][k]
        <4>1. o .. o + Len(s) - 1 = {}
          BY <1>2, <2>1
        <4> QED  BY <3>3, <4>1 DEF StoredByte
      <3> QED  BY <1>1, <1>6, <1>9, <3>4
    <2>2. CASE Len(s) > 0
      <3>1. PointsAlone(nodes, x, g, j)
        BY <1>2, <2>2, GrownApart
      <3>2. i \in 0 .. nodes[y].nBlocks - 1
        <4>1. b # 0
          BY <1>9, <3>1 DEF PointsAlone
        <4> HIDE DEF b, i
        <4> QED  BY <1>4, <1>6, <1>8, <4>1
      <3>3. x = y /\ i = j
        BY <1>9, <3>1, <3>2 DEF PointsAlone
      <3>4. at < o /\ i * BlockSize <= at
        <4> HIDE DEF i, k
        <4> QED  BY <1>2, <1>5, <1>6, <3>3
      <3>5. StoredByte(blocks, b, i, k, o, s) = blocks[b][k]
        <4>1. at \notin o .. o + Len(s) - 1 /\ ~(i * BlockSize >= o)
          <5> HIDE DEF i, o
          <5> QED  BY <1>2, <1>5, <1>6, <3>4
        <4> HIDE DEF i, k, b, o
        <4> QED  BY <1>6, <4>1 DEF StoredByte
      <3> HIDE DEF b, i, k, o, after
      <3> QED  BY <1>1, <1>6, <1>9, <3>3, <3>5
    <2> QED  BY <1>2, <2>1, <2>2
  <1>10. after[b][k] = blocks[b][k]
    <2> HIDE DEF b, k, after, o, i
    <2> QED  BY <1>1, <1>8, <1>9
  <1> QED  BY <1>10 DEF ByteAt

(* The bytes that are written are behind those that were there.            *)
LEMMA BytesAdded ==
    ASSUME NEW nodes, NEW marked, NodesSound(nodes, marked), NEW x \in Inodes,
           NEW g, NEW s \in Seq(Bytes), Growing(nodes[x], g, s, marked), NEW blocks \in Disk,
           NEW at \in nodes[x].nBytes .. nodes[x].nBytes + Len(s) - 1
    PROVE  ByteAt(Stored(blocks, g.block, nodes[x].nBytes, s), g, at)
              = s[at - nodes[x].nBytes + 1]
  <1> DEFINE o == nodes[x].nBytes
             e == o + Len(s)
             after == Stored(blocks, g.block, o, s)
             i == at \div BlockSize
             k == at % BlockSize
             b == g.block[i]
  <1>1. \A j \in Touched(o, s) : \A l \in 0 .. BlockSize - 1 :
              after[g.block[j]][l] = StoredByte(blocks, g.block[j], j, l, o, s)
    BY StoredBytes DEF StoredAs
  <1>2. o \in Nat /\ e \in Nat /\ Len(s) \in Nat /\ at \in Nat /\ o <= at /\ at \in 0 .. e - 1
    <2>1. o \in Nat /\ Len(s) \in Nat
      BY TouchedIs
    <2> QED  BY <2>1
  <1>3. i \in Nat /\ k \in 0 .. BlockSize - 1 /\ at = (i * BlockSize) + k
    BY <1>2, OffsetIs
  <1>4. i \in Touched(o, s)
    <2>1. i \in 0 .. Ceil(e) - 1
      <3> HIDE DEF e
      <3> QED  BY <1>2, BlockOfByte
    <2>2. o \div BlockSize <= i
      <3> DEFINE j == o \div BlockSize
      <3>0. j \in Nat
        BY <1>2, OffsetIs
      <3> HIDE DEF j
      <3>1. j \in Nat /\ j <= j
        BY <3>0
      <3>2. j * BlockSize \in Nat /\ j * BlockSize <= o
        <4>1. j <= o \div BlockSize
          BY <3>1 DEF j
        <4> HIDE DEF o
        <4> QED  BY <1>2, <3>1, <4>1, OffsetIs
      <3>3. j * BlockSize <= at
        BY <1>2, <3>2
      <3>4. j <= i
        BY <1>2, <3>1, <3>3, OffsetIs
      <3> QED  BY <3>4 DEF j
    <2>3. o \div BlockSize \in Nat /\ Ceil(e) \in Nat /\ Touched(o, s) = o \div BlockSize .. Ceil(e) - 1
      BY <1>2, OffsetIs, CeilIs DEF Touched
    <2> HIDE DEF o, e, i
    <2> QED  BY <2>1, <2>2, <2>3
  <1>5. StoredByte(blocks, b, i, k, o, s) = s[at - o + 1]
    <2>1. at \in o .. o + Len(s) - 1
      OBVIOUS
    <2> HIDE DEF b, i, k, o
    <2> QED  BY <1>3, <2>1 DEF StoredByte
  <1>6. after[b][k] = s[at - o + 1]
    <2> HIDE DEF i, k, o, after
    <2> QED  BY <1>1, <1>3, <1>4, <1>5
  <1> QED  BY <1>6 DEF ByteAt

(* The bytes of blocks that a file had are in them still.                  *)
SameBytes(n, g) ==
    \A blocks, at : at \in 0 .. n.nBytes - 1 => ByteAt(blocks, g, at) = ByteAt(blocks, n, at)

LEMMA BytesShared ==
    ASSUME NEW nodes, NEW marked, NodesSound(nodes, marked), NEW x \in Inodes,
           NEW g, NEW s, Growing(nodes[x], g, s, marked),
           nodes[x].nBytes <= nodes[x].nBlocks * BlockSize
    PROVE  SameBytes(nodes[x], g)
  <1> SUFFICES ASSUME NEW blocks, NEW at \in 0 .. nodes[x].nBytes - 1
               PROVE  ByteAt(blocks, g, at) = ByteAt(blocks, nodes[x], at)
    BY DEF SameBytes
  <1> DEFINE o == nodes[x].nBytes
             m == nodes[x].nBlocks
  <1>1. o \in Nat /\ m \in Nat
    <2>1. nodes[x] \in NodeSet
      BY DEF NodesSound
    <2> QED  BY <2>1, ConstantsAre DEF NodeSet
  <1>2. at \div BlockSize \in 0 .. Ceil(o) - 1
    <2>1. at \in 0 .. o - 1
      OBVIOUS
    <2> HIDE DEF o
    <2> QED  BY <1>1, <2>1, BlockOfByte
  <1>3. Ceil(o) \in Nat /\ Ceil(o) <= m
    <2>1. o <= m * BlockSize
      OBVIOUS
    <2> HIDE DEF o, m
    <2> QED  BY <1>1, <2>1, CeilIs
  <1>4. at \div BlockSize \in 0 .. m - 1
    <2> HIDE DEF o, m
    <2> QED  BY <1>1, <1>2, <1>3
  <1> QED  BY <1>4 DEF Growing, ByteAt

LEMMA ByteType ==
    ASSUME NEW blocks \in Disk, NEW n \in NodeSet, NEW at \in 0 .. n.nBytes - 1
    PROVE  ByteAt(blocks, n, at) \in Bytes
  <1> DEFINE e == n.nBytes
             i == at \div BlockSize
  <1>1. e \in Nat /\ e <= MaxBlocks * BlockSize /\ MaxBlocks \in Nat /\ at \in 0 .. e - 1
    BY ConstantsAre DEF NodeSet
  <1>2. n.block \in [Pointers -> Map \cup {0}]
    BY DEF NodeSet
  <1> HIDE DEF e
  <1>3. Ceil(e) \in Nat /\ Ceil(e) <= MaxBlocks
    BY <1>1, CeilIs
  <1>4. at \div BlockSize \in 0 .. Ceil(e) - 1
    BY <1>1, BlockOfByte
  <1>5. i \in Pointers
    BY <1>1, <1>3, <1>4 DEF Pointers
  <1>6. at % BlockSize \in 0 .. BlockSize - 1
    BY <1>1, OffsetIs
  <1> QED  BY <1>2, <1>5, <1>6 DEF ByteAt, Disk

LEMMA ContentIs ==
    ASSUME NEW n \in NodeSet, data \in Disk
    PROVE  /\ Content(n) \in Seq(Bytes)
           /\ Len(Content(n)) = n.nBytes /\ n.nBytes \in 0 .. MaxLen
           /\ \A k \in 1 .. n.nBytes : Content(n)[k] = ByteAt(data, n, k - 1)
  <1>1. n.nBytes \in Nat /\ n.nBytes \in 0 .. MaxLen
    BY ConstantsAre DEF NodeSet
  <1>2. \A k \in 1 .. n.nBytes : k - 1 \in 0 .. n.nBytes - 1
    BY <1>1
  <1>3. \A k \in 1 .. n.nBytes : ByteAt(data, n, k - 1) \in Bytes
    BY <1>2, ByteType
  <1>4. Content(n) \in [1 .. n.nBytes -> Bytes]
    BY <1>3 DEF Content
  <1>5. \A k \in 1 .. n.nBytes : Content(n)[k] = ByteAt(data, n, k - 1)
    BY DEF Content
  <1>6. Content(n) \in Seq(Bytes) /\ Len(Content(n)) = n.nBytes
    <2> DEFINE m == n.nBytes
    <2> HIDE DEF m
    <2> QED  BY <1>1, <1>4 DEF m
  <1> QED  BY <1>1, <1>5, <1>6

-----------------------------------------------------------------------------
(* How much _fs_write writes, and which blocks it takes for that.          *)

LEMMA PrefixIs ==
    ASSUME NEW S, NEW s \in Seq(S), NEW k \in Int, k <= Len(s)
    PROVE  /\ SubSeq(s, 1, k) \in Seq(S)
           /\ Len(SubSeq(s, 1, k)) = IF k >= 0 THEN k ELSE 0
           /\ SubSeq(s, 1, k) \in Prefixes(s)
           /\ \A i \in 1 .. k : SubSeq(s, 1, k)[i] = s[i]
  <1>1. Len(s) \in Nat
    OBVIOUS
  <1>2. CASE k >= 0
    <2>1. SubSeq(s, 1, k) \in Prefixes(s)
      BY <1>1, <1>2 DEF Prefixes
    <2> QED  BY <1>1, <1>2, <2>1, SubSeqProperties
  <1>3. CASE k < 0
    <2>1. SubSeq(s, 1, k) = <<>>
      <3>1. 1 .. (1 + k) - 1 = {} /\ 1 .. k = {}
        BY <1>3
      <3> QED  BY <1>3, <3>1
    <2>2. <<>> \in Prefixes(s)
      BY DEF Prefixes
    <2>3. \A i \in 1 .. k : FALSE
      BY <1>3
    <2>4. <<>> \in Seq(S) /\ Len(<<>>) = 0
      OBVIOUS
    <2> DEFINE p == SubSeq(s, 1, k)
    <2>5. p = <<>> /\ p \in Prefixes(s)
      BY <2>1, <2>2
    <2> HIDE DEF p
    <2>6. /\ p \in Seq(S) /\ Len(p) = IF k >= 0 THEN k ELSE 0
          /\ \A i \in 1 .. k : p[i] = s[i]
      BY <1>3, <2>3, <2>4, <2>5
    <2> QED  BY <2>5, <2>6 DEF p
  <1> QED  BY <1>2, <1>3

Room(n) == Min({MaxLen, (n.nBlocks + Cardinality(Map \ used)) * BlockSize})

LEMMA FittingIs ==
    ASSUME IInv, NEW x \in Inodes, NEW S, NEW s \in Seq(S)
    PROVE  LET n == node[x]
               w == Fitting(n, s)
           IN  /\ w \in Seq(S) /\ w \in Prefixes(s) /\ Len(w) \in 0 .. Len(s)
               /\ n.nBytes + Len(w) <= MaxLen
               /\ \/ Len(w) = 0
                  \/ n.nBytes + Len(w) <= (n.nBlocks + Cardinality(Map \ used)) * BlockSize
  <1> DEFINE n == node[x]
             o == n.nBytes
             m == (n.nBlocks + Cardinality(Map \ used)) * BlockSize
             r == Room(n)
             w == Fitting(n, s)
  <1>1. o \in Nat /\ o <= MaxLen /\ MaxLen \in Nat /\ m \in Nat /\ Len(s) \in Nat
    <2>1. n \in NodeSet
      BY DEF IInv, NodesSound
    <2>2. n.nBlocks \in Nat /\ n.nBytes \in 0 .. MaxLen
      <3> HIDE DEF n
      <3>1. n.nBlocks \in 0 .. MaxBlocks /\ n.nBytes \in 0 .. MaxLen /\ MaxBlocks \in Nat
        BY <2>1, ConstantsAre DEF NodeSet
      <3> QED  BY <3>1
    <2>3. n.nBlocks + Cardinality(Map \ used) \in Nat
      <3>1. Cardinality(Map \ used) \in Nat
        BY FreeFinite
      <3> DEFINE q == n.nBlocks
                 f == Cardinality(Map \ used)
      <3> HIDE DEF q, f, n
      <3>2. q \in Nat /\ f \in Nat
        BY <2>2, <3>1 DEF q, f
      <3> QED  BY <3>2 DEF q, f
    <2>4. m \in Nat
      <3> DEFINE q == n.nBlocks + Cardinality(Map \ used)
      <3> HIDE DEF q
      <3> QED  BY <2>3, ConstantsAre DEF q
    <2> QED  BY <2>2, <2>4, ConstantsAre
  <1>2. r = IF MaxLen <= m THEN MaxLen ELSE m
    <2> HIDE DEF m
    <2> QED  BY <1>1, MinOfTwo DEF Room, m
  <1>3. w = IF o + Len(s) <= r THEN s ELSE SubSeq(s, 1, r - o)
    BY DEF Fitting, Room
  <1> HIDE DEF w, r, m, o
  <1>4. CASE o + Len(s) <= r
    <2>1. w = s
      BY <1>3, <1>4
    <2>2. s \in Prefixes(s)
      <3>1. SubSeq(s, 1, Len(s)) = s
        <4>1. Len(SubSeq(s, 1, Len(s))) = Len(s)
           /\ \A i \in 1 .. Len(s) : SubSeq(s, 1, Len(s))[i] = s[i]
           /\ SubSeq(s, 1, Len(s)) \in Seq(S)
          BY <1>1, PrefixIs
        <4> QED  BY <4>1, SeqEqual
      <3>2. SubSeq(s, 1, Len(s)) \in Prefixes(s)
        BY <1>1, PrefixIs
      <3> QED  BY <3>1, <3>2
    <2>3. o + Len(s) <= MaxLen /\ o + Len(s) <= m
      BY <1>1, <1>2, <1>4
    <2> QED  BY <1>1, <2>1, <2>2, <2>3 DEF w, o, m
  <1>5. CASE ~(o + Len(s) <= r)
    <2>1. r - o \in Int /\ r - o <= Len(s)
      BY <1>1, <1>2, <1>5
    <2>2. w = SubSeq(s, 1, r - o)
      BY <1>3, <1>5
    <2>3. /\ w \in Seq(S) /\ w \in Prefixes(s)
          /\ Len(w) = IF r - o >= 0 THEN r - o ELSE 0
      BY <2>1, <2>2, PrefixIs
    <2>4. o + Len(w) <= MaxLen /\ (Len(w) = 0 \/ o + Len(w) <= m) /\ Len(w) \in 0 .. Len(s)
      BY <1>1, <1>2, <2>1, <2>3
    <2> QED  BY <2>3, <2>4 DEF w, o, m
  <1> QED  BY <1>4, <1>5

LEMMA ExtendedIs ==
    ASSUME IInv, NEW x \in Inodes, NEW s \in Seq(Bytes),
           node[x].nBytes + Len(s) <= MaxLen,
           \/ Len(s) = 0
           \/ node[x].nBytes + Len(s) <= (node[x].nBlocks + Cardinality(Map \ used)) * BlockSize
    PROVE  /\ Growing(node[x], Extended(node[x], Len(s)), s, used)
           /\ Extended(node[x], Len(s)).inUse = node[x].inUse
           /\ node[x].inUse => NodeSound(Extended(node[x], Len(s)))
           /\ Len(s) = 0 => Extended(node[x], Len(s)) = node[x]
  <1> DEFINE n == node[x]
             k == Len(s)
             c == Ceil(n.nBytes + k)
             more == IF k = 0 THEN 0 ELSE Max({c, n.nBlocks}) - n.nBlocks
             new == NextFree(used, more)
             g == Extended(n, k)
             free == Cardinality(Map \ used)
  <1>1. n \in NodeSet /\ NodeSound(n)
    BY DEF IInv, NodesSound
  <1>2. /\ n.nBytes \in Nat /\ n.nBlocks \in 0 .. MaxBlocks /\ k \in Nat /\ n.nBytes + k \in Nat
        /\ n.block \in [Pointers -> Map \cup {0}] /\ n.inUse \in BOOLEAN
    BY <1>1, ConstantsAre DEF NodeSet
  <1>3. free \in Nat
    BY FreeFinite
  <1>4. c \in Nat /\ c <= MaxBlocks /\ (k = 0 \/ c <= n.nBlocks + free)
    <2> DEFINE e == n.nBytes + k
               q == n.nBlocks + free
    <2>1. e \in Nat /\ q \in Nat /\ e <= MaxBlocks * BlockSize /\ (k = 0 \/ e <= q * BlockSize)
      BY <1>2, <1>3, ConstantsAre
    <2> HIDE DEF e, q
    <2>2. c = Ceil(e)
      BY DEF e
    <2> HIDE DEF c
    <2>3. c \in Nat /\ c <= MaxBlocks /\ (k = 0 \/ c <= q)
      BY <2>1, <2>2, CeilIs, ConstantsAre
    <2> QED  BY <2>3 DEF q
  <1>5. Max({c, n.nBlocks}) = IF c >= n.nBlocks THEN c ELSE n.nBlocks
    <2> HIDE DEF c
    <2> QED  BY <1>2, <1>4, MaxOfTwo
  <1>6. /\ more \in 0 .. free
        /\ n.nBlocks + more \in 0 .. MaxBlocks
        /\ k = 0 => more = 0
        /\ k # 0 => c <= n.nBlocks + more
    <2> DEFINE top == Max({c, n.nBlocks})
               m == n.nBlocks
    <2>1. more = IF k = 0 THEN 0 ELSE top - m
      OBVIOUS
    <2>2. top = IF c >= m THEN c ELSE m
      BY <1>5
    <2>3. /\ m \in Nat /\ m <= MaxBlocks /\ MaxBlocks \in Nat /\ k \in Nat /\ free \in Nat
          /\ c \in Nat /\ c <= MaxBlocks /\ (k = 0 \/ c <= m + free)
      BY <1>2, <1>3, <1>4, ConstantsAre
    <2> HIDE DEF c, k, top, m, free, more
    <2>4. /\ more \in 0 .. free
          /\ m + more \in 0 .. MaxBlocks
          /\ k = 0 => more = 0
          /\ k # 0 => c <= m + more
      BY <2>1, <2>2, <2>3
    <2> QED  BY <2>4 DEF m
  <1>7. g = [n EXCEPT !.block = [i \in Pointers |->
                                   IF i \in n.nBlocks .. n.nBlocks + more - 1
                                   THEN new[i - n.nBlocks + 1] ELSE n.block[i]],
                      !.nBlocks = @ + more, !.nBytes = @ + k]
    BY <1>2 DEF Extended
  <1> HIDE DEF more
  <1>8. /\ new \in [1 .. more -> Map \ used]
        /\ \A i, j \in 1 .. more : new[i] = new[j] => i = j
    BY <1>6, NextFreeIs
  <1> HIDE DEF new, g, c, k, n
  <1>9. /\ g.inUse = n.inUse /\ g.nBlocks = n.nBlocks + more /\ g.nBytes = n.nBytes + k
        /\ \A i \in Pointers : g.block[i] = IF i \in n.nBlocks .. n.nBlocks + more - 1
                                            THEN new[i - n.nBlocks + 1] ELSE n.block[i]
    BY <1>1, <1>7 DEF NodeSet
  <1>10. \A i \in n.nBlocks .. n.nBlocks + more - 1 :
            i \in Pointers /\ i - n.nBlocks + 1 \in 1 .. more
    BY SMTT(30), <1>2, <1>6, ConstantsAre DEF Pointers
  <1>11. \A i \in n.nBlocks .. g.nBlocks - 1 :
             g.block[i] = new[i - n.nBlocks + 1] /\ i - n.nBlocks + 1 \in 1 .. more
    <2> SUFFICES ASSUME NEW i \in n.nBlocks .. g.nBlocks - 1
                 PROVE  g.block[i] = new[i - n.nBlocks + 1] /\ i - n.nBlocks + 1 \in 1 .. more
      OBVIOUS
    <2>1. i \in n.nBlocks .. n.nBlocks + more - 1
      <3>1. g.nBlocks = n.nBlocks + more
        BY <1>9
      <3>2. n.nBlocks \in Nat /\ more \in Nat
        BY <1>2, <1>3, <1>6
      <3> QED  BY <3>1, <3>2
    <2>2. i \in Pointers /\ i - n.nBlocks + 1 \in 1 .. more
      BY <1>10, <2>1
    <2> QED  BY <1>9, <2>1, <2>2
  <1>12. \A i \in n.nBlocks .. g.nBlocks - 1 : g.block[i] \in Map \ used
    BY <1>8, <1>11
  <1>13. \A i, j \in n.nBlocks .. g.nBlocks - 1 : g.block[i] = g.block[j] => i = j
    <2> SUFFICES ASSUME NEW i \in n.nBlocks .. g.nBlocks - 1, NEW j \in n.nBlocks .. g.nBlocks - 1,
                        g.block[i] = g.block[j]
                 PROVE  i = j
      OBVIOUS
    <2>1. new[i - n.nBlocks + 1] = new[j - n.nBlocks + 1]
      BY <1>11
    <2>2. i - n.nBlocks + 1 = j - n.nBlocks + 1
      BY <1>8, <1>11, <2>1
    <2> QED  BY <1>2, <2>2
  <1>14. \A i \in 0 .. n.nBlocks - 1 : g.block[i] = n.block[i]
    BY SMTT(30), <1>2, <1>6, <1>9, ConstantsAre DEF Pointers
  <1>15. \A i \in Pointers : i >= g.nBlocks => g.block[i] = 0
    <2>1. \A i \in Pointers : i >= n.nBlocks => n.block[i] = 0
      BY <1>1 DEF NodeSound
    <2>2. \A i \in Pointers : i >= g.nBlocks =>
             i >= n.nBlocks /\ i \notin n.nBlocks .. n.nBlocks + more - 1
      BY SMTT(30), <1>2, <1>3, <1>6, <1>9, ConstantsAre DEF Pointers
    <2> QED  BY <1>9, <2>1, <2>2
  <1>16. g \in NodeSet
    <2>1. \A i \in Pointers : g.block[i] \in Map \cup {0}
      BY <1>2, <1>8, <1>9, <1>10
    <2>2. g.nBytes \in 0 .. MaxLen /\ g.nBlocks \in 0 .. MaxBlocks
      BY <1>2, <1>6, <1>9, ConstantsAre DEF n, k
    <2> DEFINE block == [i \in Pointers |-> g.block[i]]
    <2>3. g = [inUse |-> n.inUse, nBytes |-> g.nBytes, nBlocks |-> g.nBlocks, block |-> g.block]
      BY <1>1, <1>7 DEF NodeSet
    <2>4. g.block = block
      BY <1>1, <1>7 DEF NodeSet
    <2>5. g.block \in [Pointers -> Map \cup {0}]
      BY <2>1, <2>4
    <2> QED  BY <1>2, <2>2, <2>3, <2>5 DEF NodeSet
  <1>17. k = 0 \/ g.nBytes <= g.nBlocks * BlockSize
    <2> SUFFICES ASSUME k # 0 PROVE g.nBytes <= g.nBlocks * BlockSize
      OBVIOUS
    <2> DEFINE e == n.nBytes + k
               m == n.nBlocks + more
    <2>1. e \in Nat /\ m \in Nat /\ Ceil(e) <= m
      BY <1>2, <1>3, <1>6 DEF c
    <2> HIDE DEF e, m
    <2>2. e <= m * BlockSize
      BY <2>1, CeilIs
    <2> QED  BY <1>9, <2>2 DEF e, m
  <1>18. n.nBlocks <= g.nBlocks
    BY <1>2, <1>3, <1>6, <1>9
  <1>19. Growing(n, g, s, used)
    BY <1>9, <1>12, <1>13, <1>14, <1>15, <1>16, <1>17, <1>18 DEF Growing, k
  <1>20. k = 0 => g = n
    <2> SUFFICES ASSUME k = 0 PROVE g = n
      OBVIOUS
    <2>1. more = 0 /\ n.nBlocks .. n.nBlocks + more - 1 = {}
      BY <1>2, <1>6
    <2>2. [i \in Pointers |-> IF i \in n.nBlocks .. n.nBlocks + more - 1
                              THEN new[i - n.nBlocks + 1] ELSE n.block[i]] = n.block
      BY <1>2, <2>1
    <2>3. n.nBlocks + more = n.nBlocks /\ n.nBytes + k = n.nBytes
      BY <1>2, <2>1
    <2> QED  BY <1>1, <1>7, <2>2, <2>3 DEF NodeSet
  <1>21. n.inUse => NodeSound(g)
    <2> SUFFICES ASSUME n.inUse PROVE NodeSound(g)
      OBVIOUS
    <2>1. CASE k = 0
      BY <1>1, <1>20, <2>1
    <2>2. CASE k # 0
      <3>1. g.nBytes >= 1
        BY <1>1, <1>2, <1>9 DEF NodeSound
      <3> QED  BY <1>9, <1>15, <1>16, <1>17, <2>2, <3>1 DEF NodeSound
    <2> QED  BY <2>1, <2>2
  <1> QED  BY <1>9, <1>19, <1>20, <1>21 DEF n, k, g

-----------------------------------------------------------------------------
(* The image that the system starts from.                                  *)

InUse(nodes) == {x \in Inodes : nodes[x].inUse}

ImageSound(image, k) ==
    /\ NodesSound(image.node, image.used)
    /\ image.data \in Disk
    /\ Cardinality(InUse(image.node)) = k

LEMMA InodesFinite == IsFiniteSet(Inodes) /\ Cardinality(Inodes) = NInodes /\ Inodes \in SUBSET Nat
  <1>1. NInodes + 1 \in Int /\ 2 \in Int /\ NInodes \in Nat
    BY ConstantsAre
  <1>2. IsFiniteSet(2 .. NInodes + 1)
        /\ Cardinality(2 .. NInodes + 1) = IF 2 > NInodes + 1 THEN 0 ELSE (NInodes + 1) - 2 + 1
    BY <1>1, FS_Interval
  <1> QED  BY <1>1, <1>2 DEF Inodes

(* The inode that is taken: the lowest that is not in use.                 *)
LEMMA LowestFree ==
    ASSUME NEW nodes, {y \in Inodes : ~nodes[y].inUse} # {}
    PROVE  LET x == Min({y \in Inodes : ~nodes[y].inUse})
           IN  x \in Inodes /\ ~nodes[x].inUse
  <1> DEFINE S == {y \in Inodes : ~nodes[y].inUse}
  <1>1. S \in SUBSET Nat /\ S # {}
    BY InodesFinite
  <1>2. \A x \in S : x \in Inodes /\ ~nodes[x].inUse
    OBVIOUS
  <1> HIDE DEF S
  <1>3. \E x \in S : \A y \in S : x <= y
    BY <1>1, LeastOf
  <1>4. Min(S) \in S
    BY <1>3 DEF Min
  <1> QED  BY <1>2, <1>4 DEF S

LEMMA MadeSound == ImageSound(MadeImage, 0)
  <1>1. MadeImage.node = [x \in Inodes |-> Free] /\ MadeImage.used = {}
    BY DEF MadeImage
  <1>2. \A x \in Inodes : MadeImage.node[x] = Free
    BY <1>1
  <1>3. Apart(MadeImage.node)
    <2>1. 0 .. Free.nBlocks - 1 = {}
      BY FreeSound
    <2> QED  BY <1>2, <2>1 DEF Apart
  <1>4. NodesSound(MadeImage.node, MadeImage.used)
    <2>1. MadeImage.node \in [Inodes -> NodeSet]
      BY <1>1, FreeSound
    <2> QED  BY <1>1, <1>2, <1>3, <2>1, FreeSound DEF NodesSound
  <1>5. MadeImage.data \in Disk
    <2>1. /\ Cleared \in [0 .. BlockSize - 1 -> Bytes]
          /\ [i \in 0 .. BlockSize - 1 |-> Inode] \in [0 .. BlockSize - 1 -> Bytes]
      BY DEF Cleared, Bytes
    <2> QED  BY <2>1 DEF MadeImage, Disk
  <1>6. InUse(MadeImage.node) = {}
    BY <1>2 DEF InUse, Free
  <1>7. Cardinality({}) = 0
    BY FS_EmptySet
  <1> QED  BY <1>4, <1>5, <1>6, <1>7 DEF ImageSound

(* The blocks that AddFile takes are enough for the text.                  *)
LEMMA BlocksOfIs ==
    ASSUME NEW S, NEW s \in Seq(S), Len(s) \in 1 .. MaxLen
    PROVE  BlocksOf(s) \in 1 .. MaxBlocks /\ Len(s) <= BlocksOf(s) * BlockSize
  <1> DEFINE l == Len(s)
             m == l \div BlockSize + 1
  <1>1. l \in Nat /\ l <= MaxLen /\ MaxBlocks \in Nat \ {0} /\ MaxLen = MaxBlocks * BlockSize
    BY ConstantsAre
  <1>2. l \div BlockSize \in Nat
    BY <1>1, OffsetIs
  <1>3. m \in Nat /\ m >= 1 /\ ~(m <= l \div BlockSize)
    BY <1>2
  <1>4. BlocksOf(s) = IF m <= MaxBlocks THEN m ELSE MaxBlocks
    <2>1. BlocksOf(s) = Min({m, MaxBlocks})
      BY DEF BlocksOf
    <2> HIDE DEF m
    <2> QED  BY <1>1, <1>3, <2>1, MinOfTwo
  <1> HIDE DEF l, m
  <1>5. m * BlockSize \in Nat /\ ~(m * BlockSize <= l) /\ MaxBlocks * BlockSize \in Nat
    BY <1>1, <1>3, OffsetIs
  <1>6. CASE m <= MaxBlocks
    BY <1>1, <1>3, <1>4, <1>5, <1>6 DEF l
  <1>7. CASE ~(m <= MaxBlocks)
    BY <1>1, <1>3, <1>4, <1>5, <1>7 DEF l
  <1> QED  BY <1>6, <1>7

LEMMA AddFileSound ==
    ASSUME NEW image, NEW k \in Nat, k < NInodes, ImageSound(image, k),
           NEW s \in Seq(Typed), Len(s) \in 1 .. MaxLen,
           BlocksOf(s) <= Cardinality(Map \ image.used)
    PROVE  ImageSound(AddFile(image, s), k + 1)
  <1> DEFINE nodes == image.node
             marked == image.used
             x == Min({y \in Inodes : ~nodes[y].inUse})
             m == BlocksOf(s)
             blocks == NextFree(marked, m)
             pointer == [i \in 0 .. MaxBlocks - 1 |-> IF i < Len(blocks) THEN blocks[i + 1] ELSE 0]
             g == [inUse |-> TRUE, nBytes |-> Len(s), nBlocks |-> Len(blocks), block |-> pointer]
             after == AddFile(image, s)
  <1>1. /\ after.node = [nodes EXCEPT ![x] = g]
        /\ after.used = marked \cup ToSet(blocks)
        /\ after.data = Stored(image.data, g.block, 0, s)
    BY DEF AddFile
  <1>2. NodesSound(nodes, marked) /\ image.data \in Disk /\ Cardinality(InUse(nodes)) = k
    BY DEF ImageSound
  <1>3. x \in Inodes /\ ~nodes[x].inUse
    <2>1. {y \in Inodes : ~nodes[y].inUse} # {}
      <3> SUFFICES ASSUME \A y \in Inodes : nodes[y].inUse PROVE FALSE
        OBVIOUS
      <3>1. InUse(nodes) = Inodes
        BY DEF InUse
      <3>2. Cardinality(Inodes) = k
        BY <1>2, <3>1
      <3> QED  BY <3>2, InodesFinite
    <2> QED  BY <2>1, LowestFree
  <1>4. m \in 1 .. MaxBlocks /\ Len(s) <= m * BlockSize /\ Len(s) \in Nat
    BY BlocksOfIs
  <1>5. /\ blocks \in [1 .. m -> Map \ marked] /\ Len(blocks) = m
        /\ \A i, j \in 1 .. m : blocks[i] = blocks[j] => i = j
    <2>1. m \in 0 .. Cardinality(Map \ marked)
      BY <1>4, FreeFinite
    <2> HIDE DEF m, marked
    <2> QED  BY <2>1, NextFreeIs
  <1>6. nodes[x] = Free
    BY <1>2, <1>3 DEF NodesSound, NodeSound
  <1> HIDE DEF nodes, marked, x, m, blocks, after
  <1>7. /\ g.inUse /\ g.nBytes = Len(s) /\ g.nBlocks = m
        /\ \A i \in 0 .. m - 1 : i \in Pointers /\ i + 1 \in 1 .. m /\ g.block[i] = blocks[i + 1]
        /\ \A i \in Pointers : i >= m => g.block[i] = 0
    BY <1>4, <1>5, ConstantsAre DEF Pointers
  <1>8. g \in NodeSet
    <2>1. \A i \in Pointers : i < m => i + 1 \in 1 .. m
      BY <1>4 DEF Pointers
    <2>2. pointer \in [Pointers -> Map \cup {0}]
      BY <1>5, <2>1 DEF Pointers
    <2>3. Len(s) \in 0 .. MaxLen /\ m \in 0 .. MaxBlocks
      BY <1>4, ConstantsAre
    <2> HIDE DEF pointer
    <2> QED  BY <1>5, <2>2, <2>3 DEF NodeSet
  <1> HIDE DEF g
  <1>9. Growing(Free, g, s, marked) /\ NodeSound(g)
    <2>1. Free.nBlocks = 0 /\ Free.nBytes = 0 /\ m \in Nat /\ m >= 0
      BY <1>4 DEF Free
    <2>2. \A i \in 0 .. m - 1 : g.block[i] \in Map \ marked
      BY <1>5, <1>7
    <2>3. \A i, j \in 0 .. m - 1 : g.block[i] = g.block[j] => i = j
      <3> SUFFICES ASSUME NEW i \in 0 .. m - 1, NEW j \in 0 .. m - 1, g.block[i] = g.block[j]
                   PROVE  i = j
        OBVIOUS
      <3>1. i + 1 = j + 1
        BY <1>5, <1>7
      <3> QED  BY <3>1
    <2>4. \A i \in 0 .. Free.nBlocks - 1 : g.block[i] = Free.block[i]
      BY <2>1
    <2>5. g.nBytes = Free.nBytes + Len(s)
      BY <1>4, <1>7, <2>1
    <2>6. Growing(Free, g, s, marked)
      BY <1>4, <1>7, <1>8, <2>1, <2>2, <2>3, <2>4, <2>5 DEF Growing
    <2>7. NodeSound(g)
      <3>1. g.nBytes >= 1
        BY <1>7
      <3> QED  BY <1>4, <1>7, <1>8, <3>1 DEF NodeSound
    <2> QED  BY <2>6, <2>7
  <1>10. Owned(g) = ToSet(blocks)
    <2>1. DOMAIN blocks = 1 .. m
      BY <1>5
    <2>2. \A i \in 1 .. m : i - 1 \in 0 .. m - 1 /\ (i - 1) + 1 = i
      BY <1>4
    <2>3. \A i \in 1 .. m : \E j \in 0 .. m - 1 : g.block[j] = blocks[i]
      BY <1>7, <2>2
    <2>4. Owned(g) = {g.block[i] : i \in 0 .. m - 1}
      BY <1>7 DEF Owned
    <2>5. ToSet(blocks) = {blocks[i] : i \in 1 .. m}
      BY <2>1 DEF ToSet
    <2>6. \A i \in 0 .. m - 1 : \E j \in 1 .. m : g.block[i] = blocks[j]
      BY <1>7
    <2>7. Owned(g) \subseteq ToSet(blocks)
      BY Zenon, <2>4, <2>5, <2>6
    <2>8. ToSet(blocks) \subseteq Owned(g)
      BY Zenon, <2>3, <2>4, <2>5
    <2> QED  BY <2>7, <2>8
  <1>11. NodesSound(after.node, after.used)
    BY <1>1, <1>2, <1>3, <1>6, <1>9, <1>10, GrownSound
  <1>12. after.data \in Disk
    <2>1. s \in Seq(Bytes)
      <3>1. Typed \subseteq Bytes
        BY DEF Bytes
      <3> QED  BY <3>1
    <2>2. nodes[x].nBytes = 0
      BY <1>6 DEF Free
    <2>3. Growing(nodes[x], g, s, marked)
      BY <1>6, <1>9
    <2>4. StoredAs(Stored(image.data, g.block, nodes[x].nBytes, s),
                   image.data, g.block, nodes[x].nBytes, s)
      BY <1>2, <1>3, <2>1, <2>3, StoredBytes
    <2> QED  BY <1>1, <2>2, <2>4 DEF StoredAs
  <1>13. Cardinality(InUse(after.node)) = k + 1
    <2>1. InUse(after.node) = InUse(nodes) \cup {x} /\ x \notin InUse(nodes)
      <3>1. DOMAIN nodes = Inodes
        BY <1>2 DEF NodesSound
      <3> QED  BY <1>1, <1>3, <1>7, <3>1 DEF InUse
    <2>2. IsFiniteSet(InUse(nodes))
      <3>1. InUse(nodes) \in SUBSET Inodes
        BY DEF InUse
      <3> QED  BY <3>1, InodesFinite, FS_Subset
    <2> QED  BY <1>2, <2>1, <2>2, FS_AddElement
  <1> QED  BY <1>11, <1>12, <1>13 DEF ImageSound, after

(* The images are one after the other what AddFile makes of the last.  The *)
(* recursive function exists: a number of steps without one would have a   *)
(* least, which takes one step more than a number that has one.            *)
Images(f, k) ==
    f = [i \in 0 .. k |-> IF i = 0 THEN MadeImage ELSE AddFile(f[i - 1], Added[i])]

LEMMA ImagesExist ==
    ASSUME NEW k \in Nat
    PROVE  \E f : Images(f, k)
  <1> DEFINE S == {i \in Nat : ~ \E f : Images(f, i)}
  <1> SUFFICES ASSUME S # {} PROVE FALSE
    OBVIOUS
  <1>1. PICK m \in S : \A i \in S : m <= i
    <2> HIDE DEF S
    <2>1. S \in SUBSET Nat
      BY DEF S
    <2> QED  BY <2>1, LeastOf
  <1>2. m \in Nat /\ ~ \E f : Images(f, m)
    OBVIOUS
  <1>3. m # 0
    <2> SUFFICES ASSUME m = 0 PROVE FALSE
      OBVIOUS
    <2> DEFINE f == [i \in 0 .. m |-> MadeImage]
    <2>1. \A i \in 0 .. m : i = 0
      OBVIOUS
    <2>2. f = [i \in 0 .. m |-> IF i = 0 THEN MadeImage ELSE AddFile(f[i - 1], Added[i])]
      BY <2>1
    <2> HIDE DEF f
    <2> QED  BY <1>2, <2>2 DEF Images
  <1>4. m - 1 \in Nat /\ m - 1 \notin S
    BY <1>1, <1>2, <1>3
  <1>5. PICK f : Images(f, m - 1)
    BY <1>4
  <1> DEFINE next == AddFile(f[m - 1], Added[m])
             g == [i \in 0 .. m |-> IF i = m THEN next ELSE f[i]]
  <1>6. \A i \in 0 .. m : g[i] = IF i = 0 THEN MadeImage ELSE AddFile(g[i - 1], Added[i])
    <2> TAKE i \in 0 .. m
    <2>1. \A j \in 0 .. m - 1 : j \in 0 .. m /\ j # m
      BY <1>2
    <2>2. \A j \in 0 .. m - 1 : g[j] = f[j]
      BY <2>1
    <2>3. \A j \in 0 .. m - 1 : f[j] = IF j = 0 THEN MadeImage ELSE AddFile(f[j - 1], Added[j])
      BY <1>5 DEF Images
    <2>4. CASE i = m
      <3>1. g[i] = next /\ m - 1 \in 0 .. m - 1
        BY <1>2, <1>3, <2>4
      <3> QED  BY <1>3, <2>2, <2>4, <3>1
    <2>5. CASE i # m
      <3>1. i \in 0 .. m - 1 /\ (i # 0 => i - 1 \in 0 .. m - 1)
        BY <1>2, <2>5
      <3> HIDE DEF g
      <3> QED  BY <2>2, <2>3, <3>1
    <2> QED  BY <2>4, <2>5
  <1>7. g = [i \in 0 .. m |-> g[i]]
    OBVIOUS
  <1> HIDE DEF g
  <1>8. Images(g, m)
    BY <1>6, <1>7 DEF Images
  <1> QED  BY <1>2, <1>8

LEMMA ImageOfIs ==
    /\ ImageOf[0] = MadeImage
    /\ \A k \in 1 .. Len(Added) : ImageOf[k] = AddFile(ImageOf[k - 1], Added[k])
  <1>1. Len(Added) \in Nat
    BY TextsAssumption
  <1>2. \E f : f = [k \in 0 .. Len(Added) |->
                      IF k = 0 THEN MadeImage ELSE AddFile(f[k - 1], Added[k])]
    BY <1>1, ImagesExist DEF Images
  <1>3. ImageOf = [k \in 0 .. Len(Added) |->
                     IF k = 0 THEN MadeImage ELSE AddFile(ImageOf[k - 1], Added[k])]
    BY <1>2 DEF ImageOf
  <1>4. ImageOf[0] = MadeImage
    BY <1>1, <1>3
  <1>5. ASSUME NEW k \in 1 .. Len(Added)
        PROVE  ImageOf[k] = AddFile(ImageOf[k - 1], Added[k])
    <2>1. k \in 0 .. Len(Added) /\ k # 0
      BY <1>1
    <2> QED  BY <1>3, <2>1
  <1> QED  BY <1>4, <1>5

LEMMA ImagesSound ==
    ASSUME NEW k \in 0 .. Len(Added)
    PROVE  ImageSound(ImageOf[k], k)
  <1> DEFINE S == {i \in 0 .. Len(Added) : ~ImageSound(ImageOf[i], i)}
  <1> SUFFICES ASSUME S # {} PROVE FALSE
    OBVIOUS
  <1>0. Len(Added) \in Nat /\ Len(Added) <= NInodes
    BY TextsAssumption, FilesAssumption
  <1>1. PICK m \in S : \A i \in S : m <= i
    <2> HIDE DEF S
    <2>1. S \in SUBSET Nat
      BY DEF S
    <2> QED  BY <2>1, LeastOf
  <1>2. m \in 0 .. Len(Added) /\ ~ImageSound(ImageOf[m], m)
    OBVIOUS
  <1>3. m # 0
    BY <1>2, ImageOfIs, MadeSound
  <1>4. m - 1 \in Nat /\ m \in 1 .. Len(Added) /\ m - 1 < NInodes
    BY <1>0, <1>2, <1>3, ConstantsAre
  <1>5. ImageSound(ImageOf[m - 1], m - 1)
    <2>1. m - 1 \in 0 .. Len(Added) /\ m - 1 \notin S
      BY <1>0, <1>1, <1>4
    <2> QED  BY <2>1
  <1>6. Added[m] \in Seq(Typed) /\ Len(Added[m]) \in 1 .. MaxLen
    BY <1>4, TextsAssumption, FilesAssumption, ElementOfSeq DEF MaxLen
  <1>7. BlocksOf(Added[m]) <= Cardinality(Map \ ImageOf[m - 1].used)
    BY <1>4, ImageAssumption
  <1>8. ImageSound(AddFile(ImageOf[m - 1], Added[m]), (m - 1) + 1)
    BY <1>4, <1>5, <1>6, <1>7, AddFileSound
  <1>9. (m - 1) + 1 = m
    BY <1>4
  <1> QED  BY <1>2, <1>4, <1>8, <1>9, ImageOfIs

LEMMA InitInv == Init => IInv
  <1> SUFFICES ASSUME Init PROVE IInv
    OBVIOUS
  <1>1. ImageSound(Image, Len(Added))
    <2>1. Len(Added) \in 0 .. Len(Added)
      BY TextsAssumption
    <2> QED  BY <2>1, ImagesSound DEF Image
  <1>2. NodesSound(node, used) /\ data \in Disk
    BY <1>1 DEF Init, ImageSound
  <1>3. FilesOpen
    <2>1. Blank \in Descriptors /\ Blank.inode = 0
      BY ConstantsAre DEF Blank, Descriptors
    <2> QED  BY <2>1 DEF Init, FilesOpen
  <1> QED  BY <1>2, <1>3 DEF Init, IInv

-----------------------------------------------------------------------------
(* The steps of FileStore.                                                 *)

TextOf == [x \in Inodes |-> Content(node[x])]
Shown  == IF reply = <<Input>> THEN <<>> ELSE reply
Kept   == [Store!Next]_<<TextOf, Shown>>

LEMMA TextIs ==
    ASSUME IInv, NEW x \in Inodes
    PROVE  /\ node[x] \in NodeSet
           /\ TextOf[x] = Content(node[x]) /\ TextOf[x] \in Seq(Bytes)
           /\ Len(TextOf[x]) = node[x].nBytes /\ node[x].nBytes \in 0 .. MaxLen
           /\ \A k \in 1 .. node[x].nBytes : TextOf[x][k] = ByteAt(data, node[x], k - 1)
  <1>1. node[x] \in NodeSet /\ data \in Disk
    BY DEF IInv, NodesSound
  <1>2. TextOf[x] = Content(node[x])
    BY DEF TextOf
  <1> QED  BY <1>1, <1>2, ContentIs

TextFacts ==
    \A x \in Inodes :
        /\ node[x] \in NodeSet
        /\ TextOf[x] \in Seq(Bytes)
        /\ Len(TextOf[x]) = node[x].nBytes /\ node[x].nBytes \in 0 .. MaxLen
        /\ \A k \in 1 .. node[x].nBytes : TextOf[x][k] = ByteAt(data, node[x], k - 1)

LEMMA TextsAre == IInv => TextFacts
  BY TextIs DEF TextFacts

LEMMA TextsNext == IInv' => TextFacts'
  BY TextsAre, PTL

(* What is copied or written is no byte of the serial line.                *)
LEMMA NotInput ==
    ASSUME NEW s \in Seq(Bytes)
    PROVE  s # <<Input>>
  <1>1. Input \notin Bytes
    BY TextsAssumption DEF Bytes, Input, Zero, Inode
  <1> SUFFICES ASSUME s = <<Input>> PROVE FALSE
    OBVIOUS
  <1>2. 1 \in 1 .. Len(s) /\ s[1] = Input
    OBVIOUS
  <1> QED  BY <1>1, <1>2, ElementOfSeq

LEMMA FailIsKept ==
    ASSUME TextOf' = TextOf, reply' = <<>> \/ reply' = <<Input>>
    PROVE  Kept
  <1>1. Shown' = <<>>
    BY DEF Shown
  <1>2. Store!Fail
    BY <1>1 DEF Store!Fail, TextOf, Shown
  <1> QED  BY <1>2 DEF Kept, Store!Next

(* A call that leaves inodes and blocks alone and copies nothing.          *)
LEMMA FilesKept ==
    ASSUME IInv, FilesOpen', waiting' \subseteq Procs, UNCHANGED <<node, dirs, used, data>>,
           reply' = <<>> \/ reply' = <<Input>>
    PROVE  IInv' /\ Kept
  <1>1. TextOf' = TextOf
    BY DEF TextOf, Content
  <1>2. reply' \in Seq(Bytes \cup {Input})
    <2>1. <<>> \in Seq(Bytes \cup {Input})
      OBVIOUS
    <2>2. <<Input>> \in Seq(Bytes \cup {Input})
      <3> DEFINE S == Bytes \cup {Input}
      <3>1. Input \in S
        OBVIOUS
      <3> HIDE DEF S
      <3>2. <<Input>> \in Seq(S)
        BY <3>1
      <3> QED  BY <3>2 DEF S
    <2> QED  BY <2>1, <2>2
  <1>3. IInv'
    BY <1>2 DEF IInv
  <1> QED  BY <1>1, <1>3, FailIsKept

LEMMA DescriptorIs ==
    ASSUME IInv, NEW p \in Procs
    PROVE  /\ Open(p) \subseteq 1 .. MaxOpen
           /\ \A fd \in Open(p) : files[p][fd].inode \in Inodes /\ files[p][fd].offset \in 0 .. MaxLen
           /\ files[p] \in [1 .. MaxOpen -> Descriptors]
  <1>1. files[p] \in [1 .. MaxOpen -> Descriptors]
    BY DEF IInv, FilesOpen
  <1>2. Open(p) \subseteq 1 .. MaxOpen
    BY DEF Open
  <1>3. ASSUME NEW fd \in Open(p)
        PROVE  files[p][fd].inode \in Inodes /\ files[p][fd].offset \in 0 .. MaxLen
    <2>1. fd \in 1 .. MaxOpen /\ files[p][fd] # Blank
      BY DEF Open
    <2>2. files[p][fd].inode # 0
      BY <2>1 DEF IInv, FilesOpen
    <2>3. files[p][fd] \in Descriptors
      BY <1>1, <2>1
    <2> QED  BY <2>2, <2>3 DEF Descriptors
  <1> QED  BY <1>1, <1>2, <1>3

(* A descriptor is set, or cleared.                                        *)
LEMMA DescriptorSet ==
    ASSUME IInv, NEW p \in Procs, NEW fd \in 1 .. MaxOpen, NEW d \in Descriptors,
           d.inode = 0 => d = Blank,
           files' = [files EXCEPT ![p][fd] = d]
    PROVE  FilesOpen'
  BY DEF IInv, FilesOpen

LEMMA OffsetSet ==
    ASSUME IInv, NEW p \in Procs, NEW fd \in Open(p), NEW offset \in 0 .. MaxLen,
           files' = [files EXCEPT ![p][fd].offset = offset]
    PROVE  FilesOpen'
  <1> DEFINE d == [files[p][fd] EXCEPT !.offset = offset]
  <1>1. fd \in 1 .. MaxOpen /\ files[p][fd].inode \in Inodes /\ files[p][fd] \in Descriptors
    BY DescriptorIs
  <1>2. d \in Descriptors /\ d.inode = files[p][fd].inode
    BY <1>1 DEF Descriptors
  <1>3. d.inode # 0
    BY <1>1, <1>2 DEF Inodes
  <1>4. files' = [files EXCEPT ![p][fd] = d]
    OBVIOUS
  <1> HIDE DEF d
  <1> QED  BY <1>1, <1>2, <1>3, <1>4, DescriptorSet

-----------------------------------------------------------------------------
(* The actions on descriptors and inodes.                                  *)

LEMMA FOpenKeeps ==
    ASSUME IInv, NEW p \in Procs, NEW x \in Inodes, NEW append \in BOOLEAN, FOpen(p, x, append)
    PROVE  IInv' /\ Kept
  <1> DEFINE S == 1 .. MaxOpen \ Open(p)
             fd == Min(S)
             d == [inode |-> x, offset |-> IF append THEN node[x].nBytes ELSE 0]
  <1>1. /\ files' = [files EXCEPT ![p][fd] = d] /\ S # {}
        /\ reply' = <<>> /\ UNCHANGED <<node, dirs, used, data, waiting>>
    <2>1. Open(p) # 1 .. MaxOpen /\ Open(p) \subseteq 1 .. MaxOpen
      BY DescriptorIs DEF FOpen
    <2>2. S # {}
      BY <2>1
    <2> QED  BY <2>2 DEF FOpen
  <1>2. fd \in S
    <2>1. S \in SUBSET Nat
      OBVIOUS
    <2> HIDE DEF S
    <2>2. \E y \in S : \A z \in S : y <= z
      BY <1>1, <2>1, LeastOf
    <2> QED  BY <2>2 DEF Min
  <1>3. d \in Descriptors /\ d.inode # 0
    <2>1. node[x].nBytes \in 0 .. MaxLen
      BY TextIs
    <2>2. 0 \in 0 .. MaxLen
      BY ConstantsAre
    <2> QED  BY <2>1, <2>2 DEF Descriptors, Inodes
  <1> HIDE DEF fd, d
  <1>4. FilesOpen'
    BY <1>1, <1>2, <1>3, DescriptorSet
  <1> QED  BY <1>1, <1>4, FilesKept DEF IInv

LEMMA BlankIs == Blank \in Descriptors
  BY ConstantsAre DEF Blank, Descriptors

LEMMA FCloseKeeps ==
    ASSUME IInv, NEW p \in Procs, NEW fd, FClose(p, fd)
    PROVE  IInv' /\ Kept
  <1>1. /\ files' = [files EXCEPT ![p][fd] = Blank] /\ fd \in 1 .. MaxOpen
        /\ reply' = <<>> /\ UNCHANGED <<node, dirs, used, data, waiting>>
    BY DescriptorIs DEF FClose
  <1>2. FilesOpen'
    BY <1>1, BlankIs, DescriptorSet
  <1> QED  BY <1>1, <1>2, FilesKept DEF IInv

LEMMA ReplaceKeeps ==
    ASSUME IInv, NEW p \in Procs, Replace(p)
    PROVE  IInv' /\ Kept
  <1>1. /\ files' = [files EXCEPT ![p] = [fd \in 1 .. MaxOpen |-> Blank]]
        /\ reply' = <<>> /\ UNCHANGED <<node, dirs, used, data, waiting>>
    BY DEF Replace
  <1>2. FilesOpen'
    BY <1>1, BlankIs DEF IInv, FilesOpen
  <1> QED  BY <1>1, <1>2, FilesKept DEF IInv

LEMMA SioReceiveKeeps ==
    ASSUME IInv, NEW p, SioReceive(p)
    PROVE  IInv' /\ Kept
  <1>1. FilesOpen'
    BY DEF SioReceive, IInv, FilesOpen
  <1> QED  BY <1>1, FilesKept DEF SioReceive, IInv

LEMMA RefuseKeeps ==
    ASSUME IInv, Refuse
    PROVE  IInv' /\ Kept
  <1>1. FilesOpen'
    BY DEF Refuse, IInv, FilesOpen
  <1> QED  BY <1>1, FilesKept DEF Refuse, IInv

(* A step that changes the text of one file only.                          *)
LEMMA OneText ==
    ASSUME NEW x \in Inodes, NEW t,
           \A y \in Inodes \ {x} : TextOf'[y] = TextOf[y], TextOf'[x] = t
    PROVE  TextOf' = [TextOf EXCEPT ![x] = t]
  <1>1. TextOf = [y \in Inodes |-> TextOf[y]] /\ TextOf' = [y \in Inodes |-> TextOf'[y]]
    BY DEF TextOf
  <1> HIDE DEF TextOf
  <1> QED  BY <1>1

LEMMA EmptyText ==
    ASSUME NEW S, NEW s \in Seq(S)
    PROVE  s = <<>> <=> Len(s) = 0
  OBVIOUS

(* _sys_fcreate: what is new has no block yet.                             *)
LEMMA FCreateKeeps ==
    ASSUME IInv, NEW x \in Inodes, NEW isFile \in BOOLEAN, FCreate(x, isFile)
    PROVE  IInv' /\ Kept
  <1> DEFINE n == [node[x] EXCEPT !.inUse = TRUE, !.nBytes = 1]
  <1>1. ~node[x].inUse /\ UNCHANGED <<used, data, files, waiting>> /\ reply' = <<>>
    BY LowestFree DEF FCreate
  <1>2. node[x] = Free
    BY <1>1 DEF IInv, NodesSound, NodeSound
  <1>3. node' = [node EXCEPT ![x] = n]
    BY DEF FCreate
  <1>4. n = [inUse |-> TRUE, nBytes |-> 1, nBlocks |-> 0, block |-> Free.block]
    <2>1. n = [Free EXCEPT !.inUse = TRUE, !.nBytes = 1]
      BY <1>2
    <2> HIDE DEF n
    <2> DEFINE f == Free.block
    <2>2. Free = [inUse |-> FALSE, nBytes |-> 0, nBlocks |-> 0, block |-> f]
      BY DEF Free
    <2> HIDE DEF f
    <2>3. n = [inUse |-> TRUE, nBytes |-> 1, nBlocks |-> 0, block |-> f]
      BY <2>1, <2>2
    <2> QED  BY <2>3 DEF f
  <1>5. NodeSound(n) /\ n \in NodeSet /\ n.nBlocks = 0 /\ n.nBytes = 1
    <2>1. /\ Free \in NodeSet /\ NodeSound(Free) /\ Free.nBlocks = 0
      BY FreeSound
    <2>2. 1 \in 0 .. MaxLen /\ 0 \in 0 .. MaxBlocks /\ Free.block \in [Pointers -> Map \cup {0}]
      BY <2>1, ConstantsAre DEF NodeSet
    <2>3. n \in NodeSet
      BY <1>4, <2>2 DEF NodeSet
    <2>4. \A i \in Pointers : i >= n.nBlocks => n.block[i] = 0
      BY <1>4, <2>1 DEF NodeSound
    <2> HIDE DEF n
    <2> QED  BY <1>4, <2>3, <2>4 DEF NodeSound
  <1> HIDE DEF n
  <1>6. /\ node \in [Inodes -> NodeSet] /\ used \subseteq Map /\ Apart(node)
        /\ \A y \in Inodes : NodeSound(node[y]) /\ Owned(node[y]) \subseteq used
    BY DEF IInv, NodesSound
  <1>7. /\ node' \in [Inodes -> NodeSet] /\ node'[x] = n
        /\ \A y \in Inodes \ {x} : node'[y] = node[y]
    BY <1>3, <1>5, <1>6
  <1>8. Owned(n) = {}
    BY <1>5 DEF Owned
  <1>9. Apart(node')
    <2>1. \A y \in Inodes : 0 .. node'[y].nBlocks - 1 # {} => y # x
      BY <1>5, <1>7
    <2> QED  BY <1>6, <1>7, <2>1 DEF Apart
  <1>10. NodesSound(node', used')
    BY <1>1, <1>5, <1>6, <1>7, <1>8, <1>9 DEF NodesSound
  <1>11. IInv'
    <2>1. dirs' \subseteq Inodes
      BY DEF FCreate, IInv
    <2> QED  BY <1>1, <1>10, <2>1 DEF IInv, FilesOpen
  <1>12. TextFacts /\ TextFacts'
    BY <1>11, TextsAre, TextsNext
  <1>13. \A y \in Inodes \ {x} : TextOf'[y] = TextOf[y]
    BY <1>1, <1>7 DEF TextOf, Content
  <1>14. TextOf[x] = <<>> /\ \E b \in Bytes : TextOf'[x] = <<b>>
    <2>1. TextOf[x] \in Seq(Bytes) /\ Len(TextOf[x]) = 0
      BY <1>2, <1>12 DEF TextFacts, Free
    <2> DEFINE t == TextOf'[x]
    <2>2. t \in Seq(Bytes) /\ Len(t) = 1
      BY <1>5, <1>7, <1>12 DEF TextFacts
    <2> HIDE DEF t
    <2>3. t[1] \in Bytes /\ t = <<t[1]>>
      BY <2>2
    <2> QED  BY <2>1, <2>3, EmptyText DEF t
  <1>15. PICK b \in Bytes : TextOf'[x] = <<b>>
    BY <1>14
  <1>16. TextOf' = [TextOf EXCEPT ![x] = <<b>>]
    BY <1>13, <1>15, OneText
  <1>17. Shown' = <<>>
    BY <1>1 DEF Shown
  <1>18. Store!Create(x)
    BY <1>14, <1>16, <1>17 DEF Store!Create, Store!Exists, TextOf, Shown
  <1> QED  BY <1>11, <1>18 DEF Kept, Store!Next

LEMMA FRemoveKeeps ==
    ASSUME IInv, NEW x \in Inodes, FRemove(x)
    PROVE  IInv' /\ Kept
  <1>1. /\ node[x].inUse /\ UNCHANGED <<data, files, waiting>> /\ reply' = <<>>
        /\ node' = [node EXCEPT ![x] = Free] /\ dirs' = dirs \ {x}
        /\ used' = used \ Owned(node[x]) \/ used' = used
    BY DEF FRemove, Saved
  <1>2. NodesSound(node', used')
    <2>1. NodesSound(node', used \ Owned(node[x])) /\ used \subseteq Map
      BY <1>1, FreedSound DEF IInv, NodesSound
    <2>2. NodesSound(node', used)
      BY <2>1 DEF NodesSound
    <2> QED  BY <1>1, <2>1, <2>2
  <1>3. IInv'
    BY <1>1, <1>2 DEF IInv, FilesOpen
  <1>4. /\ node \in [Inodes -> NodeSet] /\ NodeSound(node[x])
    BY DEF IInv, NodesSound
  <1>5. node'[x] = Free /\ \A y \in Inodes \ {x} : node'[y] = node[y]
    BY <1>1, <1>4
  <1>6. TextFacts /\ TextFacts'
    BY <1>3, TextsAre, TextsNext
  <1>7. \A y \in Inodes \ {x} : TextOf'[y] = TextOf[y]
    BY <1>1, <1>5 DEF TextOf, Content
  <1>8. TextOf[x] # <<>> /\ TextOf'[x] = <<>>
    <2>1. TextOf[x] \in Seq(Bytes) /\ Len(TextOf[x]) = node[x].nBytes
      BY <1>6 DEF TextFacts
    <2>2. node[x].nBytes >= 1
      BY <1>1, <1>4 DEF NodeSound
    <2>3. TextOf'[x] \in Seq(Bytes) /\ Len(TextOf'[x]) = 0
      BY <1>5, <1>6 DEF TextFacts, Free
    <2> QED  BY <2>1, <2>2, <2>3, EmptyText
  <1>9. TextOf' = [TextOf EXCEPT ![x] = <<>>]
    BY <1>7, <1>8, OneText
  <1>10. Shown' = <<>>
    BY <1>1 DEF Shown
  <1>11. Store!Remove(x)
    BY <1>8, <1>9, <1>10 DEF Store!Remove, Store!Exists, TextOf, Shown
  <1> QED  BY <1>3, <1>11 DEF Kept, Store!Next

(* A read copies what the file has between two offsets, or nothing.        *)
LEMMA ReadKeeps ==
    ASSUME IInv, NEW p \in Procs, NEW fd, NEW length \in Lengths, Read(p, fd, length)
    PROVE  IInv' /\ Kept
  <1> DEFINE x == files[p][fd].inode
             offset == files[p][fd].offset
             n == node[x]
             count == ReadBytes(n, offset, length)
             copied == Copied(x, offset, count)
  <1>1. /\ fd \in Open(p) /\ reply' = copied /\ UNCHANGED <<node, dirs, used, data>>
        /\ files' = [files EXCEPT ![p][fd].offset = @ + count]
        /\ waiting' \subseteq waiting \cup {p}
    BY DEF Read
  <1>2. x \in Inodes /\ offset \in 0 .. MaxLen /\ length \in Nat
    BY <1>1, DescriptorIs, FilesAssumption
  <1>3. TextFacts
    BY TextsAre
  <1>4. /\ TextOf[x] = Content(n) /\ Content(n) \in Seq(Bytes)
        /\ Len(Content(n)) = n.nBytes /\ n.nBytes \in 0 .. MaxLen
    BY <1>2, TextIs
  <1>5. /\ count \in Nat /\ offset \in Nat /\ MaxLen \in Nat
        /\ count = 0 \/ offset + count <= n.nBytes
        /\ offset + count \in 0 .. MaxLen
    <2>0. offset \in Nat /\ MaxLen \in Nat /\ n.nBytes \in Nat /\ n.nBytes <= MaxLen /\ offset <= MaxLen
      BY <1>2, <1>4, ConstantsAre
    <2>1. CASE offset >= n.nBytes
      BY <2>0, <2>1 DEF ReadBytes
    <2>2. CASE ~(offset >= n.nBytes)
      <3> DEFINE rest == n.nBytes - offset
      <3>1. rest \in Nat
        BY <2>0, <2>2
      <3>2. count = Min({length, rest})
        BY <2>2 DEF ReadBytes
      <3> HIDE DEF rest, count
      <3>3. count = IF length <= rest THEN length ELSE rest
        BY <1>2, <3>1, <3>2, MinOfTwo
      <3> QED  BY <1>2, <2>0, <2>2, <3>1, <3>3 DEF rest
    <2> QED  BY <2>1, <2>2
  <1>6. FilesOpen'
    <2>1. files' = [files EXCEPT ![p][fd].offset = offset + count]
      BY <1>1
    <2> HIDE DEF offset, count
    <2> QED  BY <1>1, <1>5, <2>1, OffsetSet
  <1>7. waiting' \subseteq Procs
    BY <1>1 DEF IInv
  <1>8. copied = SubSeq(TextOf[x], offset + 1, offset + count)
    BY <1>4 DEF Copied
  <1>9. TextOf' = TextOf
    BY <1>1 DEF TextOf, Content
  <1> HIDE DEF x, offset, count, copied
  <1>10. CASE count = 0
    <2>1. copied = <<>>
      BY <1>5, <1>8, <1>10, SubSeqEmpty
    <2> QED  BY <1>1, <1>6, <1>7, <2>1, FilesKept
  <1>11. CASE count # 0
    <2>1. /\ offset + 1 \in 1 .. MaxLen /\ offset + count \in 1 .. MaxLen
          /\ offset + count <= Len(TextOf[x])
      BY <1>4, <1>5, <1>11
    <2>2. copied \in Seq(Bytes)
      <3>1. \A i \in offset + 1 .. offset + count : TextOf[x][i] \in Bytes
        <4>1. \A i \in offset + 1 .. offset + count : i \in 1 .. Len(TextOf[x])
          BY <1>4, <1>5, <2>1
        <4> QED  BY <1>4, <4>1, ElementOfSeq
      <3> QED  BY <1>5, <1>8, <3>1, SubSeqProperties
    <2>3. copied \in Seq(Bytes \cup {Input})
      BY <2>2
    <2>4. IInv'
      BY <1>1, <1>6, <1>7, <2>3 DEF IInv
    <2>5. Shown' = copied
      BY <1>1, <2>2, NotInput DEF Shown
    <2>6. TextOf[x] # <<>>
      BY <1>4, <1>5, <1>11, <2>1
    <2>7. Store!Read(x, offset + 1, offset + count)
      BY <1>2, <1>8, <1>9, <2>1, <2>5, <2>6 DEF Store!Read, Store!Exists, TextOf, Shown
    <2> QED  BY <1>2, <2>1, <2>4, <2>7 DEF Kept, Store!Next
  <1> QED  BY <1>10, <1>11

-----------------------------------------------------------------------------
(* Writing.                                                                *)

Joined(c, s, r) ==
    /\ Len(c) = Len(s) + Len(r)
    /\ \A k \in 1 .. Len(s) : c[k] = s[k]
    /\ \A k \in 1 .. Len(r) : c[Len(s) + k] = r[k]

LEMMA JoinedIs ==
    ASSUME NEW S, NEW s \in Seq(S), NEW r \in Seq(S)
    PROVE  s \o r \in Seq(S) /\ Joined(s \o r, s, r)
  <1>1. Len(s) \in Nat /\ Len(r) \in Nat
    OBVIOUS
  <1>2. /\ s \o r \in Seq(S) /\ Len(s \o r) = Len(s) + Len(r)
        /\ \A k \in 1 .. Len(s) + Len(r) :
              (s \o r)[k] = IF k <= Len(s) THEN s[k] ELSE r[k - Len(s)]
    BY ConcatProperties
  <1> DEFINE c == s \o r
             l == Len(s)
             m == Len(r)
  <1>3. \A k \in 1 .. l + m : c[k] = IF k <= l THEN s[k] ELSE r[k - l]
    BY <1>2
  <1>4. l \in Nat /\ m \in Nat
    BY <1>1
  <1> HIDE DEF c, l, m
  <1>5. \A k \in 1 .. l : c[k] = s[k]
    BY <1>3, <1>4
  <1>6. \A k \in 1 .. m : c[l + k] = r[k]
    <2> SUFFICES ASSUME NEW k \in 1 .. m PROVE c[l + k] = r[k]
      OBVIOUS
    <2>1. l + k \in 1 .. l + m /\ ~(l + k <= l) /\ (l + k) - l = k
      BY <1>4
    <2> QED  BY <1>3, <2>1
  <1> QED  BY <1>2, <1>5, <1>6 DEF c, l, m, Joined

(* A text with something behind it, and perhaps another first byte.        *)
LEMMA LongerText ==
    ASSUME NEW S, NEW t \in Seq(S), t # <<>>, NEW s \in Seq(S), NEW u \in Seq(S),
           Len(u) = Len(t) + Len(s),
           \A k \in 2 .. Len(t) : u[k] = t[k],
           \A k \in 1 .. Len(s) : u[Len(t) + k] = s[k]
    PROVE  u[1] \in S /\ u = <<u[1]>> \o Tail(t) \o s
  <1> DEFINE a == <<u[1]>>
             r == Tail(t)
             l == Len(t)
             m == Len(s)
  <1>1. l \in Nat /\ l >= 1 /\ m \in Nat /\ Len(u) = l + m
    BY EmptyText
  <1>2. u[1] \in S
    BY <1>1, ElementOfSeq
  <1>3. r \in Seq(S) /\ Len(r) = l - 1 /\ \A k \in 1 .. l - 1 : r[k] = t[k + 1]
    BY HeadTailProperties
  <1>4. a \in Seq(S) /\ Len(a) = 1 /\ a[1] = u[1]
    BY <1>2
  <1> DEFINE b == a \o r
             c == b \o s
  <1>5. /\ b \in Seq(S) /\ Len(b) = Len(a) + Len(r)
        /\ \A k \in 1 .. Len(a) : b[k] = a[k]
        /\ \A k \in 1 .. Len(r) : b[Len(a) + k] = r[k]
    <2>1. a \in Seq(S) /\ r \in Seq(S)
      BY <1>3, <1>4
    <2> HIDE DEF a, r
    <2>2. a \o r \in Seq(S) /\ Joined(a \o r, a, r)
      BY <2>1, JoinedIs
    <2> QED  BY <2>2 DEF Joined
  <1>6. /\ c \in Seq(S) /\ Len(c) = Len(b) + m
        /\ \A k \in 1 .. Len(b) : c[k] = b[k]
        /\ \A k \in 1 .. m : c[Len(b) + k] = s[k]
    <2>1. b \in Seq(S)
      BY <1>5
    <2> HIDE DEF b
    <2>2. b \o s \in Seq(S) /\ Joined(b \o s, b, s)
      BY <2>1, JoinedIs
    <2> QED  BY <2>2 DEF Joined
  <1>7. \A k \in 2 .. l : u[k] = t[k]
    OBVIOUS
  <1>8. \A k \in 1 .. m : u[l + k] = s[k]
    OBVIOUS
  <1> HIDE DEF a, r, b, c, l, m
  <1>9. Len(b) = l /\ Len(c) = l + m
    BY <1>1, <1>3, <1>4, <1>5, <1>6
  <1>10. \A k \in 1 .. l + m : u[k] = c[k]
    <2> SUFFICES ASSUME NEW k \in 1 .. l + m PROVE u[k] = c[k]
      OBVIOUS
    <2>1. CASE k = 1
      <3>1. 1 \in 1 .. Len(b) /\ 1 \in 1 .. Len(a)
        BY <1>1, <1>4, <1>9
      <3>2. c[1] = b[1] /\ b[1] = a[1]
        BY <1>5, <1>6, <3>1
      <3> QED  BY <1>4, <2>1, <3>2
    <2>2. CASE k \in 2 .. l
      <3>1. k \in 1 .. Len(b) /\ k - 1 \in 1 .. l - 1 /\ 1 + (k - 1) = k /\ (k - 1) + 1 = k
        BY <1>1, <1>9, <2>2
      <3>2. c[k] = b[k]
        BY <1>6, <3>1
      <3>3. b[1 + (k - 1)] = r[k - 1]
        BY <1>3, <1>4, <1>5, <3>1
      <3>4. r[k - 1] = t[(k - 1) + 1]
        BY <1>3, <3>1
      <3> QED  BY <1>7, <2>2, <3>1, <3>2, <3>3, <3>4
    <2>3. CASE k \in l + 1 .. l + m
      <3>1. k - l \in 1 .. m /\ l + (k - l) = k
        BY <1>1, <2>3
      <3>2. c[l + (k - l)] = s[k - l]
        BY <1>6, <1>9, <3>1
      <3>3. u[l + (k - l)] = s[k - l]
        BY <1>8, <3>1
      <3> QED  BY <3>1, <3>2, <3>3
    <2> QED  BY <1>1, <2>1, <2>2, <2>3
  <1>11. u = c
    BY <1>1, <1>6, <1>9, <1>10, SeqEqual
  <1> QED  BY <1>2, <1>11 DEF a, r, b, c

(* The state after a write, saved or not.                                  *)
LEMMA WriteSound ==
    ASSUME IInv, NEW x \in Inodes, NEW g, NEW w \in Seq(Bytes),
           Growing(node[x], g, w, used), node[x].inUse => NodeSound(g),
           used' = used \cup (Owned(g) \ Owned(node[x])),
           data' = Stored(data, g.block, node[x].nBytes, w),
           \/ node' = node
           \/ node[x].inUse /\ node' = [node EXCEPT ![x] = g]
    PROVE  NodesSound(node', used') /\ data' \in Disk
  <1>1. NodesSound(node, used) /\ data \in Disk
    BY DEF IInv
  <1>2. Owned(g) \subseteq Map
    <2>1. \A i \in 0 .. g.nBlocks - 1 : PointsAlone(node, x, g, i)
      BY <1>1, GrownApart
    <2> QED  BY <2>1 DEF Owned, PointsAlone
  <1>3. used' = used \cup Owned(g)
    <2>1. Owned(node[x]) \subseteq used
      BY <1>1 DEF NodesSound
    <2> QED  BY <2>1
  <1>4. NodesSound(node', used')
    <2>1. CASE node' = node
      <3>1. NodesSound(node, used \cup Owned(g))
        BY <1>1, <1>2, MoreMarked
      <3> QED  BY <1>3, <2>1, <3>1
    <2>2. CASE node[x].inUse /\ node' = [node EXCEPT ![x] = g]
      <3>1. NodeSound(g)
        BY <2>2
      <3>2. NodesSound([node EXCEPT ![x] = g], used \cup Owned(g))
        BY <1>1, <3>1, GrownSound
      <3> QED  BY <1>3, <2>2, <3>2
    <2> QED  BY <2>1, <2>2
  <1>5. data' \in Disk
    BY <1>1, StoredBytes DEF StoredAs
  <1> QED  BY <1>4, <1>5

(* A file that a write does not save has its text still, also if its blocks*)
(* were written to.                                                        *)
LEMMA TextKept ==
    ASSUME IInv, NEW x \in Inodes, NEW g, NEW w \in Seq(Bytes),
           Growing(node[x], g, w, used),
           data' = Stored(data, g.block, node[x].nBytes, w),
           NEW y \in Inodes, node'[y] = node[y]
    PROVE  TextOf'[y] = TextOf[y]
  <1>1. NodesSound(node, used) /\ data \in Disk
    BY DEF IInv
  <1>2. node[y].nBytes \in Nat
    BY TextIs, ConstantsAre
  <1>3. ASSUME NEW k \in 1 .. node[y].nBytes
        PROVE  ByteAt(data', node[y], k - 1) = ByteAt(data, node[y], k - 1)
    <2>1. k - 1 \in 0 .. node[y].nBytes - 1
      BY <1>2
    <2> QED  BY <1>1, <2>1, BytesKept
  <1>4. TextOf'[y] = [k \in 1 .. node[y].nBytes |-> ByteAt(data', node[y], k - 1)]
    BY DEF TextOf, Content, ByteAt
  <1>5. TextOf[y] = [k \in 1 .. node[y].nBytes |-> ByteAt(data, node[y], k - 1)]
    BY DEF TextOf, Content
  <1> QED  BY <1>3, <1>4, <1>5

(* The file that is saved has its text and what was written behind it, but *)
(* for the byte of a new file.                                             *)
LEMMA TextGrows ==
    ASSUME IInv, IInv', NEW x \in Inodes, NEW g, NEW w \in Seq(Bytes),
           Growing(node[x], g, w, used), node[x].inUse,
           data' = Stored(data, g.block, node[x].nBytes, w),
           node' = [node EXCEPT ![x] = g]
    PROVE  \E b \in Bytes :
              /\ b = TextOf[x][1] \/ Len(TextOf[x]) = 1
              /\ TextOf'[x] = <<b>> \o Tail(TextOf[x]) \o w
  <1> DEFINE n == node[x]
             o == n.nBytes
             t == TextOf[x]
             u == TextOf'[x]
  <1>1. NodesSound(node, used) /\ data \in Disk /\ NodeSound(n)
    BY DEF IInv, NodesSound
  <1>2. node'[x] = g /\ g.nBytes = o + Len(w)
    BY <1>1 DEF NodesSound, Growing
  <1>3. /\ t \in Seq(Bytes) /\ Len(t) = o /\ o \in 0 .. MaxLen
        /\ \A k \in 1 .. o : t[k] = ByteAt(data, n, k - 1)
    BY TextsAre DEF TextFacts
  <1>4. /\ u \in Seq(Bytes) /\ Len(u) = o + Len(w)
        /\ \A k \in 1 .. o + Len(w) : u[k] = ByteAt(data', g, k - 1)
    BY SMTT(30), <1>2, TextsNext DEF TextFacts, ByteAt
  <1>5. o \in Nat /\ o >= 1 /\ Len(w) \in Nat
    BY <1>1, <1>3, ConstantsAre DEF NodeSound
  <1>6. \A k \in 1 .. Len(w) : u[o + k] = w[k]
    <2> SUFFICES ASSUME NEW k \in 1 .. Len(w) PROVE u[o + k] = w[k]
      OBVIOUS
    <2>1. /\ o + k \in 1 .. o + Len(w) /\ (o + k) - 1 \in o .. o + Len(w) - 1
          /\ ((o + k) - 1) - o + 1 = k
      BY SMTT(30), <1>5
    <2>2. ByteAt(data', g, (o + k) - 1) = w[((o + k) - 1) - o + 1]
      BY <1>1, <2>1, BytesAdded
    <2> QED  BY <1>4, <2>1, <2>2
  <1>7. o <= n.nBlocks * BlockSize => \A k \in 1 .. o : u[k] = t[k]
    <2> SUFFICES ASSUME o <= n.nBlocks * BlockSize, NEW k \in 1 .. o PROVE u[k] = t[k]
      OBVIOUS
    <2>1. k - 1 \in 0 .. o - 1 /\ k \in 1 .. o + Len(w)
      BY <1>5
    <2>2. ByteAt(data', g, k - 1) = ByteAt(data', n, k - 1)
      <3>1. /\ NodesSound(node, used) /\ Growing(node[x], g, w, used)
            /\ node[x].nBytes <= node[x].nBlocks * BlockSize
            /\ k - 1 \in 0 .. node[x].nBytes - 1
        BY <1>1, <2>1
      <3>2. SameBytes(node[x], g)
        BY <3>1, BytesShared
      <3> QED  BY <3>1, <3>2 DEF SameBytes
    <2>3. ByteAt(data', n, k - 1) = ByteAt(data, n, k - 1)
      BY <1>1, <2>1, BytesKept
    <2> QED  BY <1>3, <1>4, <2>1, <2>2, <2>3
  <1>8. o <= n.nBlocks * BlockSize \/ o = 1
    BY <1>1 DEF NodeSound
  <1> HIDE DEF t, u, o, n
  <1>9. \A k \in 2 .. o : u[k] = t[k]
    BY <1>5, <1>7, <1>8
  <1>10. u[1] = t[1] \/ Len(t) = 1
    BY <1>3, <1>5, <1>7, <1>8
  <1>11. t # <<>>
    BY <1>3, <1>5
  <1>12. u[1] \in Bytes /\ u = <<u[1]>> \o Tail(t) \o w
    BY <1>3, <1>4, <1>6, <1>9, <1>11, LongerText
  <1> QED  BY <1>10, <1>12 DEF t, u

LEMMA TypedAreBytes == Seq(Typed) \subseteq Seq(Bytes) /\ Seq(Bytes) \subseteq Seq(Bytes \cup {Input})
  <1> DEFINE B == Bytes
             A == Bytes \cup {Input}
  <1>1. Typed \subseteq B /\ B \subseteq A
    BY DEF Bytes
  <1> HIDE DEF A, B
  <1>2. Seq(Typed) \subseteq Seq(B) /\ Seq(B) \subseteq Seq(A)
    BY <1>1
  <1> QED  BY <1>2 DEF A, B

(* _fs_write and _sys_write: a write that is saved extends the text, one   *)
(* that is not leaves every text as it was.                                *)
LEMMA WriteKeeps ==
    ASSUME IInv, NEW p \in Procs, NEW fd \in Open(p), NEW s \in Strings, Write(p, fd, s)
    PROVE  IInv' /\ Kept
  <1> DEFINE x == files[p][fd].inode
             n == node[x]
             w == Fitting(n, s)
             g == Extended(n, Len(w))
  <1>1. x \in Inodes /\ s \in Seq(Typed)
    BY DescriptorIs, TextsAssumption
  <1>2. /\ data' = Stored(data, g.block, n.nBytes, w)
        /\ used' = used \cup (Owned(g) \ Owned(n))
        /\ files' = [files EXCEPT ![p][fd].offset = g.nBytes]
        /\ node' = IF w = s /\ n.inUse THEN [node EXCEPT ![x] = g] ELSE node
        /\ reply' = IF (IF w = s THEN n.inUse ELSE g.nBytes = MaxLen) THEN w ELSE <<>>
        /\ waiting' = waiting /\ dirs' = dirs
    BY DEF Write, Saved
  <1> HIDE DEF x
  <1>3. /\ w \in Seq(Typed) /\ w \in Prefixes(s) /\ n.nBytes + Len(w) <= MaxLen
        /\ Len(w) = 0 \/ n.nBytes + Len(w) <= (n.nBlocks + Cardinality(Map \ used)) * BlockSize
    BY <1>1, FittingIs
  <1>4. w \in Seq(Bytes)
    BY <1>3, TypedAreBytes
  <1> HIDE DEF w
  <1>5. Growing(n, g, w, used) /\ (n.inUse => NodeSound(g))
    BY <1>1, <1>3, <1>4, ExtendedIs
  <1> HIDE DEF g
  <1>6. /\ n \in NodeSet /\ NodeSound(n)
        /\ TextOf[x] \in Seq(Bytes) /\ Len(TextOf[x]) = n.nBytes /\ n.nBytes \in 0 .. MaxLen
    BY <1>1, TextIs DEF IInv, NodesSound
  <1>7. g.nBytes = n.nBytes + Len(w) /\ g.nBytes \in 0 .. MaxLen
    BY <1>3, <1>4, <1>5, <1>6, ConstantsAre DEF Growing
  <1>8. FilesOpen'
    BY <1>2, <1>7, OffsetSet
  <1>9. node' = node \/ (n.inUse /\ node' = [node EXCEPT ![x] = g])
    BY <1>2
  <1>10. NodesSound(node', used') /\ data' \in Disk
    BY <1>1, <1>2, <1>4, <1>5, <1>9, WriteSound
  <1>11. reply' \in Seq(Bytes \cup {Input})
    <2>1. <<>> \in Seq(Bytes \cup {Input})
      OBVIOUS
    <2> QED  BY <1>2, <1>4, <2>1, TypedAreBytes
  <1>12. IInv'
    BY <1>2, <1>8, <1>10, <1>11 DEF IInv
  <1>13. CASE w = s /\ n.inUse
    <2>1. node' = [node EXCEPT ![x] = g] /\ reply' = w
      BY <1>2, <1>13
    <2>2. PICK b \in Bytes : /\ b = TextOf[x][1] \/ Len(TextOf[x]) = 1
                             /\ TextOf'[x] = <<b>> \o Tail(TextOf[x]) \o w
      BY Zenon, <1>1, <1>2, <1>4, <1>5, <1>12, <1>13, <2>1, TextGrows
    <2>3. \A y \in Inodes \ {x} : TextOf'[y] = TextOf[y]
      <3> SUFFICES ASSUME NEW y \in Inodes \ {x} PROVE TextOf'[y] = TextOf[y]
        OBVIOUS
      <3>1. node'[y] = node[y]
        BY <2>1 DEF IInv, NodesSound
      <3> QED  BY <1>1, <1>2, <1>4, <1>5, <3>1, TextKept
    <2>4. TextOf' = [TextOf EXCEPT ![x] = <<b>> \o Tail(@) \o w]
      BY <1>1, <2>2, <2>3, OneText
    <2>5. Shown' = w
      BY <1>4, <2>1, NotInput DEF Shown
    <2>6. TextOf[x] # <<>>
      <3>1. n.nBytes >= 1
        BY <1>6, <1>13 DEF NodeSound
      <3> QED  BY <1>6, <3>1, EmptyText
    <2>7. Store!Extend(x, w)
      BY <2>2, <2>4, <2>5, <2>6 DEF Store!Extend, Store!Exists, TextOf, Shown
    <2>8. w \in UNION {Prefixes(r) : r \in Strings}
      BY <1>3
    <2> QED  BY <1>1, <1>12, <2>7, <2>8 DEF Kept, Store!Next
  <1>14. CASE ~(w = s /\ n.inUse)
    <2>1. node' = node
      BY <1>2, <1>14
    <2>2. \A y \in Inodes : TextOf'[y] = TextOf[y]
      BY <1>1, <1>2, <1>4, <1>5, <2>1, TextKept
    <2>3. TextOf' = TextOf
      <3>1. TextOf = [y \in Inodes |-> TextOf[y]] /\ TextOf' = [y \in Inodes |-> TextOf'[y]]
        BY DEF TextOf
      <3> HIDE DEF TextOf
      <3> QED  BY <2>2, <3>1
    <2>4. CASE reply' = <<>>
      BY <1>12, <2>3, <2>4, FailIsKept
    <2>5. CASE reply' = w /\ g.nBytes = MaxLen
      <3>1. Shown' = w
        BY <1>4, <2>5, NotInput DEF Shown
      <3>2. Store!Lose(x, w)
        BY <1>6, <1>7, <2>3, <2>5, <3>1 DEF Store!Lose, TextOf, Shown
      <3>3. w \in UNION {Prefixes(r) : r \in Strings}
        BY <1>3
      <3> QED  BY <1>1, <1>12, <3>2, <3>3 DEF Kept, Store!Next
    <2> QED  BY <1>2, <1>14, <2>4, <2>5
  <1> QED  BY <1>13, <1>14

-----------------------------------------------------------------------------
(* Every step.                                                             *)

LEMMA StutterKeeps ==
    ASSUME IInv, UNCHANGED vars
    PROVE  IInv' /\ Kept
  BY DEF vars, IInv, NodesSound, Apart, FilesOpen, Open, Kept, TextOf, Shown, Content

LEMMA StepKeeps ==
    ASSUME IInv, [Next]_vars
    PROVE  IInv' /\ Kept
  <1>1. CASE UNCHANGED vars
    BY <1>1, StutterKeeps
  <1>2. ASSUME NEW p \in Procs \ waiting, Call(p)
        PROVE  IInv' /\ Kept
    <2>1. ASSUME NEW x \in Inodes, NEW append \in BOOLEAN, FOpen(p, x, append)
          PROVE  IInv' /\ Kept
      BY <2>1, FOpenKeeps
    <2>2. CASE Replace(p)
      BY <2>2, ReplaceKeeps
    <2>3. ASSUME NEW x \in Inodes, NEW isFile \in BOOLEAN, FCreate(x, isFile)
          PROVE  IInv' /\ Kept
      BY <2>3, FCreateKeeps
    <2>4. ASSUME NEW x \in Inodes, FRemove(x)
          PROVE  IInv' /\ Kept
      BY <2>4, FRemoveKeeps
    <2>5. ASSUME NEW fd \in Open(p), FClose(p, fd)
          PROVE  IInv' /\ Kept
      BY <2>5, FCloseKeeps
    <2>6. ASSUME NEW fd \in Open(p), NEW length \in Lengths, Read(p, fd, length)
          PROVE  IInv' /\ Kept
      BY <2>6, ReadKeeps
    <2>7. ASSUME NEW fd \in Open(p), NEW s \in Strings, Write(p, fd, s)
          PROVE  IInv' /\ Kept
      BY <2>7, WriteKeeps
    <2>8. CASE Refuse
      BY <2>8, RefuseKeeps
    <2> QED  BY <1>2, <2>1, <2>2, <2>3, <2>4, <2>5, <2>6, <2>7, <2>8 DEF Call
  <1>3. ASSUME NEW p \in waiting, SioReceive(p)
        PROVE  IInv' /\ Kept
    BY <1>3, SioReceiveKeeps
  <1> QED  BY <1>1, <1>2, <1>3 DEF Next

LEMMA Invariance == Spec => []IInv
  <1>1. IInv /\ [Next]_vars => IInv'
    BY StepKeeps
  <1> QED  BY <1>1, InitInv, PTL DEF Spec

(* Every call keeps inodes, blocks, descriptors and what it copied of their*)
(* types: offsets and lengths stay within the longest file, pointers within*)
(* the map.                                                                *)
THEOREM TypesHold == Spec => []TypeOK
  <1>1. IInv => TypeOK
    BY DEF IInv, TypeOK, NodesSound, NodeSet, Pointers, Disk, FilesOpen, Descriptors
  <1> QED  BY <1>1, Invariance, PTL

(* kfs.c: a block is in one file only, once, and is marked in the map for  *)
(* as long as it is, whatever sequence of calls led there: _fs_alloc_block,*)
(* _fs_write, which saves the inode last or not at all, and _fs_freeNode   *)
(* never give away a block that a file has.                                *)
THEOREM BlocksAreOwned == Spec => []BlocksOwned
  <1>1. IInv => BlocksOwned
    BY DEF IInv, BlocksOwned, NodesSound, Apart
  <1> QED  BY <1>1, Invariance, PTL

(* kfs.c:292: the write position is never behind the blocks of the file, so*)
(* _fs_write finds no desync.                                              *)
THEOREM NothingIsDesynced == Spec => []NoDesync
  <1>1. ASSUME IInv, NEW x \in Inodes
        PROVE  node[x].nBytes \div BlockSize <= node[x].nBlocks
    <2> DEFINE o == node[x].nBytes
               m == node[x].nBlocks
               q == o \div BlockSize
    <2>1. NodeSound(node[x]) /\ node[x] \in NodeSet
      BY <1>1 DEF IInv, NodesSound
    <2>2. o \in Nat /\ m \in Nat /\ BlockSize \in Nat \ {0, 1}
      BY <2>1, ConstantsAre DEF NodeSet
    <2>3. o <= m * BlockSize \/ o = 1
      BY <2>1 DEF NodeSound
    <2> HIDE DEF o, m
    <2>4. q \in Nat /\ q * BlockSize <= o
      BY <2>2, OffsetIs
    <2>5. CASE o = 1
      <3>1. q = 0
        BY <2>2, <2>5
      <3> QED  BY <2>2, <3>1 DEF m, o
    <2>6. CASE o <= m * BlockSize
      <3> HIDE DEF q
      <3>1. q * BlockSize <= m * BlockSize
        BY <2>2, <2>4, <2>6
      <3>2. q <= m
        BY <2>2, <2>4, <3>1
      <3> QED  BY <3>2 DEF q, m, o
    <2> QED  BY <2>3, <2>5, <2>6
  <1>2. IInv => NoDesync
    BY <1>1 DEF NoDesync
  <1> QED  BY <1>2, Invariance, PTL

LEMMA InitIsStoreInit == Init => Store!Init
  <1> SUFFICES ASSUME Init PROVE Store!Init
    OBVIOUS
  <1>1. \A x \in Inodes : TextOf[x] \in Seq(Bytes)
    BY InitInv, TextIs
  <1>2. TextOf \in [Inodes -> Seq(Bytes)]
    <2>1. TextOf = [x \in Inodes |-> TextOf[x]]
      BY DEF TextOf
    <2> HIDE DEF TextOf
    <2> QED  BY <1>1, <2>1
  <1>3. Shown = <<>>
    BY DEF Init, Shown
  <1> QED  BY <1>2, <1>3 DEF Store!Init, TextOf, Shown

(* Files are what FileStore says: every call creates one text, removes one,*)
(* extends one at its end, copies a part of one or changes none, wherever  *)
(* the blocks are, whoever has the file open and whatever was written and  *)
(* not saved (_fs_write stopped by a full map or by the longest length, or *)
(* after the last name of the file was removed).                           *)
THEOREM FilesAreTexts == Spec => ImplementsStore
  <1>1. IInv /\ [Next]_vars => Kept
    BY StepKeeps
  <1> QED  BY <1>1, InitIsStoreInit, Invariance, PTL DEF Spec, ImplementsStore, Store!Spec, Kept, TextOf, Shown
=============================================================================
