----------------------------- MODULE KmemProofs -----------------------------
(***************************************************************************)
(* Proofs about the memory allocator, for every memory map, page size and  *)
(* sequence of allocations and releases: no page and no slice is lost or   *)
(* given to two, and the list of free pages serves every request that the  *)
(* free pages could.                                                       *)
(***************************************************************************)
EXTENDS Kmem, QueueLemmas

(* No region begins where the pages of another end.  The blocks that       *)
(* _add_block lists are not joined, so two that touch stay two.            *)
RegionsApart ==
    \A r, t \in MemoryMap : r # t => \A p \in PagesIn(r) : p + 1 \notin PagesIn(t)

(* The pages that are at least between two blocks.                         *)
Gap == IF RegionsApart THEN 1 ELSE 0

-----------------------------------------------------------------------------
(* The inductive invariant.                                                *)

Blocks == [base : Nat, pages : Nat \ {0}]

(* Each block of a list ends before the next ones begin.                   *)
OrderedBlocks(s) ==
    \A i, j \in 1 .. Len(s) : i < j => After(s[i]) + Gap <= s[j].base

TypesOK ==
    /\ boot \subseteq MemoryMap
    /\ free_pages \in Seq(Blocks)
    /\ free_slices \in Seq(Slices)
    /\ panicked \in BOOLEAN

IInv == TypesOK /\ OrderedBlocks(free_pages) /\ PagesConserved /\ SlicesConserved

-----------------------------------------------------------------------------
(* Blocks and lists of blocks.                                             *)

PagesAt(s) == UNION {PagesOf(b) : b \in ToSet(s)}

(* The pages of the blocks from one position to another.                   *)
Stretch(s, a, z) == UNION {PagesOf(s[i]) : i \in a .. z}

LEMMA ConstantsAre ==
    /\ PageSize \in Nat \ {0} /\ End \in Nat /\ Limit \in Nat
    /\ Limit % PageSize = 0 /\ End < Limit - PageSize
    /\ MaxCount \in Nat /\ PerPage \in Nat \ {0}
  BY KmemAssumption

LEMMA GapIs == Gap \in {0, 1}
  BY DEF Gap

LEMMA BlockIs ==
    ASSUME NEW b \in Blocks
    PROVE  /\ b.base \in Nat /\ b.pages \in Nat \ {0} /\ After(b) \in Nat
           /\ b.base < After(b) /\ After(b) = b.base + b.pages
           /\ \A p : p \in PagesOf(b) <=> p \in Nat /\ b.base <= p /\ p < After(b)
           /\ b.base \in PagesOf(b) /\ After(b) - 1 \in PagesOf(b)
  BY DEF Blocks, After, PagesOf

LEMMA BlockMade ==
    ASSUME NEW base \in Nat, NEW pages \in Nat \ {0}
    PROVE  /\ Block(base, pages) \in Blocks
           /\ Block(base, pages).base = base
           /\ Block(base, pages).pages = pages
           /\ After(Block(base, pages)) = base + pages
  BY DEF Block, Blocks, After

(* The block that a page is in.                                            *)
LEMMA PageOfList ==
    ASSUME NEW s \in Seq(Blocks), NEW p
    PROVE  p \in PagesAt(s) <=>
             p \in Nat /\ \E i \in 1 .. Len(s) : s[i].base <= p /\ p < After(s[i])
  <1>1. Len(s) \in Nat /\ DOMAIN s = 1 .. Len(s) /\ \A i \in 1 .. Len(s) : s[i] \in Blocks
    BY LenProperties
  <1>2. \A b \in Blocks : p \in PagesOf(b) <=> (p \in Nat /\ b.base <= p /\ p < After(b))
    BY DEF Blocks, PagesOf, After
  <1> QED  BY <1>1, <1>2 DEF PagesAt, ToSet

(* _add_block and _km_page_free find the place of an address behind every  *)
(* block that starts below it, and before every other.                     *)
LEMMA PlaceIs ==
    ASSUME free_pages \in Seq(Blocks), OrderedBlocks(free_pages), NEW base \in Nat
    PROVE  /\ Place(base) \in 1 .. Len(free_pages) + 1
           /\ \A i \in 1 .. Len(free_pages) :
                 i < Place(base) <=> free_pages[i].base < base
  <1> DEFINE n == Len(free_pages)
             S == {i \in 1 .. n : \A j \in 1 .. i : free_pages[j].base < base}
  <1>1. n \in Nat /\ DOMAIN free_pages = 1 .. n /\ \A i \in 1 .. n : free_pages[i] \in Blocks
    BY LenProperties
  <1>2. Place(base) = Cardinality(S) + 1
    BY <1>1 DEF Place
  <1>3. S \in SUBSET (1 .. n) /\ \A i \in S : 1 .. i \subseteq S
    BY <1>1
  <1>4. \A i, j \in 1 .. n : i < j => free_pages[i].base < free_pages[j].base
    BY <1>1, GapIs DEF OrderedBlocks, Blocks, After
  <1>5. S = {i \in 1 .. n : free_pages[i].base < base}
    <2>1. \A i \in 1 .. n : \A j \in 1 .. i : j \in 1 .. n /\ (j = i \/ j < i)
      BY <1>1
    <2>2. \A i \in 1 .. n : i \in 1 .. i
      BY <1>1
    <2>3. \A i \in 1 .. n : free_pages[i].base \in Nat
      BY <1>1 DEF Blocks
    <2> QED  BY <1>4, <2>1, <2>2, <2>3
  <1> HIDE DEF S
  <1>6. Cardinality(S) \in 0 .. n /\ S = 1 .. Cardinality(S)
    <2> HIDE DEF n
    <2> QED  BY <1>1, <1>3, FirstPositions
  <1>7. \A i \in 1 .. n : i < Cardinality(S) + 1 <=> i \in S
    BY <1>1, <1>6
  <1>8. \A i \in 1 .. n : i \in S <=> free_pages[i].base < base
    BY <1>5
  <1>9. Cardinality(S) + 1 \in 1 .. n + 1
    BY <1>1, <1>6
  <1> QED  BY <1>2, <1>7, <1>8, <1>9

(* A list in which one block takes the place of some, or is added.         *)
LEMMA SplicedPages ==
    ASSUME NEW s \in Seq(Blocks), NEW b \in Blocks, NEW t \in Seq(Blocks),
           NEW lo \in 0 .. Len(s), NEW hi \in lo + 1 .. Len(s) + 1,
           Spliced(t, s, lo, b, hi)
    PROVE  PagesAt(t) = PagesOf(b) \cup Stretch(s, 1, lo) \cup Stretch(s, hi, Len(s))
  <1>1. ToSet(t) = {b} \cup {s[i] : i \in 1 .. lo} \cup {s[i] : i \in hi .. Len(s)}
    BY SplicedMembers
  <1> QED  BY <1>1 DEF PagesAt, Stretch

LEMMA SplicedOrder ==
    ASSUME NEW s \in Seq(Blocks), NEW b \in Blocks, NEW t \in Seq(Blocks),
           NEW lo \in 0 .. Len(s), NEW hi \in lo + 1 .. Len(s) + 1,
           Spliced(t, s, lo, b, hi), OrderedBlocks(s),
           \A i \in 1 .. lo : After(s[i]) + Gap <= b.base,
           \A i \in hi .. Len(s) : After(b) + Gap <= s[i].base
    PROVE  OrderedBlocks(t)
  <1>1. Len(s) \in Nat /\ Len(t) \in Nat
    BY LenProperties
  <1> SUFFICES ASSUME NEW i \in 1 .. Len(t), NEW j \in 1 .. Len(t), i < j
               PROVE  After(t[i]) + Gap <= t[j].base
    BY DEF OrderedBlocks
  <1>2. /\ Len(t) = lo + 1 + Len(s) + 1 - hi
        /\ \A k \in 1 .. lo : t[k] = s[k]
        /\ t[lo + 1] = b
        /\ \A k \in lo + 2 .. Len(t) : t[k] = s[k - lo - 2 + hi]
    BY DEF Spliced
  <1>3. \A k \in lo + 2 .. Len(t) : k - lo - 2 + hi \in hi .. Len(s)
    BY SMTT(30), <1>1, <1>2
  <1>4. CASE j <= lo
    <2>1. i \in 1 .. Len(s) /\ j \in 1 .. Len(s) /\ i \in 1 .. lo /\ j \in 1 .. lo
      BY <1>1, <1>4
    <2> QED  BY <1>2, <2>1 DEF OrderedBlocks
  <1>5. CASE j = lo + 1
    <2>1. i \in 1 .. lo
      BY <1>1, <1>5
    <2> QED  BY <1>2, <1>5, <2>1
  <1>6. CASE j \in lo + 2 .. Len(t) /\ i <= lo
    <2> DEFINE l == j - lo - 2 + hi
    <2>1. /\ i \in 1 .. lo /\ i \in 1 .. Len(s)
          /\ l \in 1 .. Len(s) /\ i < l
      BY <1>1, <1>3, <1>6
    <2> QED  BY <1>2, <1>6, <2>1 DEF OrderedBlocks
  <1>7. CASE j \in lo + 2 .. Len(t) /\ i = lo + 1
    BY <1>2, <1>3, <1>7
  <1>8. CASE j \in lo + 2 .. Len(t) /\ i \in lo + 2 .. Len(t)
    <2> DEFINE k == i - lo - 2 + hi
               l == j - lo - 2 + hi
    <2>1. k \in 1 .. Len(s) /\ l \in 1 .. Len(s) /\ k < l
      BY <1>1, <1>3, <1>8
    <2>2. t[i] = s[k] /\ t[j] = s[l]
      BY <1>2, <1>8
    <2> HIDE DEF k, l
    <2> QED  BY <2>1, <2>2 DEF OrderedBlocks
  <1> QED  BY <1>1, <1>4, <1>5, <1>6, <1>7, <1>8

(* No page is in two blocks of a list.                                     *)
LEMMA BlocksApart ==
    ASSUME NEW s \in Seq(Blocks), OrderedBlocks(s),
           NEW i \in 1 .. Len(s), NEW j \in 1 .. Len(s), i # j
    PROVE  PagesOf(s[i]) \cap PagesOf(s[j]) = {}
  <1>1. s[i] \in Blocks /\ s[j] \in Blocks /\ i \in Nat /\ j \in Nat
    BY LenProperties
  <1>2. CASE i < j
    BY SMTT(30), <1>1, <1>2, GapIs DEF OrderedBlocks, Blocks, PagesOf, After
  <1>3. CASE j < i
    BY SMTT(30), <1>1, <1>3, GapIs DEF OrderedBlocks, Blocks, PagesOf, After
  <1> QED  BY <1>1, <1>2, <1>3

LEMMA PagesAtIs ==
    ASSUME NEW s \in Seq(Blocks), NEW p
    PROVE  p \in PagesAt(s) <=> \E i \in 1 .. Len(s) : p \in PagesOf(s[i])
  <1>1. DOMAIN s = 1 .. Len(s)
    BY LenProperties
  <1> QED  BY <1>1 DEF PagesAt, ToSet

(* A list with a block taken out.                                          *)
LEMMA RemovedBlock ==
    ASSUME NEW s \in Seq(Blocks), OrderedBlocks(s), NEW k \in 1 .. Len(s)
    PROVE  /\ RemoveAt(s, k) \in Seq(Blocks)
           /\ OrderedBlocks(RemoveAt(s, k))
           /\ PagesAt(RemoveAt(s, k)) = PagesAt(s) \ PagesOf(s[k])
  <1> DEFINE t == RemoveAt(s, k)
  <1>1. /\ t \in Seq(Blocks)
        /\ Len(t) = Len(s) - 1
        /\ \A i \in 1 .. Len(s) - 1 : t[i] = IF i < k THEN s[i] ELSE s[i + 1]
        /\ ToSet(t) = {s[i] : i \in (1 .. Len(s)) \ {k}}
    BY RemovedList
  <1> HIDE DEF t
  <1>2. Len(s) \in Nat
    BY LenProperties
  <1>3. OrderedBlocks(t)
    <2> SUFFICES ASSUME NEW i \in 1 .. Len(s) - 1, NEW j \in 1 .. Len(s) - 1, i < j
                 PROVE  After(t[i]) + Gap <= t[j].base
      BY <1>1 DEF OrderedBlocks
    <2> DEFINE l == IF i < k THEN i ELSE i + 1
               m == IF j < k THEN j ELSE j + 1
    <2>1. l \in 1 .. Len(s) /\ m \in 1 .. Len(s) /\ l < m
      BY <1>2
    <2>2. t[i] = s[l] /\ t[j] = s[m]
      BY <1>1
    <2> HIDE DEF l, m
    <2> QED  BY <2>1, <2>2 DEF OrderedBlocks
  <1>4. PagesAt(t) = PagesAt(s) \ PagesOf(s[k])
    <2>1. \A p : p \in PagesAt(t) <=> \E i \in (1 .. Len(s)) \ {k} : p \in PagesOf(s[i])
      BY <1>1 DEF PagesAt
    <2>2. \A i \in (1 .. Len(s)) \ {k} : PagesOf(s[i]) \cap PagesOf(s[k]) = {}
      BY BlocksApart
    <2>3. \A p : p \in PagesAt(s) <=> \E i \in 1 .. Len(s) : p \in PagesOf(s[i])
      BY PagesAtIs
    <2> QED  BY <2>1, <2>2, <2>3
  <1> QED  BY <1>1, <1>3, <1>4 DEF t

-----------------------------------------------------------------------------
(* Regions: what _km_init makes of one is exactly the pages that are there *)
(* to give.                                                                *)

LEMMA RegionIs ==
    ASSUME NEW r \in MemoryMap
    PROVE  /\ Usable(r) \in BOOLEAN
           /\ r.base \in Nat /\ r.length \in Nat
           /\ Usable(r) => r.base % PageSize = 0
           /\ \A t \in MemoryMap :
                r # t => r.base + r.length <= t.base \/ t.base + t.length <= r.base
  BY KmemAssumption DEF Usable

LEMMA CutoffIs ==
    /\ Cutoff \in Nat /\ Cutoff % PageSize = 0
    /\ Cutoff < Limit
    /\ \A p \in Nat : Cutoff <= p * PageSize <=> End <= p * PageSize
  <1> DEFINE c == (End + PageSize - 1) \div PageSize
  <1>1. /\ c \in Nat
        /\ \A q \in Nat : c <= q <=> End <= q * PageSize
    BY ConstantsAre, WholePages
  <1> HIDE DEF c
  <1>2. Cutoff = c * PageSize
    BY DEF Cutoff, c
  <1>3. \A q \in Nat : c <= q <=> c * PageSize <= q * PageSize
    BY <1>1, ConstantsAre, Product
  <1>4. c * PageSize \in Nat /\ (c * PageSize) % PageSize = 0
    BY <1>1, ConstantsAre
  <1>5. c * PageSize < Limit
    <2>1. c * PageSize <= End + PageSize - 1
      BY <1>1, ConstantsAre, WholePages DEF c
    <2> QED  BY <2>1, <1>4, ConstantsAre
  <1> QED  BY <1>1, <1>2, <1>3, <1>4, <1>5

(* A block from one address to another, the first of which is a page's.    *)
LEMMA BlockOfAddresses ==
    ASSUME NEW start \in Nat, NEW end \in Nat, start % PageSize = 0, start <= end
    PROVE  LET b == Block(start \div PageSize, (end - start) \div PageSize)
           IN  /\ b.base \in Nat /\ b.pages \in Nat
               /\ \A p : p \in PagesOf(b) <=>
                     p \in Nat /\ start <= p * PageSize /\ (p + 1) * PageSize <= end
  <1> DEFINE n == PageSize
             s == start \div PageSize
             m == (end - start) \div PageSize
             b == Block(s, m)
  <1>1. n \in Nat \ {0}
    BY ConstantsAre
  <1>2. s \in Nat /\ start = s * n
    BY <1>1
  <1>3. /\ m \in Nat
        /\ \A q \in Nat : q <= m <=> q * n <= end - start
    BY <1>1, WholePages
  <1> HIDE DEF s, m, n
  <1>4. b.base = s /\ b.pages = m
    BY DEF Block
  <1>5. PagesOf(b) = s .. s + m - 1
    BY <1>2, <1>3, <1>4 DEF PagesOf, After
  <1>6. ASSUME NEW p \in Nat
        PROVE  s <= p /\ p <= s + m - 1 <=> start <= p * n /\ (p + 1) * n <= end
    <2>1. s <= p <=> start <= p * n
      BY <1>1, <1>2, Product
    <2>2. CASE s <= p
      <3>1. p + 1 - s \in Nat
        BY <1>2, <2>2
      <3>2. p + 1 - s <= m <=> (p + 1 - s) * n <= end - start
        BY <1>3, <3>1
      <3>3. (p + 1) * n = (s * n) + ((p + 1 - s) * n)
        <4>1. \A x \in Nat : (s + x) * n = (s * n) + (x * n)
          BY <1>1, <1>2
        <4>2. s + (p + 1 - s) = p + 1
          BY <1>2
        <4>3. (s + (p + 1 - s)) * n = (s * n) + ((p + 1 - s) * n)
          BY <3>1, <4>1
        <4> QED  BY <4>2, <4>3
      <3>4. (p + 1 - s) * n \in Nat
        BY <1>1, <3>1
      <3>5. (p + 1 - s) * n <= end - start <=> (p + 1) * n <= end
        <4> DEFINE x == (p + 1 - s) * n
                   y == (p + 1) * n
        <4>1. x \in Nat /\ y = start + x
          BY <1>2, <3>3, <3>4
        <4> HIDE DEF x, y
        <4>2. x <= end - start <=> y <= end
          BY <4>1
        <4> QED  BY <4>2 DEF x, y
      <3> QED  BY <1>2, <1>3, <2>1, <2>2, <3>2, <3>5
    <2>3. CASE ~(s <= p)
      BY <2>1, <2>3
    <2> QED  BY <2>2, <2>3
  <1>7. \A p : p \in PagesOf(b) <=> p \in Nat /\ s <= p /\ p <= s + m - 1
    BY <1>2, <1>3, <1>5
  <1>8. \A p : p \in PagesOf(b) <=> p \in Nat /\ start <= p * n /\ (p + 1) * n <= end
    BY <1>6, <1>7
  <1> HIDE DEF b
  <1>9. b.base \in Nat /\ b.pages \in Nat
    BY <1>2, <1>3, <1>4
  <1> QED  BY <1>8, <1>9 DEF b, s, m, n

(* What _km_init takes of a region are its pages.                          *)
LEMMA ClippedRegion ==
    ASSUME NEW r \in MemoryMap
    PROVE  /\ Passed(r) => PagesIn(r) = {}
           /\ ~Passed(r) => Clipped(r).base \in Nat /\ Clipped(r).pages \in Nat
           /\ ~Passed(r) => PagesOf(Clipped(r)) = PagesIn(r)
  <1> DEFINE n == PageSize
             top == r.base + r.length
             start == IF r.base >= Cutoff THEN r.base ELSE Cutoff
             end == IF top <= Limit THEN top ELSE Limit
  <1>1. n \in Nat \ {0} /\ Limit \in Nat /\ Limit % n = 0 /\ End \in Nat
    BY ConstantsAre
  <1>2. r.base \in Nat /\ top \in Nat /\ Usable(r) \in BOOLEAN /\ (Usable(r) => r.base % n = 0)
    BY RegionIs
  <1>3. /\ Cutoff \in Nat /\ Cutoff % n = 0 /\ Cutoff < Limit
        /\ \A p \in Nat : Cutoff <= p * n <=> End <= p * n
    BY CutoffIs
  <1>4. \A p : p \in PagesIn(r) <=>
             /\ p \in Nat /\ p <= (Limit \div n) - 1
             /\ Usable(r) /\ End <= p * n
             /\ r.base <= p * n /\ (p + 1) * n <= top
    <2>1. Limit \div n \in Nat
      BY <1>1, WholePages
    <2> QED  BY <2>1 DEF PagesIn
  <1>5. ASSUME NEW p \in Nat
        PROVE  /\ p * n \in Nat /\ (p + 1) * n = (p * n) + n
               /\ p <= (Limit \div n) - 1 <=> (p + 1) * n <= Limit
    <2>1. p * n \in Nat /\ (p + 1) * n = (p * n) + n
      BY <1>1
    <2>2. p + 1 <= Limit \div n <=> (p + 1) * n <= Limit
      BY <1>1, WholePages
    <2>3. Limit \div n \in Nat
      BY <1>1, WholePages
    <2> QED  BY <2>1, <2>2, <2>3
  <1> HIDE DEF n, top
  <1>6. \A p : p \in PagesIn(r) <=>
             /\ p \in Nat /\ Usable(r) /\ Cutoff <= p * n /\ r.base <= p * n
             /\ (p + 1) * n <= top /\ (p + 1) * n <= Limit
    BY <1>3, <1>4, <1>5
  <1>7. Passed(r) => PagesIn(r) = {}
    <2> SUFFICES ASSUME Passed(r), NEW p \in PagesIn(r)
                 PROVE  FALSE
      OBVIOUS
    <2>1. /\ p \in Nat /\ Usable(r) /\ Cutoff <= p * n /\ r.base <= p * n
          /\ (p + 1) * n <= top /\ (p + 1) * n <= Limit
      BY <1>6
    <2>2. p * n \in Nat /\ (p + 1) * n = (p * n) + n
      BY <1>5, <2>1
    <2>3. ~Usable(r) \/ r.base >= Limit \/ top < Cutoff
      BY DEF Passed, top
    <2> QED  BY <1>1, <1>2, <1>3, <2>1, <2>2, <2>3
  <1>8. ASSUME ~Passed(r)
        PROVE  /\ Clipped(r).base \in Nat /\ Clipped(r).pages \in Nat
               /\ PagesOf(Clipped(r)) = PagesIn(r)
    <2>1. Usable(r) /\ r.base < Limit /\ Cutoff <= top
      BY <1>1, <1>2, <1>3, <1>8 DEF Passed, top
    <2>2. start \in Nat /\ end \in Nat /\ start % n = 0 /\ start <= end
      <3>1. start \in Nat /\ start % n = 0
        BY <1>2, <1>3, <2>1
      <3>2. end \in Nat
        BY <1>1, <1>2
      <3>3. r.base <= top
        BY RegionIs DEF top
      <3> QED  BY <1>1, <1>2, <1>3, <2>1, <3>1, <3>2, <3>3
    <2>3. Max({r.base, Cutoff}) = start
      BY <1>2, <1>3, MaxOfTwo
    <2>4. Min({top, Limit}) = end
      BY <1>1, <1>2, MinOfTwo
    <2>5. \A p \in Nat : start <= p * n <=> Cutoff <= p * n /\ r.base <= p * n
      BY <1>2, <1>3, <1>5
    <2>6. \A p \in Nat : (p + 1) * n <= end <=> (p + 1) * n <= top /\ (p + 1) * n <= Limit
      BY <1>1, <1>2, <1>5
    <2> HIDE DEF start, end
    <2> DEFINE b == Block(start \div n, (end - start) \div n)
    <2>7. b = Clipped(r)
      BY <2>3, <2>4 DEF Clipped, top, n
    <2>8. /\ b.base \in Nat /\ b.pages \in Nat
          /\ \A p : p \in PagesOf(b) <=>
                p \in Nat /\ start <= p * n /\ (p + 1) * n <= end
      BY <2>2, BlockOfAddresses DEF n
    <2> HIDE DEF b
    <2>9. \A p : p \in PagesOf(b) <=> p \in PagesIn(r)
      BY <1>6, <2>1, <2>5, <2>6, <2>8
    <2> QED  BY <2>7, <2>8, <2>9
  <1> QED  BY <1>7, <1>8

(* No page is in two regions.                                              *)
LEMMA RegionsDisjoint ==
    ASSUME NEW r \in MemoryMap, NEW t \in MemoryMap, r # t
    PROVE  PagesIn(r) \cap PagesIn(t) = {}
  <1> SUFFICES ASSUME NEW p \in PagesIn(r), p \in PagesIn(t)
               PROVE  FALSE
    OBVIOUS
  <1>1. /\ p \in Nat
        /\ r.base <= p * PageSize /\ (p + 1) * PageSize <= r.base + r.length
        /\ t.base <= p * PageSize /\ (p + 1) * PageSize <= t.base + t.length
    BY DEF PagesIn
  <1>2. p * PageSize \in Nat /\ (p + 1) * PageSize = (p * PageSize) + PageSize
    BY <1>1, ConstantsAre
  <1>3. /\ r.base \in Nat /\ r.length \in Nat /\ t.base \in Nat /\ t.length \in Nat
        /\ (r.base + r.length <= t.base \/ t.base + t.length <= r.base)
    BY RegionIs
  <1> QED  BY <1>1, <1>2, <1>3, ConstantsAre

(* Pages of other regions are as far away as the gap says.                 *)
LEMMA RegionsGap ==
    ASSUME NEW r \in MemoryMap, NEW p \in PagesIn(r),
           NEW q \in Memory, q \notin PagesIn(r)
    PROVE  /\ p < q => p + Gap < q
           /\ q < p => q + Gap < p
  <1>1. PICK t \in MemoryMap : q \in PagesIn(t) /\ t # r
    BY DEF Memory
  <1>2. p \in Nat /\ q \in Nat
    BY <1>1 DEF PagesIn
  <1>3. RegionsApart => q # p + 1 /\ p # q + 1
    BY <1>1 DEF RegionsApart
  <1> QED  BY <1>2, <1>3 DEF Gap

-----------------------------------------------------------------------------
(* What the operations make of the list of free pages.                     *)

LEMMA FreePagesIs ==
    ASSUME free_pages \in Seq(Blocks)
    PROVE  /\ Len(free_pages) \in Nat /\ DOMAIN free_pages = 1 .. Len(free_pages)
           /\ \A i \in 1 .. Len(free_pages) :
                 /\ free_pages[i] \in Blocks
                 /\ free_pages[i].base \in PagesOf(free_pages[i])
                 /\ After(free_pages[i]) - 1 \in PagesOf(free_pages[i])
                 /\ PagesOf(free_pages[i]) \subseteq FreePages
           /\ \A p : p \in FreePages => \E i \in 1 .. Len(free_pages) : p \in PagesOf(free_pages[i])
  <1>1. /\ Len(free_pages) \in Nat /\ DOMAIN free_pages = 1 .. Len(free_pages)
        /\ \A i \in 1 .. Len(free_pages) : free_pages[i] \in Blocks
    BY LenProperties
  <1>2. \A b \in Blocks : b.base \in PagesOf(b) /\ After(b) - 1 \in PagesOf(b)
    BY DEF Blocks, PagesOf, After
  <1> QED  BY <1>1, <1>2 DEF FreePages, ToSet

(* _add_block puts a block that no page of the list is in or too near at   *)
(* its place.                                                              *)
LEMMA ListWithBlock ==
    ASSUME free_pages \in Seq(Blocks), OrderedBlocks(free_pages), NEW b \in Blocks,
           \A p \in PagesOf(b), q \in FreePages :
              (p < q => p + Gap < q) /\ (q < p => q + Gap < p) /\ p # q
    PROVE  LET t == InsertAt(free_pages, Place(b.base), b)
           IN  /\ t \in Seq(Blocks)
               /\ OrderedBlocks(t)
               /\ PagesAt(t) = FreePages \cup PagesOf(b)
  <1> DEFINE s == free_pages
             k == Place(b.base)
             t == InsertAt(s, k, b)
  <1>1. /\ Len(s) \in Nat
        /\ \A i \in 1 .. Len(s) :
              /\ s[i].base \in Nat /\ After(s[i]) \in Nat /\ s[i].base < After(s[i])
              /\ s[i].base \in FreePages /\ After(s[i]) - 1 \in FreePages
              /\ \A p \in s[i].base .. After(s[i]) - 1 : p \in FreePages
    <2>1. Len(s) \in Nat /\ \A i \in 1 .. Len(s) : s[i] \in Blocks /\ PagesOf(s[i]) \subseteq FreePages
      BY FreePagesIs
    <2>2. ASSUME NEW i \in 1 .. Len(s)
          PROVE  /\ s[i].base \in Nat /\ After(s[i]) \in Nat /\ s[i].base < After(s[i])
                 /\ s[i].base \in FreePages /\ After(s[i]) - 1 \in FreePages
                 /\ \A p \in s[i].base .. After(s[i]) - 1 : p \in FreePages
      <3> DEFINE c == s[i]
      <3>1. c \in Blocks /\ PagesOf(c) \subseteq FreePages
        BY <2>1
      <3> HIDE DEF c, s
      <3>2. /\ c.base \in Nat /\ After(c) \in Nat /\ c.base < After(c)
            /\ \A p : p \in PagesOf(c) <=> p \in Nat /\ c.base <= p /\ p < After(c)
            /\ c.base \in PagesOf(c) /\ After(c) - 1 \in PagesOf(c)
        BY <3>1, BlockIs
      <3>3. \A p \in c.base .. After(c) - 1 : p \in PagesOf(c)
        BY <3>2
      <3> QED  BY <3>1, <3>2, <3>3 DEF c
    <2> QED  BY <2>1, <2>2
  <1>2. /\ b.base \in Nat /\ After(b) \in Nat /\ b.base < After(b)
        /\ \A p : p \in PagesOf(b) <=> p \in Nat /\ b.base <= p /\ p < After(b)
        /\ b.base \in PagesOf(b) /\ After(b) - 1 \in PagesOf(b)
    BY BlockIs
  <1>3. /\ k \in 1 .. Len(s) + 1
        /\ \A i \in 1 .. Len(s) : i < k <=> s[i].base < b.base
    BY <1>2, PlaceIs
  <1>4. t \in Seq(Blocks) /\ Spliced(t, s, k - 1, b, k)
    <2>1. k - 1 \in 0 .. Len(s) /\ k \in (k - 1) + 1 .. Len(s) + 1
      BY <1>1, <1>3
    <2>2. t = SubSeq(s, 1, k - 1) \o <<b>> \o SubSeq(s, k, Len(s))
      BY DEF InsertAt
    <2> HIDE DEF k, t
    <2> QED  BY <2>1, <2>2, SplicedList
  <1>5. \A q \in FreePages : q < After(b) => q < b.base
    <2> HIDE DEF s, t, k
    <2> SUFFICES ASSUME NEW q \in FreePages, q < After(b), ~(q < b.base)
                 PROVE  FALSE
      OBVIOUS
    <2>1. q \in Nat
      <3>1. PICK i \in 1 .. Len(free_pages) : q \in PagesOf(free_pages[i])
        BY FreePagesIs
      <3> QED  BY <3>1, FreePagesIs, BlockIs
    <2>2. q \in PagesOf(b)
      BY <1>2, <2>1
    <2> QED  BY <2>2
  <1>6. ASSUME NEW i \in 1 .. k - 1  PROVE After(s[i]) + Gap <= b.base
    <2>1. i \in 1 .. Len(s) /\ s[i].base < b.base
      BY <1>1, <1>3
    <2>2. ~(b.base < After(s[i]))
      <3> SUFFICES ASSUME b.base < After(s[i])  PROVE FALSE
        OBVIOUS
      <3>1. b.base \in s[i].base .. After(s[i]) - 1
        BY <1>1, <1>2, <2>1
      <3>2. b.base \in FreePages
        BY <1>1, <2>1, <3>1
      <3> QED  BY <1>2, <3>2
    <2>3. After(s[i]) - 1 < b.base /\ After(s[i]) - 1 \in FreePages
      BY <1>1, <1>2, <2>1, <2>2
    <2>4. (After(s[i]) - 1) + Gap < b.base
      BY <1>2, <2>3
    <2> QED  BY <1>1, <1>2, <2>1, <2>4, GapIs
  <1>7. ASSUME NEW i \in k .. Len(s)  PROVE After(b) + Gap <= s[i].base
    <2>1. i \in 1 .. Len(s) /\ s[i].base >= b.base /\ s[i].base \in FreePages
      BY <1>1, <1>2, <1>3
    <2>2. ~(s[i].base < After(b))
      BY <1>1, <1>2, <1>5, <2>1
    <2>3. (After(b) - 1) + Gap < s[i].base
      BY <1>1, <1>2, <2>1, <2>2
    <2> QED  BY SMTT(30), <1>1, <1>2, <2>1, <2>3, GapIs
  <1>8. k - 1 \in 0 .. Len(s) /\ k \in (k - 1) + 1 .. Len(s) + 1
    BY <1>1, <1>3
  <1> HIDE DEF t, k, s
  <1>9. /\ PagesAt(t) = PagesOf(b) \cup Stretch(s, 1, k - 1) \cup Stretch(s, k, Len(s))
        /\ OrderedBlocks(t)
    BY <1>4, <1>6, <1>7, <1>8, SplicedPages, SplicedOrder DEF s
  <1>10. \A p : p \in FreePages <=> \E i \in 1 .. Len(s) : p \in PagesOf(s[i])
    BY PagesAtIs DEF s, FreePages, PagesAt
  <1>11. 1 .. Len(s) = (1 .. k - 1) \cup (k .. Len(s))
    BY <1>1, <1>8
  <1>12. PagesAt(t) = FreePages \cup PagesOf(b)
    BY <1>9, <1>10, <1>11 DEF Stretch
  <1> QED  BY <1>4, <1>9, <1>12 DEF t, k, s

(* _km_page_alloc takes pages from the start of a block.                   *)
LEMMA ListWithout ==
    ASSUME free_pages \in Seq(Blocks), OrderedBlocks(free_pages),
           NEW count \in Nat \ {0}, NEW i \in 1 .. Len(free_pages),
           free_pages[i].pages >= count
    PROVE  LET t == Unlinked(count, i)
               b == Block(free_pages[i].base, count)
           IN  /\ t \in Seq(Blocks)
               /\ OrderedBlocks(t)
               /\ PagesAt(t) = FreePages \ PagesOf(b)
               /\ PagesOf(b) \subseteq FreePages
               /\ b.base \in PagesOf(b)
  <1> DEFINE s == free_pages
             t == Unlinked(count, i)
             b == Block(s[i].base, count)
             c == Block(s[i].base + count, s[i].pages - count)
  <1>1. /\ Len(s) \in Nat /\ s[i] \in Blocks
        /\ PagesOf(s[i]) \subseteq FreePages
        /\ s[i].base \in Nat /\ s[i].pages \in Nat \ {0}
    BY FreePagesIs, BlockIs
  <1>2. FreePages = PagesAt(s)
    BY DEF FreePages, PagesAt
  <1>3. /\ \A p : p \in PagesOf(b) <=> p \in Nat /\ s[i].base <= p /\ p < s[i].base + count
        /\ b.base = s[i].base /\ b.base \in PagesOf(b)
    <2>1. b \in Blocks /\ b.base = s[i].base /\ After(b) = s[i].base + count
      <3> HIDE DEF s
      <3> QED  BY <1>1, BlockMade
    <2> HIDE DEF b
    <2> QED  BY <2>1, BlockIs
  <1>4. \A p : p \in PagesOf(s[i]) <=>
              p \in Nat /\ s[i].base <= p /\ p < s[i].base + s[i].pages
    <2> HIDE DEF s
    <2> QED  BY <1>1, BlockIs
  <1>5. PagesOf(b) \subseteq FreePages /\ b.base \in PagesOf(b)
    BY <1>1, <1>3, <1>4
  <1>6. CASE s[i].pages = count
    <2>1. t = RemoveAt(s, i)
      BY <1>6 DEF Unlinked
    <2>2. PagesOf(b) = PagesOf(s[i])
      BY <1>3, <1>4, <1>6
    <2> HIDE DEF t, b, s
    <2>3. t \in Seq(Blocks) /\ OrderedBlocks(t) /\ PagesAt(t) = PagesAt(s) \ PagesOf(s[i])
      BY <2>1, RemovedBlock DEF s
    <2> QED  BY <1>2, <1>5, <2>2, <2>3 DEF t, b, s
  <1>7. CASE s[i].pages > count
    <2>1. /\ c \in Blocks
          /\ c.base = s[i].base + count
          /\ After(c) = After(s[i])
          /\ \A p : p \in PagesOf(c) <=>
                p \in Nat /\ s[i].base + count <= p /\ p < s[i].base + s[i].pages
      <3> DEFINE x == s[i].base
                 y == s[i].pages
      <3>1. x \in Nat /\ y \in Nat /\ y > count /\ After(s[i]) = x + y
        BY <1>1, <1>7, BlockIs
      <3>2. c = Block(x + count, y - count)
        OBVIOUS
      <3> HIDE DEF s, x, y, c
      <3>3. x + count \in Nat /\ y - count \in Nat \ {0} /\ (x + count) + (y - count) = x + y
        BY <3>1
      <3>4. c \in Blocks /\ c.base = x + count /\ After(c) = x + y
        BY <3>2, <3>3, BlockMade
      <3>5. \A p : p \in PagesOf(c) <=> p \in Nat /\ x + count <= p /\ p < x + y
        BY <3>4, BlockIs
      <3> QED  BY <3>1, <3>4, <3>5 DEF x, y
    <2>2. t = [s EXCEPT ![i] = c]
      BY <1>1, <1>7 DEF Unlinked
    <2> HIDE DEF t, c
    <2>3. /\ t \in Seq(Blocks) /\ Len(t) = Len(s)
          /\ \A j \in 1 .. Len(s) : t[j] = IF j = i THEN c ELSE s[j]
      BY <2>1, <2>2, ExceptSeq
    <2> HIDE DEF s
    <2> DEFINE lo == i - 1
               hi == i + 1
    <2>4. i \in 1 .. Len(s)
      BY DEF s
    <2>5. lo \in 0 .. Len(s) /\ hi \in lo + 1 .. Len(s) + 1 /\ lo + 1 = i
      BY <1>1, <2>4
    <2>6. Spliced(t, s, lo, c, hi)
      <3>1. Len(t) = lo + 1 + Len(s) + 1 - hi
        BY <1>1, <2>3, <2>4
      <3>2. \A j \in 1 .. lo : t[j] = s[j]
        BY <1>1, <2>3, <2>4
      <3>3. t[lo + 1] = c
        BY <2>3, <2>4, <2>5
      <3>4. ASSUME NEW j \in lo + 2 .. Len(t)  PROVE t[j] = s[j - lo - 2 + hi]
        <4>1. j \in 1 .. Len(s) /\ j # i /\ j - lo - 2 + hi = j
          BY <1>1, <2>3, <2>4
        <4> QED  BY <2>3, <4>1
      <3> QED  BY <3>1, <3>2, <3>3, <3>4 DEF Spliced
    <2>7. \A j \in 1 .. Len(s) : s[j] \in Blocks
      BY FreePagesIs DEF s
    <2>8. \A j \in 1 .. lo : After(s[j]) + Gap <= c.base
      <3> SUFFICES ASSUME NEW j \in 1 .. lo  PROVE After(s[j]) + Gap <= c.base
        OBVIOUS
      <3>1. j \in 1 .. Len(s) /\ j < i
        BY <1>1, <2>4
      <3>2. After(s[j]) + Gap <= s[i].base
        BY <2>4, <3>1 DEF OrderedBlocks, s
      <3>3. After(s[j]) \in Nat
        BY <2>7, <3>1, BlockIs
      <3> QED  BY <1>1, <2>1, <3>2, <3>3, GapIs
    <2>9. \A j \in hi .. Len(s) : After(c) + Gap <= s[j].base
      <3> SUFFICES ASSUME NEW j \in hi .. Len(s)  PROVE After(c) + Gap <= s[j].base
        OBVIOUS
      <3>1. j \in 1 .. Len(s) /\ i < j
        BY <1>1, <2>4
      <3>2. After(s[i]) + Gap <= s[j].base
        BY <2>4, <3>1 DEF OrderedBlocks, s
      <3> QED  BY <2>1, <3>2
    <2> HIDE DEF lo, hi
    <2>10. /\ PagesAt(t) = PagesOf(c) \cup Stretch(s, 1, lo) \cup Stretch(s, hi, Len(s))
           /\ OrderedBlocks(t)
      <3>1. s \in Seq(Blocks) /\ OrderedBlocks(s) /\ c \in Blocks /\ t \in Seq(Blocks)
        BY <2>1, <2>3 DEF s
      <3>2. OrderedBlocks(t)
        BY <2>5, <2>6, <2>8, <2>9, <3>1, SplicedOrder
      <3>3. PagesAt(t) = PagesOf(c) \cup Stretch(s, 1, lo) \cup Stretch(s, hi, Len(s))
        BY <2>5, <2>6, <3>1, SplicedPages
      <3> QED  BY <3>2, <3>3
    <2>11. (1 .. lo) \cup (hi .. Len(s)) = (1 .. Len(s)) \ {i}
      BY <1>1, <2>4 DEF lo, hi
    <2>12. \A p : p \in PagesAt(t) <=>
                     p \in PagesOf(c) \/ \E j \in (1 .. Len(s)) \ {i} : p \in PagesOf(s[j])
      BY <2>10, <2>11 DEF Stretch
    <2>13. \A p : p \in PagesAt(s) <=> \E j \in 1 .. Len(s) : p \in PagesOf(s[j])
      BY PagesAtIs DEF s
    <2>14. \A j \in (1 .. Len(s)) \ {i} : PagesOf(s[j]) \cap PagesOf(s[i]) = {}
      BY <2>4, BlocksApart DEF s
    <2>15. PagesOf(b) \cup PagesOf(c) = PagesOf(s[i]) /\ PagesOf(b) \cap PagesOf(c) = {}
      BY <1>1, <1>3, <1>4, <1>7, <2>1
    <2> HIDE DEF b
    <2>16. PagesAt(t) = PagesAt(s) \ PagesOf(b)
      BY <2>4, <2>12, <2>13, <2>14, <2>15
    <2> QED  BY <1>2, <1>5, <2>3, <2>10, <2>16 DEF t, b, s
  <1> QED  BY <1>1, <1>6, <1>7

(* _km_page_free adds the page, joined to the blocks it touches.           *)
LEMMA ListWithPage ==
    ASSUME free_pages \in Seq(Blocks), OrderedBlocks(free_pages),
           NEW p \in Nat, p \notin FreePages
    PROVE  /\ WithPage(p) \in Seq(Blocks)
           /\ OrderedBlocks(WithPage(p))
           /\ PagesAt(WithPage(p)) = FreePages \cup {p}
  <1> DEFINE s == free_pages
             n == Len(s)
             k == Place(p)
             before == k > 1 /\ After(s[k - 1]) = p
             behind == k <= n /\ s[k].base = p + 1
             start == IF before THEN s[k - 1].base ELSE p
             end == IF behind THEN After(s[k]) ELSE p + 1
             lo == IF before THEN k - 2 ELSE k - 1
             hi == IF behind THEN k + 1 ELSE k
             b == Block(start, end - start)
             t == WithPage(p)
  <1>1. /\ n \in Nat
        /\ \A i \in 1 .. n :
              /\ s[i] \in Blocks
              /\ s[i].base \in Nat /\ After(s[i]) \in Nat /\ s[i].base < After(s[i])
    BY FreePagesIs, BlockIs
  <1>2. \A q : q \in FreePages <=> \E i \in 1 .. n : q \in PagesOf(s[i])
    BY FreePagesIs
  <1>3. /\ k \in 1 .. n + 1
        /\ \A i \in 1 .. n : i < k <=> s[i].base < p
    BY PlaceIs
  <1>4. t = SubSeq(s, 1, lo) \o <<b>> \o SubSeq(s, hi, n)
    BY DEF WithPage
  <1>5. \A i, j \in 1 .. n : i < j => After(s[i]) + Gap <= s[j].base
    BY DEF OrderedBlocks
  <1> HIDE DEF s, n, k, t
  <1>6. \A i \in 1 .. n : \A q : q \in PagesOf(s[i]) <=> q \in Nat /\ s[i].base <= q /\ q < After(s[i])
    BY <1>1, BlockIs
  <1>7. \A i \in 1 .. n : IF i < k THEN After(s[i]) <= p ELSE p + 1 <= s[i].base
    <2> SUFFICES ASSUME NEW i \in 1 .. n
                 PROVE  IF i < k THEN After(s[i]) <= p ELSE p + 1 <= s[i].base
      OBVIOUS
    <2>1. ~(s[i].base <= p /\ p < After(s[i]))
      BY <1>2, <1>6
    <2>2. s[i].base \in Nat /\ After(s[i]) \in Nat /\ s[i].base < After(s[i])
      BY <1>1
    <2>3. i < k <=> s[i].base < p
      BY <1>3
    <2> QED  BY <2>1, <2>2, <2>3
  <1>8. /\ lo \in 0 .. n /\ hi \in lo + 1 .. n + 1
        /\ lo \in k - 2 .. k - 1 /\ hi \in k .. k + 1
    BY <1>1, <1>3
  <1>9. start \in Nat /\ start <= p
    <2>1. before => k - 1 \in 1 .. n
      BY <1>1, <1>3
    <2> QED  BY <1>1, <1>7, <2>1
  <1>10. end \in Nat /\ p < end
    <2>1. behind => k \in 1 .. n
      BY <1>1, <1>3
    <2> QED  BY <1>1, <1>7, <2>1
  <1>11. \A i \in 1 .. lo : After(s[i]) + Gap <= start
    <2> SUFFICES ASSUME NEW i \in 1 .. lo  PROVE After(s[i]) + Gap <= start
      OBVIOUS
    <2>1. i \in 1 .. n /\ i < k /\ After(s[i]) \in Nat /\ k - 1 \in 1 .. n
      BY <1>1, <1>3, <1>8
    <2>2. CASE before
      <3>1. i < k - 1
        BY <2>1, <2>2, <1>3
      <3> QED  BY <1>5, <2>1, <2>2, <3>1
    <2>3. CASE ~before /\ i = k - 1
      <3>1. After(s[i]) <= p /\ After(s[i]) # p
        BY <1>3, <1>7, <2>1, <2>3
      <3> QED  BY <2>1, <2>3, <3>1, GapIs
    <2>4. CASE ~before /\ i < k - 1
      <3>1. After(s[i]) + Gap <= s[k - 1].base
        BY <1>5, <2>1, <2>4
      <3>2. s[k - 1].base < p
        BY <1>3, <2>1
      <3>3. s[k - 1].base \in Nat
        BY <1>1, <2>1
      <3> QED  BY <2>1, <2>4, <3>1, <3>2, <3>3, GapIs
    <2> QED  BY <1>3, <2>1, <2>2, <2>3, <2>4
  <1>12. \A i \in hi .. n : end + Gap <= s[i].base
    <2> SUFFICES ASSUME NEW i \in hi .. n  PROVE end + Gap <= s[i].base
      OBVIOUS
    <2>1. i \in 1 .. n /\ ~(i < k) /\ s[i].base \in Nat /\ k \in 1 .. n
      BY <1>1, <1>3, <1>8
    <2>2. CASE behind
      <3>1. k < i
        BY <2>1, <2>2, <1>3
      <3> QED  BY <1>5, <2>1, <2>2, <3>1
    <2>3. CASE ~behind /\ i = k
      <3>1. p + 1 <= s[i].base /\ s[i].base # p + 1
        BY <1>1, <1>3, <1>7, <2>1, <2>3
      <3> QED  BY <2>1, <2>3, <3>1, GapIs
    <2>4. CASE ~behind /\ k < i
      <3>1. After(s[k]) + Gap <= s[i].base
        BY <1>5, <2>1, <2>4
      <3>2. p + 1 <= s[k].base /\ s[k].base < After(s[k])
        BY <1>1, <1>3, <1>7, <2>1
      <3>3. s[k].base \in Nat /\ After(s[k]) \in Nat
        BY <1>1, <2>1
      <3> QED  BY <2>1, <2>4, <3>1, <3>2, <3>3, GapIs
    <2> QED  BY <1>3, <2>1, <2>2, <2>3, <2>4
  <1>13. (before => k - 1 \in 1 .. n) /\ (behind => k \in 1 .. n)
    BY <1>1, <1>3
  <1>14. \A q \in Nat : start <= q /\ q < end <=>
              \/ q = p
              \/ before /\ q \in PagesOf(s[k - 1])
              \/ behind /\ q \in PagesOf(s[k])
    <2> SUFFICES ASSUME NEW q \in Nat
                 PROVE  start <= q /\ q < end <=>
                          \/ q = p
                          \/ before /\ q \in PagesOf(s[k - 1])
                          \/ behind /\ q \in PagesOf(s[k])
      OBVIOUS
    <2>1. before => (q \in PagesOf(s[k - 1]) <=> s[k - 1].base <= q /\ q < p)
      BY <1>6, <1>13
    <2>2. behind => (q \in PagesOf(s[k]) <=> p + 1 <= q /\ q < After(s[k]))
      BY <1>6, <1>13
    <2>3. q < start => ~(behind /\ q \in PagesOf(s[k]))
      BY <1>9, <2>2
    <2>4. q >= end => ~(before /\ q \in PagesOf(s[k - 1]))
      BY <1>10, <2>1
    <2>5. q < p => (start <= q <=> before /\ q \in PagesOf(s[k - 1]))
      BY <2>1
    <2>6. q > p => (q < end <=> behind /\ q \in PagesOf(s[k]))
      BY <2>2
    <2>7. q < p => q < end
      BY <1>10
    <2>8. q > p => start <= q
      BY <1>9
    <2>9. q < p => ~(behind /\ q \in PagesOf(s[k]))
      BY <2>2
    <2>10. q > p => ~(before /\ q \in PagesOf(s[k - 1]))
      BY <2>1
    <2>11. q < p \/ q = p \/ q > p
      OBVIOUS
    <2> HIDE DEF before, behind, start, end
    <2> QED  BY <1>9, <1>10, <2>5, <2>6, <2>7, <2>8, <2>9, <2>10, <2>11
  <1>15. (1 .. lo) \cup (hi .. n) =
            {i \in 1 .. n : ~(before /\ i = k - 1) /\ ~(behind /\ i = k)}
    <2>1. \A i \in 1 .. n : i <= lo <=> i < k /\ ~(before /\ i = k - 1)
      BY <1>1, <1>3
    <2>2. \A i \in 1 .. n : hi <= i <=> i >= k /\ ~(behind /\ i = k)
      BY <1>1, <1>3
    <2>3. k \in Nat /\ n \in Nat /\ lo \in 0 .. n /\ hi \in 1 .. n + 1
      BY <1>1, <1>3, <1>8
    <2> HIDE DEF lo, hi, before, behind
    <2>4. \A i : i \in (1 .. lo) \cup (hi .. n) <=> i \in 1 .. n /\ (i <= lo \/ hi <= i)
      BY <2>3
    <2>5. \A i \in 1 .. n : (i <= lo \/ hi <= i)
                            <=> ~(before /\ i = k - 1) /\ ~(behind /\ i = k)
      <3> SUFFICES ASSUME NEW i \in 1 .. n
                   PROVE  (i <= lo \/ hi <= i)
                            <=> ~(before /\ i = k - 1) /\ ~(behind /\ i = k)
        OBVIOUS
      <3>1. i < k => i # k /\ ~(i >= k)
        BY <2>3
      <3>2. i >= k => i # k - 1 /\ ~(i < k)
        BY <2>3
      <3>3. i < k \/ i >= k
        BY <2>3
      <3> QED  BY <2>1, <2>2, <3>1, <3>2, <3>3
    <2> QED  BY <2>4, <2>5
  <1> HIDE DEF before, behind, start, end, lo, hi
  <1>16. b \in Blocks /\ b.base = start /\ After(b) = end
    <2>1. end - start \in Nat \ {0} /\ start + (end - start) = end
      BY <1>9, <1>10
    <2> QED  BY <1>9, <2>1, BlockMade
  <1> HIDE DEF b
  <1>17. s \in Seq(Blocks) /\ OrderedBlocks(s)
    BY DEF s
  <1>18. t \in Seq(Blocks) /\ Spliced(t, s, lo, b, hi)
    BY <1>4, <1>8, <1>16, <1>17, SplicedList DEF n
  <1>19. PagesAt(t) = PagesOf(b) \cup Stretch(s, 1, lo) \cup Stretch(s, hi, Len(s))
    BY <1>8, <1>16, <1>17, <1>18, SplicedPages DEF n
  <1>20. OrderedBlocks(t)
    BY <1>8, <1>11, <1>12, <1>16, <1>17, <1>18, SplicedOrder DEF n
  <1>21. \A q : q \in PagesOf(b) <=>
            \/ q = p
            \/ before /\ q \in PagesOf(s[k - 1])
            \/ behind /\ q \in PagesOf(s[k])
    <2>1. \A q : q \in PagesOf(b) <=> q \in Nat /\ start <= q /\ q < end
      BY <1>16, BlockIs
    <2>2. \A q : before /\ q \in PagesOf(s[k - 1]) => q \in Nat
      BY <1>6, <1>13
    <2>3. \A q : behind /\ q \in PagesOf(s[k]) => q \in Nat
      BY <1>6, <1>13
    <2> QED  BY <1>14, <2>1, <2>2, <2>3
  <1>22. \A q : q \in Stretch(s, 1, lo) \cup Stretch(s, hi, Len(s)) <=>
            \E i \in (1 .. lo) \cup (hi .. n) : q \in PagesOf(s[i])
    BY DEF Stretch, n
  <1>23. PagesAt(t) = FreePages \cup {p}
    BY <1>2, <1>15, <1>13, <1>19, <1>21, <1>22
  <1> QED  BY <1>18, <1>20, <1>23 DEF t

-----------------------------------------------------------------------------
(* The initial state and the actions.                                      *)

LEMMA EmptyLists ==
    /\ <<>> \in Seq(Blocks) /\ <<>> \in Seq(Slices)
    /\ ToSet(<<>>) = {} /\ IsInjective(<<>>) /\ OrderedBlocks(<<>>)
  BY DEF ToSet, IsInjective, OrderedBlocks

LEMMA InitInv == Init => IInv
  <1> SUFFICES ASSUME Init  PROVE IInv
    OBVIOUS
  <1>1. TypesOK /\ OrderedBlocks(free_pages)
    BY EmptyLists DEF Init, TypesOK
  <1>2. PagesConserved
    BY EmptyLists DEF Init, PagesConserved, FreePages, Memory
  <1>3. SlicesConserved
    BY EmptyLists DEF Init, SlicesConserved
  <1> QED  BY <1>1, <1>2, <1>3 DEF IInv

(* The pages of the regions that are still to be added.                    *)
Ahead(regions) == UNION {PagesIn(t) : t \in regions}

LEMMA AddBlockInv ==
    ASSUME IInv, NEW r \in MemoryMap, AddBlock(r)
    PROVE  IInv'
  <1> USE DEF IInv
  <1>1. /\ r \in boot /\ boot' = boot \ {r} /\ boot \subseteq MemoryMap
        /\ UNCHANGED <<free_slices, held, carved, taken, panicked>>
    BY DEF AddBlock, TypesOK
  <1>2. SlicesConserved'
    BY <1>1 DEF SlicesConserved
  <1>3. /\ Ahead(boot) = Ahead(boot') \cup PagesIn(r)
        /\ Ahead(boot') \cap PagesIn(r) = {}
    <2>1. \A t \in boot' : PagesIn(t) \cap PagesIn(r) = {}
      BY <1>1, RegionsDisjoint
    <2>2. boot = boot' \cup {r}
      BY <1>1
    <2>3. \A q : q \in Ahead(boot) <=> \E t \in boot : q \in PagesIn(t)
      BY DEF Ahead
    <2>4. \A q : q \in Ahead(boot') <=> \E t \in boot' : q \in PagesIn(t)
      BY DEF Ahead
    <2> QED  BY <2>1, <2>2, <2>3, <2>4
  <1>4. /\ free_pages' \in Seq(Blocks)
        /\ OrderedBlocks(free_pages')
        /\ PagesAt(free_pages') = FreePages \cup PagesIn(r)
    <2> DEFINE b == Clipped(r)
    <2>1. CASE Passed(r) \/ b.pages = 0
      <3>1. free_pages' = free_pages
        BY <2>1 DEF AddBlock
      <3>2. PagesIn(r) = {}
        <4>1. CASE Passed(r)
          BY <4>1, ClippedRegion
        <4>2. CASE ~Passed(r) /\ b.pages = 0
          <5>1. PagesOf(b) = PagesIn(r) /\ b.base \in Nat
            BY <4>2, ClippedRegion
          <5> HIDE DEF b
          <5>2. PagesOf(b) = {}
            BY <4>2, <5>1 DEF PagesOf, After
          <5> QED  BY <5>1, <5>2
        <4> QED  BY <2>1, <4>1, <4>2
      <3> QED  BY <3>1, <3>2 DEF TypesOK, PagesAt, FreePages
    <2>2. CASE ~Passed(r) /\ b.pages # 0
      <3>1. free_pages' = InsertAt(free_pages, Place(b.base), b)
        BY <2>2 DEF AddBlock
      <3>2. PagesOf(b) = PagesIn(r) /\ b.base \in Nat /\ b.pages \in Nat \ {0}
        BY <2>2, ClippedRegion
      <3>3. b \in Blocks
        BY <3>2 DEF Clipped, Block, Blocks
      <3>4. \A p \in PagesIn(r), q \in FreePages :
               (p < q => p + Gap < q) /\ (q < p => q + Gap < p) /\ p # q
        <4>1. \A q \in FreePages : q \in Memory /\ q \notin PagesIn(r)
          BY <1>1 DEF PagesConserved
        <4> QED  BY <4>1, RegionsGap
      <3> HIDE DEF b
      <3> QED  BY <3>1, <3>2, <3>3, <3>4, ListWithBlock DEF TypesOK
    <2> QED  BY <2>1, <2>2
  <1>5. TypesOK'
    BY <1>1, <1>4 DEF TypesOK
  <1>6. FreePages' = FreePages \cup PagesIn(r)
    BY <1>4 DEF FreePages, PagesAt
  <1>7. PagesConserved'
    <2>1. /\ Ahead(boot) \cup FreePages \cup held \cup carved = Memory
          /\ Ahead(boot) \cap (FreePages \cup held \cup carved) = {}
          /\ FreePages \cap (held \cup carved) = {}
          /\ held \cap carved = {}
      BY DEF PagesConserved, Ahead
    <2>2. PagesConserved' <=>
            /\ Ahead(boot') \cup FreePages' \cup held \cup carved = Memory
            /\ Ahead(boot') \cap (FreePages' \cup held \cup carved) = {}
            /\ FreePages' \cap (held \cup carved) = {}
            /\ held \cap carved = {}
      BY <1>1 DEF PagesConserved, Ahead
    <2> QED  BY <1>3, <1>6, <2>1, <2>2
  <1> QED  BY <1>2, <1>4, <1>5, <1>7

(* Pages move from the list to those who ask.                              *)
LEMMA PageAllocInv ==
    ASSUME IInv, NEW count \in 1 .. MaxCount, PageAlloc(count)
    PROVE  IInv'
  <1> USE DEF IInv
  <1>1. PICK i \in DOMAIN free_pages :
           /\ FirstFit(count, i)
           /\ free_pages' = Unlinked(count, i)
           /\ held' = held \cup PagesOf(Block(free_pages[i].base, count))
    BY DEF PageAlloc
  <1>2. UNCHANGED <<boot, free_slices, carved, taken, panicked>>
    BY DEF PageAlloc
  <1>3. i \in 1 .. Len(free_pages) /\ free_pages[i].pages >= count /\ count \in Nat \ {0}
    BY <1>1, FreePagesIs, ConstantsAre DEF FirstFit, Fits, TypesOK
  <1> DEFINE cut == PagesOf(Block(free_pages[i].base, count))
  <1>4. /\ free_pages' \in Seq(Blocks)
        /\ OrderedBlocks(free_pages')
        /\ PagesAt(free_pages') = FreePages \ cut
        /\ cut \subseteq FreePages
    BY <1>1, <1>3, ListWithout DEF TypesOK
  <1> HIDE DEF cut
  <1>5. FreePages' = FreePages \ cut /\ held' = held \cup cut
    BY <1>1, <1>4 DEF FreePages, PagesAt, cut
  <1>6. PagesConserved'
    BY <1>2, <1>4, <1>5 DEF PagesConserved
  <1>7. TypesOK'
    BY <1>2, <1>4 DEF TypesOK
  <1>8. SlicesConserved'
    BY <1>2 DEF SlicesConserved
  <1> QED  BY <1>4, <1>6, <1>7, <1>8

LEMMA PageFreeInv ==
    ASSUME IInv, NEW p \in Memory, PageFree(p)
    PROVE  IInv'
  <1> USE DEF IInv
  <1>1. /\ p \in held /\ free_pages' = WithPage(p) /\ held' = held \ {p}
        /\ UNCHANGED <<boot, free_slices, carved, taken, panicked>>
    BY DEF PageFree
  <1>2. p \in Nat /\ p \notin FreePages
    BY <1>1 DEF Memory, PagesIn, PagesConserved
  <1>3. /\ free_pages' \in Seq(Blocks)
        /\ OrderedBlocks(free_pages')
        /\ PagesAt(free_pages') = FreePages \cup {p}
    BY <1>1, <1>2, ListWithPage DEF TypesOK
  <1>4. FreePages' = FreePages \cup {p}
    BY <1>3 DEF FreePages, PagesAt
  <1>5. PagesConserved'
    BY <1>1, <1>4 DEF PagesConserved
  <1>6. TypesOK'
    BY <1>1, <1>3 DEF TypesOK
  <1>7. SlicesConserved'
    BY <1>1 DEF SlicesConserved
  <1> QED  BY <1>3, <1>5, <1>6, <1>7

(* A page is cut into as many slices as fit, each once.                    *)
LEMMA CarvedSlices ==
    ASSUME NEW p \in Memory
    PROVE  /\ Carved(p) \in Seq(Slices) /\ Carved(p) # <<>>
           /\ IsInjective(Carved(p))
           /\ ToSet(Carved(p)) = {p} \X (1 .. PerPage)
  <1> DEFINE c == Carved(p)
  <1>1. PerPage \in Nat \ {0}
    BY ConstantsAre
  <1>2. DOMAIN c = 1 .. PerPage /\ \A k \in 1 .. PerPage : c[k] = <<p, PerPage + 1 - k>>
    BY DEF Carved
  <1>3. c \in [1 .. PerPage -> Slices]
    BY <1>1 DEF Carved, Slices
  <1>4. c \in Seq(Slices) /\ Len(c) = PerPage
    BY <1>1, <1>3
  <1> HIDE DEF c
  <1>5. c # <<>>
    BY <1>1, <1>4
  <1>6. IsInjective(c)
    BY <1>1, <1>2 DEF IsInjective
  <1>7. ToSet(c) = {p} \X (1 .. PerPage)
    <2>1. \A k \in 1 .. PerPage : /\ PerPage + 1 - k \in 1 .. PerPage
                                  /\ PerPage + 1 - (PerPage + 1 - k) = k
      BY <1>1
    <2>2. \A k \in 1 .. PerPage : c[k] \in {p} \X (1 .. PerPage)
      <3> SUFFICES ASSUME NEW k \in 1 .. PerPage
                   PROVE  <<p, PerPage + 1 - k>> \in {p} \X (1 .. PerPage)
        BY <1>2
      <3> QED  BY <2>1
    <2>3. \A k \in 1 .. PerPage : c[PerPage + 1 - k] = <<p, k>>
      BY <1>2, <2>1
    <2> QED  BY <1>2, <2>1, <2>2, <2>3 DEF ToSet
  <1> QED  BY <1>4, <1>5, <1>6, <1>7 DEF c

(* The first slice is free, or a page is carved, or there is none.         *)
LEMMA SliceAllocInv ==
    ASSUME IInv, SliceAlloc
    PROVE  IInv'
  <1> USE DEF IInv
  <1>1. CASE /\ free_slices # <<>>
             /\ free_slices' = Tail(free_slices)
             /\ taken' = taken \cup {Head(free_slices)}
             /\ UNCHANGED <<boot, free_pages, held, carved, panicked>>
    <2>1. free_slices \in Seq(Slices) /\ IsInjective(free_slices)
      BY DEF TypesOK, SlicesConserved
    <2>2. /\ Head(free_slices) \in ToSet(free_slices)
          /\ Tail(free_slices) \in Seq(Slices)
          /\ ToSet(Tail(free_slices)) = ToSet(free_slices) \ {Head(free_slices)}
          /\ IsInjective(Tail(free_slices))
      BY <1>1, <2>1, TailMembers
    <2>3. SlicesConserved'
      BY <1>1, <2>2 DEF SlicesConserved
    <2>4. TypesOK' /\ PagesConserved' /\ OrderedBlocks(free_pages')
      BY <1>1, <2>2 DEF TypesOK, PagesConserved, FreePages
    <2> QED  BY <2>3, <2>4
  <1>2. ASSUME NEW i \in DOMAIN free_pages,
               free_slices = <<>>, FirstFit(1, i),
               free_pages' = Unlinked(1, i),
               carved' = carved \cup {free_pages[i].base},
               free_slices' = Tail(Carved(free_pages[i].base)),
               taken' = taken \cup {Head(Carved(free_pages[i].base))},
               UNCHANGED <<boot, held, panicked>>
        PROVE  IInv'
    <2> DEFINE p == free_pages[i].base
               c == Carved(p)
    <2>1. i \in 1 .. Len(free_pages) /\ free_pages[i].pages >= 1
      BY <1>2, FreePagesIs DEF FirstFit, Fits, TypesOK
    <2>2. /\ free_pages' \in Seq(Blocks)
          /\ OrderedBlocks(free_pages')
          /\ PagesAt(free_pages') = FreePages \ PagesOf(Block(p, 1))
          /\ PagesOf(Block(p, 1)) \subseteq FreePages
      <3>1. 1 \in Nat \ {0} /\ free_pages \in Seq(Blocks) /\ OrderedBlocks(free_pages)
        BY DEF TypesOK
      <3> QED  BY <1>2, <2>1, <3>1, ListWithout
    <2>3. p \in Nat
      BY <2>1, FreePagesIs, BlockIs DEF TypesOK
    <2> HIDE DEF p
    <2>4. PagesOf(Block(p, 1)) = {p}
      <3> DEFINE b == Block(p, 1)
      <3>1. 1 \in Nat \ {0}
        OBVIOUS
      <3>2. b \in Blocks /\ b.base = p /\ After(b) = p + 1
        BY <2>3, <3>1, BlockMade
      <3> HIDE DEF b
      <3>3. \A q : q \in PagesOf(b) <=> q \in Nat /\ p <= q /\ q < p + 1
        BY <3>2, BlockIs
      <3>4. \A q : q \in PagesOf(b) <=> q = p
        BY <2>3, <3>3
      <3> QED  BY <3>4 DEF b
    <2>5. p \in FreePages /\ p \in Memory /\ p \notin carved
      BY <2>2, <2>4 DEF PagesConserved
    <2>6. /\ c \in Seq(Slices) /\ c # <<>> /\ IsInjective(c)
          /\ ToSet(c) = {p} \X (1 .. PerPage)
      BY <2>5, CarvedSlices
    <2> HIDE DEF c
    <2>7. /\ Head(c) \in ToSet(c)
          /\ Tail(c) \in Seq(Slices)
          /\ ToSet(Tail(c)) = ToSet(c) \ {Head(c)}
          /\ IsInjective(Tail(c))
      BY <2>6, TailMembers
    <2>8. /\ carved' = carved \cup {p}
          /\ free_slices' = Tail(c)
          /\ taken' = taken \cup {Head(c)}
      BY <1>2 DEF p, c
    <2>9. taken = carved \X (1 .. PerPage)
      BY <1>2, EmptyLists DEF SlicesConserved
    <2>10. SlicesConserved'
      <3>1. (carved \cup {p}) \X (1 .. PerPage) = taken \cup ToSet(c)
        BY <2>6, <2>9
      <3>2. ToSet(c) \cap taken = {}
        BY <2>5, <2>6, <2>9
      <3> QED  BY <2>7, <2>8, <3>1, <3>2 DEF SlicesConserved
    <2>11. FreePages' = FreePages \ {p}
      BY <2>2, <2>4 DEF FreePages, PagesAt
    <2>12. PagesConserved'
      BY <1>2, <2>5, <2>8, <2>11 DEF PagesConserved
    <2>13. TypesOK'
      BY <1>2, <2>2, <2>7, <2>8 DEF TypesOK
    <2> QED  BY <2>2, <2>10, <2>12, <2>13
  <1>3. CASE /\ panicked' = TRUE
             /\ UNCHANGED <<boot, held, free_pages, free_slices, carved, taken>>
    BY <1>3 DEF TypesOK, PagesConserved, SlicesConserved, FreePages
  <1> QED  BY <1>1, <1>2, <1>3 DEF SliceAlloc

LEMMA SliceFreeInv ==
    ASSUME IInv, NEW x \in Slices, SliceFree(x)
    PROVE  IInv'
  <1> USE DEF IInv
  <1>1. /\ x \in taken /\ free_slices' = <<x>> \o free_slices /\ taken' = taken \ {x}
        /\ UNCHANGED <<boot, free_pages, held, carved, panicked>>
    BY DEF SliceFree
  <1>2. free_slices \in Seq(Slices)
    BY DEF TypesOK
  <1>3. /\ free_slices' \in Seq(Slices)
        /\ ToSet(free_slices') = {x} \cup ToSet(free_slices)
        /\ IsInjective(free_slices) /\ x \notin ToSet(free_slices) => IsInjective(free_slices')
    BY <1>1, <1>2, ConsMembers
  <1>4. SlicesConserved'
    BY <1>1, <1>3 DEF SlicesConserved
  <1>5. TypesOK' /\ PagesConserved' /\ OrderedBlocks(free_pages')
    BY <1>1, <1>3 DEF TypesOK, PagesConserved, FreePages
  <1> QED  BY <1>4, <1>5

-----------------------------------------------------------------------------
(* The invariants.                                                         *)

LEMMA Invariant == Spec => []IInv
  <1>1. IInv /\ [Next]_vars => IInv'
    <2> SUFFICES ASSUME IInv, [Next]_vars  PROVE IInv'
      OBVIOUS
    <2>1. CASE \E r \in MemoryMap : AddBlock(r)
      BY <2>1, AddBlockInv
    <2>2. CASE \E count \in 1 .. MaxCount : PageAlloc(count)
      BY <2>2, PageAllocInv
    <2>3. CASE \E p \in Memory : PageFree(p)
      BY <2>3, PageFreeInv
    <2>4. CASE SliceAlloc
      BY <2>4, SliceAllocInv
    <2>5. CASE \E x \in Slices : SliceFree(x)
      BY <2>5, SliceFreeInv
    <2>6. CASE UNCHANGED vars
      BY <2>6 DEF vars, IInv, TypesOK, PagesConserved, SlicesConserved, FreePages
    <2> QED  BY <2>1, <2>2, <2>3, <2>4, <2>5, <2>6 DEF Next
  <1> QED  BY <1>1, InitInv, PTL DEF Spec

(* Whatever the memory map is, no page is lost, none has two owners, and   *)
(* none is given out that the BIOS did not list as memory to use; and the  *)
(* slices of a carved page stay with it in the same way (kmem.c).          *)
THEOREM MemoryIsConserved == Spec => []MemoryConserved
  <1>1. IInv => MemoryConserved
    <2> SUFFICES ASSUME IInv  PROVE TypeOK
      BY DEF IInv, MemoryConserved
    <2>1. \A b \in ToSet(free_pages) : b.base \in Memory /\ b.pages \in Nat \ {0}
      <3>1. \A i \in 1 .. Len(free_pages) :
               free_pages[i].base \in FreePages /\ free_pages[i].pages \in Nat \ {0}
        BY FreePagesIs, BlockIs DEF IInv, TypesOK
      <3>2. FreePages \subseteq Memory
        BY DEF IInv, PagesConserved
      <3>3. DOMAIN free_pages = 1 .. Len(free_pages)
        BY FreePagesIs DEF IInv, TypesOK
      <3> QED  BY <3>1, <3>2, <3>3 DEF ToSet
    <2>2. ToSet(free_slices) \subseteq Slices
      <3>1. \A i \in DOMAIN free_slices : free_slices[i] \in Slices
        BY LenProperties DEF IInv, TypesOK
      <3> QED  BY <3>1 DEF ToSet
    <2>3. held \subseteq Memory /\ carved \subseteq Memory
      BY DEF IInv, PagesConserved
    <2>4. taken \subseteq Slices
      BY <2>3 DEF IInv, SlicesConserved, Slices
    <2> QED  BY <2>1, <2>2, <2>3, <2>4 DEF TypeOK, IInv, TypesOK
  <1> QED  BY <1>1, Invariant, PTL

(* A row of free pages is within one block, for blocks do not touch.       *)
LEMMA RowsAreServed ==
    ASSUME IInv, RegionsApart
    PROVE  ListServes
  <1>1. InOrder
    <2>1. \A i, j \in 1 .. Len(free_pages) :
             i < j => After(free_pages[i]) + 1 <= free_pages[j].base
      BY DEF IInv, OrderedBlocks, Gap
    <2>2. /\ DOMAIN free_pages = 1 .. Len(free_pages)
          /\ \A i \in 1 .. Len(free_pages) :
                After(free_pages[i]) \in Nat /\ free_pages[i].base \in Nat
      BY FreePagesIs, BlockIs DEF IInv, TypesOK
    <2> QED  BY <2>1, <2>2 DEF InOrder
  <1>2. ASSUME NEW count \in 1 .. MaxCount, NEW p \in Memory,
               p .. p + count - 1 \subseteq FreePages
        PROVE  Fits(count) # {}
    <2> DEFINE n == Len(free_pages)
    <2>1. /\ n \in Nat /\ DOMAIN free_pages = 1 .. n
          /\ \A q : q \in FreePages => \E i \in 1 .. n : q \in PagesOf(free_pages[i])
          /\ \A i \in 1 .. n : free_pages[i] \in Blocks
      BY FreePagesIs DEF IInv, TypesOK
    <2>2. p \in Nat /\ count \in Nat /\ count >= 1
      BY ConstantsAre DEF Memory, PagesIn
    <2> HIDE DEF n
    <2>3. \A i \in 1 .. n :
             /\ free_pages[i].base \in Nat /\ After(free_pages[i]) \in Nat
             /\ free_pages[i].base < After(free_pages[i])
             /\ After(free_pages[i]) = free_pages[i].base + free_pages[i].pages
             /\ free_pages[i].pages \in Nat
             /\ \A q : q \in PagesOf(free_pages[i]) <=>
                   q \in Nat /\ free_pages[i].base <= q /\ q < After(free_pages[i])
      BY <2>1, BlockIs
    <2>4. PICK i \in 1 .. n : p \in PagesOf(free_pages[i])
      <3>1. p \in p .. p + count - 1
        BY <2>2
      <3> QED  BY <1>2, <2>1, <3>1
    <2> DEFINE after == After(free_pages[i])
    <2>5. after \notin FreePages
      <3> SUFFICES ASSUME NEW j \in 1 .. n, after \in PagesOf(free_pages[j])
                   PROVE  FALSE
        BY <2>1
      <3>1. free_pages[j].base <= after /\ after < After(free_pages[j])
        BY <2>3
      <3>2. i # j
        BY <2>3, <3>1
      <3>3. i < j => after < free_pages[j].base
        BY <1>1, <2>1 DEF InOrder
      <3>4. j < i => After(free_pages[j]) < free_pages[i].base
        BY <1>1, <2>1 DEF InOrder
      <3> QED  BY <2>1, <2>3, <3>1, <3>2, <3>3, <3>4
    <2>6. p + count <= after
      <3> SUFFICES ASSUME p + count > after  PROVE FALSE
        BY <2>2, <2>3
      <3>1. after \in p .. p + count - 1
        BY <2>2, <2>3, <2>4
      <3> QED  BY <1>2, <2>5, <3>1
    <2>7. free_pages[i].pages >= count
      BY <2>2, <2>3, <2>4, <2>6
    <2> QED  BY <2>1, <2>7 DEF Fits
  <1> QED  BY <1>1, <1>2 DEF ListServes, RoomIsFound

(* When no region begins where another ends, blocks of free pages never    *)
(* touch, and so first fit finds count pages in a row whenever they are    *)
(* free (_km_page_alloc, _km_page_free).                                   *)
THEOREM RequestsAreServed ==
    ASSUME RegionsApart
    PROVE  Spec => []ListServes
  <1>1. IInv => ListServes
    BY RowsAreServed
  <1> QED  BY <1>1, Invariant, PTL
=============================================================================
