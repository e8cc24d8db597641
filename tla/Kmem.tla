-------------------------------- MODULE Kmem --------------------------------
(***************************************************************************)
(* The kernel's memory allocator (kmem.c): pages from a free list that is  *)
(* kept in order of address and coalesced, and slices carved from pages.   *)
(* Addresses are page numbers; a block is the page it starts at and its    *)
(* length in pages.                                                        *)
(***************************************************************************)
EXTENDS Naturals, Sequences, FiniteSets, SequencesExt, FiniteSetsExt

CONSTANTS
    MemoryMap,   \* what the BIOS lists: regions, with addresses in bytes
    PageSize,    \* PAGE_SIZE
    End,         \* _end, where the system's own memory ends
    Limit,       \* 2^32
    MaxCount,    \* bound on the pages asked for at once
    PerPage      \* slices in a page

Block(base, pages) == [base |-> base, pages |-> pages]
After(b) == b.base + b.pages
PagesOf(b) == b.base .. After(b) - 1

(* What a region says of itself: ACPI's two bits, and its type.            *)
Usable(r) == r.valid /\ ~r.nonvol /\ r.type = "usable"

(* The memory map is of regions that do not overlap, and usable ones start *)
(* at a page.                                                              *)
ASSUME KmemAssumption ==
    /\ \A r \in MemoryMap :
          r \in [valid : BOOLEAN, nonvol : BOOLEAN, type : STRING, base : Nat, length : Nat]
    /\ \A r, t \in MemoryMap :
          r # t => r.base + r.length <= t.base \/ t.base + t.length <= r.base
    /\ PageSize \in Nat \ {0} /\ End \in Nat /\ Limit \in Nat
    /\ \A r \in MemoryMap : Usable(r) => r.base % PageSize = 0
    /\ Limit % PageSize = 0 /\ End < Limit - PageSize
    /\ MaxCount \in Nat /\ PerPage \in Nat \ {0}

(* The pages there are to give: whole ones in a usable region, behind the  *)
(* system and with an address of 32 bits.                                  *)
PagesIn(r) ==
    {p \in 0 .. Limit \div PageSize - 1 :
        /\ Usable(r) /\ End <= p * PageSize
        /\ r.base <= p * PageSize /\ (p + 1) * PageSize <= r.base + r.length}

Memory == UNION {PagesIn(r) : r \in MemoryMap}
Slices == Memory \X (1 .. PerPage)

VARIABLES
    boot,          \* regions _km_init has not reached yet
    free_pages,    \* _free_pages, a list of blocks
    free_slices,   \* _free_slices, a list of slices
    held,          \* pages in the hands of clients
    carved,        \* pages made into slices
    taken,         \* slices in the hands of clients
    panicked

vars == <<boot, free_pages, free_slices, held, carved, taken, panicked>>

FreePages == UNION {PagesOf(b) : b \in ToSet(free_pages)}

TypeOK ==
    /\ boot \subseteq MemoryMap
    /\ \A b \in ToSet(free_pages) : b.base \in Memory /\ b.pages \in Nat \ {0}
    /\ ToSet(free_slices) \subseteq Slices /\ taken \subseteq Slices
    /\ held \subseteq Memory /\ carved \subseteq Memory
    /\ panicked \in BOOLEAN

Init ==
    /\ boot = MemoryMap
    /\ free_pages = <<>> /\ free_slices = <<>>
    /\ held = {} /\ carved = {} /\ taken = {}
    /\ panicked = FALSE

-----------------------------------------------------------------------------
(* The place of an address in the free list: behind every block that       *)
(* starts below it.                                                        *)
Place(base) ==
    Cardinality({i \in DOMAIN free_pages :
                    \A j \in 1 .. i : free_pages[j].base < base}) + 1

(* _km_init passes over regions that are not usable, below the cutoff or   *)
(* above 4 GB, and takes from the others what is.                          *)
Cutoff == ((End + PageSize - 1) \div PageSize) * PageSize

Passed(r) == ~Usable(r) \/ r.base >= Limit \/ r.base + r.length < Cutoff

ClippedShort(r) ==                       \* mutant: the length is not reduced
    LET start == Max({r.base, Cutoff})
    IN  Block(start \div PageSize, r.length \div PageSize)

Clipped(r) ==
    LET start == Max({r.base, Cutoff})
        end   == Min({r.base + r.length, Limit})
    IN  Block(start \div PageSize, (end - start) \div PageSize)

(* _add_block, for the next region: less than a page is not added.         *)
AddBlock(r) ==
    /\ r \in boot
    /\ boot' = boot \ {r}
    /\ free_pages' = IF Passed(r) \/ Clipped(r).pages = 0 THEN free_pages
                     ELSE InsertAt(free_pages, Place(Clipped(r).base), Clipped(r))
    /\ UNCHANGED <<free_slices, held, carved, taken, panicked>>

Ready == boot = {} /\ ~panicked

(* _km_page_alloc: the first block that is large enough.                   *)
Fits(count) == {i \in DOMAIN free_pages : free_pages[i].pages >= count}

FirstFit(count, i) == i \in Fits(count) /\ \A j \in Fits(count) : i <= j

RestNotMoved(count, i) ==                \* mutant: the rest keeps the old start
    LET b == free_pages[i]
    IN  IF b.pages = count THEN RemoveAt(free_pages, i)
        ELSE [free_pages EXCEPT ![i] = Block(b.base, b.pages - count)]

Unlinked(count, i) ==
    LET b == free_pages[i]
    IN  IF b.pages = count THEN RemoveAt(free_pages, i)
        ELSE [free_pages EXCEPT ![i] = Block(b.base + count, b.pages - count)]

PageAlloc(count) ==
    /\ Ready
    /\ \E i \in DOMAIN free_pages :
          /\ FirstFit(count, i)
          /\ free_pages' = Unlinked(count, i)
          /\ held' = held \cup PagesOf(Block(free_pages[i].base, count))
    /\ UNCHANGED <<boot, free_slices, carved, taken, panicked>>

(* _km_page_free: a page joins the blocks before and behind it.            *)
WithPageBeforeOnly(p) ==                 \* mutant: the successor is not looked at
    LET i == Place(p)
        before == i > 1 /\ After(free_pages[i - 1]) = p
    IN  IF before
        THEN [free_pages EXCEPT ![i - 1] = Block(@.base, @.pages + 1)]
        ELSE InsertAt(free_pages, i, Block(p, 1))

WithPage(p) ==
    LET i == Place(p)
        before == i > 1 /\ After(free_pages[i - 1]) = p
        behind == i <= Len(free_pages) /\ free_pages[i].base = p + 1
        start  == IF before THEN free_pages[i - 1].base ELSE p
        end    == IF behind THEN After(free_pages[i]) ELSE p + 1
    IN  SubSeq(free_pages, 1, IF before THEN i - 2 ELSE i - 1)
        \o <<Block(start, end - start)>>
        \o SubSeq(free_pages, IF behind THEN i + 1 ELSE i, Len(free_pages))

PageFree(p) ==
    /\ Ready
    /\ p \in held
    /\ free_pages' = WithPage(p)
    /\ held' = held \ {p}
    /\ UNCHANGED <<boot, free_slices, carved, taken, panicked>>

(* _km_slice_alloc: the first free slice; without one a page is carved,    *)
(* and without a page the kernel panics.                                   *)
Carved(p) == [k \in 1 .. PerPage |-> <<p, PerPage + 1 - k>>]

SliceAlloc ==
    /\ Ready
    /\ \/ /\ free_slices # <<>>
          /\ free_slices' = Tail(free_slices)
          /\ taken' = taken \cup {Head(free_slices)}
          /\ UNCHANGED <<free_pages, carved, panicked>>
       \/ /\ free_slices = <<>>
          /\ \E i \in DOMAIN free_pages :
                LET page == free_pages[i].base
                IN  /\ FirstFit(1, i)
                    /\ free_pages' = Unlinked(1, i)
                    /\ carved' = carved \cup {page}
                    /\ free_slices' = Tail(Carved(page))
                    /\ taken' = taken \cup {Head(Carved(page))}
          /\ UNCHANGED panicked
       \/ /\ free_slices = <<>>
          /\ Fits(1) = {}                \* assert( page )
          /\ panicked' = TRUE
          /\ UNCHANGED <<free_pages, free_slices, carved, taken>>
    /\ UNCHANGED <<boot, held>>

(* _km_slice_free                                                          *)
SliceFree(s) ==
    /\ Ready
    /\ s \in taken
    /\ free_slices' = <<s>> \o free_slices
    /\ taken' = taken \ {s}
    /\ UNCHANGED <<boot, free_pages, held, carved, panicked>>

Next ==
    \/ \E r \in MemoryMap : AddBlock(r)
    \/ \E count \in 1 .. MaxCount : PageAlloc(count)
    \/ \E p \in Memory : PageFree(p)
    \/ SliceAlloc
    \/ \E s \in Slices : SliceFree(s)

Spec == Init /\ [][Next]_vars

-----------------------------------------------------------------------------
(* Properties.                                                             *)

(* Every page of memory is in one place: still to be added, free, with a   *)
(* client, or carved.  None is lost, none is given to two, and none comes  *)
(* from where there is no memory to give.                                  *)
PagesConserved ==
    LET waiting == UNION {PagesIn(r) : r \in boot}
    IN  /\ waiting \cup FreePages \cup held \cup carved = Memory
        /\ waiting \cap (FreePages \cup held \cup carved) = {}
        /\ FreePages \cap (held \cup carved) = {}
        /\ held \cap carved = {}

(* The blocks on the free list are in order of address and do not overlap; *)
(* once regions that do not touch are added, two blocks never touch.       *)
InOrder ==
    \A i, j \in DOMAIN free_pages :
       i < j => After(free_pages[i]) < free_pages[j].base

(* First fit fails only when there is no room: as long as the free pages   *)
(* hold count in a row, one block does.                                    *)
RoomIsFound ==
    boot = {} =>
       \A count \in 1 .. MaxCount :
          (\E p \in Memory : p .. p + count - 1 \subseteq FreePages)
             => Fits(count) # {}

(* The slices of the carved pages are each free, once, or with a client.   *)
SlicesConserved ==
    /\ IsInjective(free_slices)
    /\ ToSet(free_slices) \cap taken = {}
    /\ ToSet(free_slices) \cup taken = carved \X (1 .. PerPage)

(* No memory is lost, and none has two owners.                             *)
MemoryConserved == TypeOK /\ PagesConserved /\ SlicesConserved

(* The list of free pages serves every request that the free pages could.  *)
ListServes == InOrder /\ RoomIsFound
=============================================================================
