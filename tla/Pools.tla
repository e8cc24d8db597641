-------------------------------- MODULE Pools --------------------------------
(***************************************************************************)
(* The structures that processes are made of and the lists they are kept   *)
(* on: queue nodes (queues.c), PCBs (process.c) and stacks (stacks.c).     *)
(* Each kind has a free list threaded through a field of the structures    *)
(* themselves and grows from the memory of kmem.c, which is never given    *)
(* back: pages and slices are counts here, module Kmem has their lists.    *)
(*                                                                         *)
(* A pool is the head of its free list, the number of structures there are *)
(* and the link of each; structures are numbered in the order they are     *)
(* carved, and 0 is NULL.                                                  *)
(***************************************************************************)
EXTENDS Naturals, Sequences, FiniteSets, SequencesExt, FiniteSetsExt

CONSTANTS
    Queues,          \* _ready, _sleeping and _reading
    Ordered,         \* those with a function to compare keys
    Keys,            \* wakeup times
    Pages,           \* pages there are when the system starts
    StackPages,      \* STACK_PAGES
    SlicesPerPage,   \* 4
    NodesPerSlice,   \* SLICE_SIZE / sizeof(qnode_t)
    PcbsPerSlice     \* SLICE_SIZE / sizeof(pcb_t)

ASSUME PoolsAssumption ==
    /\ Ordered \subseteq Queues /\ Keys \subseteq Nat
    /\ StackPages \in Nat \ {0} /\ NodesPerSlice \in Nat \ {0} /\ PcbsPerSlice \in Nat \ {0}
    /\ SlicesPerPage \in Nat /\ SlicesPerPage >= 3   \* _que_init and _proc_init take three
    /\ Pages \in Nat /\ Pages >= 1 + StackPages

(* No more than the stacks that fit in memory let processes need.          *)
Stacks == 1 .. Pages \div StackPages
Nodes  == 1 .. Cardinality(Stacks) + NodesPerSlice
Pcbs   == 1 .. Cardinality(Stacks) + PcbsPerSlice

VARIABLES
    pages, slices,   \* free ones
    nodes,           \* the pool of queue nodes; its links are "next"
    prev, entry,     \* the other fields of queue nodes
    que,             \* the queues
    pcbs,            \* the pool of PCBs, linked by "context"
    stack,           \* pcb->stack
    live,            \* the PCBs of processes
    stacks,          \* the pool of stacks, linked by the first word
    panic            \* an assertion has failed

vars == <<pages, slices, nodes, prev, entry, que, pcbs, stack, live, stacks, panic>>

NoEntry == [data |-> 0, key |-> 0]

PoolOf(S) == [free : S \cup {0}, made : S \cup {0}, link : [S -> S \cup {0}]]

TypeOK ==
    /\ pages \in 0 .. Pages /\ slices \in 0 .. SlicesPerPage
    /\ nodes \in PoolOf(Nodes) /\ pcbs \in PoolOf(Pcbs) /\ stacks \in PoolOf(Stacks)
    /\ prev \in [Nodes -> Nodes \cup {0}]
    /\ entry \in [Nodes \cup {0} -> [data : Pcbs \cup {0}, key : Keys \cup {0}]]
    /\ que \in [Queues -> [head : Nodes \cup {0}, tail : Nodes \cup {0}, length : Nat]]
    /\ stack \in [Pcbs -> Stacks \cup {0}]
    /\ live \subseteq Pcbs
    /\ panic \in BOOLEAN

-----------------------------------------------------------------------------
(* Free lists.                                                             *)

(* n more structures, each freed in turn (_new_qnodes, _new_pcbs).         *)
Carved(pool, n) ==
    [free |-> pool.made + n,
     made |-> pool.made + n,
     link |-> [i \in DOMAIN pool.link |->
                 IF i = pool.made + 1 THEN pool.free
                 ELSE IF i \in pool.made + 2 .. pool.made + n THEN i - 1
                 ELSE pool.link[i]]]

(* The one that is taken has its link cleared.                             *)
Taken(pool) == [free |-> pool.link[pool.free], made |-> pool.made,
                link |-> [pool.link EXCEPT ![pool.free] = 0]]

Freed(pool, x) == [free |-> x, made |-> pool.made,
                   link |-> [pool.link EXCEPT ![x] = pool.free]]

EmptyPool(S) == [free |-> 0, made |-> 0, link |-> [i \in S |-> 0]]

(* What a pool is when one is taken of it.                                 *)
Stocked(pool, n) == IF pool.free = 0 THEN Carved(pool, n) ELSE pool

(* _km_slice_alloc panics where its callers expect NULL.                   *)
Memory == [pages |-> pages, slices |-> slices]
NoSlice(mem) == mem.slices = 0 /\ mem.pages = 0
SliceTaken(mem) ==
    IF mem.slices # 0 THEN [mem EXCEPT !.slices = @ - 1]
    ELSE [pages |-> mem.pages - 1, slices |-> SlicesPerPage - 1]

-----------------------------------------------------------------------------
(* _km_init, _que_init, _proc_init and _stk_init: one page is carved for   *)
(* the nodes, the queues and the PCBs, and the system has its stack.       *)
Init ==
    /\ pages = Pages - 1 - StackPages /\ slices = SlicesPerPage - 3
    /\ nodes = Carved(EmptyPool(Nodes), NodesPerSlice)
    /\ prev = [i \in Nodes |-> 0]
    /\ entry = [i \in Nodes \cup {0} |-> NoEntry]
    /\ que = [q \in Queues |-> [head |-> 0, tail |-> 0, length |-> 0]]
    /\ pcbs = Carved(EmptyPool(Pcbs), PcbsPerSlice)
    /\ stack = [p \in Pcbs |-> 0]
    /\ live = {}
    /\ stacks = Taken(Carved(EmptyPool(Stacks), 1))
    /\ panic = FALSE

-----------------------------------------------------------------------------
(* Queues.                                                                 *)

(* The nodes of a queue, from its head on by next.                         *)
Chain(pool, first, length) ==
    LET at[k \in 1 .. length] == IF k = 1 THEN first
                                 ELSE IF at[k - 1] = 0 THEN 0 ELSE pool.link[at[k - 1]]
    IN  at

OnQueue(q)  == Chain(nodes, que[q].head, que[q].length)
Queued      == UNION {{entry[x].data : x \in ToSet(OnQueue(q))} : q \in Queues}

(* The node that a new one goes in front of: the first with a greater key, *)
(* or NULL.                                                                *)
SuccessorByKeyOnly(q, key) ==            \* mutant: >, not >=, in the loop
    LET later == {k \in 1 .. que[q].length : q \in Ordered /\ entry[OnQueue(q)[k]].key >= key}
    IN  IF later = {} THEN 0 ELSE OnQueue(q)[Min(later)]

Successor(q, key) ==
    LET later == {k \in 1 .. que[q].length : q \in Ordered /\ entry[OnQueue(q)[k]].key > key}
    IN  IF later = {} THEN 0 ELSE OnQueue(q)[Min(later)]

(* The predecessor of the new node.                                        *)
Before(q, next) == IF next = 0 THEN que[q].tail ELSE prev[next]

NextLinks(pool, new, before, next) ==
    [pool EXCEPT !.link = [i \in DOMAIN @ |->
        IF i = new THEN next ELSE IF i = before THEN new ELSE @[i]]]

PrevLinksForgotten(new, before, next) == \* mutant: curr->prev is not set
    [prev EXCEPT ![new] = before]

PrevLinks(new, before, next) ==
    [i \in Nodes |-> IF i = new THEN before ELSE IF i = next THEN new ELSE prev[i]]

(* _que_enque, with a pool that has a free node.                           *)
Linked(pool, q, p, key) ==
    LET new    == pool.free
        next   == Successor(q, key)
        before == Before(q, next)
    IN  /\ nodes' = NextLinks(Taken(pool), new, before, next)
        /\ prev' = PrevLinks(new, before, next)
        /\ entry' = [entry EXCEPT ![new] = [data |-> p, key |-> key]]
        /\ que' = [que EXCEPT ![q] = [head   |-> IF before = 0 THEN new ELSE @.head,
                                      tail   |-> IF next = 0 THEN new ELSE @.tail,
                                      length |-> @.length + 1]]

Panic ==
    /\ panic' = TRUE
    /\ UNCHANGED <<pages, slices, nodes, prev, entry, que, pcbs, stack, live, stacks>>

(* The node comes from the free list, or from a slice of memory.           *)
NodeFor(mem, q, p, key) ==
    IF nodes.free # 0
    THEN Linked(nodes, q, p, key) /\ pages' = mem.pages /\ slices' = mem.slices
    ELSE /\ Linked(Carved(nodes, NodesPerSlice), q, p, key)
         /\ pages' = SliceTaken(mem).pages /\ slices' = SliceTaken(mem).slices

Enque(q, p, key) ==
    /\ ~panic
    /\ p \in live \ Queued
    /\ IF nodes.free = 0 /\ NoSlice(Memory) THEN Panic
       ELSE NodeFor(Memory, q, p, key) /\ UNCHANGED <<pcbs, stack, live, stacks, panic>>

(* The other fields of a structure are cleared when it is taken from its   *)
(* free list; here when it is put there, for nobody reads them meanwhile.  *)
Deque(q) ==
    /\ ~panic
    /\ que[q].length # 0
    /\ LET old  == que[q].head
           head == nodes.link[old]
       IN  /\ que' = [que EXCEPT ![q] = [head   |-> head,
                                         tail   |-> IF head = 0 THEN 0 ELSE @.tail,
                                         length |-> @.length - 1]]
           /\ prev' = [prev EXCEPT ![IF head = 0 THEN old ELSE head] = 0]
           /\ nodes' = Freed(nodes, old)
           /\ entry' = [entry EXCEPT ![old] = NoEntry]
    /\ UNCHANGED <<pages, slices, pcbs, stack, live, stacks, panic>>

-----------------------------------------------------------------------------
(* Processes.                                                              *)

NoStack(mem) == stacks.free = 0 /\ mem.pages < StackPages
StackTaken(mem) ==
    IF stacks.free # 0 THEN mem ELSE [mem EXCEPT !.pages = @ - StackPages]

(* _proc_create: a PCB, and a stack for it.                                *)
PcbMemory == IF pcbs.free = 0 THEN SliceTaken(Memory) ELSE Memory
PcbPool   == Stocked(pcbs, PcbsPerSlice)

SpawnPanics == pcbs.free = 0 /\ NoSlice(Memory)

(* Without a stack the PCB is freed again, and only the slice stays taken. *)
SpawnLeaks ==                            \* mutant: the PCB is not freed
    /\ ~panic /\ ~SpawnPanics /\ NoStack(PcbMemory)
    /\ pages' = PcbMemory.pages /\ slices' = PcbMemory.slices
    /\ pcbs' = Taken(PcbPool)
    /\ UNCHANGED <<nodes, prev, entry, que, stack, live, stacks, panic>>

SpawnFails ==
    /\ ~panic /\ ~SpawnPanics /\ NoStack(PcbMemory)
    /\ pages' = PcbMemory.pages /\ slices' = PcbMemory.slices
    /\ pcbs' = Freed(Taken(PcbPool), PcbPool.free)
    /\ UNCHANGED <<nodes, prev, entry, que, stack, live, stacks, panic>>

(* _sys_spawn puts the new process on a queue at once (_schedule).         *)
Spawn(q, key) ==
    /\ ~panic /\ ~SpawnPanics /\ ~NoStack(PcbMemory)
    /\ LET mem  == StackTaken(PcbMemory)
           p    == PcbPool.free
           pool == Stocked(stacks, 1)
       IN  IF nodes.free = 0 /\ NoSlice(mem) THEN Panic
           ELSE /\ NodeFor(mem, q, p, key)
                /\ pcbs' = Taken(PcbPool)
                /\ stacks' = Taken(pool)
                /\ stack' = [stack EXCEPT ![p] = pool.free]
                /\ live' = live \cup {p}
                /\ UNCHANGED panic

(* _pcb_cleanup                                                            *)
Cleanup(p) ==
    /\ ~panic
    /\ p \in live \ Queued
    /\ live' = live \ {p}
    /\ stacks' = Freed(stacks, stack[p])
    /\ pcbs' = Freed(pcbs, p)
    /\ stack' = [stack EXCEPT ![p] = 0]
    /\ UNCHANGED <<pages, slices, nodes, prev, entry, que, panic>>

Next ==
    \/ \E q \in Queues, key \in Keys : Spawn(q, key)
    \/ \E q \in Queues, key \in Keys, p \in live : Enque(q, p, key)
    \/ \E q \in Queues : Deque(q)
    \/ \E p \in live : Cleanup(p)
    \/ SpawnFails
    \/ ~panic /\ SpawnPanics /\ Panic

Spec == Init /\ [][Next]_vars

-----------------------------------------------------------------------------
(* Properties.                                                             *)

(* From its tail by prev a queue is the same as from its head by next, and *)
(* its length is the number of its nodes.                                  *)
BothWays ==
    \A q \in Queues :
        LET chain == OnQueue(q)  n == que[q].length
        IN  IF n = 0 THEN que[q].head = 0 /\ que[q].tail = 0
            ELSE /\ que[q].tail = chain[n] /\ nodes.link[chain[n]] = 0
                 /\ \A k \in 1 .. n : prev[chain[k]] = IF k = 1 THEN 0 ELSE chain[k - 1]

(* The structures on a free list: it ends, and has none twice.             *)
FreeOnes(pool) ==
    LET chain == Chain(pool, pool.free, pool.made + 1)
    IN  {chain[k] : k \in 1 .. pool.made + 1} \ {0}

FreeListEnds(pool) == Chain(pool, pool.free, pool.made + 1)[pool.made + 1] = 0

(* Nothing is lost and nothing has two owners: each structure is either on *)
(* its free list or in use, a node on one queue, a PCB for one process and *)
(* a stack for one process or the system, whatever failed on the way.      *)
Conserved ==
    LET nodesOf(q) == ToSet(OnQueue(q))
        owned == {stack[p] : p \in live}
    IN  /\ \A pool \in {nodes, pcbs, stacks} : FreeListEnds(pool)
        /\ FreeOnes(nodes) \cup UNION {nodesOf(q) : q \in Queues} = 1 .. nodes.made
        /\ \A q \in Queues :
              /\ IsInjective(OnQueue(q)) /\ nodesOf(q) \cap FreeOnes(nodes) = {}
              /\ \A r \in Queues \ {q} : nodesOf(q) \cap nodesOf(r) = {}
        /\ FreeOnes(pcbs) \cap live = {} /\ FreeOnes(pcbs) \cup live = 1 .. pcbs.made
        /\ \A p, r \in live : stack[p] = stack[r] => p = r
        /\ FreeOnes(stacks) \cap ({1} \cup owned) = {} /\ 1 \notin owned
        /\ FreeOnes(stacks) \cup {1} \cup owned = 1 .. stacks.made

(* Nothing is lost or owned twice, and links stay among the structures that*)
(* were made and pages among those there are.                              *)
PoolsConsistent == TypeOK /\ Conserved

(* The linked lists are queues as the rest of the kernel knows them        *)
(* (module Kernel has them as sequences): by arrival, or by key and then   *)
(* by arrival.                                                             *)
Lists == INSTANCE KeyedQueues WITH
    queue <- [q \in Queues |-> [k \in 1 .. que[q].length |-> entry[OnQueue(q)[k]]]]

ImplementsQueues == Lists!Spec
==============================================================================
