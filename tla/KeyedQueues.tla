----------------------------- MODULE KeyedQueues -----------------------------
(***************************************************************************)
(* What queues.h and process.h promise: queues of processes, each in the   *)
(* order of arrival or by a key, a process on one queue at most.           *)
(***************************************************************************)
EXTENDS Naturals, Sequences, SequencesExt

CONSTANTS Queues, Ordered, Keys, Pcbs

VARIABLES
    queue,       \* what is on each queue, with its key
    live         \* the processes there are

vars == <<queue, live>>

Queued == {e.data : e \in UNION {ToSet(queue[q]) : q \in Queues}}

Init ==
    /\ queue = [q \in Queues |-> <<>>]
    /\ live = {}

(* Behind all that came before, of those with the same key at most.        *)
Put(q, e, i) ==
    /\ i \in 1 .. Len(queue[q]) + 1
    /\ \A j \in 1 .. i - 1 : q \in Ordered => queue[q][j].key <= e.key
    /\ \A j \in i .. Len(queue[q]) : q \in Ordered /\ queue[q][j].key > e.key
    /\ queue' = [queue EXCEPT ![q] = InsertAt(@, i, e)]

Enter(q, p, key) ==
    \E i \in 1 .. Len(queue[q]) + 1 : Put(q, [data |-> p, key |-> key], i)

Create(q, p, key) ==
    /\ p \notin live
    /\ live' = live \cup {p}
    /\ Enter(q, p, key)

Enque(q, p, key) ==
    /\ p \in live \ Queued
    /\ Enter(q, p, key)
    /\ UNCHANGED live

Deque(q) ==
    /\ queue[q] # <<>>
    /\ queue' = [queue EXCEPT ![q] = Tail(@)]
    /\ UNCHANGED live

Delete(p) ==
    /\ p \in live \ Queued
    /\ live' = live \ {p}
    /\ UNCHANGED queue

Next ==
    \/ \E q \in Queues, p \in Pcbs, key \in Keys : Create(q, p, key) \/ Enque(q, p, key)
    \/ \E q \in Queues : Deque(q)
    \/ \E p \in Pcbs : Delete(p)

Spec == Init /\ [][Next]_vars
==============================================================================
