---------------------------- MODULE KernelProofs ----------------------------
(***************************************************************************)
(* Proofs about the process core, for every number of processes,           *)
(* priorities, ticks and statuses: no step corrupts the process table or   *)
(* the queues, no waiting parent misses a zombie, and no assertion or      *)
(* panic of the kernel can fire while nobody kills init or idle.           *)
(***************************************************************************)
EXTENDS Kernel, QueueLemmas, FiniteSetTheorems

(* QueuesMatchStates, but for the processes of X, which a handler has in   *)
(* its hands: they are on no queue, whatever their state.                  *)
QueueTypes(st, pr, rdy, slp, rdg) ==
    /\ st \in [Pids -> States]
    /\ pr \in [Pids -> Prios]
    /\ rdy \in [Prios -> Seq(Pids)]
    /\ slp \in Seq(Pids)
    /\ rdg \in Seq(Pids)

Queued(X, st, pr, rdy, slp, rdg) ==
    /\ \A q \in Prios : IsInjective(rdy[q])
    /\ IsInjective(slp)
    /\ IsInjective(rdg)
    /\ \A q \in Prios, p \in Pids : p \in ToSet(rdy[q]) =>
          /\ p \notin X
          /\ st[p] \in {"Ready", "Killed"}
          /\ pr[p] = q
          /\ p \notin ToSet(slp)
          /\ p \notin ToSet(rdg)
    /\ \A p \in Pids : p \in ToSet(slp) =>
          p \notin X /\ st[p] \in {"Sleeping", "Killed"} /\ p \notin ToSet(rdg)
    /\ \A p \in Pids : p \in ToSet(rdg) =>
          p \notin X /\ st[p] \in {"Blocked", "Killed"}
    /\ \A p \in Pids : p \notin X =>
          /\ st[p] = "Ready" => p \in ToSet(rdy[pr[p]])
          /\ st[p] = "Sleeping" => p \in ToSet(slp)
          /\ st[p] = "Blocked" => p \in ToSet(rdg)
          /\ st[p] = "Killed" =>
                p \in ToSet(rdy[pr[p]]) \/ p \in ToSet(slp) \/ p \in ToSet(rdg)

OffQueue == {"Unused", "Running", "Waiting", "Zombie"}

-----------------------------------------------------------------------------
(* Moving one process: off its queue, to another state, onto a queue.      *)

LEMMA MembersType ==
    ASSUME NEW S, NEW s \in Seq(S)
    PROVE  \A x \in ToSet(s) : x \in S
  BY LenProperties DEF ToSet

(* A process in a state that names no queue may be taken in hand.          *)
LEMMA TakeOff ==
    ASSUME NEW X, NEW st, NEW pr, NEW rdy, NEW slp, NEW rdg,
           QueueTypes(st, pr, rdy, slp, rdg),
           Queued(X, st, pr, rdy, slp, rdg),
           NEW v \in Pids, st[v] \in OffQueue
    PROVE  Queued(X \cup {v}, st, pr, rdy, slp, rdg)
  BY DEF Queued, OffQueue

(* _que_deque(_ready[q])                                                   *)
LEMMA TakeReady ==
    ASSUME NEW X, NEW st, NEW pr, NEW rdy, NEW slp, NEW rdg,
           QueueTypes(st, pr, rdy, slp, rdg),
           Queued(X, st, pr, rdy, slp, rdg),
           NEW q \in Prios, rdy[q] # <<>>
    PROVE  LET v == Head(rdy[q])
               r == [rdy EXCEPT ![q] = Tail(@)]
           IN  /\ v \in Pids
               /\ v \in ToSet(rdy[q])
               /\ QueueTypes(st, pr, r, slp, rdg)
               /\ Queued(X \cup {v}, st, pr, r, slp, rdg)
  <1> DEFINE v == Head(rdy[q])
             r == [rdy EXCEPT ![q] = Tail(@)]
  <1>1. /\ v \in Pids /\ v \in ToSet(rdy[q])
        /\ Tail(rdy[q]) \in Seq(Pids)
        /\ ToSet(Tail(rdy[q])) = ToSet(rdy[q]) \ {v}
        /\ IsInjective(Tail(rdy[q]))
    BY TailMembers DEF QueueTypes, Queued
  <1>2. /\ r \in [Prios -> Seq(Pids)]
        /\ r[q] = Tail(rdy[q])
        /\ \A o \in Prios : o # q => r[o] = rdy[o]
    BY <1>1 DEF QueueTypes
  <1> HIDE DEF v, r
  <1>3. QueueTypes(st, pr, r, slp, rdg)
    BY <1>2 DEF QueueTypes
  <1>4. \A o \in Prios :
           /\ IsInjective(r[o])
           /\ \A p : p \in ToSet(r[o]) <=> p \in ToSet(rdy[o]) /\ (o = q => p # v)
    BY Zenon, <1>1, <1>2 DEF Queued
  <1>5. v \notin ToSet(slp) /\ v \notin ToSet(rdg) /\ pr[v] = q
    BY <1>1 DEF Queued
  <1>6. \A p \in Pids : pr[p] \in Prios
    BY DEF QueueTypes
  <1>7. \A o \in Prios, p \in Pids : p \in ToSet(r[o]) =>
           /\ p \notin X \cup {v}
           /\ st[p] \in {"Ready", "Killed"}
           /\ pr[p] = o
           /\ p \notin ToSet(slp)
           /\ p \notin ToSet(rdg)
    BY <1>4, <1>5 DEF Queued
  <1>8. \A p \in Pids : p \notin X \cup {v} =>
           /\ st[p] = "Ready" => p \in ToSet(r[pr[p]])
           /\ st[p] = "Sleeping" => p \in ToSet(slp)
           /\ st[p] = "Blocked" => p \in ToSet(rdg)
           /\ st[p] = "Killed" =>
                 p \in ToSet(r[pr[p]]) \/ p \in ToSet(slp) \/ p \in ToSet(rdg)
    BY <1>4, <1>6 DEF Queued
  <1>9. Queued(X \cup {v}, st, pr, r, slp, rdg)
    BY <1>4, <1>5, <1>7, <1>8 DEF Queued
  <1> QED  BY <1>1, <1>3, <1>9 DEF v, r

(* _que_deque(_sleeping)                                                   *)
LEMMA TakeSleeping ==
    ASSUME NEW X, NEW st, NEW pr, NEW rdy, NEW slp, NEW rdg,
           QueueTypes(st, pr, rdy, slp, rdg),
           Queued(X, st, pr, rdy, slp, rdg),
           slp # <<>>
    PROVE  LET v == Head(slp)
           IN  /\ v \in Pids
               /\ v \in ToSet(slp)
               /\ QueueTypes(st, pr, rdy, Tail(slp), rdg)
               /\ Queued(X \cup {v}, st, pr, rdy, Tail(slp), rdg)
  <1> DEFINE v == Head(slp)
             t == Tail(slp)
  <1>1. /\ v \in Pids /\ v \in ToSet(slp)
        /\ t \in Seq(Pids)
        /\ ToSet(t) = ToSet(slp) \ {v}
        /\ IsInjective(t)
    BY TailMembers DEF QueueTypes, Queued
  <1> HIDE DEF v, t
  <1>2. QueueTypes(st, pr, rdy, t, rdg)
    BY <1>1 DEF QueueTypes
  <1>3. Queued(X \cup {v}, st, pr, rdy, t, rdg)
    BY <1>1 DEF Queued, QueueTypes
  <1> QED  BY <1>1, <1>2, <1>3 DEF v, t

(* _que_deque(_reading)                                                    *)
LEMMA TakeReading ==
    ASSUME NEW X, NEW st, NEW pr, NEW rdy, NEW slp, NEW rdg,
           QueueTypes(st, pr, rdy, slp, rdg),
           Queued(X, st, pr, rdy, slp, rdg),
           rdg # <<>>
    PROVE  LET v == Head(rdg)
           IN  /\ v \in Pids
               /\ v \in ToSet(rdg)
               /\ QueueTypes(st, pr, rdy, slp, Tail(rdg))
               /\ Queued(X \cup {v}, st, pr, rdy, slp, Tail(rdg))
  <1> DEFINE v == Head(rdg)
             t == Tail(rdg)
  <1>1. /\ v \in Pids /\ v \in ToSet(rdg)
        /\ t \in Seq(Pids)
        /\ ToSet(t) = ToSet(rdg) \ {v}
        /\ IsInjective(t)
    BY TailMembers DEF QueueTypes, Queued
  <1> HIDE DEF v, t
  <1>2. QueueTypes(st, pr, rdy, slp, t)
    BY <1>1 DEF QueueTypes
  <1>3. Queued(X \cup {v}, st, pr, rdy, slp, t)
    BY <1>1 DEF Queued, QueueTypes
  <1> QED  BY <1>1, <1>2, <1>3 DEF v, t

(* A process in hand may change state and priority.                        *)
LEMMA ChangeInHand ==
    ASSUME NEW X, NEW st, NEW pr, NEW rdy, NEW slp, NEW rdg,
           QueueTypes(st, pr, rdy, slp, rdg),
           Queued(X, st, pr, rdy, slp, rdg),
           NEW st2 \in [Pids -> States], NEW pr2 \in [Pids -> Prios],
           \A p \in Pids : p \notin X => st2[p] = st[p] /\ pr2[p] = pr[p]
    PROVE  /\ QueueTypes(st2, pr2, rdy, slp, rdg)
           /\ Queued(X, st2, pr2, rdy, slp, rdg)
  <1>1. QueueTypes(st2, pr2, rdy, slp, rdg)
    BY DEF QueueTypes
  <1>2. Queued(X, st2, pr2, rdy, slp, rdg)
    BY DEF Queued, QueueTypes
  <1> QED  BY <1>1, <1>2

(* Processes whose states name no queue may be let go.                     *)
LEMMA LetGo ==
    ASSUME NEW X, NEW st, NEW pr, NEW rdy, NEW slp, NEW rdg,
           QueueTypes(st, pr, rdy, slp, rdg),
           Queued(X, st, pr, rdy, slp, rdg),
           \A p \in Pids : p \in X => st[p] \in OffQueue
    PROVE  Queued({}, st, pr, rdy, slp, rdg)
  BY DEF Queued, OffQueue

(* _que_enque(_ready[..]) of a Ready process in hand.                      *)
LEMMA PutReady ==
    ASSUME NEW X, NEW st, NEW pr, NEW rdy, NEW slp, NEW rdg,
           QueueTypes(st, pr, rdy, slp, rdg),
           Queued(X, st, pr, rdy, slp, rdg),
           NEW v \in X, v \in Pids, st[v] = "Ready"
    PROVE  LET r == [rdy EXCEPT ![pr[v]] = Append(@, v)]
           IN  /\ QueueTypes(st, pr, r, slp, rdg)
               /\ Queued(X \ {v}, st, pr, r, slp, rdg)
  <1> DEFINE q == pr[v]
             r == [rdy EXCEPT ![q] = Append(@, v)]
  <1>1. q \in Prios /\ rdy[q] \in Seq(Pids)
    BY DEF QueueTypes
  <1>2. v \notin ToSet(rdy[q]) /\ IsInjective(rdy[q])
    BY <1>1 DEF Queued
  <1>3. /\ Append(rdy[q], v) \in Seq(Pids)
        /\ ToSet(Append(rdy[q], v)) = ToSet(rdy[q]) \cup {v}
        /\ IsInjective(Append(rdy[q], v))
    BY <1>1, <1>2, AppendMembers
  <1>4. /\ r \in [Prios -> Seq(Pids)]
        /\ r[q] = Append(rdy[q], v)
        /\ \A o \in Prios : o # q => r[o] = rdy[o]
    BY <1>1, <1>3 DEF QueueTypes
  <1> HIDE DEF r
  <1>5. QueueTypes(st, pr, r, slp, rdg)
    BY <1>4 DEF QueueTypes
  <1>6. \A o \in Prios :
           /\ IsInjective(r[o])
           /\ \A p : p \in ToSet(r[o]) <=> p \in ToSet(rdy[o]) \/ (o = q /\ p = v)
    <2>1. \A o \in Prios : IsInjective(rdy[o])
      BY DEF Queued
    <2> QED  BY <1>3, <1>4, <2>1
  <1>7. \A p \in Pids : pr[p] \in Prios
    BY DEF QueueTypes
  <1>8. v \notin ToSet(slp) /\ v \notin ToSet(rdg)
    BY DEF Queued
  <1>9. \A o \in Prios, p \in Pids : p \in ToSet(r[o]) =>
          /\ p \notin X \ {v}
          /\ st[p] \in {"Ready", "Killed"}
          /\ pr[p] = o
          /\ p \notin ToSet(slp)
          /\ p \notin ToSet(rdg)
    BY <1>6, <1>8 DEF Queued
  <1>10. \A p \in Pids : p \notin X \ {v} =>
          /\ st[p] = "Ready" => p \in ToSet(r[pr[p]])
          /\ st[p] = "Sleeping" => p \in ToSet(slp)
          /\ st[p] = "Blocked" => p \in ToSet(rdg)
          /\ st[p] = "Killed" =>
                p \in ToSet(r[pr[p]]) \/ p \in ToSet(slp) \/ p \in ToSet(rdg)
    BY <1>6, <1>7 DEF Queued
  <1>11. Queued(X \ {v}, st, pr, r, slp, rdg)
    BY <1>6, <1>9, <1>10 DEF Queued
  <1> QED  BY <1>5, <1>11 DEF r

(* _que_enque(_sleeping) of a Sleeping process in hand.                    *)
LEMMA PutSleeping ==
    ASSUME NEW X, NEW st, NEW pr, NEW rdy, NEW slp, NEW rdg,
           QueueTypes(st, pr, rdy, slp, rdg),
           Queued(X, st, pr, rdy, slp, rdg),
           NEW v \in X, v \in Pids, st[v] = "Sleeping",
           NEW k \in 1 .. Len(slp) + 1
    PROVE  /\ QueueTypes(st, pr, rdy, InsertAt(slp, k, v), rdg)
           /\ Queued(X \ {v}, st, pr, rdy, InsertAt(slp, k, v), rdg)
  <1> DEFINE t == InsertAt(slp, k, v)
  <1>1. v \notin ToSet(slp) /\ IsInjective(slp) /\ slp \in Seq(Pids)
    BY DEF Queued, QueueTypes
  <1>2. /\ t \in Seq(Pids)
        /\ ToSet(t) = ToSet(slp) \cup {v}
        /\ IsInjective(t)
    BY <1>1, InsertMembers
  <1> HIDE DEF t
  <1>3. QueueTypes(st, pr, rdy, t, rdg)
    BY <1>2 DEF QueueTypes
  <1>4. Queued(X \ {v}, st, pr, rdy, t, rdg)
    BY <1>2 DEF Queued, QueueTypes
  <1> QED  BY <1>3, <1>4 DEF t

(* _que_enque(_reading) of a Blocked process in hand.                      *)
LEMMA PutReading ==
    ASSUME NEW X, NEW st, NEW pr, NEW rdy, NEW slp, NEW rdg,
           QueueTypes(st, pr, rdy, slp, rdg),
           Queued(X, st, pr, rdy, slp, rdg),
           NEW v \in X, v \in Pids, st[v] = "Blocked"
    PROVE  /\ QueueTypes(st, pr, rdy, slp, Append(rdg, v))
           /\ Queued(X \ {v}, st, pr, rdy, slp, Append(rdg, v))
  <1> DEFINE t == Append(rdg, v)
  <1>1. v \notin ToSet(rdg) /\ IsInjective(rdg) /\ rdg \in Seq(Pids)
    BY DEF Queued, QueueTypes
  <1>2. /\ t \in Seq(Pids)
        /\ ToSet(t) = ToSet(rdg) \cup {v}
        /\ IsInjective(t)
    BY <1>1, AppendMembers
  <1> HIDE DEF t
  <1>3. QueueTypes(st, pr, rdy, slp, t)
    BY <1>2 DEF QueueTypes
  <1>4. Queued(X \ {v}, st, pr, rdy, slp, t)
    BY <1>2 DEF Queued, QueueTypes
  <1> QED  BY <1>3, <1>4 DEF t

(* kill() marks a process where it is.                                     *)
LEMMA MarkKilled ==
    ASSUME NEW st, NEW pr, NEW rdy, NEW slp, NEW rdg,
           QueueTypes(st, pr, rdy, slp, rdg),
           Queued({}, st, pr, rdy, slp, rdg),
           NEW v \in Pids, st[v] \in {"Ready", "Sleeping", "Blocked"}
    PROVE  Queued({}, [st EXCEPT ![v] = "Killed"], pr, rdy, slp, rdg)
  BY DEF Queued, QueueTypes

-----------------------------------------------------------------------------
(* The family tree: FamilyTree and NoLostWakeup of given states and        *)
(* parents.                                                                *)

Family(st, pp) ==
    /\ \A p \in Pids : st[p] # "Unused" =>
          /\ pp[p] \in Pids
          /\ st[pp[p]] \notin {"Unused", "Zombie"}
          /\ p # InitPid => pp[p] < p
    /\ \A p \in Pids : p # InitPid /\ st[p] = "Waiting" =>
          /\ \E c \in Pids : st[c] # "Unused" /\ pp[c] = p
          /\ \A c \in Pids : st[c] = "Zombie" => pp[c] # p

LEMMA FamilyIs ==
    ASSUME TypeOK
    PROVE  FamilyTree /\ NoLostWakeup <=> Family(state, ppid)
  <1>1. FamilyTree <=>
          \A p \in Pids : state[p] # "Unused" =>
             /\ ppid[p] \in Pids
             /\ state[ppid[p]] \notin {"Unused", "Zombie"}
             /\ p # InitPid => ppid[p] < p
    BY DEF FamilyTree, InTable
  <1>2. NoLostWakeup <=>
          \A p \in Pids : p # InitPid /\ state[p] = "Waiting" =>
             /\ \E c \in Pids : state[c] # "Unused" /\ ppid[c] = p
             /\ \A c \in Pids : state[c] = "Zombie" => ppid[c] # p
    BY DEF NoLostWakeup, Zombies, Children, InTable
  <1> QED  BY <1>1, <1>2 DEF Family

(* A live process changes to another live state, but not to Waiting.       *)
LEMMA FamilyLiveStep ==
    ASSUME NEW st \in [Pids -> States], NEW pp, Family(st, pp),
           NEW v \in Pids, st[v] \notin {"Unused", "Zombie"},
           NEW x \in States \ {"Unused", "Zombie", "Waiting"}
    PROVE  Family([st EXCEPT ![v] = x], pp)
  BY DEF Family

(* A new process, younger than all, is born to a running one.              *)
LEMMA FamilyBirth ==
    ASSUME NEW st \in [Pids -> States], NEW pp \in [Pids -> Pids \cup {NoPid}],
           Family(st, pp),
           NEW v \in Pids, st[v] = "Running",
           NEW c \in Pids, st[c] = "Unused", v < c
    PROVE  Family([st EXCEPT ![c] = "Ready"], [pp EXCEPT ![c] = v])
  BY DEF Family, States

(* A running process collects a zombie of its own.                         *)
LEMMA FamilyCollects ==
    ASSUME NEW st \in [Pids -> States], NEW pp \in [Pids -> Pids \cup {NoPid}],
           Family(st, pp),
           NEW v \in Pids, st[v] = "Running",
           NEW z \in Pids, st[z] = "Zombie", pp[z] = v
    PROVE  Family([st EXCEPT ![z] = "Unused"], [pp EXCEPT ![z] = NoPid])
  BY DEF Family, States

(* pp2 are the parents once init has inherited the children of v.          *)
Inherited(st, pp, v, pp2) ==
    \A c \in Pids : c # v =>
       pp2[c] = IF st[c] # "Unused" /\ pp[c] = v THEN InitPid ELSE pp[c]

(* _force_exit, when the parent is not waiting.                            *)
LEMMA FamilyZombie ==
    ASSUME NEW st \in [Pids -> States], NEW pp \in [Pids -> Pids \cup {NoPid}],
           NEW pp2 \in [Pids -> Pids \cup {NoPid}],
           Family(st, pp),
           NEW v \in Pids, v # InitPid, st[v] \notin {"Unused", "Zombie"},
           InitPid \in Pids, st[InitPid] \notin {"Unused", "Zombie"},
           pp[InitPid] = InitPid,
           Inherited(st, pp, v, pp2), pp2[v] = pp[v],
           st[pp[v]] # "Waiting"
    PROVE  Family([st EXCEPT ![v] = "Zombie"], pp2)
  <1> DEFINE st2 == [st EXCEPT ![v] = "Zombie"]
  <1>0. \A c \in Pids : pp2[c] =
           IF st[c] # "Unused" /\ pp[c] = v THEN InitPid ELSE pp[c]
    <2>1. pp[v] # v
      BY DEF Family, Pids
    <2> QED  BY <2>1 DEF Inherited
  <1>1. /\ \A p \in Pids : p # v => st2[p] = st[p]
        /\ st2[v] = "Zombie"
    OBVIOUS
  <1> HIDE DEF st2
  <1>2. ASSUME NEW p \in Pids, st2[p] # "Unused"
        PROVE  /\ pp2[p] \in Pids
               /\ st2[pp2[p]] \notin {"Unused", "Zombie"}
               /\ p # InitPid => pp2[p] < p
    <2>1. st[p] # "Unused"
      BY <1>1, <1>2
    <2>2. /\ pp[p] \in Pids
          /\ st[pp[p]] \notin {"Unused", "Zombie"}
          /\ p # InitPid => pp[p] < p
      BY <2>1 DEF Family
    <2>3. CASE pp[p] = v
      BY <1>0, <1>1, <2>1, <2>2, <2>3 DEF InitPid, Pids
    <2>4. CASE pp[p] # v
      BY <1>0, <1>1, <2>1, <2>2, <2>4
    <2> QED  BY <2>3, <2>4
  <1>3. ASSUME NEW p \in Pids, p # InitPid, st2[p] = "Waiting"
        PROVE  /\ \E c \in Pids : st2[c] # "Unused" /\ pp2[c] = p
               /\ \A c \in Pids : st2[c] = "Zombie" => pp2[c] # p
    <2>1. p # v /\ st[p] = "Waiting" /\ pp[v] # p
      BY <1>1, <1>3
    <2>2. \A c \in Pids : pp2[c] = p <=> pp[c] = p
      BY <1>0, <1>3, <2>1
    <2> QED  BY <1>1, <1>3, <2>1, <2>2 DEF Family
  <1> QED  BY <1>2, <1>3 DEF Family, st2

(* _force_exit, when the parent is waiting and takes the victim.           *)
LEMMA FamilyHandsOver ==
    ASSUME NEW st \in [Pids -> States], NEW pp \in [Pids -> Pids \cup {NoPid}],
           NEW pp2 \in [Pids -> Pids \cup {NoPid}],
           Family(st, pp),
           NEW v \in Pids, v # InitPid, st[v] \notin {"Unused", "Zombie"},
           InitPid \in Pids, st[InitPid] \notin {"Unused", "Zombie"},
           pp[InitPid] = InitPid,
           Inherited(st, pp, v, pp2)
    PROVE  Family([st EXCEPT ![pp[v]] = "Ready", ![v] = "Unused"], pp2)
  <1> DEFINE st2 == [st EXCEPT ![pp[v]] = "Ready", ![v] = "Unused"]
  <1>0. pp[v] \in Pids /\ pp[v] # v /\ st[pp[v]] \notin {"Unused", "Zombie"}
    BY DEF Family, Pids
  <1>1. /\ \A p \in Pids : p # v /\ p # pp[v] => st2[p] = st[p]
        /\ st2[v] = "Unused"
        /\ st2[pp[v]] = "Ready"
    BY <1>0
  <1> HIDE DEF st2
  <1>2. ASSUME NEW p \in Pids, st2[p] # "Unused"
        PROVE  /\ pp2[p] \in Pids
               /\ st2[pp2[p]] \notin {"Unused", "Zombie"}
               /\ p # InitPid => pp2[p] < p
    <2>1. st[p] # "Unused" /\ p # v
      BY <1>0, <1>1, <1>2
    <2>2. /\ pp[p] \in Pids
          /\ st[pp[p]] \notin {"Unused", "Zombie"}
          /\ p # InitPid => pp[p] < p
      BY <2>1 DEF Family
    <2>3. CASE pp[p] = v
      <3>1. pp2[p] = InitPid
        BY <2>1, <2>3 DEF Inherited
      <3>2. st2[InitPid] \notin {"Unused", "Zombie"}
        BY <1>0, <1>1
      <3> QED  BY <3>1, <3>2 DEF InitPid, Pids
    <2>4. CASE pp[p] # v
      <3>1. pp2[p] = pp[p]
        BY <2>1, <2>4 DEF Inherited
      <3>2. st2[pp[p]] \notin {"Unused", "Zombie"}
        BY <1>0, <1>1, <2>2, <2>4
      <3> QED  BY <2>2, <3>1, <3>2
    <2> QED  BY <2>3, <2>4
  <1>3. ASSUME NEW p \in Pids, p # InitPid, st2[p] = "Waiting"
        PROVE  /\ \E c \in Pids : st2[c] # "Unused" /\ pp2[c] = p
               /\ \A c \in Pids : st2[c] = "Zombie" => pp2[c] # p
    <2>1. p # v /\ p # pp[v] /\ st[p] = "Waiting"
      BY <1>0, <1>1, <1>3
    <2>2. \A c \in Pids : c # v => (pp2[c] = p <=> pp[c] = p)
      BY <1>3, <2>1 DEF Inherited
    <2>3. PICK c \in Pids : st[c] # "Unused" /\ pp[c] = p
      BY <1>3, <2>1 DEF Family
    <2>4. c # v /\ st2[c] # "Unused"
      BY <1>0, <1>1, <2>1, <2>3
    <2>5. \A d \in Pids : st2[d] = "Zombie" => st[d] = "Zombie" /\ d # v
      BY <1>0, <1>1
    <2> QED  BY <1>3, <2>1, <2>2, <2>3, <2>4, <2>5 DEF Family
  <1> QED  BY <1>2, <1>3 DEF Family, st2

-----------------------------------------------------------------------------
(* Counting the process table.                                             *)

Table(st) == {p \in Pids : st[p] # "Unused"}

LEMMA TableFinite ==
    ASSUME NEW st
    PROVE  IsFiniteSet(Table(st)) /\ Cardinality(Table(st)) \in Nat
  <1>1. IsFiniteSet(Pids)
    BY SizeAssumption, FS_Interval DEF Pids
  <1>2. Table(st) \in SUBSET Pids
    BY DEF Table
  <1> QED  BY <1>1, <1>2, FS_Subset, FS_CardinalityType

LEMMA TableGrows ==
    ASSUME NEW st \in [Pids -> States], NEW c \in Pids, st[c] = "Unused",
           NEW x \in States, x # "Unused"
    PROVE  Cardinality(Table([st EXCEPT ![c] = x])) = Cardinality(Table(st)) + 1
  <1>1. Table([st EXCEPT ![c] = x]) = Table(st) \cup {c} /\ c \notin Table(st)
    BY DEF Table
  <1> QED  BY <1>1, TableFinite, FS_AddElement

LEMMA TableShrinks ==
    ASSUME NEW st \in [Pids -> States], NEW st2, NEW c \in Pids,
           st[c] # "Unused", st2[c] = "Unused",
           \A p \in Pids : p # c => (st2[p] = "Unused" <=> st[p] = "Unused")
    PROVE  /\ Cardinality(Table(st2)) = Cardinality(Table(st)) - 1
           /\ Cardinality(Table(st)) >= 1
  <1>1. Table(st2) = Table(st) \ {c} /\ c \in Table(st)
    BY DEF Table
  <1>2. Cardinality(Table(st2)) = Cardinality(Table(st)) - 1
    BY <1>1, TableFinite, FS_RemoveElement
  <1>3. Cardinality(Table(st2)) \in Nat /\ Cardinality(Table(st)) \in Nat
    BY TableFinite
  <1> QED  BY <1>2, <1>3

LEMMA TableStays ==
    ASSUME NEW st, NEW st2,
           \A p \in Pids : st2[p] = "Unused" <=> st[p] = "Unused"
    PROVE  Cardinality(Table(st2)) = Cardinality(Table(st))
  <1>1. Table(st2) = Table(st)
    BY DEF Table
  <1> QED  BY <1>1

-----------------------------------------------------------------------------
(* The inductive invariant: the types, the queues, the family tree and     *)
(* what dispatch needs, together, since each needs the others.  Without    *)
(* the queues a Killed process could be taken for one that runs; without   *)
(* the family tree _force_exit could miss a parent; without SomebodyToRun  *)
(* _dispatch could find every queue empty.                                 *)

RunningIsCurrent(st, cur) == \A p \in Pids : st[p] = "Running" <=> p = cur

IInv ==
    /\ TypeOK
    /\ Queued({}, state, prio, ready, sleeping, reading)
    /\ RunningIsCurrent(state, current)
    /\ Family(state, ppid)
    /\ SomebodyToRun
    /\ active_procs = Cardinality(Table(state))
    /\ ~halted

(* What a step may do to a process that is killed or dead, and who is told *)
(* when one leaves the table.                                              *)
Legal ==
    \A p \in Pids :
       /\ state[p] = "Killed" => state'[p] \in {"Killed", "Zombie", "Unused"}
       /\ state[p] = "Zombie" => state'[p] \in {"Zombie", "Unused"}
       /\ state[p] # "Unused" /\ state'[p] = "Unused" =>
             \/ state[ppid[p]] = "Waiting" /\ state'[ppid[p]] = "Ready"
             \/ state[p] = "Zombie" /\ current = ppid[p] /\ kmode = "user"

(* What _schedule and _force_exit keep, for queues as their caller leaves  *)
(* them, and what they leave alone.  v is the process the caller took.     *)
Kept(v, slp, rdg) ==
    /\ ppid' \in [Pids -> Pids \cup {NoPid}]
    /\ exit_status' \in [Pids -> Statuses \cup {NoStatus}]
    /\ QueueTypes(state', prio', ready', slp, rdg)
    /\ Queued({}, state', prio', ready', slp, rdg)
    /\ Family(state', ppid')
    /\ active_procs' \in 0 .. NProcs
    /\ active_procs' = Cardinality(Table(state'))
    /\ halted' = FALSE
    /\ Legal
    /\ \A p \in Pids : state'[p] = "Running" <=> p # v /\ state[p] = "Running"
    /\ \A p \in Pids : state[p] = "Unused" => state'[p] = "Unused"
    /\ state'[InitPid] \in {"Ready", state[InitPid]}
    /\ ppid'[InitPid] = InitPid
    /\ Idle \in Pids => state'[Idle] \in {"Ready", state[Idle]}

LEMMA InitIdlePids == InitPid \in Pids /\ Idle \in Pids /\ NoPid \notin Pids
  BY SizeAssumption DEF InitPid, Idle, Pids, NoPid

(* init and idle are never killed, dead or asleep, idle never waits.       *)
LEMMA ProtectedStates ==
    ASSUME TypeOK, SomebodyToRun
    PROVE  /\ state[InitPid] \in {"Ready", "Running", "Waiting"}
           /\ state[Idle] \in {"Unused", "Ready", "Running"}
  <1>1. next_pid > Idle \/ Idle >= next_pid
    BY DEF TypeOK, Idle
  <1> QED  BY <1>1, InitIdlePids DEF SomebodyToRun

(* _force_exit of a process other than init and idle keeps everything, and *)
(* fires no assertion.                                                     *)
LEMMA ForceExitKeeps ==
    ASSUME TypeOK, Family(state, ppid), SomebodyToRun, ~halted,
           active_procs = Cardinality(Table(state)),
           NEW v \in Pids, v # InitPid, v # Idle,
           state[v] \notin {"Unused", "Zombie"},
           NEW status, NEW rdy, NEW slp, NEW rdg,
           NEW xst \in [Pids -> Statuses \cup {NoStatus}],
           QueueTypes(state, prio, rdy, slp, rdg),
           Queued({v}, state, prio, rdy, slp, rdg),
           ForceExit(v, status, rdy, xst)
    PROVE  Kept(v, slp, rdg)
  <1> DEFINE heir == Heirs(v)
             parent == ppid[v]
  <1>1. /\ parent \in Pids
        /\ parent # v
        /\ state[parent] \notin {"Unused", "Zombie"}
    BY DEF Family, TypeOK, Pids
  <1>2. /\ heir \in [Pids -> Pids \cup {NoPid}]
        /\ Inherited(state, ppid, v, heir)
        /\ heir[v] = parent
        /\ heir[InitPid] = InitPid
    BY <1>1, InitIdlePids DEF Heirs, Children, InTable, TypeOK, SomebodyToRun,
                              Inherited
  <1>3. /\ state \in [Pids -> States] /\ prio \in [Pids -> Prios]
        /\ ppid \in [Pids -> Pids \cup {NoPid}]
        /\ active_procs \in 0 .. NProcs
        /\ state[InitPid] \in {"Ready", "Running", "Waiting"}
        /\ ppid[InitPid] = InitPid
    BY DEF TypeOK, SomebodyToRun
  <1>4. state[Idle] # "Waiting"
    BY ProtectedStates
  <1> HIDE DEF heir, parent
  <1>5. CASE state[parent] # "Waiting"
    <2>1. /\ state' = [state EXCEPT ![v] = "Zombie"]
          /\ ppid' = heir
          /\ ready' = rdy
          /\ exit_status' = xst
          /\ prio' = prio /\ active_procs' = active_procs /\ halted' = halted
      BY <1>1, <1>2, <1>5 DEF ForceExit, heir
    <2>2. /\ state' \in [Pids -> States] /\ state'[v] = "Zombie"
          /\ \A p \in Pids : p # v => state'[p] = state[p]
      BY <2>1, <1>3 DEF States
    <2>3. QueueTypes(state', prio', ready', slp, rdg)
          /\ Queued({v}, state', prio', ready', slp, rdg)
      <3>1. \A p \in Pids : p \notin {v} => state'[p] = state[p]
        BY <2>2
      <3>2. QueueTypes(state', prio, rdy, slp, rdg)
            /\ Queued({v}, state', prio, rdy, slp, rdg)
        BY <3>1, <2>2, <1>3, ChangeInHand
      <3> QED  BY <2>1, <3>2
    <2>4. Queued({}, state', prio', ready', slp, rdg)
      BY <2>2, <2>3, LetGo DEF OffQueue
    <2>5. Family(state', ppid')
      <3>1. Family([state EXCEPT ![v] = "Zombie"], heir)
        <4>1. state[ppid[v]] # "Waiting" /\ heir[v] = ppid[v]
          BY <1>2, <1>5 DEF parent
        <4>2. state[InitPid] \notin {"Unused", "Zombie"}
          BY <1>3
        <4> QED  BY <1>2, <1>3, <4>1, <4>2, InitIdlePids, FamilyZombie
      <3> QED  BY <2>1, <3>1
    <2>6. Cardinality(Table(state')) = Cardinality(Table(state))
      BY <2>2, TableStays
    <2>7. ppid'[InitPid] = InitPid
      BY <1>2, <2>1
    <2>8. Legal
      BY <2>2 DEF Legal
    <2> QED  BY <1>2, <1>3, <2>1, <2>2, <2>3, <2>4, <2>5, <2>6, <2>7, <2>8,
                InitIdlePids DEF Kept, TypeOK
  <1>6. CASE state[parent] = "Waiting"
    <2>1. /\ state' = [state EXCEPT ![parent] = "Ready", ![v] = "Unused"]
          /\ ppid' = [heir EXCEPT ![v] = NoPid]
          /\ prio' = [prio EXCEPT ![v] = System]
          /\ ready' = [rdy EXCEPT ![prio[parent]] = Append(@, parent)]
          /\ exit_status' = [xst EXCEPT ![v] = NoStatus]
          /\ active_procs' = active_procs - 1
          /\ halted' = (parent = v)
      BY <1>1, <1>2, <1>6 DEF ForceExit, heir
    <2>2. /\ state' \in [Pids -> States]
          /\ state'[v] = "Unused" /\ state'[parent] = "Ready"
          /\ \A p \in Pids : p # v /\ p # parent => state'[p] = state[p]
      BY <2>1, <1>1, <1>3 DEF States
    <2>3. /\ prio' \in [Pids -> Prios]
          /\ \A p \in Pids : p # v => prio'[p] = prio[p]
      BY <2>1, <1>3, SizeAssumption DEF Prios, System
    <2>4. Queued({v} \cup {parent}, state, prio, rdy, slp, rdg)
      BY <1>1, <1>6, TakeOff DEF OffQueue
    <2>5. QueueTypes(state', prio', rdy, slp, rdg)
          /\ Queued({v} \cup {parent}, state', prio', rdy, slp, rdg)
      BY <2>2, <2>3, <2>4, ChangeInHand
    <2>6. ready' = [rdy EXCEPT ![prio'[parent]] = Append(@, parent)]
      BY <2>1, <2>3, <1>1
    <2>7. QueueTypes(state', prio', ready', slp, rdg)
          /\ Queued(({v} \cup {parent}) \ {parent}, state', prio', ready', slp, rdg)
      <3>1. parent \in {v} \cup {parent}
        OBVIOUS
      <3> QED  BY <1>1, <2>2, <2>5, <2>6, <3>1, PutReady
    <2>8. Queued({}, state', prio', ready', slp, rdg)
      BY <2>2, <2>7, LetGo DEF OffQueue
    <2>9. ppid' \in [Pids -> Pids \cup {NoPid}]
          /\ Inherited(state, ppid, v, ppid')
          /\ ppid'[InitPid] = InitPid
      BY <1>2, <2>1, InitIdlePids DEF Inherited
    <2>10. Family(state', ppid')
      <3>1. state[InitPid] \notin {"Unused", "Zombie"}
        BY <1>3
      <3>2. Family([state EXCEPT ![ppid[v]] = "Ready", ![v] = "Unused"], ppid')
        BY <1>3, <2>9, <3>1, InitIdlePids, FamilyHandsOver
      <3> QED  BY <2>1, <3>2 DEF parent
    <2>11. /\ Cardinality(Table(state')) = Cardinality(Table(state)) - 1
           /\ Cardinality(Table(state)) >= 1
      BY <1>1, <1>3, <2>2, TableShrinks
    <2>12. active_procs' \in 0 .. NProcs
      BY <1>3, <2>1, <2>11, SizeAssumption
    <2>13. exit_status' \in [Pids -> Statuses \cup {NoStatus}]
      BY <2>1
    <2>14. /\ state'[InitPid] \in {"Ready", state[InitPid]}
           /\ state'[Idle] = state[Idle]
      BY <1>4, <1>6, <2>2, InitIdlePids
    <2>15. \A p \in Pids : state'[p] = "Running" <=> p # v /\ state[p] = "Running"
      BY <1>1, <1>6, <2>2
    <2>16. \A p \in Pids : state[p] = "Unused" => state'[p] = "Unused"
      BY <1>1, <2>2
    <2>17. halted' = FALSE
      BY <1>1, <2>1
    <2>18. Legal
      BY <1>6, <2>2 DEF Legal, parent
    <2> QED  BY <2>1, <2>7, <2>8, <2>9, <2>10, <2>11, <2>12, <2>13, <2>14,
                <2>15, <2>16, <2>17, <2>18 DEF Kept
  <1> QED  BY <1>5, <1>6

(* Putting a live process on its ready queue keeps everything.             *)
LEMMA MakeReadyKeeps ==
    ASSUME TypeOK, Family(state, ppid), SomebodyToRun, ~halted,
           active_procs = Cardinality(Table(state)),
           NEW v \in Pids, state[v] \notin {"Unused", "Zombie", "Killed"},
           NEW slp, NEW rdg,
           QueueTypes(state, prio, ready, slp, rdg),
           Queued({v}, state, prio, ready, slp, rdg),
           MakeReady(v, ready),
           UNCHANGED <<ppid, prio, exit_status, active_procs, halted>>
    PROVE  Kept(v, slp, rdg)
  <1>1. /\ state \in [Pids -> States] /\ prio \in [Pids -> Prios]
        /\ ppid[InitPid] = InitPid
    BY DEF TypeOK, SomebodyToRun
  <1>2. /\ state' = [state EXCEPT ![v] = "Ready"]
        /\ ready' = [ready EXCEPT ![prio[v]] = Append(@, v)]
    BY DEF MakeReady
  <1>3. /\ state' \in [Pids -> States] /\ state'[v] = "Ready"
        /\ \A p \in Pids : p # v => state'[p] = state[p]
    BY <1>1, <1>2 DEF States
  <1>4. QueueTypes(state', prio, ready, slp, rdg)
        /\ Queued({v}, state', prio, ready, slp, rdg)
    BY <1>1, <1>3, ChangeInHand
  <1>5. QueueTypes(state', prio', ready', slp, rdg)
        /\ Queued({v} \ {v}, state', prio', ready', slp, rdg)
    BY <1>2, <1>3, <1>4, PutReady
  <1>6. {v} \ {v} = {}
    OBVIOUS
  <1>7. Family(state', ppid')
    BY <1>1, <1>2, FamilyLiveStep DEF States
  <1>8. Cardinality(Table(state')) = Cardinality(Table(state))
    BY <1>3, TableStays
  <1>9. Legal
    BY <1>3 DEF Legal
  <1> QED  BY <1>1, <1>3, <1>5, <1>6, <1>7, <1>8, <1>9, InitIdlePids
           DEF Kept, TypeOK

(* _schedule of a process just taken off a queue.                          *)
LEMMA ScheduleKeeps ==
    ASSUME TypeOK, Family(state, ppid), SomebodyToRun, ~halted,
           active_procs = Cardinality(Table(state)),
           NEW v \in Pids, state[v] \in {"Sleeping", "Blocked", "Killed"},
           NEW slp, NEW rdg,
           QueueTypes(state, prio, ready, slp, rdg),
           Queued({v}, state, prio, ready, slp, rdg),
           Schedule(v)
    PROVE  Kept(v, slp, rdg)
  <1>1. CASE state[v] = "Killed"
    <2>1. v # InitPid /\ v # Idle
      BY <1>1, ProtectedStates
    <2> QED  BY <1>1, <2>1, ForceExitKeeps DEF Schedule, TypeOK
  <1>2. CASE state[v] # "Killed"
    BY <1>2, MakeReadyKeeps DEF Schedule
  <1> QED  BY <1>1, <1>2

-----------------------------------------------------------------------------
(* Every step keeps the invariant.                                         *)

(* Nobody passes init or idle to kill(): nothing in the kernel forbids it. *)
InitAndIdleSafe == {InitPid, Idle} \subseteq Protected

LEMMA IInvTypes ==
    ASSUME IInv
    PROVE  /\ QueueTypes(state, prio, ready, sleeping, reading)
           /\ current \in Pids <=> kmode # "dispatch"
           /\ current \in Pids => state[current] = "Running"
           /\ current \notin Pids => \A p \in Pids : state[p] # "Running"
  <1>1. QueueTypes(state, prio, ready, sleeping, reading)
    BY DEF IInv, TypeOK, QueueTypes
  <1>2. current \in Pids <=> kmode # "dispatch"
    BY InitIdlePids DEF IInv, TypeOK, SomebodyToRun
  <1> QED  BY <1>1, <1>2 DEF IInv, RunningIsCurrent

LEMMA SameStates == state' = state => Legal
  BY DEF Legal

(* The handler gave the running process away and called _dispatch.         *)
LEMMA KeptAway ==
    ASSUME IInv, current \in Pids, Kept(current, sleeping', reading'),
           CallDispatch, UNCHANGED <<wakeup, system_time, next_pid, incount>>
    PROVE  IInv' /\ Legal
  <1>1. RunningIsCurrent(state', current')
    BY IInvTypes, InitIdlePids DEF Kept, CallDispatch, RunningIsCurrent, IInv
  <1>2. SomebodyToRun'
    BY InitIdlePids DEF SomebodyToRun, IInv, Kept, CallDispatch
  <1>3. TypeOK'
    <2>1. /\ current' \in Pids \cup {NoPid} /\ ticks' \in 0 .. Quantum
          /\ kmode' = "dispatch"
      BY SizeAssumption DEF CallDispatch
    <2> QED  BY <2>1 DEF TypeOK, IInv, Kept, QueueTypes
  <1> QED  BY <1>1, <1>2, <1>3 DEF IInv, Kept

(* The handler moved another process, and the running one goes on.         *)
LEMMA KeptStay ==
    ASSUME IInv, NEW v \in Pids, v # current, Kept(v, sleeping', reading'),
           UNCHANGED <<current, ticks, kmode, next_pid, system_time>>,
           wakeup' \in [Pids -> 0 .. TimeMod - 1], incount' \in 0 .. BufSize
    PROVE  IInv' /\ Legal
  <1>1. RunningIsCurrent(state', current')
    BY DEF Kept, RunningIsCurrent, IInv
  <1>2. SomebodyToRun'
    BY InitIdlePids DEF SomebodyToRun, IInv, Kept
  <1>3. TypeOK'
    BY DEF TypeOK, IInv, Kept, QueueTypes
  <1> QED  BY <1>1, <1>2, <1>3 DEF IInv, Kept

(* The running process as a handler finds it, in hand.                     *)
LEMMA CurrentInHand ==
    ASSUME IInv, kmode # "dispatch"
    PROVE  /\ current \in Pids /\ state[current] = "Running"
           /\ Queued({} \cup {current}, state, prio, ready, sleeping, reading)
           /\ Queued({current}, state, prio, ready, sleeping, reading)
  <1>1. current \in Pids /\ state[current] = "Running"
    BY IInvTypes
  <1>2. Queued({} \cup {current}, state, prio, ready, sleeping, reading)
    BY <1>1, IInvTypes, TakeOff DEF IInv, OffQueue
  <1>3. {} \cup {current} = {current}
    OBVIOUS
  <1> QED  BY <1>1, <1>2, <1>3

LEMMA ExitStep ==
    ASSUME IInv, NEW s \in Statuses, Exit(s)
    PROVE  IInv' /\ Legal
  <1>1. /\ current \in Pids /\ current # InitPid /\ current # Idle
        /\ state[current] = "Running"
        /\ Queued({current}, state, prio, ready, sleeping, reading)
    BY CurrentInHand DEF Exit, Program, User
  <1>2. [exit_status EXCEPT ![current] = s] \in [Pids -> Statuses \cup {NoStatus}]
    BY DEF IInv, TypeOK
  <1>3. Kept(current, sleeping, reading)
    BY <1>1, <1>2, IInvTypes, ForceExitKeeps DEF Exit, IInv
  <1> QED  BY <1>1, <1>3, KeptAway DEF Exit

LEMMA KillSelfStep ==
    ASSUME IInv, KillSelf
    PROVE  IInv' /\ Legal
  <1>1. /\ current \in Pids /\ current # InitPid /\ current # Idle
        /\ state[current] = "Running"
        /\ Queued({current}, state, prio, ready, sleeping, reading)
    BY CurrentInHand DEF KillSelf, Program, User
  <1>2. Kept(current, sleeping, reading)
    BY <1>1, IInvTypes, ForceExitKeeps DEF KillSelf, IInv, TypeOK
  <1> QED  BY <1>1, <1>2, KeptAway DEF KillSelf

LEMMA KillWaitingStep ==
    ASSUME IInv, InitAndIdleSafe, NEW v \in Pids, KillWaiting(v)
    PROVE  IInv' /\ Legal
  <1>1. /\ v # InitPid /\ v # Idle /\ state[v] = "Waiting"
        /\ v # current
    BY CurrentInHand DEF KillWaiting, Program, User, InitAndIdleSafe
  <1>2. Queued({} \cup {v}, state, prio, ready, sleeping, reading)
    BY <1>1, IInvTypes, TakeOff DEF IInv, OffQueue
  <1>3. {} \cup {v} = {v}
    OBVIOUS
  <1>4. Kept(v, sleeping, reading)
    BY <1>1, <1>2, <1>3, IInvTypes, ForceExitKeeps DEF KillWaiting, IInv, TypeOK
  <1> QED  BY <1>1, <1>4, KeptStay DEF KillWaiting, IInv, TypeOK

LEMMA KillQueuedStep ==
    ASSUME IInv, InitAndIdleSafe, NEW v \in Pids, KillQueued(v)
    PROVE  IInv' /\ Legal
  <1>1. /\ v # InitPid /\ v # Idle
        /\ state[v] \in {"Ready", "Sleeping", "Blocked"}
        /\ state' = [state EXCEPT ![v] = "Killed"]
        /\ UNCHANGED <<ppid, prio, exit_status, wakeup, queueVars, cpuVars, miscVars>>
    BY DEF KillQueued, InitAndIdleSafe
  <1>2. /\ state' \in [Pids -> States] /\ state'[v] = "Killed"
        /\ \A p \in Pids : p # v => state'[p] = state[p]
    BY <1>1 DEF IInv, TypeOK, States
  <1>3. Queued({}, state', prio', ready', sleeping', reading')
    BY <1>1, IInvTypes, MarkKilled DEF IInv, queueVars
  <1>4. RunningIsCurrent(state', current')
    BY <1>1, <1>2 DEF IInv, RunningIsCurrent, cpuVars
  <1>5. Family(state', ppid')
    BY <1>1, FamilyLiveStep DEF IInv, TypeOK, States
  <1>6. SomebodyToRun'
    BY <1>1, <1>2, InitIdlePids DEF IInv, SomebodyToRun, cpuVars, miscVars
  <1>7. Cardinality(Table(state')) = Cardinality(Table(state))
    BY <1>1, <1>2, TableStays
  <1>8. TypeOK'
    BY <1>1, <1>2 DEF IInv, TypeOK, queueVars, cpuVars, miscVars
  <1>9. Legal
    BY <1>1, <1>2 DEF Legal
  <1> QED  BY <1>1, <1>3, <1>4, <1>5, <1>6, <1>7, <1>8, <1>9
           DEF IInv, cpuVars, miscVars

LEMMA YieldStep ==
    ASSUME IInv, Yield
    PROVE  IInv' /\ Legal
  <1>1. /\ current \in Pids /\ state[current] = "Running"
        /\ Queued({current}, state, prio, ready, sleeping, reading)
    BY CurrentInHand DEF Yield, Program, User
  <1>2. Kept(current, sleeping, reading)
    BY <1>1, IInvTypes, MakeReadyKeeps DEF Yield, IInv, miscVars
  <1> QED  BY <1>1, <1>2, KeptAway DEF Yield, miscVars

LEMMA ClockEndStep ==
    ASSUME IInv, ClockEnd
    PROVE  IInv' /\ Legal
  <1>1. /\ current \in Pids /\ state[current] = "Running"
        /\ Queued({current}, state, prio, ready, sleeping, reading)
    BY CurrentInHand DEF ClockEnd
  <1>2. CASE SliceOver /\ MakeReady(current, ready) /\ CallDispatch
    <2>1. Kept(current, sleeping, reading)
      BY <1>1, <1>2, IInvTypes, MakeReadyKeeps DEF ClockEnd, IInv, miscVars
    <2> QED  BY <1>1, <1>2, <2>1, KeptAway DEF ClockEnd, miscVars
  <1>3. CASE ~SliceOver /\ kmode' = "user" /\ UNCHANGED <<state, ready, current>>
    <2>1. ticks' \in 1 .. Quantum
      BY <1>3, SizeAssumption DEF ClockEnd, SliceOver, IInv, TypeOK, CallDispatch
    <2>2. UNCHANGED <<state, ppid, prio, exit_status, wakeup, ready, sleeping,
                      reading, current, halted, system_time, next_pid,
                      active_procs, incount>>
      BY <1>3 DEF ClockEnd, miscVars
    <2>3. TypeOK'
      BY <1>3, <2>1, <2>2 DEF IInv, TypeOK
    <2>4. SomebodyToRun'
      BY <1>1, <1>3, <2>2, InitIdlePids DEF IInv, SomebodyToRun
    <2> QED  BY <2>2, <2>3, <2>4, SameStates DEF IInv
  <1> QED  BY <1>2, <1>3 DEF ClockEnd

(* The running process goes to sleep in a state st, on a queue that the    *)
(* handler fills; it is neither init nor idle, or waits for a child.       *)
LEMMA BlocksStep ==
    ASSUME IInv, kmode = "user",
           NEW st \in {"Sleeping", "Waiting", "Blocked"},
           state' = [state EXCEPT ![current] = st],
           Queued({}, state', prio, ready, sleeping', reading'),
           sleeping' \in Seq(Pids), reading' \in Seq(Pids),
           wakeup' \in [Pids -> 0 .. TimeMod - 1],
           Family(state', ppid),
           current # Idle,
           current = InitPid => st = "Waiting" /\ next_pid > Idle,
           CallDispatch,
           UNCHANGED <<ppid, prio, exit_status, ready, halted, system_time,
                       next_pid, active_procs, incount>>
    PROVE  IInv' /\ Legal
  <1>1. current \in Pids /\ state[current] = "Running"
    BY CurrentInHand
  <1>2. /\ state' \in [Pids -> States] /\ state'[current] = st
        /\ \A p \in Pids : p # current => state'[p] = state[p]
    BY <1>1 DEF IInv, TypeOK, States
  <1>3. current' = NoPid /\ ticks' \in 0 .. Quantum /\ kmode' = "dispatch"
    BY SizeAssumption DEF CallDispatch
  <1>4. TypeOK'
    BY <1>2, <1>3 DEF IInv, TypeOK
  <1>5. SomebodyToRun'
    BY <1>1, <1>2, <1>3, InitIdlePids DEF IInv, SomebodyToRun
  <1>6. RunningIsCurrent(state', current')
    BY <1>1, <1>2, <1>3, InitIdlePids DEF IInv, RunningIsCurrent
  <1>7. Cardinality(Table(state')) = Cardinality(Table(state))
    BY <1>1, <1>2, TableStays
  <1>8. Legal
    BY <1>1, <1>2 DEF Legal
  <1> QED  BY <1>4, <1>5, <1>6, <1>7, <1>8 DEF IInv

LEMMA SleepStep ==
    ASSUME IInv, NEW n \in 1 .. MaxSleep, Sleep(n)
    PROVE  IInv' /\ Legal
  <1> DEFINE due == (system_time + n) % TimeMod
  <1>1. /\ current \in Pids /\ current # InitPid /\ current # Idle
        /\ kmode = "user" /\ state[current] = "Running"
        /\ Queued({current}, state, prio, ready, sleeping, reading)
    BY CurrentInHand DEF Sleep, Program, User
  <1>2. /\ state' = [state EXCEPT ![current] = "Sleeping"]
        /\ wakeup' = [wakeup EXCEPT ![current] = due]
        /\ CallDispatch
        /\ UNCHANGED <<ppid, prio, exit_status, ready, reading, halted,
                       system_time, next_pid, active_procs, incount>>
    BY DEF Sleep, miscVars
  <1>3. PICK i \in 1 .. Len(sleeping) + 1 : sleeping' = InsertAt(sleeping, i, current)
    BY DEF Sleep
  <1>4. due \in 0 .. TimeMod - 1
    BY SizeAssumption DEF IInv, TypeOK
  <1> HIDE DEF due
  <1>5. wakeup' \in [Pids -> 0 .. TimeMod - 1]
    BY <1>2, <1>4 DEF IInv, TypeOK
  <1>6. /\ state' \in [Pids -> States] /\ state'[current] = "Sleeping"
        /\ \A p \in Pids : p \notin {current} => state'[p] = state[p]
    BY <1>1, <1>2 DEF IInv, TypeOK, States
  <1>7. /\ QueueTypes(state', prio, ready, sleeping, reading)
        /\ Queued({current}, state', prio, ready, sleeping, reading)
    BY <1>1, <1>6, IInvTypes, ChangeInHand DEF IInv, TypeOK
  <1>8. /\ QueueTypes(state', prio, ready, sleeping', reading)
        /\ Queued({current} \ {current}, state', prio, ready, sleeping', reading)
    BY <1>1, <1>3, <1>6, <1>7, PutSleeping
  <1>9. {current} \ {current} = {}
    OBVIOUS
  <1>10. Family(state', ppid)
    BY <1>1, <1>2, FamilyLiveStep DEF IInv, TypeOK, States
  <1>11. reading' = reading /\ sleeping' \in Seq(Pids) /\ reading' \in Seq(Pids)
    BY <1>2, <1>8 DEF QueueTypes
  <1> QED  BY <1>1, <1>2, <1>5, <1>8, <1>9, <1>10, <1>11, BlocksStep

LEMMA BlockReaderStep ==
    ASSUME IInv, Program, BlockReader
    PROVE  IInv' /\ Legal
  <1>1. /\ current \in Pids /\ current # InitPid /\ current # Idle
        /\ kmode = "user" /\ state[current] = "Running"
        /\ Queued({current}, state, prio, ready, sleeping, reading)
    BY CurrentInHand DEF Program, User
  <1>2. /\ state' = [state EXCEPT ![current] = "Blocked"]
        /\ reading' = Append(reading, current)
        /\ CallDispatch
        /\ UNCHANGED <<ppid, prio, exit_status, wakeup, ready, sleeping, halted,
                       system_time, next_pid, active_procs, incount>>
    BY DEF BlockReader, miscVars
  <1>3. wakeup' \in [Pids -> 0 .. TimeMod - 1]
    BY <1>2 DEF IInv, TypeOK
  <1>4. /\ state' \in [Pids -> States] /\ state'[current] = "Blocked"
        /\ \A p \in Pids : p \notin {current} => state'[p] = state[p]
    BY <1>1, <1>2 DEF IInv, TypeOK, States
  <1>5. /\ QueueTypes(state', prio, ready, sleeping, reading)
        /\ Queued({current}, state', prio, ready, sleeping, reading)
    BY <1>1, <1>4, IInvTypes, ChangeInHand DEF IInv, TypeOK
  <1>6. /\ QueueTypes(state', prio, ready, sleeping, reading')
        /\ Queued({current} \ {current}, state', prio, ready, sleeping, reading')
    BY <1>1, <1>2, <1>4, <1>5, PutReading
  <1>7. {current} \ {current} = {}
    OBVIOUS
  <1>8. Family(state', ppid)
    BY <1>1, <1>2, FamilyLiveStep DEF IInv, TypeOK, States
  <1>9. sleeping' = sleeping /\ sleeping' \in Seq(Pids) /\ reading' \in Seq(Pids)
    BY <1>2, <1>6 DEF QueueTypes
  <1> QED  BY <1>1, <1>2, <1>3, <1>6, <1>7, <1>8, <1>9, BlocksStep

LEMMA WaitBlocksStep ==
    ASSUME IInv, WaitBlocks
    PROVE  IInv' /\ Legal
  <1>1. /\ current \in Pids /\ current # Idle
        /\ current = InitPid => next_pid > Idle
        /\ kmode = "user" /\ state[current] = "Running"
        /\ Queued({current}, state, prio, ready, sleeping, reading)
    BY CurrentInHand DEF WaitBlocks, Waiter, User
  <1>2. /\ state' = [state EXCEPT ![current] = "Waiting"]
        /\ CallDispatch
        /\ UNCHANGED <<ppid, prio, exit_status, wakeup, ready, sleeping, reading,
                       halted, system_time, next_pid, active_procs, incount>>
    BY DEF WaitBlocks, queueVars, miscVars
  <1>3. wakeup' \in [Pids -> 0 .. TimeMod - 1]
    BY <1>2 DEF IInv, TypeOK
  <1>4. /\ state' \in [Pids -> States] /\ state'[current] = "Waiting"
        /\ \A p \in Pids : p \notin {current} => state'[p] = state[p]
    BY <1>1, <1>2 DEF IInv, TypeOK, States
  <1>5. /\ QueueTypes(state', prio, ready, sleeping, reading)
        /\ Queued({current}, state', prio, ready, sleeping, reading)
    BY <1>1, <1>4, IInvTypes, ChangeInHand DEF IInv, TypeOK
  <1>6. Queued({}, state', prio, ready, sleeping, reading)
    BY <1>4, <1>5, LetGo DEF OffQueue
  <1>7. /\ \E c \in Pids : state[c] # "Unused" /\ ppid[c] = current
        /\ \A c \in Pids : state[c] = "Zombie" => ppid[c] # current
    BY DEF WaitBlocks, Children, Zombies, InTable
  <1>8. Family(state', ppid)
    <2>1. state \in [Pids -> States] /\ Family(state, ppid)
      BY DEF IInv, TypeOK
    <2>2. state[current] \notin {"Unused", "Zombie"}
      BY <1>1
    <2> QED  BY <1>1, <1>4, <1>7, <2>1, <2>2 DEF Family
  <1>9. /\ sleeping' = sleeping /\ reading' = reading
        /\ sleeping' \in Seq(Pids) /\ reading' \in Seq(Pids)
    BY <1>2, <1>5 DEF QueueTypes
  <1> QED  BY <1>1, <1>2, <1>3, <1>6, <1>8, <1>9, BlocksStep

LEMMA SpawnStep ==
    ASSUME IInv, NEW pr \in Prios, Spawn(pr)
    PROVE  IInv' /\ Legal
  <1> DEFINE child == next_pid
  <1>1. current \in Pids /\ state[current] = "Running" /\ kmode = "user"
    BY CurrentInHand DEF Spawn, User
  <1>2. /\ child \in Pids /\ child \in Nat /\ child >= 2 /\ child <= MaxPid
        /\ state[child] = "Unused"
        /\ current < child
    BY <1>1 DEF IInv, TypeOK, SomebodyToRun, Spawn, Pids
  <1>3. /\ state' = [state EXCEPT ![child] = "Ready"]
        /\ ppid' = [ppid EXCEPT ![child] = current]
        /\ prio' = [prio EXCEPT ![child] = pr]
        /\ ready' = [ready EXCEPT ![pr] = Append(@, child)]
        /\ next_pid' = child + 1
        /\ active_procs' = active_procs + 1 /\ active_procs < NProcs
        /\ halted' = (Cardinality(InTable) >= NProcs)
        /\ UNCHANGED <<exit_status, wakeup, sleeping, reading, current, ticks,
                       kmode, system_time, incount>>
    BY DEF Spawn, RoomForOne
  <1> HIDE DEF child
  <1>4. /\ state' \in [Pids -> States] /\ state'[child] = "Ready"
        /\ \A p \in Pids : p # child => state'[p] = state[p]
    BY <1>2, <1>3 DEF IInv, TypeOK, States
  <1>5. /\ prio' \in [Pids -> Prios] /\ prio'[child] = pr
        /\ \A p \in Pids : p # child => prio'[p] = prio[p]
    BY <1>2, <1>3 DEF IInv, TypeOK
  <1>6. Queued({} \cup {child}, state, prio, ready, sleeping, reading)
    BY <1>2, IInvTypes, TakeOff DEF IInv, OffQueue
  <1>7. /\ QueueTypes(state', prio', ready, sleeping, reading)
        /\ Queued({} \cup {child}, state', prio', ready, sleeping, reading)
    BY <1>4, <1>5, <1>6, IInvTypes, ChangeInHand
  <1>8. ready' = [ready EXCEPT ![prio'[child]] = Append(@, child)]
    BY <1>3, <1>5
  <1>9. /\ QueueTypes(state', prio', ready', sleeping, reading)
        /\ Queued(({} \cup {child}) \ {child}, state', prio', ready', sleeping, reading)
    <2>1. child \in {} \cup {child}
      OBVIOUS
    <2> QED  BY <1>2, <1>4, <1>7, <1>8, <2>1, PutReady
  <1>10. ({} \cup {child}) \ {child} = {}
    OBVIOUS
  <1>11. Queued({}, state', prio', ready', sleeping', reading')
    BY <1>3, <1>9, <1>10
  <1>12. Family(state', ppid')
    BY <1>1, <1>2, <1>3, FamilyBirth DEF IInv, TypeOK
  <1>13. Cardinality(Table(state')) = Cardinality(Table(state)) + 1
    BY <1>2, <1>3, TableGrows DEF IInv, TypeOK, States
  <1>14. halted' = FALSE
    <2>1. InTable = Table(state)
      BY DEF InTable, Table
    <2>2. Cardinality(InTable) < NProcs /\ NProcs \in Nat /\ Cardinality(InTable) \in Nat
      BY <1>3, <2>1, TableFinite, SizeAssumption DEF IInv
    <2>3. ~(Cardinality(InTable) >= NProcs)
      BY <2>2
    <2>4. (Cardinality(InTable) >= NProcs) = FALSE
      BY <2>3
    <2>5. halted' = (Cardinality(InTable) >= NProcs)
      BY <1>3
    <2> QED  BY <2>4, <2>5
  <1>15. TypeOK'
    <2>1. ppid' \in [Pids -> Pids \cup {NoPid}]
      BY <1>1, <1>2, <1>3 DEF IInv, TypeOK
    <2>2. /\ next_pid' \in 2 .. MaxPid + 1
          /\ active_procs' \in 0 .. NProcs
      BY <1>2, <1>3, SizeAssumption DEF IInv, TypeOK
    <2> QED  BY <1>3, <1>9, <1>14, <2>1, <2>2 DEF IInv, TypeOK, QueueTypes
  <1>16. SomebodyToRun'
    <2>1. state'[Idle] \in {"Ready", "Running"}
      BY <1>2, <1>4, InitIdlePids DEF IInv, SomebodyToRun, Idle, child
    <2>2. /\ InitPid # child /\ Idle # NoPid
          /\ next_pid' > Idle
          /\ \A p \in Pids : p >= next_pid' => p # child /\ p >= next_pid
      BY <1>2, <1>3 DEF InitPid, Idle, NoPid, child, Pids
    <2> QED  BY <1>3, <1>4, <2>1, <2>2, InitIdlePids DEF IInv, SomebodyToRun
  <1>17. RunningIsCurrent(state', current')
    BY <1>1, <1>2, <1>3, <1>4 DEF IInv, RunningIsCurrent
  <1>18. Legal
    BY <1>2, <1>4 DEF Legal
  <1> QED  BY <1>3, <1>11, <1>12, <1>13, <1>14, <1>15, <1>16, <1>17, <1>18 DEF IInv

LEMMA SpawnFailsStep ==
    ASSUME IInv, SpawnFails
    PROVE  IInv' /\ Legal
  <1>1. /\ next_pid' = next_pid + 1 /\ next_pid \in Idle + 1 .. MaxPid
        /\ UNCHANGED <<state, ppid, prio, exit_status, wakeup, ready, sleeping,
                       reading, current, ticks, kmode, halted, system_time,
                       active_procs, incount>>
    BY DEF SpawnFails, procVars, queueVars, cpuVars
  <1>2. next_pid' \in 2 .. MaxPid + 1
    BY <1>1, SizeAssumption DEF Idle
  <1>3. TypeOK'
    BY <1>1, <1>2 DEF IInv, TypeOK
  <1>4. next_pid > Idle /\ next_pid' > Idle
        /\ \A p \in Pids : p >= next_pid' => p >= next_pid
    BY <1>1, SizeAssumption DEF Idle, Pids
  <1>5. SomebodyToRun'
    BY <1>1, <1>4 DEF IInv, SomebodyToRun
  <1> QED  BY <1>1, <1>3, <1>5, SameStates DEF IInv

LEMMA WaitCollectsStep ==
    ASSUME IInv, NEW z \in Pids, WaitCollects(z)
    PROVE  IInv' /\ Legal
  <1>1. /\ current \in Pids /\ state[current] = "Running"
        /\ state[z] = "Zombie" /\ ppid[z] = current
        /\ z # InitPid /\ z # Idle
    BY CurrentInHand, ProtectedStates
       DEF WaitCollects, Waiter, User, Zombies, Children, IInv
  <1>2. /\ state' = [state EXCEPT ![z] = "Unused"]
        /\ ppid' = [ppid EXCEPT ![z] = NoPid]
        /\ prio' = [prio EXCEPT ![z] = System]
        /\ exit_status' = [exit_status EXCEPT ![z] = NoStatus]
        /\ active_procs' = active_procs - 1
        /\ UNCHANGED <<wakeup, ready, sleeping, reading, current, ticks, kmode,
                       halted, system_time, next_pid, incount>>
    BY DEF WaitCollects, queueVars, cpuVars
  <1>3. /\ state' \in [Pids -> States] /\ state'[z] = "Unused"
        /\ \A p \in Pids : p \notin {} \cup {z} => state'[p] = state[p]
    BY <1>2 DEF IInv, TypeOK, States
  <1>4. /\ prio' \in [Pids -> Prios]
        /\ \A p \in Pids : p \notin {} \cup {z} => prio'[p] = prio[p]
    BY <1>2, SizeAssumption DEF IInv, TypeOK, Prios, System
  <1>5. Queued({} \cup {z}, state, prio, ready, sleeping, reading)
    BY <1>1, IInvTypes, TakeOff DEF IInv, OffQueue
  <1>6. /\ QueueTypes(state', prio', ready, sleeping, reading)
        /\ Queued({} \cup {z}, state', prio', ready, sleeping, reading)
    BY <1>3, <1>4, <1>5, IInvTypes, ChangeInHand
  <1>7. Queued({}, state', prio', ready', sleeping', reading')
    <2>1. Queued({}, state', prio', ready, sleeping, reading)
      BY <1>3, <1>6, LetGo DEF OffQueue
    <2> QED  BY <1>2, <2>1
  <1>8. Family(state', ppid')
    BY <1>1, <1>2, FamilyCollects DEF IInv, TypeOK
  <1>9. /\ Cardinality(Table(state')) = Cardinality(Table(state)) - 1
        /\ Cardinality(Table(state)) >= 1
    <2>1. \A p \in Pids : p # z => (state'[p] = "Unused" <=> state[p] = "Unused")
      BY <1>3
    <2> QED  BY <1>1, <1>3, <2>1, TableShrinks DEF IInv, TypeOK
  <1>10. TypeOK'
    <2>1. /\ ppid' \in [Pids -> Pids \cup {NoPid}]
          /\ exit_status' \in [Pids -> Statuses \cup {NoStatus}]
      BY <1>2 DEF IInv, TypeOK
    <2>2. active_procs' \in 0 .. NProcs
      BY <1>2, <1>9, SizeAssumption DEF IInv, TypeOK
    <2> QED  BY <1>2, <1>3, <1>4, <2>1, <2>2 DEF IInv, TypeOK
  <1>11. SomebodyToRun'
    BY <1>1, <1>2, <1>3, InitIdlePids DEF IInv, SomebodyToRun
  <1>12. RunningIsCurrent(state', current')
    BY <1>1, <1>2, <1>3 DEF IInv, RunningIsCurrent
  <1>13. Legal
    BY <1>1, <1>3 DEF Legal, WaitCollects, Waiter, User
  <1> QED  BY <1>2, <1>7, <1>8, <1>9, <1>10, <1>11, <1>12, <1>13 DEF IInv

LEMMA SetPrioStep ==
    ASSUME IInv, NEW pr \in Prios, SetPrio(pr)
    PROVE  IInv' /\ Legal
  <1>1. /\ current \in Pids /\ state[current] = "Running"
        /\ Queued({current}, state, prio, ready, sleeping, reading)
    BY CurrentInHand DEF SetPrio, Program, User
  <1>2. /\ prio' = [prio EXCEPT ![current] = pr]
        /\ UNCHANGED <<state, ppid, exit_status, wakeup, ready, sleeping, reading,
                       current, ticks, kmode, halted, system_time, next_pid,
                       active_procs, incount>>
    BY DEF SetPrio, queueVars, cpuVars, miscVars
  <1>3. /\ prio' \in [Pids -> Prios]
        /\ \A p \in Pids : p \notin {current} => prio'[p] = prio[p]
    BY <1>2 DEF IInv, TypeOK
  <1>4. /\ QueueTypes(state, prio', ready, sleeping, reading)
        /\ Queued({current}, state, prio', ready, sleeping, reading)
    BY <1>1, <1>3, IInvTypes, ChangeInHand DEF IInv, TypeOK
  <1>5. Queued({}, state, prio', ready, sleeping, reading)
    BY <1>1, <1>4, LetGo DEF OffQueue
  <1>6. TypeOK'
    BY <1>2, <1>3 DEF IInv, TypeOK
  <1>7. SomebodyToRun'
    BY <1>2 DEF IInv, SomebodyToRun
  <1> QED  BY <1>2, <1>5, <1>6, <1>7, SameStates DEF IInv

LEMMA ReadSioStep ==
    ASSUME IInv, NEW length \in 0 .. BufSize, ReadSio(length)
    PROVE  IInv' /\ Legal
  <1>1. CASE BlockReader
    BY <1>1, BlockReaderStep DEF ReadSio
  <1>2. CASE /\ incount' = IF length < incount THEN incount - length ELSE 0
             /\ UNCHANGED <<procVars, queueVars, cpuVars, system_time, next_pid,
                            active_procs>>
    <2>1. incount' \in 0 .. BufSize
      BY <1>2, SizeAssumption DEF IInv, TypeOK
    <2>2. UNCHANGED <<state, ppid, prio, exit_status, wakeup, ready, sleeping,
                      reading, current, ticks, kmode, halted, system_time,
                      next_pid, active_procs>>
      BY <1>2 DEF procVars, queueVars, cpuVars
    <2>3. TypeOK'
      BY <2>1, <2>2 DEF IInv, TypeOK
    <2>4. SomebodyToRun'
      BY <2>2 DEF IInv, SomebodyToRun
    <2> QED  BY <2>2, <2>3, <2>4, SameStates DEF IInv
  <1> QED  BY <1>1, <1>2 DEF ReadSio

LEMMA SioReceiveStep ==
    ASSUME IInv, SioReceive
    PROVE  IInv' /\ Legal
  <1> DEFINE v == Head(reading)
  <1>1. UNCHANGED <<wakeup, sleeping, current, ticks, kmode, system_time, next_pid>>
    BY DEF SioReceive
  <1>2. CASE /\ reading # <<>> /\ reading' = Tail(reading)
             /\ Schedule(v) /\ incount' = incount
    <2>1. /\ v \in Pids /\ v \in ToSet(reading)
          /\ QueueTypes(state, prio, ready, sleeping, Tail(reading))
          /\ Queued({} \cup {v}, state, prio, ready, sleeping, Tail(reading))
      BY <1>2, IInvTypes, TakeReading DEF IInv
    <2>2. state[v] \in {"Sleeping", "Blocked", "Killed"} /\ v # current
      BY <2>1, IInvTypes DEF IInv, Queued
    <2>3. {} \cup {v} = {v}
      OBVIOUS
    <2> HIDE DEF v
    <2>4. Kept(v, sleeping, Tail(reading))
      BY <1>2, <2>1, <2>2, <2>3, ScheduleKeeps DEF IInv
    <2> QED  BY <1>1, <1>2, <2>1, <2>2, <2>4, KeptStay DEF IInv, TypeOK
  <1>3. CASE /\ reading = <<>>
             /\ incount' = IF incount < BufSize THEN incount + 1 ELSE incount
             /\ UNCHANGED <<state, ppid, prio, exit_status, ready, reading, halted,
                            active_procs>>
    <2>1. incount' \in 0 .. BufSize
      BY <1>3, SizeAssumption DEF IInv, TypeOK
    <2>2. TypeOK'
      BY <1>1, <1>3, <2>1 DEF IInv, TypeOK
    <2>3. SomebodyToRun'
      BY <1>1, <1>3 DEF IInv, SomebodyToRun
    <2> QED  BY <1>1, <1>3, <2>2, <2>3, SameStates DEF IInv
  <1> QED  BY <1>2, <1>3 DEF SioReceive

LEMMA ClockTickStep ==
    ASSUME IInv, ClockTick
    PROVE  IInv' /\ Legal
  <1>1. /\ system_time' = (system_time + 1) % TimeMod
        /\ kmode = "user" /\ kmode' = "clock"
        /\ UNCHANGED <<state, ppid, prio, exit_status, wakeup, ready, sleeping,
                       reading, current, ticks, halted, next_pid, active_procs,
                       incount>>
    BY DEF ClockTick, User, procVars, queueVars
  <1>2. system_time' \in 0 .. TimeMod - 1
    BY <1>1, SizeAssumption DEF IInv, TypeOK
  <1>3. TypeOK'
    BY <1>1, <1>2 DEF IInv, TypeOK
  <1>4. SomebodyToRun'
    BY <1>1 DEF IInv, SomebodyToRun
  <1> QED  BY <1>1, <1>3, <1>4, SameStates DEF IInv

LEMMA ClockWakeStep ==
    ASSUME IInv, ClockWake
    PROVE  IInv' /\ Legal
  <1> DEFINE v == Head(sleeping)
  <1>1. /\ sleeping # <<>> /\ sleeping' = Tail(sleeping)
        /\ wakeup' = [wakeup EXCEPT ![v] = 0]
        /\ Schedule(v)
        /\ UNCHANGED <<reading, current, ticks, kmode, system_time, next_pid, incount>>
    BY DEF ClockWake, Due
  <1>2. /\ v \in Pids /\ v \in ToSet(sleeping)
        /\ QueueTypes(state, prio, ready, Tail(sleeping), reading)
        /\ Queued({} \cup {v}, state, prio, ready, Tail(sleeping), reading)
    BY <1>1, IInvTypes, TakeSleeping DEF IInv
  <1>3. state[v] \in {"Sleeping", "Blocked", "Killed"} /\ v # current
    BY <1>2, IInvTypes DEF IInv, Queued
  <1>4. {} \cup {v} = {v}
    OBVIOUS
  <1> HIDE DEF v
  <1>5. Kept(v, Tail(sleeping), reading)
    BY <1>1, <1>2, <1>3, <1>4, ScheduleKeeps DEF IInv
  <1>6. wakeup' \in [Pids -> 0 .. TimeMod - 1]
    <2>1. 0 \in 0 .. TimeMod - 1
      BY SizeAssumption
    <2>2. wakeup \in [Pids -> 0 .. TimeMod - 1]
      BY DEF IInv, TypeOK
    <2> QED  BY <1>1, <2>1, <2>2
  <1> QED  BY <1>1, <1>2, <1>3, <1>5, <1>6, KeptStay DEF IInv, TypeOK

LEMMA DispatchReadyStep ==
    ASSUME IInv, kmode = "dispatch", NEW q \in Prios, DispatchReady(q)
    PROVE  IInv' /\ Legal
  <1> DEFINE v == Head(ready[q])
             r == [ready EXCEPT ![q] = Tail(@)]
  <1>1. /\ ready[q] # <<>> /\ state[v] = "Ready"
        /\ state' = [state EXCEPT ![v] = "Running"]
        /\ ready' = r /\ current' = v /\ ticks' = Quantum /\ kmode' = "user"
        /\ UNCHANGED <<ppid, prio, exit_status, wakeup, sleeping, reading, halted,
                       system_time, next_pid, active_procs, incount>>
    BY DEF DispatchReady, FirstNonEmpty, miscVars
  <1>2. /\ v \in Pids
        /\ QueueTypes(state, prio, r, sleeping, reading)
        /\ Queued({} \cup {v}, state, prio, r, sleeping, reading)
    BY <1>1, IInvTypes, TakeReady DEF IInv
  <1> HIDE DEF v, r
  <1>3. /\ state' \in [Pids -> States] /\ state'[v] = "Running"
        /\ \A p \in Pids : p \notin {} \cup {v} => state'[p] = state[p]
    BY <1>1, <1>2 DEF IInv, TypeOK, States
  <1>4. /\ QueueTypes(state', prio, r, sleeping, reading)
        /\ Queued({} \cup {v}, state', prio, r, sleeping, reading)
    BY <1>2, <1>3, ChangeInHand DEF IInv, TypeOK
  <1>5. Queued({}, state', prio, r, sleeping, reading)
    BY <1>3, <1>4, LetGo DEF OffQueue
  <1>6. Family(state', ppid)
    BY <1>1, <1>2, FamilyLiveStep DEF IInv, TypeOK, States
  <1>7. Cardinality(Table(state')) = Cardinality(Table(state))
    BY <1>1, <1>2, <1>3, TableStays
  <1>8. TypeOK'
    <2>1. ready' \in [Prios -> Seq(Pids)]
      BY <1>1, <1>4 DEF QueueTypes
    <2>2. current' \in Pids \cup {NoPid} /\ ticks' \in 0 .. Quantum /\ ticks' >= 1
      BY <1>1, <1>2, SizeAssumption
    <2> QED  BY <1>1, <1>3, <2>1, <2>2 DEF IInv, TypeOK
  <1>9. SomebodyToRun'
    BY <1>1, <1>2, <1>3, InitIdlePids DEF IInv, SomebodyToRun
  <1>10. RunningIsCurrent(state', current')
    BY <1>1, <1>2, <1>3, IInvTypes DEF IInv, RunningIsCurrent
  <1>11. Legal
    BY <1>1, <1>2, <1>3 DEF Legal
  <1> QED  BY <1>1, <1>5, <1>6, <1>7, <1>8, <1>9, <1>10, <1>11 DEF IInv

LEMMA DispatchKilledStep ==
    ASSUME IInv, kmode = "dispatch", NEW q \in Prios, DispatchKilled(q)
    PROVE  IInv' /\ Legal
  <1> DEFINE v == Head(ready[q])
             r == [ready EXCEPT ![q] = Tail(@)]
  <1>1. /\ ready[q] # <<>> /\ state[v] = "Killed"
        /\ ForceExit(v, KilledStatus, r, exit_status)
        /\ UNCHANGED <<wakeup, sleeping, reading, current, ticks, kmode,
                       system_time, next_pid, incount>>
    BY DEF DispatchKilled, FirstNonEmpty
  <1>2. /\ v \in Pids
        /\ QueueTypes(state, prio, r, sleeping, reading)
        /\ Queued({} \cup {v}, state, prio, r, sleeping, reading)
    BY <1>1, IInvTypes, TakeReady DEF IInv
  <1>3. v # InitPid /\ v # Idle /\ v # current
    BY <1>1, <1>2, IInvTypes, ProtectedStates DEF IInv
  <1>4. {} \cup {v} = {v}
    OBVIOUS
  <1> HIDE DEF v, r
  <1>5. Kept(v, sleeping, reading)
    BY <1>1, <1>2, <1>3, <1>4, ForceExitKeeps DEF IInv, TypeOK
  <1> QED  BY <1>1, <1>2, <1>3, <1>5, KeptStay DEF IInv, TypeOK

(* idle, or init before idle exists, is always there, and every process on *)
(* a ready queue is in a state that _dispatch expects.                     *)
LEMMA NoDispatchPanic ==
    ASSUME IInv, kmode = "dispatch"
    PROVE  ~DispatchPanics
  <1>1. \E p \in Pids : state[p] = "Ready"
    <2>1. next_pid > Idle \/ ~(next_pid > Idle)
      OBVIOUS
    <2> QED  BY <2>1, IInvTypes, InitIdlePids DEF IInv, SomebodyToRun
  <1>2. PICK p \in Pids : state[p] = "Ready"
    BY <1>1
  <1>3. prio[p] \in Prios /\ p \in ToSet(ready[prio[p]])
    BY <1>2 DEF IInv, Queued, TypeOK
  <1>4. ready[prio[p]] # <<>>
    BY <1>3 DEF ToSet
  <1>5. ASSUME NEW q \in Prios, ready[q] # <<>>
        PROVE  state[Head(ready[q])] \in {"Ready", "Killed"}
    <2>1. Head(ready[q]) \in Pids /\ Head(ready[q]) \in ToSet(ready[q])
      BY <1>5, IInvTypes, TakeReady DEF IInv
    <2> QED  BY <2>1 DEF IInv, Queued
  <1> QED  BY <1>3, <1>4, <1>5 DEF DispatchPanics, FirstNonEmpty

LEMMA NextKeepsIInv ==
    ASSUME IInv, InitAndIdleSafe, Next
    PROVE  IInv' /\ Legal
  <1>1. CASE Syscall
    <2>1. ASSUME NEW s \in Statuses, Exit(s)  PROVE IInv' /\ Legal
      BY <2>1, ExitStep
    <2>2. ASSUME NEW v \in Pids, KillQueued(v) \/ KillWaiting(v)
          PROVE  IInv' /\ Legal
      BY <2>2, KillQueuedStep, KillWaitingStep
    <2>3. ASSUME NEW n \in 1 .. MaxSleep, Sleep(n)  PROVE IInv' /\ Legal
      BY <2>3, SleepStep
    <2>4. ASSUME NEW pr \in Prios, Spawn(pr) \/ SetPrio(pr)
          PROVE  IInv' /\ Legal
      BY <2>4, SpawnStep, SetPrioStep
    <2>5. ASSUME NEW z \in Pids, WaitCollects(z)  PROVE IInv' /\ Legal
      BY <2>5, WaitCollectsStep
    <2>6. ASSUME NEW length \in 0 .. BufSize, ReadSio(length)
          PROVE  IInv' /\ Legal
      BY <2>6, ReadSioStep
    <2>7. CASE KillSelf \/ Yield \/ SpawnFails \/ WaitBlocks
      BY <2>7, KillSelfStep, YieldStep, SpawnFailsStep, WaitBlocksStep
    <2>8. CASE ReadOther
      BY <2>8, BlockReaderStep DEF ReadOther
    <2> QED  BY <1>1, <2>1, <2>2, <2>3, <2>4, <2>5, <2>6, <2>7, <2>8 DEF Syscall
  <1>2. CASE Interrupt
    BY <1>2, SioReceiveStep, ClockTickStep DEF Interrupt
  <1>3. CASE ClockWake
    BY <1>3, ClockWakeStep
  <1>4. CASE ClockEnd
    BY <1>4, ClockEndStep
  <1>5. CASE Dispatch
    BY <1>5, DispatchReadyStep, DispatchKilledStep, NoDispatchPanic DEF Dispatch
  <1> QED  BY <1>1, <1>2, <1>3, <1>4, <1>5 DEF Next

LEMMA InitHasIInv == Init => IInv
  <1> SUFFICES ASSUME Init PROVE IInv
    OBVIOUS
  <1>1. /\ state \in [Pids -> States]
        /\ state[InitPid] = "Running"
        /\ \A p \in Pids : p # InitPid => state[p] = "Unused"
        /\ ppid[InitPid] = InitPid
    BY InitIdlePids DEF Init, States
  <1>2. TypeOK
    <2>1. /\ 0 \in 0 .. TimeMod - 1 /\ 0 \in 0 .. BufSize
          /\ Quantum \in 0 .. Quantum /\ Quantum >= 1
          /\ 2 \in 2 .. MaxPid + 1 /\ 1 \in 0 .. NProcs
          /\ System \in Prios
      BY SizeAssumption DEF System, Prios
    <2>2. /\ ready \in [Prios -> Seq(Pids)]
          /\ sleeping \in Seq(Pids) /\ reading \in Seq(Pids)
      BY DEF Init
    <2>3. /\ ppid \in [Pids -> Pids \cup {NoPid}]
          /\ exit_status \in [Pids -> Statuses \cup {NoStatus}]
      BY InitIdlePids DEF Init
    <2> QED  BY <1>1, <2>1, <2>2, <2>3, InitIdlePids DEF Init, TypeOK
  <1>3. Queued({}, state, prio, ready, sleeping, reading)
    <2>1. ToSet(<<>>) = {} /\ IsInjective(<<>>)
      BY DEF ToSet, IsInjective
    <2>2. \A p \in Pids : state[p] \in {"Running", "Unused"}
      BY <1>1
    <2>3. sleeping = <<>> /\ reading = <<>> /\ \A q \in Prios : ready[q] = <<>>
      BY DEF Init
    <2> QED  BY <2>1, <2>2, <2>3 DEF Queued
  <1>4. RunningIsCurrent(state, current)
    BY <1>1 DEF RunningIsCurrent, Init
  <1>5. Family(state, ppid)
    BY <1>1, InitIdlePids DEF Family
  <1>6. SomebodyToRun
    BY <1>1, InitIdlePids DEF SomebodyToRun, Init, Idle, InitPid, Pids
  <1>7. active_procs = Cardinality(Table(state))
    <2>1. Table(state) = {InitPid}
      BY <1>1, InitIdlePids DEF Table
    <2> QED  BY <2>1, FS_Singleton DEF Init
  <1> QED  BY <1>2, <1>3, <1>4, <1>5, <1>6, <1>7 DEF IInv, Init

LEMMA StutterKeepsIInv == IInv /\ UNCHANGED vars => IInv' /\ Legal
  BY SMTT(30), SameStates
     DEF IInv, TypeOK, SomebodyToRun, vars, procVars, queueVars, cpuVars, miscVars

-----------------------------------------------------------------------------
(* The theorems.  Each holds for every size of the process table, number   *)
(* of priorities, quantum and width of the clock, and rests on the         *)
(* hypothesis that no process passes init or idle to kill().               *)

(* The inductive invariant holds in every reachable state of the handlers. *)
THEOREM Invariance ==
    ASSUME InitAndIdleSafe
    PROVE  Spec => []IInv
  <1>1. IInv /\ [Next]_vars => IInv'
    BY NextKeepsIInv, StutterKeepsIInv
  <1> QED  BY InitHasIInv, <1>1, PTL DEF Spec

(* Every variable keeps its type: the quantum never underflows, no counter *)
(* leaves its bounds.                                                      *)
THEOREM TypeCorrect ==
    ASSUME InitAndIdleSafe
    PROVE  Spec => []TypeOK
  <1>1. IInv => TypeOK
    BY DEF IInv
  <1> QED  BY Invariance, <1>1, PTL

(* Through every system call and interrupt the queues hold exactly the     *)
(* processes whose states say so, each on one queue and once; a process    *)
(* that kill() marked stays on the queue it is taken from.                 *)
THEOREM QueuesAgree ==
    ASSUME InitAndIdleSafe
    PROVE  Spec => []QueuesMatchStates
  <1>1. IInv => QueuesMatchStates
    <2> SUFFICES ASSUME IInv PROVE QueuesMatchStates
      OBVIOUS
    <2>1. /\ ready \in [Prios -> Seq(Pids)] /\ prio \in [Pids -> Prios]
          /\ sleeping \in Seq(Pids) /\ reading \in Seq(Pids)
      BY DEF IInv, TypeOK
    <2>2. /\ \A q \in Prios : \A p \in ToSet(ready[q]) : p \in Pids
          /\ \A p \in ToSet(sleeping) : p \in Pids
          /\ \A p \in ToSet(reading) : p \in Pids
      BY <2>1, MembersType
    <2> QED  BY <2>1, <2>2 DEF IInv, Queued, RunningIsCurrent, QueuesMatchStates
  <1> QED  BY Invariance, <1>1, PTL

(* Reparenting by _force_exit never leaves a process without a live parent *)
(* in the table, so its assertion that a parent exists cannot fail.        *)
THEOREM TreeIntact ==
    ASSUME InitAndIdleSafe
    PROVE  Spec => []FamilyTree
  <1>1. IInv => FamilyTree
    BY FamilyIs DEF IInv
  <1> QED  BY Invariance, <1>1, PTL

(* No process but init sleeps in wait() over a zombie of its own, or with  *)
(* no child left to wake it.                                               *)
THEOREM NoMissedZombie ==
    ASSUME InitAndIdleSafe
    PROVE  Spec => []NoLostWakeup
  <1>1. IInv => NoLostWakeup
    BY FamilyIs DEF IInv
  <1> QED  BY Invariance, <1>1, PTL

(* There is always a process for _dispatch to find.                        *)
THEOREM AlwaysSomebody ==
    ASSUME InitAndIdleSafe
    PROVE  Spec => []SomebodyToRun
  <1>1. IInv => SomebodyToRun
    BY DEF IInv
  <1> QED  BY Invariance, <1>1, PTL

(* _active_procs is the number of processes in the table.                  *)
THEOREM CountIsRight ==
    ASSUME InitAndIdleSafe
    PROVE  Spec => []ProcsCounted
  <1>1. IInv => ProcsCounted
    BY DEF IInv, ProcsCounted, Table, InTable
  <1> QED  BY Invariance, <1>1, PTL

(* No assertion and no panic of the modelled kernel paths can fire.        *)
THEOREM NeverPanics ==
    ASSUME InitAndIdleSafe
    PROVE  Spec => []NoPanic
  <1>1. IInv => NoPanic
    BY DEF IInv, NoPanic
  <1> QED  BY Invariance, <1>1, PTL

(* A killed process never runs again and a dead one stays dead.            *)
THEOREM KillIsFinal ==
    ASSUME InitAndIdleSafe
    PROVE  Spec => KilledIsFinal
  <1>1. IInv /\ [Next]_vars => Legal
    BY NextKeepsIInv, StutterKeepsIInv
  <1>2. Legal => \A p \in Pids :
          /\ state[p] = "Killed" => state'[p] \in {"Killed", "Zombie", "Unused"}
          /\ state[p] = "Zombie" => state'[p] \in {"Zombie", "Unused"}
    BY DEF Legal
  <1> QED  BY Invariance, <1>1, <1>2, PTL DEF Spec, KilledIsFinal

(* No process leaves the table behind its parent's back.                   *)
THEOREM OnlyParentsReap ==
    ASSUME InitAndIdleSafe
    PROVE  Spec => ReapedByParent
  <1>1. IInv /\ [Next]_vars => Legal
    BY NextKeepsIInv, StutterKeepsIInv
  <1>2. Legal => \A p \in Pids : state[p] # "Unused" /\ state'[p] = "Unused"
          => \/ state[ppid[p]] = "Waiting" /\ state'[ppid[p]] = "Ready"
             \/ state[p] = "Zombie" /\ current = ppid[p] /\ kmode = "user"
    BY DEF Legal
  <1> QED  BY Invariance, <1>1, <1>2, PTL DEF Spec, ReapedByParent

-----------------------------------------------------------------------------
(* Sleepers and the clock.                                                 *)

(* The clock has not wrapped: the times of the system and of sleepers are  *)
(* below TimeMod, which is 2^32 milliseconds, 49 days, in the code.        *)
ClockFits == MaxTime < TimeMod - 1 /\ MaxTime + MaxSleep < TimeMod

Ordered(s, key) ==
    \A i, j \in 1 .. Len(s) : i <= j => key[s[i]] <= key[s[j]]

(* _sleeping is in order, and nobody on it is overdue: until the clock's   *)
(* loop has looked at it, the head may be due now.                         *)
NobodyOverdue ==
    /\ Ordered(sleeping, wakeup)
    /\ \A p \in ToSet(sleeping) :
          wakeup[p] > system_time \/ (kmode = "clock" /\ wakeup[p] = system_time)
    /\ system_time <= MaxTime

(* What ScheduledRightly says of a step.                                   *)
Timely ==
    \A p \in Pids :
       /\ state[p] = "Sleeping" /\ state'[p] = "Ready" => wakeup[p] = system_time
       /\ state[p] = "Ready" /\ state'[p] = "Running"
             => \A r \in Pids : state'[r] = "Ready" => prio[p] <= prio[r]

(* Most steps wake no sleeper and give the processor to nobody.            *)
NobodyWakesOrRuns ==
    \A p \in Pids :
       /\ state'[p] = "Ready" => state[p] # "Sleeping"
       /\ state'[p] = "Running" => state[p] = "Running"

LEMMA QuietStep ==
    ASSUME NobodyOverdue, NobodyWakesOrRuns, kmode # "clock",
           UNCHANGED <<sleeping, wakeup, system_time>>
    PROVE  NobodyOverdue' /\ Timely
  BY DEF NobodyOverdue, NobodyWakesOrRuns, Timely, Ordered

LEMMA ForceExitQuiet ==
    ASSUME IInv, NEW v \in Pids, NEW status, NEW rdy, NEW xst, ForceExit(v, status, rdy, xst)
    PROVE  NobodyWakesOrRuns
  BY DEF ForceExit, NobodyWakesOrRuns, IInv, TypeOK

LEMMA MakeReadyQuiet ==
    ASSUME IInv, NEW v \in Pids, state[v] # "Sleeping", NEW rdy, MakeReady(v, rdy)
    PROVE  NobodyWakesOrRuns
  BY DEF MakeReady, NobodyWakesOrRuns, IInv, TypeOK

LEMMA StateQuiet ==
    ASSUME IInv, NEW v \in Pids,
           NEW st \in {"Killed", "Sleeping", "Waiting", "Blocked", "Unused"},
           state' = [state EXCEPT ![v] = st]
    PROVE  NobodyWakesOrRuns
  BY DEF NobodyWakesOrRuns, IInv, TypeOK

LEMMA SameQuiet ==
    ASSUME state' = state
    PROVE  NobodyWakesOrRuns
  BY DEF NobodyWakesOrRuns

(* sleep(): the process goes behind those that wake no later.              *)
LEMMA SleepTimely ==
    ASSUME IInv, NobodyOverdue, ClockFits, NEW n \in 1 .. MaxSleep, Sleep(n)
    PROVE  NobodyOverdue' /\ Timely
  <1> DEFINE due == (system_time + n) % TimeMod
             s == sleeping
             t == sleeping'
             l == Len(sleeping)
  <1>1. /\ current \in Pids /\ state[current] = "Running" /\ kmode = "user"
        /\ Queued({current}, state, prio, ready, sleeping, reading)
    BY CurrentInHand DEF Sleep, Program, User
  <1>2. /\ state' = [state EXCEPT ![current] = "Sleeping"]
        /\ wakeup' = [wakeup EXCEPT ![current] = due]
        /\ UNCHANGED <<prio, system_time>>
    BY DEF Sleep, miscVars
  <1>3. PICK i \in 1 .. l + 1 :
           /\ \A j \in 1 .. i - 1 : wakeup[s[j]] <= due
           /\ i <= l => wakeup[s[i]] > due
           /\ t = InsertAt(s, i, current)
    BY DEF Sleep, Position
  <1>4. due = system_time + n /\ due \in Nat /\ due > system_time /\ system_time <= MaxTime
    <2>1. system_time \in Nat /\ n \in Nat /\ n >= 1 /\ TimeMod \in Nat
          /\ system_time <= MaxTime /\ system_time + n < TimeMod
      BY SizeAssumption DEF IInv, TypeOK, NobodyOverdue, ClockFits
    <2> QED  BY <2>1
  <1>5. /\ s \in Seq(Pids) /\ l \in Nat /\ current \notin ToSet(s)
        /\ wakeup \in [Pids -> 0 .. TimeMod - 1] /\ TimeMod \in Nat
    BY <1>1, SizeAssumption DEF IInv, TypeOK, Queued
  <1>6. /\ t \in Seq(Pids) /\ Len(t) = l + 1 /\ ToSet(t) = ToSet(s) \cup {current}
        /\ \A j \in 1 .. l + 1 :
              t[j] = IF j < i THEN s[j] ELSE IF j = i THEN current ELSE s[j - 1]
    <2> HIDE DEF s, l, t
    <2>1. s \in Seq(Pids) /\ current \in Pids /\ l = Len(s) /\ i \in 1 .. Len(s) + 1
      BY <1>1, <1>5 DEF l, s
    <2>2. /\ InsertAt(s, i, current) \in Seq(Pids)
          /\ Inserted(InsertAt(s, i, current), s, i, current)
          /\ ToSet(InsertAt(s, i, current)) = ToSet(s) \cup {current}
      BY <2>1, InsertMembers
    <2> QED  BY <1>3, <2>1, <2>2 DEF Inserted
  <1>7. \A j \in 1 .. l : s[j] \in Pids /\ s[j] \in ToSet(s) /\ s[j] # current
    BY <1>5, MembersType DEF ToSet
  <1>8. \A p \in ToSet(s) : p \in Pids /\ p # current
    BY <1>5, MembersType
  <1> HIDE DEF due, s, t, l
  <1>9. /\ wakeup'[current] = due
        /\ \A p \in ToSet(s) : wakeup'[p] = wakeup[p] /\ wakeup[p] \in Nat
    BY <1>1, <1>2, <1>5, <1>8
  <1>10. \A j, k \in 1 .. l : j <= k => wakeup[s[j]] <= wakeup[s[k]]
    BY DEF NobodyOverdue, Ordered, s, l
  <1>11. \A k \in i .. l : wakeup[s[k]] >= due
    <2> SUFFICES ASSUME NEW k \in i .. l PROVE wakeup[s[k]] >= due
      OBVIOUS
    <2>1. i \in 1 .. l /\ k \in 1 .. l /\ i <= k
      BY <1>5
    <2>2. wakeup[s[i]] > due /\ wakeup[s[i]] <= wakeup[s[k]]
      BY <1>3, <1>10, <2>1
    <2>3. wakeup[s[i]] \in Nat /\ wakeup[s[k]] \in Nat
      BY <1>7, <1>9, <2>1
    <2> QED  BY <1>4, <2>2, <2>3
  <1>12. ASSUME NEW j \in 1 .. l + 1, NEW k \in 1 .. l + 1, j <= k
         PROVE  wakeup'[t[j]] <= wakeup'[t[k]]
    <2>1. CASE j < i /\ k < i
      <3>1. j \in 1 .. l /\ k \in 1 .. l
        BY <1>5, <2>1
      <3> QED  BY <1>6, <1>7, <1>9, <1>10, <1>12, <2>1, <3>1
    <2>2. CASE j < i /\ k = i
      <3>1. j \in 1 .. l /\ j \in 1 .. i - 1
        BY <1>5, <2>2
      <3> QED  BY <1>3, <1>6, <1>7, <1>9, <2>2, <3>1
    <2>3. CASE j < i /\ k > i
      <3>1. j \in 1 .. l /\ k - 1 \in 1 .. l /\ j <= k - 1 /\ ~(k < i) /\ k # i
        BY <1>5, <2>3
      <3>2. t[j] = s[j] /\ t[k] = s[k - 1]
        BY <1>6, <2>3, <3>1
      <3> QED  BY <1>7, <1>9, <1>10, <3>1, <3>2
    <2>4. CASE j = i /\ k = i
      BY <1>4, <1>6, <1>9, <2>4
    <2>5. CASE j = i /\ k > i
      <3>1. k - 1 \in i .. l /\ k - 1 \in 1 .. l /\ ~(k < i) /\ k # i
        BY <1>5, <2>5
      <3>2. t[j] = current /\ t[k] = s[k - 1]
        BY <1>6, <2>5, <3>1
      <3> QED  BY <1>7, <1>9, <1>11, <3>1, <3>2
    <2>6. CASE j > i /\ k > i
      <3>1. /\ j - 1 \in 1 .. l /\ k - 1 \in 1 .. l /\ j - 1 <= k - 1
            /\ ~(k < i) /\ k # i /\ ~(j < i) /\ j # i
        BY <1>5, <1>12, <2>6
      <3>2. t[j] = s[j - 1] /\ t[k] = s[k - 1]
        BY <1>6, <2>6, <3>1
      <3> QED  BY <1>7, <1>9, <1>10, <3>1, <3>2
    <2> QED  BY <1>12, <2>1, <2>2, <2>3, <2>4, <2>5, <2>6
  <1>13. Ordered(t, wakeup')
    BY <1>6, <1>12 DEF Ordered
  <1>14. \A p \in ToSet(t) : wakeup'[p] > system_time
    BY <1>1, <1>4, <1>6, <1>9 DEF NobodyOverdue, s
  <1>15. NobodyOverdue'
    BY <1>2, <1>4, <1>13, <1>14 DEF NobodyOverdue, t
  <1>16. Timely
    BY <1>1, <1>2 DEF Timely, IInv, TypeOK
  <1> QED  BY <1>15, <1>16

(* The clock's tick: who was to wake later may be due now.                 *)
LEMMA TickTimely ==
    ASSUME IInv, NobodyOverdue, ClockFits, ClockTick
    PROVE  NobodyOverdue' /\ Timely
  <1>1. /\ kmode = "user" /\ kmode' = "clock" /\ UNCHANGED <<state, wakeup, sleeping>>
        /\ system_time < MaxTime /\ system_time' = (system_time + 1) % TimeMod
    <2>1. MaxTime # TimeMod - 1
      BY SizeAssumption DEF ClockFits
    <2> QED  BY <2>1 DEF ClockTick, User, procVars, queueVars
  <1>2. system_time' = system_time + 1 /\ system_time' <= MaxTime /\ system_time \in Nat
    <2>1. /\ system_time \in Nat /\ TimeMod \in Nat /\ MaxTime \in Nat
          /\ system_time + 1 <= MaxTime /\ MaxTime < TimeMod
      BY <1>1, SizeAssumption DEF IInv, TypeOK
    <2>2. (system_time + 1) % TimeMod = system_time + 1
      BY <2>1
    <2> QED  BY <1>1, <2>1, <2>2
  <1>3. \A p \in ToSet(sleeping) : wakeup[p] \in Nat
    <2>1. sleeping \in Seq(Pids) /\ wakeup \in [Pids -> 0 .. TimeMod - 1] /\ TimeMod \in Nat
      BY SizeAssumption DEF IInv, TypeOK
    <2> QED  BY <2>1, MembersType
  <1>4. NobodyOverdue'
    BY <1>1, <1>2, <1>3 DEF NobodyOverdue, Ordered
  <1>5. Timely
    BY <1>1 DEF Timely
  <1> QED  BY <1>4, <1>5

(* The wakeup loop: its head is due now, since nobody is overdue.          *)
LEMMA WakeTimely ==
    ASSUME IInv, NobodyOverdue, ClockWake
    PROVE  NobodyOverdue' /\ Timely
  <1> DEFINE v == Head(sleeping)
             t == Tail(sleeping)
  <1>1. /\ sleeping # <<>> /\ sleeping' = t /\ kmode = "clock" /\ kmode' = "clock"
        /\ wakeup[v] <= system_time /\ wakeup' = [wakeup EXCEPT ![v] = 0]
        /\ Schedule(v) /\ system_time' = system_time
    BY DEF ClockWake, Due
  <1>2. /\ sleeping \in Seq(Pids) /\ IsInjective(sleeping) /\ system_time \in Nat
        /\ wakeup \in [Pids -> 0 .. TimeMod - 1] /\ TimeMod \in Nat
    BY SizeAssumption DEF IInv, TypeOK, Queued
  <1>3. /\ v \in Pids /\ v \in ToSet(sleeping) /\ t \in Seq(Pids)
        /\ ToSet(t) = ToSet(sleeping) \ {v}
    BY <1>1, <1>2, TailMembers
  <1>4. /\ Len(t) = Len(sleeping) - 1 /\ Len(sleeping) \in Nat /\ Len(t) \in Nat
        /\ \A i \in 1 .. Len(t) : t[i] = sleeping[i + 1]
    BY <1>1, <1>2, HeadTailProperties
  <1> HIDE DEF v, t
  <1>5. \A i \in 1 .. Len(t) : t[i] \in ToSet(t)
    BY <1>3, LenProperties DEF ToSet
  <1>6. wakeup[v] = system_time
    BY <1>1, <1>2, <1>3 DEF NobodyOverdue
  <1>7. \A p \in ToSet(t) : p \in Pids /\ wakeup'[p] = wakeup[p]
    BY <1>1, <1>2, <1>3, MembersType
  <1>8. Ordered(t, wakeup')
    <2> SUFFICES ASSUME NEW i \in 1 .. Len(t), NEW j \in 1 .. Len(t), i <= j
                 PROVE  wakeup'[t[i]] <= wakeup'[t[j]]
      BY DEF Ordered
    <2>1. i + 1 \in 1 .. Len(sleeping) /\ j + 1 \in 1 .. Len(sleeping) /\ i + 1 <= j + 1
      BY <1>4
    <2>2. wakeup[sleeping[i + 1]] <= wakeup[sleeping[j + 1]]
      BY <2>1 DEF NobodyOverdue, Ordered
    <2> QED  BY <1>4, <1>5, <1>7, <2>2
  <1>9. NobodyOverdue'
    BY <1>1, <1>3, <1>7, <1>8 DEF NobodyOverdue
  <1>10. Timely
    <2>1. CASE state[v] = "Killed"
      <3>1. NobodyWakesOrRuns
        BY <1>1, <1>3, <2>1, ForceExitQuiet DEF Schedule
      <3> QED  BY <3>1 DEF Timely, NobodyWakesOrRuns
    <2>2. CASE state[v] # "Killed"
      <3>1. state' = [state EXCEPT ![v] = "Ready"]
        BY <1>1, <2>2 DEF Schedule, MakeReady
      <3> QED  BY <1>3, <1>6, <3>1 DEF Timely, IInv, TypeOK
    <2> QED  BY <2>1, <2>2
  <1> QED  BY <1>9, <1>10

(* The loop ends at a head that is not due, and all behind it are not.     *)
LEMMA EndTimely ==
    ASSUME IInv, NobodyOverdue, ClockEnd
    PROVE  NobodyOverdue' /\ Timely
  <1>1. /\ UNCHANGED <<wakeup, sleeping, system_time>> /\ kmode = "clock" /\ ~Due
        /\ state' = state \/ MakeReady(current, ready)
    BY DEF ClockEnd, miscVars
  <1>2. sleeping \in Seq(Pids) /\ system_time \in Nat
        /\ wakeup \in [Pids -> 0 .. TimeMod - 1] /\ TimeMod \in Nat
    BY SizeAssumption DEF IInv, TypeOK
  <1>3. ASSUME NEW p \in ToSet(sleeping)
        PROVE  wakeup[p] > system_time
    <2>1. PICK i \in 1 .. Len(sleeping) : p = sleeping[i]
      BY <1>2 DEF ToSet
    <2>2. Len(sleeping) \in Nat /\ 1 \in 1 .. Len(sleeping) /\ 1 <= i /\ sleeping # <<>>
      BY <1>2
    <2>3. Head(sleeping) = sleeping[1] /\ sleeping[1] \in Pids /\ p \in Pids
      BY <1>2, <2>1, <2>2, ElementOfSeq
    <2>4. wakeup[sleeping[1]] <= wakeup[p]
      BY <2>1, <2>2 DEF NobodyOverdue, Ordered
    <2>5. wakeup[sleeping[1]] > system_time
      BY <1>1, <1>2, <2>2, <2>3 DEF Due
    <2> QED  BY <1>2, <2>3, <2>4, <2>5
  <1>4. NobodyOverdue'
    BY <1>1, <1>3 DEF NobodyOverdue, Ordered
  <1>5. NobodyWakesOrRuns
    <2>1. current \in Pids /\ state[current] = "Running"
      BY <1>1, CurrentInHand
    <2> QED  BY <1>1, <2>1, MakeReadyQuiet, SameQuiet
  <1> QED  BY <1>4, <1>5 DEF Timely, NobodyWakesOrRuns

(* _dispatch takes the head of the best queue that is not empty.           *)
LEMMA DispatchTimely ==
    ASSUME IInv, NobodyOverdue, kmode = "dispatch", NEW q \in Prios, DispatchReady(q)
    PROVE  NobodyOverdue' /\ Timely
  <1> DEFINE v == Head(ready[q])
  <1>1. /\ ready[q] # <<>> /\ \A r \in Prios : r < q => ready[r] = <<>>
        /\ state[v] = "Ready" /\ state' = [state EXCEPT ![v] = "Running"]
        /\ kmode' = "user" /\ UNCHANGED <<prio, wakeup, sleeping, system_time>>
    BY DEF DispatchReady, FirstNonEmpty, miscVars
  <1>2. v \in Pids /\ v \in ToSet(ready[q])
    BY <1>1, IInvTypes, TakeReady DEF IInv
  <1> HIDE DEF v
  <1>3. prio[v] = q
    BY <1>2 DEF IInv, Queued
  <1>4. ASSUME NEW r \in Pids, state'[r] = "Ready"
        PROVE  q <= prio[r]
    <2>1. state[r] = "Ready"
      BY <1>1, <1>2, <1>4 DEF IInv, TypeOK
    <2>2. prio[r] \in Prios /\ r \in ToSet(ready[prio[r]])
      BY <2>1 DEF IInv, Queued, TypeOK
    <2>3. ready[prio[r]] # <<>>
      BY <2>2 DEF ToSet
    <2>4. ~(prio[r] < q)
      BY <1>1, <2>2, <2>3
    <2> QED  BY <2>2, <2>4, SizeAssumption DEF Prios
  <1>5. Timely
    BY <1>1, <1>2, <1>3, <1>4 DEF Timely, IInv, TypeOK
  <1>6. NobodyOverdue'
    BY <1>1 DEF NobodyOverdue, Ordered
  <1> QED  BY <1>5, <1>6

LEMMA StepTimely ==
    ASSUME IInv, NobodyOverdue, ClockFits, [Next]_vars
    PROVE  NobodyOverdue' /\ Timely
  <1>1. CASE UNCHANGED vars
    BY <1>1 DEF vars, procVars, queueVars, cpuVars, miscVars, NobodyOverdue, Ordered, Timely
  <1>2. CASE ClockTick
    BY <1>2, TickTimely
  <1>3. CASE ClockWake
    BY <1>3, WakeTimely
  <1>4. CASE ClockEnd
    BY <1>4, EndTimely
  <1>5. ASSUME NEW n \in 1 .. MaxSleep, Sleep(n)
        PROVE  NobodyOverdue' /\ Timely
    BY <1>5, SleepTimely
  <1>6. ASSUME NEW q \in Prios, kmode = "dispatch", DispatchReady(q)
        PROVE  NobodyOverdue' /\ Timely
    BY <1>6, DispatchTimely
  <1>7. User => current \in Pids /\ state[current] = "Running" /\ kmode # "clock"
    BY CurrentInHand DEF User
  <1>8. ASSUME \/ \E s \in Statuses : Exit(s)
               \/ KillSelf
               \/ \E v \in Pids : KillWaiting(v)
        PROVE  NobodyOverdue' /\ Timely
    <2>1. /\ NobodyWakesOrRuns /\ User /\ UNCHANGED <<wakeup, sleeping, system_time>>
      BY <1>7, <1>8, ForceExitQuiet DEF Exit, KillSelf, KillWaiting, Program
    <2> QED  BY <1>7, <2>1, QuietStep
  <1>9. CASE Yield
    <2>1. /\ NobodyWakesOrRuns /\ User /\ UNCHANGED <<wakeup, sleeping, system_time>>
      BY <1>7, <1>9, MakeReadyQuiet DEF Yield, Program, miscVars
    <2> QED  BY <1>7, <2>1, QuietStep
  <1>10. ASSUME \/ \E v \in Pids : KillQueued(v)
                \/ \E z \in Pids : WaitCollects(z)
                \/ WaitBlocks
                \/ Program /\ BlockReader
         PROVE  NobodyOverdue' /\ Timely
    <2>1. /\ NobodyWakesOrRuns /\ User /\ UNCHANGED <<wakeup, sleeping, system_time>>
      BY <1>7, <1>10, StateQuiet
         DEF KillQueued, WaitCollects, WaitBlocks, BlockReader, Waiter, Program,
             queueVars, miscVars
    <2> QED  BY <1>7, <2>1, QuietStep
  <1>11. ASSUME NEW pr \in Prios, Spawn(pr)
         PROVE  NobodyOverdue' /\ Timely
    <2>1. /\ User /\ UNCHANGED <<wakeup, sleeping, system_time>>
          /\ state' = [state EXCEPT ![next_pid] = "Ready"]
      BY <1>11 DEF Spawn
    <2>2. next_pid \in Pids => state[next_pid] = "Unused"
      BY DEF IInv, SomebodyToRun, TypeOK, Pids
    <2>3. NobodyWakesOrRuns
      BY <2>1, <2>2 DEF NobodyWakesOrRuns, IInv, TypeOK
    <2> QED  BY <1>7, <2>1, <2>3, QuietStep
  <1>12. ASSUME \/ \E pr \in Prios : SetPrio(pr)
                \/ SpawnFails
                \/ User /\ UNCHANGED <<procVars, queueVars, cpuVars, system_time>>
         PROVE  NobodyOverdue' /\ Timely
    <2>1. /\ User /\ UNCHANGED <<state, wakeup, sleeping, system_time>>
      BY <1>12 DEF SetPrio, SpawnFails, Program, procVars, queueVars, miscVars
    <2> QED  BY <1>7, <2>1, SameQuiet, QuietStep
  <1>13. ASSUME NEW length \in 0 .. BufSize, ReadSio(length)
         PROVE  NobodyOverdue' /\ Timely
    BY <1>10, <1>12, <1>13 DEF ReadSio, Program
  <1>14. CASE SioReceive
    <2>1. User /\ UNCHANGED <<wakeup, sleeping, system_time>>
      BY <1>14 DEF SioReceive
    <2>2. NobodyWakesOrRuns
      <3>1. CASE state' = state
        BY <3>1, SameQuiet
      <3>2. CASE reading # <<>> /\ Schedule(Head(reading))
        <4>1. Head(reading) \in Pids /\ Head(reading) \in ToSet(reading)
          BY <3>2, IInvTypes, TakeReading DEF IInv
        <4>2. state[Head(reading)] \in {"Blocked", "Killed"}
          BY <4>1 DEF IInv, Queued
        <4> QED  BY <3>2, <4>1, <4>2, ForceExitQuiet, MakeReadyQuiet DEF Schedule
      <3> QED  BY <1>14, <3>1, <3>2 DEF SioReceive
    <2> QED  BY <1>7, <2>1, <2>2, QuietStep
  <1>15. ASSUME NEW q \in Prios, kmode = "dispatch", DispatchKilled(q)
         PROVE  NobodyOverdue' /\ Timely
    <2>1. Head(ready[q]) \in Pids
      BY <1>15, IInvTypes, TakeReady DEF IInv, DispatchKilled, FirstNonEmpty
    <2>2. NobodyWakesOrRuns /\ UNCHANGED <<wakeup, sleeping, system_time>>
      BY <1>15, <2>1, ForceExitQuiet DEF DispatchKilled
    <2> QED  BY <1>15, <2>2, QuietStep
  <1>16. CASE Syscall
    BY <1>5, <1>8, <1>9, <1>10, <1>11, <1>12, <1>13, <1>16 DEF Syscall, ReadOther
  <1>17. CASE Dispatch
    BY <1>6, <1>15, <1>17, NoDispatchPanic DEF Dispatch
  <1> QED  BY <1>1, <1>2, <1>3, <1>4, <1>14, <1>16, <1>17 DEF Next, Interrupt

LEMMA InitNobodyOverdue == Init => NobodyOverdue
  <1> SUFFICES ASSUME Init PROVE NobodyOverdue
    OBVIOUS
  <1>1. sleeping = <<>> /\ Len(sleeping) = 0 /\ ToSet(sleeping) = {} /\ system_time = 0
    BY DEF Init, ToSet
  <1> QED  BY <1>1, SizeAssumption DEF NobodyOverdue, Ordered

(* _clk_isr wakes every sleeper at exactly its tick, since _que_enque keeps*)
(* _sleeping in order and its loop stops at the first who is not due; and  *)
(* _dispatch never passes over a ready process of a better priority.       *)
THEOREM SchedulesRightly ==
    ASSUME InitAndIdleSafe, ClockFits
    PROVE  Spec => ScheduledRightly
  <1>1. IInv /\ NobodyOverdue /\ [Next]_vars => NobodyOverdue' /\ Timely
    BY StepTimely
  <1>2. Timely => \A p \in Pids :
          /\ state[p] = "Sleeping" /\ state'[p] = "Ready" => wakeup[p] = system_time
          /\ state[p] = "Ready" /\ state'[p] = "Running"
                => \A r \in Pids : state'[r] = "Ready" => prio[p] <= prio[r]
    BY DEF Timely
  <1> QED  BY Invariance, InitNobodyOverdue, <1>1, <1>2, PTL DEF Spec, ScheduledRightly
=============================================================================
