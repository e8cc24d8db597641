------------------------------- MODULE Kernel -------------------------------
(***************************************************************************)
(* The process core of the kernel: process table, ready queues, sleep      *)
(* queue, queue of readers, and the handlers that move processes between   *)
(* them (process.c, scheduler.c, clock.c, sio.c, syscalls.c).              *)
(*                                                                         *)
(* Every handler runs with interrupts off, on one processor, so a handler  *)
(* is one step.  The two loops that run inside handlers, the search of     *)
(* _dispatch and the wakeup loop of _clk_isr, take one step per iteration; *)
(* kmode says which loop the kernel is in, and while it is in one nothing  *)
(* else can move.                                                          *)
(*                                                                         *)
(* A process is known by its PID: PIDs are handed out in increasing order  *)
(* and the bound MaxPid stays below the width of pid_t.                    *)
(***************************************************************************)
EXTENDS Naturals, Sequences, FiniteSets, SequencesExt

CONSTANTS
    MaxPid,      \* bound on the PIDs handed out
    NProcs,      \* N_PROCS, the size of the process table
    NQueues,     \* N_QUEUES, the number of priorities
    Quantum,     \* Q_STD, clock ticks per time slice
    TimeMod,     \* 2^32: _system_time is a uint32_t
    MaxTime,     \* bound on _system_time (TimeMod - 1: no bound, it wraps)
    MaxSleep,    \* bound on the ticks a process asks to sleep
    BufSize,     \* BUF_SIZE of the SIO input buffer
    Statuses,    \* statuses processes exit with
    Protected    \* PIDs that no process passes to kill()

KilledStatus == "Killed"         \* the status _force_exit gets for a kill
NoStatus     == "zero"           \* what _pcb_alloc leaves in exit_status

ASSUME SizeAssumption ==
    /\ MaxPid \in Nat /\ MaxPid >= 2 /\ MaxPid < 32768
    /\ NProcs \in Nat /\ NProcs >= 2
    /\ NQueues \in Nat /\ NQueues >= 1
    /\ Quantum \in Nat /\ Quantum >= 1 /\ Quantum < 256
    /\ TimeMod \in Nat /\ TimeMod >= 2
    /\ MaxTime \in Nat /\ MaxTime < TimeMod
    /\ MaxSleep \in Nat /\ MaxSleep < TimeMod
    /\ BufSize \in Nat
    /\ NoStatus \notin Statuses /\ KilledStatus \notin Statuses

Pids   == 1 .. MaxPid
NoPid  == 0
InitPid == 1                     \* PID_INIT
Idle    == 2                     \* PID_IDLE
Prios  == 0 .. NQueues - 1
System == 0
Deferred == NQueues - 1          \* PRIO_LOWEST

States == {"Unused", "Ready", "Running", "Sleeping", "Waiting", "Blocked",
           "Killed", "Zombie"}

VARIABLES
    state,         \* pcb->state; "Unused" when the PID is not in _ptable
    ppid,          \* pcb->ppid
    prio,          \* pcb->priority
    exit_status,   \* pcb->exit_status
    wakeup,        \* pcb->event.wakeup of a process on _sleeping
    ready,         \* _ready[], one FIFO per priority
    sleeping,      \* _sleeping, ordered by wakeup
    reading,       \* _reading, FIFO
    current,       \* _current, NoPid while _dispatch looks for one
    ticks,         \* _current->ticks
    system_time,   \* _system_time
    next_pid,      \* _next_pid
    active_procs,  \* _active_procs
    incount,       \* _incount, characters in the SIO input buffer
    kmode,         \* "user", or the kernel loop being executed
    halted         \* an assertion or a panic stopped the kernel

procVars  == <<state, ppid, prio, exit_status, wakeup>>
queueVars == <<ready, sleeping, reading>>
cpuVars   == <<current, ticks, kmode, halted>>
miscVars  == <<system_time, next_pid, active_procs, incount>>
vars == <<procVars, queueVars, cpuVars, miscVars>>

TypeOK ==
    /\ state \in [Pids -> States]
    /\ ppid \in [Pids -> Pids \cup {NoPid}]
    /\ prio \in [Pids -> Prios]
    /\ exit_status \in [Pids -> Statuses \cup {NoStatus}]
    /\ wakeup \in [Pids -> 0 .. TimeMod - 1]
    /\ ready \in [Prios -> Seq(Pids)]
    /\ sleeping \in Seq(Pids)
    /\ reading \in Seq(Pids)
    /\ current \in Pids \cup {NoPid}
    /\ ticks \in 0 .. Quantum
    /\ system_time \in 0 .. TimeMod - 1
    /\ next_pid \in 2 .. MaxPid + 1
    /\ active_procs \in 0 .. NProcs
    /\ incount \in 0 .. BufSize
    /\ kmode \in {"user", "clock", "dispatch"}
    /\ halted \in BOOLEAN
    /\ kmode = "user" => ticks >= 1

-----------------------------------------------------------------------------
(* The process table and the pieces the handlers share.                    *)

InTable == {p \in Pids : state[p] # "Unused"}

Children(p) == {c \in InTable : ppid[c] = p}

(* Mutant of Zombies: the scan forgets to compare the parent.              *)
AllZombies(p) == {c \in InTable : state[c] = "Zombie"}

Zombies(p) == {c \in Children(p) : state[c] = "Zombie"}

(* The best priority that has somebody in its queue, as _dispatch scans.   *)
FirstNonEmpty(q) ==
    /\ ready[q] # <<>>
    /\ \A r \in Prios : r < q => ready[r] = <<>>

(* _schedule of a process that is not Killed, onto the ready queues rdy.   *)
PushReady(p, rdy) ==                     \* mutant: added at the head
    /\ state' = [state EXCEPT ![p] = "Ready"]
    /\ ready' = [rdy EXCEPT ![prio[p]] = <<p>> \o @]

MakeReady(p, rdy) ==
    /\ state' = [state EXCEPT ![p] = "Ready"]
    /\ ready' = [rdy EXCEPT ![prio[p]] = Append(@, p)]

(* The parents once the children of v are handed over to init.             *)
HeirsButReady(v) ==                      \* mutant: state > Ready, not >=
    [c \in Pids |-> IF c \in Children(v) /\ state[c] # "Ready"
                    THEN InitPid ELSE ppid[c]]

Heirs(v) == [c \in Pids |-> IF c \in Children(v) THEN InitPid ELSE ppid[c]]

(* _force_exit(victim, status): hand the children over to init, then leave *)
(* a zombie, or give the victim to a waiting parent and clean it up        *)
(* (_pcb_cleanup).  rdy and xst are the ready queues and the exit statuses *)
(* as the caller left them.  Freeing a PCB that was just put on a ready    *)
(* queue, which happens when init is its own waiting parent, is undefined  *)
(* from then on: the model stops there.                                    *)
ForceExit(v, status, rdy, xst) ==
    LET heir   == Heirs(v)
        parent == heir[v]
    IN  \/ /\ state[parent] = "Unused"          \* assert( parent != NULL )
           /\ halted' = TRUE
           /\ ppid' = heir
           /\ ready' = rdy
           /\ exit_status' = xst
           /\ UNCHANGED <<state, prio, active_procs>>
        \/ /\ state[parent] \notin {"Unused", "Waiting"}
           /\ state' = [state EXCEPT ![v] = "Zombie"]
           /\ ppid' = heir
           /\ ready' = rdy
           /\ exit_status' = xst
           /\ UNCHANGED <<prio, active_procs, halted>>
        \/ /\ state[parent] = "Waiting"
           /\ state' = [state EXCEPT ![parent] = "Ready", ![v] = "Unused"]
           /\ ppid' = [heir EXCEPT ![v] = NoPid]
           /\ prio' = [prio EXCEPT ![v] = System]
           /\ ready' = [rdy EXCEPT ![prio[parent]] = Append(@, parent)]
           /\ exit_status' = [xst EXCEPT ![v] = NoStatus]
           /\ active_procs' = active_procs - 1
           /\ halted' = (parent = v)

(* _schedule(pcb): a delayed kill is carried out instead.                  *)
ScheduleAnyway(p) ==                     \* mutant: no test for Killed
    /\ MakeReady(p, ready)
    /\ UNCHANGED <<ppid, prio, exit_status, active_procs, halted>>

Schedule(p) ==
    \/ /\ state[p] = "Killed"
       /\ ForceExit(p, KilledStatus, ready, exit_status)
    \/ /\ state[p] # "Killed"
       /\ MakeReady(p, ready)
       /\ UNCHANGED <<ppid, prio, exit_status, active_procs, halted>>

(* A call of _dispatch: nobody is current until its loop finds somebody.   *)
CallDispatch ==
    /\ current' = NoPid
    /\ ticks' = 0
    /\ kmode' = "dispatch"

-----------------------------------------------------------------------------
(* System initialisation: init, its own parent, is dispatched first.       *)
Init ==
    /\ state = [p \in Pids |-> IF p = InitPid THEN "Running" ELSE "Unused"]
    /\ ppid = [p \in Pids |-> IF p = InitPid THEN InitPid ELSE NoPid]
    /\ prio = [p \in Pids |-> System]
    /\ exit_status = [p \in Pids |-> NoStatus]
    /\ wakeup = [p \in Pids |-> 0]
    /\ ready = [q \in Prios |-> <<>>]
    /\ sleeping = <<>>
    /\ reading = <<>>
    /\ current = InitPid
    /\ ticks = Quantum
    /\ system_time = 0
    /\ next_pid = 2
    /\ active_procs = 1
    /\ incount = 0
    /\ kmode = "user"
    /\ halted = FALSE

(* A user process executes: the kernel is in no loop.                      *)
User == ~halted /\ kmode = "user"

(* Any program but those of init, which only spawns and waits, and idle,   *)
(* which makes no call that changes this state.                            *)
AnyProgram == User /\ current # InitPid  \* mutant: idle makes calls too

Program == User /\ current \notin {InitPid, Idle}

(* _sys_exit                                                               *)
Exit(status) ==
    /\ Program
    /\ ForceExit(current, status, ready, [exit_status EXCEPT ![current] = status])
    /\ CallDispatch
    /\ UNCHANGED <<wakeup, sleeping, reading, system_time, next_pid, incount>>

(* _sys_kill of a victim the caller may kill; kill(0) is kill of oneself.  *)
(* The calls that only return an error change nothing.                     *)
KillMarks(v) ==                          \* mutant: Waiting falls through too
    /\ Program
    /\ v \notin Protected
    /\ state[v] \in {"Ready", "Blocked", "Sleeping", "Waiting"}
    /\ state' = [state EXCEPT ![v] = "Killed"]
    /\ UNCHANGED <<ppid, prio, exit_status, wakeup, queueVars, cpuVars, miscVars>>

KillQueued(v) ==
    /\ Program
    /\ v \notin Protected
    /\ state[v] \in {"Ready", "Blocked", "Sleeping"}
    /\ state' = [state EXCEPT ![v] = "Killed"]
    /\ UNCHANGED <<ppid, prio, exit_status, wakeup, queueVars, cpuVars, miscVars>>

KillSelf ==
    /\ Program
    /\ ForceExit(current, KilledStatus, ready, exit_status)
    /\ CallDispatch
    /\ UNCHANGED <<wakeup, sleeping, reading, system_time, next_pid, incount>>

KillWaiting(v) ==
    /\ Program
    /\ v \notin Protected
    /\ state[v] = "Waiting"
    /\ ForceExit(v, KilledStatus, ready, exit_status)
    /\ UNCHANGED <<wakeup, sleeping, reading, current, ticks, kmode,
                   system_time, next_pid, incount>>

(* _sys_sleep: sleep(0) yields; otherwise the process goes behind every    *)
(* sleeper that wakes no later (_que_enque on an ordered queue).           *)
Yield ==
    /\ Program
    /\ MakeReady(current, ready)
    /\ CallDispatch
    /\ UNCHANGED <<ppid, prio, exit_status, wakeup, sleeping, reading, halted,
                   miscVars>>

AtTheEnd(s, key, i) == i = Len(s) + 1    \* mutant: an unordered queue

Position(s, key, i) ==
    /\ \A j \in 1 .. i - 1 : wakeup[s[j]] <= key
    /\ i <= Len(s) => wakeup[s[i]] > key

Sleep(n) ==
    LET due == (system_time + n) % TimeMod
    IN  /\ Program
        /\ state' = [state EXCEPT ![current] = "Sleeping"]
        /\ wakeup' = [wakeup EXCEPT ![current] = due]
        /\ \E i \in 1 .. Len(sleeping) + 1 :
              /\ Position(sleeping, due, i)
              /\ sleeping' = InsertAt(sleeping, i, current)
        /\ CallDispatch
        /\ UNCHANGED <<ppid, prio, exit_status, ready, reading, halted, miscVars>>

RoomForOne == active_procs < NProcs

(* _sys_spawn.  The first process init spawns is idle, at PRIO_LOWEST.     *)
Spawn(pr) ==
    LET child == next_pid
    IN  /\ User /\ current # Idle
        /\ child <= MaxPid
        /\ child = Idle => pr = Deferred
        /\ RoomForOne
        /\ next_pid' = next_pid + 1
        /\ state' = [state EXCEPT ![child] = "Ready"]
        /\ ppid' = [ppid EXCEPT ![child] = current]
        /\ prio' = [prio EXCEPT ![child] = pr]
        /\ ready' = [ready EXCEPT ![pr] = Append(@, child)]
        /\ active_procs' = active_procs + 1
        /\ halted' = (Cardinality(InTable) >= NProcs)   \* assert( i < N_PROCS )
        /\ UNCHANGED <<exit_status, wakeup, sleeping, reading, current, ticks,
                       kmode, system_time, incount>>

(* _sys_spawn when _proc_create finds no memory: the PID is used up.       *)
SpawnFailsCounted ==                     \* mutant: counted before the failure
    /\ User /\ current # Idle
    /\ next_pid \in Idle + 1 .. MaxPid
    /\ RoomForOne
    /\ next_pid' = next_pid + 1
    /\ active_procs' = active_procs + 1
    /\ UNCHANGED <<procVars, queueVars, cpuVars, system_time, incount>>

SpawnFails ==
    /\ User /\ current # Idle
    /\ next_pid \in Idle + 1 .. MaxPid
    /\ RoomForOne
    /\ next_pid' = next_pid + 1
    /\ UNCHANGED <<procVars, queueVars, cpuVars, system_time, active_procs, incount>>

(* _sys_wait: init calls it once idle exists.                              *)
Waiter == User /\ current # Idle /\ (current = InitPid => next_pid > Idle)

WaitCollects(z) ==
    /\ Waiter
    /\ z \in Zombies(current)
    /\ state' = [state EXCEPT ![z] = "Unused"]
    /\ ppid' = [ppid EXCEPT ![z] = NoPid]
    /\ prio' = [prio EXCEPT ![z] = System]
    /\ exit_status' = [exit_status EXCEPT ![z] = NoStatus]
    /\ active_procs' = active_procs - 1
    /\ UNCHANGED <<wakeup, queueVars, cpuVars, system_time, next_pid, incount>>

WaitAnyway ==                            \* mutant: zombies are not looked for
    /\ Waiter
    /\ Children(current) # {}
    /\ state' = [state EXCEPT ![current] = "Waiting"]
    /\ CallDispatch
    /\ UNCHANGED <<ppid, prio, exit_status, wakeup, queueVars, halted, miscVars>>

WaitBlocks ==
    /\ Waiter
    /\ Children(current) # {}
    /\ Zombies(current) = {}
    /\ state' = [state EXCEPT ![current] = "Waiting"]
    /\ CallDispatch
    /\ UNCHANGED <<ppid, prio, exit_status, wakeup, queueVars, halted, miscVars>>

(* _sys_setprio                                                            *)
SetPrio(pr) ==
    /\ Program
    /\ prio' = [prio EXCEPT ![current] = pr]
    /\ UNCHANGED <<state, ppid, exit_status, wakeup, queueVars, cpuVars, miscVars>>

(* _sys_read.  A read that got nothing, from whatever channel, waits on    *)
(* the queue of SIO readers.                                               *)
BlockReader ==
    /\ state' = [state EXCEPT ![current] = "Blocked"]
    /\ reading' = Append(reading, current)
    /\ CallDispatch
    /\ UNCHANGED <<ppid, prio, exit_status, wakeup, ready, sleeping, halted, miscVars>>

(* On CHAN_SIO, _sio_reads returns what the buffer holds, up to length.    *)
ReadSio(length) ==
    /\ Program
    /\ \/ /\ incount > 0 /\ length > 0
          /\ incount' = IF length < incount THEN incount - length ELSE 0
          /\ UNCHANGED <<procVars, queueVars, cpuVars, system_time, next_pid,
                         active_procs>>
       \/ /\ incount = 0 \/ length = 0
          /\ BlockReader

(* On the console or a file, a result that is neither positive nor E_EOF.  *)
ReadOther == Program /\ BlockReader

-----------------------------------------------------------------------------
(* Interrupts.                                                             *)

(* _sio_isr, a received character: the first reader gets it, or the        *)
(* buffer if there is room, or nobody.                                     *)
SioReceive ==
    /\ User
    /\ \/ /\ reading # <<>>
          /\ reading' = Tail(reading)
          /\ Schedule(Head(reading))
          /\ incount' = incount
       \/ /\ reading = <<>>
          /\ incount' = IF incount < BufSize THEN incount + 1 ELSE incount
          /\ UNCHANGED <<state, ppid, prio, exit_status, ready, reading, halted,
                         active_procs>>
    /\ UNCHANGED <<wakeup, sleeping, current, ticks, kmode, system_time, next_pid>>

(* _clk_isr: time goes on, sleepers that are due are scheduled one by one, *)
(* then the running process pays a tick and loses the processor with its   *)
(* last one.                                                               *)
ClockTick ==
    /\ User
    /\ system_time < MaxTime \/ MaxTime = TimeMod - 1
    /\ system_time' = (system_time + 1) % TimeMod
    /\ kmode' = "clock"
    /\ UNCHANGED <<procVars, queueVars, current, ticks, halted, next_pid,
                   active_procs, incount>>

PastDue ==                               \* mutant: < for <=
    sleeping # <<>> /\ wakeup[Head(sleeping)] < system_time

Due == sleeping # <<>> /\ wakeup[Head(sleeping)] <= system_time

ClockWake ==
    /\ ~halted /\ kmode = "clock"
    /\ Due
    /\ sleeping' = Tail(sleeping)
    /\ wakeup' = [wakeup EXCEPT ![Head(sleeping)] = 0]
    /\ Schedule(Head(sleeping))
    /\ UNCHANGED <<reading, current, ticks, kmode, system_time, next_pid, incount>>

SliceOverLate == ticks < 1               \* mutant: off by one

SliceOver == ticks <= 1                  \* --ticks < 1

ClockEnd ==
    /\ ~halted /\ kmode = "clock"
    /\ ~Due
    /\ \/ /\ ~SliceOver
          /\ ticks' = IF ticks = 0 THEN 255 ELSE ticks - 1   \* a uint8_t
          /\ kmode' = "user"
          /\ UNCHANGED <<state, ready, current>>
       \/ /\ SliceOver
          /\ MakeReady(current, ready)
          /\ CallDispatch
    /\ UNCHANGED <<ppid, prio, exit_status, wakeup, sleeping, reading, halted,
                   miscVars>>

(* _dispatch: take the first process of the best non-empty queue.          *)
DispatchReady(q) ==
    LET p == Head(ready[q])
    IN  /\ FirstNonEmpty(q)
        /\ state[p] = "Ready"
        /\ state' = [state EXCEPT ![p] = "Running"]
        /\ ready' = [ready EXCEPT ![q] = Tail(@)]
        /\ current' = p
        /\ ticks' = Quantum
        /\ kmode' = "user"
        /\ UNCHANGED <<ppid, prio, exit_status, wakeup, sleeping, reading, halted,
                       miscVars>>

DispatchKilled(q) ==
    LET p == Head(ready[q])
    IN  /\ FirstNonEmpty(q)
        /\ state[p] = "Killed"
        /\ ForceExit(p, KilledStatus, [ready EXCEPT ![q] = Tail(@)], exit_status)
        /\ UNCHANGED <<wakeup, sleeping, reading, current, ticks, kmode,
                       system_time, next_pid, incount>>

(* assert( n < N_QUEUES ), and the panic on a state that cannot be.        *)
DispatchPanics ==
    /\ \/ \A q \in Prios : ready[q] = <<>>
       \/ \E q \in Prios : /\ FirstNonEmpty(q)
                           /\ state[Head(ready[q])] \notin {"Ready", "Killed"}
    /\ halted' = TRUE
    /\ UNCHANGED <<procVars, queueVars, current, ticks, kmode, miscVars>>

-----------------------------------------------------------------------------
Syscall ==
    \/ \E s \in Statuses : Exit(s)
    \/ \E v \in Pids : KillQueued(v) \/ KillWaiting(v)
    \/ KillSelf
    \/ Yield
    \/ \E n \in 1 .. MaxSleep : Sleep(n)
    \/ \E pr \in Prios : Spawn(pr) \/ SetPrio(pr)
    \/ SpawnFails
    \/ \E z \in Pids : WaitCollects(z)
    \/ WaitBlocks
    \/ \E length \in 0 .. BufSize : ReadSio(length)
    \/ ReadOther

Dispatch ==
    /\ ~halted /\ kmode = "dispatch"
    /\ \/ \E q \in Prios : DispatchReady(q) \/ DispatchKilled(q)
       \/ DispatchPanics

Interrupt == SioReceive \/ ClockTick

Next == Syscall \/ Interrupt \/ ClockWake \/ ClockEnd \/ Dispatch

Spec == Init /\ [][Next]_vars

(* Fairness.  The kernel's loops run with interrupts off until they end.   *)
(* The timer keeps ticking, and the interrupt controller holds a tick back *)
(* while interrupts are off, so a tick is not lost to a busy kernel.       *)
(* init's loop calls wait() again whenever it runs.                        *)
InitWaits == current = InitPid /\ (WaitBlocks \/ \E z \in Pids : WaitCollects(z))

Fairness ==
    /\ WF_vars(Dispatch)
    /\ WF_vars(ClockWake)
    /\ WF_vars(ClockEnd)
    /\ SF_vars(ClockTick)
    /\ SF_vars(InitWaits)

FairSpec == Spec /\ Fairness

-----------------------------------------------------------------------------
(* Safety.                                                                 *)

(* The state of a process and the queues agree: a process is on the queue  *)
(* its state names, once, a Killed one is still on exactly one queue (it   *)
(* is carried out when it comes off), and any other on none.  kill() marks *)
(* processes without touching queues; _dispatch panics on the rest.        *)
QueuesMatchStates ==
    /\ \A q \in Prios :
          /\ IsInjective(ready[q])
          /\ \A p \in ToSet(ready[q]) :
                state[p] \in {"Ready", "Killed"} /\ prio[p] = q
          /\ ToSet(ready[q]) \cap (ToSet(sleeping) \cup ToSet(reading)) = {}
    /\ IsInjective(sleeping) /\ IsInjective(reading)
    /\ ToSet(sleeping) \cap ToSet(reading) = {}
    /\ \A p \in ToSet(sleeping) : state[p] \in {"Sleeping", "Killed"}
    /\ \A p \in ToSet(reading) : state[p] \in {"Blocked", "Killed"}
    /\ \A p \in Pids :
          /\ state[p] = "Ready" => p \in ToSet(ready[prio[p]])
          /\ state[p] = "Sleeping" => p \in ToSet(sleeping)
          /\ state[p] = "Blocked" => p \in ToSet(reading)
          /\ state[p] = "Killed" =>
                p \in ToSet(ready[prio[p]]) \cup ToSet(sleeping) \cup ToSet(reading)
          /\ state[p] = "Running" <=> p = current

(* The processes form a tree with init at its root: every process has a    *)
(* parent in the table that is not dead, so that _force_exit finds one,    *)
(* and that is older.  Reparenting leaves nobody behind.                   *)
FamilyTree ==
    /\ \A p \in InTable : ppid[p] \in InTable /\ state[ppid[p]] # "Zombie"
    /\ \A p \in InTable \ {InitPid} : ppid[p] < p

(* init is never stopped and idle is always there to be dispatched, which  *)
(* is what _dispatch counts on; until idle exists, init itself is.         *)
SomebodyToRun ==
    /\ state[InitPid] \in {"Ready", "Running", "Waiting"}
    /\ ppid[InitPid] = InitPid
    /\ IF next_pid > Idle THEN state[Idle] \in {"Ready", "Running"}
                          ELSE state[InitPid] # "Waiting"
    /\ \A p \in Pids : p >= next_pid => state[p] = "Unused"
    /\ current = NoPid <=> kmode = "dispatch"

(* Whoever sleeps in wait() has a child to wait for and no zombie it       *)
(* missed.  init is excepted: it inherits zombies while it waits.          *)
NoLostWakeup ==
    \A p \in Pids \ {InitPid} :
       state[p] = "Waiting" => Children(p) # {} /\ Zombies(p) = {}

(* _active_procs counts the processes in _ptable.                          *)
ProcsCounted == active_procs = Cardinality(InTable)

(* No assertion or panic of the kernel fires, as long as nobody kills init *)
(* or idle: there is always somebody to dispatch, every exiting process    *)
(* has a parent, and spawn finds a slot.                                   *)
NoPanic == ~halted

-----------------------------------------------------------------------------
(* What a step may never do.                                               *)

(* kill() is final: a process marked Killed never runs again, and leaves   *)
(* its queue only to become a zombie or to be cleaned up.                  *)
KilledIsFinal ==
    [][\A p \in Pids :
          /\ state[p] = "Killed" => state'[p] \in {"Killed", "Zombie", "Unused"}
          /\ state[p] = "Zombie" => state'[p] \in {"Zombie", "Unused"}]_vars

(* A sleeper becomes ready at exactly the tick it asked for, neither late  *)
(* nor early: the clock looks only at the head of _sleeping, so this needs *)
(* the order kept by _que_enque.  And whoever gets the processor, nobody   *)
(* left ready has a better priority.  It holds until _system_time wraps.   *)
ScheduledRightly ==
    [][\A p \in Pids :
          /\ state[p] = "Sleeping" /\ state'[p] = "Ready" => wakeup[p] = system_time
          /\ state[p] = "Ready" /\ state'[p] = "Running"
                => \A r \in Pids : state'[r] = "Ready" => prio[p] <= prio[r]]_vars

(* A process leaves the table only when its parent is told: the parent was *)
(* blocked in wait() and is ready again, or it is running in wait().       *)
ReapedByParent ==
    [][\A p \in Pids : state[p] # "Unused" /\ state'[p] = "Unused"
          => \/ state[ppid[p]] = "Waiting" /\ state'[ppid[p]] = "Ready"
             \/ state[p] = "Zombie" /\ current = ppid[p] /\ kmode = "user"]_vars

-----------------------------------------------------------------------------
(* Liveness.                                                               *)

(* Nobody ready at the best priority waits forever.                        *)
TopRuns ==
    \A p \in Pids : state[p] = "Ready" /\ prio[p] = System ~> state[p] # "Ready"

(* Everybody leaves the sleep queue, killed or not, though time wraps.     *)
SleepersWake == \A p \in Pids : p \in ToSet(sleeping) ~> p \notin ToSet(sleeping)

(* init collects a dead child it has when it is not blocked in wait().     *)
InitCollects ==
    \A p \in Pids :
       state[p] = "Zombie" /\ ppid[p] = InitPid /\ state[InitPid] # "Waiting"
          ~> state[p] = "Unused"

-----------------------------------------------------------------------------
(* What comments of the code say and the code does not do.                 *)

(* syscalls.c:1555: reparented children are collected by init when they    *)
(* terminate.                                                              *)
OrphansCollected ==
    \A p \in Pids :
       state[p] = "Zombie" /\ ppid[p] = InitPid ~> state[p] = "Unused"

(* scheduler.c:122: _dispatch finds somebody, if nothing else the idle     *)
(* process on the Deferred queue.                                          *)
DispatchFinds == kmode = "dispatch" => \E q \in Prios : ready[q] # <<>>

(* _force_exit's status is the termination status for the process: the     *)
(* zombie of a killed process holds it for its parent.                     *)
KilledZombieSaysSo ==
    [][\A p \in Pids : state[p] = "Killed" /\ state'[p] = "Zombie"
          => exit_status'[p] = KilledStatus]_vars
=============================================================================
