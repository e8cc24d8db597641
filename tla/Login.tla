-------------------------------- MODULE Login --------------------------------
(***************************************************************************)
(* Logging in over the serial line: init, signIn, testShell and the tests  *)
(* a shell starts (userland/), with readLn and what they need of fopen and *)
(* string functions, on the process calls of the kernel.                   *)
(*                                                                         *)
(* A step is one system call of the running process with what the process  *)
(* does until the next; readLn's read of a character, with its echo, is    *)
(* one step.  The process core is module Kernel; here it is as small as    *)
(* the programs need: ready queues, wait, exit and spawn.  Nobody calls    *)
(* kill().  The slot of idle is not counted, and a process ID is used again*)
(* as soon as its process is gone.                                         *)
(***************************************************************************)
EXTENDS Text

CONSTANTS
    NProcs,      \* N_PROCS without idle
    Shadow,      \* the text of /.shadow
    Typeable,    \* the characters that are typed
    LineSize,    \* the length that signIn passes to readLn
    CommandSize, \* the length that the shell passes to readLn
    NameSize,    \* MAX_UNAME_SIZE
    FieldSize,   \* the size of the buffer for lines of /.shadow
    Exits,       \* the lines that make the shell exit
    Tests,       \* the lines that make it start a test
    MaxAhead     \* bound on the characters in the driver's buffer

Pids      == 1 .. NProcs
InitPid   == 1
EFailure  == -1
ENoProcs  == -8
Prompt    == 36

ASSUME LoginAssumption ==
    /\ NProcs \in Nat /\ NProcs >= 2
    /\ LineSize \in Nat /\ LineSize >= 2 /\ CommandSize \in Nat /\ CommandSize >= 2
    /\ NameSize \in Nat /\ FieldSize \in Nat /\ FieldSize >= 3 /\ MaxAhead \in Nat
    /\ Exits \cap Tests = {}

VARIABLES
    proc,        \* the process table
    cur,         \* _current, or 0 for idle
    ready,       \* the ready queues of init and signIn, and of the others
    readers,     \* _reading
    input,       \* what the driver has received and nobody has read
    shown,       \* the line of the terminal that is typed now
    shellID, logonShell    \* variables of init

loginVars == <<proc, cur, ready, readers, input, shown, shellID, logonShell>>

None == [prog |-> "none", st |-> "unused", parent |-> 0, pc |-> "none", uid |-> 0,
         buf |-> <<>>, pass |-> <<>>, key |-> 0, child |-> 0, whom |-> 0, status |-> 0]

Process(prog, parent, pc, uid) ==
    [prog |-> prog, st |-> "ready", parent |-> parent, pc |-> pc, uid |-> uid,
     buf |-> <<>>, pass |-> <<>>, key |-> 0, child |-> 0, whom |-> 0, status |-> 0]

Alive(p) == proc[p].st # "unused"
Unused   == {p \in Pids : ~Alive(p)}
At(p, pc) == cur = p /\ proc[p].pc = pc

(* The length that readLn is given at pc: room for a line and its NUL.     *)
Length(pc) == IF pc = "command" THEN CommandSize ELSE LineSize

LoginTypes ==
    /\ \A p \in Pids :
          /\ proc[p].prog \in {"none", "init", "signIn", "shell", "test"}
          /\ proc[p].st \in {"unused", "ready", "sleeping", "reading", "waiting", "zombie"}
          /\ proc[p].st \in {"unused", "zombie"} \/ Alive(proc[p].parent)
          /\ Len(proc[p].buf) < Length(proc[p].pc) - 1
    /\ cur \in Pids \cup {0}
    /\ ready \in [1 .. 2 -> Seq(Pids)]
    /\ ToSet(ready[1]) \cup ToSet(ready[2]) = {p \in Pids : proc[p].st = "ready"} \ {cur}
    /\ ToSet(readers) = {p \in Pids : proc[p].st = "reading"}
    /\ Len(input) <= MaxAhead
    /\ shellID \in Pids \cup {0, EFailure, ENoProcs} /\ logonShell \in BOOLEAN

-----------------------------------------------------------------------------
(* The process core.                                                       *)

Prio(prog) == IF prog \in {"init", "signIn"} THEN 1 ELSE 2

(* _schedule: process p of this program joins its queue.                   *)
Queued(queues, p, prog) == [queues EXCEPT ![Prio(prog)] = Append(@, p)]

(* _dispatch                                                               *)
Dispatch(queues) ==
    IF queues[1] # <<>>
    THEN cur' = Head(queues[1]) /\ ready' = [queues EXCEPT ![1] = Tail(@)]
    ELSE IF queues[2] # <<>>
    THEN cur' = Head(queues[2]) /\ ready' = [queues EXCEPT ![2] = Tail(@)]
    ELSE cur' = 0 /\ ready' = queues

(* The clock, when a slice is over.                                        *)
Tick ==
    /\ Dispatch(IF cur = 0 THEN ready ELSE Queued(ready, cur, proc[cur].prog))
    /\ UNCHANGED <<proc, readers, input, shown, shellID, logonShell>>

(* The clock, when a sleeper is due.                                       *)
Wake(p) ==
    /\ proc[p].st = "sleeping"
    /\ proc' = [proc EXCEPT ![p].st = "ready"]
    /\ ready' = Queued(ready, p, proc[p].prog)
    /\ UNCHANGED <<cur, readers, input, shown, shellID, logonShell>>

(* A character comes in: to the first reader, or into the buffer.          *)
Type(c) ==
    /\ IF readers # <<>>
       THEN LET p == Head(readers)
            IN  /\ proc' = [proc EXCEPT ![p].st = "ready", ![p].key = c]
                /\ ready' = Queued(ready, p, proc[p].prog)
                /\ readers' = Tail(readers)
                /\ UNCHANGED input
       ELSE /\ Len(input) < MaxAhead
            /\ input' = Append(input, c)
            /\ UNCHANGED <<proc, ready, readers>>
    /\ UNCHANGED <<cur, shown, shellID, logonShell>>

(* spawn() by p, when there is room: the child inherits the user.          *)
Child == Min(Unused)

Spawned(p, prog, pc) == [proc EXCEPT ![Child] = Process(prog, p, pc, proc[p].uid)]

(* _force_exit of the running process: init inherits its children, a parent*)
(* that waits is told, another one finds a zombie.                         *)
Exit(p, status) ==
    LET heirs  == [q \in Pids |-> IF Alive(q) /\ proc[q].parent = p
                                  THEN [proc[q] EXCEPT !.parent = InitPid] ELSE proc[q]]
        parent == proc[p].parent
    IN  /\ cur = p
        /\ IF proc[parent].st = "waiting"
           THEN /\ proc' = [heirs EXCEPT ![p] = None, ![parent].st = "ready",
                                         ![parent].whom = p, ![parent].status = status,
                                         ![parent].pc = "collected"]
                /\ Dispatch(Queued(ready, parent, proc[parent].prog))
           ELSE /\ proc' = [heirs EXCEPT ![p].st = "zombie", ![p].status = status,
                                         ![p].pc = "exit"]
                /\ Dispatch(ready)
        /\ UNCHANGED <<readers, input, shown, shellID, logonShell>>

(* wait() by p                                                             *)
Wait(p) ==
    LET zombies == {q \in Pids \ {p} : proc[q].st = "zombie" /\ proc[q].parent = p}
    IN  /\ At(p, "wait")
        /\ \/ \E z \in zombies :
                 /\ proc' = [proc EXCEPT ![z] = None, ![p].whom = z, ![p].pc = "collected",
                                         ![p].status = proc[z].status]
                 /\ UNCHANGED <<cur, ready>>
           \/ /\ zombies = {}
              /\ proc' = [proc EXCEPT ![p].st = "waiting"]
              /\ Dispatch(ready)
        /\ UNCHANGED <<readers, input, shown, shellID, logonShell>>

-----------------------------------------------------------------------------
(* init.                                                                   *)

LoginInit ==
    /\ proc = [p \in Pids |-> IF p = InitPid THEN Process("init", InitPid, "start", 0) ELSE None]
    /\ cur = InitPid
    /\ ready = [i \in 1 .. 2 |-> <<>>]
    /\ readers = <<>> /\ input = <<>> /\ shown = <<>>
    /\ shellID = 0 /\ logonShell = TRUE

InitWaits == [proc EXCEPT ![InitPid].pc = "wait", ![InitPid].whom = 0, ![InitPid].status = 0]

(* spawn(signIn); whatever comes back is noted, and init waits again.      *)
SpawnSignIn ==
    IF Unused = {}
    THEN shellID' = ENoProcs /\ proc' = InitWaits /\ UNCHANGED ready
    ELSE /\ shellID' = Child
         /\ proc' = [InitWaits EXCEPT ![Child] = Process("signIn", InitPid, "start", 0)]
         /\ ready' = Queued(ready, Child, "signIn")

InitStarts ==
    /\ At(InitPid, "start")
    /\ SpawnSignIn
    /\ UNCHANGED <<cur, readers, input, shown, logonShell>>

(* Whether the login that init waited for is over, and what init expects of*)
(* the next one.  An error leaves logonShell alone.                        *)
LoginOverQuietly(status) == ~logonShell  \* mutant: an error of signIn goes unnoticed
LoginOver(status)        == status < 0 \/ ~logonShell
LogonKept(status)        == logonShell   \* mutant: after a shell, signIn is taken for one
LogonNext(status)        == IF status < 0 THEN logonShell ELSE TRUE

(* What init makes of a child it has collected: the end of a login starts  *)
(* a new one, the end of signIn names the shell, and another process does  *)
(* not matter.                                                             *)
InitCollected ==
    /\ At(InitPid, "collected")
    /\ LET whom   == proc[InitPid].whom
           status == proc[InitPid].status
       IN  \/ /\ whom = shellID /\ LoginOver(status)
              /\ SpawnSignIn
              /\ logonShell' = LogonNext(status)
           \/ /\ whom = shellID /\ ~LoginOver(status)
              /\ shellID' = status /\ logonShell' = FALSE
              /\ proc' = InitWaits /\ UNCHANGED ready
           \/ /\ whom # shellID
              /\ proc' = InitWaits /\ UNCHANGED <<ready, shellID, logonShell>>
    /\ UNCHANGED <<cur, readers, input, shown>>

-----------------------------------------------------------------------------
(* readLn, of signIn and the shell.                                        *)

Reads(p)  == proc[p].pc \in {"name", "password", "command"}
Echoes(p) == proc[p].pc # "password"

(* The line p has read is complete: p stands at pc with an empty buffer,   *)
(* and prompts.  The password it has compared is not needed any more.      *)
Prompts(record, pc) == [record EXCEPT !.pc = pc, !.buf = <<>>, !.pass = <<>>, !.key = 0]

(* What getShadowLine can find in /.shadow: lines that are not empty, as    *)
(* far as the first in which nothing follows the name.                     *)
ShadowLines ==
    LET lines == SelectSeq(FReadLines(Shadow, FieldSize), LAMBDA line : line # <<>>)
        Bad == {i \in DOMAIN lines : Field(lines[i], NameSize) = lines[i]}
    IN  IF Bad = {} THEN lines ELSE SubSeq(lines, 1, Min(Bad) - 1)

UserIds == 0 .. 2 ^ (WordBits \div 2) - 1       \* uid_t
Unended == <<Colon>>     \* a password that is copied without its NUL

IsNumber(s) == s # <<>> /\ \A i \in DOMAIN s : s[i] \in 48 .. 57

(* The users that a number may stand for, or an error.  Behind a number    *)
(* that fills its buffer str2int goes on with what is there.               *)
IdsOf(number) ==
    LET values == IF Len(number) < NameSize THEN {Str2Int(number, 10)} ELSE Word
    IN  IF IsNumber(number) THEN {IF v \in UserIds THEN v ELSE EFailure : v \in values}
        ELSE {EFailure}

(* What signIn takes from such a line.                                     *)
Entries ==
    [i \in DOMAIN ShadowLines |->
        LET data == Rest(ShadowLines[i], NameSize)
            rest == Rest(data, NameSize)
            pass == StrTrim(Field(rest, NameSize))
        IN  [name |-> Field(ShadowLines[i], NameSize),
             ids  |-> IdsOf(Field(data, NameSize)),
             pass |-> IF Ended(rest, NameSize) THEN pass ELSE Unended,
             none |-> pass = <<>>,
             over |-> Field(data, NameSize) = data]]

(* Where signIn goes on with that user.  A password of blanks is no        *)
(* password, unless the byte before the buffer is a blank.                 *)
GoesTo(entry) ==
    (IF entry.none THEN {"setuid"} ELSE {}) \cup (IF entry.over THEN {} ELSE {"password"})

(* signIn with a name: the next prompt, or the end.  A line of blanks is   *)
(* looked up too, if the byte before the buffer is another blank.          *)
Entered(record, entry, id, pc) ==
    IF id = EFailure THEN [Prompts(record, "exit") EXCEPT !.status = EFailure]
    ELSE [Prompts(record, pc) EXCEPT !.pass = entry.pass, !.uid = id]

Named(record, line) ==
    LET name  == StrLower(StrTrim(line))
        Found == {i \in DOMAIN Entries : SameStart(Entries[i].name, name, NameSize)}
        entry == Entries[Min(Found)]
        OnAs(id) == {Entered(record, entry, id, pc) : pc \in GoesTo(entry)}
    IN  (IF Found = {} \/ name = <<>> THEN {Prompts(record, "name")} ELSE {})
        \cup (IF Found = {} THEN {}
              ELSE UNION {OnAs(id) : id \in entry.ids})

(* Whether a line is the password.  A line that does not fit its buffer is *)
(* written over the password it is compared with.                          *)
Matches(line, pass) ==
    IF Len(line) < NameSize /\ pass # Unended THEN {StrTrim(line) = pass} ELSE BOOLEAN

(* signIn with a password.                                                 *)
Proved(record, line) ==
    {IF right THEN Prompts(record, "setuid") ELSE [Prompts(record, "name") EXCEPT !.uid = 0] :
        right \in Matches(line, record.pass)}

(* testShell with a command line; the commands that change only files are  *)
(* like one that is unknown.                                               *)
Commanded(record, line) ==
    LET command == StrTrim(line)
    IN  {Prompts(record, IF command \in Exits THEN "exit"
                         ELSE IF command \in Tests THEN "test" ELSE "command")}

(* What may become of the process with its line.                           *)
Handled(record, line) ==
    CASE record.pc = "name" -> Named(record, line)
      [] record.pc = "password" -> Proved(record, line)
      [] record.pc = "command" -> Commanded(record, line)

(* The last place is for the NUL.                                          *)
Full(pc, line) == Len(line) = Length(pc) - 1

(* The terminal after "\b \b", which is sent when there is what to erase.  *)
ErasedAlways(line, echo) ==              \* mutant: every backspace is echoed
    IF echo THEN Front(shown) ELSE shown
Erased(line, echo) == IF line # <<>> /\ echo THEN Front(shown) ELSE shown

(* p has read c.                                                           *)
Taken(p, c) ==
    LET line == proc[p].buf
        more == Append(line, c)
    IN  \/ /\ c = LF \/ (c \notin {Backspace, CR, 0} /\ Full(proc[p].pc, more))
           /\ \E next \in Handled(proc[p], IF c = LF THEN line ELSE more) :
                 proc' = [proc EXCEPT ![p] = next]
           /\ shown' = <<Prompt>>
        \/ /\ c = Backspace
           /\ proc' = [proc EXCEPT ![p].key = 0,
                                   ![p].buf = IF line = <<>> THEN line ELSE Front(line)]
           /\ shown' = Erased(line, Echoes(p))
        \/ /\ c \in {CR, 0}
           /\ proc' = [proc EXCEPT ![p].key = 0]
           /\ UNCHANGED shown
        \/ /\ c \notin {LF, Backspace, CR, 0} /\ ~Full(proc[p].pc, more)
           /\ proc' = [proc EXCEPT ![p].key = 0, ![p].buf = more]
           /\ shown' = IF Echoes(p) THEN Append(shown, c) ELSE shown

(* The read of readLn.                                                     *)
ReadLn(p) ==
    /\ cur = p /\ Reads(p)
    /\ \/ /\ proc[p].key # 0
          /\ Taken(p, proc[p].key)
          /\ UNCHANGED <<cur, ready, readers, input>>
       \/ /\ proc[p].key = 0 /\ input # <<>>
          /\ Taken(p, Head(input))
          /\ input' = Tail(input)
          /\ UNCHANGED <<cur, ready, readers>>
       \/ /\ proc[p].key = 0 /\ input = <<>>
          /\ proc' = [proc EXCEPT ![p].st = "reading"]
          /\ readers' = Append(readers, p)
          /\ Dispatch(ready)
          /\ UNCHANGED <<input, shown>>
    /\ UNCHANGED <<shellID, logonShell>>

-----------------------------------------------------------------------------
(* signIn.                                                                 *)

(* sleep(100), and the first prompt after it.                              *)
SignInSleeps(p) ==
    /\ At(p, "start") /\ proc[p].prog = "signIn"
    /\ proc' = [proc EXCEPT ![p].st = "sleeping", ![p].pc = "name"]
    /\ shown' = <<Prompt>>
    /\ Dispatch(ready)
    /\ UNCHANGED <<readers, input, shellID, logonShell>>

(* setuid() and spawn(testShell), whose result is the status of signIn.    *)
SpawnShell(p) ==
    /\ At(p, "setuid")
    /\ IF Unused = {}
       THEN proc' = [proc EXCEPT ![p].pc = "exit", ![p].status = ENoProcs] /\ UNCHANGED ready
       ELSE /\ proc' = [Spawned(p, "shell", "command") EXCEPT ![p].pc = "exit", ![p].status = Child]
            /\ ready' = Queued(ready, Child, "shell")
    /\ shown' = <<Prompt>>
    /\ UNCHANGED <<cur, readers, input, shellID, logonShell>>

Leaves(p) == At(p, "exit") /\ Exit(p, proc[p].status)

-----------------------------------------------------------------------------
(* The shell and its tests.                                                *)

(* The shell starts a test and waits for it.                               *)
SpawnTest(p) ==
    /\ At(p, "test") /\ proc[p].prog = "shell"
    /\ IF Unused = {}
       THEN proc' = [proc EXCEPT ![p].pc = "command"] /\ UNCHANGED ready
       ELSE /\ proc' = [Spawned(p, "test", "run") EXCEPT ![p].pc = "wait", ![p].child = Child]
            /\ ready' = Queued(ready, Child, "test")
    /\ UNCHANGED <<cur, readers, input, shown, shellID, logonShell>>

(* It waits until that test is the one that is collected.                  *)
ShellCollected(p) ==
    /\ At(p, "collected") /\ proc[p].prog = "shell"
    /\ LET cleared == [proc EXCEPT ![p].whom = 0, ![p].status = 0]
       IN  IF proc[p].whom = proc[p].child
           THEN /\ proc' = [cleared EXCEPT ![p].pc = "command", ![p].child = 0]
                /\ shown' = <<Prompt>>
           ELSE proc' = [cleared EXCEPT ![p].pc = "wait"] /\ UNCHANGED shown
    /\ UNCHANGED <<cur, ready, readers, input, shellID, logonShell>>

(* A test may start another one, and does not always wait for it.          *)
Fork(p) ==
    /\ At(p, "run") /\ Unused # {}
    /\ proc' = Spawned(p, "test", "run")
    /\ ready' = Queued(ready, Child, "test")
    /\ UNCHANGED <<cur, readers, input, shown, shellID, logonShell>>

(* Its result is the one that init could mistake for an error of a login.  *)
TestExits(p) == At(p, "run") /\ Exit(p, EFailure)

-----------------------------------------------------------------------------
Program(p) ==
    \/ Wait(p) \/ ReadLn(p) \/ SignInSleeps(p) \/ SpawnShell(p) \/ Leaves(p)
    \/ SpawnTest(p) \/ ShellCollected(p)

Inits  == InitStarts \/ InitCollected \/ Wait(InitPid)
Logins == \E p \in Pids \ {InitPid} : Program(p)

LoginNext ==
    \/ Tick \/ Inits \/ Logins
    \/ \E p \in Pids : Wake(p) \/ Fork(p) \/ TestExits(p)
    \/ \E c \in Typeable : Type(c)

(* The clock and the sleepers go on.  init, and the signIn or shell there  *)
(* is, get the processor for whole slices and so come to their next calls  *)
(* although the clock takes the processor away now and then (SF).  Tests   *)
(* may run for ever, and nobody has to type.                               *)
FairSpec ==
    /\ LoginInit /\ [][LoginNext]_loginVars
    /\ WF_loginVars(Tick) /\ WF_loginVars(\E p \in Pids : Wake(p))
    /\ SF_loginVars(Inits) /\ SF_loginVars(Logins)

-----------------------------------------------------------------------------
(* Logins that go on: a signIn that asks, or a shell that runs.            *)
Sessions == {p \in Pids : proc[p].prog \in {"signIn", "shell"} /\ proc[p].pc # "exit"}

(* There is one login at most, and init knows it: it waits for this signIn,*)
(* or for this shell, whose number signIn has as its result until init has *)
(* collected that.                                                         *)
SessionTracked ==
    LET Signer(q) == shellID = q /\ logonShell
        Result(p, q) == proc[q].prog = "signIn" /\ proc[q].pc = "exit" /\ proc[q].status = p
    IN  /\ Cardinality(Sessions) <= 1
        /\ \A p \in Sessions :
              IF proc[p].prog = "signIn" THEN Signer(p)
              ELSE \/ shellID = p /\ ~logonShell /\ proc[p].parent = InitPid
                   \/ \E q \in Pids : Signer(q) /\ Result(p, q)
                   \/ /\ Signer(proc[InitPid].whom)
                      /\ proc[InitPid].pc = "collected" /\ proc[InitPid].status = p

(* The one login is tracked; queues, states and parents of processes agree,*)
(* and no line is longer than readLn was told.                             *)
LoginConsistent == LoginTypes /\ SessionTracked

(* What the user sees behind the prompt is what the program has: every     *)
(* character that readLn keeps is on the line, every one that backspace    *)
(* takes is gone, and a password is not shown.                             *)
ShownIsKept ==
    \A p \in Sessions :
        /\ proc[p].pc \in {"name", "command"} => shown = <<Prompt>> \o proc[p].buf
        /\ proc[p].pc = "password" => shown = <<Prompt>>

(* When a login has ended there is a new one: a signIn that asks for a     *)
(* name.  Tests that a shell has left behind do not keep it from starting. *)
PromptReturns ==
    Sessions = {} ~> \E p \in Sessions : proc[p].pc = "name" /\ proc[p].st # "sleeping"

-----------------------------------------------------------------------------
(* What the documents say and the code does not do.                        *)

(* The buffers of lines: a password is read into one of NameSize.          *)
Buffer(pc) == IF pc = "password" THEN NameSize ELSE Length(pc)

(* ulibc.c:118: the length that readLn is given is the capacity of the     *)
(* buffer.  readLn writes to the last place before it reads.               *)
LengthIsCapacity == \A p \in Pids : Reads(p) => Length(proc[p].pc) <= Buffer(proc[p].pc)
=============================================================================
