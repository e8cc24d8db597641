# A verification of Systems-Project: processes, memory, serial line, console, files, disks and login

The repository is a small operating system for one x86 processor, written for a
course: processes with four priorities, a 1 kHz clock, a serial terminal, a page
allocator, IDE disks and a file system of its own. This directory holds TLA+ models of its
logic, the TLC runs that check them, and proofs that TLAPS checks.
Paths below are relative to `src/src/`.

## 1. Inventory

Everything runs on one processor. System calls and interrupts enter through
`isr_stubs.S` with interrupts off and leave through the same stub, which resumes
whatever process `_current` then names. A handler is therefore never interrupted:
what interleaves is whole handlers, in every order, and a handler may end in a
different process than it began in.

| Part | State | Operations | Must hold |
|---|---|---|---|
| Process table (`process.c`) | `_ptable`, `_next_pid`, `_active_procs`, the PCB fields `state`, `ppid`, `priority`, `exit_status` | create, find, clean up | every process has a parent; the count is right |
| Scheduler (`scheduler.c`) | `_ready[]`, `_current`, `ticks` | `_schedule`, `_dispatch` | states and queues agree; somebody can always run; best priority first |
| Clock (`clock.c`) | `_system_time`, `_sleeping` | `_clk_isr` | sleepers wake at their tick, slices end |
| Process calls (`syscalls.c`) | - | exit, kill, sleep, spawn, wait, setprio, read, `_force_exit` | no lost wakeup, no zombie without a parent, kills are final |
| Serial line (`sio.c`) | input and output buffer, `_sending`, `_ier`, `_reading` | `_sio_isr`, `_sio_reads`, `_sio_write` | nothing lost, doubled or reordered; output is sent |
| Memory (`kmem.c`) | `_free_pages`, `_free_slices` | page and slice, alloc and free | nothing lost or given twice; free neighbours joined |
| Queues (`queues.c`) | doubly linked nodes, free nodes | enque, deque, peek | order kept; nodes not lost |
| Stacks (`stacks.c`) | free stacks | alloc, free | as for memory, one owner each |
| File system (`kfs.c`) | inodes, block map, blocks on the device; two shared buffers | read, append, allocate, free, directory entries | references counted, blocks owned once, files keep their text |
| File calls (`syscalls.c`, `users.c`) | open files and directory of a process, uid and gid | fopen ... setDir, setuid, setgid | permissions, no entry without an inode |
| RAM disk (`ramDiskDriver.c`) | blocks in memory | read and write a block | - |
| IDE driver, PCI (`disk.c`, `pci.c`) | table of drives, the iterator over the bus | find, identify, read, write, poll, flush | the right block; the right file system; never stuck |
| Console (`cio.c`) | screen, cursor, delayed scrolling, keyboard ring | output, keyboard interrupt, polling reads | the screen shows the text; keys in order, once |
| Libraries (`klibc.c`, `ulibc.c`) | - | numbers, padding, trimming, lines | what is printed can be read back |
| User programs (`userland/`) | `shellID`, `logonShell`, line buffers | `init`, `idle`, sign-in, shell, tests | init collects its children; one login at a time, and always another |
| Host tools (`MakeFSImage.c`, `AddFile.c`, ...) | the image | build it | an image the file system can work on |

How they interact: system calls move the current process to `_sleeping`, to
`_reading`, or to a state without a queue (Waiting, Zombie) and call `_dispatch`;
the clock and the serial interrupt take processes off those queues and call
`_schedule`. `kill()` only marks a process that is on a queue; whoever takes it off
carries the kill out through `_force_exit`, which hands children to `init` and may
wake a parent. `sio.c` and `_sys_read` share `_reading` and the input buffer.
Process creation takes memory from slices (PCBs, queue nodes) and pages (stacks). The
file system reads and writes blocks through a table of drivers, the RAM disk first.
`init`, sign-in and shell know each other only through exit statuses.

What is hard: delayed kills met at three different places; a parent that waits,
dies or is killed while its children die; the assertion in `_dispatch` that some
queue is never empty; the transmitter that stops and restarts itself; ring pointers
beside counters; counters that wrap; multi-step file operations that fail half way; descriptors of files that are
gone; a drive that is busy or fails while the driver polls; logins that end while
older processes still run.
`PROJECT.json` lists these as hazards, each at its line.

## 2. Modules

| Module | What it is |
|---|---|
| `Kernel.tla` | process table, scheduler, clock, process system calls, and the queue of serial readers |
| `QueueLemmas.tla` | shared lemmas: queues and their members, lists that are spliced or shortened, steps around a ring, a least element |
| `KernelProofs.tla`, `KmemProofs.tla`, `PoolsProofs.tla`, `DirsProofs.tla`, `FilesProofs.tla` | for the module each extends: the inductive invariant, the lemmas and the theorems (section 4) |
| `DriverProofs.tla`, `TerminalProofs.tla` | the same for `Sio` and `Disk`, and for `Console` and `Login` |
| `KeyedQueues.tla` | abstract: queues of processes, by arrival or by key |
| `Pools.tla` | free lists of nodes, PCBs and stacks over memory, and linked queues; implements `KeyedQueues` |
| `SerialLine.tla` | abstract: what a serial line promises its users |
| `Sio.tla` | the driver with its buffers, pointers and flags; implements `SerialLine` |
| `Kmem.tla`, `MCKmem.tla` | memory map, page and slice allocator, and a map for model checking |
| `Dirs.tla`, `MCDirs.tla` | directories, reference counts, owners and permissions, and users and groups for its runs |
| `FileStore.tla` | abstract: files are texts that grow at their end |
| `Files.tla`, `MCFiles.tla` | block map, pointers, open files, read and write; implements `FileStore` |
| `Disk.tla`, `MCDisk.tla` | PCI scan, IDE driver, registration of file systems, beside a drive that may fail |
| `Text.tla` | the string and number functions of both libraries, as operators |
| `TypeAhead.tla` | abstract: keys typed ahead are a bounded queue |
| `Console.tla`, `MCConsole.tla` | screen and keyboard; implements `TypeAhead`, EXTENDS `Text` |
| `Login.tla`, `MCLogin.tla` | init, sign-in, shell and tests on a small process core; EXTENDS `Text` |

Each composes with its neighbours at the calls the code makes: `Pools` implements the
sequences that `Kernel` uses as queues; `Disk` justifies that `Files` sees no errors;
`Dirs` and `Files` share the inode, one with its names and one with its blocks;
`Login` is a client of what `Kernel` and `Sio` provide, and repeats of them only what it needs.

Operators marked *mutant* in a comment are wrong versions of the definition below
them. The specifications do not use them; putting one in the place of the right
definition must break a property, which shows that the property depends on the code.

### Kernel

A process is its PID; `state[p] = "Unused"` means that it is not in `_ptable`.
Which slot of the table a process has is not in the model: `wait()` may collect any
zombie, not only the one in the first slot.

One handler is one action, with two exceptions. The loops inside `_dispatch` and
`_clk_isr` take a step per iteration, because each iteration may carry out a delayed
kill, which may wake a parent. `kmode` says which loop the kernel is in (`clock`,
`dispatch`, or `user` for none); nothing else can move meanwhile, so the split adds
no behaviour.

| Action | Code |
|---|---|
| `Exit`, `KillQueued`, `KillSelf`, `KillWaiting`, `Yield`, `Sleep`, `Spawn`, `SpawnFails`, `WaitCollects`, `WaitBlocks`, `SetPrio`, `ReadSio`, `ReadOther` | the system calls in `syscalls.c` |
| `ForceExit`, `Schedule`, `MakeReady` | `_force_exit`, `_schedule` |
| `SioReceive` | the receive case of `_sio_isr` |
| `ClockTick`, `ClockWake`, `ClockEnd` | `_clk_isr`: time, the wakeup loop, the time slice |
| `DispatchReady`, `DispatchKilled`, `DispatchPanics` | one iteration of `_dispatch` |

Choices a reader should know:

* Calls that only return a value or an error change nothing and have no action.
  Permission checks of `kill()` are left out: any process may kill any PID that is
  not in `Protected`. That is more than the code allows, so what holds here holds
  there.
* `init` spawns and waits, and its first child is `idle`, at the lowest priority
  (`userland/init.c`). `idle` makes no call that changes this state
  (`userland/idle.c`). Every other process makes any call at any time.
* `init` is its own parent (`kernel.c`). If somebody kills it while it waits,
  `_force_exit` frees the PCB it has just put on a ready queue. What follows is
  undefined, and the model stops there.
* `_sys_sleep` has an error path for a queue without nodes. It cannot be taken,
  since `_km_slice_alloc` panics first, and is not modelled.
* PIDs do not wrap: `MaxPid` is below the width of `pid_t`.
* `SpawnFails` is `_proc_create` finding no stack. A PID is used up.

### Sio and SerialLine

Pointers are offsets. `_inlast` never wraps and `_innext` wraps one character late
(`>` for `>=`), and `_sio_writec` does not wrap `_outlast`. The model keeps this: the
cells from `BufSize` on stand for the memory behind the buffers. The actions are
`Receive` and `Transmit` (the two cases of `_sio_isr` that change state), `Read`
(`_sio_reads` and the blocking in `_sys_read`), `Write` (`_sio_write`), and
`Shifted`, in which the UART has finished a character. Interrupt handlers and system calls
exclude each other, so each is one step. Writes have at least one character.

`SerialLine` knows neither pointers nor flags: `typed` and `pending` are sequences.
`Sio!ImplementsLine` maps them to the window of each ring between its two pointers.
A readers' queue is not part of the promise: a key reaches a waiting reader only if
nothing typed before is still unread.

### Kmem

An address is a page number and a block is its start and length. Both free lists are sequences, as
in the code; `held`, `carved` and `taken` are what clients have, so that the
properties can say where every page is. `boot` holds the regions of the memory map that `_km_init` has not
reached yet; regions come in any order. `Passed` and `Clipped` are how it filters them and cuts
them at the end of the system, at 4 GB and to whole pages; `Memory` says independently which pages
there are to give. Usable regions start at a page, as the BIOS reports them.
A failed assertion in `_carve_slices` ends the system (`panicked`), so this run
does not check for deadlock.

### Dirs

`node` is the device: an inode is its type, reference count, owner, group, permission
bits and the list of its entries. Helpers take the device as an argument, because
`_sys_fcreate` and `_sys_fmove` write it several times in one call: `Added`
(`_fs_addDirEnt`), `Removed` (`_fs_rmDirEnt`, which writes a copy of the directory that is
older than its write of the child), `Freed` (`_fs_freeNode`). A path may lead to any
inode that entries reach from the root or the working directory, since `_sys_seekFile` tests no
permission. A system call runs to its end with interrupts off and is one step;
calls that fail before their first write are left out. A free inode is not written back: its
device number is 0. `Reachable` is the least set of inodes closed under entries, written as an
intersection of all that are. Not here: contents of files, open files (`Files`) and a failing device.

`Names` are what programs pass, and `..` may be among them: `_sys_fremove` and `_sys_fmove` look it
up like any name. That an entry `..` is never counted as a reference makes this fatal, so the
properties of the tree hold only for programs that do not do it (`UpIsNotNamed`, a hypothesis of the
theorems and true of run `dirs`); `Dirs_up.cfg` has a program that does. The properties also
take it that nothing but these calls writes an inode that is a directory; `Files_dirs.cfg` shows
the one way in which something does.

### Files and FileStore

`node` is what an inode says of its contents: length, count of blocks, pointers.
`used` is the block map and `data` the blocks; block 0 is the first of the device, where
a pointer of 0 leads. `files` are the descriptors. Every system call is one step, so the two
shared buffers of `kfs.c` need not outlive a step.

| Action | Code |
|---|---|
| `FOpen`, `FClose`, `Replace` | `_sys_fopen`, `_sys_fclose`, and a new process in the place of one that exits without closing |
| `FCreate`, `FRemove` | the parts of `_sys_fcreate` and `_sys_fremove` (last name) that concern contents: a file or directory begins with `nBytes` 1 and no block; of a directory no block is freed, and one with more than `..` stays |
| `Refuse` | a call that fails before it has written anything |
| `Read`, `SioReceive` | `_sys_read`, `_fs_read`; a read that copies nothing but is not at the end puts the process on the queue of SIO readers |
| `Write` | `_sys_write`, `_fs_write`: what fits, the blocks for it, and the inode saved only if all was written to a file that still exists |
| `MadeImage`, `AddFile`, `ImageOf` | the image tools, file after file, which give `Init`; what they are given fits (`ImageAssumption`) |

`Fitting`, `Extended` and `Stored` are the loop of `_fs_write`: how far it gets, what it does to
pointers, and what it does to blocks. The early returns are the cases in which
`written # s`: the end of the last pointer, no free block. Permissions are only those
of a cleared inode (root may still write it), since `Dirs` has the others.

Directories (`dirs`) are here for one reason: `fopen` refuses them, but a descriptor of a file that
was removed may lead to the directory that got its inode, and neither `_fs_read` nor `_fs_write`
looks at the type. What such a write does to the entry `..`, which lies where the pointers are, is seen as
a directory with bytes and blocks, which can never be removed again. Entries beside `..` are in
`Dirs` only. Files on the image are not empty: `AddFile` gives an empty one a block and no byte, and
then `_fs_write` uses an entry it has not read.

`FileStore` has one sequence of bytes for each file. It allows what the code does at its
edges: the first byte is nobody's choice, and a text that would fill its file to the last
byte may be lost although it is reported as written.

### Disk

The driver runs with interrupts off, but the drive works on its own, so that commands, polls,
transfers and `DriveDone` are steps of their own. `drive` is what its registers show: busy
(`doing`), DRQ, an error, the address. It may fail whatever it does, and a
command to a busy drive is lost. `Scan` is one step of the iterator in `pci.c` with
its quirks: `func` is a byte that starts at 0 and is 255 before the first function of
later devices, and `device` is not reset between buses. `Identify` and `RegisterDev` are
`_disk_ide_initialize` and `_fs_registerDev`; both share `buffer`, the inode buffer of
`kfs.c`, which a failed read leaves as it was. `Status` keeps the code's error
numbers as the bytes they are stored in. The values a drive reports when it identifies
itself are the constant `Drives`.

### Pools and KeyedQueues

A structure is a number in the order in which it is carved from memory, and 0 is NULL. A
pool is its head, how many there are, and one link each. Memory is a count of
pages and of slices (`Kmem` has the lists). `Enque` is `_que_enque` with its six cases
of linking as one definition of both links; `Spawn` is `_proc_create` with `_schedule`;
`SpawnFails` gives the PCB back; `Cleanup` is `_pcb_cleanup`. A slice that is not there
panics (`Panic`), as `_km_slice_alloc` does before its callers can test for NULL.

### Text, Console and TypeAhead

`Text` computes: conversion and padding of numbers, `str2int`, `strTrim`, `strLower`,
`strncmp`, lines of a file. Words have `WordBits` bits. Recursive definitions are recursive functions or folds.
A number is printed in two ways that differ: `Formatted` is `__cio_printf`, `Sprinted` is `sprint` of either
library, which counts two characters more of a hexadecimal number, so that it pads two short; the
characters it copies too are the NUL, where the string ends, and one behind it.

`Console` has the screen as a function from cells to characters with the cursor and the flag of
a CR; `Putchar` scrolls first when the cursor is below the region, as
`__cio_putchar` does. The build is the Makefile's: with `TRACE_CX`, in which `_init` keeps
the scrolling region off the first seven lines (`FirstImage`) and `__isr_restore` prints the context
at (0, 1) whenever an interrupt or a system call returns (`Returns`, in every action that ends in a return;
`Traces` are the contexts there can be, each of `Top - 2` lines that fit the screen), and without
`STATUS`, which would have the clock and `sio.c` print a line of their own. The pinwheel is at
(0, 0) and the line of `=` at `Top - 1`.
`text` is a history variable: what was put on the region
since `Init`. `SheetOf` draws it on a sheet of paper that never scrolls and is long enough for every
text; `ScreenShowsText` compares the region with its last lines. `KeyboardIsr` and `Poll` are the two places that store keys, `Read` and
`GetChar` a read, which keeps interrupts off while it waits (`left > 0`). `Printf` is
`__cio_printf` of one number, with which the kernel goes on or returns; `WriteNumber` is `sprint` of one and
`write()`. `Spin` is the interrupt of the clock, which moves the pinwheel now and then.

### Login

One step is one system call of the running process with what it does until its next. `Tick`
preempts, `Wake` ends a sleep, `Type` is a character that comes in.
`InitStarts`, `InitCollected`, `Wait` are `init`; `SignInSleeps`, `ReadLn` with
`Named` and `Proved`, `SpawnShell`, `Leaves` are sign-in; `ReadLn` with
`Commanded`, `SpawnTest`, `ShellCollected` the shell; `Fork` and `TestExits` the tests,
which may leave processes to `init`. `/.shadow` is a text that `ShadowLines` reads as
`getShadowLine` does: a field is cut at `MAX_UNAME_SIZE` and copied without a NUL where the code
copies none, so that a number or a password may go on with whatever is behind it (`IdsOf`, `Ended`,
`Matches`). `readLn` goes by the length it is told (`Length`), the buffer may be shorter: signIn reads
a password into `passIBuf[16]` and says 32. What `readLn` writes past that buffer lies, in the build
without optimisation, over the password it is compared with, so a line that is too long may match or not;
what lies further up the stack is not in the model. The terminal's current line (`shown`) is there to compare it with
the buffer of `readLn`. A PID is reused as soon as its process is gone, which is sooner than in
the kernel and hence the harder case for `shellID`. Nobody calls `kill()`.

## 3. Runs

| Run | Asks | Instance |
|---|---|---|
| `core` | all safety properties of `Kernel` | 5 processes (init, idle, 3 more), 2 priorities, 2 ticks a slice, time 0..2, sleeps of 1 or 2 ticks, an input buffer of 1 |
| `live` | the liveness properties, with a clock that wraps and a table smaller than the PIDs | 4 slots for 5 PIDs, 2 priorities, slices of 1 tick, time 0..3, wrapping |
| `orphans` | one comment of the code, which is found not to hold | 5 processes |
| `sio` | invariants of the driver, and that it implements `SerialLine` | buffers of 2, writes of 1 to 4 characters, reads of 1 to 3, 2 waiting readers |
| `kmem` | conservation, order, joining | a map of 8 regions that leaves 3 pages and, behind a hole, 1; pages of 2 bytes, addresses to 18, 2 slices a page |
| `dirs` | references and names | root and 2 inodes, 3 names, 2 entries beside `..`, a root user who may become another |
| `dirs_users` | owners and groups | root and 1 inode, 2 users, groups 0, sudo and 3, 3 sets of permissions |
| `files` | blocks and pointers, and that files are texts | 2 inodes, 2 blocks of 2 bytes, 2 pointers, files and directories, root and another process with one descriptor each, strings of 1 and 2, reads of 0 and 2, a file on the image |
| `disk` | the right block, the right table, an end to every wait | 2 buses, 3 devices, 2 functions; 3 places for the controller; a drive of 12 blocks with cylinders, one of 4 with block numbers, one that is not ATA; any number in each first block |
| `pools` | nothing lost or shared, and linked lists are queues | 6 pages, stacks of 1, 5 slices a page, 1 node or 2 PCBs a slice, 2 queues, 2 keys |
| `console` | the screen shows the text, numbers can be read back, keys are a queue | a screen of 2 by 6 with a region of 2 lines below 2 lines of context, two contexts, 4 characters of text, a ring of 3, 8-bit words, a key that is Enter with shift, and control |
| `login` | init knows the login, the screen shows the line, a prompt returns | 4 processes beside idle, lines of 2 characters, a password buffer of 2, 1 character typed ahead, three users in `/.shadow`, one with a number that is none |

Why these bounds: three processes besides `init` and `idle` are a grandparent, a parent and a
child, or a killer, a victim and its child, which are all the roles `_force_exit`
tells apart; two sleepers that wake at different ticks need two ticks; two priorities
show preference and round robin. A ring of 2 is full, wraps, and is written and read in
parts; a write of 4 exceeds the ring plus the character in the UART. Three pages in a row
let a freed page join on both sides, and a region of one page is an exact fit; the map has
a region for each reason to pass one over or to cut it.
Two inodes beside the root are a directory and what is in it, or two nested
directories. Two entries beside `..` let the last one move into a gap, and a third
name finds the directory full. `MaxRefs` bounds moves only: a directory moved into
itself collects references that removals never take off.
`MaxRun = BufSize` in run `sio` is an assumption about readers: they empty the
buffer before `BUF_SIZE` more characters are stored.

Two files that share two blocks meet a full device, a file that ends with its block, a
block freed by one file and taken by the other, and the last pointer. A stale descriptor
leads to a removed file and then to a new one, or to a directory, with the same number. Twelve blocks in three heads of
two sectors have several cylinders, heads and sectors; block 12 is past the end.
`MaxMarked = 1` follows one written block at a time: a write to a wrong block shows
wherever it lands. Six pages are spent on three stacks, so that every allocation fails
once, some with a PCB in hand. A region of two lines scrolls by one line and, after LF
at its end, by pending ones; 4 characters fill it and scroll. Eight-bit words
have the same remainders of bits by 3 and 4 as 32, so that the first octal digit has two
bits; -128 is the number without an opposite. Four processes are `init`, a shell, a test and one
that is left over or takes the last slot from sign-in.

`CHECK_DEADLOCK FALSE` is said where the system really stops: after a panic (`kmem`,
`pools`, `disk`), or with no drive to ask (`disk`).

Properties worth reading first: `QueuesMatchStates`, `NoLostWakeup`, `FamilyTree`, `ScheduledRightly`
and `NoPanic` in `Kernel`; `ImplementsLine` in `Sio`; `ListServes` in `Kmem`; `TreeConsistent`
in `Dirs`; `ImplementsStore` and `BlocksOwned` in `Files`; `TableAgrees` in `Disk`; `ImplementsQueues` in
`Pools`; `ScreenConsistent` in `Console`; `LoginConsistent` and `PromptReturns` in `Login`.

A property named `...Consistent` joins a module's type invariant with the invariants that
relate its parts, each of which has a name and a comment of its own: `DriverConsistent`
(pointers, counters and flags of the serial driver), `DiskConsistent` (results and buffers of
the disk driver), `MemoryConserved` (every page and slice somewhere once), `ListServes` (free lists in order, joined, and
found), `TreeConsistent`
(references, names), `PoolsConsistent`, `ScreenConsistent`, `LoginConsistent`.
`ScheduledRightly` says that sleepers wake exactly at their tick and that the dispatcher takes a best one.

### Fairness

`live` and `orphans` assume: the kernel's loops run on, since interrupts are off until they end
(WF on `Dispatch`, `ClockWake`, `ClockEnd`); the timer ticks infinitely often. The
last is strong fairness, because the action is enabled only while the kernel is in
no loop: the interrupt controller latches a tick that arrives in between. And `init`,
whenever it runs again and again, gets to its next `wait()` (SF on `InitWaits`), as
its endless loop does. Nothing is assumed of user processes. In `sio` the UART finishes
its characters and its interrupt is held until it is taken (WF on `Shifted` and
`Transmit`). In `disk` the kernel goes on, with interrupts off, and the drive does or fails
what it is told (WF on `Kernel` and `DriveDone`); nothing is asked of callers. In
`login` the clock ticks and wakes sleepers (WF), and `init`, sign-in and the shell come to
their next call although ticks take the processor away in between: a slice is many
instructions long, so a process that is scheduled again and again gets there, which is SF on
`Inits` and `Logins`. Nobody has to type, and tests may run for ever or never give
their slot back; `PromptReturns` needs neither.

### Disagreements

Run `orphans` is the one disagreement with a comment of the code that is listed with the runs:
a process that exits leaves a zombie child to `init`. If `init` is already in
`wait()`, nothing wakes it, and the zombie keeps its slot, possibly forever.

The others are smaller. Each has a definition with the text it is about, and most have
a configuration that shows it (`tlc -config <cfg> <module>` finds the violation):

| Configuration, module | Definition | What happens |
|---|---|---|
| `Kernel_kill_idle.cfg`, `Kernel` | `DispatchFinds` | nothing stops root or sudo from killing `idle`; `_dispatch` then finds nobody |
| `Kernel_kill_status.cfg`, `Kernel` | `KilledZombieSaysSo` | a killed process that becomes a zombie keeps `exit_status` 0: a parent that calls `wait()` later reads 0 where a parent already waiting reads `Killed` |
| `Sio_input.cfg`, `Sio` | `StoredInBuffer` | `_inlast` runs past the input buffer if the buffer is never quite emptied |
| `Sio_crlf.cfg`, `Sio` | `LineFeedFollows` | a string that starts with LF goes out as CR, rest, LF |
| `Dirs_move.cfg`, `MCDirs` | `MoveNeedsMeta` | `fmove` asks for the right to write a file where its comment and `Permissions.txt` ask for meta rights; a user who does not own the file gives it a second name, and the removal of the first, which does ask, refuses |
| `Dirs_up.cfg`, `MCDirs` | `UpStays` | `fs.h:107` says that removing `..` fails, but `fremove` and `fmove` take the name like any other (`syscalls.c:1026-1201`). After `mkdir p`, `mkdir q`, `mkdir p/d`, a move of `p/d` to `q/d` and `fremove("q/d", "..")` the directory `p` is freed while the root still names it, and its inode goes to the next file |
| `Files_dirs.cfg`, `MCFiles` | `DirsUnwritten` | `fopen` refuses directories (`fs.h:92`), but a process that has a file open while its last name goes and a directory gets its inode writes over the entries of that directory |
| `Login_password.cfg`, `MCLogin` | `LengthIsCapacity` | `ulibc.c:118` calls the length the capacity of the buffer; signIn passes 32 for the 16 bytes of `passIBuf` (`signIn.c:73`, `signIn.c:171`), and `readLn` clears the last of 32 before it reads |
| `Console_sprint.cfg`, `MCConsole` | `SprintHasWidth` | `klibc.c:238` calls the width the final length, but `%x` in `sprint` counts two characters more than there are (`klibc.c:368`, `ulibc.c:618`), so that a padded number is up to two short |
| `Disk_result.cfg`, `MCDisk` | `ResultSaysSo` | the errors -2, -3, -4 come back as 254, 253, 252, and a write that was stored may return one because the flush is polled for data |
| none, `Files` | `WrittenIsKept` | a write that reaches the last pointer reports bytes that the inode never gets |
| none, `Files` | `ReadsItsChannel` | a read of length 0, or past the end of a file that was replaced, waits for the serial line and returns a character of it |

Noticed while modelling, and translated as they are or left out where said: `_sio_write`
of length 0 sends a character (not in `Sio`); `kill()` of a waiting process leaves its caller's
return value alone; regions of memory that touch are not joined at boot; a
process may keep a removed directory as its working directory; `fReadLn` drops a
last line without LF; a file that `AddFile` puts on the image empty has a block and no byte, and
`_fs_write` then writes to whatever block number is on its stack (`kfs.c:316`), so `FilesAssumption`
has no such file; an entry of `/.shadow` whose password fills its field has no NUL behind it; the first digit of a negative octal number is wrong by the sign
(`CvtOct`); `init` compares the result of `wait()` with `E_NO_CHILDREN` where `wait()`
returns `E_NO_PROCS`; `_context_dump_all` reads through empty entries of `_ptable`.

## 4. Proofs

TLC's runs are of small instances. The theorems below hold for every value of the constants that
a module's `ASSUME` admits, and so for the numbers of the code. Where a theorem needs more, its
hypothesis has a name, is listed here, and is satisfied by the instance of the run that checks
the same property. Every inductive invariant was checked by TLC on the module's run before it
was proved.

The proofs have one shape: the inductive invariant `IInv` (`DiskInv`, `KeyboardInv`, `ScreenInv` and
`LoginInv` where a proof module has several) holds initially; one lemma for each
action says that the action keeps it; `NextKeepsIInv` (or `StepInv`) puts them together; the
last step of a theorem is temporal. Where a property is about steps, the lemma of an action also
proves what that step may do (`Legal` in `KernelProofs` and `DirsProofs`), so that no action is
looked at twice.

| Module | Proved | Under |
|---|---|---|
| `KernelProofs` | `TypeOK`, `QueuesMatchStates`, `FamilyTree`, `SomebodyToRun`, `NoLostWakeup`, `ProcsCounted`, `NoPanic`, `KilledIsFinal`, `ReapedByParent`, `ScheduledRightly` | `InitAndIdleSafe`; the last also `ClockFits` |
| `DriverProofs`, of `Sio` | `DriverConsistent`, `NoOverrun`, and that each step is a step of `SerialLine` or a stutter | `ReadersKeepUp` and `LineFeedsFit`; nothing; `ReadersKeepUp` and `NoLineFeeds` |
| `DriverProofs`, of `Disk` | `DiskConsistent`, `TableAgrees`, `RightBlock` | `AddressesFit` for the first and the last |
| `KmemProofs` | `MemoryConserved`, `ListServes` | `RegionsApart` for the second |
| `PoolsProofs` | `PoolsConsistent`, `BothWays`, `ImplementsQueues` | nothing |
| `DirsProofs` | `TreeConsistent`, `GroupsAreOwn`, `FreedIsEmpty`, `MoveFreesNothing`, `OwnersDecide` | `UpIsNotNamed`, but for `GroupsAreOwn` |
| `FilesProofs` | `TypeOK`, `BlocksOwned`, `NoDesync`, `ImplementsStore` | nothing |
| `TerminalProofs`, of `Console` | `ScreenConsistent`, `ImplementsTypeAhead` | nothing |
| `TerminalProofs`, of `Login` | `LoginConsistent`, `ShownIsKept` | nothing |

The hypotheses:

* `InitAndIdleSafe`: `init` and `idle` are in `Protected`, so nobody kills them. The code does
  not enforce it, and `Kernel_kill_idle.cfg` shows what happens otherwise.
* `ClockFits`: `_system_time` has not wrapped, and neither has the wakeup time of a sleeper.
  Sleepers are ordered by that time, and a time that wraps sorts before those that are due. In
  the code that is after 49 days.
* `ReadersKeepUp`: `MaxRun = BufSize`, readers empty the input buffer before `BUF_SIZE` more
  characters are stored. Otherwise `_inlast` leaves the buffer (`Sio_input.cfg`).
* `LineFeedsFit`, `NoLineFeeds`: `_sio_writec` adds the LF after a first CR behind what it
  already buffered, so that a write that starts with LF and fills the buffer ends one character
  past it, and the line does not show what was written (`Sio_crlf.cfg`).
* `AddressesFit`: a drive addressed by block number has at most `Lba` (2^28) blocks. The driver
  masks the rest of an address.
* `UpIsNotNamed`: no program passes `..` as a name to `fcreate`, `fremove` or `fmove`. The code
  does not refuse it, and `Dirs_up.cfg` shows what happens otherwise.
* `RegionsApart`: no two regions of the memory map touch. `_add_block` lists regions and does
  not join them, so a row of free pages across two of them is not found.

### Kernel

`IInv` joins `TypeOK`, `QueuesMatchStates` in the form `Queued`, `FamilyTree`, `SomebodyToRun`,
`ProcsCounted`, `NoPanic`, and that the running process is the current one. None of them is
inductive alone: that `_dispatch` finds somebody needs `idle` on its queue, which needs states
and queues to agree; that `_force_exit` finds a parent needs the tree; that `_active_procs`
stays below `NProcs` when a slot is taken needs the count. `NoLostWakeup` is part of `Family`.
`Queued` has a parameter, the set of processes a handler has in its hands. Each handler is then
a sequence of moves (off a queue, to another state, onto a queue), with one lemma a move, and
`ForceExitKeeps`, `MakeReadyKeeps` and `ScheduleKeeps` stand for the shared helpers.

`SchedulesRightly` adds `NobodyOverdue`: the queue of sleepers is in the order of their times,
and outside of the clock's loop its first is due later than now. It is proved on top of `IInv`.

### Sio

`IInv` is `TypesOK`, `InputAgrees`, `OutputAgrees` and `TransmitterArmed`. The parts need each
other: a reader waits only for an empty buffer, and `_sending` is set whenever something is
buffered, or nobody would ever send it. `Window` turns a ring with a first cell and a count into
a sequence; `WindowMoves` and `WindowGrows` say what taking a cell and storing some do to it,
and they are all that `LineIsImplemented` needs of rings.

### Disk

The kernel waits at a place of the driver (`pc`), and `DiskInv` says for each place what the
operation, the drive and `buffer` are: `OpAgrees` (which blocks and drives are asked for),
`DriveAgrees` (a drive that was told to work has the address of that block, and is not told more
before it has finished), `DoneAgrees` (a result without an error means the transfer took place),
`BootAgrees` (drives are probed in the order of the bus), `BufferRegistered` and `TableAgrees`.
`TracksBefore` and the lemmas after it are the arithmetic of cylinders, heads and sectors.

### Kmem

`IInv` is `TypesOK`, `OrderedBlocks` (the list is ordered by address with at least `Gap` pages
between neighbours), `PagesConserved` and `SlicesConserved`. `Gap` is 1 under `RegionsApart` and
0 otherwise, so one induction serves both theorems. Whether a region is listed, a block is cut,
or a page that is freed joins its neighbours: one block takes the place of a stretch of the list,
whose length is 0, 1 or 2. `SplicedPages` and `SplicedOrder` are about that, `RemovedBlock` about
a block that is used up.

### Pools

A list threaded through links is a sequence `s` with `IsList(link, first, s)`. `WalkIs` says
that the walk the model takes along the links meets exactly `s`, whatever else the
links hold; `CarvedList`, `TakenList` and `FreedList` what a pool's free list is after each
operation, `EnqueList` and `DequeList` what a queue is, in both directions, after a node is put in
or taken out. `PutBetween` is one place for the six ways `_que_enque` links: a node goes
between two stretches of the list, either of which may be empty.

`IInv` says of each of the three pools that its free list is a sequence of distinct numbers
(`PoolSound`); of each queue that its links are one sequence of as many nodes as its length, read
from either end (`QueuesLinked`); that a node is on one queue or on the free list and not on both
(`NodesOwned`); that ordered queues are sorted; that entries name live processes
(`EntriesSound`); that a live process has its own PCB and stack (`ProcessesOwn`); and that the
pages that became stacks and those that are left are no more than there were (`StacksPaid`).
The last bounds how many structures can ever be needed, so that a structure carved from memory
always is one that the sets of the model have. The invariant is enough for the refinement:
`EntriesAlong` reads the entries along a queue, and `PlaceOf` is where the abstract queue
puts a new one, which is where the code's search stops.

### Dirs

`IInv` is `NodesSound` (types, references that cover the names, names once in a directory, a
free inode without entries) and `GroupsAreOwn`. `_sys_fmove` and `_sys_fcreate` write the device
several times, so the lemmas are about one write: `AddedSound`, `RemovedSound` and the like say
that each keeps `NodesSound`, `AddedLinks` and `RemovedLinks` which names an inode has after it,
`MovedCount` that exactly one name goes when the last entry of a directory moves into the gap.

### Files

`IInv` is `NodesSound` (the blocks of an inode are distinct, marked and nobody else's, and reach
its length but for the first byte of a new file), `FilesOpen` (descriptors) and types. `Fitting`
counts how far `_fs_write` gets, which is a least element, so `QueueLemmas` has the facts about
those and no induction is needed; `Extended` and `Stored` then only touch blocks that were free
or the file's last. `TextGrows` says that what a file holds is what it held and then what was
written. `Init` is the last value of a recursive function over the files on the image, `ImageOf`;
`ImagesExist` shows that there is such a function, by a least number of files for which there is none.

### Console

`KeyboardInv` is that the pointers stay in the ring. The promise is about `Pending`, the window between
them: an interrupt or a poll adds a key at its end unless it is full, a read takes from its
front.

`ScreenInv` is that the screen and the sheet of the text fit (`ScreenFits`): they have the same column and
the same flag of a CR; the cursor is as far from the bottom of the region as the pen is from
the last line begun on the sheet; the region has the cells of the sheet's last lines; nothing is drawn
below those; and above the region there is one whole context, or what was there before the first one, the line
under it and the pinwheel.
`ScreenShowsText` alone says nothing of the cursor, so the next character could appear anywhere.
The invariant also has `Len(text) + left <= MaxText`: a read shows the keys it takes,
and the sheet has room for those it may still take.

Screen and sheet are followed character by character. `LineBegins` is the delayed scroll: a cursor
below the region is a pen at the start of a line that is not begun. `CharacterFits` is one character,
`WrittenFits` a string of them. That the recursive functions `PutAll`, `SheetOf` and `Decimal` exist,
and that two sheets of the same text agree, is shown by a least number for which it fails
(`WritesExist`, `OneSheet`, `DecimalsExist`). Of numbers the proof needs
only that what is printed are characters (`NumberIs`).

### Login

`LoginInv` has four parts. `ProcessesFit`: each program is where it may be, in a state it may be
in there, no line is longer than `readLn` was told, and who lives has a parent that runs. `QueuesFit`: a
queue holds exactly the ready processes of its priority, but for the running one. `LoginsFit`:
what `init` knows. `LineFits`: the terminal shows the prompt and the buffer.

`SessionTracked` alone is not inductive. A shell is known to `init` (`Known`), or was started by
a signIn that has not been collected (`HandedOver`), or is in the result that `init` has
collected and not looked at (`Reported`). In the last two cases the shell must not exit, since
`init` would take its PID for that of a signIn. It cannot, because it has not run at all
(`Fresh`): `init` and signIn have priority 1 and the shell priority 2, so the queues are
part of the argument. `SignersKnown` and `ShellsKnown` say that there is no other signIn or
shell; `ResultsRight` and `ReportRight` that the status of a signIn is its shell or an error,
which is what `init` tells them by. `OneLogin` follows, and `LoginTracked` is the property.

Most steps do nothing to this: `LoginsKept` has the conditions (`LoginsSame`, `InitSame`,
`TheyGoFirst`) once. `GoesOn`, `Stops`, `Spawns` and `Joins` say the same for the queues, `Buries`
and `ExitRuns` for `wait()` and `exit()`, which hand children to `init`. Of `Text` the proof needs only that
what it computes is a number or a member of a set; what it returns is not the point.

### Only model-checked

* Liveness and everything that needs fairness: `TopRuns`, `SleepersWake`, `InitCollects`
  (`Kernel`), `Returns` (`Disk`), `PromptReturns` (`Login`), and the fair half of
  `ImplementsLine` (`Sio`). The provers have no rule for `ENABLED`.
* `PrintedIsNumber` (`Console`): that a number is read back needs the powers of 2, 8 and 16 it is
  cut into, and the provers have no rules for `^`, not even that `Half` is even.

## 5. Not modelled, and the plan

Not modelled, and why:

* the boot loader, the set-up of descriptor tables and of the timer: they run once,
  before there is anything to interleave with;
* 48-bit drives and the widths of cylinder and sector registers: the driver never uses the
  first, and the drives it would matter for are not part of the repository;
* devices that report a negative error to `kfs.c`: no driver does (`Disk`);
* several file systems at once in `Dirs` and `Files`: paths lead to one device, and
  nothing moves between devices;
* unassigned scan codes, colours, windows of the console: tables without state;
* the shell's commands on files and each test program: they only make calls that
  `Kernel`, `Dirs` and `Files` allow any process to make at any time;
* the parsing of `/.groups` in `setgid`: a set of members in `Dirs`;
* `BuildImage`, `Offsets`: they lay out files and print constants.

Left of the plan: every safety property the passing runs check is proved but `PrintedIsNumber`. A
proof of that starts from named facts about powers; the properties under fairness wait for a prover
that knows `ENABLED`.
