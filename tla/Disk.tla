-------------------------------- MODULE Disk ---------------------------------
(***************************************************************************)
(* The IDE driver (disk.c): the search for its controller on the PCI bus   *)
(* (pci.c), the drives it identifies and registers with the file system    *)
(* (_fs_registerDev), and the reads and writes it polls for.               *)
(*                                                                         *)
(* The driver runs with interrupts off, so nothing else of the kernel runs *)
(* during an operation, but the drive works on its own: what it does when  *)
(* it is busy is a step of its own.  The drive is not in this repository;  *)
(* it may fail whatever it is told to do, and does not take a command while*)
(* it is busy.  Both channels have one state, for the driver never leaves  *)
(* a drive before it is done.                                              *)
(***************************************************************************)
EXTENDS Integers, Sequences, FiniteSets

CONSTANTS
    NBuses, NDevices, NFuncs,   \* of PCI: 256, 32 and 8
    Functions,   \* the PCI functions there are, as triples
    Multi,       \* the PCI devices, as pairs, with several functions
    Controllers, \* where the IDE controller may be
    Drives,      \* what is attached: channel and drive to a drive
    Lba,         \* 2^28, the blocks that a 28 bit address tells apart
    Numbers,     \* file system numbers that may be on the drives
    RamFs,       \* the number of the RAM disk's file system
    MaxDisks,    \* MAX_DISKS
    Blocks,      \* the blocks the file system asks for
    MaxMarked    \* bound on the blocks that hold what was written

Byte == 256
Places == {0, 1} \X {0, 1}               \* channels and drives
Order  == <<<<0, 0>>, <<0, 1>>, <<1, 0>>, <<1, 1>>>>

(* What _disk_ide_initialize reads from a drive that identifies itself.    *)
Geometry(mode, size, heads, per_track) ==
    [mode |-> mode, size |-> size, heads |-> heads, per_track |-> per_track]

Attached == {x \in Places : Drives[x].mode \in {"chs", "lba"}}

ASSUME DiskAssumption ==
    /\ NBuses \in Nat /\ NDevices \in Nat /\ NFuncs \in 0 .. Byte - 1
    /\ Functions \subseteq (0 .. NBuses - 1) \X (0 .. NDevices - 1) \X (0 .. NFuncs - 1)
    /\ Controllers \subseteq Functions
    /\ \A x \in Attached : Drives[x].size \in Nat
    /\ \A x \in Attached : Drives[x].mode = "chs" =>
          Drives[x].heads \in Nat \ {0} /\ Drives[x].per_track \in Nat \ {0}
    /\ Lba \in Nat \ {0} /\ RamFs \in Numbers \ {0} /\ Numbers \subseteq Nat
    /\ MaxDisks \in Nat /\ MaxDisks > Cardinality(Attached)
    /\ Blocks \subseteq Nat /\ MaxMarked \in Nat

VARIABLES
    ide,       \* the function that is the IDE controller
    fs,        \* the number in the first block of each drive
    marked,    \* blocks of the drives that hold 1, the others hold 0
    drive,     \* the drive: what it does, DRQ, its error, its registers
    failed,    \* it has reported an error since the operation began
    itr,       \* the iterator over PCI functions
    pc,        \* where the driver is
    probe,     \* the place that is identified
    devices,   \* _disk_ide_devices
    disks,     \* disks of kfs.c: number and driver's device, or the RAM disk
    op,        \* the operation: direction, device, block
    buffer,    \* the caller's buffer
    result     \* what the operation returned

extVars  == <<ide, fs, marked, drive, failed>>
bootVars == <<itr, probe, devices, disks>>
diskVars == <<extVars, bootVars, pc, op, buffer, result>>

Ok == "none"                             \* no bit of an error
Idle == [doing |-> "idle", drq |-> FALSE, error |-> Ok, address |-> 0, place |-> <<0, 0>>]

(* What a block holds; the first has the number of the file system.        *)
Held(x, block) ==
    IF block = 0 THEN fs[x] ELSE IF <<x, block>> \in marked THEN 1 ELSE 0

DiskTypes ==
    /\ ide \in Controllers
    /\ fs \in [Attached -> Numbers]
    /\ marked \subseteq Attached \X Nat
    /\ drive.doing \in {"idle", "reading", "writing", "storing", "flushing"}
    /\ drive.drq \in BOOLEAN /\ drive.error \in {Ok, "err", "df"}
    /\ failed \in BOOLEAN
    /\ itr[1] \in 0 .. NBuses /\ itr[2] \in 0 .. NDevices /\ itr[3] \in 0 .. Byte - 1
    /\ pc \in {"scan", "identify", "command", "poll", "transfer", "flush", "flushed",
               "done", "ready", "panic"}
    /\ probe \in 1 .. 5
    /\ devices \in Seq(Attached) /\ Len(devices) <= Cardinality(Attached)
    /\ \A i \in DOMAIN disks : disks[i].fsNr \in Numbers \ {0}
    /\ Len(disks) <= MaxDisks
    /\ op.dir \in {"read", "write"} /\ op.device \in 0 .. 3
    /\ op.block \in Blocks \cup {0}
    /\ buffer \in Numbers \cup {0, 1}
    /\ result \in {-1} \cup 0 .. Byte - 1

DiskInit ==
    /\ ide \in Controllers
    /\ fs \in [Attached -> Numbers]
    /\ marked = {} /\ drive = Idle /\ failed = FALSE
    /\ itr = <<0, 0, 0>>                 \* _pci_get_devices
    /\ pc = "scan" /\ probe = 1
    /\ devices = <<>>
    /\ disks = <<[fsNr |-> RamFs, place |-> <<>>]>>
    /\ op = [dir |-> "read", device |-> 0, block |-> 0]
    /\ buffer = RamFs                    \* what _rd_init left in it
    /\ result = 0

-----------------------------------------------------------------------------
(* The PCI bus.                                                            *)

Present(bus, device) == <<bus, device, 0>> \in Functions

(* _pci_get_device and the loops of _pci_devices_next.  func is a byte: it *)
(* is 255 before the first function of a device, but 0 at the start.  Of   *)
(* the devices that are present every function counts as present.          *)
MoreFuncs == itr[3] # 0 \/ <<itr[1], itr[2]>> \in Multi \/ ~Present(itr[1], itr[2])

NextFunc == (itr[3] + 1) % Byte

(* device is not reset when a bus is done.                                 *)
NextDevice ==
    IF itr[2] = NDevices THEN <<itr[1] + 1, NDevices, itr[3]>>
    ELSE <<itr[1], itr[2] + 1, Byte - 1>>

(* The next function, and _disk_init's test of its class.                  *)
Scan ==
    /\ pc = "scan"
    /\ itr[1] < NBuses
    /\ LET more == /\ itr[2] < NDevices /\ Present(itr[1], itr[2])
                   /\ MoreFuncs /\ NextFunc < NFuncs
           next == IF more THEN <<itr[1], itr[2], NextFunc>> ELSE NextDevice
       IN  /\ itr' = next
           /\ pc' = IF more /\ next = ide THEN "identify" ELSE "scan"
    /\ UNCHANGED <<extVars, probe, devices, disks, op, buffer, result>>

NoController ==
    /\ pc = "scan"
    /\ itr[1] = NBuses
    /\ pc' = "ready"
    /\ UNCHANGED <<extVars, bootVars, op, buffer, result>>

-----------------------------------------------------------------------------
(* Reads and writes.                                                       *)

(* The address of a block: cylinder, head and sector, or a block number of *)
(* 28 bits; extended addresses are never used.                             *)
AddressHeadsFirst(g, block) ==           \* mutant: tracks before heads
    IF g.mode # "chs" THEN [lba |-> block % Lba]
    ELSE LET sect == (block % g.per_track) + 1
             base == block + 1 - sect
         IN  [cyl |-> (base \div g.per_track) \div g.heads,
              head |-> (base % (g.heads * g.per_track)) \div g.heads, sect |-> sect]

Address(g, block) ==
    IF g.mode # "chs" THEN [lba |-> block % Lba]
    ELSE LET sect == (block % g.per_track) + 1
             base == block + 1 - sect
         IN  [cyl |-> base \div (g.heads * g.per_track),
              head |-> (base % (g.heads * g.per_track)) \div g.per_track, sect |-> sect]

(* The block the drive finds there.                                        *)
Found(g, address) ==
    IF g.mode # "chs" THEN address.lba
    ELSE (address.cyl * g.heads + address.head) * g.per_track + address.sect - 1

(* _disk_read_block and _disk_write_block check what they are given.       *)
Started(dir, device, block, value) ==
    /\ op' = [dir |-> dir, device |-> device, block |-> block]
    /\ buffer' = value
    /\ failed' = FALSE
    /\ IF device >= Len(devices) THEN pc' = "done" /\ result' = -1
       ELSE IF block >= Drives[devices[device + 1]].size
       THEN pc' = "done" /\ result' = -1
       ELSE pc' = "command" /\ UNCHANGED result

(* _disk_ide_ata_io waits until the drive is free, and gives the command.  *)
Place == devices[op.device + 1]

Command ==
    /\ pc = "command"
    /\ drive.doing = "idle"
    /\ drive' = [doing |-> IF op.dir = "read" THEN "reading" ELSE "writing",
                 drq |-> FALSE, error |-> Ok,
                 address |-> Address(Drives[Place], op.block), place |-> Place]
    /\ pc' = "poll"
    /\ UNCHANGED <<ide, fs, marked, failed, bootVars, op, buffer, result>>

(* _disk_ide_poll_wait: its negative values come back as bytes.            *)
Status ==
    CASE drive.error = "err" -> (-2) % Byte
      [] drive.error = "df"  -> (-3) % Byte
      [] drive.error = Ok /\ ~drive.drq -> (-4) % Byte
      [] OTHER -> 0

PollNotBusy ==                           \* mutant: BSY is not waited for
    /\ pc = "poll"
    /\ result' = Status
    /\ pc' = IF Status = 0 THEN "transfer" ELSE "done"
    /\ UNCHANGED <<extVars, bootVars, op, buffer>>

PollForData ==                           \* mutant: DRQ is waited for
    /\ pc = "poll"
    /\ drive.doing = "idle" /\ drive.drq
    /\ result' = Status
    /\ pc' = IF Status = 0 THEN "transfer" ELSE "done"
    /\ UNCHANGED <<extVars, bootVars, op, buffer>>

Poll ==
    /\ pc = "poll"
    /\ drive.doing = "idle"
    /\ result' = Status
    /\ pc' = IF Status = 0 THEN "transfer" ELSE "done"
    /\ UNCHANGED <<extVars, bootVars, op, buffer>>

Transfer ==
    /\ pc = "transfer"
    /\ IF op.dir = "read"
       THEN /\ buffer' = Held(drive.place, Found(Drives[drive.place], drive.address))
            /\ drive' = [drive EXCEPT !.drq = FALSE]
            /\ pc' = "done"
       ELSE /\ drive' = [drive EXCEPT !.drq = FALSE, !.doing = "storing"]
            /\ pc' = "flush"
            /\ UNCHANGED buffer
    /\ UNCHANGED <<ide, fs, marked, failed, bootVars, op, result>>

(* The cache flush is commanded at once, and lost on a drive that is busy. *)
Flush ==
    /\ pc = "flush"
    /\ drive' = IF drive.doing = "idle" THEN [drive EXCEPT !.doing = "flushing", !.error = Ok]
                ELSE drive
    /\ pc' = "flushed"
    /\ UNCHANGED <<ide, fs, marked, failed, bootVars, op, buffer, result>>

(* Its poll asks for DRQ too.                                              *)
PollFlush ==
    /\ pc = "flushed"
    /\ drive.doing = "idle"
    /\ result' = Status
    /\ pc' = "done"
    /\ UNCHANGED <<extVars, bootVars, op, buffer>>

(* The drive finishes what it does, or fails.                              *)
DriveDone ==
    /\ drive.doing # "idle"
    /\ \/ /\ drive' = [drive EXCEPT !.doing = "idle",
                                    !.drq = drive.doing \in {"reading", "writing"}]
          /\ IF drive.doing = "storing"
             THEN LET at == <<drive.place, Found(Drives[drive.place], drive.address)>>
                  IN  marked' = IF buffer = 1 THEN marked \cup {at} ELSE marked \ {at}
             ELSE UNCHANGED marked
          /\ UNCHANGED failed
       \/ /\ \E error \in {"err", "df"} :
                drive' = [drive EXCEPT !.doing = "idle", !.drq = FALSE, !.error = error]
          /\ failed' = TRUE
          /\ UNCHANGED marked
    /\ UNCHANGED <<ide, fs, bootVars, pc, op, buffer, result>>

-----------------------------------------------------------------------------
(* Drives, and the file systems on them.                                   *)

Booting == probe <= 4

(* The loops of _disk_ide_initialize: a place without a drive, or with one *)
(* that is no ATA drive, is passed over.                                   *)
Identify ==
    /\ pc = "identify"
    /\ IF ~Booting THEN /\ pc' = "ready"
                        /\ UNCHANGED <<probe, devices, op, buffer, failed, result>>
       ELSE IF Order[probe] \notin Attached
       THEN /\ probe' = probe + 1
            /\ UNCHANGED <<pc, devices, op, buffer, failed, result>>
       ELSE /\ devices' = Append(devices, Order[probe])
            /\ op' = [dir |-> "read", device |-> Len(devices), block |-> 0]
            /\ failed' = FALSE
            /\ pc' = "command"
            /\ UNCHANGED <<probe, buffer, result>>
    /\ UNCHANGED <<ide, fs, marked, drive, itr, disks>>

(* _fs_registerDev reads the first block, and refuses a number that is in  *)
(* its table: 0 is, in every entry that is not used.  _kpanic then.        *)
RegisteredLast(number) ==                \* mutant: only the last entry is compared
    number = 0 \/ disks[Len(disks)].fsNr = number

Registered(number) == number = 0 \/ \E i \in DOMAIN disks : disks[i].fsNr = number

RegisterDev ==
    /\ pc = "done" /\ Booting
    /\ IF result < 0 \/ Len(disks) = MaxDisks \/ Registered(buffer)
       THEN /\ pc' = "panic"
            /\ UNCHANGED <<disks, probe>>
       ELSE /\ disks' = Append(disks, [fsNr |-> buffer, place |-> Place])
            /\ probe' = probe + 1
            /\ pc' = "identify"
    /\ UNCHANGED <<extVars, itr, devices, op, buffer, result>>

-----------------------------------------------------------------------------
(* The file system reads and writes blocks of the disks it knows.  It looks*)
(* for negative results only, so that every other call is the next one.    *)
Ask(dir, device, block, value) ==
    /\ pc \in {"ready", "done"} /\ ~Booting
    /\ devices # <<>>
    /\ dir = "write" => block # 0 /\ Cardinality(marked) < MaxMarked
    /\ Started(dir, device, block, value)
    /\ UNCHANGED <<ide, fs, marked, drive, bootVars>>

Kernel ==
    \/ Scan \/ NoController \/ Identify \/ RegisterDev
    \/ Command \/ Poll \/ Transfer \/ Flush \/ PollFlush

DiskNext ==
    \/ Kernel
    \/ DriveDone
    \/ \E device \in 0 .. Len(devices) - 1, block \in Blocks, value \in {0, 1} :
          \E dir \in {"read", "write"} : Ask(dir, device, block, value)

DiskSpec == DiskInit /\ [][DiskNext]_diskVars
(* The kernel goes on, and the drive does what it is told in the end.      *)
FairDisk == DiskSpec /\ WF_diskVars(Kernel) /\ WF_diskVars(DriveDone)

-----------------------------------------------------------------------------
(* Properties.                                                             *)

(* A write changes no block of any drive but the one it was asked for,     *)
(* whatever the geometry of the drive (_disk_ide_ata_io).                  *)
RightBlock ==
    [][\A at \in (marked \cup marked') \ (marked \cap marked') :
          op.dir = "write" /\ at = <<Place, op.block>>]_diskVars

(* When an operation is over and the drive reported no error, the caller's *)
(* buffer and the block hold the same; a read that returns 0 had no error. *)
Transferred ==
    pc = "done" /\ result # -1 =>
        /\ drive.doing = "idle"
        /\ ~failed => buffer = Held(Place, op.block)
        /\ op.dir = "read" /\ result = 0 => ~failed

(* What was transferred is right, and the statuses that the driver compares*)
(* stay in the range of its bytes.                                         *)
DiskConsistent == DiskTypes /\ Transferred

(* The file systems that kfs knows have different numbers, and each is the *)
(* one on its drive: a drive whose first block could not be read is not in *)
(* the table, although its error was taken for success, because the buffer *)
(* then still holds the number of an earlier one (_fs_registerDev).        *)
TableAgrees ==
    /\ \A i, j \in DOMAIN disks : i # j => disks[i].fsNr # disks[j].fsNr
    /\ \A i \in 2 .. Len(disks) : disks[i].fsNr = fs[disks[i].place]

(* A controller on the first bus that is not the first function of all is  *)
(* found, and the driver does not wait for a drive for ever.               *)
Returns ==
    /\ (pc \in {"command", "poll", "transfer", "flush", "flushed"}) ~> (pc = "done")
    /\ ide[1] = 0 /\ ide # <<0, 0, 0>> => <>(pc = "panic" \/ probe = 5)

-----------------------------------------------------------------------------
(* What the comments say and the code does not do.                         *)

(* disk.c:601, 636: zero on success, otherwise negative.                   *)
ResultSaysSo == pc = "done" => IF failed THEN result < 0 ELSE result \in {0, -1}
=============================================================================
