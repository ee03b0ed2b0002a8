# Verification of the xv6 paging kernel

TLA+ models of this xv6 kernel (x86, with the page-protection and swap
assignments) and of its user heap, the TLC runs that check them on small
instances, and TLAPS proofs, for every size, of the paging framework, the
process table, the log, the buffer cache, the spinlocks and the page allocator.

    tlc -workers 2 -config MCPaging.cfg MCPaging     # one run; PROJECT.json lists them all
    tlapm PagingProofs.tla                           # the proofs of one module; section 6 lists them

`PROJECT.json` holds, for machines, what this file says for readers: the
components, the runs and their properties, one faulty variant of the code for
every property (`mutants`), the source lines each definition models (`map`),
the disagreements between code and documents (`findings`), the hazards and the
theorems.

## 1. Inventory

| Component | State | Operations | Hard because | Right when |
|---|---|---|---|---|
| Paging framework (`vm.c`, end of `fs.c`, `proc.c`, `trap.c`) | page table, `ram_monitor`, `swap_monitor`, `last_in_queue`, swap file, static `buff`, free frames | `allocuvm`, `swap`, `page_from_disk`, `select_*`, `write2file`, `read_page_from_disk`, `deallocuvm`, `copyuvm` | four records of where a page is, changed in several steps, with disk sleeps between them | the records agree, nothing is lost, the scheme chooses the page it should, at most `MAX_PYSC_PAGES` resident |
| Page protection (`umalloc.c`, `turn_flag`) | `PTE_1`, `PTE_W` | `pmalloc`, `protect_page`, `pfree` | shares the pte with paging | only `pfree` makes a protected page writable |
| Process table (`proc.c`) | `ptable`, `nextpid`, `cpu->proc` | `allocproc`, `fork`, `exit`, `wait`, `kill`, `sleep`, `wakeup`, `yield`, `scheduler` | several CPUs, preemption in the kernel, wakeups that may be missed | no lost wakeup, zombies reaped, killed processes die, one CPU per process |
| Log (`log.c`) | `struct log`, header and blocks on disk, dirty buffers | `begin_op`, `end_op`, `log_write`, `commit`, recovery | crash between any two writes, group commit | system calls are atomic on disk, the log never overflows |
| Buffer cache, IDE (`bio.c`, `ide.c`) | buffers, request queue | `bread`, `bwrite`, `brelse`, `iderw`, `ideintr` | interrupts, sleep locks, pinned buffers | one buffer per block, requests answered in order |
| Inodes, directories (`fs.c`, `sysfile.c`) | inode cache, file table, disk inodes, entries | `iget` ... `iput`, `dirlink`, `open`, `create`, `link`, `unlink`, `chdir` | reference counts outside the lock, deletion while open, two locks at a time | counts match holders, freed once, names lead to what exists |
| Contents of files (`fs.c`, `file.c`) | bitmap, `addrs`, size, blocks | `balloc`, `bmap`, `readi`, `writei`, `filewrite`, `itrunc` | sums of uints, partial blocks, a write in several transactions | what was written is read, no block in two files |
| Pipes, console (`pipe.c`, `console.c`) | ring buffers | read, write, close, `consoleintr` | two sleepers, kill while asleep, uint indices | bytes in order, no lost wakeup |
| Locks (`spinlock.c`, `sleeplock.c`) | `locked`, `ncli` | `acquire`, `release`, `acquiresleep` | interrupts and nesting | mutual exclusion |
| Allocators (`kalloc.c`, `umalloc.c`) | free lists | `kalloc`, `kfree`, `malloc`, `free`, `pmalloc` | coalescing, alignment | blocks disjoint, nothing lost |
| `exec`, traps, system calls | trap frame | `exec`, `trap`, `syscall` | the order of its commit | old image kept on failure |
| Boot (`main.c`) | free list without a lock, `started` | `kinit1`, `startothers`, `kinit2`, `userinit` | other processors allocate while the list has no lock | each page is given out once |
| Shell (`sh.c`) | descriptors of a pipe | `runcmd` of a pipeline | every copy of an end has to be closed | the pipeline ends |
| Devices, other user programs, `mkfs`, tests | - | - | sequential or hardware | not modelled |

How they meet: every swap is a file write and so a log transaction; a page
fault sleeps in the disk read while other processes fault; fork and exit create
and remove the swap file that paging uses; exec and sbrk move pages that the
monitors describe.

## 2. Plan

| Order | Module | Composes | State |
|---|---|---|---|
| 1 | `Paging` | - | done, proved |
| 2 | `ReplacementQueue` (abstract), `PagingQueue` (refinement) | 1 | done |
| 3 | `PagingHazards`: the calls that leave the monitors stale | 1 | done, proved |
| 4 | `Log`, `AtomicDisk` (abstract) | - | done, proved with its refinement |
| 5 | `Ptable` | - | done, proved |
| 6 | `Pipe`, `ByteQueue` (abstract); `Console`, `LineDiscipline` (abstract) | - | done |
| 7 | `Pipeline`: a shell's two commands and the pipe between them | 6 | done |
| 8 | `Spinlock` with interrupts | - | done, proved |
| 9 | `BufferCache` with sleep locks and the IDE queue, `BlockStore` (abstract) | - | done, proved with its refinement |
| 10 | `Files`: inodes, names, descriptors; `FileData`: bitmap, `bmap`, reading and writing | - | done |
| 11 | `Umalloc` (with `pmalloc`); `Kmem` (with the boot) | - | done, `Kmem` proved |
| 12 | `exec` with its rollback; `itoa`, `skipelem` against reference definitions | 1 | to do |
| 13 | `Files` over `AtomicDisk`: a crash in the middle of a call | 4, 10 | to do |

Theorems to come: the refinement steps of `PagingQueue`; the links and locks of
`Files`.

## 3. Modules

### Paging

One user process (pid above 2; init and the first shell are not paged). A pte is
a set of `flags` and a `frame`; an address is a page number; what a page holds
is a value of `Data`. `val` is a history variable: what the program last put in
each page. `pc` says where in the kernel the process is; a step ends where the
code sleeps, or at a round of a loop:

| pc | code |
|---|---|
| `user` | user mode |
| `alloc` | loop of `allocuvm`, called by `growproc` |
| `swap` | `swap`, choosing a victim |
| `fault` | `page_from_disk`, choosing a victim |
| `copy` | `page_from_disk`, after the read into `buff` |
| `killed`, `panic_*`, `wild` | the process or the machine has stopped |

Actions: `Access`, `Store` (the MMU), `BadAccess`, `NoPte` (a fault, or a system
call on flags, at an address without a page table, where `is_flag_on` and
`turn_flag` panic), `KernelAccess` (a system call reads or fills a user page),
`TurnFlag` (with the flags that `umalloc.c` turns), `Sbrk`, `AllocPage`,
`AllocDone`, `SecondChance`, `Swap`, `PageFault`, `FaultRead`,
`FaultCopy`, `Fork` (the model goes on as the child). The MMU's accessed bit is
part of the model, also where the kernel itself sets it by copying a page
through its user address.

The starting state is a process that has run exec from clean monitors, on a
proc slot that may be recycled: `wait` clears `used` and keeps the addresses,
and `read_page_from_disk` does not look at `used`. This is the exception rather
than the rule: the child that the shell forks for a command allocates in
`parsecmd` (`sh.c:168`) before it calls exec, and `exec.c:96-99` hands the entries
of that image on to the new page table, so that practically every command typed
at the shell starts with stale entries. What `Paging` shows is therefore what
the framework does from monitors that describe the page table, which is what
its code relies on; a program with stale entries, which may choose an absent page
as victim, is `PagingHazards!Exec`, and only `FramesSound` is shown of it.

Left out: page directories, sizes that are not whole pages (only `PGROUNDUP`
sees them), the `pgdir` field of an entry, the counter `protected`, the policy
NONE (no paging at all). `copyParentSwapFile` keeps a page-sized array on a
one-page kernel stack; the model takes fork as if the stack sufficed (hazard
`fs.c:787`).

### ReplacementQueue, PagingQueue

What Task 3 of `src/README.md` describes: a queue of resident pages, a victim
from its end (LIFO) or head (second chance). `PagingQueue` reads the queue off
`place_in_queue` and shows each step of `Paging` to be a step of it or a stutter.

### PagingHazards

Shrinking sbrk, failing `kalloc`, a second exec, and another process that uses
`buff`. After these the monitors no longer describe the page table, so
`Paging`'s invariants fail; `FramesSound` is what still holds with all of them
(`HazardSpec`). `ShrinkSpec` and `SharedSpec` add one disturbance each, so that
a run can show what it breaks.

### Log, AtomicDisk

Processes make calls (`begin_op`, `Modify`, `log_write`, `end_op`); the last to
end commits: `write_log` and `install_trans` one block at a time, `write_head`,
`erase`, `done`. `Crash` may happen in any state, recovery included.
`log_write`'s unlocked tests are a step before its locked part. `Recycle` is
`bget` taking an unused clean buffer. `AtomicDisk` has the contents calls see
(`current`), the contents a crash leaves (`durable`) and a `Commit` that is only
allowed between calls; `Log` maps `durable` to what recovery would make of the
disk.

### Ptable

The table with its lock taken as atomic sections, a scheduler per CPU with its
place in the table, `fork` in three sections with failures between them, `exit`
in two, `wait` and `sys_sleep` as the sleepers, `kill`, the timer's `yield` and
`tick`. A process resumed in `wait` still holds `ptable.lock` (`Unlocked`).
Swap files are the set of pids that have one. File system calls inside `exit`
and `fork` do not sleep in the model.

### Pipe, ByteQueue, Pipeline

`Pipe` is `pipe.c` with the processes that hold descriptors: `pipewrite` and
`piperead` work under `p->lock` until they sleep or return, and `sleep` is in
two steps, so that `kill`, which does not take `p->lock`, can fall between the
test of `killed` and the sleep. `nread` and `nwrite` wrap at `UINT`. The
abstract `ByteQueue` is a bounded sequence with two ends that can be closed.
`Pipeline` runs the programs of `sh.c` over it: the shell makes the pipe, forks
both commands, closes its ends and waits; the left command may fork a helper
with the same descriptors; all but the shell may be killed anywhere.

### Console, LineDiscipline

`consoleintr` for each kind of key (character, newline, `^D`, `^H`, `^U`) and
`consoleread` by several readers, over the ring of `INPUT_BUF` characters with
wrapping `r`, `w`, `e`. A reader keeps `cons.lock` from `acquire` to its sleep.
`LineDiscipline`: a line that can be edited until it is entered, and entered
characters that are taken in order. Output and `^P` are left out.

### BufferCache, BlockStore

`bget`, `bread`, `bwrite`, `log_write` (which pins), `brelse` with its move to
the front, the sleep lock of each buffer, `iderw` with the queue, its sleep and
`ideintr`. Steps are the sections under `bcache.lock`, a sleep lock's spinlock
and `idelock`. A process has two hands: the second takes a buffer only while the
first has one, of a kind that the code reads under it (`Within`): the bitmap, the
superblock or a fresh block under the indirect block (`bmap`, `itrunc`), a home
block under its block of the log (`write_log`, `install_trans`).
`BlockStore`: a block has one holder and holds what was put last.
A disk that reports an error leaves the buffer as it was, yet valid; the model
has no disk errors (hazards list the line).

### Files

`open`, `create` (files, directories, devices), `link`, `unlink`, `chdir` and
`close` on names in the root or the current directory. What a call still has to
do is a sequence of steps `todo`, which the code's paths extend; a step ends
where the code takes or gives up an inode's lock. `iput` is in three steps, as
the code is: the test under `icache.lock` comes before `iunlock`, and the
decrement after it. A path has one element. Calls in `Files` do not crash (the
log makes each of them atomic, which is `Log`).

### FileData

The bitmap, inodes with `NDIRECT` addresses and an indirect block, `bmap`,
`writei` block by block, `filewrite` with as many transactions as `max` asks
for, `itrunc`. `readi` is a function of the state, compared with the history
`bytes`. Sums are modulo `UINT`, as `off + n` is. The saved inode and the one
in memory are apart, so that a missing `iupdate` shows.

### Umalloc, Kmem, Spinlock

`Umalloc`: the circular list of Kernighan and Ritchie as a sequence from the
lowest address, `freep`, `morecore`, and `pmalloc`'s second way to cut a block.
`Kmem`: `main` on the boot processor, `startothers` with the other processors'
`mpenter`, `kinit2` and the lock that comes with it; a read of `kmem.freelist`
and the write of it are apart. `Spinlock`: a stack of frames per CPU, kernel
code and above it the handler of an interrupt; `acquire` in the steps `pushcli`,
`holding`, `xchg`, the writing of `cpu`, and `release` and `popcli` likewise. Code
and handlers take one lock inside another as the kernel does (`Nest`):
`ptable.lock` under the locks held when `sleep` or `wakeup` is called, `kmem.lock`
under `ptable.lock` in `wait`. The switch of contexts with `ptable.lock` held is
part of `Ptable`, not of this module.

### MC modules

`MCPaging`, `MCHazards` instantiate one module each. `MCStorage`, `MCKernel`,
`MCProgress`, `MCServed` check several parts that share no state: `unit`, fixed
at the start, says whose behaviour it is, and the variables of the other parts
are at rest. An invariant of a part is guarded by its unit, and so is each step
of a refinement. Fairness of an action of one unit and of an action of another
is stated as fairness of their disjunction, which is the same since only one of
them can ever be enabled.

## 4. Runs

| Run | Unit and bounds | Shows |
|---|---|---|
| `paging` | LIFO; 3 entries, 2 slots, image of 3, 4 frames, 2 values, queue to 6 | monitors, page table, file, frames and data agree; the kernel panics only where section 5 says; the victims are those of a LIFO queue |
| `served` | boot: the boot processor and 2 more, 4 pages | pages given out once, from the boot on |
| | paging: SCFIFO, 3 entries, 1 slot, 1 value, queue to 7 | faults and sbrk end; a second-chance queue is implemented |
| | pipeline: 4 processes, pipe of 1, 2 bytes | the pipeline ends, the pipe is freed |
| `frames` | SCFIFO, 5 frames, all the disturbances together | no frame is mapped twice or freed while mapped |
| `storage` | log: 2 processes, 3 blocks, 2 values, 1 of at most 2 blocks per call, log of 4, 3 calls, 2 crashes | atomicity, durability, room in the log |
| | few: 2 processes, 2 buffers, an indirect, a bitmap and a log block, 1 pinned; enough: 1 process, 3 buffers, 4 blocks, 1 pinned | one buffer per block, sleepers served, no ring of waiting processes, a store of blocks; `bget` does not panic when there are two buffers for each process beside the pinned ones |
| | links, opens: 2 names, 3 inodes, files; dirs: 1 name, directories | names, links, references and locks |
| | data: 2 files, 5 blocks of 2 bytes, 1 direct and 3 indirect addresses, uints to 9 | contents, blocks, saved inodes, size of a transaction |
| `kernel` | table: 3 slots, 2 CPUs, pids to 4 | table, tree, swap files, no missed wakeup |
| | pipeline: 4 processes, pipe of 2, writes of 1 and 3 bytes, uints to 3; console: 2 readers, ring of 3, uints to 5 | byte queue, line discipline, sleeps with a cause |
| | heap: pages of 3 units, 18 units | a sound heap |
| `progress` | locks: 2 CPUs, `cons.lock` and `ptable.lock`, code and handlers that take the second inside the first | mutual exclusion, no CPUs wait for each other for ever |
| | table: 3 slots, 1 CPU, pids to 3; console: 2 readers; log: 2 processes, 2 calls, 1 crash | killed die, orphans are reaped, readers served, calls admitted |

Why the bounds are enough. Two slots and three entries are the least with which
a slot is refilled out of order, a page goes out twice, and the victim of a
fault differs from the page last swapped; four frames are one more than the
entries, which an exchange needs. In `frames` a process that has shrunk runs
exec, since 5 frames hold an image beside two pages. In the log a second call is
let in while the first has written nothing and has to wait when it has, so
waiting, absorption and grouping all happen; two crashes give one during
recovery. Its three blocks are as many as the log has room for: if `begin_op`
did not count what a call may still write, the last would meet the panic of
`log_write`. Calls of several blocks are left to the theorems of section 6. In
both, calls write fewer than `MAXOPBLOCKS` blocks, as the calls of this kernel
do (`PartsFit` is that for `filewrite`, which writes the most: fewer blocks, the
inode among them, than `begin_op` reserves); section 5 says what would happen
otherwise. Two buffers for three blocks make every recycling order happen, a
process that has both its buffers leaves none, and one pinned block starves
`bget`; a log block is read before an indirect one and that before the bitmap, so
that two processes can hold and wait in a chain. Two
names and three inodes give a rename by link and unlink while the file is open,
and an unlink of a name that is being made. A write of 8 bytes fills a file
to its last indirect block in four transactions, between which the other process
may come; one at an odd place begins in the middle of a block and meets the
largest file and the wrap of uints. Two such files do not fit on the disk. The
pipe's counters and the console's indices wrap more than once. Three process
slots give a parent, a child and a rival; larger tables, with zombies that
init inherits, are left to the theorems, as are longer chains of locks.

The counters `MaxQueue`, `MaxCalls`, `MaxCrashes`, `MaxPid`, `MaxWrites` and
`MaxPinned` bound otherwise endless behaviours; deadlock is not checked because
a bounded behaviour stops there, and a killed process or panicked machine really
stops. Deadlocks among inode locks are the property `NoDeadlock`, and CPUs that
wait for each other are `NoSpinForEver`; processes that do so for buffers, `NoRing`. Frames are symmetric in `paging` and
`frames`, the first two processes in `storage`, CPUs in `kernel`; runs with
liveness use no symmetry.

Fairness. `Paging`: the kernel's own steps, since a handler runs to its end once
the disk answers; nothing about user code. `Log`: processes inside a call go on
and each call ends (it writes finitely many blocks); strong fairness for
`end_op` because `Modify` competes with it. `Ptable`: each CPU's scheduler loops
for ever, timers tick and preempt; a process makes progress in the kernel if it
is run again and again, and init calls `wait` for ever (`init.c`). `Pipeline`:
while some process can go on, one of them does, which is all that a scheduler
must do here; which one is open. `Console`: a reader that holds the lock goes
on, and one that waits for it gets it in the end. Nothing is assumed of other
user programs. `CallsAdmitted` is checked with finitely many calls: with endless
overlapping ones `begin_op` can starve in the code too.

## 5. Where code and documents disagree

Each of these is a run that TLC must find violated; `findings` quotes the lines.

| Run | What the code does |
|---|---|
| `fork_paged_out` | `copyuvm` panics on a paged-out page |
| `protected_page` | `page_in` sets `PTE_W` on whatever it brings back |
| `shrink_data` | slots of freed pages stay used and are read later |
| `shared_buffer` | a second fault overwrites `buff` during the first one's read |
| `unlink_deadlock` | `create`, with the new inode locked, waits for the directory in `iput`, while `unlink` has the directory and waits for the inode |
| `pmalloc_aligned` | `pmalloc` counts from a block that need not begin at a page |

The models contain more that a reader of the code may not expect, without a run
of its own (`hazards` has the lines): `page_in` opens the guard page too; a
system call on a paged-out page panics (`PanicsExplained` says so); an access of
a user program to an address without a page table brings the kernel down instead
of the program, since `trap` calls `is_flag_on` (`trap.c:81`, `90`) before it kills
and that panics without a pte (`vm.c:252`), and so do the system calls
`is_flag_on` and `turn_flag` (`sysproc.c:109-124`, `vm.c:241`): `NoPte` is that
panic, and `PanicsExplained` is about all the others; entries of the old image
survive exec; `page_from_disk` goes on when `kalloc` fails; calls
that wrote all of `MAXOPBLOCKS` blocks would panic in `log_write`, since the
header takes one of the `LOGSIZE` blocks that `begin_op` counts; kill can mark
an UNUSED slot, whose next process then dies; a failed fork leaves its swap file
(`FamilyTree` and `SwapFileKept` are about processes, and do not see the file);
two `iput`s of the last two references at the same time free nothing, so that an
unlinked inode stays allocated (`NothingLeft` allows just that); the `..`
of a removed current directory leads to a freed inode and to the panic of
`ilock` (`LookupsExplained`); a writer killed on a full pipe returns without
waking the readers, which the close of its descriptors does later; after a disk
error the buffer is valid all the same; with as many buffers as the log has
blocks, pinned blocks can leave none to `bget` (`BuffersSuffice` says when they
do not); `pfree` leaves `PTE_1` set.

## 6. Proofs

| Modules | Theorems | Assumed of the constants |
|---|---|---|
| `PagingInvariant`, `PagingProofs` | `TypeOK`, `MonitorsExact` and its four parts, `DataIntact`, `FramesConserved`, `ResidentBound`, `PanicsExplained`, `CountersAgree`; `FramesSound` of `PagingHazards` | `PagingAssumption`: fewer entries than pages in all, an image of at least three pages that fits the monitor (the assignment's own restriction, `src/README.md:267`) |
| `PtableProofs` | `OneCpu`, `FamilyTree`, `WakeupNotMissed`, `SwapFileKept`, `PidsUnique` | `PtableAssumption`: there is a slot and a pid |
| `LogInvariant`, `LogProofs` | `QuietDurable`, `ImplementsAtomicDisk`, `NoPanic`, `NoLostWakeup` | `LogAssumption`; for `NoLostWakeup` that one call fits into the log; for `NoPanic` that a call writes fewer than `MAXOPBLOCKS` blocks, `MAXOPBLOCKS < LOGSIZE` and `nlog = LOGSIZE`, as in `param.h` and `mkfs.c` |
| `BufferCacheProofs` | `SleepersServed`, `NoRing`, `BuffersSuffice`, `ImplementsBlockStore` | `Ordinary`: finitely many processes; the value for no block is not a block |
| `SpinlockProofs` | `LocksExclude`, `NoSpinForEver` | `Apart`: the value for no CPU is not a CPU; locks and their classes are any, nested by `Nest` |
| `KmemProofs` | `PagesExclusive` | `Ordinary`: no page is given to the allocator twice, the boot processor is not one of the others |

All are for every value of the constants: any number of pages, frames, slots,
processors, processes, blocks, calls and crashes. Each component has one
inductive invariant `IInv`, a lemma for each action that says it is preserved,
and theorems that read a property off `IInv`. None of the properties is
inductive alone; what had to be added is the reason why the code is right.

**Paging.** `IInv` is `TypeOK` with six parts:

- `Control`: what `pc` says of the sizes and of the page under way;
- `Shape`: the entries in use are a prefix of `ram_monitor` as long as the
  process or all of it, and the slots in use a prefix of `swap_monitor`, but for
  the hole that `page_from_disk` leaves between its read and its write;
- `Distinct`: no two used entries, and no two slots of the prefix, name one page.
  It speaks of the hole too, which is why the search that ignores `used` is safe;
- `Agree`: ptes and monitors say the same of every page;
- `Owned`: resident pages have frames of their own, the others none;
- `Contents`: each page's value is in its frame, its slot or `buff`.

The prefix is the heart of it: the lowest free slot is always either the end of
the file, so that `write2file` leaves no gap, or the hole just made. A shrinking
sbrk breaks exactly this, which is why `DataIntact` fails in `shrink_data`.
`PanicsExplained` needs one more fact, inductive together with it and `IInv`:
`Writable`, that only pages marked by `pmalloc` lack `PTE_W`. `CountersAgree`
needs `Counted`: the two counters differ by the pages that do not fit the
monitor, which the prefix of slots makes the number of pages that are out.

`FramesSound` holds when all of the above has failed, so its invariant `HInv`
may not mention what the monitors say: it has the types, `Sound` (each mapped
page has a frame of its own that is not free, and so has `page_from_disk` while
it chooses), and `Walk` and `Places`, which keep `cur` within the process and
make the policy's choice an entry that exists. Every step maps a page to a frame
just taken from the free ones (`FrameGained`) or frees only frames of pages that
it unmaps (`FramesLost`), except exec, which does both at once.

**Process table.** That nobody's parent is dead needs that init never exits and
that a slot not in use has no parent (`Family`); that no EMBRYO is forgotten
needs to know where in `fork` its maker is (`Making`); that swap files are kept
needs pids to be unique, which holds because `nextpid` is beyond all of them
(`Pids`, `SwapFiles`).

**Log.** `Calls` says who is where: nobody is in a call while a commit runs,
because `outstanding` counts the calls and `begin_op` waits. `Progress` and
`Contents` say, for each step of a commit and of a recovery, which of the three
copies of a block (buffer, log, home) agree; so a crash in `install_trans`, and
a crash in the recovery from it, lose nothing. `Room` is the reservation: a
block that a call has logged counts once for the log and once for the call until
it ends, and the surplus is the set of pairs of a call and a block it has
written. The refinement maps the write of the header to the abstract commit;
all the steps of a recovery are stutters.

**Buffer cache.** `refcnt` counts the processes that use a buffer, and the owner
of its sleep lock is one of them (`Refs`, `Owners`). The disk queue has no buffer
twice, each buffer in it belongs to a process that waits for it, and the command
under way is that of the first (`Queue`, `Told`); so an interrupt always answers
the request it was started for. A valid buffer that is not dirty equals its
block on the disk (`Contents`), which is why nobody can tell that one was
recycled. `BuffersSuffice` is a count: when `bget` finds no buffer, every one is
in the hand of some process or pinned (`Pins`), and with two for every process
beside the pinned ones there is a free one. `SleepersServed` and `NoRing` need
`Pairs` besides: of two buffers of one process the second is of a kind that is
read under the first. Three kinds of blocks in a row are the most that `Within`
allows, so that, of any processes that wait, one waits for a process that holds
its last buffer. In the refinement a `bread` that finds its block, or wakes
up with it, is the abstract `Get`; `log_write` and the change it records are
`Put`; `bwrite` and `releasesleep` are `Release`; all else is a stutter.

**Spinlocks.** That interrupts stay off needs `ncli` to be the number of locks
held, plus the acquire or release under way; that a handler's `popcli` does not
turn them on early needs that the code it interrupted had none. `holding` reads
`locked` and `cpu` without a lock while other CPUs write them one after the
other; `Locked` says what they are at each instruction. CPUs never wait in a ring
because a lock is waited for only inside those that the frame has (`WaitsInside`)
and `Nest` makes chains of three classes at most; a handler's chain begins afresh,
for the code beneath it has no lock while interrupts are on.

**Page allocator.** The invariant gives every page one place, by a function from
pages to kinds of places and to processors, so that a step moves one page and
leaves the others where they are (`Moves`). While the list has no lock, only the
boot processor works on it, since the others are idle until `userinit` is over;
`startothers` waits for one processor before it overwrites the word that the
next finds its stack in (`Starting`).

Model-checked only, and why: liveness (`PagingEnds`, `PipelineEnds`,
`KilledDies`, `OrphansReaped`, `LineServed`, `CallsAdmitted`), which is out of
the prover's reach; `HeapSound`, `ReadsBack`, `BlocksExact`, `InodesSaved`,
`PartsFit`, `FreedLast`, `ImplementsByteQueue` and `ImplementsLineDiscipline`,
whose definitions recurse over, sum or count a sequence or take remainders,
where a proof for every input needs an induction that the prover cannot use; the
queues (`ImplementsQueue`, `SecondChanceQueue`), which sort the monitor;
and `InodesKept`, `LookupsExplained` and `NothingLeft`, which count references
over what is left of each call's steps: their inductive invariants are not
worked out.

## 7. Not modelled

`components` in `PROJECT.json` gives a reason for each part and `hazards` has a
note where that leaves something open. In short:

- `exec` beyond what it does to the monitors, argument fetching and the system
  call table: sequential code whose results are compared nowhere else;
- paths of several elements, `stat`, reading of directories, `dup`: they take
  the same locks in the same way as what is modelled;
- crashes in `Files` and `FileData`: their calls are inside transactions, and
  `Log` shows these atomic;
- device set-up (`lapic.c`, `ioapic.c`, `mp.c`, `uart.c`, `kbd.c`), assembly,
  the boot loader and `mkfs`: registers and tables, no protocol in the kernel;
- user programs other than the pipeline of the shell and the heap, and the
  tests.

By lines the models stand for a small part of the repository, because most of
its lines are no code of the system: `Project_Test/src/SubTests.cpp` alone is
nearly half of them and holds expected outputs of tests; the user programs and
tests come next. Of the kernel's C files with a protocol of their own (`vm.c`,
`proc.c`, `log.c`, `bio.c`, `ide.c`, `fs.c`, `file.c`, `sysfile.c`, `pipe.c`,
`console.c`, `spinlock.c`, `sleeplock.c`, `kalloc.c`) the state-changing
operations are modelled, apart from the ones above.
