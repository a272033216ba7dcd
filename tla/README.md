# A TLA+ verification of the kernel

The repository is a teaching kernel in the xv6-riscv family, extended with
resource limits (`getrlimit`, `setrlimit`), resource accounting (`getrusage`),
memory statistics (`meminfo`) and a report of shared inodes (`inodepairs`).
This directory models its parts in TLA+, checks them on small instances with
TLC and proves what matters most, for instances of any size, with TLAPS.

## The system and its parts

| Part | Source | Module | Status |
|---|---|---|---|
| write-ahead log | kernel/log.c | Log, AtomicDisk, LogProofs | modelled, proved |
| buffer cache, sleep locks | bio.c, sleeplock.c | Bio (contents as the log needs them: Log) | modelled |
| disk driver | virtio_disk.c | VirtioDisk | modelled |
| inodes, directories | fs.c, sysfile.c | Inode, InodeProofs | modelled, proved in part |
| blocks and content of files | fs.c, file.c | FileData | modelled |
| file table, descriptors | file.c, sysfile.c, pipe.c | File, descriptors also in Rlimit | partly |
| pipes | pipe.c | Pipe, ByteQueue, PipeProofs | modelled, proved |
| process table, scheduler | proc.c, swtch.S | Proc, ProcProofs | partly, proved |
| traps, timer, device interrupts | trap.c, plic.c | Proc, Rlimit, Rusage, Console | partly |
| page allocator, virtual memory | kalloc.c, vm.c, proc.c, sysproc.c | Vm | partly |
| exec | exec.c | Exec | partly |
| spin locks | spinlock.c | Spinlock | modelled |
| console, UART, printf | console.c, uart.c, printf.c | Console, LineDiscipline, ConsoleSteps, ConsoleProofs | partly, proved |
| resource limits | sysproc.c, sysfile.c, file.c, trap.c | Rlimit, RlimitProofs | modelled, proved |
| resource usage | proc.c, sysproc.c | Rusage, RusageProofs | partly, proved |
| shell and init | user/sh.c, user/init.c, user/testip.c | ShellParse, Shell | partly |
| dispatch, boot, strings | syscall.c, main.c, start.c, string.c | - | not modelled |
| mkfs | mkfs/mkfs.c | initial states of Log, Inode | partly |
| user library, other programs | user/ | - | not modelled |

How they interact: a trap (trap.c) brings a process into the kernel; system
calls on files run inside a log operation (`begin_op` ... `end_op`), read and
write blocks through the buffer cache, which calls the disk driver; everything
that waits does so with `sleep` and is released by `wakeup`, both built on
`p->lock` and the scheduler; a timer interrupt charges the running process a
tick and makes it yield; `exit` and `wait` are tied by `wait_lock`.

## Modules

**Log** models log.c with the contents, pins and recycling of bio.c. State: the
disk (`home`, `hdr`, `ldata`), the cache (`cache`, `pin`), `struct log` (`lh` is
`log.lh`, whose length is `log.lh.n`), the place of each process (`pc`, loop index
`tail`, the blocks its operation wrote `wset`) and the place of recovery (`phase`,
`rtail`). Each critical section of `log.lock` is one action, and so is each disk
write of `write_log`, `write_head` and `install_trans`; `crash` may come between
any two actions, leaves any contents in the block that was being written, and
loses memory. The header's write is atomic: it fits in a sector. `panic` is TRUE
after any of the file's panics.

**AtomicDisk** is what log.c promises: a disk whose durable contents change at
once, to the contents left by finished operations. `Log!ImplementsAtomicDisk` is
the refinement; `durable` is mapped to what recovery would restore now.

**Proc** models proc.c. `lock[i]` and `wait_lock` name the CPU holding them, `cproc[c]`
is `c->proc`, and `kpc[i]` is the point a process has reached in kfork, kexit, kwait or
usertrap. A section under one lock alone is one action; the hand over of `p->lock`
through `swtch` (`yield`, `sleep`, `exit_zombie`, then `sched`, later `scheduler`, then
`resume`) is spelled out. A fork that fails has its slot taken and freed in one section
of `np->lock`, so nobody sees it used. Memory, files and exit status are left out.
`sleep` is the one in kwait; other sleeps follow the same pattern and are modelled where
they matter (Log, Pipe).

**Pipe** models pipe.c for processes that hold one end each: `pi->lock`, a step
for each byte, the unsigned counters (modulo `WORD`) and kills in the middle of a
call. Closing takes three steps, as in the code: `fileclose` drops the descriptor
under `ftable.lock`; if it was the last of its end, `pipeclose` closes the end under
`pi->lock`; if both ends are then closed, `kfree` comes after the lock is released.
**ByteQueue** is the bounded queue it
implements.

**Rlimit** models one process, the timer interrupts it takes in user and kernel
mode, `setrlimit`, `getrlimit` and the calls that open and close descriptors;
`kfork` continues in the child. The checks of `setrlimit(RLIMIT_CPU)` and its
assignment are two steps, as interrupts are on. Arguments are C ints, the fields
unsigned modulo `WORD`.

**Rusage** models the updates of `wait_start`, `sleep_start`, `wait_ticks` and
`sleep_ticks` at each change of `p->state`. `ticks` is read without its lock, so
sections that read it twice take two steps.

**Inode** models the inode table and directories of fs.c under open, create, mkdir,
mknod, link, unlink, chdir and close. `disk` holds type, links and entries of each
inode as the running system sees them, `durable` what a crash leaves: `end_op` of
the last running call copies one to the other, which is what Log implements. `ref`,
`valid` and `lock` are the table; `dp`, `ip` and `todo` (the `iput`s a call still
owes) are the pointers of each call. Taking a lock, the work under it and its
release are one action, unless a second lock or an `iput` comes in between. The
four stages of an `iput` that frees are separate. Paths are arbitrary: each element
is chosen when it is looked up. The history variable `strayed` says that a call has
gone by ".." out of a directory that had been removed, or has put an entry into one;
nothing in the code reads it. The code does not provide for either (see the
disagreements below), so `DurableConsistent` and, but for its types, `InodeInv` are
stated for as long as it is FALSE; `RefExact` is not. A removed directory that is
somebody's current directory is not a stray by itself, and ireclaim frees it after a
crash.

**VirtioDisk** models virtio_disk.c and the device. `desc`, `avail` and `used` are
the descriptor table and the two rings, with indices that wrap. A stretch of
`virtio_disk_rw` under `vdisk_lock` is one action; the interrupt handler takes one
for its entry, one for each entry of the used ring and one for its end, since the
device goes on filling that ring. The device completes requests in any order. When
`alloc3_desc` gets only one or two descriptors it gives them back, which wakes the
other waiters, as in the code.

**Bio** puts the buffer cache on top of it: reference counts, the LRU list, buffer
locks (sleeplock.c), pins. The ghost `cur` is the content of each block as its last
user left it. `WithinNBUF` is the one assumption: a process asks for a block only
while the buffers pinned or in use leave one free. The code has no such test, and
NBUF = LOGBLOCKS leaves it to the callers.

**Vm** models user memory: free list, page tables with their inner pages, `sbrk` eager
and lazy, page faults, `copyout`, fork, exit and wait. One action runs from one page
allocated to the next, so pages can run out at each allocation; `kalloc_held` and
`kfree_held` are the pages of the rest of the kernel. The ghost `mem` is the memory a
user program believes it has. **Exec** adds `sys_exec`, with a page for each argument,
and `kexec`: the new page table beside the old one, the switch, and the ways out at the
two `bad:`s.

**Spinlock** models `acquire`, `release`, `push_off` and `pop_off` for any locks;
**Console** uses it for the console's, the UART's and printf's lock on two CPUs. Each
CPU runs a process and, on top of it, an interrupt handler. The UART receives and
sends on its own and interrupts whichever CPU claims it. **LineDiscipline** is the
promise: a line being edited and a queue of finished bytes; the ring buffer with its
three wrapping indices implements it.

**FileData** models what is in files: the bitmap, `bmap` with its indirect block,
`itrunc`, `readi`, `writei`, and how `filewrite` cuts a write into transactions. The
ghost `data` is the content a user believes each file has. A `copyin` that fails half
way leaves bytes in the buffer that were not logged (`torn`); the model keeps them out
of `ContentRight` and nothing else.

**File** models the file table, the descriptors of all processes, and which ends of
which pipes are open. The last `fileclose` frees the slot first and closes the object
in a second step (`closing`), from its copy. `sys_inodepairs` runs from one release of
`ftable.lock` to the next; its scan of the processes is left out with the pids and
descriptors it finds. Allocations that a failing `pipe()` or `open()` takes back are
not visible, nor is a slot that `open` has taken and not yet filled.

**ShellParse** is the parser of sh.c on tokens, procedure by procedure, beside a grammar
(`Line`) that says what it should return. **Shell** runs what it returns: each process
is the list of system calls it has still to make (`todo`), from the loop of init.c
through the shell and `runcmd` to the programs, of which some read their input to its
end. Calls of different processes interleave. The console's device file may still have
to be made. Opening a redirected file may fail. If init exited, or a process waited with
no child, the run would end in a deadlock or break `LineEnds`.

`MC*` modules only define symmetry sets and integer ranges.

## Runs

| Run | Shows | Bounds |
|---|---|---|
| log | crash atomicity, pinning, exclusion of commits, wakeups; `LogInv` is an invariant | 2 processes, 2 blocks, 2 values, operations of 2 blocks that reserve 3 of 6 slots: both admission tests refuse, and the reservations reach the last slot |
| disk | one buffer per block, contents never lost or mixed up, the device and the kernel never use a buffer together, no sleeper forgotten, no panic | 3 processes, 3 buffers, 4 blocks so that buffers are reused, 8 descriptors (two requests and a part of a third), ring indices modulo 8, 4 calls, 1 pin |
| fs | exact reference counts; until a call strays, nothing in use is freed, no panic, lock order, consistent link counts at every crash | 2 processes, the root and 2 inodes, 2 names, every image of up to 2 files or of a directory within a directory, 3 calls: enough to make, enter and remove a directory, to remove a file and reuse its number twice, or to remove two directories under a process inside them |
| filedata | every block free or in one file, the inode on disk is the one in memory, files hold what was written, transactions fit in the log | 2 processes, 2 inodes, 3 open files, 5 blocks (fewer than two full files need), blocks of 2 units, 1 direct and 3 indirect, writes of 7 units from any offset, 3 calls |
| shell | parser against grammar; standard input and output of every program, exact counts, no stray pipe end, every line ends, inodepairs complete | every line of up to 5 tokens is parsed, six lines are run with 6 processes, 5 files and 2 pipes: files run out |
| pipe | a bounded queue, no stranded reader or writer, the page freed last and once | 2 readers, 2 writers, kills of all, 2 bytes of buffer, counters modulo 4: every wrap and every fill occurs |
| proc | one CPU per stack, no `sched` panic, no missed exit, no orphan, unique pids | 3 slots, 2 CPUs, pids to 4, so slots are reused |
| proc_live | zombies of init are freed, killed processes exit | 3 slots, 1 CPU |
| memory | no page lost or used twice, programs find the memory they expect, no panic, whenever pages run out | 2 processes, 17 pages, 4 user pages of 2 units, two executables, up to 2 arguments, 4 calls |
| console | line discipline, interrupts nest, the UART is never overrun, no sleeper forgotten | 2 CPUs, ring of 2, indices modulo 4 starting before the wrap, 2 keys, 2 calls |
| rlimit | limits hold, a computing process is stopped | limits to 4 ticks and 3 files, arguments 0..5, beyond both ends |
| rusage | no tick counted twice | 2 processes, 3 ticks |

An invariant named `...Inv` holds the types of its module and the plainer invariants
with it, each a definition of its own: `LogInv` holds LogSpace, CommitAlone,
PinnedWhilePending and the absence of panics, `ProcInv` SchedSound, NoOrphans and
UniquePids, `PipeInv` WriterNotStranded, OpenWhileHeld and FreedLast, `InodeInv`
InUseAllocated, ValidAllocated, NoPanic and LockOrder, `BioInv` NoPanic and
OneBufferPerBlock, `VmInv` NoPanic, `ConsoleInv` FifoFits, `FileDataInv` InodeWritten,
`ShellInv` RefExact and PipeEnds.

Two processes are enough for the two roles of a race (committer and newcomer,
parent and child, tick and call); a third is there where somebody must wait while
two others act. Two values of a block tell old contents from new.

What must eventually happen is checked in proc_live and rlimit. Elsewhere it is
stated as what may not be: no process asleep (`NoLostWakeup`, `NotStranded`,
`ReaderNotStranded`) or blocked (`LineEnds`) unless somebody who can still run will
release it; with deadlock checking on, this leaves no way to be stuck.

Fairness. `Log!FairSpec`, for `SleeperWoken` (3 processes, 1 block, 1 value,
LOGBLOCKS 4, MAXOPBLOCKS 2, OpBlocks 1; it holds, and is not among the runs): a
process inside the log keeps running and the disk answers; nothing is assumed about
starting operations or writing. `Proc!FairSpec`:
a switch under way completes (weak); a pending timer interrupt is taken, the
scheduler's passes over the table reach each runnable process, a process gets on
in the kernel and spinlocks do not starve a waiter (strong); init keeps calling
wait(), as user/init.c does. `KilledExits` needs no more: a process killed in user
mode meets the next timer interrupt, one killed in the kernel a check of `killed`. It
leaves out the process that is past kwait's check and not yet asleep, which only the exit
of a child wakes. Run proc_live has one CPU; with two, TLC does not finish the liveness
check within half an hour. `Rlimit!HogSpec`: system calls return and the timer
keeps finding the process in user mode, which is what computing means.

## Disagreements between code and comments

Each can be seen by changing one line of a configuration or dropping one premise or
alternative of a property; none is among the runs,
which show what does hold.

* `pipewrite` returns on `killed()` without the wakeup every other way out makes
  (pipe.c:84), so bytes it stored may leave a reader asleep in the loop of pipe.c:113,
  "while(pi->nread == pi->nwrite && pi->writeopen)", until the next write or the last
  close. This is the last alternative of `ReaderNotStranded`: without it, run pipe
  ends in a counterexample.
* `setrlimit` refuses a CPU limit of 0 and one above the maximum ("limit must be > 0",
  sysproc.c:210; "exceeds system max", sysproc.c:216) and accepts a negative one, which
  is stored unsigned. MCRlimit.cfg with `CpuArgs <- WithNegative`, SPECIFICATION Spec
  and INVARIANT CpuLimitCapped shows it.
* `iput` drops its reference some time after it has freed the inode, without another
  look (fs.c:361). A number reused and unlinked meanwhile stays allocated until
  ireclaim at the next boot, although "If that was the last reference and the inode
  has no links to it, free the inode" (fs.c:333). MCInode.cfg with INVARIANT NoLeak
  shows it.
* `create` does not notice that its directory was removed while it waited for the lock
  (sysfile.c:254), nor does `link`; the new entry goes into a directory nobody will read
  again, and the inode keeps a link that no entry accounts for, whereas nlink is the
  "Number of links to inode in file system" (fs.h:36). DurableConsistent without its
  premise `~strayed` shows it, with 3 calls.
* A removed directory keeps its "..", and its parent loses the link that stood for it
  when it is removed. If the parent is then removed too and freed, a path that begins
  with ".." in a process still in the first directory ends in the panic of
  `ilock`, "ilock: no type" (fs.c:315); if the number was reused meanwhile, in the wrong
  inode. InodeInv without its premise shows it, with 3 calls from the image with a
  directory within a directory.

Further observations:

* `log_write` tests for a full log before it looks for the block in it, so an
  operation that used all of MAXOPBLOCKS could panic on rewriting a block (the
  premise of `PanicFree`; the calls in sysfile.c use fewer);
* a kill that falls between kwait's check and its sleep is noticed only when a child
  exits;
* `kill(0)` marks free slots, whose pid is 0, and the next child put in one is born
  killed (run proc includes the call, and its properties hold);
* `dup` and `pipe` obey `nofile_cur`, which stays NOFILE, and not `nofile_max`, the
  "per-process open file limit" of proc.h:95 that `open` tests;
* getrlimit returns in `rlim_cur` what is left of a limit, not the limit;
* a kill between consoleread's check and its sleep is noticed only with the next line;
* `uartwrite` does not look at `panicked`, although printf.c:142 says "freeze uart
  output from other CPUs";
* `inodepairs` looks at `f->ip` whatever the type of the file, and nothing clears `ip`
  when a slot is freed, so a pipe in a reused slot can be reported with the inode of
  the file before it (file.h: "FD_INODE and FD_DEVICE"); the processes it names are
  looked up after the lock is released and may have closed the file since.

## Proofs

All theorems hold for every value of the constants that satisfies the named
ASSUME of the module (`LogAssumption`, `ProcAssumption`, `PipeAssumption`,
`ConsoleAssumption`, `InodeAssumption`, `RlimitAssumption`, `RusageAssumption`), which
TLC evaluates in the runs. Where a theorem needs more of the constants, it says so.

* **LogProofs**, in three parts.
  *Control*: `TypeCorrect`, `AdmissionSafe` (LogSpace), `CommitsAlone` (CommitAlone),
  `WakeupPending` (NoLostWakeup), `PanicFree` (NoPanic, for operations of fewer than
  MAXOPBLOCKS blocks). The inductive invariant is `TypeOK /\ Control`: LogSpace alone
  is not inductive, as an operation's budget is spent by blocks that must be known to
  be in the log (`WriteSets`), and the log must be known to be empty when nobody owns
  it (`LogOwned`), or the first `begin_op` after a commit could be refused and sleep
  with nobody to wake it.
  *Data*: `LogInvariant` (LogInv, under the premise of `PanicFree`) and
  `DurableAtReturn` (DurableOnReturn). `DataInv` adds what the disk, the header, the
  log and the cache hold at each step of commit and of recovery. Its part about pins is
  stated for as long as there is no panic, so that the two theorems without the premise
  do not need it.
  *Refinement*: `LogImplementsAtomicDisk` (ImplementsAtomicDisk), without a premise.
  Each action is a step of AtomicDisk or leaves what it shows as it is: what the file
  system reads changes with `log_write` and a crash only, and what recovery would
  restore at one place only, the write of the header in `commit`.
* **RlimitProofs**: `TypeCorrect`, `CpuLimitHolds` (UserTicksBounded) and
  `HeadroomReported` (HeadroomExact). `RlimitInv` adds that an unmarked process is
  strictly below its limit, also below the one setrlimit is about to store.
* **ProcProofs**: `TableSound` (ProcInv), `OneCPUPerStack` (OneStackOneCPU) and
  `ExitsNoticed` (NoMissedExit), for any numbers of slots and CPUs. ProcInv is
  inductive, with one lemma for each action. The properties alone are not: that a parent
  does not sleep over a zombie rests on what a process has settled while it holds
  wait_lock (`Settled`), on who holds it (`WaitLockHeld`), and on what the state of a
  process says about its stack (`Stacks`).
* **PipeProofs**: `NoReaderStranded` (ReaderNotStranded), `NoWriterStranded`
  (WriterNotStranded), `PipeFreedLast` (FreedLast), `PipeInvariant` (PipeInv) and
  `PipeImplementsQueue` (ImplementsQueue), for any numbers of readers and writers, if
  there is one of each at the start, and any buffer smaller than the range of the
  counters. WriterNotStranded is not inductive: a reader with the lock might return
  without a wakeup. `SleepInv` says where it may not, in the copy loop, and who holds
  the lock. FreedLast is not inductive either: two processes may be closing the two ends
  at once, and which of them frees the page follows from an end being open exactly while
  it is held or its last holder has yet to call `pipeclose` (OpenWhileHeld), and from at
  most one process closing each end (`Closing`). `QueueInv` says that the counters are
  at most PIPESIZE apart, modulo `WORD`. The bytes between them are then the queue: a
  store at `nwrite % PIPESIZE` hits none of them, across the wrap too, as PIPESIZE
  divides WORD.
* **ConsoleProofs**: `InterruptsNesting` (InterruptsNest), `NobodyStranded`
  (NotStranded), `ConsoleInvariant` (ConsoleInv with FifoFits) and
  `ConsoleImplementsLineDiscipline` (ImplementsLineDiscipline), for any number of CPUs
  and any buffer whose size divides the range of its indices. The inductive invariant
  `IInv` has five parts. `NestInv` gives for each CPU the locks that the places of its
  two contexts imply, the depth of `push_off` they add up to, and the saved `intena`; it
  is why no `acquire`, `release` or `pop_off` panics, and why a process that holds
  `cons.lock` is never interrupted on its own CPU. `RingNow` orders `r`, `w` and `e` at
  most SIZE apart and keeps newlines out of the line being edited. `WriterInv` and
  `ReaderInv` say who will wake a sleeper; ReaderInv covers the process that is about to
  sleep and still has the lock. `RoomInv` counts the CPUs that have looked at LSR and not
  yet written THR: FifoFits alone is not inductive, a stale look could overrun it.
  **ConsoleSteps** has what concerns single steps: that each keeps `NestInv`, then
  `StepKinds`, which sorts the actions into those that only move a context (`Plain`) and
  the few that touch the ring, the transmitter or a sleeper, so that the other four parts
  and the refinement each argue about those few, and that these keep `RingNow`.
* **RusageProofs**: `TypeCorrect` and `TimeAccounted` (TimeNotDoubleCounted), from
  `RusageInv`: no mark lies in the future.
* **InodeProofs**: `RefCountsExact` (RefExact), for any processes, inodes, names and
  number of calls. The inductive invariant `RefInv` adds to RefExact that every pointer
  is one (`Pointers`) and which locals a call uses at each of its places (`Shape`): the
  count can only be followed through a step that overwrites a local if that local is
  known to be unused, or its reference to be owed to a later `iput`. Each action is
  shown to change `ref` by what its process holds after the step less what it held
  before (`Follows`), and the counts over all processes follow by cardinality. The
  theorem holds whether or not a call has strayed.

The modules start with `USE Zenon`: most steps are first-order, and those that need
arithmetic, sequences or records ask for SMT by name. The lemmas on remainders and on
counters that wrap are stated where they are used, in PipeProofs and ConsoleSteps.

Only model-checked:

* Inode's `DurableConsistent` and `InodeInv`. Neither is an invariant of the code without
  the premise `~strayed` (the last two disagreements above). With it both hold with 4 calls
  too (TLC: 3.9 million states, which is more than a run takes). A proof needs an
  invariant that bounds the entries of an inode by its links at every place of every call,
  durable image included, and is still to be done.
* Everything about Bio, Vm, Exec, FileData and File, whose invariants range over the
  contents of a whole disk or memory and are still to be proved.
* Shell and ShellParse: the parser is recursive, and neither what a recursive definition
  computes for every input nor a module that uses one is in the prover's reach.
* The liveness properties (`SleeperWoken`, and what proc_live and rlimit check), which are
  out of the prover's reach.

## Not modelled

* Saving and restoring of registers, the kernel page table, PTE bits beyond valid and
  writable, boot: straight-line or hardware state with nothing to interleave.
* The content of messages and what follows a panic.
* ELF headers and reading the executable, which in Exec simply may fail.
* In the shell: cd, blank lines, the termination of strings by nulterminate, and the way
  `sys_pipe` takes everything back when the array for the descriptors is not writable,
  which the shell's is.
* NINODE: Inode has an entry for every inode. That iget() panics when it runs out is
  plain from the code.
* The wrap of `ticks` after 2^32 ticks.
* The composition of Log with Bio: that all running operations and the log together
  stay within NBUF buffers is an assumption of run disk.
* Copying to and from user memory is atomic outside Vm and may fail where it can.
* The user library and the other programs, which are sequential clients.
