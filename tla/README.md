# TLA+ specifications of the CS 377 projects

The repository holds the projects of an operating systems course. Its largest
part is the xv6 kernel of `p4-student/xv6-public`, extended with threads
(`clone`, `join`) and a ticket lock; the other projects are user programs, each
about one mechanism (a bounded buffer, an allocator, a file system image, a
scheduler, a shell, sorting with processes and threads).

Run a check with `tlc -config X.cfg M` and a proof with `tlapm M.tla`;
`PROJECT.json` lists every run with its configuration, the properties and the
source lines each definition stands for.

## 1. The system

| Component | State | Operations | What is hard |
|---|---|---|---|
| Process table, scheduler (`proc.c`, `trap.c`, `exec.c`) | table of slots (state, pid, parent, chan, killed, kstack, pgdir), nextpid, ptable.lock | allocproc, fork, clone, exec, exit, wait, join, kill, sleep, wakeup, scheduler, yield | several cpus; a slot under construction is touched without the lock; exit races with wait; kill races with sleep; threads share an address space |
| Ticket lock (`proc.c`, `ticketlock.h`) | ticket, turn, proc | initlock_t, acquire_t, release_t | data race on turn; counters that wrap; two-step release |
| Log (`log.c`) | header, outstanding, committing, log and home blocks on disk | begin_op, end_op, log_write, commit, recovery | a crash between any two disk writes; log space; group commit |
| Pipe (`pipe.c`) | ring of 512 bytes, nread, nwrite, readopen, writeopen | pipewrite, piperead, pipeclose | sleep and wakeup under the pipe's lock; closing while the other end sleeps; counters that wrap |
| Buffer cache, disk driver (`bio.c`, `ide.c`) | list of buffers with refcnt and flags; request queue | bget, bread, bwrite, brelse; iderw, ideintr | a sector must have one buffer; the request queue is shared with an interrupt handler |
| Inodes, directories, files (`fs.c`, `file.c`, `sysfile.c`) | inode cache, free bitmap, file table | ialloc, iget, iput, bmap, itrunc, dirlink, namex, link, unlink, create | reference counts, lock order, crash atomicity through the log |
| Memory (`kalloc.c`, `vm.c`) | free list, page tables | kalloc, kfree, allocuvm, deallocuvm, copyuvm, freevm | partial failure in the middle of growing or copying |
| Spin and sleep locks (`spinlock.c`, `sleeplock.c`) | locked, cpu, ncli, intena | acquire, release, pushcli, popcli | interrupts, memory order |
| Console (`console.c`) | ring with r, w, e | consoleintr, consoleread | interrupt handler against reader |
| Bounded buffer, producer/consumer (`p3-student`) | circular array, mutex, two condition variables, done flag | append, remove, isEmpty; producer, consumer, main | termination: a flag read without the lock |
| Allocator (`p5-student`) | free list threaded through one mmap | my_malloc, my_free, split, coalesce | list surgery; boundary sizes |
| File system image (`p6-student`) | super block and inodes in block 0 | create, delete, read, write, ls | two writes per operation; scan limits |
| Schedulers (`p2-student/scheduling.cpp`) | priority queues over a list | fifo, sjf, stcf, rr | idle gaps, ties |
| Shell and init of xv6 (`sh.c`, `init.c`) | command tree; descriptors and file table | parsecmd, runcmd, main; open, close, dup, pipe, fork, exit | every process of a pipeline must close the ends it does not use, or the line never ends |
| Shell of p2 (`p2-student/tsh.cpp`), inverted index (`p1-student`), no-lock stack (`student`), simple allocator, merge sorts | small | see section 6 | lock-free updates, process trees |

The kernel's parts meet through `sleep`/`wakeup` (every blocking call ends in the
process table), through `begin_op`/`end_op` (every file system call is a log
transaction) and through the buffer cache (the log and the file system write
nothing else).

## 2. Modules

### Ticket lock: `TicketLock`, `FifoLock`, `TicketLockProofs`

`TicketLock` has one action per memory access of `acquire_t` and `release_t`.
`pc` says where a thread is, `currticket` is the local of that name, `reg` the
register that holds the loaded `lk->turn`. The constant `Rereads` is the set of
choices the compiler has in the empty spin loop, whose variable is not volatile:
`TRUE` loads it again in each round, `FALSE` once before the loop, which is what
the build in the repository does (`kernel.asm:8537-8540`). Threads call acquire and
release in any order, so the panics are reachable; `initlock_t` is called, as in
`locktest.c`, while no thread uses the lock. Counters are unsigned with a
`Modulus` that must exceed the number of threads (64 processes against 2^32).

`FifoLock` is the abstract lock of the project's README: a queue of threads, the
head of which may be inside. `TicketLock` implements it (`FifoOrder`), the queue
being read off the outstanding tickets.

### Process table: `ProcTable`, `MCProcTable`, `ProcTableProofs`

Each section of `proc.c` under `ptable.lock` is one action; the parts of
`allocproc`, `fork` and `clone` outside the lock are actions of their own, between
which everybody else moves. `lock` is set while a process that was resumed inside
`wait` or `join` holds the lock it was handed by the scheduler. `Dispatch` is
`scheduler`, `Yield` the timer interrupt (any process that runs with interrupts
on), `Kernel` the steps of a process inside a call and `User` the calls it may
make. `live` is the set of page directories that are allocated. The bad stacks
of `clone` are `CloneRejects` (unaligned or too short) and
`CloneShares(p, FALSE)` (the page is not mapped, so `copyout` fails); running out
of memory is possible at each allocation. `Sleep` and `Wakeup` stand for
the rest of the kernel: the blocking calls of other components and the interrupt
handlers.

init makes only the calls of `init.c` and `initcode.S` (`InitCalls`); it exits when its
fork fails, or when it is killed, and the kernel panics (`InitExits`).

Left out: the file table copied by fork and closed by exit, `sz`, names, and what
exec loads. exit's `begin_op`/`end_op` before its final section may sleep and
changes no slot.

The constant `Disciplined` restricts the user programs to the way `locktest.c` and
`jointest.c` use threads: join them before exit, exec or wait, and no exec by a thread.
The kernel does not enforce it and `clonetest.c` does not follow it; only the run
`proctable` sets it, for `AddressSpacesLive`, which is false without it (section 6).
`proctable_live`, `join_hangs` and all theorems do without.

### Log: `Log`, `AtomicDisk`, `LogProofs`

`home`, `logged` and `head` are what is on disk; everything else is lost in a
`Crash`, which may fall between any two steps, those of recovery included. Each
section under `log.lock` is a step (`BeginOp`, `BeginSleeps`, `LogAppend`,
`EndOp`, `EndCommit`) and so is each `bwrite` of `commit` (`CopyToLog`,
`MarkCommitted`, `Install`, `EraseLog`) and of `recover_from_log`. An operation is any
sequence of writes to at most `OpBlocks` different blocks. `Evict` is the buffer
cache's right to drop a clean buffer that nobody holds, which `BufferCache`
justifies.

`AtomicDisk` says what a file system call relies on: writes are seen at once, they
become stable all together at a moment when no operation is open, and a crash
goes back to the last such moment. `Log` implements it (`CrashAtomic`); the stable
contents are what recovery would find, the log over the home blocks if its
header has been written.

The constants keep apart two numbers the code confuses: `begin_op` reserves
`LOGSIZE` = 30 blocks, but `mkfs.c:25` gives the log 30 blocks with the header
among them, so 29 hold data. Three operations of `MAXOPBLOCKS` = 10 blocks each
would be admitted and could reach the panic of `log_write`. The operations of
`sysfile.c` and `file.c` write fewer (`filewrite` splits its data so that it
stays below the limit, `file.c:133`), and `OpBlocks` below `MaxOpBlocks` says so;
with `OpBlocks = MaxOpBlocks = 2` TLC violates `LogFits`.

### Buffer cache: `BufferCache`, `MCBufferCache`, `BufferCacheProofs`

`bio.c`, the sleep-lock of each buffer and the request queue of `ide.c`. Sections
under `bcache.lock`, `idelock` and the spin-lock in a sleep-lock are steps;
`Ideintr` is the interrupt handler. `lru` is the list of the cache; `active` what
the disk was told to do by `idestart`, so that a handler that forgets to start
the next request leaves it forever undone. `LogWrite` is the other client:
it leaves the buffer dirty and releases it. A process uses one buffer at a time
(in xv6 up to three, in one order), the device reports no errors, and the log
pins at most `MaxPinned` buffers. When no buffer is free bget panics (`BgetPanics`), and
nothing moves any more; nothing is assumed of the number of buffers, since `NBUF` = 30 is less
than `NPROC` = 64 processes and the blocks that the log pins.

### Pipe: `Pipe`, `ByteStream`, `PipeProofs`

One step per byte copied, with `lock` the pipe's lock held across them. `kill`
takes `ptable.lock` only, so it can fall between a check of `killed` and the
sleep: `Sleep` is a step of its own after `WriteWaits` and `ReadWaits`. `ends` holds
the references of each process; the last close of an end calls `pipeclose`, the
last close of all frees the pipe. A process that inherits an end by a
later `fork` is one that has not used it until then, so all distributions of the
ends in Init cover fork. `ByteStream` is the abstract pipe: a bounded queue of bytes
with two flags; `IsStream` maps `data`, `nread` and `nwrite` to it and shows each byte
and each result to the process that gets it.

A writer that is killed while the pipe is full returns -1 without waking readers
(`pipe.c:86-89`), although it may have put bytes in before. The bytes
stay in the pipe, and a reader that slept meanwhile is not told. `NoReaderMissed`
therefore holds until a process is killed and says so; `EndSeen` shows that such a
reader is woken at the latest when the write end closes.

### Bounded buffer: `BoundedBuffer`, `BoundedQueue`, `ProducerConsumer`, `ProgramsProofs`

`BoundedBuffer` has the class's methods: a critical section, from the lock or the
end of a wait to the unlock or the next wait, is one step. `at` says in which
call a thread is and whether it waits, wakes up (by a signal or spuriously) or
is about to look at the counter. `ProducerConsumer` EXTENDS it with the loops of
the two kinds of thread. Items are known by their number in the order
of production. The check `buffer->isEmpty() && done` is two steps (`CheckEmpty`,
`CheckDone`), as `done` is read without the producers' lock. `file` holds which
items `output.txt` says were produced and consumed; the threads' numbers and the
sleeps between rounds are left out. `BoundedQueue` is the abstract buffer
(`IsQueue`).

### File system: `Names`, `FileBlocks`, `FileSystemProofs`, `MCFileSystem`

Two halves that share only inode numbers. `Names` has directories, path names and the
inode cache under create, mkdir, open, link, unlink, chdir and close. A step goes from
one acquisition of an inode's sleep-lock to the next, so a lookup lets others in at
every element of the path. Elements may be `.` and `..`, which are entries of a directory
like others. `dinode` is the disk, `inode` the cache with `ref`, `valid`
and the lock; `call` holds a process's locals, with `put`, `ok`, `bad` and `ret` standing
for the returns of `iput` and `namex`. `iput` is three steps (`Iput`, `Ifree`, `Idrop`), because
it looks at `ref`, frees the inode and drops the reference under different locks. Each
call runs with its error paths: a file where a directory is needed, a name that exists
(`Existing`, `Exists`), a directory that is not empty (`Refuses`), a link that is counted and
taken back (`LinkBad`).

Nothing counts the `..` of a directory that was removed and is still open or somebody's working
directory, so it may name an inode that has been freed. `Strays` is the lookup that follows such a
`..` to an inode of no link, and the history variable `strayed` says that one has taken place. After it
the code may do anything up to the panic `ilock: no type`, and the model does; `LinksHold` and `InUseKept`
are about the time before, and `LinksHold` also says that only a removed directory leads there.

`FileBlocks` has the bitmap, `bmap`, `itrunc`, `readi`, `writei`, `filewrite`'s chunks and `fileread`.
Each block allocated, copied or freed is a step, so that two processes on two inodes meet in
the bitmap. `mkfs.c` runs first, on an empty disk: `iappend` takes a block (`MkfsBmap`) or copies a
cell (`MkfsCopy`), for the root's entries and one input file, and `MkfsEnd` rounds the root's size
and writes the bitmap. No process runs before that. What is
written is a function of inode and offset, and is a valid block number, so that a block
used again as an indirect block without being cleared gives wrong addresses. `length` is the
reference: how many bytes were written to an inode. `blocksPanic` is the panic of `balloc` on a full
disk or of `bfree` on a block that is free already, which `BlocksOwned` excludes. A file that `sys_open` creates stays
there if the file table is full (`FileTableFull`).

Left out: device files, `stati`, `mknod`; transactions are in `Log`; an inode in `FileBlocks`
has a name or none, which `Names` decides. `dirlink`'s search for an empty entry does not
matter to what a directory maps names to.

### Memory: `Memory`

`kalloc`, `kfree`, `setupkvm`, `mappages`, `allocuvm`, `deallocuvm`, `copyuvm` and `freevm` under `sbrk`,
`fork`, `exec` and the end of a process. Every `kalloc` is a step that fails when the free list is
empty, and each failure runs the clean-up of the code at that place (`Fail`, with the pages in
hand). An address space is the page of its directory, the kernel's tables taken as one, its
page tables and its pages. The free list is a set. `exec` builds a
second address space, loads its segments and its stack, and commits or goes to `bad`, for want of memory
or because of what is in the file (`ExecBad`): before a segment, after its pages are mapped, or at the arguments. A process
that gives all its memory back (`faults`) gets -1 from sbrk with the pages gone and runs no
further. Segments, cr3, the guard page's bit and the copies of `loaduvm` and `copyout` are left out; threads
with one page directory are in `ProcTable`.

### Console: `Console`, `Terminal`

The ring with `input.r`, `input.w`, `input.e` counting modulo `IndexMod` (2^32 in the code),
`consoleintr` per character, `consoleread` with its lock, sleep and kill, and the cursor of
`cgaputc`, which starts where the BIOS left it, anywhere above the last row. `Terminal` is the abstract line discipline (a line being edited, a queue of what was handed
over, one line or end of file per read), which `Console` implements (`IsTerminal`). Left
out: `cprintf`'s formats, scan codes, serial registers, the characters on the screen.

### Shell: `ShellParser`, `Shell`, `ProgramsProofs`

`ShellParser` is the recursive descent of `sh.c` on tokens, with its panics as no result. It
is checked against the unparser: every command two operators deep comes back from its text
(`ParsesBack`); its commands have one word at most, so `MAXARGS` is not met. It needs RECURSIVE operators, so only TLC uses it. `Shell` runs any
command trees (`Commands`; a typed line is what `parsecmd` makes of it, nothing when it panics, and `MCPrograms`
puts the parser before it): `runcmd` gives the
system calls of a command, and each call is a step on descriptors, `ftable` and pipes, with the
copies that `fork` makes. `exit` closes one descriptor per step (`ExitCloses`) before the process is gone (`Exit1`). A program is what liveness depends on: one
named in `Filters` ends when its input does, another ends at once. `init` restarts a shell that
exits, unless its own fork fails (`InitFails`): then it exits and the kernel panics. `cd`, the text of lines and a
pipe that is full are left out; what a writer does at a full pipe is in `Pipe`.

### p2 and p6: `Scheduling`, `DiskImage`

`Scheduling` has `read_workload`'s order and the loops of fifo, sjf, stcf and rr, one round per
step, on the same workload one after the other, with the sums of the two averages.
`DiskImage` has p6's create, delete, read and write: the block list and the inode are
two writes, and the second stays in the stream's buffer until the next seek, so that `Killed`
leaves half an operation on the disk. `delete_file` compares eight characters of a name, `read` and `write` compare up to a
NUL, which a name of eight characters does not have (`LongNames`, `Matches`).

`PartsProofs` has the proofs about `Memory`, `Console` and `DiskImage`.

### Compositions for TLC: `MCFileSystem`, `MCParts`, `MCPrograms`

Components without common state are checked in one run; `part` or `program` says which of
them a behaviour runs, and the others stay as they begin. `MCFileSystem` runs the names
(with links, with working directories, or with `.` and `..`) or the contents; `MCParts` the log, memory, console, parser,
schedulers and p6's disk; `MCPrograms` the shell or the producer-consumer program, each
under its own fairness.

## 3. Runs

| Run | Instance | What it shows |
|---|---|---|
| `ticketlock` | 3 threads, counters modulo 4 | `MutualExclusion`, the FIFO lock as an abstraction, and that everyone with a ticket gets the lock |
| `ticketlock_hoisted` | the same, one load of `turn` | violation: the build's spin loop never ends |
| `proctable` | 4 slots, 2 cpus, 5 pids, programs that join their threads | no page directory freed in use, no zombie missed, every child has a parent that started, clone returns its own thread's pid |
| `proctable_live` | 3 slots, 2 cpus, 3 pids, all calls but exec, no discipline, fairness | no kill missed by a sleeper in wait or join, init reaps every zombie, its own and the inherited, killed processes exit |
| `join_hangs` | 3 slots, clone/exit/join | violation: join sleeps for a thread that never was |
| `buffer_cache` | 2 processes, 3 buffers, 4 blocks, 2 pinned | one buffer per block and exact reference counts, every request served, contents change by writes only |
| `pipe` | 2 processes, 2 bytes, counters modulo 4, sizes 0 and 3 | a bounded stream, no lost wakeup, no use after free, a close is seen |
| `filesystem` | names: 2 processes, 3 inodes, a directory and a file, `.` and `..`; contents: 2 processes, disks of 7 and 8 blocks, blocks of 2 cells, 1 direct and 2 indirect | no dangling name and no inode freed in use before `strayed`, one owner per block, what was written is read |
| `names_deadlock` | the names | violation: create and unlink wait for each other |
| `parts` | log: 2 processes, 3 blocks, log of 4; memory: 2 processes, 12 frames, 4 user pages; console: ring of 2, indices modulo 4, 2 readers, screen of 2 by 3; parser: 2 operators deep; schedulers: 3 jobs, times up to 3; p6: 4 blocks, 2 inodes, 3 names, one of them long | `CrashAtomic`, `LogFits`, `CommitAlone`, `SleepersWoken`; `PagesOwned`, `SizeMapped`; `IsTerminal`, `ReadersWoken`, `CursorOnScreen`; `ParsesBack`; `SchedulesRight`; `ImageSound` |
| `programs` | shell: 4 slots, 4 files, 6 descriptors, 1 pipe, 8 lines; buffer: 2 + 2 threads, 2 places, 3 items | exact reference counts, the prompt comes back; a FIFO queue, no lost signal, no number lost or doubled, an item is consumed if a consumer has yet to look |
| `producer_consumer_quit` | 1 + 1 threads | violation: the consumer can wait for ever |

Why the bounds are enough to reach the hard cases:

- *Ticket lock.* With modulus 4 and three threads, tickets and turn wrap several
  times with two threads waiting, and one more thread would break
  `ModulusAssumption`.
- *Process table.* Four slots are needed for
  a process that exits with a child of its own, so that init inherits a running child
  and a zombie. `MaxPid` bounds the processes ever made and slots are used again
  within it. Two cpus let two processes be in the kernel at once. `proctable_live`
  has three slots: init, its child and a grandchild or a thread of the child. So the child
  forks, clones and sleeps in wait and join, the table is full for it or not, a kill meets it or the grandchild
  anywhere on the way, and when it exits first init inherits the other one, running, under construction or a zombie.
  With `MaxPid` = 4 (116,000 states) TLC finds no error either.
- *Log.* Two operations share a commit, absorb each other's writes of the same
  block, and fill the reservation, so that `begin_op` sleeps for space as well as for
  a commit. Crashes are unlimited in number.
- *Buffer cache.* Four blocks do not fit in three buffers, so used buffers are recycled;
  the two processes meet on one block, at the sleep-lock and in the disk queue. With two buffers pinned
  the second process finds none and bget panics.
- *Pipe.* A write of three bytes blocks at a pipe of two; the counters wrap; a
  write of zero bytes returns at once.
- *Names.* Two processes and a path of two elements put one process anywhere in the
  middle of a lookup while the other removes what it has reached. Three inodes are the root,
  a directory and a file, and they run out. In the part with dots a process has removed its working
  directory's parent while it, or the other, goes up by `..`: `strayed` and the panic after it are reached there.
- *File contents.* A write of three cells crosses a block and needs the indirect block; both disks
  run out of blocks in the middle of a write, and removed files' blocks are used again as
  data and as indirect blocks.
- *Memory.* Twelve frames hold two small processes and the start of a third address space
  (in exec), so every kalloc of every call fails in some behaviour.
- *Console.* Indices wrap, a line fills the ring, and two readers compete for it.
- *Shell.* Four slots are the shell, a pipeline's parent and two children; nested pipelines
  then fail to fork, and with four files opens and pipes fail too. Two processes that exit at once close their
  descriptors in any order.
- *Schedulers.* Three jobs give ties, preemption of a preempted job, and gaps.
- *p6.* Two inodes and three data blocks run out, each before the other; writes are to every block of a
  file from 0 on, and to one past its end.
- *Bounded buffer.* Both producers may wait at the full buffer, or one of them while the other, awake, takes the
  place that the signal was for; of the consumers `c_lock` lets one into `remove()` at a time. `BufferSignals` is proved for any callers. The buffer gets full and the indices wrap.

Symmetry is used where no definition tells the elements apart: page directories in
`proctable`, processes, buffers and blocks in `buffer_cache`, and processes in
`filesystem`. The runs without deadlock checking are those in which the system may really
stop: every pid is used up (`MaxPid`), both ends of the pipe are closed and a reader sleeps on
its own pipe, the file system panics (no inode, no block) or two processes wait for each
other (`names_deadlock`), or all threads have quit. `parts` has a step `Ended` for the parts
that return, and checks the others for deadlock.

## 4. Fairness

- *TicketLock*: weak fairness of a thread inside a lock call, and of its release
  once it holds the lock. Every thread is preempted by the timer, also in the spin loop
  (`trap.c:103-107`), and gets a cpu again. Acquiring is not fair: programs call when they
  like.
- *ProcTable*: strong fairness of `Dispatch` per slot (the scheduler goes round the table),
  and of what a process has to do once it has a cpu (`Obliged`): the steps inside a call, the exit of a killed
  process, and init's calls of wait (`init.c`). Being preempted
  disables them again and again, and a time slice is long enough for a step. Weak fairness of `Yield`
  (the timer) and of `Wakeup` on the channels of devices. Nothing is assumed of user programs, in particular not that they exit.
- *Log*: an operation ends if it can again and again (strong, since it waits for
  commits), `log_write` and the commit go on, and recovery goes on. A begun operation
  never waits for one that has not begun.
- *Pipe*: a process in the kernel goes on (weak), and gets a lock that is free again
  and again (strong; xv6's spin-locks are not queued, and contention is short).
  Nothing makes a process read, write or close.
- *ProducerConsumer*: weak fairness of each thread. Spurious wakeups are possible and never
  relied on.
- *Shell*: weak fairness of each process's next system call, a filter's end when its
  input has ended, and init's restart. Nobody has to type a line; a program that reads the
  console ends, as somebody types an end of file sooner or later.

In `parts` and `programs` the fairness of a component applies to the behaviours that run it.

## 5. Proofs

The theorems hold for every value of the constants that the named assumptions
allow, and with them every number of processes, slots, buffers, blocks or pages. Each rests
on an inductive invariant, since none of the properties is inductive as it stands; every
inductive invariant was checked by TLC on the instance of the run before it was proved. A
proof has a lemma per action and under it a step per conjunct that the action can disturb.

- **TicketLockProofs**, from `ThreadsAssumption`, `ModulusAssumption`, `RereadsAssumption`. `MutualExclusion` needs to know
  why the served thread is unique: `IInv` says that the outstanding tickets are those of
  a queue, one each, from `turn` on modulo `Modulus` (`TicketsOfQueue`), that a thread
  past the loop is the one whose ticket is `turn` (`TurnOfServed`), and that `proc` is
  that thread exactly while it holds the lock (`ProcOfServed`). The
  queue is shorter than `Modulus`, so tickets differ. Both compilations of the loop
  are covered: safety does not depend on the reload. The same invariant gives the refinement
  `FifoOrder`: `acquire_t`'s fetch-and-add is the abstract enqueue, setting `proc` the entry of
  the head, clearing it the exit, and `++lk->turn` takes the thread off the queue.
- **ProcTableProofs**, from `SizeAssumption`, `NilAssumption`, `ChansAssumption`. A process that builds a slot does so outside the
  lock, so the invariant says who owns which EMBRYO slot (`EmbryoOwned`, `EmbryoDistinct`,
  `EmbryoParent`), that only started processes are inside the kernel (`KernelStarted`), that
  pids come from below `nextpid` (`PidsGiven`), that init is the root (`Rooted`) and that a
  sleeper in wait or join sleeps on its own slot (`SleepsOnSelf`), where exit looks for it.
  From it follow `PidsUnique`, `ParentsStarted`, `NoZombieMissed`, `NoKillMissed` and
  `CloneReturnsThread`. `NoSpaceFreedInUse` proves `AddressSpacesLive` for all programs that do not call
  `clone`, with kill, and whatever they wait for: exactly the threads are what breaks it (section 6), and with them
  the property of disciplined programs is TLC's (`proctable`). The invariant added is
  that nobody is inside clone (`NoClones`) and that every process not yet reaped, and every slot that a fork is
  about to publish, has a page directory that is allocated and nobody else's (`OwnSpaces`); fork's copy is taken from the
  free ones, and wait and exec free what only the process reaped, or the caller, had.
- **LogProofs**, from `LogAssumption` and, from `LogFits` on, `RoomAssumption`. `IInv` is `Counted`
  (log.outstanding is the number of running operations) and `Alone` (log.committing is set exactly
  while somebody commits, and then nobody runs). Hence `CommitAlone`, and end_op's panic is
  unreachable. `FitInv` adds the accounting that makes log_write's unlocked look at the size safe:
  an operation has a token for each block it may still add (`Tokens`), and the length of the log plus the tokens
  stay within `Bound` (`Reserved`). `begin_op` only counts the operations, not what they have
  written, so the bound uses that at least two run when space is short. `RoomAssumption` is the condition
  under which `Bound` fits on the disk: operations write fewer blocks than reserved (section 2).
  `CrashInv` adds what is where at each step of commit and of recovery: `HeaderRight`,
  `TailRight`, `CopiedRight`, and that a block whose cached contents differ from the disk's is
  in the log or still held (`CacheRight`). It gives the refinement `CrashAtomic`: exactly the
  write of the header changes the stable contents, and a crash at any step, recovery's
  included, leaves them.
- **BufferCacheProofs**, from `CacheAssumption` (finite sets; nothing about their sizes). `IInv`: the list has every buffer (`ListComplete`), a lock has the holder
  that the labels say (`LocksHeld`), refcnt counts the users (`RefsCounted`), a block is in one
  buffer (`BlocksApart`), the flags fit the label (`FlagsRight`), the request queue is made of the sleeping
  requests and the disk has the contents of its head (`QueueRight`), a clean buffer is what the
  disk has (`CleanIsDisk`), and few buffers are pinned (`PinnedBounded`). Hence `RefsExact`, up to bget's panic, `RequestsServed`, and the action
  property `OnlyWritersChange`: neither recycling
  a buffer nor the interrupt handler changes what a reader of the block would find. `BgetFindsBuffer` says when bget's panic can happen: with
  fewer buffers than processes and pinned blocks together. A process in bget uses none itself, so the buffers in
  use and the pinned ones leave one otherwise. xv6's `NBUF` is below that bound.
- **PipeProofs**, from `PipeAssumption`. `IInv` adds to the type that the lock is held exactly by the process in a locked
  section, that `readopen` and `writeopen` say whether a process has that end
  (`EndsCounted`), and, for each side, that a sleeper or a process on its way to sleep has a
  reason (`ReadersRight`, `WritersRight`). For the refinement `IsStream`, `StreamInv` adds that
  the unsigned difference of the counters is at most the size of the ring (`Bounded`) and that
  a reader only reports the end when it has come (`EndRight`). The bytes of the
  abstract stream are those from `nread` to `nwrite`, across the wrap; the size divides
  the counters' modulus, as 512 divides 2^32, or the positions would not be consecutive.
- **ProgramsProofs**, the bounded buffer, from `BufferAssumption` and `ProducerConsumerAssumption`. `NoSignalMissed`, with the type of the buffer, is inductive: as
  long as a thread waits in remove, every item has a thread of its own that is awake
  and on its way to it, and the same for free places and append. It is proved of `BoundedBuffer` for any callers, and carried over to the
  program by showing that its steps are steps of the buffer. So is `IsQueue`. `Accounted` is
  about the whole program: `CountInv` follows each number from the producer's local
  through the buffer to the consumer's local and the file, the item before its report included.
- **ProgramsProofs**, the shell, from `ShellAssumption`: commands are made of commands, redirections are of 0 and 1, and a
  process has five descriptors or more (16 in `param.h`). `RefsRight` and `EndsRight`, which are `FilesExact`, are not inductive:
  `fdalloc` must find a descriptor for `dup`, `open` and `pipe`, or the count of a file grows and nothing refers to it. `ProcRight` therefore says,
  for the calls that a process has left (`Shape`), which of its descriptors may be open: none above 2 but the
  ends of its pipe, and 0 or 1 free before `dup` and `open`. That every list of calls comes from a command is
  `CallLists`. `FilesRight` says that a file nobody refers to is cleared and that an end of a pipe is one file's, so that
  `fileclose` of the last reference closes an end that nobody else has. References are counted by process:
  a step changes the descriptors of one (`RowChange`), and `exit` or `close` takes away as many references as it had descriptors
  (`CountsShrink`), `fork` and `dup` add them (`CountsGrow`).
- **PartsProofs**, the console, from `ConsAssumption` (the ring's size divides the indices' modulus). `ConsInv`:
  the lock and the counts of the readers (`LockHeld`, `Counting`), a sleeper has seen the ring empty
  (`Waiting`), `e` is never more than a ring ahead of `r` (`RingBounded`), and the line being edited
  has no newline (`LineClean`), where consoleintr's kill and backspace stop. Hence
  `ReadersWoken` and the refinement `IsTerminal`. `CursorOnScreen` is inductive with
  `ConsInv`, which bounds the backspaces that erase a line.
- **PartsProofs**, memory, from `MemAssumption`. Every place that can refer to a page is a cell: of a slot or of a
  call under way, one per page table entry, the kernel stack and the page in hand (`Cells`, with
  `CellValues`). `MemInv` says that a page in use is in one cell and not free, and that a page in no cell is free
  (`OwnedOnce`), and `Shape` says what a clean-up relies on: what a call has
  built at each label (`JobRight`), which pages are mapped at each round of
  allocuvm and copyuvm (`SizeRight`), that fork's child has a kernel stack and nothing else
  and is no other fork's (`ChildrenRight`). Lemmas on taking a page, freeing a set of them, moving one and
  swapping address spaces carry every action. Hence `PagesOwned` and `SizeMapped`: no failure of kalloc, wherever
  it happens, loses a page or frees it twice, and the panics of mappages and copyuvm are unreachable.
- **PartsProofs**, p6's disk, from `ImageAssumption`. `ImageInv` is about the files as the program sees them, that is with
  the inode that waits in the stream's buffer (`FilesSound` of `Current`), and says as long as no deletion was cut
  in half that a creation in the buffer is of an inode that is free on the disk. Hence `ImageSound`, also
  after a kill, which loses the buffer: the blocks of a lost creation stay marked and belong to nobody. That
  create_file's search finds different free blocks (`Allocated`) is proved
  by a least counterexample.
- **FileSystemProofs**, names, from `NamesAssumption`, for all paths, through `.` and `..` too. The inductive invariant
  is `NamesRight`: `strayed`, or `NamesInv`, `DotsRight` and `PanicRight`. `DotsRight` says that a directory's `.` is itself, that it has a
  `..` and that the root's is the root, but for one just allocated by create, which nobody else reaches (`Fresh`). With `TreeRight`, `..` of
  a directory that has a name is the directory that has it, so only a removed one's can lead
  to an inode of no link (`StraysFrom`). Once a lookup has `strayed` nothing
  more is claimed. `NamesInv` says:
  the locals are set as the label needs them (`FrameRight`); `ref` is the number of pointers
  (`RefsRight`); the cache agrees with the disk (`CacheRight`); a process has the locks that its label
  says (`LocksRight`) and the inodes it points to are allocated (`KeepsRight`), but for iput's own after the test;
  nobody can come to the inode that iput frees (`FreeRight`: its one reference is iput's and it has no link);
  the entry that unlink erases, and the gap that create fills, are still there (`EraseRight`, `NewRight`), which the
  directory's lock makes true between the steps. `LinksCounted` is stronger than `LinksHold`: it also counts the links that sys_link has
  counted and not yet entered and those that sys_unlink has erased and not yet uncounted (`Pending`), and one for the root.
  `TreeRight` says that a directory has one name, in the directory that its `..` names, or
  removing an empty directory would take the link off another parent. Hence `LinksHold`, with the panics `ilock: no type` and
  `unlink: nlink < 1` unreachable before `strayed`, and `InUseKept`.
- **FileSystemProofs**, contents, from `BlocksAssumption`: a block number 0 is none, and the entries of an indirect block fit
  into a block. The places a block can be in are the pairs of an inode and a block number, in the order in which itrunc comes to them
  (`SlotsOf`, `ValuesOf`). `PlacesRight` says that a block in use is in one place and any other in none, with the places that a running
  itrunc has come past counted as empty: the entries it leaves in the indirect block are not there any more, although the
  bytes are. `Enters` and the lemmas on taking, freeing and copying are about places only, and mkfs and bmap share
  them: mkfs takes `freeblock`, and `MkfsRight` keeps the blocks from there on cleared and free. `BlocksInv` also
  says who holds an inode's lock (`OwnersRight`), that memory and disk agree on an unlocked inode (`InodeRight`),
  where writei and itrunc are (`ChunkRight`, `TruncRight`), and that the byte at every offset, up to the size and up
  to where writei has come, is where readi looks for it (`BytesRight`). The conjunct of `ChunkRight` that the file will have grown
  if its addresses were changed is what makes writei's test before iupdate enough: an address that is not yet on disk is of a block past
  the size. Hence `BlocksOwned` and `ReadsBack`.

Only model-checked:

- all liveness properties (`AcquireReturns`, `OrphansReaped`, `KilledExits`, `SleepersWoken`,
  `EndSeen`, `ItemsConsumed`, `PipelinesEnd`), as fairness and ENABLED are out of the proof system's reach;
- `ParsesBack`: recursive operators;
- `SchedulesRight`: that no algorithm has a smaller sum of turnarounds than stcf is a
  statement about folds over lists, which needs an induction over data (the proofs
  here use only that a set of natural numbers has a least one).

`HoldingExact`, `TicketsOfQueue`, `PidsUnique` and the type invariants are proved and are not
repeated in the runs.

## 6. Findings, limits, plan

Four runs end in a violation. In each the code does something else than the
project's documents say (quoted in `PROJECT.json`):

1. `ticketlock_hoisted`: `lk->turn` is not volatile, and the build loads it once
   (`kernel.asm:8537-8540`); a thread that has to wait never stops.
2. `join_hangs`: `clone` fails after `allocproc` without giving the slot back. When copyout
   fails, the caller's next `join` sleeps for ever for a thread that never ran.
3. `names_deadlock`: `create` has the new inode locked when `iunlockput(dp)` takes dp's lock a second
   time in `iput` (`fs.c:334`); an unlink of the new name, in between, has dp locked and waits for
   the new inode.
4. `producer_consumer_quit`: a consumer that finds `done` unset goes into `remove()` and
   never looks at `done` again. `AllQuit` fails in a second way too, which loses an item: a consumer finds the
   buffer empty, the producer appends the last item and sets `done`, and the consumer reads `done` and quits; with two producers
   `done` may also be set between the other one's count and its append (`ProducerConsumer.cpp:68`, `75-77`). TLC finds it with
   one producer, one consumer and one item. p3's README:52-54 asks that all items be consumed before the threads
   quit. `ItemsConsumed` holds in the run `programs` as it only speaks of items that find a consumer that has yet to look.

What the models met on their way and leave out, each at its place in the code:

- `wait` reaps a thread like a process and frees the address space it shares with its
  parent (`proc.c:293`); a process that exits or is killed before it has joined leaves its thread to init's wait, which does
  the same. With `clone` `AddressSpacesLive` is therefore about programs that join (`Disciplined`, without kill); without `clone` it
  is proved of all.
- bget panics when the buffers in use and pinned are all there are (`bio.c:92`); the run `buffer_cache` reaches it.
- `kill` does not look at the state of a slot: `kill(0)` marks a free one (`proc.c:487`).
- A relative create or link in a directory that was removed makes an inode whose name nobody can reach
  and whose blocks are never freed; the requests of `filesystem` have no such path. The same
  comes from a create that has reached the directory when it is removed. `LinksHold` therefore says
  that no name dangles and does not say that every inode has a name.
- Two `iput`s that both read `ref` = 2 leave an unlinked inode allocated for ever (`fs.c:337`).
- `..` of a removed directory may name an inode that is free, being freed or used again: `strayed`, after which the panic
  `ilock: no type` is reached in the run.
- `link("f", ".")` never returns: `dirlink` finds the entry `.` and calls iput on the directory that the process has locked
  itself (`fs.c:560`, `334`).
- `mkfs` rounds the root's size up by a block also if its entries fill the blocks exactly.
- `sbrk(-sz)` returns -1 after giving the pages back; threads with one page directory have
  a `sz` each, and the second `sbrk` panics with `remap` (`proc.c:165`).
- A disk error marks the buffer valid without data (`ide.c:118`).
- fifo and sjf never end on a job of duration 0; rr on a workload with a gap counts down a job that is
  not there (`scheduling.cpp:249`); `Return` skips rr on such a workload.
- p6: a file whose name has eight characters and that has blocks cannot be read or written, as `strcmp` runs on into
  the size (`fs.cpp:183`, `227`), and can be deleted. A delete cut in half leaves a file whose blocks count as free (`ImageSound` says nothing
  after it); a file of more than eight blocks overruns `blockPointers`.
- p5: `split` leaves `next` of the new node to what the memory held (`my_malloc.cpp:119`).

Not modelled, and why: spin-locks (sections under one are steps; what is below is hardware),
device programming and start-up (I/O only), the contents of ELF files and the fetching of
arguments (data conversion), mknod and fstat (one assignment each), the p2 shell (a
smaller version of the one modelled), p5's allocator (undefined after the first split), the other user
programs and `usertests.c` (clients, read for what they expect of the kernel), the p1 and
sorting exercises (string handling and textbook recursion), and older copies of sources.

Plan, next: `Memory` with threads that share a page directory, where `growproc` races with itself.
