-------------------------------- MODULE Log --------------------------------
(***************************************************************************)
(* The redo log of xv6-public (log.c) with the part of the buffer cache it *)
(* relies on: dirty buffers stay in the cache, clean ones may be dropped   *)
(* and read again.  A crash may fall between any two disk writes, also     *)
(* during recovery.  Each section under log.lock is one step, each bwrite  *)
(* is one step.                                                            *)
(***************************************************************************)
EXTENDS Integers, Sequences, FiniteSets

CONSTANTS Procs,        \* processes that make file system calls
          Blocks,       \* home blocks
          Data, Empty,  \* contents of a block, and the initial one
          LogSize,      \* LOGSIZE, the blocks the reservation counts on
          DiskLogSize,  \* log.size, the blocks on disk, the header included
          MaxOpBlocks,  \* MAXOPBLOCKS
          OpBlocks      \* the different blocks an operation really writes

ASSUME LogAssumption ==
    /\ IsFiniteSet(Procs) /\ IsFiniteSet(Blocks) /\ Empty \in Data
    /\ LogSize \in Nat /\ DiskLogSize \in Nat
    /\ MaxOpBlocks \in Nat /\ OpBlocks \in 1 .. MaxOpBlocks

\* No operation writes all the blocks begin_op reserves for it, and what two of
\* them leave over makes up for the header block.  With LOGSIZE = 3 * MAXOPBLOCKS
\* and as many blocks on disk this says that OpBlocks < MaxOpBlocks.
ASSUME RoomAssumption ==
    /\ OpBlocks < MaxOpBlocks /\ MaxOpBlocks <= LogSize
    /\ OpBlocks + 2 <= DiskLogSize
    /\ LogSize - 2 * (MaxOpBlocks - OpBlocks) <= DiskLogSize - 2

VARIABLES home,         \* on disk: the blocks in their home location
          logged,       \* on disk: the blocks of the log
          head,         \* on disk: the block numbers in the log's header
          lh,           \* log.lh, the header in memory
          outstanding, committing,
          cache,        \* contents of the buffers
          dirty,        \* blocks whose buffer has B_DIRTY
          pc, buf,      \* where a process is, the buffer it has locked
          written,      \* the blocks its operation has written
          tail,         \* the local of write_log and install_trans
          boot,         \* where the kernel is in initlog, "up" after it
          panicked

disk == <<home, logged, head>>
memory == <<lh, outstanding, committing, cache, dirty>>
locals == <<pc, buf, written, tail, boot>>
vars == <<disk, memory, locals, panicked>>

\* "out" is outside an operation or at the head of begin_op's loop; "append"
\* is in log_write between the checks and the lock; the labels from "copy" to
\* "done" are those of the process that commits.
Labels == {"out", "asleep", "op", "append", "copy", "mark", "install", "erase", "done"}
Committers == {"copy", "mark", "install", "erase", "done"}

Init ==
    /\ home = [b \in Blocks |-> Empty]
    /\ logged = [i \in 1 .. LogSize |-> Empty]
    /\ head = <<>>
    /\ lh = <<>>
    /\ outstanding = 0
    /\ committing = FALSE
    /\ cache = home
    /\ dirty = {}
    /\ pc = [p \in Procs |-> "out"]
    /\ buf = [p \in Procs |-> {}]
    /\ written = [p \in Procs |-> {}]
    /\ tail = 1
    /\ boot = "up"
    /\ panicked = FALSE

Up == boot = "up" /\ ~panicked
Goto(p, label) == pc' = [pc EXCEPT ![p] = label]
Held == UNION {buf[p] : p \in Procs}
Logged == {lh[i] : i \in 1 .. Len(lh)}

WakeNobody(p, label) == Goto(p, label)

\* wakeup(&log) as p moves to label: the sleepers are back in begin_op's loop.
WakeAllAnd(p, label) ==
    pc' = [q \in Procs |-> IF q = p THEN label
                           ELSE IF pc[q] = "asleep" THEN "out" ELSE pc[q]]
-----------------------------------------------------------------------------
RoomByLog == Len(lh) + MaxOpBlocks <= LogSize

\* The log has room for one more operation beside those that run.
Room == Len(lh) + (outstanding + 1) * MaxOpBlocks <= LogSize

BeginSleeps(p) ==
    /\ Up /\ pc[p] = "out"
    /\ committing \/ ~Room
    /\ Goto(p, "asleep")
    /\ UNCHANGED <<disk, memory, buf, written, tail, boot, panicked>>

BeginOp(p) ==
    /\ Up /\ pc[p] = "out"
    /\ ~committing /\ Room
    /\ outstanding' = outstanding + 1
    /\ written' = [written EXCEPT ![p] = {}]
    /\ Goto(p, "op")
    /\ UNCHANGED <<disk, lh, committing, cache, dirty, buf, tail, boot, panicked>>

\* The caller has locked and modified b; log_write looks at lh.n and
\* outstanding before it takes log.lock.
LogWrite(p, b, d) ==
    /\ Up /\ pc[p] = "op"
    /\ b \notin Held
    /\ Cardinality(written[p] \cup {b}) <= OpBlocks
    /\ cache' = [cache EXCEPT ![b] = d]
    /\ written' = [written EXCEPT ![p] = @ \cup {b}]
    /\ buf' = [buf EXCEPT ![p] = {b}]
    /\ IF Len(lh) >= LogSize \/ Len(lh) >= DiskLogSize - 1 \/ outstanding < 1
       THEN panicked' = TRUE /\ UNCHANGED pc
       ELSE Goto(p, "append") /\ UNCHANGED panicked
    /\ UNCHANGED <<disk, lh, outstanding, committing, dirty, tail, boot>>

\* Log absorption: a block that is already in the header is not added again.
Appended(b) == IF b \in Logged THEN lh ELSE Append(lh, b)

\* B_DIRTY keeps the buffer in the cache until it is installed.
Pinned(b) == dirty \cup {b}

LogAppend(p) ==
    /\ Up /\ pc[p] = "append"
    /\ \E b \in buf[p] : lh' = Appended(b) /\ dirty' = Pinned(b)
    /\ buf' = [buf EXCEPT ![p] = {}]
    /\ Goto(p, "op")
    /\ UNCHANGED <<disk, outstanding, committing, cache, written, tail, boot, panicked>>

CommitsAlways == TRUE

\* end_op commits if no other operation runs.
CommitsNow == outstanding - 1 = 0

\* The first section of end_op, and commit()'s test of lh.n.
EndOp(p) ==
    /\ Up /\ pc[p] = "op"
    /\ outstanding' = outstanding - 1
    /\ IF committing
       THEN panicked' = TRUE /\ UNCHANGED <<committing, tail, pc>>
       ELSE /\ committing' = CommitsNow
            /\ tail' = 1
            /\ IF CommitsNow
               THEN Goto(p, IF lh = <<>> THEN "done" ELSE "copy")
               ELSE WakeAllAnd(p, "out")
            /\ UNCHANGED panicked
    /\ UNCHANGED <<disk, lh, cache, dirty, buf, written, boot>>

MoreToCopyShort == tail + 1 < Len(lh)

\* The loop condition of write_log after the block at tail.
MoreToCopy == tail < Len(lh)

\* write_log: one bwrite per step.
CopyToLog(p) ==
    /\ Up /\ pc[p] = "copy"
    /\ logged' = [logged EXCEPT ![tail] = cache[lh[tail]]]
    /\ IF MoreToCopy THEN tail' = tail + 1 /\ UNCHANGED pc
                         ELSE tail' = 1 /\ Goto(p, "mark")
    /\ UNCHANGED <<home, head, memory, buf, written, boot, panicked>>

\* write_head with the whole header: the commit point.
MarkCommitted(p) ==
    /\ Up /\ pc[p] = "mark"
    /\ head' = lh
    /\ Goto(p, "install")
    /\ UNCHANGED <<home, logged, memory, buf, written, tail, boot, panicked>>

\* One round of install_trans: log block to buffer to home location.
InstallNext ==
    /\ home' = [home EXCEPT ![lh[tail]] = logged[tail]]
    /\ cache' = [cache EXCEPT ![lh[tail]] = logged[tail]]
    /\ dirty' = dirty \ {lh[tail]}

Install(p) ==
    /\ Up /\ pc[p] = "install"
    /\ InstallNext
    /\ IF tail < Len(lh) THEN tail' = tail + 1 /\ UNCHANGED pc
                         ELSE tail' = 1 /\ Goto(p, "erase")
    /\ UNCHANGED <<logged, head, lh, outstanding, committing, buf, written, boot, panicked>>

\* log.lh.n = 0 and write_head.
EraseLog(p) ==
    /\ Up /\ pc[p] = "erase"
    /\ lh' = <<>>
    /\ head' = <<>>
    /\ Goto(p, "done")
    /\ UNCHANGED <<home, logged, outstanding, committing, cache, dirty, buf,
                   written, tail, boot, panicked>>

\* The last section of end_op.
EndCommit(p) ==
    /\ Up /\ pc[p] = "done"
    /\ committing' = FALSE
    /\ WakeAllAnd(p, "out")
    /\ UNCHANGED <<disk, lh, outstanding, cache, dirty, buf, written, tail, boot,
                   panicked>>

\* bget recycles a buffer nobody uses, and a later bread fetches the block.
Evict(b) ==
    /\ Up /\ b \notin dirty /\ b \notin Held
    /\ cache' = [cache EXCEPT ![b] = home[b]]
    /\ UNCHANGED <<disk, lh, outstanding, committing, dirty, locals, panicked>>
-----------------------------------------------------------------------------
\* The machine stops and starts again: only the disk is left.
Crash ==
    /\ lh' = <<>>
    /\ outstanding' = 0
    /\ committing' = FALSE
    /\ cache' = home
    /\ dirty' = {}
    /\ pc' = [p \in Procs |-> "out"]
    /\ buf' = [p \in Procs |-> {}]
    /\ written' = [p \in Procs |-> {}]
    /\ tail' = 1
    /\ boot' = "read"
    /\ panicked' = FALSE
    /\ UNCHANGED disk

\* recover_from_log: read_head, install_trans, and the empty header.
RecoverRead ==
    /\ boot = "read"
    /\ lh' = head
    /\ boot' = IF head = <<>> THEN "erase" ELSE "install"
    /\ UNCHANGED <<disk, outstanding, committing, cache, dirty, pc, buf, written,
                   tail, panicked>>

RecoverInstall ==
    /\ boot = "install"
    /\ InstallNext
    /\ IF tail < Len(lh) THEN tail' = tail + 1 /\ UNCHANGED boot
                         ELSE tail' = 1 /\ boot' = "erase"
    /\ UNCHANGED <<logged, head, lh, outstanding, committing, pc, buf, written, panicked>>

RecoverErase ==
    /\ boot = "erase"
    /\ lh' = <<>>
    /\ head' = <<>>
    /\ boot' = "up"
    /\ UNCHANGED <<home, logged, outstanding, committing, cache, dirty, pc, buf,
                   written, tail, panicked>>

Recover == RecoverRead \/ RecoverInstall \/ RecoverErase

Step(p) ==
    \/ LogAppend(p) \/ EndOp(p) \/ CopyToLog(p) \/ MarkCommitted(p)
    \/ Install(p) \/ EraseLog(p) \/ EndCommit(p)

Next ==
    \/ \E p \in Procs :
         \/ BeginSleeps(p) \/ BeginOp(p) \/ Step(p)
         \/ \E b \in Blocks, d \in Data : LogWrite(p, b, d)
    \/ \E b \in Blocks : Evict(b)
    \/ Crash \/ Recover

Spec == Init /\ [][Next]_vars

\* Operations end and commits go on (a process in the kernel is scheduled
\* again and again and disk requests complete), and a machine that crashed
\* recovers.
FairSpec ==
    /\ Spec
    /\ \A p \in Procs : WF_vars(LogAppend(p)) /\ SF_vars(EndOp(p)) /\ WF_vars(Step(p))
    /\ WF_vars(Recover)
-----------------------------------------------------------------------------
TypeOK ==
    /\ home \in [Blocks -> Data]
    /\ logged \in [1 .. LogSize -> Data]
    /\ head \in Seq(Blocks) /\ lh \in Seq(Blocks)
    /\ outstanding \in Nat /\ committing \in BOOLEAN
    /\ cache \in [Blocks -> Data]
    /\ dirty \subseteq Blocks
    /\ pc \in [Procs -> Labels]
    /\ buf \in [Procs -> SUBSET Blocks]
    /\ written \in [Procs -> SUBSET Blocks]
    /\ tail \in Nat \ {0}
    /\ boot \in {"up", "read", "install", "erase"}
    /\ panicked \in BOOLEAN

\* The header never counts more blocks than the log has on disk beside the
\* header block, and log_write and end_op never panic, as long as an operation
\* writes OpBlocks different blocks at most.  The reservation counts LOGSIZE
\* blocks and the disk has one less, so OpBlocks = MAXOPBLOCKS would not do.
LogFits == Len(lh) <= DiskLogSize - 1 /\ ~panicked

\* While a process is in commit() no operation runs and nobody else commits.
CommitAlone ==
    \A p \in Procs : pc[p] \in Committers =>
        /\ committing /\ outstanding = 0
        /\ \A q \in Procs \ {p} : pc[q] \in {"out", "asleep"}

\* Whoever sleeps in begin_op is woken.
SleepersWoken == \A p \in Procs : pc[p] = "asleep" ~> pc[p] # "asleep"

\* What a restart finds: the home blocks, and over them the log if its header
\* says that it is committed.
Surviving ==
    [b \in Blocks |->
        IF \E i \in 1 .. Len(head) : head[i] = b
        THEN logged[CHOOSE i \in 1 .. Len(head) : head[i] = b]
        ELSE home[b]]

Abstract == INSTANCE AtomicDisk
              WITH stable <- Surviving,
                   current <- IF boot = "up" THEN cache ELSE Surviving,
                   open <- outstanding

\* The log makes groups of operations atomic with respect to crashes.
CrashAtomic == Abstract!Spec
=============================================================================
