----------------------------- MODULE BufferCache -----------------------------
(***************************************************************************)
(* The buffer cache of xv6-public (bio.c), the sleep-locks of its buffers  *)
(* (sleeplock.c) and the queue of disk requests with its interrupt handler *)
(* (ide.c).  A section under bcache.lock, idelock or the spin-lock of a    *)
(* sleep-lock is one step.  A process uses one buffer at a time, and the   *)
(* device never reports an error.                                          *)
(***************************************************************************)
EXTENDS Integers, Sequences, FiniteSets

CONSTANTS Procs, Bufs, Blocks, Data, Empty, None,
          MaxPinned     \* the buffers log_write may keep dirty at a time

ASSUME CacheAssumption ==
    /\ IsFiniteSet(Procs) /\ IsFiniteSet(Bufs)
    /\ None \notin Procs \cup Bufs \cup Blocks \cup Data /\ Empty \in Data
    /\ MaxPinned \in Nat

VARIABLES lru,          \* the list from bcache.head.next on, most recently used first
          blockno, flags, refcnt, data,      \* struct buf
          locked,       \* the process that holds b->lock
          idequeue,
          active,       \* what idestart gave the disk, None if the disk is idle
          disk,
          pc, buf,      \* where a process is, and its buffer
          panicked      \* "no", or the function that panicked

bufs == <<lru, blockno, flags, refcnt, data>>
device == <<idequeue, active, disk>>
still == <<bufs, locked, device, pc, buf>>
vars == <<still, panicked>>

\* "lock" and "lockAsleep" are in acquiresleep, "rw" to "rwWoken" in iderw; a
\* process in "use" has the buffer that bread returns.
Labels == {"out", "lock", "lockAsleep", "check", "rw", "rwAsleep", "rwWoken",
           "use", "release"}
Owning == {"check", "rw", "rwAsleep", "rwWoken", "use"}

Init ==
    /\ lru \in [1 .. Cardinality(Bufs) -> Bufs]
    /\ \A b \in Bufs : \E i \in DOMAIN lru : lru[i] = b
    /\ blockno = [b \in Bufs |-> None]
    /\ flags = [b \in Bufs |-> {}]
    /\ refcnt = [b \in Bufs |-> 0]
    /\ data = [b \in Bufs |-> Empty]
    /\ locked = [b \in Bufs |-> None]
    /\ idequeue = <<>>
    /\ active = None
    /\ disk = [k \in Blocks |-> Empty]
    /\ pc = [p \in Procs |-> "out"]
    /\ buf = [p \in Procs |-> None]
    /\ panicked = "no"

Up == panicked = "no"
Goto(p, label) == pc' = [pc EXCEPT ![p] = label]
Awake(asleep, awake, b) ==
    [q \in Procs |-> IF pc[q] = asleep /\ buf[q] = b THEN awake ELSE pc[q]]
-----------------------------------------------------------------------------
Cached(k) == {b \in Bufs : blockno[b] = k}

UnusedNotPinned(b) == refcnt[b] = 0
UnusedNotCounted(b) == "dirty" \notin flags[b]

\* A buffer that bget may give to another block.
Unused(b) == refcnt[b] = 0 /\ "dirty" \notin flags[b]

\* The first unused buffer from the end of the list.
Recycled ==
    lru[CHOOSE i \in DOMAIN lru :
          /\ Unused(lru[i])
          /\ \A j \in DOMAIN lru : Unused(lru[j]) => j <= i]

\* b->flags = 0
FlagsOfRecycled(b) == {}

Hit(p, b) ==
    /\ refcnt' = [refcnt EXCEPT ![b] = @ + 1]
    /\ buf' = [buf EXCEPT ![p] = b]
    /\ UNCHANGED <<blockno, flags>>

Recycle(p, b, k) ==
    /\ blockno' = [blockno EXCEPT ![b] = k]
    /\ flags' = [flags EXCEPT ![b] = FlagsOfRecycled(b)]
    /\ refcnt' = [refcnt EXCEPT ![b] = 1]
    /\ buf' = [buf EXCEPT ![p] = b]

\* bread: the section of bget under bcache.lock.
Bget(p, k) ==
    /\ pc[p] = "out" /\ Up
    /\ \/ \E b \in Cached(k) : Hit(p, b)
       \/ Cached(k) = {} /\ (\E b \in Bufs : Unused(b)) /\ Recycle(p, Recycled, k)
    /\ Goto(p, "lock")
    /\ UNCHANGED <<lru, data, locked, device, panicked>>

\* panic("bget: no buffers")
BgetPanics(p, k) ==
    /\ pc[p] = "out" /\ Up
    /\ Cached(k) = {} /\ \A b \in Bufs : ~Unused(b)
    /\ panicked' = "bget"
    /\ UNCHANGED still

\* One round of acquiresleep's loop.
AcquireSleep(p) ==
    /\ pc[p] = "lock" /\ Up
    /\ IF locked[buf[p]] = None
       THEN locked' = [locked EXCEPT ![buf[p]] = p] /\ Goto(p, "check")
       ELSE Goto(p, "lockAsleep") /\ UNCHANGED locked
    /\ UNCHANGED <<bufs, device, buf, panicked>>

\* bread after bget: only a buffer that is not valid is read.
CheckValid(p) ==
    /\ pc[p] = "check" /\ Up
    /\ Goto(p, IF "valid" \in flags[buf[p]] THEN "use" ELSE "rw")
    /\ UNCHANGED <<bufs, locked, device, buf, panicked>>

\* bwrite's b->flags |= B_DIRTY
FlagsToWrite(b) == flags[b] \cup {"dirty"}

\* The caller modifies the buffer and calls bwrite.
Bwrite(p, d) ==
    /\ pc[p] = "use" /\ Up
    /\ data' = [data EXCEPT ![buf[p]] = d]
    /\ flags' = [flags EXCEPT ![buf[p]] = FlagsToWrite(buf[p])]
    /\ Goto(p, "rw")
    /\ UNCHANGED <<lru, blockno, refcnt, locked, device, buf, panicked>>

\* Buffers that are dirty because log_write has pinned them.
Pinned ==
    {b \in Bufs : "dirty" \in flags[b]}
      \ {buf[p] : p \in {q \in Procs : pc[q] \in {"rw", "rwAsleep", "rwWoken"}}}

\* The caller modifies the buffer and calls log_write.
LogWrite(p, d) ==
    /\ pc[p] = "use" /\ Up
    /\ Cardinality(Pinned \cup {buf[p]}) <= MaxPinned
    /\ data' = [data EXCEPT ![buf[p]] = d]
    /\ flags' = [flags EXCEPT ![buf[p]] = @ \cup {"dirty"}]
    /\ UNCHANGED <<lru, blockno, refcnt, locked, device, pc, buf, panicked>>

\* iderw: the request joins the queue, the first one starts the disk, and its
\* process sleeps.
Iderw(p) ==
    /\ pc[p] = "rw" /\ Up
    /\ IF flags[buf[p]] = {"valid"}
       THEN panicked' = "iderw" /\ UNCHANGED <<idequeue, active, pc>>
       ELSE /\ idequeue' = Append(idequeue, buf[p])
            /\ active' = IF idequeue = <<>> THEN data[buf[p]] ELSE active
            /\ Goto(p, "rwAsleep")
            /\ UNCHANGED panicked
    /\ UNCHANGED <<bufs, locked, disk, buf>>

\* iderw's loop after a wakeup.
IoDone(p) ==
    /\ pc[p] = "rwWoken" /\ Up
    /\ Goto(p, IF flags[buf[p]] = {"valid"} THEN "use" ELSE "rwAsleep")
    /\ UNCHANGED <<bufs, locked, device, buf, panicked>>

NextNotStarted == None

\* idestart of the next request in the queue, if there is one.
NextStarted == IF Len(idequeue) = 1 THEN None ELSE data[idequeue[2]]

\* The disk has served the head of the queue: ideintr.
Ideintr ==
    /\ active # None /\ Up
    /\ LET b == Head(idequeue)
       IN /\ IF "dirty" \in flags[b]
             THEN disk' = [disk EXCEPT ![blockno[b]] = active] /\ UNCHANGED data
             ELSE data' = [data EXCEPT ![b] = disk[blockno[b]]] /\ UNCHANGED disk
          /\ flags' = [flags EXCEPT ![b] = {"valid"}]
          /\ pc' = Awake("rwAsleep", "rwWoken", b)
    /\ active' = NextStarted
    /\ idequeue' = Tail(idequeue)
    /\ UNCHANGED <<lru, blockno, refcnt, locked, buf, panicked>>

\* brelse: releasesleep ...
ReleaseSleep(p) ==
    /\ pc[p] = "use" /\ Up
    /\ locked' = [locked EXCEPT ![buf[p]] = None]
    /\ pc' = [Awake("lockAsleep", "lock", buf[p]) EXCEPT ![p] = "release"]
    /\ UNCHANGED <<bufs, device, buf, panicked>>

\* The list with b taken out and put in front; those before b move one back.
MovedToFront(b) ==
    LET i == CHOOSE i \in DOMAIN lru : lru[i] = b
    IN  [j \in DOMAIN lru |->
           IF j = 1 THEN b ELSE IF j <= i THEN lru[j - 1] ELSE lru[j]]

\* ... and the section under bcache.lock.
Brelse(p) ==
    /\ pc[p] = "release" /\ Up
    /\ refcnt' = [refcnt EXCEPT ![buf[p]] = @ - 1]
    /\ lru' = IF refcnt[buf[p]] = 1 THEN MovedToFront(buf[p]) ELSE lru
    /\ buf' = [buf EXCEPT ![p] = None]
    /\ Goto(p, "out")
    /\ UNCHANGED <<blockno, flags, data, locked, device, panicked>>
-----------------------------------------------------------------------------
Step(p) ==
    \/ AcquireSleep(p) \/ CheckValid(p) \/ Iderw(p) \/ IoDone(p)
    \/ ReleaseSleep(p) \/ Brelse(p)

Halted == ~Up /\ UNCHANGED vars

Next ==
    \/ Ideintr \/ Halted
    \/ \E p \in Procs :
         \/ Step(p)
         \/ \E k \in Blocks : Bget(p, k) \/ BgetPanics(p, k)
         \/ \E d \in Data : Bwrite(p, d) \/ LogWrite(p, d)

Spec == Init /\ [][Next]_vars
-----------------------------------------------------------------------------
TypeOK ==
    /\ lru \in Seq(Bufs) /\ Len(lru) = Cardinality(Bufs)
    /\ blockno \in [Bufs -> Blocks \cup {None}]
    /\ flags \in [Bufs -> SUBSET {"valid", "dirty"}]
    /\ refcnt \in [Bufs -> Nat]
    /\ data \in [Bufs -> Data]
    /\ locked \in [Bufs -> Procs \cup {None}]
    /\ idequeue \in Seq(Bufs)
    /\ active \in Data \cup {None}
    /\ disk \in [Blocks -> Data]
    /\ pc \in [Procs -> Labels]
    /\ buf \in [Procs -> Bufs \cup {None}]
    /\ panicked \in {"no", "bget", "iderw"}

\* A block is in one buffer at most.  b->refcnt counts the processes that have b,
\* from bget to brelse, and of these only the one that holds b's lock looks at
\* the buffer, so that iderw always has something to do.  All of this holds up to
\* the step in which bget runs out of buffers, and in it.
RefsExact ==
    /\ panicked # "iderw"
    /\ \A b, c \in Bufs : blockno[b] = blockno[c] /\ blockno[b] # None => b = c
    /\ \A b \in Bufs : refcnt[b] = Cardinality({p \in Procs : buf[p] = b})
    /\ \A p \in Procs : pc[p] \in Owning <=> \E b \in Bufs : locked[b] = p /\ buf[p] = b

\* What bread of block k returns.
Value(k) ==
    IF \E b \in Cached(k) : "valid" \in flags[b]
    THEN data[CHOOSE b \in Cached(k) : "valid" \in flags[b]]
    ELSE disk[k]

\* Only the process that has the block's buffer changes what its readers see:
\* no recycling, no interrupt and no other process does.
OnlyWritersChange ==
    [][\A k \in Blocks : Value(k)' # Value(k) =>
         \E p \in Procs : pc[p] = "use" /\ blockno[buf[p]] = k]_vars

\* Whoever sleeps in iderw has a request in the queue, one per buffer, and the
\* disk is at work as long as there are requests.
RequestsServed ==
    /\ \A p \in Procs : pc[p] = "rwAsleep" => \E i \in 1 .. Len(idequeue) : idequeue[i] = buf[p]
    /\ \A i, j \in 1 .. Len(idequeue) : idequeue[i] = idequeue[j] => i = j
    /\ idequeue # <<>> <=> active # None
=============================================================================
