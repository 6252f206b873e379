-------------------------- MODULE BufferCacheProofs --------------------------
(***************************************************************************)
(* The buffer cache for any number of processes, buffers and blocks: a     *)
(* block has one buffer, a buffer one user at a time, bget always finds a  *)
(* buffer, every request is served, and nobody but its user changes what a *)
(* block's readers see.                                                    *)
(***************************************************************************)
EXTENDS BufferCache, FiniteSetTheorems, SequenceTheorems, WellFoundedInduction, TLAPS

\* The list has every buffer in it, so that bget finds one that is free.
ListComplete == \A b \in Bufs : \E i \in DOMAIN lru : lru[i] = b

\* A buffer's lock is held by the process that is between acquiresleep and
\* releasesleep with it; a process outside has none.
LocksHeld ==
    /\ \A b \in Bufs, p \in Procs : locked[b] = p <=> pc[p] \in Owning /\ buf[p] = b
    /\ \A p \in Procs : buf[p] = None <=> pc[p] = "out"

RefsCounted == \A b \in Bufs : refcnt[b] = Cardinality({p \in Procs : buf[p] = b})

\* A block is in one buffer, and a buffer that is used or has contents is some
\* block's.
BlocksApart ==
    /\ \A b, c \in Bufs : blockno[b] = blockno[c] /\ blockno[b] # None => b = c
    /\ \A p \in Procs : buf[p] # None => blockno[buf[p]] # None
    /\ \A b \in Bufs : "valid" \in flags[b] => blockno[b] # None

\* What the flags of a process' buffer say of where the process is.
FlagsRight ==
    /\ \A b \in Bufs : "dirty" \in flags[b] => "valid" \in flags[b]
    /\ \A p \in Procs :
         /\ pc[p] \in {"rw", "rwAsleep"} => flags[buf[p]] # {"valid"}
         /\ pc[p] = "rwWoken" => flags[buf[p]] = {"valid"}
         /\ pc[p] = "use" => "valid" \in flags[buf[p]]

\* The queue has the buffers of the processes that sleep for the disk, each
\* once, and the disk works on the contents of its head.
QueueRight ==
    /\ \A i \in 1 .. Len(idequeue) :
         \E p \in Procs : pc[p] = "rwAsleep" /\ buf[p] = idequeue[i]
    /\ idequeue # <<>> => active = data[Head(idequeue)]

\* A buffer that is not dirty has what the disk has.
CleanIsDisk ==
    \A b \in Bufs : "valid" \in flags[b] /\ "dirty" \notin flags[b]
                      => data[b] = disk[blockno[b]]

PinnedBounded == Cardinality(Pinned) <= MaxPinned

\* The processes and the pinned blocks outnumber the buffers.
Short == Cardinality(Bufs) < Cardinality(Procs) + MaxPinned

\* Only bget panics, and only then.
PanicRight == panicked # "iderw" /\ (panicked = "bget" => Short)

IInv ==
    /\ TypeOK /\ ListComplete /\ LocksHeld /\ RefsCounted /\ BlocksApart
    /\ FlagsRight /\ RequestsServed /\ QueueRight /\ CleanIsDisk /\ PinnedBounded
    /\ PanicRight
-----------------------------------------------------------------------------
\* A set of natural numbers has a least one, a set of indices a largest one.
LEMMA LeastNatural ==
    ASSUME NEW T \in SUBSET Nat, T # {}
    PROVE  \E x \in T : \A y \in T : x <= y
<1>1. IsWellFoundedOn(OpToRel(<, Nat), Nat)
  BY NatLessThanWellFounded
<1>2. PICK x \in T : \A y \in T : ~ (<<y, x>> \in OpToRel(<, Nat))
  BY <1>1, WFMin
<1>3. \A y \in T : ~ (<<y, x>> \in {ss \in Nat \X Nat : ss[1] < ss[2]})
  BY <1>2, Zenon DEF OpToRel
<1>4. \A y \in T : ~ (y < x)
  BY <1>3
<1> QED
  BY <1>4

LEMMA LargestIndex ==
    ASSUME NEW len \in Nat, NEW S \in SUBSET (1 .. len), S # {}
    PROVE  \E i \in S : \A j \in S : j <= i
<1> DEFINE T == {len - i : i \in S}
<1>1. \A i \in S : i \in 1 .. len /\ len - i \in Nat
  OBVIOUS
<1>2. T \in SUBSET Nat
  BY <1>1
<1>3. T # {}
  OBVIOUS
<1>4. PICK x \in T : \A y \in T : x <= y
  <2> HIDE DEF T
  <2> QED
    BY <1>2, <1>3, LeastNatural
<1>5. PICK i \in S : x = len - i
  OBVIOUS
<1>6. \A j \in S : len - j \in T
  OBVIOUS
<1>7. \A j \in S : len - i <= len - j
  BY <1>4, <1>5, <1>6
<1>8. \A j \in S : j <= i
  BY <1>1, <1>7
<1> QED
  BY <1>8

\* The loop of bget from the end of the list ends at a buffer that is free.
LEMMA RecycledUnused ==
    ASSUME TypeOK, ListComplete, NEW b \in Bufs, Unused(b)
    PROVE  Recycled \in Bufs /\ Unused(Recycled)
<1> DEFINE free == {i \in DOMAIN lru : Unused(lru[i])}
<1>1. DOMAIN lru = 1 .. Len(lru) /\ Len(lru) \in Nat
  BY DEF TypeOK
<1>2. free \in SUBSET (1 .. Len(lru)) /\ free # {}
  BY <1>1 DEF ListComplete
<1>3. PICK i \in free : \A j \in free : j <= i
  <2> HIDE DEF free
  <2> QED
    BY <1>1, <1>2, LargestIndex
<1>4. /\ i \in DOMAIN lru /\ Unused(lru[i])
      /\ \A j \in DOMAIN lru : Unused(lru[j]) => j <= i
  BY <1>3
<1> DEFINE last == CHOOSE m \in DOMAIN lru :
                     /\ Unused(lru[m])
                     /\ \A j \in DOMAIN lru : Unused(lru[j]) => j <= m
<1>5. last \in DOMAIN lru /\ Unused(lru[last])
  BY <1>4
<1>6. Recycled = lru[last]
  BY DEF Recycled
<1> HIDE DEF last
<1> QED
  BY <1>1, <1>5, <1>6 DEF TypeOK

\* A buffer put in front stays in the list, and so does every other.
LEMMA MovedComplete ==
    ASSUME TypeOK, ListComplete, NEW b \in Bufs
    PROVE  /\ MovedToFront(b) \in Seq(Bufs) /\ Len(MovedToFront(b)) = Len(lru)
           /\ \A c \in Bufs : \E j \in DOMAIN MovedToFront(b) : MovedToFront(b)[j] = c
<1> DEFINE i == CHOOSE m \in DOMAIN lru : lru[m] = b
           moved == [j \in DOMAIN lru |->
                       IF j = 1 THEN b ELSE IF j <= i THEN lru[j - 1] ELSE lru[j]]
<1>1. DOMAIN lru = 1 .. Len(lru) /\ Len(lru) \in Nat /\ \A j \in DOMAIN lru : lru[j] \in Bufs
  BY DEF TypeOK
<1>2. i \in DOMAIN lru /\ lru[i] = b
  BY DEF ListComplete
<1>3. MovedToFront(b) = moved
  BY DEF MovedToFront
<1> HIDE DEF i
<1>4. \A j \in DOMAIN lru : moved[j] \in Bufs
  BY <1>1, <1>2
<1>5. moved \in Seq(Bufs) /\ Len(moved) = Len(lru)
  BY <1>1, <1>4
<1>6. ASSUME NEW c \in Bufs PROVE \E j \in DOMAIN lru : moved[j] = c
  <2>1. PICK m \in DOMAIN lru : lru[m] = c
    BY DEF ListComplete
  <2>2. CASE m = i
    <3>1. 1 \in DOMAIN lru /\ moved[1] = c
      BY <1>1, <1>2, <2>1, <2>2
    <3> QED
      BY <3>1
  <2>3. CASE m < i
    <3>1. m + 1 \in DOMAIN lru /\ moved[m + 1] = lru[(m + 1) - 1] /\ (m + 1) - 1 = m
      BY <1>1, <1>2, <2>3
    <3> QED
      BY <2>1, <3>1
  <2>4. CASE m > i
    <3>1. moved[m] = lru[m]
      BY <1>1, <1>2, <2>4
    <3> QED
      BY <2>1, <3>1
  <2> QED
    BY <1>1, <1>2, <2>2, <2>3, <2>4
<1>7. DOMAIN moved = DOMAIN lru
  OBVIOUS
<1> QED
  BY <1>3, <1>5, <1>6, <1>7
-----------------------------------------------------------------------------
\* Sets of processes and buffers are finite.
LEMMA UsersFinite ==
    ASSUME NEW S \in SUBSET Procs
    PROVE  IsFiniteSet(S) /\ Cardinality(S) \in Nat
  BY CacheAssumption, FS_Subset, FS_CardinalityType

LEMMA BuffersFinite ==
    ASSUME NEW S \in SUBSET Bufs
    PROVE  IsFiniteSet(S) /\ Cardinality(S) \in Nat
  BY CacheAssumption, FS_Subset, FS_CardinalityType

\* A process in a call has a buffer, and the buffer a block.
LEMMA HasBuffer ==
    ASSUME IInv, NEW p \in Procs, pc[p] # "out"
    PROVE  buf[p] \in Bufs /\ blockno[buf[p]] \in Blocks
  BY DEF IInv, TypeOK, LocksHeld, BlocksApart

\* A process between acquiresleep and releasesleep is the only one with its buffer.
LEMMA SoleOwner ==
    ASSUME IInv, NEW p \in Procs, NEW q \in Procs,
           pc[p] \in Owning, pc[q] \in Owning, buf[p] = buf[q]
    PROVE  p = q
<1>1. buf[p] \in Bufs
  BY HasBuffer DEF Owning
<1>2. locked[buf[p]] = p /\ locked[buf[p]] = q
  BY <1>1 DEF IInv, LocksHeld
<1> QED
  BY <1>2

\* bget finds a buffer unless they are short: the other processes have at most
\* one each, and the log pins at most MaxPinned.
LEMMA BufferLeft ==
    ASSUME IInv, NEW p \in Procs, pc[p] = "out", \A b \in Bufs : ~Unused(b)
    PROVE  Short
<1> DEFINE others == Procs \ {p}
           held == {buf[q] : q \in others}
           pins == Pinned
<1>1. Bufs \subseteq held \cup pins
  <2> SUFFICES ASSUME NEW b \in Bufs, b \notin held PROVE b \in pins
    OBVIOUS
  <2>1. buf[p] # b
    BY CacheAssumption DEF IInv, LocksHeld
  <2>2. {q \in Procs : buf[q] = b} = {}
    BY <2>1
  <2>3. refcnt[b] = 0
    BY <2>2, FS_EmptySet DEF IInv, RefsCounted
  <2>4. "dirty" \in flags[b]
    BY <2>3 DEF Unused
  <2>5. \A q \in Procs : buf[q] # b
    BY <2>2
  <2> QED
    BY <2>4, <2>5 DEF Pinned
<1>2. /\ IsFiniteSet(others) /\ Cardinality(others) = Cardinality(Procs) - 1
      /\ Cardinality(Procs) \in Nat /\ Cardinality(others) \in Nat
  BY CacheAssumption, FS_RemoveElement, FS_CardinalityType
<1>3. IsFiniteSet(held) /\ Cardinality(held) <= Cardinality(others) /\ Cardinality(held) \in Nat
  <2> DEFINE f == [q \in others |-> buf[q]]
  <2>1. f \in Surjection(others, held)
    BY DEF Surjection
  <2>2. IsFiniteSet(held) /\ Cardinality(held) <= Cardinality(others)
    <3> HIDE DEF f, held, others
    <3> QED
      BY <1>2, <2>1, FS_Surjection
  <2> QED
    BY <2>2, FS_CardinalityType
<1>4. IsFiniteSet(pins) /\ Cardinality(pins) <= MaxPinned /\ Cardinality(pins) \in Nat
  BY BuffersFinite DEF IInv, PinnedBounded, Pinned
<1> HIDE DEF others, held, pins
<1>5. /\ IsFiniteSet(held \cup pins) /\ Cardinality(held \cup pins) \in Nat
      /\ IsFiniteSet(held \cap pins) /\ Cardinality(held \cap pins) \in Nat
      /\ Cardinality(held \cup pins)
           = Cardinality(held) + Cardinality(pins) - Cardinality(held \cap pins)
  BY <1>3, <1>4, FS_Union, FS_Intersection, FS_CardinalityType
<1>6. Cardinality(Bufs) <= Cardinality(held \cup pins) /\ Cardinality(Bufs) \in Nat
  BY <1>1, <1>5, CacheAssumption, FS_Subset, FS_CardinalityType
<1> QED
  BY <1>2, <1>3, <1>4, <1>5, <1>6, CacheAssumption DEF Short
-----------------------------------------------------------------------------
\* Nothing happens, or bget panics for want of buffers.
Rests ==
    /\ UNCHANGED still
    /\ panicked' = panicked \/ (panicked' = "bget" /\ Short)

\* The steps without their panics: bget finds the block's buffer or recycles
\* one, and iderw has something to do.
Hits(p, b) ==
    /\ pc[p] = "out" /\ blockno[b] \in Blocks
    /\ refcnt' = [refcnt EXCEPT ![b] = @ + 1]
    /\ buf' = [buf EXCEPT ![p] = b]
    /\ pc' = [pc EXCEPT ![p] = "lock"]
    /\ UNCHANGED <<lru, blockno, flags, data, locked, idequeue, active, disk, panicked>>

Recycles(p, b, k) ==
    /\ pc[p] = "out" /\ Cached(k) = {} /\ Unused(b)
    /\ blockno' = [blockno EXCEPT ![b] = k]
    /\ flags' = [flags EXCEPT ![b] = {}]
    /\ refcnt' = [refcnt EXCEPT ![b] = 1]
    /\ buf' = [buf EXCEPT ![p] = b]
    /\ pc' = [pc EXCEPT ![p] = "lock"]
    /\ UNCHANGED <<lru, data, locked, idequeue, active, disk, panicked>>

Queues(p) ==
    /\ pc[p] = "rw"
    /\ idequeue' = Append(idequeue, buf[p])
    /\ active' = IF idequeue = <<>> THEN data[buf[p]] ELSE active
    /\ pc' = [pc EXCEPT ![p] = "rwAsleep"]
    /\ UNCHANGED <<lru, blockno, flags, refcnt, data, locked, disk, buf, panicked>>

Finishes(p) ==
    /\ pc[p] = "rwWoken" /\ flags[buf[p]] = {"valid"}
    /\ pc' = [pc EXCEPT ![p] = "use"]
    /\ UNCHANGED <<lru, blockno, flags, refcnt, data, locked, idequeue, active, disk, buf,
                   panicked>>

Moves(p) ==
    \/ \E b \in Bufs : Hits(p, b) \/ \E k \in Blocks : Recycles(p, b, k)
    \/ AcquireSleep(p) \/ CheckValid(p) \/ Queues(p) \/ Finishes(p)
    \/ ReleaseSleep(p) \/ Brelse(p)
    \/ \E d \in Data : Bwrite(p, d) \/ LogWrite(p, d)

LEMMA BgetMoves ==
    ASSUME IInv, NEW p \in Procs, NEW k \in Blocks, Bget(p, k)
    PROVE  \E b \in Bufs : Hits(p, b) \/ Recycles(p, b, k)
<1>1. pc[p] = "out"
  BY DEF Bget
<1>2. ASSUME NEW free \in Bufs, Unused(free) PROVE Recycled \in Bufs /\ Unused(Recycled)
  BY <1>2, RecycledUnused DEF IInv
<1>4. /\ \/ \E b \in Cached(k) : Hit(p, b)
         \/ /\ Cached(k) = {} /\ Recycle(p, Recycled, k)
            /\ Recycled \in Bufs /\ Unused(Recycled)
      /\ pc' = [pc EXCEPT ![p] = "lock"]
      /\ UNCHANGED <<lru, data, locked, idequeue, active, disk, panicked>>
  BY <1>2 DEF Bget, Goto, device
<1>5. ASSUME NEW b \in Cached(k), Hit(p, b) PROVE b \in Bufs /\ Hits(p, b)
  BY <1>1, <1>4, <1>5 DEF Hit, Hits, Cached
<1>6. ASSUME Cached(k) = {}, Recycle(p, Recycled, k), Unused(Recycled)
      PROVE  Recycles(p, Recycled, k)
  BY <1>1, <1>4, <1>6 DEF Recycle, Recycles, FlagsOfRecycled
<1> QED
  BY <1>4, <1>5, <1>6

LEMMA NextMoves ==
    ASSUME IInv, [Next]_vars
    PROVE  Rests \/ Ideintr \/ \E p \in Procs : Moves(p)
<1>1. ASSUME NEW p \in Procs, Iderw(p) PROVE Queues(p)
  <2>1. flags[buf[p]] # {"valid"}
    BY <1>1 DEF Iderw, IInv, FlagsRight
  <2> QED
    BY <1>1, <2>1 DEF Iderw, Queues, Goto, bufs
<1>2. ASSUME NEW p \in Procs, IoDone(p) PROVE Finishes(p)
  <2>1. flags[buf[p]] = {"valid"}
    BY <1>2 DEF IoDone, IInv, FlagsRight
  <2> QED
    BY <1>2, <2>1 DEF IoDone, Finishes, Goto, bufs, device
<1>3. ASSUME NEW p \in Procs, NEW k \in Blocks, Bget(p, k) PROVE Moves(p)
  BY <1>3, BgetMoves DEF Moves
<1>4. ASSUME NEW p \in Procs, NEW k \in Blocks, BgetPanics(p, k) PROVE Rests
  <2>1. Short
    BY <1>4, BufferLeft DEF BgetPanics
  <2> QED
    BY <1>4, <2>1 DEF BgetPanics, Rests
<1>5. ASSUME Halted \/ UNCHANGED vars PROVE Rests
  BY <1>5 DEF Halted, vars, Rests
<1> QED
  BY <1>1, <1>2, <1>3, <1>4, <1>5 DEF Next, Step, Moves

\* What ideintr finds: the queue's head is the buffer of one process, asleep.
LEMMA ServedBuffer ==
    ASSUME IInv, Ideintr
    PROVE  /\ idequeue # <<>> /\ Head(idequeue) \in Bufs
           /\ active = data[Head(idequeue)]
           /\ \E q \in Procs : pc[q] = "rwAsleep" /\ buf[q] = Head(idequeue)
           /\ Tail(idequeue) \in Seq(Bufs) /\ Len(Tail(idequeue)) = Len(idequeue) - 1
           /\ \A i \in 1 .. Len(idequeue) - 1 : Tail(idequeue)[i] = idequeue[i + 1]
<1>1. idequeue # <<>> /\ idequeue \in Seq(Bufs)
  BY DEF Ideintr, IInv, RequestsServed, TypeOK
<1>2. Head(idequeue) = idequeue[1] /\ 1 \in 1 .. Len(idequeue) /\ Head(idequeue) \in Bufs
  BY <1>1
<1>3. /\ Tail(idequeue) \in Seq(Bufs) /\ Len(Tail(idequeue)) = Len(idequeue) - 1
      /\ \A i \in 1 .. Len(idequeue) - 1 : Tail(idequeue)[i] = idequeue[i + 1]
  BY <1>1, HeadTailProperties
<1> QED
  BY <1>1, <1>2, <1>3 DEF IInv, QueueRight

\* Every step keeps the types and the list complete.
LEMMA TypeStep == IInv /\ [Next]_vars => TypeOK' /\ ListComplete'
<1> SUFFICES ASSUME IInv, [Next]_vars PROVE TypeOK' /\ ListComplete'
  OBVIOUS
<1> USE CacheAssumption
<1>1. CASE Rests
  BY <1>1 DEF IInv, Rests, still, bufs, device, TypeOK, ListComplete
<1>2. CASE Ideintr
  <2> DEFINE b == Head(idequeue)
  <2>1. /\ b \in Bufs /\ blockno[b] \in Blocks /\ active \in Data
        /\ idequeue' \in Seq(Bufs)
    BY <1>2, ServedBuffer, HasBuffer DEF IInv, TypeOK, Ideintr
  <2>2. disk' \in [Blocks -> Data] /\ data' \in [Bufs -> Data]
    <3> HIDE DEF b
    <3>1. \/ disk' = [disk EXCEPT ![blockno[b]] = active] /\ data' = data
          \/ data' = [data EXCEPT ![b] = disk[blockno[b]]] /\ disk' = disk
      BY <1>2 DEF Ideintr, b
    <3>2. disk \in [Blocks -> Data] /\ data \in [Bufs -> Data]
      BY DEF IInv, TypeOK
    <3>3. CASE disk' = [disk EXCEPT ![blockno[b]] = active] /\ data' = data
      BY <2>1, <3>2, <3>3
    <3>4. CASE data' = [data EXCEPT ![b] = disk[blockno[b]]] /\ disk' = disk
      <4>1. disk[blockno[b]] \in Data
        BY <2>1, <3>2
      <4> QED
        BY <2>1, <3>2, <3>4, <4>1
    <3> QED
      BY <3>1, <3>3, <3>4
  <2>3. flags' \in [Bufs -> SUBSET {"valid", "dirty"}] /\ pc' \in [Procs -> Labels]
    BY <1>2, <2>1 DEF Ideintr, IInv, TypeOK, Awake, Labels
  <2>4. active' \in Data \cup {None}
    <3>1. Len(idequeue) # 1 => idequeue[2] \in Bufs
      <4>1. idequeue \in Seq(Bufs) /\ idequeue # <<>> /\ Len(idequeue) \in Nat
        BY <1>2, ServedBuffer DEF IInv, TypeOK
      <4>2. Len(idequeue) # 0
        BY <4>1
      <4>4. \A k \in Nat : k # 0 /\ k # 1 => 2 \in 1 .. k
        BY SMT
      <4>3. Len(idequeue) # 1 => 2 \in 1 .. Len(idequeue)
        BY ONLY <4>1, <4>2, <4>4
      <4> QED
        BY <4>1, <4>3
    <3> QED
      BY <1>2, <3>1 DEF Ideintr, NextStarted, IInv, TypeOK
  <2> QED
    BY <1>2, <2>1, <2>2, <2>3, <2>4 DEF Ideintr, IInv, TypeOK, ListComplete
<1>3. ASSUME NEW p \in Procs, Moves(p) PROVE TypeOK' /\ ListComplete'
  <2>0. pc[p] # "out" => buf[p] \in Bufs
    BY HasBuffer
  <2>1. ASSUME NEW b \in Bufs, Hits(p, b) PROVE TypeOK' /\ ListComplete'
    BY <2>1 DEF Hits, IInv, TypeOK, Labels, ListComplete
  <2>2. ASSUME NEW b \in Bufs, NEW k \in Blocks, Recycles(p, b, k)
        PROVE  TypeOK' /\ ListComplete'
    BY <2>2 DEF Recycles, IInv, TypeOK, Labels, ListComplete
  <2>7. CASE AcquireSleep(p)
    <3>1. buf[p] \in Bufs
      BY <2>0, <2>7 DEF AcquireSleep
    <3>2. locked' \in [Bufs -> Procs \cup {None}] /\ pc' \in [Procs -> Labels]
      <4>1. \/ locked' = [locked EXCEPT ![buf[p]] = p] /\ pc' = [pc EXCEPT ![p] = "check"]
            \/ locked' = locked /\ pc' = [pc EXCEPT ![p] = "lockAsleep"]
        BY <2>7 DEF AcquireSleep, Goto
      <4>2. "check" \in Labels /\ "lockAsleep" \in Labels
        BY DEF Labels
      <4>3. locked \in [Bufs -> Procs \cup {None}] /\ pc \in [Procs -> Labels]
        BY DEF IInv, TypeOK
      <4>4. locked' \in [Bufs -> Procs \cup {None}]
        BY <3>1, <4>1, <4>3
      <4>5. pc' \in [Procs -> Labels]
        BY <4>1, <4>2, <4>3
      <4> QED
        BY <4>4, <4>5
    <3> QED
      BY <2>7, <3>2 DEF AcquireSleep, bufs, device, IInv, TypeOK, ListComplete
  <2>8. CASE CheckValid(p) \/ Finishes(p)
    <3>1. pc' \in [Procs -> Labels]
      <4>1. pc' = [pc EXCEPT ![p] = "use"] \/ pc' = [pc EXCEPT ![p] = "rw"]
        BY <2>8 DEF CheckValid, Finishes, Goto
      <4>2. "use" \in Labels /\ "rw" \in Labels
        BY DEF Labels
      <4> QED
        BY <4>1, <4>2 DEF IInv, TypeOK
    <3> QED
      BY <2>8, <3>1 DEF CheckValid, Finishes, bufs, device, IInv, TypeOK, ListComplete
  <2>3. CASE Queues(p)
    <3>1. buf[p] \in Bufs
      BY <2>0, <2>3 DEF Queues
    <3>2. idequeue' \in Seq(Bufs) /\ active' \in Data \cup {None}
      BY <2>3, <3>1 DEF Queues, IInv, TypeOK
    <3> QED
      BY <2>3, <3>2 DEF Queues, IInv, TypeOK, Labels, ListComplete
  <2>4. CASE ReleaseSleep(p)
    BY <2>0, <2>4 DEF ReleaseSleep, Awake, bufs, device, IInv, TypeOK, Labels, ListComplete
  <2>5. CASE Brelse(p)
    <3>1. buf[p] \in Bufs
      BY <2>0, <2>5 DEF Brelse
    <3>2. refcnt' \in [Bufs -> Nat]
      <4>1. p \in {q \in Procs : buf[q] = buf[p]}
        OBVIOUS
      <4>2. refcnt[buf[p]] # 0 /\ refcnt[buf[p]] \in Nat
        <5>1. IsFiniteSet({q \in Procs : buf[q] = buf[p]})
          BY UsersFinite
        <5> QED
          BY <3>1, <4>1, <5>1, FS_EmptySet DEF IInv, RefsCounted, TypeOK
      <4> QED
        BY <2>5, <3>1, <4>2 DEF Brelse, IInv, TypeOK
    <3>3. lru' = lru \/ lru' = MovedToFront(buf[p])
      BY <2>5 DEF Brelse
    <3>4. lru' \in Seq(Bufs) /\ Len(lru') = Cardinality(Bufs) /\ ListComplete'
      <4>1. CASE lru' = lru
        BY <4>1 DEF IInv, TypeOK, ListComplete
      <4>2. CASE lru' = MovedToFront(buf[p])
        BY <3>1, <4>2, MovedComplete DEF IInv, TypeOK, ListComplete
      <4> QED
        BY <3>3, <4>1, <4>2
    <3> QED
      BY <2>5, <3>2, <3>4 DEF Brelse, Goto, device, IInv, TypeOK, Labels
  <2>6. ASSUME NEW d \in Data, Bwrite(p, d) \/ LogWrite(p, d)
        PROVE  TypeOK' /\ ListComplete'
    <3>0. buf[p] \in Bufs
      BY <2>0, <2>6 DEF Bwrite, LogWrite
    <3>1. data' \in [Bufs -> Data] /\ flags' \in [Bufs -> SUBSET {"valid", "dirty"}]
      <4>1. /\ data' = [data EXCEPT ![buf[p]] = d]
            /\ flags' = [flags EXCEPT ![buf[p]] = flags[buf[p]] \cup {"dirty"}]
        BY <2>6 DEF Bwrite, LogWrite, FlagsToWrite
      <4> QED
        BY <3>0, <4>1 DEF IInv, TypeOK
    <3>2. pc' \in [Procs -> Labels]
      BY <2>6 DEF Bwrite, LogWrite, Goto, IInv, TypeOK, Labels
    <3> QED
      BY <2>6, <3>1, <3>2 DEF Bwrite, LogWrite, device, IInv, TypeOK, ListComplete
  <2> QED
    BY <1>3, <2>1, <2>2, <2>3, <2>4, <2>5, <2>6, <2>7, <2>8 DEF Moves
<1> QED
  BY <1>1, <1>2, <1>3, NextMoves

\* Every step keeps the locks with their owners.
LEMMA LocksStep == IInv /\ [Next]_vars => LocksHeld'
<1> SUFFICES ASSUME IInv, [Next]_vars PROVE LocksHeld'
  OBVIOUS
<1> USE CacheAssumption DEF LocksHeld, Owning
<1>0. /\ pc \in [Procs -> Labels] /\ buf \in [Procs -> Bufs \cup {None}]
      /\ locked \in [Bufs -> Procs \cup {None}] /\ LocksHeld
  BY DEF IInv, TypeOK
<1>1. CASE Rests
  BY <1>0, <1>1 DEF Rests, still
<1>2. CASE Ideintr
  <2>1. locked' = locked /\ buf' = buf
    BY <1>2 DEF Ideintr
  <2>2. \A q \in Procs : /\ pc'[q] = "out" <=> pc[q] = "out"
                         /\ pc'[q] \in Owning <=> pc[q] \in Owning
    BY <1>0, <1>2 DEF Ideintr, Awake
  <2> QED
    BY <1>0, <2>1, <2>2
<1>3. ASSUME NEW p \in Procs, Moves(p) PROVE LocksHeld'
  <2>1. ASSUME NEW b \in Bufs, Hits(p, b) \/ \E k \in Blocks : Recycles(p, b, k)
        PROVE  LocksHeld'
    <3>1. /\ pc[p] = "out" /\ pc' = [pc EXCEPT ![p] = "lock"]
          /\ buf' = [buf EXCEPT ![p] = b] /\ locked' = locked
      BY <2>1 DEF Hits, Recycles
    <3> QED
      BY <1>0, <3>1
  <2>2. CASE AcquireSleep(p)
    <3>1. buf[p] \in Bufs /\ pc[p] = "lock" /\ buf' = buf
      BY <2>2, HasBuffer DEF AcquireSleep
    <3>2. CASE locked[buf[p]] = None
      <4>1. locked' = [locked EXCEPT ![buf[p]] = p] /\ pc' = [pc EXCEPT ![p] = "check"]
        BY <2>2, <3>2 DEF AcquireSleep, Goto
      <4> QED
        BY <1>0, <3>1, <3>2, <4>1
    <3>3. CASE locked[buf[p]] # None
      <4>1. locked' = locked /\ pc' = [pc EXCEPT ![p] = "lockAsleep"]
        BY <2>2, <3>3 DEF AcquireSleep, Goto
      <4> QED
        BY <1>0, <3>1, <4>1
    <3> QED
      BY <3>2, <3>3
  <2>3. CASE CheckValid(p) \/ Queues(p) \/ Finishes(p)
    <3>1. /\ pc[p] \in {"check", "rw", "rwWoken"} /\ locked' = locked /\ buf' = buf
          /\ \E label \in {"use", "rw", "rwAsleep"} : pc' = [pc EXCEPT ![p] = label]
      BY <2>3 DEF CheckValid, Queues, Finishes, Goto
    <3> QED
      BY <1>0, <3>1
  <2>4. CASE ReleaseSleep(p)
    <3>1. /\ buf[p] \in Bufs /\ pc[p] = "use" /\ buf' = buf
          /\ locked' = [locked EXCEPT ![buf[p]] = None]
      BY <2>4, HasBuffer DEF ReleaseSleep
    <3>2. /\ pc'[p] = "release"
          /\ \A q \in Procs \ {p} : /\ pc'[q] = "out" <=> pc[q] = "out"
                                    /\ pc'[q] \in Owning <=> pc[q] \in Owning
      BY <1>0, <2>4 DEF ReleaseSleep, Awake
    <3>3. \A q \in Procs : pc[q] \in Owning /\ buf[q] = buf[p] => q = p
      BY <3>1, SoleOwner
    <3> QED
      BY <1>0, <3>1, <3>2, <3>3
  <2>5. CASE Brelse(p)
    <3>1. /\ pc[p] = "release" /\ locked' = locked
          /\ buf' = [buf EXCEPT ![p] = None] /\ pc' = [pc EXCEPT ![p] = "out"]
      BY <2>5 DEF Brelse, Goto
    <3> QED
      BY <1>0, <3>1
  <2>6. ASSUME NEW d \in Data, Bwrite(p, d) \/ LogWrite(p, d) PROVE LocksHeld'
    <3>1. /\ pc[p] = "use" /\ locked' = locked /\ buf' = buf
          /\ pc' = [pc EXCEPT ![p] = "rw"] \/ pc' = pc
      BY <2>6 DEF Bwrite, LogWrite, Goto
    <3> QED
      BY <1>0, <3>1
  <2> QED
    BY <1>3, <2>1, <2>2, <2>3, <2>4, <2>5, <2>6 DEF Moves
<1> QED
  BY <1>1, <1>2, <1>3, NextMoves

\* The users of b after p has taken it, or given it back.
LEMMA UsersChange ==
    ASSUME IInv, NEW p \in Procs, NEW c \in Bufs \cup {None},
           buf' = [buf EXCEPT ![p] = c], c # buf[p]
    PROVE  \A b \in Bufs :
             Cardinality({q \in Procs : buf'[q] = b})
               = IF b = c THEN Cardinality({q \in Procs : buf[q] = b}) + 1
                 ELSE IF b = buf[p] THEN Cardinality({q \in Procs : buf[q] = b}) - 1
                 ELSE Cardinality({q \in Procs : buf[q] = b})
<1> TAKE b \in Bufs
<1> DEFINE old == {q \in Procs : buf[q] = b}
           new == {q \in Procs : buf'[q] = b}
<1>0. IsFiniteSet(old) /\ buf \in [Procs -> Bufs \cup {None}]
  BY UsersFinite DEF IInv, TypeOK
<1>1. CASE b = c
  <2>1. p \notin old /\ new = old \cup {p}
    BY <1>0, <1>1
  <2> HIDE DEF old, new
  <2>2. Cardinality(new) = Cardinality(old) + 1
    BY <1>0, <2>1, FS_AddElement
  <2> QED
    BY <1>1, <2>2 DEF old, new
<1>2. CASE b # c /\ b = buf[p]
  <2>1. p \in old /\ new = old \ {p}
    BY <1>0, <1>2
  <2> HIDE DEF old, new
  <2>2. Cardinality(new) = Cardinality(old) - 1
    BY <1>0, <2>1, FS_RemoveElement
  <2> QED
    BY <1>2, <2>2 DEF old, new
<1>3. CASE b # c /\ b # buf[p]
  <2>1. new = old
    BY <1>0, <1>3
  <2> QED
    BY <1>3, <2>1
<1> QED
  BY <1>1, <1>2, <1>3

\* Every step keeps the reference counts exact.
LEMMA RefsStep == IInv /\ [Next]_vars => RefsCounted'
<1> SUFFICES ASSUME IInv, [Next]_vars PROVE RefsCounted'
  OBVIOUS
<1> USE CacheAssumption
<1>0. /\ refcnt \in [Bufs -> Nat] /\ RefsCounted
      /\ \A b \in Bufs : Cardinality({q \in Procs : buf[q] = b}) \in Nat
  BY UsersFinite DEF IInv, TypeOK
<1>1. ASSUME refcnt' = refcnt, buf' = buf PROVE RefsCounted'
  BY <1>0, <1>1 DEF RefsCounted
<1>2. CASE Rests \/ Ideintr
  BY <1>1, <1>2 DEF Rests, still, bufs, Ideintr
<1>3. ASSUME NEW p \in Procs, Moves(p) PROVE RefsCounted'
  <2>1. ASSUME NEW b \in Bufs, Hits(p, b) PROVE RefsCounted'
    <3>1. /\ refcnt' = [refcnt EXCEPT ![b] = refcnt[b] + 1]
          /\ buf' = [buf EXCEPT ![p] = b] /\ buf[p] = None /\ b # None
      BY <2>1 DEF Hits, IInv, LocksHeld
    <3>2. \A c \in Bufs : Cardinality({q \in Procs : buf'[q] = c})
                            = IF c = b THEN Cardinality({q \in Procs : buf[q] = c}) + 1
                              ELSE Cardinality({q \in Procs : buf[q] = c})
      <4>1. b \in Bufs \cup {None} /\ b # buf[p]
        BY <3>1
      <4>2. \A c \in Bufs :
              Cardinality({q \in Procs : buf'[q] = c})
                = IF c = b THEN Cardinality({q \in Procs : buf[q] = c}) + 1
                  ELSE IF c = buf[p] THEN Cardinality({q \in Procs : buf[q] = c}) - 1
                  ELSE Cardinality({q \in Procs : buf[q] = c})
        BY <3>1, <4>1, UsersChange
      <4>3. \A c \in Bufs : c # None
        OBVIOUS
      <4> QED
        BY <3>1, <4>2, <4>3
    <3>3. \A c \in Bufs : refcnt'[c] = IF c = b THEN refcnt[c] + 1 ELSE refcnt[c]
      BY <1>0, <3>1
    <3> QED
      BY <1>0, <3>2, <3>3 DEF RefsCounted
  <2>2. ASSUME NEW b \in Bufs, NEW k \in Blocks, Recycles(p, b, k) PROVE RefsCounted'
    <3>1. /\ refcnt' = [refcnt EXCEPT ![b] = 1] /\ refcnt[b] = 0
          /\ buf' = [buf EXCEPT ![p] = b] /\ buf[p] = None /\ b # None
      BY <2>2 DEF Recycles, Unused, IInv, LocksHeld
    <3>2. \A c \in Bufs : Cardinality({q \in Procs : buf'[q] = c})
                            = IF c = b THEN Cardinality({q \in Procs : buf[q] = c}) + 1
                              ELSE Cardinality({q \in Procs : buf[q] = c})
      <4>1. b \in Bufs \cup {None} /\ b # buf[p]
        BY <3>1
      <4>2. \A c \in Bufs :
              Cardinality({q \in Procs : buf'[q] = c})
                = IF c = b THEN Cardinality({q \in Procs : buf[q] = c}) + 1
                  ELSE IF c = buf[p] THEN Cardinality({q \in Procs : buf[q] = c}) - 1
                  ELSE Cardinality({q \in Procs : buf[q] = c})
        BY <3>1, <4>1, UsersChange
      <4>3. \A c \in Bufs : c # None
        OBVIOUS
      <4> QED
        BY <3>1, <4>2, <4>3
    <3>3. \A c \in Bufs : refcnt'[c] = IF c = b THEN refcnt[c] + 1 ELSE refcnt[c]
      BY <1>0, <3>1
    <3> QED
      BY <1>0, <3>2, <3>3 DEF RefsCounted
  <2>3. CASE Brelse(p)
    <3>1. /\ buf[p] \in Bufs /\ buf[p] # None
          /\ refcnt' = [refcnt EXCEPT ![buf[p]] = refcnt[buf[p]] - 1]
          /\ buf' = [buf EXCEPT ![p] = None]
      BY <2>3, HasBuffer DEF Brelse
    <3>2. \A c \in Bufs : Cardinality({q \in Procs : buf'[q] = c})
                            = IF c = buf[p] THEN Cardinality({q \in Procs : buf[q] = c}) - 1
                              ELSE Cardinality({q \in Procs : buf[q] = c})
      <4>1. None \in Bufs \cup {None} /\ None # buf[p]
        BY <3>1
      <4>2. \A c \in Bufs :
              Cardinality({q \in Procs : buf'[q] = c})
                = IF c = None THEN Cardinality({q \in Procs : buf[q] = c}) + 1
                  ELSE IF c = buf[p] THEN Cardinality({q \in Procs : buf[q] = c}) - 1
                  ELSE Cardinality({q \in Procs : buf[q] = c})
        BY <3>1, <4>1, UsersChange
      <4>3. \A c \in Bufs : c # None
        OBVIOUS
      <4> QED
        BY <3>1, <4>2, <4>3
    <3>3. \A c \in Bufs : refcnt'[c] = IF c = buf[p] THEN refcnt[c] - 1 ELSE refcnt[c]
      BY <1>0, <3>1
    <3> QED
      BY <1>0, <3>2, <3>3 DEF RefsCounted
  <2>4. CASE \/ AcquireSleep(p) \/ CheckValid(p) \/ Queues(p) \/ Finishes(p) \/ ReleaseSleep(p)
             \/ \E d \in Data : Bwrite(p, d) \/ LogWrite(p, d)
    BY <1>1, <2>4 DEF AcquireSleep, CheckValid, Queues, Finishes, ReleaseSleep, Bwrite, LogWrite,
                      bufs
  <2> QED
    BY <1>3, <2>1, <2>2, <2>3, <2>4 DEF Moves
<1> QED
  BY <1>2, <1>3, NextMoves

\* Every step keeps a block in one buffer.
LEMMA BlocksStep == IInv /\ [Next]_vars => BlocksApart'
<1> SUFFICES ASSUME IInv, [Next]_vars PROVE BlocksApart'
  OBVIOUS
<1> USE CacheAssumption
<1>0. /\ blockno \in [Bufs -> Blocks \cup {None}] /\ buf \in [Procs -> Bufs \cup {None}]
      /\ flags \in [Bufs -> SUBSET {"valid", "dirty"}] /\ BlocksApart
  BY DEF IInv, TypeOK
<1>1. ASSUME blockno' = blockno, buf' = buf,
             \A b \in Bufs : "valid" \in flags'[b] => "valid" \in flags[b]
      PROVE  BlocksApart'
  BY <1>0, <1>1 DEF BlocksApart
<1>2. CASE Rests
  BY <1>1, <1>2 DEF Rests, still, bufs
<1>3. CASE Ideintr
  <2>1. PICK q \in Procs : pc[q] = "rwAsleep" /\ buf[q] = Head(idequeue)
    BY <1>3, ServedBuffer
  <2>2. Head(idequeue) \in Bufs /\ blockno[Head(idequeue)] \in Blocks
    BY <2>1, HasBuffer
  <2>3. /\ blockno' = blockno /\ buf' = buf
        /\ flags' = [flags EXCEPT ![Head(idequeue)] = {"valid"}]
    BY <1>3 DEF Ideintr
  <2> QED
    BY <1>0, <2>2, <2>3 DEF BlocksApart
<1>4. ASSUME NEW p \in Procs, Moves(p) PROVE BlocksApart'
  <2>1. ASSUME NEW b \in Bufs, Hits(p, b) PROVE BlocksApart'
    BY <1>0, <2>1 DEF Hits, BlocksApart
  <2>2. ASSUME NEW b \in Bufs, NEW k \in Blocks, Recycles(p, b, k) PROVE BlocksApart'
    <3>1. \A c \in Bufs : blockno[c] # k
      BY <2>2 DEF Recycles, Cached
    <3>2. \A q \in Procs : buf[q] # b
      <4>1. Cardinality({q \in Procs : buf[q] = b}) = 0
        BY <2>2 DEF Recycles, Unused, IInv, RefsCounted
      <4>2. {q \in Procs : buf[q] = b} = {}
        BY <4>1, UsersFinite, FS_EmptySet
      <4> QED
        BY <4>2
    <3>3. /\ blockno' = [blockno EXCEPT ![b] = k] /\ flags' = [flags EXCEPT ![b] = {}]
          /\ buf' = [buf EXCEPT ![p] = b] /\ k # None
      BY <2>2 DEF Recycles
    <3> QED
      BY <1>0, <3>1, <3>2, <3>3 DEF BlocksApart
  <2>3. CASE Brelse(p)
    BY <1>0, <2>3 DEF Brelse, BlocksApart
  <2>4. CASE AcquireSleep(p) \/ CheckValid(p) \/ Queues(p) \/ Finishes(p) \/ ReleaseSleep(p)
    BY <1>1, <2>4 DEF AcquireSleep, CheckValid, Queues, Finishes, ReleaseSleep, bufs
  <2>5. ASSUME NEW d \in Data, Bwrite(p, d) \/ LogWrite(p, d) PROVE BlocksApart'
    <3>1. /\ blockno' = blockno /\ buf' = buf
          /\ flags' = [flags EXCEPT ![buf[p]] = flags[buf[p]] \cup {"dirty"}]
      BY <2>5 DEF Bwrite, LogWrite, FlagsToWrite
    <3>2. \A b \in Bufs : "valid" \in flags'[b] => "valid" \in flags[b]
      BY <1>0, <3>1
    <3> QED
      BY <1>1, <3>1, <3>2
  <2> QED
    BY <1>4, <2>1, <2>2, <2>3, <2>4, <2>5 DEF Moves
<1> QED
  BY <1>2, <1>3, <1>4, NextMoves

\* Every step keeps the flags right, and nothing panics.
LEMMA FlagsStep == IInv /\ [Next]_vars => FlagsRight'
<1> SUFFICES ASSUME IInv, [Next]_vars PROVE FlagsRight'
  OBVIOUS
<1>0. /\ pc \in [Procs -> Labels] /\ buf \in [Procs -> Bufs \cup {None}]
      /\ flags \in [Bufs -> SUBSET {"valid", "dirty"}] /\ FlagsRight
  BY DEF IInv, TypeOK
<1>1. ASSUME flags' = flags,
             \A q \in Procs : \/ pc'[q] = pc[q] /\ buf'[q] = buf[q]
                              \/ pc'[q] \notin {"rw", "rwAsleep", "rwWoken", "use"}
      PROVE  FlagsRight'
  BY <1>0, <1>1 DEF FlagsRight
<1>2. CASE Rests
  BY <1>0, <1>1, <1>2 DEF Rests, still, bufs
<1>3. CASE Ideintr
  <2> DEFINE b == Head(idequeue)
  <2>1. PICK p \in Procs : pc[p] = "rwAsleep" /\ buf[p] = b
    BY <1>3, ServedBuffer
  <2>2. /\ b \in Bufs /\ flags' = [flags EXCEPT ![b] = {"valid"}] /\ buf' = buf
        /\ \A q \in Procs : pc'[q] = IF pc[q] = "rwAsleep" /\ buf[q] = b THEN "rwWoken" ELSE pc[q]
        /\ panicked' = panicked
    BY <1>3, ServedBuffer DEF Ideintr, Awake
  <2>3. \A q \in Procs : pc[q] = "rw" => buf[q] # b
    BY <2>1, SoleOwner DEF Owning
  <2>4. \A q \in Procs : pc[q] \in {"rw", "rwAsleep", "rwWoken", "use"} => buf[q] \in Bufs
    BY HasBuffer
  <2> HIDE DEF b
  <2>5. \A c \in Bufs : flags'[c] = IF c = b THEN {"valid"} ELSE flags[c]
    BY <1>0, <2>2
  <2>6. ASSUME NEW q \in Procs
        PROVE  /\ pc'[q] \in {"rw", "rwAsleep"} => flags'[buf'[q]] # {"valid"}
               /\ pc'[q] = "rwWoken" => flags'[buf'[q]] = {"valid"}
               /\ pc'[q] = "use" => "valid" \in flags'[buf'[q]]
    <3>1. CASE pc[q] = "rwAsleep" /\ buf[q] = b
      BY <2>2, <2>5, <3>1
    <3>2. CASE ~(pc[q] = "rwAsleep" /\ buf[q] = b)
      <4>1. pc'[q] = pc[q] /\ buf'[q] = buf[q]
        BY <2>2, <3>2
      <4> QED
        BY <1>0, <2>3, <2>4, <2>5, <3>2, <4>1 DEF FlagsRight
    <3> QED
      BY <3>1, <3>2
  <2>7. \A c \in Bufs : "dirty" \in flags'[c] => "valid" \in flags'[c]
    BY <1>0, <2>5 DEF FlagsRight
  <2> QED
    BY <1>0, <2>2, <2>6, <2>7 DEF FlagsRight
<1>4. ASSUME NEW p \in Procs, Moves(p) PROVE FlagsRight'
  <2>1. ASSUME NEW b \in Bufs, Hits(p, b) PROVE FlagsRight'
    BY <1>0, <1>1, <2>1 DEF Hits
  <2>2. ASSUME NEW b \in Bufs, NEW k \in Blocks, Recycles(p, b, k)
        PROVE  FlagsRight'
    <3>2. \A q \in Procs : buf[q] # b
      <4>1. Cardinality({q \in Procs : buf[q] = b}) = 0
        BY <2>2 DEF Recycles, Unused, IInv, RefsCounted
      <4>2. {q \in Procs : buf[q] = b} = {}
        BY <4>1, UsersFinite, FS_EmptySet
      <4> QED
        BY <4>2
    <3>3. /\ flags' = [flags EXCEPT ![b] = {}] /\ pc' = [pc EXCEPT ![p] = "lock"]
          /\ buf' = [buf EXCEPT ![p] = b] /\ panicked' = panicked
      BY <2>2 DEF Recycles
    <3>4. \A q \in Procs : pc[q] \in {"rw", "rwAsleep", "rwWoken", "use"} => buf[q] \in Bufs
      BY HasBuffer
    <3> QED
      BY <1>0, <3>2, <3>3, <3>4 DEF FlagsRight
  <2>3. CASE AcquireSleep(p)
    <3>1. /\ flags' = flags /\ buf' = buf /\ panicked' = panicked
          /\ \E label \in {"check", "lockAsleep"} : pc' = [pc EXCEPT ![p] = label]
      BY <2>3 DEF AcquireSleep, Goto, bufs
    <3>2. \A q \in Procs : pc'[q] = pc[q] \/ pc'[q] \in {"check", "lockAsleep"}
      BY <1>0, <3>1
    <3> QED
      BY <1>0, <1>1, <3>1, <3>2
  <2>4. CASE CheckValid(p)
    <3>1. /\ flags' = flags /\ buf' = buf /\ panicked' = panicked
          /\ \/ "valid" \in flags[buf[p]] /\ pc' = [pc EXCEPT ![p] = "use"]
             \/ "valid" \notin flags[buf[p]] /\ pc' = [pc EXCEPT ![p] = "rw"]
      BY <2>4 DEF CheckValid, Goto, bufs
    <3> QED
      BY <1>0, <3>1 DEF FlagsRight
  <2>5. CASE Queues(p)
    <3>1. /\ flags' = flags /\ buf' = buf /\ panicked' = panicked
          /\ pc[p] = "rw" /\ pc' = [pc EXCEPT ![p] = "rwAsleep"]
      BY <2>5 DEF Queues
    <3> QED
      BY <1>0, <3>1 DEF FlagsRight
  <2>6. CASE Finishes(p)
    <3>1. /\ flags' = flags /\ buf' = buf /\ panicked' = panicked
          /\ flags[buf[p]] = {"valid"} /\ pc' = [pc EXCEPT ![p] = "use"]
      BY <2>6 DEF Finishes
    <3> QED
      BY <1>0, <3>1 DEF FlagsRight
  <2>7. CASE ReleaseSleep(p)
    <3>1. \A q \in Procs : pc'[q] = pc[q] \/ pc'[q] \in {"lock", "release"}
      BY <1>0, <2>7 DEF ReleaseSleep, Awake
    <3> QED
      BY <1>0, <1>1, <2>7, <3>1 DEF ReleaseSleep, bufs
  <2>8. CASE Brelse(p)
    BY <1>0, <1>1, <2>8 DEF Brelse, Goto
  <2>9. ASSUME NEW d \in Data, Bwrite(p, d) \/ LogWrite(p, d) PROVE FlagsRight'
    <3>0. buf[p] \in Bufs /\ pc[p] = "use" /\ panicked' = panicked /\ buf' = buf
      BY <2>9, HasBuffer DEF Bwrite, LogWrite
    <3>1. /\ flags' = [flags EXCEPT ![buf[p]] = flags[buf[p]] \cup {"dirty"}]
          /\ pc' = [pc EXCEPT ![p] = "rw"] \/ pc' = pc
      BY <2>9 DEF Bwrite, LogWrite, FlagsToWrite, Goto
    <3>2. \A q \in Procs : pc[q] \in {"rw", "rwAsleep", "rwWoken", "use"}
                             => buf[q] \in Bufs /\ (q # p => buf[q] # buf[p])
      BY <3>0, HasBuffer, SoleOwner DEF Owning
    <3>3. /\ \A c \in Bufs : flags'[c] = IF c = buf[p] THEN flags[c] \cup {"dirty"} ELSE flags[c]
          /\ \A q \in Procs : q # p => pc'[q] = pc[q]
          /\ pc'[p] = "rw" \/ pc'[p] = "use"
      BY <1>0, <3>0, <3>1
    <3>4. "valid" \in flags[buf[p]]
      BY <1>0, <3>0 DEF FlagsRight
    <3>5. ASSUME NEW q \in Procs
          PROVE  /\ pc'[q] \in {"rw", "rwAsleep"} => flags'[buf[q]] # {"valid"}
                 /\ pc'[q] = "rwWoken" => flags'[buf[q]] = {"valid"}
                 /\ pc'[q] = "use" => "valid" \in flags'[buf[q]]
      <4>1. CASE q = p
        <5>1. "dirty" \in flags'[buf[p]] /\ "valid" \in flags'[buf[p]]
          BY <3>0, <3>3, <3>4
        <5> QED
          BY <3>3, <4>1, <5>1
      <4>2. CASE q # p
        BY <1>0, <3>2, <3>3, <4>2 DEF FlagsRight
      <4> QED
        BY <4>1, <4>2
    <3>6. \A c \in Bufs : "dirty" \in flags'[c] => "valid" \in flags'[c]
      BY <1>0, <3>3, <3>4 DEF FlagsRight
    <3> QED
      BY <1>0, <3>0, <3>5, <3>6 DEF FlagsRight
  <2> QED
    BY <1>4, <2>1, <2>2, <2>3, <2>4, <2>5, <2>6, <2>7, <2>8, <2>9 DEF Moves
<1> QED
  BY <1>0, <1>2, <1>3, <1>4, NextMoves DEF vars

\* No step panics but bget's, when the buffers are short.
LEMMA PanicStep == IInv /\ [Next]_vars => PanicRight'
<1> SUFFICES ASSUME IInv, [Next]_vars PROVE PanicRight'
  OBVIOUS
<1>1. CASE Rests
  BY <1>1 DEF Rests, Short, IInv, PanicRight
<1>2. CASE panicked' = panicked
  BY <1>2 DEF Short, IInv, PanicRight
<1>3. ASSUME NEW p \in Procs, Moves(p) PROVE panicked' = panicked
  BY <1>3 DEF Moves, Hits, Recycles, AcquireSleep, CheckValid, Queues, Finishes, ReleaseSleep,
              Brelse, Bwrite, LogWrite
<1> QED
  BY <1>1, <1>2, <1>3, NextMoves DEF Ideintr


\* Every step keeps the sleepers and the queue together.
LEMMA QueueStep == IInv /\ [Next]_vars => RequestsServed' /\ QueueRight'
<1> SUFFICES ASSUME IInv, [Next]_vars PROVE RequestsServed' /\ QueueRight'
  OBVIOUS
<1>0. /\ pc \in [Procs -> Labels] /\ buf \in [Procs -> Bufs \cup {None}]
      /\ idequeue \in Seq(Bufs) /\ Len(idequeue) \in Nat /\ data \in [Bufs -> Data]
      /\ \A i \in 1 .. Len(idequeue) : idequeue[i] \in Bufs
      /\ active \in Data \cup {None} /\ RequestsServed /\ QueueRight
  BY DEF IInv, TypeOK
<1>1. ASSUME idequeue' = idequeue, active' = active,
             idequeue # <<>> => data'[Head(idequeue)] = data[Head(idequeue)],
             \A q \in Procs : pc[q] = "rwAsleep" <=> pc'[q] = "rwAsleep",
             \A q \in Procs : pc[q] = "rwAsleep" => buf'[q] = buf[q]
      PROVE  RequestsServed' /\ QueueRight'
  <2>1. RequestsServed'
    BY <1>0, <1>1 DEF RequestsServed
  <2>2. QueueRight'
    BY <1>0, <1>1 DEF QueueRight
  <2> QED
    BY <2>1, <2>2
<1>2. CASE Rests
  BY <1>1, <1>2 DEF Rests, still, bufs, device
<1>3. CASE Ideintr
  <2> DEFINE b == Head(idequeue)
             n == Len(idequeue)
  <2>1. /\ n \in Nat /\ n >= 1 /\ idequeue # <<>> /\ b \in Bufs /\ b = idequeue[1]
        /\ Len(idequeue') = n - 1 /\ idequeue' \in Seq(Bufs)
        /\ \A i \in 1 .. n - 1 : idequeue'[i] = idequeue[i + 1]
    <3>1. idequeue' = Tail(idequeue)
      BY <1>3 DEF Ideintr
    <3>2. idequeue # <<>> /\ b \in Bufs
      BY <1>3, ServedBuffer
    <3>3. n \in Nat /\ n >= 1 /\ b = idequeue[1]
      BY <1>0, <3>2
    <3> QED
      BY <1>3, <3>1, <3>2, <3>3, ServedBuffer
  <2>2. /\ \A q \in Procs : pc'[q] = IF pc[q] = "rwAsleep" /\ buf[q] = b THEN "rwWoken" ELSE pc[q]
        /\ buf' = buf
        /\ active' = IF n = 1 THEN None ELSE data[idequeue[2]]
        /\ \A c \in Bufs : c # b => data'[c] = data[c]
    <3>1. data' = data \/ data' = [data EXCEPT ![b] = disk[blockno[b]]]
      BY <1>3 DEF Ideintr
    <3>2. \A c \in Bufs : c # b => data'[c] = data[c]
      <4> HIDE DEF b
      <4> QED
        BY <1>0, <3>1
    <3> QED
      BY <1>3, <3>2 DEF Ideintr, Awake, NextStarted
  <2>3. \A i \in 1 .. n : i # 1 => idequeue[i] # b
    BY <1>0, <2>1 DEF RequestsServed
  <2> HIDE DEF b, n
  <2>4. ASSUME NEW q \in Procs, pc'[q] = "rwAsleep"
        PROVE  \E i \in 1 .. Len(idequeue') : idequeue'[i] = buf'[q]
    <3>1. pc[q] = "rwAsleep" /\ buf[q] # b
      BY <2>2, <2>4
    <3>2. PICK i \in 1 .. n : idequeue[i] = buf[q]
      BY <1>0, <3>1 DEF RequestsServed, n
    <3>3. i # 1
      BY <2>1, <3>1, <3>2
    <3>4. i - 1 \in 1 .. n - 1 /\ (i - 1) + 1 = i
      BY <2>1, <3>3
    <3>5. idequeue'[i - 1] = buf[q]
      BY <2>1, <3>2, <3>4
    <3> QED
      BY <2>1, <2>2, <3>4, <3>5
  <2>5. ASSUME NEW i \in 1 .. Len(idequeue'), NEW j \in 1 .. Len(idequeue'),
               idequeue'[i] = idequeue'[j]
        PROVE  i = j
    <3>1. /\ i + 1 \in 1 .. n /\ j + 1 \in 1 .. n /\ i \in 1 .. n - 1 /\ j \in 1 .. n - 1
      BY <2>1
    <3>2. idequeue[i + 1] = idequeue[j + 1]
      BY <2>1, <2>5, <3>1
    <3>3. i + 1 = j + 1
      BY <1>0, <3>1, <3>2 DEF RequestsServed, n
    <3> QED
      BY <3>1, <3>3
  <2>6. idequeue' # <<>> <=> active' # None
    <3>1. idequeue' # <<>> <=> n # 1
      BY <2>1
    <3>2. n # 1 => idequeue[2] \in Bufs
      <4>1. n # 1 => 2 \in 1 .. n
        BY <2>1
      <4> QED
        BY <1>0, <4>1 DEF n
    <3>3. n # 1 => data[idequeue[2]] # None
      BY <1>0, <3>2, CacheAssumption
    <3> QED
      BY <2>2, <3>1, <3>3
  <2>7. ASSUME NEW i \in 1 .. Len(idequeue')
        PROVE  \E q \in Procs : pc'[q] = "rwAsleep" /\ buf'[q] = idequeue'[i]
    <3>1. i \in 1 .. n - 1 /\ i + 1 \in 1 .. n /\ i + 1 # 1
      BY <2>1
    <3>2. idequeue'[i] = idequeue[i + 1] /\ idequeue[i + 1] # b
      BY <2>1, <2>3, <3>1
    <3>3. PICK q \in Procs : pc[q] = "rwAsleep" /\ buf[q] = idequeue[i + 1]
      BY <1>0, <3>1 DEF QueueRight, n
    <3> QED
      BY <2>2, <3>2, <3>3
  <2>8. ASSUME idequeue' # <<>> PROVE active' = data'[Head(idequeue')]
    <3>1. n # 1 /\ 1 \in 1 .. n - 1 /\ 2 \in 1 .. n /\ 1 + 1 = 2
      BY <2>1, <2>8
    <3>2. Head(idequeue') = idequeue[2]
      BY <2>1, <2>8, <3>1
    <3>3. idequeue[2] \in Bufs /\ idequeue[2] # b
      BY <1>0, <2>3, <3>1 DEF n
    <3> QED
      BY <2>2, <3>1, <3>2, <3>3
  <2> QED
    BY <2>4, <2>5, <2>6, <2>7, <2>8 DEF RequestsServed, QueueRight
<1>4. ASSUME NEW p \in Procs, Moves(p) PROVE RequestsServed' /\ QueueRight'
  <2>1. ASSUME NEW b \in Bufs, Hits(p, b) \/ \E k \in Blocks : Recycles(p, b, k)
        PROVE  RequestsServed' /\ QueueRight'
    <3>1. /\ pc[p] = "out" /\ pc' = [pc EXCEPT ![p] = "lock"] /\ buf' = [buf EXCEPT ![p] = b]
          /\ idequeue' = idequeue /\ active' = active /\ data' = data
      BY <2>1 DEF Hits, Recycles
    <3> QED
      BY <1>0, <1>1, <3>1
  <2>2. CASE AcquireSleep(p) \/ CheckValid(p) \/ Finishes(p)
    <3>1. /\ pc[p] \in {"lock", "check", "rwWoken"} /\ buf' = buf
          /\ \E label \in {"check", "lockAsleep", "use", "rw"} : pc' = [pc EXCEPT ![p] = label]
          /\ idequeue' = idequeue /\ active' = active /\ data' = data
      BY <2>2 DEF AcquireSleep, CheckValid, Finishes, Goto, bufs, device
    <3>2. \A q \in Procs : pc[q] = "rwAsleep" <=> pc'[q] = "rwAsleep"
      BY <1>0, <3>1
    <3> QED
      BY <1>1, <3>1, <3>2
  <2>3. CASE ReleaseSleep(p)
    <3>1. /\ pc[p] = "use" /\ buf' = buf
          /\ idequeue' = idequeue /\ active' = active /\ data' = data
      BY <2>3 DEF ReleaseSleep, bufs, device
    <3>2. \A q \in Procs : pc[q] = "rwAsleep" <=> pc'[q] = "rwAsleep"
      BY <1>0, <2>3, <3>1 DEF ReleaseSleep, Awake
    <3> QED
      BY <1>1, <3>1, <3>2
  <2>4. CASE Brelse(p)
    <3>1. /\ pc[p] = "release" /\ pc' = [pc EXCEPT ![p] = "out"]
          /\ buf' = [buf EXCEPT ![p] = None]
          /\ idequeue' = idequeue /\ active' = active /\ data' = data
      BY <2>4 DEF Brelse, Goto, device
    <3> QED
      BY <1>0, <1>1, <3>1
  <2>5. ASSUME NEW d \in Data, Bwrite(p, d) \/ LogWrite(p, d)
        PROVE  RequestsServed' /\ QueueRight'
    <3>1. /\ pc[p] = "use" /\ buf' = buf /\ idequeue' = idequeue /\ active' = active
          /\ pc' = [pc EXCEPT ![p] = "rw"] \/ pc' = pc
          /\ data' = [data EXCEPT ![buf[p]] = d]
      BY <2>5 DEF Bwrite, LogWrite, Goto, device
    <3>2. ASSUME idequeue # <<>>
          PROVE  data'[Head(idequeue)] = data[Head(idequeue)]
      <4>1. 1 \in 1 .. Len(idequeue) /\ Head(idequeue) = idequeue[1] /\ idequeue[1] \in Bufs
        BY <1>0, <3>2
      <4>2. PICK q \in Procs : pc[q] = "rwAsleep" /\ buf[q] = idequeue[1]
        BY <1>0, <4>1 DEF QueueRight
      <4>3. buf[p] # idequeue[1]
        BY <3>1, <4>2, SoleOwner DEF Owning
      <4> QED
        BY <1>0, <3>1, <4>1, <4>3
    <3>3. \A q \in Procs : pc[q] = "rwAsleep" <=> pc'[q] = "rwAsleep"
      BY <1>0, <3>1
    <3> QED
      BY <1>1, <3>1, <3>2, <3>3
  <2>6. CASE Queues(p)
    <3> DEFINE n == Len(idequeue)
    <3>1. /\ pc[p] = "rw" /\ buf' = buf /\ data' = data /\ buf[p] \in Bufs
          /\ idequeue' = Append(idequeue, buf[p])
          /\ active' = IF idequeue = <<>> THEN data[buf[p]] ELSE active
          /\ pc' = [pc EXCEPT ![p] = "rwAsleep"]
      BY <2>6, HasBuffer DEF Queues
    <3>2. /\ Len(idequeue') = n + 1 /\ n \in Nat /\ idequeue'[n + 1] = buf[p]
          /\ \A i \in 1 .. n : idequeue'[i] = idequeue[i]
          /\ idequeue' # <<>>
          /\ Head(idequeue') = IF idequeue = <<>> THEN buf[p] ELSE Head(idequeue)
      BY <1>0, <3>1
    <3>3. \A i \in 1 .. n : idequeue[i] # buf[p]
      <4> SUFFICES ASSUME NEW i \in 1 .. n, idequeue[i] = buf[p] PROVE FALSE
        OBVIOUS
      <4>1. PICK q \in Procs : pc[q] = "rwAsleep" /\ buf[q] = idequeue[i]
        BY <1>0 DEF QueueRight
      <4> QED
        BY <3>1, <4>1, SoleOwner DEF Owning
    <3>4. \A q \in Procs : pc'[q] = IF q = p THEN "rwAsleep" ELSE pc[q]
      BY <1>0, <3>1
    <3> HIDE DEF n
    <3>5. ASSUME NEW q \in Procs, pc'[q] = "rwAsleep"
          PROVE  \E i \in 1 .. n + 1 : idequeue'[i] = buf[q]
      <4>1. CASE q = p
        BY <3>2, <4>1
      <4>2. CASE q # p
        <5>1. PICK i \in 1 .. n : idequeue[i] = buf[q]
          BY <1>0, <3>4, <3>5, <4>2 DEF RequestsServed, n
        <5>2. i \in 1 .. n + 1 /\ idequeue'[i] = buf[q]
          BY <3>2, <5>1
        <5> QED
          BY <5>2
      <4> QED
        BY <4>1, <4>2
    <3>6. ASSUME NEW i \in 1 .. n + 1, NEW j \in 1 .. n + 1, idequeue'[i] = idequeue'[j]
          PROVE  i = j
      <4>1. CASE i \in 1 .. n /\ j \in 1 .. n
        BY <1>0, <3>2, <3>6, <4>1 DEF RequestsServed, n
      <4>2. CASE i = n + 1 /\ j \in 1 .. n
        BY <3>2, <3>3, <3>6, <4>2
      <4>3. CASE i \in 1 .. n /\ j = n + 1
        BY <3>2, <3>3, <3>6, <4>3
      <4> QED
        BY <3>2, <4>1, <4>2, <4>3
    <3>7. active' # None
      BY <1>0, <3>1, CacheAssumption DEF RequestsServed
    <3>8. ASSUME NEW i \in 1 .. n + 1
          PROVE  \E q \in Procs : pc'[q] = "rwAsleep" /\ buf[q] = idequeue'[i]
      <4>1. CASE i = n + 1
        BY <3>2, <3>4, <4>1
      <4>2. CASE i \in 1 .. n
        <5>1. PICK q \in Procs : pc[q] = "rwAsleep" /\ buf[q] = idequeue[i]
          BY <1>0, <4>2 DEF QueueRight, n
        <5> QED
          BY <3>2, <3>4, <4>2, <5>1
      <4> QED
        BY <3>2, <4>1, <4>2
    <3>9. active' = data'[Head(idequeue')]
      BY <1>0, <3>1, <3>2 DEF QueueRight
    <3>10. RequestsServed'
      BY <3>1, <3>2, <3>5, <3>6, <3>7 DEF RequestsServed
    <3>11. QueueRight'
      BY <3>1, <3>2, <3>8, <3>9 DEF QueueRight
    <3> QED
      BY <3>10, <3>11
  <2> QED
    BY <1>4, <2>1, <2>2, <2>3, <2>4, <2>5, <2>6 DEF Moves
<1> QED
  BY <1>2, <1>3, <1>4, NextMoves

\* Every step keeps what is not dirty as it is on the disk.
LEMMA CleanStep == IInv /\ [Next]_vars => CleanIsDisk'
<1> SUFFICES ASSUME IInv, [Next]_vars PROVE CleanIsDisk'
  OBVIOUS
<1>0. /\ blockno \in [Bufs -> Blocks \cup {None}] /\ data \in [Bufs -> Data]
      /\ flags \in [Bufs -> SUBSET {"valid", "dirty"}] /\ disk \in [Blocks -> Data]
      /\ CleanIsDisk /\ BlocksApart
  BY DEF IInv, TypeOK
<1>1. ASSUME UNCHANGED <<blockno, flags, data, disk>> PROVE CleanIsDisk'
  BY <1>0, <1>1 DEF CleanIsDisk
<1>2. CASE Rests
  BY <1>1, <1>2 DEF Rests, still, bufs, device
<1>3. CASE Ideintr
  <2> DEFINE b == Head(idequeue)
  <2>1. /\ b \in Bufs /\ blockno[b] \in Blocks /\ active = data[b]
        /\ flags' = [flags EXCEPT ![b] = {"valid"}] /\ blockno' = blockno
    BY <1>3, ServedBuffer, HasBuffer DEF Ideintr
  <2>2. \/ disk' = [disk EXCEPT ![blockno[b]] = active] /\ data' = data
        \/ data' = [data EXCEPT ![b] = disk[blockno[b]]] /\ disk' = disk
    BY <1>3 DEF Ideintr
  <2> HIDE DEF b
  <2>3. ASSUME NEW c \in Bufs, c # b, "valid" \in flags[c]
        PROVE  blockno[c] \in Blocks /\ blockno[c] # blockno[b]
    BY <1>0, <2>1, <2>3, CacheAssumption DEF BlocksApart
  <2>4. \A c \in Bufs : flags'[c] = IF c = b THEN {"valid"} ELSE flags[c]
    BY <1>0, <2>1
  <2>5. CASE disk' = [disk EXCEPT ![blockno[b]] = active] /\ data' = data
    <3>1. disk'[blockno[b]] = data[b]
      BY <1>0, <2>1, <2>5
    <3>2. ASSUME NEW c \in Bufs, "valid" \in flags'[c], "dirty" \notin flags'[c], c # b
          PROVE  data[c] = disk'[blockno[c]]
      BY <1>0, <2>1, <2>3, <2>4, <2>5, <3>2 DEF CleanIsDisk
    <3> QED
      BY <2>1, <2>5, <3>1, <3>2 DEF CleanIsDisk
  <2>6. CASE data' = [data EXCEPT ![b] = disk[blockno[b]]] /\ disk' = disk
    BY <1>0, <2>1, <2>4, <2>6 DEF CleanIsDisk
  <2> QED
    BY <2>2, <2>5, <2>6
<1>4. ASSUME NEW p \in Procs, Moves(p) PROVE CleanIsDisk'
  <2>1. ASSUME NEW b \in Bufs, NEW k \in Blocks, Recycles(p, b, k) PROVE CleanIsDisk'
    BY <1>0, <2>1 DEF Recycles, CleanIsDisk
  <2>2. ASSUME NEW d \in Data, Bwrite(p, d) \/ LogWrite(p, d) PROVE CleanIsDisk'
    <3>1. /\ data' = [data EXCEPT ![buf[p]] = d] /\ blockno' = blockno /\ disk' = disk
          /\ flags' = [flags EXCEPT ![buf[p]] = flags[buf[p]] \cup {"dirty"}]
      BY <2>2 DEF Bwrite, LogWrite, FlagsToWrite, device
    <3>2. \A c \in Bufs : /\ flags'[c] = IF c = buf[p] THEN flags[c] \cup {"dirty"} ELSE flags[c]
                          /\ c # buf[p] => data'[c] = data[c]
      BY <1>0, <3>1
    <3> QED
      BY <1>0, <3>1, <3>2 DEF CleanIsDisk
  <2>3. CASE \/ \E b \in Bufs : Hits(p, b)
             \/ AcquireSleep(p) \/ CheckValid(p) \/ Queues(p) \/ Finishes(p)
             \/ ReleaseSleep(p) \/ Brelse(p)
    BY <1>1, <2>3 DEF Hits, AcquireSleep, CheckValid, Queues, Finishes, ReleaseSleep, Brelse,
                      bufs, device
  <2> QED
    BY <1>4, <2>1, <2>2, <2>3 DEF Moves
<1> QED
  BY <1>2, <1>3, <1>4, NextMoves

Writing == {"rw", "rwAsleep", "rwWoken"}

\* Every step keeps the number of pinned buffers within the bound.
LEMMA PinnedStep == IInv /\ [Next]_vars => PinnedBounded'
<1> SUFFICES ASSUME IInv, [Next]_vars PROVE PinnedBounded'
  OBVIOUS
<1>0. /\ pc \in [Procs -> Labels] /\ buf \in [Procs -> Bufs \cup {None}]
      /\ flags \in [Bufs -> SUBSET {"valid", "dirty"}] /\ PinnedBounded
  BY DEF IInv, TypeOK
<1>1. /\ \A c : c \in Pinned
                  <=> c \in Bufs /\ "dirty" \in flags[c]
                        /\ \A q \in Procs : pc[q] \in Writing => buf[q] # c
      /\ \A c : c \in Pinned'
                  <=> c \in Bufs /\ "dirty" \in flags'[c]
                        /\ \A q \in Procs : pc'[q] \in Writing => buf'[q] # c
  BY DEF Pinned, Writing
<1>2. ASSUME \A c \in Bufs : "dirty" \in flags'[c] => "dirty" \in flags[c]
                               \/ \E q \in Procs : pc'[q] \in Writing /\ buf'[q] = c,
             \A q \in Procs : pc[q] \in Writing =>
                                \/ pc'[q] \in Writing /\ buf'[q] = buf[q]
                                \/ "dirty" \notin flags'[buf[q]]
      PROVE  PinnedBounded'
  <2>1. \A c : c \in Pinned' => c \in Pinned
    BY <1>1, <1>2
  <2>2. Pinned' \subseteq Pinned /\ Pinned \in SUBSET Bufs
    BY <1>1, <2>1
  <2>3. /\ IsFiniteSet(Pinned) /\ Cardinality(Pinned) \in Nat
        /\ Cardinality(Pinned') \in Nat
    BY <2>2, BuffersFinite, FS_Subset, FS_CardinalityType
  <2>4. Cardinality(Pinned') <= Cardinality(Pinned)
    BY <2>2, <2>3, FS_Subset
  <2> QED
    BY <1>0, <2>3, <2>4, CacheAssumption DEF PinnedBounded
<1> USE DEF Writing
<1>3. CASE Rests
  BY <1>2, <1>3 DEF Rests, still, bufs
<1>4. CASE Ideintr
  <2> DEFINE b == Head(idequeue)
  <2>1. /\ b \in Bufs /\ flags' = [flags EXCEPT ![b] = {"valid"}] /\ buf' = buf
        /\ \A q \in Procs : pc'[q] = IF pc[q] = "rwAsleep" /\ buf[q] = b THEN "rwWoken" ELSE pc[q]
    BY <1>4, ServedBuffer DEF Ideintr, Awake
  <2> HIDE DEF b
  <2>2. \A c \in Bufs : flags'[c] = IF c = b THEN {"valid"} ELSE flags[c]
    BY <1>0, <2>1
  <2>3. \A c \in Bufs : "dirty" \in flags'[c] => "dirty" \in flags[c]
    BY <2>2
  <2>4. \A q \in Procs : pc[q] \in Writing => pc'[q] \in Writing /\ buf'[q] = buf[q]
    BY <2>1
  <2> QED
    BY <1>2, <2>3, <2>4
<1>5. ASSUME NEW p \in Procs, Moves(p) PROVE PinnedBounded'
  <2>1. ASSUME NEW b \in Bufs, Hits(p, b) \/ \E k \in Blocks : Recycles(p, b, k)
        PROVE  PinnedBounded'
    <3>1. /\ pc[p] = "out" /\ pc' = [pc EXCEPT ![p] = "lock"] /\ buf' = [buf EXCEPT ![p] = b]
          /\ flags' = flags \/ flags' = [flags EXCEPT ![b] = {}]
      BY <2>1 DEF Hits, Recycles
    <3>2. \A q \in Procs : pc[q] \in Writing => pc'[q] \in Writing /\ buf'[q] = buf[q]
      BY <1>0, <3>1
    <3>3. \A c \in Bufs : "dirty" \in flags'[c] => "dirty" \in flags[c]
      BY <1>0, <3>1
    <3> QED
      BY <1>2, <3>2, <3>3
  <2>2. CASE AcquireSleep(p) \/ CheckValid(p) \/ Queues(p)
    <3>1. /\ pc[p] \in {"lock", "check", "rw"} /\ buf' = buf /\ flags' = flags
          /\ \/ \E label \in {"check", "lockAsleep", "use", "rw"} :
                  pc[p] # "rw" /\ pc' = [pc EXCEPT ![p] = label]
             \/ pc' = [pc EXCEPT ![p] = "rwAsleep"]
      BY <2>2 DEF AcquireSleep, CheckValid, Queues, Goto, bufs
    <3>2. \A q \in Procs : pc[q] \in Writing => pc'[q] \in Writing
      BY <1>0, <3>1
    <3> QED
      BY <1>2, <3>1, <3>2
  <2>3. CASE Finishes(p)
    <3>1. /\ buf' = buf /\ flags' = flags /\ flags[buf[p]] = {"valid"}
          /\ pc' = [pc EXCEPT ![p] = "use"]
      BY <2>3 DEF Finishes
    <3>2. "dirty" \notin flags'[buf[p]]
      BY <3>1
    <3>3. \A q \in Procs : q # p => pc'[q] = pc[q]
      BY <1>0, <3>1
    <3> QED
      BY <1>2, <3>1, <3>2, <3>3
  <2>4. CASE ReleaseSleep(p)
    <3>1. /\ pc[p] = "use" /\ buf' = buf /\ flags' = flags
      BY <2>4 DEF ReleaseSleep, bufs
    <3>2. \A q \in Procs : pc[q] \in Writing => pc'[q] = pc[q]
      BY <1>0, <2>4, <3>1 DEF ReleaseSleep, Awake
    <3> QED
      BY <1>2, <3>1, <3>2
  <2>5. CASE Brelse(p)
    <3>1. /\ pc[p] = "release" /\ flags' = flags /\ pc' = [pc EXCEPT ![p] = "out"]
          /\ buf' = [buf EXCEPT ![p] = None]
      BY <2>5 DEF Brelse, Goto
    <3>2. \A q \in Procs : pc[q] \in Writing => pc'[q] = pc[q] /\ buf'[q] = buf[q]
      BY <1>0, <3>1
    <3> QED
      BY <1>2, <3>1, <3>2
  <2>6. ASSUME NEW d \in Data, Bwrite(p, d) PROVE PinnedBounded'
    <3>1. /\ pc[p] = "use" /\ buf' = buf /\ pc' = [pc EXCEPT ![p] = "rw"]
          /\ flags' = [flags EXCEPT ![buf[p]] = flags[buf[p]] \cup {"dirty"}]
      BY <2>6 DEF Bwrite, FlagsToWrite, Goto
    <3>2. \A c \in Bufs : c # buf[p] => flags'[c] = flags[c]
      BY <1>0, <3>1
    <3>3. /\ pc'[p] = "rw"
          /\ \A q \in Procs : pc[q] \in Writing => pc'[q] = pc[q]
      BY <1>0, <3>1
    <3> QED
      BY <1>2, <3>1, <3>2, <3>3
  <2>7. ASSUME NEW d \in Data, LogWrite(p, d) PROVE PinnedBounded'
    <3> DEFINE pins == Pinned \cup {buf[p]}
    <3>1. /\ buf[p] \in Bufs /\ buf' = buf /\ pc' = pc /\ Cardinality(pins) <= MaxPinned
          /\ flags' = [flags EXCEPT ![buf[p]] = flags[buf[p]] \cup {"dirty"}]
      BY <2>7, HasBuffer DEF LogWrite
    <3>2. \A c \in Bufs : c # buf[p] => flags'[c] = flags[c]
      BY <1>0, <3>1
    <3>3. Pinned' \subseteq pins /\ pins \in SUBSET Bufs
      BY <1>1, <3>1, <3>2
    <3> HIDE DEF pins
    <3>4. /\ IsFiniteSet(pins) /\ Cardinality(pins) \in Nat /\ Cardinality(Pinned') \in Nat
      BY <3>3, BuffersFinite, FS_Subset, FS_CardinalityType
    <3>5. Cardinality(Pinned') <= Cardinality(pins)
      BY <3>3, <3>4, FS_Subset
    <3> QED
      BY <3>1, <3>4, <3>5, CacheAssumption DEF PinnedBounded
  <2> QED
    BY <1>5, <2>1, <2>2, <2>3, <2>4, <2>5, <2>6, <2>7 DEF Moves
<1> QED
  BY <1>3, <1>4, <1>5, NextMoves
-----------------------------------------------------------------------------
LEMMA InitIInv == Init => IInv
<1> SUFFICES ASSUME Init PROVE IInv
  OBVIOUS
<1>1. Cardinality(Bufs) \in Nat
  BY CacheAssumption, FS_CardinalityType
<1>2. lru \in Seq(Bufs) /\ Len(lru) = Cardinality(Bufs)
  BY <1>1 DEF Init
<1>3. TypeOK
  <2>1. blockno \in [Bufs -> Blocks \cup {None}] /\ flags \in [Bufs -> SUBSET {"valid", "dirty"}]
    BY DEF Init
  <2>2. refcnt \in [Bufs -> Nat] /\ locked \in [Bufs -> Procs \cup {None}]
    BY DEF Init
  <2>3. data \in [Bufs -> Data] /\ disk \in [Blocks -> Data] /\ active \in Data \cup {None}
    BY CacheAssumption DEF Init
  <2>4. idequeue \in Seq(Bufs)
    BY DEF Init
  <2>6. panicked \in {"no", "bget", "iderw"}
    BY DEF Init
  <2>5. pc \in [Procs -> Labels] /\ buf \in [Procs -> Bufs \cup {None}]
    BY DEF Init, Labels
  <2> QED
    BY <1>2, <2>1, <2>2, <2>3, <2>4, <2>5, <2>6 DEF TypeOK
<1>8. PanicRight
  BY DEF Init, PanicRight
<1>4. ListComplete /\ LocksHeld /\ BlocksApart /\ FlagsRight /\ CleanIsDisk
  BY CacheAssumption DEF Init, ListComplete, LocksHeld, Owning, BlocksApart, FlagsRight,
                         CleanIsDisk
<1>5. RequestsServed /\ QueueRight
  BY DEF Init, RequestsServed, QueueRight
<1>6. RefsCounted
  <2>1. \A b \in Bufs : {p \in Procs : buf[p] = b} = {}
    BY CacheAssumption DEF Init
  <2> QED
    BY <2>1, FS_EmptySet DEF Init, RefsCounted
<1>7. PinnedBounded
  <2>1. Pinned = {}
    BY DEF Init, Pinned
  <2> QED
    BY <2>1, CacheAssumption, FS_EmptySet DEF PinnedBounded
<1> QED
  BY <1>3, <1>4, <1>5, <1>6, <1>7, <1>8 DEF IInv

LEMMA NextIInv == IInv /\ [Next]_vars => IInv'
<1> SUFFICES ASSUME IInv, [Next]_vars PROVE IInv'
  OBVIOUS
<1>1. TypeOK' /\ ListComplete'
  BY TypeStep
<1>2. LocksHeld' /\ RefsCounted' /\ BlocksApart'
  BY LocksStep, RefsStep, BlocksStep
<1>3. FlagsRight' /\ PanicRight' /\ RequestsServed' /\ QueueRight'
  BY FlagsStep, PanicStep, QueueStep
<1>4. CleanIsDisk' /\ PinnedBounded'
  BY CleanStep, PinnedStep
<1> QED
  BY <1>1, <1>2, <1>3, <1>4 DEF IInv

\* The invariant of the cache: every step of bget, brelse, iderw and ideintr
\* keeps it, with any number of buffers.
THEOREM Inductive == Spec => []IInv
<1>1. Init => IInv
  BY InitIInv
<1>2. IInv /\ [Next]_vars => IInv'
  BY NextIInv
<1> QED
  BY <1>1, <1>2, PTL DEF Spec

\* The types of the cache's state.
THEOREM TypeCorrect == Spec => []TypeOK
<1>1. IInv => TypeOK
  BY DEF IInv
<1> QED
  BY <1>1, Inductive, PTL

LEMMA IInvRefs == IInv => RefsExact
<1> SUFFICES ASSUME IInv PROVE RefsExact
  OBVIOUS
<1>1. \A p \in Procs : pc[p] \in Owning <=> \E b \in Bufs : locked[b] = p /\ buf[p] = b
  <2> TAKE p \in Procs
  <2>1. pc[p] \in Owning => buf[p] \in Bufs
    BY HasBuffer DEF Owning
  <2> QED
    BY <2>1 DEF IInv, LocksHeld
<1> QED
  BY <1>1 DEF IInv, RefsExact, BlocksApart, RefsCounted, PanicRight

\* bget gives a block one buffer, b->refcnt counts the buffer's users, one of
\* them holds its lock, and iderw never panics, with any number of buffers,
\* processes and pinned blocks, and whether or not bget panics in the end.
THEOREM CacheRefsExact == Spec => []RefsExact
  BY IInvRefs, Inductive, PTL

\* bget panics only if the processes and the blocks that the log keeps pinned
\* outnumber the buffers.
THEOREM BgetFindsBuffer ==
    Spec => [](panicked = "bget" => Cardinality(Bufs) < Cardinality(Procs) + MaxPinned)
<1>1. IInv => (panicked = "bget" => Cardinality(Bufs) < Cardinality(Procs) + MaxPinned)
  BY DEF IInv, PanicRight, Short
<1> QED
  BY <1>1, Inductive, PTL

\* iderw and ideintr: a sleeper's request is in the queue, once, and the disk is
\* working on the first.
THEOREM SleepersQueued == Spec => []RequestsServed
<1>1. IInv => RequestsServed
  BY DEF IInv
<1> QED
  BY <1>1, Inductive, PTL
-----------------------------------------------------------------------------
\* A reader of a block sees its buffer if that is valid, else the disk.
ValueRight ==
    \A k \in Blocks :
      /\ \A b \in Bufs : blockno[b] = k /\ "valid" \in flags[b] => Value(k) = data[b]
      /\ (\A b \in Bufs : ~(blockno[b] = k /\ "valid" \in flags[b])) => Value(k) = disk[k]

LEMMA ValueIs == IInv => ValueRight
<1> SUFFICES ASSUME IInv, NEW k \in Blocks
             PROVE  /\ \A b \in Bufs : blockno[b] = k /\ "valid" \in flags[b]
                                         => Value(k) = data[b]
                    /\ (\A b \in Bufs : ~(blockno[b] = k /\ "valid" \in flags[b]))
                         => Value(k) = disk[k]
  BY DEF ValueRight
<1>1. ASSUME NEW b \in Bufs, blockno[b] = k, "valid" \in flags[b]
      PROVE  Value(k) = data[b]
  <2> DEFINE c == CHOOSE x \in Cached(k) : "valid" \in flags[x]
  <2>1. b \in Cached(k)
    BY <1>1 DEF Cached
  <2>2. c \in Cached(k) /\ Value(k) = data[c]
    BY <1>1, <2>1 DEF Value
  <2>3. c \in Bufs /\ blockno[c] = k
    BY <2>2 DEF Cached
  <2> HIDE DEF c
  <2>4. b = c
    BY <1>1, <2>3, CacheAssumption DEF IInv, BlocksApart
  <2> QED
    BY <2>2, <2>4
<1>2. ASSUME \A b \in Bufs : ~(blockno[b] = k /\ "valid" \in flags[b])
      PROVE  Value(k) = disk[k]
  BY <1>2 DEF Value, Cached
<1> QED
  BY <1>1, <1>2

\* What a step may do to the readers of a block that nobody is using: nothing.
LEMMA WritersStep ==
    ASSUME IInv, [Next]_vars, NEW k \in Blocks,
           \A p \in Procs : ~(pc[p] = "use" /\ blockno[buf[p]] = k)
    PROVE  Value(k)' = Value(k)
<1> DEFINE Holds(b) == blockno[b] = k /\ "valid" \in flags[b]
           HoldsNext(b) == blockno'[b] = k /\ "valid" \in flags'[b]
<1>0. /\ blockno \in [Bufs -> Blocks \cup {None}] /\ data \in [Bufs -> Data]
      /\ flags \in [Bufs -> SUBSET {"valid", "dirty"}] /\ disk \in [Blocks -> Data]
      /\ buf \in [Procs -> Bufs \cup {None}] /\ CleanIsDisk /\ BlocksApart /\ FlagsRight
  BY DEF IInv, TypeOK
<1>1. /\ \A b \in Bufs : Holds(b) => Value(k) = data[b]
      /\ (\A b \in Bufs : ~Holds(b)) => Value(k) = disk[k]
  BY ValueIs DEF ValueRight
<1>2. ValueRight'
  BY ValueIs, NextIInv, PTL
<1>3. /\ \A b \in Bufs : HoldsNext(b) => Value(k)' = data'[b]
      /\ (\A b \in Bufs : ~HoldsNext(b)) => Value(k)' = disk'[k]
  BY <1>2 DEF ValueRight
<1>4. ASSUME \A b \in Bufs : Holds(b) <=> HoldsNext(b),
             \A b \in Bufs : Holds(b) => data'[b] = data[b],
             disk'[k] = disk[k]
      PROVE  Value(k)' = Value(k)
  <2> HIDE DEF Holds, HoldsNext
  <2> QED
    BY <1>1, <1>3, <1>4
<1>5. ASSUME UNCHANGED <<blockno, flags, data, disk>> PROVE Value(k)' = Value(k)
  BY <1>4, <1>5
<1>6. CASE Rests
  BY <1>5, <1>6 DEF Rests, still, bufs, device
<1>7. CASE Ideintr
  <2> DEFINE b == Head(idequeue)
  <2>1. PICK q \in Procs : pc[q] = "rwAsleep" /\ buf[q] = b
    BY <1>7, ServedBuffer
  <2>2. /\ b \in Bufs /\ blockno[b] \in Blocks /\ active = data[b]
        /\ flags' = [flags EXCEPT ![b] = {"valid"}] /\ blockno' = blockno
        /\ flags[b] # {"valid"}
    BY <1>0, <1>7, <2>1, ServedBuffer, HasBuffer DEF Ideintr, FlagsRight
  <2>3. \/ "dirty" \in flags[b] /\ disk' = [disk EXCEPT ![blockno[b]] = active] /\ data' = data
        \/ "dirty" \notin flags[b] /\ data' = [data EXCEPT ![b] = disk[blockno[b]]] /\ disk' = disk
    BY <1>7 DEF Ideintr
  <2> HIDE DEF b
  <2>4. \A c \in Bufs : flags'[c] = IF c = b THEN {"valid"} ELSE flags[c]
    BY <1>0, <2>2
  <2>5. CASE blockno[b] # k
    <3>1. \A c \in Bufs : Holds(c) <=> HoldsNext(c)
      BY <2>2, <2>4, <2>5
    <3>2. \A c \in Bufs : Holds(c) => data'[c] = data[c]
      BY <1>0, <2>2, <2>3, <2>5
    <3>3. disk'[k] = disk[k]
      BY <1>0, <2>2, <2>3, <2>5
    <3> QED
      BY <1>4, <3>1, <3>2, <3>3
  <2>6. CASE blockno[b] = k
    <3>1. Value(k)' = data'[b]
      BY <1>3, <2>2, <2>4, <2>6
    <3>2. CASE "dirty" \in flags[b] /\ data' = data
      <4>1. Holds(b)
        BY <1>0, <2>2, <2>6, <3>2 DEF FlagsRight
      <4> QED
        BY <1>1, <2>2, <3>1, <3>2, <4>1
    <3>3. CASE "dirty" \notin flags[b] /\ data' = [data EXCEPT ![b] = disk[blockno[b]]]
      <4>1. "valid" \notin flags[b]
        <5>1. flags[b] \in SUBSET {"valid", "dirty"}
          BY <1>0, <2>2
        <5> QED
          BY <2>2, <3>3, <5>1
      <4>2. \A c \in Bufs : ~Holds(c)
        BY <1>0, <2>2, <2>6, <4>1, CacheAssumption DEF BlocksApart
      <4>3. data'[b] = disk[k]
        BY <1>0, <2>2, <2>6, <3>3
      <4> QED
        BY <1>1, <3>1, <4>2, <4>3
    <3> QED
      BY <2>3, <3>2, <3>3
  <2> QED
    BY <2>5, <2>6
<1>8. ASSUME NEW p \in Procs, Moves(p) PROVE Value(k)' = Value(k)
  <2>1. ASSUME NEW b \in Bufs, NEW m \in Blocks, Recycles(p, b, m) PROVE Value(k)' = Value(k)
    <3>1. /\ blockno' = [blockno EXCEPT ![b] = m] /\ flags' = [flags EXCEPT ![b] = {}]
          /\ data' = data /\ disk' = disk /\ \A c \in Bufs : blockno[c] # m
          /\ "dirty" \notin flags[b]
      BY <2>1 DEF Recycles, Cached, Unused
    <3>2. \A c \in Bufs : HoldsNext(c) <=> Holds(c) /\ c # b
      BY <1>0, <3>1
    <3>3. CASE Holds(b)
      <4>1. data[b] = disk[k]
        BY <1>0, <3>1, <3>3 DEF CleanIsDisk
      <4>2. \A c \in Bufs : ~HoldsNext(c)
        BY <1>0, <3>2, <3>3, CacheAssumption DEF BlocksApart
      <4> QED
        BY <1>1, <1>3, <3>1, <3>3, <4>1, <4>2
    <3>4. CASE ~Holds(b)
      BY <1>4, <3>1, <3>2, <3>4
    <3> QED
      BY <3>3, <3>4
  <2>2. ASSUME NEW d \in Data, Bwrite(p, d) \/ LogWrite(p, d) PROVE Value(k)' = Value(k)
    <3>1. /\ pc[p] = "use" /\ blockno[buf[p]] # k
          /\ data' = [data EXCEPT ![buf[p]] = d] /\ blockno' = blockno /\ disk' = disk
          /\ flags' = [flags EXCEPT ![buf[p]] = flags[buf[p]] \cup {"dirty"}]
      BY <2>2 DEF Bwrite, LogWrite, FlagsToWrite, device
    <3>2. \A c \in Bufs : /\ "valid" \in flags'[c] <=> "valid" \in flags[c]
                          /\ c # buf[p] => data'[c] = data[c]
      BY <1>0, <3>1
    <3> QED
      BY <1>4, <3>1, <3>2
  <2>3. CASE \/ \E b \in Bufs : Hits(p, b)
             \/ AcquireSleep(p) \/ CheckValid(p) \/ Queues(p) \/ Finishes(p)
             \/ ReleaseSleep(p) \/ Brelse(p)
    BY <1>5, <2>3 DEF Hits, AcquireSleep, CheckValid, Queues, Finishes, ReleaseSleep, Brelse,
                      bufs, device
  <2> QED
    BY <1>8, <2>1, <2>2, <2>3 DEF Moves
<1> QED
  BY <1>6, <1>7, <1>8, NextMoves

\* Neither recycling a buffer, nor ideintr, nor a process that only waits for a
\* block changes what bread of the block returns.
THEOREM WritersOnly == Spec => OnlyWritersChange
<1>1. IInv /\ [Next]_vars =>
        [\A k \in Blocks : Value(k)' # Value(k) =>
           \E p \in Procs : pc[p] = "use" /\ blockno[buf[p]] = k]_vars
  BY WritersStep
<1> QED
  BY <1>1, Inductive, PTL DEF Spec, OnlyWritersChange
=============================================================================
