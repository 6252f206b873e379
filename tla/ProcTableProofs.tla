--------------------------- MODULE ProcTableProofs ---------------------------
(***************************************************************************)
(* The process table keeps its invariants for every number of slots, cpus  *)
(* and page directories, and for every mix of system calls.                *)
(***************************************************************************)
EXTENDS ProcTable, TLAPS

\* Only a started process is inside the kernel, so that a slot begins its next
\* life at "user"; init is always one.
KernelStarted ==
    /\ initproc \in Started
    /\ \A p \in Slots : pc[p] # "user" => p \in Started

\* Every pid in the table was given out before nextpid.
PidsGiven == \A p \in Slots : pid[p] < nextpid

\* fork and clone own the EMBRYO slot they build.
EmbryoOwned ==
    /\ \A p \in Slots : pc[p] \in Building =>
         np[p] \in Slots /\ state[np[p]] = "EMBRYO"
    /\ \A p \in Slots : pc[p] = "cloneReturn" => np[p] \in Slots

\* Each builds a slot of its own.
EmbryoDistinct ==
    \A p, q \in Slots :
        pc[p] \in Building /\ pc[q] \in Building /\ np[p] = np[q] => p = q

\* The slot to be published is a child of the process that publishes it.
EmbryoParent ==
    \A p \in Slots : pc[p] \in {"forkPublish", "clonePublish"} => parent[np[p]] = p

\* init has no parent and no process is its own.
Rooted == parent[initproc] = Nil /\ \A c \in Slots : parent[c] # c

\* A sleeper in wait or join sleeps on its own slot, where exit wakes it.
SleepsOnSelf ==
    \A p \in Slots : state[p] = "SLEEPING" /\ pc[p] \in {"wait", "join"} => chan[p] = p

IInv ==
    /\ TypeOK /\ KernelStarted /\ PidsGiven /\ PidsUnique
    /\ EmbryoOwned /\ EmbryoDistinct /\ EmbryoParent /\ Rooted
    /\ SleepsOnSelf /\ NoKillMissed /\ ParentsStarted /\ NoZombieMissed
    /\ CloneReturnsThread
-----------------------------------------------------------------------------
\* Slots, channels and the null pointer are told apart.
LEMMA Addresses == /\ initproc \in Slots /\ Nil \notin Slots
                   /\ \A ch \in Chans : ch \notin Slots
  BY SizeAssumption, NilAssumption, ChansAssumption DEF Slots, initproc

\* userinit establishes the invariant.
LEMMA InitIInv == Init => IInv
<1> SUFFICES ASSUME Init PROVE IInv
  OBVIOUS
<1> USE Addresses DEF Init
<1>1. TypeOK
  <2>1. /\ pid \in [Slots -> 0 .. MaxPid] /\ nextpid \in 1 .. MaxPid + 1
    BY SizeAssumption
  <2>2. /\ state \in [Slots -> States] /\ pc \in [Slots -> Labels]
        /\ kstack \in [Slots -> BOOLEAN] /\ killed \in [Slots -> BOOLEAN]
    BY DEF States, Labels
  <2>3. pgdir \in [Slots -> PgDirs \cup {Nil}] /\ live \subseteq PgDirs
    OBVIOUS
  <2> QED
    BY <2>1, <2>2, <2>3 DEF TypeOK
<1>2. KernelStarted /\ PidsGiven /\ PidsUnique
  BY SizeAssumption DEF KernelStarted, Started, PidsGiven, PidsUnique
<1>3. EmbryoOwned /\ EmbryoDistinct /\ EmbryoParent /\ Rooted
  BY DEF EmbryoOwned, EmbryoDistinct, EmbryoParent, Rooted, Building
<1>4. SleepsOnSelf /\ NoKillMissed /\ NoZombieMissed /\ CloneReturnsThread
  BY DEF SleepsOnSelf, NoKillMissed, NoZombieMissed, CloneReturnsThread
<1>5. ParentsStarted
  BY DEF ParentsStarted
<1> QED
  BY <1>1, <1>2, <1>3, <1>4, <1>5 DEF IInv

\* What a process in the middle of fork or clone may rely on.
LEMMA NewSlot ==
    ASSUME IInv, NEW p \in Slots, Running(p), pc[p] \in Building
    PROVE  /\ np[p] \in Slots /\ state[np[p]] = "EMBRYO"
           /\ np[p] # p /\ np[p] # initproc
           /\ pc[np[p]] = "user"
           /\ \A q \in Slots : parent[q] # np[p]
           /\ \A q \in Slots \ {p} : pc[q] \in Building => np[q] # np[p]
  BY Addresses DEF IInv, EmbryoOwned, EmbryoDistinct, KernelStarted, Started,
     ParentsStarted, Running

\* allocproc takes a slot nobody builds and a pid nobody has.
LEMMA AllocProcInv ==
    ASSUME IInv, NEW p \in Slots, NEW name \in {"fork", "clone"}, AllocProc(p, name)
    PROVE  IInv'
<1> USE Addresses DEF IInv, AllocProc, NextPid, Call, InUser, Running, Goto,
  Building, TypeOK
<1>1. TypeOK'
  BY SizeAssumption DEF States, Labels
<1>2. KernelStarted'
  BY DEF KernelStarted, Started
<1>3. PidsGiven' /\ PidsUnique'
  BY SizeAssumption DEF PidsGiven, PidsUnique
<1>4. EmbryoOwned'
  BY DEF EmbryoOwned
<1>5. EmbryoDistinct'
  BY DEF EmbryoDistinct, EmbryoOwned
<1>6. EmbryoParent' /\ Rooted'
  BY DEF EmbryoParent, Rooted
<1>7. SleepsOnSelf' /\ NoKillMissed'
  BY DEF SleepsOnSelf, NoKillMissed
<1>8. ParentsStarted'
  BY DEF ParentsStarted, Started
<1>9. NoZombieMissed'
  BY DEF NoZombieMissed, Children, Threads
<1>10. CloneReturnsThread'
  BY DEF CloneReturnsThread
<1> QED
  BY <1>1, <1>2, <1>3, <1>4, <1>5, <1>6, <1>7, <1>8, <1>9, <1>10

\* A kernel stack for the new slot.
LEMMA AllocKstackInv ==
    ASSUME IInv, NEW p \in Slots, AllocKstack(p)
    PROVE  IInv'
<1> USE Addresses DEF IInv, AllocKstack, Running, Goto, Building, TypeOK
<1> DEFINE n == np[p]
<1>0. /\ n \in Slots /\ state[n] = "EMBRYO" /\ n # p /\ n # initproc
      /\ pc[n] = "user" /\ (\A q \in Slots : parent[q] # n)
      /\ \A q \in Slots \ {p} : pc[q] \in Building => np[q] # n
  BY NewSlot
<1>1. TypeOK'
  BY <1>0, SizeAssumption DEF States, Labels
<1>2. KernelStarted'
  BY <1>0 DEF KernelStarted, Started
<1>3. PidsGiven' /\ PidsUnique'
  BY <1>0, SizeAssumption DEF PidsGiven, PidsUnique
<1>4. EmbryoOwned'
  BY <1>0 DEF EmbryoOwned
<1>5. EmbryoDistinct'
  BY <1>0 DEF EmbryoDistinct
<1>6. EmbryoParent' /\ Rooted'
  BY <1>0 DEF EmbryoParent, Rooted
<1>7. SleepsOnSelf' /\ NoKillMissed'
  BY <1>0 DEF SleepsOnSelf, NoKillMissed
<1>8. ParentsStarted'
  BY <1>0 DEF ParentsStarted, Started
<1>9. NoZombieMissed'
  BY <1>0 DEF NoZombieMissed, Children, Threads
<1>10. CloneReturnsThread'
  BY <1>0 DEF CloneReturnsThread
<1> QED
  BY <1>1, <1>2, <1>3, <1>4, <1>5, <1>6, <1>7, <1>8, <1>9, <1>10

\* allocproc without memory gives the slot back.
LEMMA AllocKstackFailsInv ==
    ASSUME IInv, NEW p \in Slots, AllocKstackFails(p)
    PROVE  IInv'
<1> USE Addresses DEF IInv, AllocKstackFails, GiveBack, Running, Goto,
  Building, TypeOK
<1> DEFINE n == np[p]
<1>0. /\ n \in Slots /\ state[n] = "EMBRYO" /\ n # p /\ n # initproc
      /\ pc[n] = "user" /\ (\A q \in Slots : parent[q] # n)
      /\ \A q \in Slots \ {p} : pc[q] \in Building => np[q] # n
  BY NewSlot
<1>1. TypeOK'
  BY <1>0, SizeAssumption DEF States, Labels
<1>2. KernelStarted'
  BY <1>0 DEF KernelStarted, Started
<1>3. PidsGiven' /\ PidsUnique'
  BY <1>0, SizeAssumption DEF PidsGiven, PidsUnique
<1>4. EmbryoOwned'
  BY <1>0 DEF EmbryoOwned
<1>5. EmbryoDistinct'
  BY <1>0 DEF EmbryoDistinct
<1>6. EmbryoParent' /\ Rooted'
  BY <1>0 DEF EmbryoParent, Rooted
<1>7. SleepsOnSelf' /\ NoKillMissed'
  BY <1>0 DEF SleepsOnSelf, NoKillMissed
<1>8. ParentsStarted'
  BY <1>0 DEF ParentsStarted, Started
<1>9. NoZombieMissed'
  BY <1>0 DEF NoZombieMissed, Children, Threads
<1>10. CloneReturnsThread'
  BY <1>0 DEF CloneReturnsThread
<1> QED
  BY <1>1, <1>2, <1>3, <1>4, <1>5, <1>6, <1>7, <1>8, <1>9, <1>10

\* fork's copy of the address space.
LEMMA ForkCopyInv ==
    ASSUME IInv, NEW p \in Slots, ForkCopy(p)
    PROVE  IInv'
<1> USE Addresses DEF IInv, ForkCopy, Running, Goto, Building, TypeOK
<1> DEFINE n == np[p]
<1>0. /\ n \in Slots /\ state[n] = "EMBRYO" /\ n # p /\ n # initproc
      /\ pc[n] = "user" /\ (\A q \in Slots : parent[q] # n)
      /\ \A q \in Slots \ {p} : pc[q] \in Building => np[q] # n
  BY NewSlot
<1>1. TypeOK'
  BY <1>0, SizeAssumption DEF States, Labels
<1>2. KernelStarted'
  BY <1>0 DEF KernelStarted, Started
<1>3. PidsGiven' /\ PidsUnique'
  BY <1>0, SizeAssumption DEF PidsGiven, PidsUnique
<1>4. EmbryoOwned'
  BY <1>0 DEF EmbryoOwned
<1>5. EmbryoDistinct'
  BY <1>0 DEF EmbryoDistinct
<1>6. EmbryoParent' /\ Rooted'
  BY <1>0 DEF EmbryoParent, Rooted
<1>7. SleepsOnSelf' /\ NoKillMissed'
  BY <1>0 DEF SleepsOnSelf, NoKillMissed
<1>8. ParentsStarted'
  BY <1>0 DEF ParentsStarted, Started
<1>9. NoZombieMissed'
  BY <1>0 DEF NoZombieMissed, Children, Threads
<1>10. CloneReturnsThread'
  BY <1>0 DEF CloneReturnsThread
<1> QED
  BY <1>1, <1>2, <1>3, <1>4, <1>5, <1>6, <1>7, <1>8, <1>9, <1>10

\* fork without memory gives the slot back.
LEMMA ForkCopyFailsInv ==
    ASSUME IInv, NEW p \in Slots, ForkCopyFails(p)
    PROVE  IInv'
<1> USE Addresses DEF IInv, ForkCopyFails, GiveBack, Running, Goto, Building,
  TypeOK
<1> DEFINE n == np[p]
<1>0. /\ n \in Slots /\ state[n] = "EMBRYO" /\ n # p /\ n # initproc
      /\ pc[n] = "user" /\ (\A q \in Slots : parent[q] # n)
      /\ \A q \in Slots \ {p} : pc[q] \in Building => np[q] # n
  BY NewSlot
<1>1. TypeOK'
  BY <1>0, SizeAssumption DEF States, Labels
<1>2. KernelStarted'
  BY <1>0 DEF KernelStarted, Started
<1>3. PidsGiven' /\ PidsUnique'
  BY <1>0, SizeAssumption DEF PidsGiven, PidsUnique
<1>4. EmbryoOwned'
  BY <1>0 DEF EmbryoOwned
<1>5. EmbryoDistinct'
  BY <1>0 DEF EmbryoDistinct
<1>6. EmbryoParent' /\ Rooted'
  BY <1>0 DEF EmbryoParent, Rooted
<1>7. SleepsOnSelf' /\ NoKillMissed'
  BY <1>0 DEF SleepsOnSelf, NoKillMissed
<1>8. ParentsStarted'
  BY <1>0 DEF ParentsStarted, Started
<1>9. NoZombieMissed'
  BY <1>0 DEF NoZombieMissed, Children, Threads
<1>10. CloneReturnsThread'
  BY <1>0 DEF CloneReturnsThread
<1> QED
  BY <1>1, <1>2, <1>3, <1>4, <1>5, <1>6, <1>7, <1>8, <1>9, <1>10

\* clone's early returns.
LEMMA CloneRejectsInv ==
    ASSUME IInv, NEW p \in Slots, CloneRejects(p)
    PROVE  IInv'
<1> USE Addresses DEF IInv, CloneRejects, Running, Goto, Building, TypeOK
<1> DEFINE n == np[p]
<1>0. /\ n \in Slots /\ state[n] = "EMBRYO" /\ n # p /\ n # initproc
      /\ pc[n] = "user" /\ (\A q \in Slots : parent[q] # n)
      /\ \A q \in Slots \ {p} : pc[q] \in Building => np[q] # n
  BY NewSlot
<1>1. TypeOK'
  BY <1>0, SizeAssumption DEF States, Labels
<1>2. KernelStarted'
  BY <1>0 DEF KernelStarted, Started
<1>3. PidsGiven' /\ PidsUnique'
  BY <1>0, SizeAssumption DEF PidsGiven, PidsUnique
<1>4. EmbryoOwned'
  BY <1>0 DEF EmbryoOwned
<1>5. EmbryoDistinct'
  BY <1>0 DEF EmbryoDistinct
<1>6. EmbryoParent' /\ Rooted'
  BY <1>0 DEF EmbryoParent, Rooted
<1>7. SleepsOnSelf' /\ NoKillMissed'
  BY <1>0 DEF SleepsOnSelf, NoKillMissed
<1>8. ParentsStarted'
  BY <1>0 DEF ParentsStarted, Started
<1>9. NoZombieMissed'
  BY <1>0 DEF NoZombieMissed, Children, Threads
<1>10. CloneReturnsThread'
  BY <1>0 DEF CloneReturnsThread
<1> QED
  BY <1>1, <1>2, <1>3, <1>4, <1>5, <1>6, <1>7, <1>8, <1>9, <1>10

\* clone's sharing of the address space.
LEMMA CloneSharesInv ==
    ASSUME IInv, NEW p \in Slots, NEW copied \in BOOLEAN, CloneShares(p, copied)
    PROVE  IInv'
<1> USE Addresses DEF IInv, CloneShares, Running, Goto, Building, TypeOK
<1> DEFINE n == np[p]
<1>0. /\ n \in Slots /\ state[n] = "EMBRYO" /\ n # p /\ n # initproc
      /\ pc[n] = "user" /\ (\A q \in Slots : parent[q] # n)
      /\ \A q \in Slots \ {p} : pc[q] \in Building => np[q] # n
  BY NewSlot
<1>1. TypeOK'
  BY <1>0, SizeAssumption DEF States, Labels
<1>2. KernelStarted'
  BY <1>0 DEF KernelStarted, Started
<1>3. PidsGiven' /\ PidsUnique'
  BY <1>0, SizeAssumption DEF PidsGiven, PidsUnique
<1>4. EmbryoOwned'
  BY <1>0 DEF EmbryoOwned
<1>5. EmbryoDistinct'
  BY <1>0 DEF EmbryoDistinct
<1>6. EmbryoParent' /\ Rooted'
  BY <1>0 DEF EmbryoParent, Rooted
<1>7. SleepsOnSelf' /\ NoKillMissed'
  BY <1>0 DEF SleepsOnSelf, NoKillMissed
<1>8. ParentsStarted'
  BY <1>0 DEF ParentsStarted, Started
<1>9. NoZombieMissed'
  BY <1>0 DEF NoZombieMissed, Children, Threads
<1>10. CloneReturnsThread'
  BY <1>0 DEF CloneReturnsThread
<1> QED
  BY <1>1, <1>2, <1>3, <1>4, <1>5, <1>6, <1>7, <1>8, <1>9, <1>10

\* fork and clone make the new slot RUNNABLE.
LEMMA PublishInv ==
    ASSUME IInv, NEW p \in Slots, Publish(p)
    PROVE  IInv'
<1> USE Addresses DEF IInv, Publish, Running, Goto, Building, TypeOK
<1> DEFINE n == np[p]
<1>0. /\ n \in Slots /\ state[n] = "EMBRYO" /\ n # p /\ n # initproc
      /\ pc[n] = "user" /\ (\A q \in Slots : parent[q] # n)
      /\ \A q \in Slots \ {p} : pc[q] \in Building => np[q] # n
  BY NewSlot
<1>1. TypeOK'
  BY <1>0, SizeAssumption DEF States, Labels
<1>2. KernelStarted'
  BY <1>0 DEF KernelStarted, Started
<1>3. PidsGiven' /\ PidsUnique'
  BY <1>0, SizeAssumption DEF PidsGiven, PidsUnique
<1>4. EmbryoOwned'
  BY <1>0 DEF EmbryoOwned
<1>5. EmbryoDistinct'
  BY <1>0 DEF EmbryoDistinct
<1>6. EmbryoParent' /\ Rooted'
  BY <1>0 DEF EmbryoParent, Rooted
<1>7. SleepsOnSelf' /\ NoKillMissed'
  BY <1>0 DEF SleepsOnSelf, NoKillMissed
<1>8. ParentsStarted'
  BY <1>0 DEF ParentsStarted, Started, EmbryoParent
<1>9. NoZombieMissed'
  BY <1>0 DEF NoZombieMissed, Children, Threads
<1>10. CloneReturnsThread'
  BY <1>0 DEF CloneReturnsThread, EmbryoParent
<1> QED
  BY <1>1, <1>2, <1>3, <1>4, <1>5, <1>6, <1>7, <1>8, <1>9, <1>10

\* clone's last read of the slot.
LEMMA CloneReturnInv ==
    ASSUME IInv, NEW p \in Slots, CloneReturn(p)
    PROVE  IInv'
<1> USE Addresses DEF IInv, CloneReturn, Running, Goto, Building, TypeOK
<1>1. TypeOK'
  BY SizeAssumption DEF States, Labels
<1>2. KernelStarted'
  BY DEF KernelStarted, Started
<1>3. PidsGiven' /\ PidsUnique'
  BY SizeAssumption DEF PidsGiven, PidsUnique
<1>4. EmbryoOwned'
  BY DEF EmbryoOwned
<1>5. EmbryoDistinct'
  BY DEF EmbryoDistinct
<1>6. EmbryoParent' /\ Rooted'
  BY DEF EmbryoParent, Rooted
<1>7. SleepsOnSelf' /\ NoKillMissed'
  BY DEF SleepsOnSelf, NoKillMissed
<1>8. ParentsStarted'
  BY DEF ParentsStarted, Started
<1>9. NoZombieMissed'
  BY DEF NoZombieMissed, Children, Threads
<1>10. CloneReturnsThread'
  BY DEF CloneReturnsThread
<1> QED
  BY <1>1, <1>2, <1>3, <1>4, <1>5, <1>6, <1>7, <1>8, <1>9, <1>10

\* exec's change of address space.
LEMMA ExecInv ==
    ASSUME IInv, NEW p \in Slots, Exec(p)
    PROVE  IInv'
<1> USE Addresses DEF IInv, Exec, Call, InUser, Running, Goto, Building, TypeOK
<1>1. TypeOK'
  BY SizeAssumption DEF States, Labels
<1>2. KernelStarted'
  BY DEF KernelStarted, Started
<1>3. PidsGiven' /\ PidsUnique'
  BY SizeAssumption DEF PidsGiven, PidsUnique
<1>4. EmbryoOwned'
  BY DEF EmbryoOwned
<1>5. EmbryoDistinct'
  BY DEF EmbryoDistinct
<1>6. EmbryoParent' /\ Rooted'
  BY DEF EmbryoParent, Rooted
<1>7. SleepsOnSelf' /\ NoKillMissed'
  BY DEF SleepsOnSelf, NoKillMissed
<1>8. ParentsStarted'
  BY DEF ParentsStarted, Started
<1>9. NoZombieMissed'
  BY DEF NoZombieMissed, Children, Threads
<1>10. CloneReturnsThread'
  BY DEF CloneReturnsThread
<1> QED
  BY <1>1, <1>2, <1>3, <1>4, <1>5, <1>6, <1>7, <1>8, <1>9, <1>10

\* The entry to wait.
LEMMA CallWaitInv ==
    ASSUME IInv, NEW p \in Slots, CallWait(p)
    PROVE  IInv'
<1> USE Addresses DEF IInv, CallWait, Call, InUser, Running, Goto, Building,
  TypeOK
<1>1. TypeOK'
  BY SizeAssumption DEF States, Labels
<1>2. KernelStarted'
  BY DEF KernelStarted, Started
<1>3. PidsGiven' /\ PidsUnique'
  BY SizeAssumption DEF PidsGiven, PidsUnique
<1>4. EmbryoOwned'
  BY DEF EmbryoOwned
<1>5. EmbryoDistinct'
  BY DEF EmbryoDistinct
<1>6. EmbryoParent' /\ Rooted'
  BY DEF EmbryoParent, Rooted
<1>7. SleepsOnSelf' /\ NoKillMissed'
  BY DEF SleepsOnSelf, NoKillMissed
<1>8. ParentsStarted'
  BY DEF ParentsStarted, Started
<1>9. NoZombieMissed'
  BY DEF NoZombieMissed, Children, Threads
<1>10. CloneReturnsThread'
  BY DEF CloneReturnsThread
<1> QED
  BY <1>1, <1>2, <1>3, <1>4, <1>5, <1>6, <1>7, <1>8, <1>9, <1>10

\* The entry to join.
LEMMA CallJoinInv ==
    ASSUME IInv, NEW p \in Slots, CallJoin(p)
    PROVE  IInv'
<1> USE Addresses DEF IInv, CallJoin, Call, InUser, Running, Goto, Building,
  TypeOK
<1>1. TypeOK'
  BY SizeAssumption DEF States, Labels
<1>2. KernelStarted'
  BY DEF KernelStarted, Started
<1>3. PidsGiven' /\ PidsUnique'
  BY SizeAssumption DEF PidsGiven, PidsUnique
<1>4. EmbryoOwned'
  BY DEF EmbryoOwned
<1>5. EmbryoDistinct'
  BY DEF EmbryoDistinct
<1>6. EmbryoParent' /\ Rooted'
  BY DEF EmbryoParent, Rooted
<1>7. SleepsOnSelf' /\ NoKillMissed'
  BY DEF SleepsOnSelf, NoKillMissed
<1>8. ParentsStarted'
  BY DEF ParentsStarted, Started
<1>9. NoZombieMissed'
  BY DEF NoZombieMissed, Children, Threads
<1>10. CloneReturnsThread'
  BY DEF CloneReturnsThread
<1> QED
  BY <1>1, <1>2, <1>3, <1>4, <1>5, <1>6, <1>7, <1>8, <1>9, <1>10

\* kill, also of a free slot.
LEMMA KillInv ==
    ASSUME IInv, NEW p \in Slots, NEW target \in 0 .. MaxPid, Kill(p, target)
    PROVE  IInv'
<1> USE Addresses DEF IInv, Kill, Roused, Call, InUser, Running, Goto,
  Building, TypeOK
<1>1. TypeOK'
  BY SizeAssumption DEF States, Labels
<1>2. KernelStarted'
  BY DEF KernelStarted, Started
<1>3. PidsGiven' /\ PidsUnique'
  BY SizeAssumption DEF PidsGiven, PidsUnique
<1>4. EmbryoOwned'
  BY DEF EmbryoOwned
<1>5. EmbryoDistinct'
  BY DEF EmbryoDistinct
<1>6. EmbryoParent' /\ Rooted'
  BY DEF EmbryoParent, Rooted
<1>7. SleepsOnSelf' /\ NoKillMissed'
  BY DEF SleepsOnSelf, NoKillMissed
<1>8. ParentsStarted'
  BY DEF ParentsStarted, Started
<1>9. NoZombieMissed'
  BY DEF NoZombieMissed, Children, Threads
<1>10. CloneReturnsThread'
  BY DEF CloneReturnsThread
<1> QED
  BY <1>1, <1>2, <1>3, <1>4, <1>5, <1>6, <1>7, <1>8, <1>9, <1>10

\* sleep on another part's channel.
LEMMA SleepInv ==
    ASSUME IInv, NEW p \in Slots, NEW ch \in Chans, Sleep(p, ch)
    PROVE  IInv'
<1> USE Addresses DEF IInv, Sleep, InUser, Running, Goto, Building, TypeOK
<1>1. TypeOK'
  BY SizeAssumption DEF States, Labels
<1>2. KernelStarted'
  BY DEF KernelStarted, Started
<1>3. PidsGiven' /\ PidsUnique'
  BY SizeAssumption DEF PidsGiven, PidsUnique
<1>4. EmbryoOwned'
  BY DEF EmbryoOwned
<1>5. EmbryoDistinct'
  BY DEF EmbryoDistinct
<1>6. EmbryoParent' /\ Rooted'
  BY DEF EmbryoParent, Rooted
<1>7. SleepsOnSelf' /\ NoKillMissed'
  BY DEF SleepsOnSelf, NoKillMissed
<1>8. ParentsStarted'
  BY DEF ParentsStarted, Started
<1>9. NoZombieMissed'
  BY DEF NoZombieMissed, Children, Threads
<1>10. CloneReturnsThread'
  BY DEF CloneReturnsThread
<1> QED
  BY <1>1, <1>2, <1>3, <1>4, <1>5, <1>6, <1>7, <1>8, <1>9, <1>10

\* The scheduler's switch to a process.
LEMMA DispatchInv ==
    ASSUME IInv, NEW p \in Slots, Dispatch(p)
    PROVE  IInv'
<1> USE Addresses DEF IInv, Dispatch, Running, Goto, Building, TypeOK
<1>1. TypeOK'
  BY SizeAssumption DEF States, Labels
<1>2. KernelStarted'
  BY DEF KernelStarted, Started
<1>3. PidsGiven' /\ PidsUnique'
  BY SizeAssumption DEF PidsGiven, PidsUnique
<1>4. EmbryoOwned'
  BY DEF EmbryoOwned
<1>5. EmbryoDistinct'
  BY DEF EmbryoDistinct
<1>6. EmbryoParent' /\ Rooted'
  BY DEF EmbryoParent, Rooted
<1>7. SleepsOnSelf' /\ NoKillMissed'
  BY DEF SleepsOnSelf, NoKillMissed
<1>8. ParentsStarted'
  BY DEF ParentsStarted, Started
<1>9. NoZombieMissed'
  BY DEF NoZombieMissed, Children, Threads
<1>10. CloneReturnsThread'
  BY DEF CloneReturnsThread
<1> QED
  BY <1>1, <1>2, <1>3, <1>4, <1>5, <1>6, <1>7, <1>8, <1>9, <1>10

\* The timer's preemption.
LEMMA YieldInv ==
    ASSUME IInv, NEW p \in Slots, Yield(p)
    PROVE  IInv'
<1> USE Addresses DEF IInv, Yield, Running, Goto, Building, TypeOK
<1>1. TypeOK'
  BY SizeAssumption DEF States, Labels
<1>2. KernelStarted'
  BY DEF KernelStarted, Started
<1>3. PidsGiven' /\ PidsUnique'
  BY SizeAssumption DEF PidsGiven, PidsUnique
<1>4. EmbryoOwned'
  BY DEF EmbryoOwned
<1>5. EmbryoDistinct'
  BY DEF EmbryoDistinct
<1>6. EmbryoParent' /\ Rooted'
  BY DEF EmbryoParent, Rooted
<1>7. SleepsOnSelf' /\ NoKillMissed'
  BY DEF SleepsOnSelf, NoKillMissed
<1>8. ParentsStarted'
  BY DEF ParentsStarted, Started
<1>9. NoZombieMissed'
  BY DEF NoZombieMissed, Children, Threads
<1>10. CloneReturnsThread'
  BY DEF CloneReturnsThread
<1> QED
  BY <1>1, <1>2, <1>3, <1>4, <1>5, <1>6, <1>7, <1>8, <1>9, <1>10


\* exit: the parent and, for the children it inherits, init are awake when
\* the step ends.
LEMMA ExitInv ==
    ASSUME IInv, NEW p \in Slots, Exit(p)
    PROVE  IInv'
<1> USE Addresses DEF IInv, Exit, ExitCall, InUser, Running, TypeOK, Building
<1>1. /\ p # initproc /\ state[p] = "RUNNING" /\ pc[p] = "user"
      /\ UNCHANGED <<pid, chan, killed, kstack, pgdir, nextpid, live, pc, np,
                     lock, panicked>>
  OBVIOUS
<1>2. /\ parent' = [c \in Slots |-> IF parent[c] = p THEN initproc ELSE parent[c]]
      /\ parent' \in [Slots -> Slots \cup {Nil}]
  BY DEF Inherit
<1>3. PICK cs : /\ state' = [Woken(cs) EXCEPT ![p] = "ZOMBIE"]
                /\ parent[p] \in cs
                /\ (\E c \in Slots : parent[c] = p /\ state[c] = "ZOMBIE") => initproc \in cs
  <2> WITNESS WokenByExit(p)
  <2> QED
    BY DEF WokenByExit, Children
<1>4. /\ state' \in [Slots -> States]
      /\ state'[p] = "ZOMBIE"
      /\ \A q \in Slots \ {p} :
           /\ state[q] # "SLEEPING" => state'[q] = state[q]
           /\ state[q] = "SLEEPING" => state'[q] \in {"SLEEPING", "RUNNABLE"}
           /\ state[q] = "SLEEPING" /\ chan[q] \in cs => state'[q] = "RUNNABLE"
  BY <1>1, <1>3 DEF Woken, States
<1> HIDE DEF Exit
<1>5. TypeOK'
  BY <1>1, <1>2, <1>4
<1>6. KernelStarted'
  BY <1>1, <1>4 DEF KernelStarted, Started
<1>7. PidsGiven' /\ PidsUnique'
  BY <1>1, <1>4 DEF PidsGiven, PidsUnique
<1>8. EmbryoOwned' /\ EmbryoDistinct'
  BY <1>1, <1>4 DEF EmbryoOwned, EmbryoDistinct
<1>9. EmbryoParent' /\ Rooted'
  BY <1>1, <1>2 DEF EmbryoOwned, EmbryoParent, Rooted
<1>10. SleepsOnSelf' /\ NoKillMissed'
  BY <1>1, <1>4 DEF SleepsOnSelf, NoKillMissed
<1>11. ParentsStarted'
  BY <1>1, <1>2, <1>4 DEF ParentsStarted, KernelStarted, Started
<1>12. NoZombieMissed'
  <2> SUFFICES ASSUME NEW q \in Slots, state'[q] = "SLEEPING", pc[q] \in {"wait", "join"},
                      NEW c \in Slots, parent'[c] = q, state'[c] = "ZOMBIE",
                      pc[q] = "join" => pgdir[c] = pgdir[q]
               PROVE  FALSE
    BY <1>1 DEF NoZombieMissed, Children, Threads
  <2>1. q # p /\ state[q] = "SLEEPING" /\ chan[q] = q /\ q \notin cs
    BY <1>4 DEF SleepsOnSelf
  <2>2. CASE c = p
    BY <1>2, <1>3, <2>1, <2>2 DEF Rooted
  <2>3. CASE c # p /\ parent[c] = p
    BY <1>2, <1>3, <1>4, <2>1, <2>3
  <2>4. CASE c # p /\ parent[c] # p
    BY <1>2, <1>4, <2>1, <2>4 DEF NoZombieMissed, Children, Threads
  <2> QED
    BY <2>2, <2>3, <2>4
<1>13. CloneReturnsThread'
  BY <1>1, <1>2, <1>4 DEF CloneReturnsThread, EmbryoOwned
<1> QED
  BY <1>5, <1>6, <1>7, <1>8, <1>9, <1>10, <1>11, <1>12, <1>13

\* wait and join: a pass of the loop over some of the children.
LEMMA ScanInv ==
    ASSUME IInv, NEW p \in Slots, NEW kids, kids \subseteq Children(p),
           pc[p] \in {"wait", "join"}, Scan(p, kids),
           pc[p] = "wait" => kids = Children(p),
           pc[p] = "join" => kids = Threads(p)
    PROVE  IInv'
<1> USE Addresses DEF IInv, Running, Goto, TypeOK, Building
<1>1. /\ state[p] = "RUNNING" /\ lock' = Nil
      /\ UNCHANGED <<pgdir, nextpid, np, panicked>>
  BY DEF Scan
<1>2. ASSUME NEW c \in FirstZombie(kids), Reap(p, c) PROVE IInv'
  <2>1. /\ c \in Slots /\ parent[c] = p /\ state[c] = "ZOMBIE" /\ c # p /\ c # initproc
        /\ pc[c] = "user" /\ (\A q \in Slots : parent[q] # c)
    BY <1>1 DEF FirstZombie, Children, KernelStarted, Started, ParentsStarted
  <2> USE <1>1, <1>2, <2>1 DEF Reap, Freed
  <2>2. TypeOK'
    BY SizeAssumption DEF States, Labels
  <2>3. KernelStarted'
    BY DEF KernelStarted, Started
  <2>4. PidsGiven' /\ PidsUnique'
    BY SizeAssumption DEF PidsGiven, PidsUnique
  <2>5. EmbryoOwned' /\ EmbryoDistinct'
    BY DEF EmbryoOwned, EmbryoDistinct
  <2>6. EmbryoParent' /\ Rooted'
    BY DEF EmbryoOwned, EmbryoParent, Rooted
  <2>7. SleepsOnSelf' /\ NoKillMissed'
    BY DEF SleepsOnSelf, NoKillMissed
  <2>8. ParentsStarted'
    BY DEF ParentsStarted, Started
  <2>9. NoZombieMissed'
    BY DEF NoZombieMissed, Children, Threads
  <2>10. CloneReturnsThread'
    BY DEF CloneReturnsThread, EmbryoOwned
  <2> QED
    BY <2>2, <2>3, <2>4, <2>5, <2>6, <2>7, <2>8, <2>9, <2>10
<1>3. CASE /\ chan' = [chan EXCEPT ![p] = Nil]
           /\ pc' = [pc EXCEPT ![p] = "user"]
           /\ UNCHANGED <<state, pid, parent, killed, kstack, live>>
  <2> USE <1>1, <1>3
  <2>1. TypeOK' /\ KernelStarted' /\ PidsGiven' /\ PidsUnique'
    BY DEF Labels, KernelStarted, Started, PidsGiven, PidsUnique
  <2>2. EmbryoOwned' /\ EmbryoDistinct' /\ EmbryoParent' /\ Rooted'
    BY DEF EmbryoOwned, EmbryoDistinct, EmbryoParent, Rooted
  <2>3. SleepsOnSelf' /\ NoKillMissed' /\ ParentsStarted'
    BY DEF SleepsOnSelf, NoKillMissed, ParentsStarted, Started
  <2>4. NoZombieMissed' /\ CloneReturnsThread'
    BY DEF NoZombieMissed, Children, Threads, CloneReturnsThread
  <2> QED
    BY <2>1, <2>2, <2>3, <2>4
<1>4. CASE /\ \A c \in kids : state[c] # "ZOMBIE"
           /\ ~killed[p]
           /\ chan' = [chan EXCEPT ![p] = p]
           /\ state' = [state EXCEPT ![p] = "SLEEPING"]
           /\ UNCHANGED <<pid, parent, killed, kstack, live, pc>>
  <2> USE <1>1, <1>4
  <2>1. TypeOK' /\ KernelStarted' /\ PidsGiven' /\ PidsUnique'
    BY DEF States, KernelStarted, Started, PidsGiven, PidsUnique
  <2>2. EmbryoOwned' /\ EmbryoDistinct' /\ EmbryoParent' /\ Rooted'
    BY DEF EmbryoOwned, EmbryoDistinct, EmbryoParent, Rooted
  <2>3. SleepsOnSelf' /\ NoKillMissed' /\ ParentsStarted'
    BY DEF SleepsOnSelf, NoKillMissed, ParentsStarted, Started
  <2>4. NoZombieMissed'
    BY DEF NoZombieMissed, Children, Threads
  <2>5. CloneReturnsThread'
    BY DEF CloneReturnsThread
  <2> QED
    BY <2>1, <2>2, <2>3, <2>4, <2>5
<1> QED
  BY <1>2, <1>3, <1>4 DEF Scan

\* wakeup by another process or an interrupt handler.
LEMMA WakeupInv ==
    ASSUME IInv, NEW ch \in Chans, Wakeup(ch)
    PROVE  IInv'
<1> USE Addresses DEF IInv, TypeOK, Building
<1>1. /\ UNCHANGED <<pid, parent, chan, killed, kstack, pgdir, nextpid, live, pc,
                     np, lock, panicked>>
      /\ state' \in [Slots -> States]
      /\ \A q \in Slots :
           /\ state[q] # "SLEEPING" => state'[q] = state[q]
           /\ state[q] = "SLEEPING" => state'[q] \in {"SLEEPING", "RUNNABLE"}
  BY DEF Wakeup, Woken, States
<1>2. TypeOK' /\ KernelStarted' /\ PidsGiven' /\ PidsUnique'
  BY <1>1 DEF KernelStarted, Started, PidsGiven, PidsUnique
<1>3. EmbryoOwned' /\ EmbryoDistinct' /\ EmbryoParent' /\ Rooted'
  BY <1>1 DEF EmbryoOwned, EmbryoDistinct, EmbryoParent, Rooted
<1>4. SleepsOnSelf' /\ NoKillMissed' /\ ParentsStarted'
  BY <1>1 DEF SleepsOnSelf, NoKillMissed, ParentsStarted, Started
<1>5. NoZombieMissed' /\ CloneReturnsThread'
  BY <1>1 DEF NoZombieMissed, Children, Threads, CloneReturnsThread, EmbryoOwned
<1> QED
  BY <1>2, <1>3, <1>4, <1>5

\* Steps that change nothing but the panic flag.
LEMMA StutterInv ==
    ASSUME IInv, panicked' \in BOOLEAN,
           UNCHANGED <<state, pid, parent, chan, killed, kstack, pgdir, nextpid,
                       live, pc, np, lock>>
    PROVE  IInv'
<1>1. TypeOK' /\ KernelStarted' /\ PidsGiven' /\ PidsUnique'
  BY DEF IInv, TypeOK, KernelStarted, Started, PidsGiven, PidsUnique
<1>2. EmbryoOwned' /\ EmbryoDistinct' /\ EmbryoParent' /\ Rooted'
  BY DEF IInv, EmbryoOwned, EmbryoDistinct, EmbryoParent, Rooted
<1>3. SleepsOnSelf' /\ NoKillMissed' /\ ParentsStarted'
  BY DEF IInv, SleepsOnSelf, NoKillMissed, ParentsStarted, Started
<1>4. NoZombieMissed' /\ CloneReturnsThread'
  BY DEF IInv, NoZombieMissed, Children, Threads, CloneReturnsThread
<1> QED
  BY <1>1, <1>2, <1>3, <1>4 DEF IInv

\* Every step keeps the invariant.
LEMMA NextIInv == IInv /\ [Next]_vars => IInv'
<1> SUFFICES ASSUME IInv, [Next]_vars PROVE IInv'
  OBVIOUS
<1>1. ASSUME NEW p \in Slots, Kernel(p) PROVE IInv'
  <2>1. ASSUME Wait(p) PROVE IInv'
    BY <2>1, ScanInv DEF Wait
  <2>2. ASSUME Join(p) PROVE IInv'
    BY <2>2, ScanInv DEF Join, Threads
  <2> QED
    BY <1>1, <2>1, <2>2, AllocKstackInv, AllocKstackFailsInv, ForkCopyInv,
       ForkCopyFailsInv, CloneRejectsInv, CloneSharesInv, PublishInv,
       CloneReturnInv DEF Kernel
<1>2. ASSUME NEW p \in Slots, User(p) PROVE IInv'
  BY <1>2, AllocProcInv, ExecInv, ExitInv, CallWaitInv, CallJoinInv, KillInv,
     SleepInv DEF User
<1>3. ASSUME NEW p \in Slots, Dispatch(p) \/ Yield(p) PROVE IInv'
  BY <1>3, DispatchInv, YieldInv
<1>4. ASSUME NEW ch \in Chans, Wakeup(ch) PROVE IInv'
  BY <1>4, WakeupInv
<1>5. CASE InitExits
  BY <1>5, StutterInv DEF InitExits
<1>6. CASE Halted \/ UNCHANGED vars
  BY <1>6, StutterInv DEF Halted, vars, IInv, TypeOK
<1> QED
  BY <1>1, <1>2, <1>3, <1>4, <1>5, <1>6 DEF Next
-----------------------------------------------------------------------------
\* The process table and the locals of its system calls keep their types.
THEOREM TypeCorrect == Spec => []TypeOK
<1>1. IInv => TypeOK
  BY DEF IInv
<1> QED
  BY <1>1, InitIInv, NextIInv, PTL DEF Spec

\* No two slots in use ever share a pid.
THEOREM UniquePids == Spec => []PidsUnique
<1>1. IInv => PidsUnique
  BY DEF IInv
<1> QED
  BY <1>1, InitIInv, NextIInv, PTL DEF Spec

\* exit never leaves a process without a parent that can reap it.
THEOREM NoOrphans == Spec => []ParentsStarted
<1>1. IInv => ParentsStarted
  BY DEF IInv
<1> QED
  BY <1>1, InitIInv, NextIInv, PTL DEF Spec

\* No exit is missed by a parent asleep in wait or join, whatever the other
\* processes do between its scan and its sleep.
THEOREM NoLostWakeup == Spec => []NoZombieMissed
<1>1. IInv => NoZombieMissed
  BY DEF IInv
<1> QED
  BY <1>1, InitIInv, NextIInv, PTL DEF Spec

\* No kill is missed by a process asleep in wait or join.
THEOREM NoLostKill == Spec => []NoKillMissed
<1>1. IInv => NoKillMissed
  BY DEF IInv
<1> QED
  BY <1>1, InitIInv, NextIInv, PTL DEF Spec

\* clone returns the pid of the thread it made, although it reads the slot
\* after it released the lock.
THEOREM CloneReturnsItsThread == Spec => []CloneReturnsThread
<1>1. IInv => CloneReturnsThread
  BY DEF IInv
<1> QED
  BY <1>1, InitIInv, NextIInv, PTL DEF Spec
-----------------------------------------------------------------------------
\* The processes that are not reaped, and the slot that a fork is about to
\* publish: those whose pgdir means something.
Used(q) == state[q] \in {"SLEEPING", "RUNNABLE", "RUNNING", "ZOMBIE"}
Forked(q) == \E p \in Slots : pc[p] = "forkPublish" /\ np[p] = q
Owners == {q \in Slots : Used(q) \/ Forked(q)}

\* Nobody is inside clone.
NoClones == \A p \in Slots :
    pc[p] \notin {"cloneKstack", "cloneSetup", "clonePublish", "cloneReturn"}

\* Every owner has a page directory that is not freed, and shares it with none.
OwnSpaces == \A q \in Owners :
    pgdir[q] \in live /\ \A r \in Owners : pgdir[q] = pgdir[r] => q = r

\* userinit: init alone, in the one address space there is.
LEMMA InitSpaces == Init => NoClones /\ OwnSpaces
<1> SUFFICES ASSUME Init PROVE NoClones /\ OwnSpaces
  OBVIOUS
<1>1. NoClones
  BY DEF Init, NoClones
<1>2. Owners = {initproc}
  BY Addresses DEF Init, Owners, Used, Forked
<1> QED
  BY <1>1, <1>2, Addresses DEF Init, OwnSpaces

\* A step that makes nobody an owner and leaves the spaces of the owners alone.
LEMMA OwnersKept ==
    ASSUME OwnSpaces, Owners' \subseteq Owners,
           \A q \in Owners' : pgdir'[q] = pgdir[q] /\ pgdir[q] \in live'
    PROVE  OwnSpaces'
  BY DEF OwnSpaces

\* The steps that make nobody an owner.
LEMMA QuietSpaces ==
    ASSUME IInv, OwnSpaces, NEW p \in Slots,
           \/ AllocKstack(p) \/ AllocKstackFails(p) \/ ForkCopyFails(p)
           \/ CallWait(p) \/ CallJoin(p) \/ Dispatch(p) \/ Yield(p) \/ Exit(p)
           \/ (\E ch \in Chans : Sleep(p, ch))
           \/ (\E name \in {"fork", "clone"} : AllocProc(p, name))
           \/ (\E target \in 0 .. MaxPid : Kill(p, target))
    PROVE  OwnSpaces'
<1> USE DEF IInv, TypeOK
<1>0. ASSUME live' = live, \A q \in Owners' : pgdir'[q] = pgdir[q],
             \A q \in Slots : Used(q)' => Used(q),
             \A q \in Slots : pc'[q] = "forkPublish" => pc[q] = "forkPublish" /\ np'[q] = np[q]
      PROVE  OwnSpaces'
  <2>1. Owners' \subseteq Owners
    BY <1>0 DEF Owners, Forked
  <2> QED
    BY <1>0, <2>1, OwnersKept DEF OwnSpaces
<1>1. CASE AllocKstack(p)
  BY <1>0, <1>1 DEF AllocKstack, Goto, Used, Owners
<1>2. CASE AllocKstackFails(p)
  BY <1>0, <1>2 DEF AllocKstackFails, GiveBack, Goto, Used, Owners, EmbryoOwned, Building
<1>3. CASE ForkCopyFails(p)
  <2>1. np[p] \in Slots /\ state' = [state EXCEPT ![np[p]] = "UNUSED"]
        /\ pc' = [pc EXCEPT ![p] = "user"] /\ np' = [np EXCEPT ![p] = Nil] /\ live' = live
        /\ pgdir' = [pgdir EXCEPT ![np[p]] = Nil]
    BY <1>3 DEF ForkCopyFails, GiveBack, Goto, EmbryoOwned, Building
  <2>2. np[p] \notin Owners'
    <3>1. \A q \in Slots \ {p} : pc[q] = "forkPublish" => np[q] # np[p]
      BY <1>3 DEF ForkCopyFails, EmbryoDistinct, Building
    <3> QED
      BY <2>1, <3>1 DEF Owners, Used, Forked
  <2>3. \A q \in Owners' : pgdir'[q] = pgdir[q]
    BY <2>1, <2>2 DEF Owners
  <2> QED
    BY <1>0, <2>1, <2>3 DEF Used
<1>4. CASE CallWait(p) \/ CallJoin(p)
  BY <1>0, <1>4 DEF CallWait, CallJoin, Goto, Used, Owners
<1>5. CASE Dispatch(p)
  BY <1>0, <1>5 DEF Dispatch, Goto, Used, Owners
<1>6. CASE Yield(p)
  BY <1>0, <1>6 DEF Yield, Running, Used, Owners
<1>7. CASE Exit(p)
  <2>1. \A q \in Slots : state'[q] # state[q] => state[q] \in {"SLEEPING", "RUNNING"}
    BY <1>7 DEF Exit, ExitCall, InUser, Running, Woken
  <2>2. live' = live /\ pgdir' = pgdir /\ pc' = pc /\ np' = np
    BY <1>7 DEF Exit
  <2> QED
    BY <1>0, <2>1, <2>2 DEF Used, Owners
<1>8. CASE \E ch \in Chans : Sleep(p, ch)
  BY <1>0, <1>8 DEF Sleep, InUser, Running, Goto, Used, Owners
<1>9. CASE \E name \in {"fork", "clone"} : AllocProc(p, name)
  BY <1>0, <1>9 DEF AllocProc, Goto, Used, Owners
<1>10. CASE \E target \in 0 .. MaxPid : Kill(p, target)
  BY <1>0, <1>10 DEF Kill, Roused, Used, Owners
<1> QED
  BY <1>1, <1>2, <1>3, <1>4, <1>5, <1>6, <1>7, <1>8, <1>9, <1>10

\* fork gives its slot a directory that nobody had.
LEMMA ForkCopySpaces ==
    ASSUME IInv, OwnSpaces, NEW p \in Slots, ForkCopy(p)
    PROVE  OwnSpaces'
<1> USE DEF IInv, TypeOK
<1>1. np[p] \in Slots /\ state[np[p]] = "EMBRYO" /\ pc[p] = "forkCopy"
  BY DEF ForkCopy, EmbryoOwned, Building
<1>2. PICK d \in PgDirs \ live : pgdir' = [pgdir EXCEPT ![np[p]] = d] /\ live' = live \cup {d}
  BY DEF ForkCopy
<1>3. pc' = [pc EXCEPT ![p] = "forkPublish"] /\ UNCHANGED <<state, np>>
  BY DEF ForkCopy, Goto
<1>4. Owners' = Owners \cup {np[p]}
  BY <1>1, <1>3 DEF Owners, Used, Forked
<1>5. np[p] \notin Owners
  BY <1>1 DEF Owners, Used, Forked, EmbryoDistinct, Building
<1>6. \A q \in Owners : pgdir[q] # d /\ pgdir'[q] = pgdir[q]
  BY <1>1, <1>2, <1>5 DEF OwnSpaces
<1>7. pgdir'[np[p]] = d
  BY <1>1, <1>2
<1> QED
  BY <1>2, <1>4, <1>6, <1>7 DEF OwnSpaces

\* The published slot was an owner before.
LEMMA PublishSpaces ==
    ASSUME IInv, OwnSpaces, NoClones, NEW p \in Slots, Publish(p)
    PROVE  OwnSpaces'
<1> USE DEF IInv, TypeOK
<1>1. pc[p] = "forkPublish" /\ np[p] \in Slots
  BY DEF Publish, NoClones, EmbryoOwned, Building
<1>2. /\ state' = [state EXCEPT ![np[p]] = "RUNNABLE"] /\ pc' = [pc EXCEPT ![p] = "user"]
      /\ np' = [np EXCEPT ![p] = Nil] /\ UNCHANGED <<pgdir, live>>
  BY <1>1 DEF Publish, Goto
<1>3. Owners' \subseteq Owners
  BY <1>1, <1>2 DEF Owners, Used, Forked
<1> QED
  BY <1>2, <1>3, OwnersKept DEF OwnSpaces

\* exec frees the one directory that only its process had.
LEMMA ExecSpaces ==
    ASSUME IInv, OwnSpaces, NEW p \in Slots, Exec(p)
    PROVE  OwnSpaces'
<1> USE DEF IInv, TypeOK
<1>1. PICK d \in PgDirs \ live : /\ pgdir' = [pgdir EXCEPT ![p] = d]
                                 /\ live' = (live \ {pgdir[p]}) \cup {d}
  BY DEF Exec
<1>2. p \in Owners /\ Owners' = Owners
  BY DEF Exec, Call, InUser, Running, Owners, Used, Forked
<1>3. \A q \in Owners \ {p} : pgdir[q] # d /\ pgdir'[q] = pgdir[q] /\ pgdir[q] # pgdir[p]
  BY <1>1, <1>2 DEF OwnSpaces
<1>4. pgdir'[p] = d
  BY <1>1
<1> QED
  BY <1>1, <1>2, <1>3, <1>4 DEF OwnSpaces

\* wait frees the directory that only the zombie had; join frees none.
LEMMA ScanSpaces ==
    ASSUME IInv, OwnSpaces, NEW p \in Slots, NEW kids, kids \subseteq Slots, Scan(p, kids),
           pc[p] \in {"wait", "join"}
    PROVE  OwnSpaces'
<1> USE DEF IInv, TypeOK
<1>1. UNCHANGED <<pgdir, np>> /\ state[p] = "RUNNING"
  BY DEF Scan, Running
<1>2. ASSUME NEW c \in FirstZombie(kids), Reap(p, c) PROVE OwnSpaces'
  <2>1. c \in Slots /\ state[c] = "ZOMBIE"
    BY <1>2 DEF FirstZombie
  <2>2. /\ state' = [state EXCEPT ![c] = "UNUSED"] /\ pc' = [pc EXCEPT ![p] = "user"]
        /\ live \ {pgdir[c]} \subseteq live'
    BY <1>2 DEF Reap, Goto, Freed
  <2>3. c \in Owners
    BY <2>1 DEF Owners, Used
  <2>4. Owners' \subseteq Owners \ {c}
    <3>1. \A q \in Slots : pc[q] = "forkPublish" => np[q] # c
      BY <2>1 DEF EmbryoOwned, Building
    <3> QED
      BY <1>1, <2>1, <2>2, <3>1 DEF Owners, Used, Forked
  <2>5. \A q \in Owners' : pgdir[q] \in live'
    BY <2>2, <2>3, <2>4 DEF OwnSpaces
  <2> QED
    BY <1>1, <2>4, <2>5, OwnersKept
<1>3. ASSUME pc' = [pc EXCEPT ![p] = "user"], UNCHANGED <<state, live>> PROVE OwnSpaces'
  <2>1. Owners' \subseteq Owners
    BY <1>1, <1>3 DEF Owners, Used, Forked
  <2> QED
    BY <1>1, <1>3, <2>1, OwnersKept DEF OwnSpaces
<1>4. ASSUME state' = [state EXCEPT ![p] = "SLEEPING"], UNCHANGED <<pc, live>> PROVE OwnSpaces'
  <2>1. Owners' \subseteq Owners
    BY <1>1, <1>4 DEF Owners, Used, Forked
  <2> QED
    BY <1>1, <1>4, <2>1, OwnersKept DEF OwnSpaces
<1> QED
  BY <1>2, <1>3, <1>4 DEF Scan, Goto

\* Without clone in Calls nobody enters it.
LEMMA NextNoClones ==
    ASSUME "clone" \notin Calls, IInv, NoClones, [Next]_vars
    PROVE  NoClones'
<1> USE DEF IInv, TypeOK, NoClones, Goto
<1>1. ASSUME NEW p \in Slots, Kernel(p) PROVE NoClones'
  <2>1. ASSUME NEW label \in {"user", "forkCopy", "forkPublish"}, pc' = [pc EXCEPT ![p] = label]
        PROVE  NoClones'
    BY <2>1
  <2>2. CASE Wait(p) \/ Join(p)
    BY <2>1, <2>2 DEF Wait, Join, Scan, Reap
  <2> QED
    BY <1>1, <2>1, <2>2 DEF Kernel, AllocKstack, AllocKstackFails, ForkCopy, ForkCopyFails,
       CloneRejects, CloneShares, Publish, CloneReturn
<1>2. ASSUME NEW p \in Slots, User(p) PROVE NoClones'
  BY <1>2 DEF User, AllocProc, Call, Exec, Exit, CallWait, CallJoin, Kill, Sleep
<1>3. ASSUME NEW p \in Slots, Dispatch(p) \/ Yield(p) PROVE NoClones'
  BY <1>3 DEF Dispatch, Yield
<1>4. ASSUME NEW ch \in Chans, Wakeup(ch) PROVE NoClones'
  BY <1>4 DEF Wakeup
<1>5. CASE InitExits \/ Halted \/ UNCHANGED vars
  BY <1>5 DEF InitExits, Halted, vars
<1> QED
  BY <1>1, <1>2, <1>3, <1>4, <1>5 DEF Next

\* Every step of programs that do not clone keeps the spaces apart.
LEMMA NextSpaces ==
    ASSUME "clone" \notin Calls, IInv, NoClones, OwnSpaces, [Next]_vars
    PROVE  OwnSpaces'
<1>1. ASSUME NEW p \in Slots, Kernel(p) PROVE OwnSpaces'
  <2>1. ASSUME Wait(p) PROVE OwnSpaces'
    BY <2>1, ScanSpaces DEF Wait, Children
  <2>2. ASSUME Join(p) PROVE OwnSpaces'
    BY <2>2, ScanSpaces DEF Join, Threads, Children
  <2>3. ~ CloneRejects(p) /\ ~ CloneReturn(p) /\ \A copied \in BOOLEAN : ~ CloneShares(p, copied)
    BY DEF CloneRejects, CloneReturn, CloneShares, NoClones
  <2> QED
    BY <1>1, <2>1, <2>2, <2>3, QuietSpaces, ForkCopySpaces, PublishSpaces DEF Kernel
<1>2. ASSUME NEW p \in Slots, User(p) PROVE OwnSpaces'
  BY <1>2, QuietSpaces, ExecSpaces DEF User
<1>3. ASSUME NEW p \in Slots, Dispatch(p) \/ Yield(p) PROVE OwnSpaces'
  BY <1>3, QuietSpaces
<1>4. ASSUME NEW ch \in Chans, Wakeup(ch) PROVE OwnSpaces'
  <2>1. /\ \A q \in Slots : state'[q] # state[q] => state[q] = "SLEEPING"
        /\ UNCHANGED <<pgdir, live, pc, np>>
    BY <1>4 DEF Wakeup, Woken, IInv, TypeOK
  <2>2. Owners' \subseteq Owners
    BY <2>1 DEF Owners, Used, Forked
  <2> QED
    BY <2>1, <2>2, OwnersKept DEF OwnSpaces
<1>5. CASE InitExits \/ Halted \/ UNCHANGED vars
  <2>1. UNCHANGED <<state, pgdir, live, pc, np>>
    BY <1>5 DEF InitExits, Halted, vars
  <2>2. Owners' = Owners
    BY <2>1 DEF Owners, Used, Forked
  <2> QED
    BY <2>1, <2>2, OwnersKept DEF OwnSpaces
<1> QED
  BY <1>1, <1>2, <1>3, <1>4, <1>5 DEF Next

\* Whatever programs without threads fork, exec, exit, wait for, join and kill,
\* in any order and with any failure of fork: no process that is not reaped has
\* an address space that exec or wait has freed.  Nothing is assumed of the
\* programs but that they do not call clone.
THEOREM NoSpaceFreedInUse ==
    ASSUME "clone" \notin Calls
    PROVE  Spec => []AddressSpacesLive
<1>1. Init => IInv /\ NoClones /\ OwnSpaces
  BY InitIInv, InitSpaces
<1>2. IInv /\ NoClones /\ OwnSpaces /\ [Next]_vars => (IInv /\ NoClones /\ OwnSpaces)'
  BY NextIInv, NextNoClones, NextSpaces
<1>3. OwnSpaces => AddressSpacesLive
  BY DEF OwnSpaces, Owners, Used, AddressSpacesLive
<1> QED
  BY <1>1, <1>2, <1>3, PTL DEF Spec
=============================================================================
