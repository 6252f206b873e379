------------------------------ MODULE ProcTable ------------------------------
(***************************************************************************)
(* The process table of xv6-public (proc.c): allocproc, userinit, fork,    *)
(* clone, exec's change of address space, exit, wait, join, kill, sleep,   *)
(* wakeup, yield and the scheduler's choice of a process.                  *)
(*                                                                         *)
(* Every section of the code that runs under ptable.lock is one step.  The *)
(* steps between two sections (allocproc's second half, fork's and clone's *)
(* setup of the new slot) interleave with all the other processes.  sched  *)
(* hands the lock from the scheduler to the process it resumes: lock names *)
(* the process that resumed inside wait or join and still holds it.        *)
(***************************************************************************)
EXTENDS Integers, FiniteSets

CONSTANTS NPROC,        \* slots of the table (param.h)
          NCPU,         \* cpus that run scheduler()
          PgDirs,       \* page directories that fit in memory
          Chans,        \* sleep channels other than a slot's address
          Nil,          \* a null pointer
          MaxPid,       \* bound: the last pid that is given out
          Calls,        \* the system calls the user programs make
          Disciplined   \* TRUE if programs follow the thread discipline below

ASSUME SizeAssumption == NPROC \in Nat \ {0} /\ NCPU \in Nat /\ MaxPid \in Nat \ {0}
ASSUME NilAssumption == Nil \notin Nat /\ Nil \notin Chans /\ Nil \notin PgDirs
ASSUME ChansAssumption == Chans \cap Nat = {}
ASSUME CallsAssumption ==
    /\ Calls \subseteq {"fork", "clone", "exec", "exit", "wait", "join",
                        "kill", "sleep"}
    /\ Disciplined \in BOOLEAN

VARIABLES state, pid, parent, chan, killed, kstack, pgdir,  \* struct proc
          nextpid,
          live,       \* page directories allocated and not freed
          pc,         \* where a process is in the kernel, "user" if it is not
          np,         \* the local np of fork and clone
          lock,       \* the process that resumed in wait or join, or Nil
          panicked

vars == <<state, pid, parent, chan, killed, kstack, pgdir, nextpid, live,
          pc, np, lock, panicked>>

Slots == 1 .. NPROC
initproc == 1

States == {"UNUSED", "EMBRYO", "SLEEPING", "RUNNABLE", "RUNNING", "ZOMBIE"}

\* fork and clone go through the Kstack, setup and Publish labels; "wait" and
\* "join" are at the head of their for(;;) loop; "sleep" is any other sleep.
Labels == {"user", "forkKstack", "cloneKstack", "forkCopy", "cloneSetup",
           "forkPublish", "clonePublish", "cloneReturn", "wait", "join", "sleep"}

\* userinit: the first allocproc takes the first slot, and pid 1.
Init ==
    /\ state = [p \in Slots |-> IF p = initproc THEN "RUNNABLE" ELSE "UNUSED"]
    /\ pid = [p \in Slots |-> IF p = initproc THEN 1 ELSE 0]
    /\ parent = [p \in Slots |-> Nil]
    /\ chan = [p \in Slots |-> Nil]
    /\ killed = [p \in Slots |-> FALSE]
    /\ kstack = [p \in Slots |-> p = initproc]
    /\ \E d \in PgDirs :
         /\ pgdir = [p \in Slots |-> IF p = initproc THEN d ELSE Nil]
         /\ live = {d}
    /\ nextpid = 2
    /\ pc = [p \in Slots |-> "user"]
    /\ np = [p \in Slots |-> Nil]
    /\ lock = Nil
    /\ panicked = FALSE
-----------------------------------------------------------------------------
Running(p) == ~panicked /\ state[p] = "RUNNING"

\* The first process runs initcode.S and init.c: exec, a fork of the shell,
\* which it waits for, and exit if the fork fails.
InitCalls == {"fork", "exec", "exit", "wait"}

\* trap() lets a system call through only if the process is not killed.
InUser(p) == Running(p) /\ pc[p] = "user"
Call(p, name) ==
    /\ InUser(p) /\ ~killed[p] /\ name \in Calls
    /\ p = initproc => name \in InitCalls

Goto(p, label) == pc' = [pc EXCEPT ![p] = label]

\* The slots whose parent field is p, and those that also share its memory.
Children(p) == {c \in Slots : parent[c] = p}
Threads(p) == {c \in Children(p) : pgdir[c] = pgdir[p]}

\* The discipline of locktest.c and jointest.c: a program joins its threads
\* before it leaves (exit, exec) or waits, and a thread does not exec.
Joined(p) == Disciplined => Threads(p) = {}
Alone(p) == Disciplined =>
    \A q \in Slots \ {p} : pgdir[q] = pgdir[p] => state[q] \in {"UNUSED", "EMBRYO"}

\* wakeup1 on the channels in cs.
Woken(cs) == [q \in Slots |-> IF state[q] = "SLEEPING" /\ chan[q] \in cs
                              THEN "RUNNABLE" ELSE state[q]]

\* p->pid = nextpid++
NextPid == nextpid + 1

\* allocproc up to the release of ptable.lock.  A full table returns 0, and
\* the caller -1, with nothing changed.
AllocProc(p, name) ==
    /\ Call(p, name)
    /\ lock = Nil
    /\ nextpid <= MaxPid
    /\ \E n \in Slots :
         /\ state[n] = "UNUSED"
         /\ \A q \in Slots : q < n => state[q] # "UNUSED"
         /\ state' = [state EXCEPT ![n] = "EMBRYO"]
         /\ pid' = [pid EXCEPT ![n] = nextpid]
         /\ np' = [np EXCEPT ![p] = n]
    /\ nextpid' = NextPid
    /\ Goto(p, IF name = "fork" THEN "forkKstack" ELSE "cloneKstack")
    /\ UNCHANGED <<parent, chan, killed, kstack, pgdir, live, lock, panicked>>

\* The slot of a fork or clone that ran out of memory.
GiveBack(n) == state' = [state EXCEPT ![n] = "UNUSED"]

\* The kernel stack: kalloc may fail, and the slot is then given back
\* without the lock.
AllocKstack(p) ==
    /\ Running(p)
    /\ pc[p] \in {"forkKstack", "cloneKstack"}
    /\ kstack' = [kstack EXCEPT ![np[p]] = TRUE]
    /\ Goto(p, IF pc[p] = "forkKstack" THEN "forkCopy" ELSE "cloneSetup")
    /\ UNCHANGED <<state, pid, parent, chan, killed, pgdir, nextpid, live, np,
                   lock, panicked>>

AllocKstackFails(p) ==
    /\ Running(p)
    /\ pc[p] \in {"forkKstack", "cloneKstack"}
    /\ kstack' = [kstack EXCEPT ![np[p]] = FALSE]
    /\ GiveBack(np[p])
    /\ np' = [np EXCEPT ![p] = Nil]
    /\ Goto(p, "user")
    /\ UNCHANGED <<pid, parent, chan, killed, pgdir, nextpid, live, lock, panicked>>

\* fork: copyuvm into a page directory of its own.
ForkCopy(p) ==
    /\ Running(p)
    /\ pc[p] = "forkCopy"
    /\ \E d \in PgDirs \ live :
         /\ pgdir' = [pgdir EXCEPT ![np[p]] = d]
         /\ live' = live \cup {d}
    /\ parent' = [parent EXCEPT ![np[p]] = p]
    /\ Goto(p, "forkPublish")
    /\ UNCHANGED <<state, pid, chan, killed, kstack, nextpid, np, lock, panicked>>

ForkCopyFails(p) ==
    /\ Running(p)
    /\ pc[p] = "forkCopy"
    /\ kstack' = [kstack EXCEPT ![np[p]] = FALSE]
    /\ pgdir' = [pgdir EXCEPT ![np[p]] = Nil]
    /\ GiveBack(np[p])
    /\ np' = [np EXCEPT ![p] = Nil]
    /\ Goto(p, "user")
    /\ UNCHANGED <<pid, parent, chan, killed, nextpid, live, lock, panicked>>

\* clone with a stack that is not page aligned or has no page below sz: the
\* two early returns come after allocproc and leave the slot as it is.
CloneRejects(p) ==
    /\ Running(p)
    /\ pc[p] = "cloneSetup"
    /\ np' = [np EXCEPT ![p] = Nil]
    /\ Goto(p, "user")
    /\ UNCHANGED <<state, pid, parent, chan, killed, kstack, pgdir, nextpid,
                   live, lock, panicked>>

\* clone shares the page directory; copyout then writes the two words of the
\* stack, and a failed copyout returns with pgdir and parent already set.
CloneShares(p, copied) ==
    /\ Running(p)
    /\ pc[p] = "cloneSetup"
    /\ pgdir' = [pgdir EXCEPT ![np[p]] = pgdir[p]]
    /\ parent' = [parent EXCEPT ![np[p]] = p]
    /\ IF copied
       THEN Goto(p, "clonePublish") /\ UNCHANGED np
       ELSE Goto(p, "user") /\ np' = [np EXCEPT ![p] = Nil]
    /\ UNCHANGED <<state, pid, chan, killed, kstack, nextpid, live, lock, panicked>>

\* np->state = RUNNABLE under the lock.
Publish(p) ==
    /\ Running(p)
    /\ pc[p] \in {"forkPublish", "clonePublish"}
    /\ lock = Nil
    /\ state' = [state EXCEPT ![np[p]] = "RUNNABLE"]
    /\ IF pc[p] = "forkPublish"
       THEN Goto(p, "user") /\ np' = [np EXCEPT ![p] = Nil]
       ELSE Goto(p, "cloneReturn") /\ UNCHANGED np
    /\ UNCHANGED <<pid, parent, chan, killed, kstack, pgdir, nextpid, live,
                   lock, panicked>>

\* clone's return np->pid reads the slot after the lock is released.
CloneReturn(p) ==
    /\ Running(p)
    /\ pc[p] = "cloneReturn"
    /\ np' = [np EXCEPT ![p] = Nil]
    /\ Goto(p, "user")
    /\ UNCHANGED <<state, pid, parent, chan, killed, kstack, pgdir, nextpid,
                   live, lock, panicked>>

\* exec replaces the address space and frees the old one.
Exec(p) ==
    /\ Call(p, "exec")
    /\ Joined(p) /\ Alone(p)
    /\ \E d \in PgDirs \ live :
         /\ pgdir' = [pgdir EXCEPT ![p] = d]
         /\ live' = (live \ {pgdir[p]}) \cup {d}
    /\ UNCHANGED <<state, pid, parent, chan, killed, kstack, nextpid, pc, np,
                   lock, panicked>>
-----------------------------------------------------------------------------
\* exit, on the program's own call or because trap() finds it killed.
ExitCall(p) ==
    /\ InUser(p)
    /\ killed[p] \/ ("exit" \in Calls /\ Joined(p))

\* init.c exits when its fork fails: the kernel panics, as it does for a killed
\* init.
InitExits ==
    /\ ExitCall(initproc)
    /\ panicked' = TRUE
    /\ UNCHANGED <<state, pid, parent, chan, killed, kstack, pgdir, nextpid,
                   live, pc, np, lock>>

WokenParentOnly(p) == {parent[p]}
WokenNobody(p) == {}

\* exit wakes the parent, and init if it inherits a zombie.
WokenByExit(p) ==
    {parent[p]} \cup {q \in {initproc} : \E c \in Children(p) : state[c] = "ZOMBIE"}

InheritNothing(p) == parent

\* exit passes abandoned children to init.
Inherit(p) == [c \in Slots |-> IF parent[c] = p THEN initproc ELSE parent[c]]

Exit(p) ==
    /\ ExitCall(p)
    /\ p # initproc
    /\ lock = Nil
    /\ state' = [Woken(WokenByExit(p)) EXCEPT ![p] = "ZOMBIE"]
    /\ parent' = Inherit(p)
    /\ UNCHANGED <<pid, chan, killed, kstack, pgdir, nextpid, live, pc, np,
                   lock, panicked>>

FirstZombieOfAll(kids) ==
    {c \in Slots : state[c] = "ZOMBIE" /\ \A z \in Slots : state[z] = "ZOMBIE" => c <= z}

\* The zombies among kids that the scan of wait or join comes to first.
FirstZombie(kids) ==
    {c \in kids : /\ state[c] = "ZOMBIE"
                  /\ \A z \in kids : state[z] = "ZOMBIE" => c <= z}

FreedByBoth(p, c) == live \ {pgdir[c]}

\* wait frees the child's page directory, join does not.
Freed(p, c) == IF pc[p] = "wait" THEN live \ {pgdir[c]} ELSE live

\* The zombie is wiped from the table.
Reap(p, c) ==
    /\ kstack' = [kstack EXCEPT ![c] = FALSE]
    /\ live' = Freed(p, c)
    /\ pid' = [pid EXCEPT ![c] = 0]
    /\ parent' = [parent EXCEPT ![c] = Nil]
    /\ killed' = [killed EXCEPT ![c] = FALSE]
    /\ state' = [state EXCEPT ![c] = "UNUSED"]
    /\ chan' = [chan EXCEPT ![p] = Nil]
    /\ Goto(p, "user")

\* One pass of the loop over the children in kids: reap a zombie and return
\* its pid, or return -1, or sleep on the process's own address.
Scan(p, kids) ==
    /\ Running(p)
    /\ lock \in {Nil, p}
    /\ lock' = Nil
    /\ \/ \E c \in FirstZombie(kids) : Reap(p, c)
       \/ /\ \A c \in kids : state[c] # "ZOMBIE"
          /\ kids = {} \/ killed[p]
          /\ chan' = [chan EXCEPT ![p] = Nil]
          /\ Goto(p, "user")
          /\ UNCHANGED <<state, pid, parent, killed, kstack, live>>
       \/ /\ \A c \in kids : state[c] # "ZOMBIE"
          /\ kids # {} /\ ~killed[p]
          /\ chan' = [chan EXCEPT ![p] = p]
          /\ state' = [state EXCEPT ![p] = "SLEEPING"]
          /\ UNCHANGED <<pid, parent, killed, kstack, live, pc>>
    /\ UNCHANGED <<pgdir, nextpid, np, panicked>>

CallWait(p) ==
    /\ Call(p, "wait") /\ Joined(p)
    /\ Goto(p, "wait")
    /\ UNCHANGED <<state, pid, parent, chan, killed, kstack, pgdir, nextpid,
                   live, np, lock, panicked>>

CallJoin(p) ==
    /\ Call(p, "join")
    /\ Goto(p, "join")
    /\ UNCHANGED <<state, pid, parent, chan, killed, kstack, pgdir, nextpid,
                   live, np, lock, panicked>>

Wait(p) == pc[p] = "wait" /\ Scan(p, Children(p))
Join(p) == pc[p] = "join" /\ Scan(p, Threads(p))
-----------------------------------------------------------------------------
LeftAsleep(q) == state

\* kill wakes the process if it sleeps.
Roused(q) == [state EXCEPT ![q] = IF @ = "SLEEPING" THEN "RUNNABLE" ELSE @]

\* kill scans for the first slot with the pid it is given, whatever its state.
Kill(p, target) ==
    /\ Call(p, "kill")
    /\ lock = Nil
    /\ \E q \in Slots :
         /\ pid[q] = target
         /\ \A r \in Slots : r < q => pid[r] # target
         /\ killed' = [killed EXCEPT ![q] = TRUE]
         /\ state' = Roused(q)
    /\ UNCHANGED <<pid, parent, chan, kstack, pgdir, nextpid, live, pc, np,
                   lock, panicked>>

\* sleep on a channel of another part of the kernel (a pipe, a buffer, the
\* ticks).  A process killed after its caller's check still goes to sleep.
Sleep(p, ch) ==
    /\ InUser(p) /\ "sleep" \in Calls /\ p # initproc
    /\ lock = Nil
    /\ chan' = [chan EXCEPT ![p] = ch]
    /\ state' = [state EXCEPT ![p] = "SLEEPING"]
    /\ Goto(p, "sleep")
    /\ UNCHANGED <<pid, parent, killed, kstack, pgdir, nextpid, live, np, lock,
                   panicked>>

\* wakeup, called by another process or by an interrupt handler.
Wakeup(ch) ==
    /\ ~panicked
    /\ lock = Nil
    /\ \E q \in Slots : state[q] = "SLEEPING" /\ chan[q] = ch
    /\ state' = Woken({ch})
    /\ UNCHANGED <<pid, parent, chan, killed, kstack, pgdir, nextpid, live, pc,
                   np, lock, panicked>>

\* A free cpu in scheduler() switches to a RUNNABLE process, which goes on
\* after its sched(): in wait and join it keeps the lock, elsewhere it
\* releases it (yield, forkret) after clearing chan (sleep).
Dispatch(p) ==
    /\ ~panicked
    /\ lock = Nil
    /\ state[p] = "RUNNABLE"
    /\ Cardinality({q \in Slots : state[q] = "RUNNING"}) < NCPU
    /\ state' = [state EXCEPT ![p] = "RUNNING"]
    /\ lock' = IF chan[p] = p THEN p ELSE Nil
    /\ IF pc[p] = "sleep"
       THEN chan' = [chan EXCEPT ![p] = Nil] /\ Goto(p, "user")
       ELSE UNCHANGED <<chan, pc>>
    /\ UNCHANGED <<pid, parent, killed, kstack, pgdir, nextpid, live, np, panicked>>

\* The timer interrupt; interrupts are off while the lock is held.
Yield(p) ==
    /\ Running(p)
    /\ lock = Nil
    /\ state' = [state EXCEPT ![p] = "RUNNABLE"]
    /\ UNCHANGED <<pid, parent, chan, killed, kstack, pgdir, nextpid, live, pc,
                   np, lock, panicked>>

Halted == panicked /\ UNCHANGED vars

Kernel(p) ==
    \/ AllocKstack(p) \/ AllocKstackFails(p) \/ ForkCopy(p) \/ ForkCopyFails(p)
    \/ CloneRejects(p) \/ (\E copied \in BOOLEAN : CloneShares(p, copied))
    \/ Publish(p) \/ CloneReturn(p) \/ Wait(p) \/ Join(p)

User(p) ==
    \/ (\E name \in {"fork", "clone"} : AllocProc(p, name))
    \/ Exec(p) \/ Exit(p) \/ CallWait(p) \/ CallJoin(p)
    \/ (\E target \in 0 .. MaxPid : Kill(p, target))
    \/ (\E ch \in Chans : Sleep(p, ch))

Next ==
    \/ \E p \in Slots : Kernel(p) \/ User(p) \/ Dispatch(p) \/ Yield(p)
    \/ \E ch \in Chans : Wakeup(ch)
    \/ InitExits
    \/ Halted

Spec == Init /\ [][Next]_vars

\* scheduler() goes round the table, so a RUNNABLE process gets a cpu again
\* and again; the timer preempts whoever runs, after a slice in which it makes
\* progress.  A process gets through the kernel, and if it is killed it exits on
\* its way out; init.c calls wait for ever.  The channels stand for the disk and
\* the clock, whose interrupts keep coming.
Obliged(p) ==
    \/ Kernel(p)
    \/ killed[p] /\ Exit(p)
    \/ p = initproc /\ (CallWait(p) \/ (killed[p] /\ InitExits))

FairSpec ==
    /\ Spec
    /\ \A p \in Slots : SF_vars(Dispatch(p)) /\ WF_vars(Yield(p)) /\ SF_vars(Obliged(p))
    /\ \A ch \in Chans : WF_vars(Wakeup(ch))
-----------------------------------------------------------------------------
TypeOK ==
    /\ state \in [Slots -> States]
    /\ pid \in [Slots -> 0 .. MaxPid]
    /\ parent \in [Slots -> Slots \cup {Nil}]
    /\ chan \in [Slots -> Slots \cup Chans \cup {Nil}]
    /\ killed \in [Slots -> BOOLEAN]
    /\ kstack \in [Slots -> BOOLEAN]
    /\ pgdir \in [Slots -> PgDirs \cup {Nil}]
    /\ nextpid \in 1 .. MaxPid + 1
    /\ live \subseteq PgDirs
    /\ pc \in [Slots -> Labels]
    /\ np \in [Slots -> Slots \cup {Nil}]
    /\ lock \in Slots \cup {Nil}
    /\ panicked \in BOOLEAN

Started == {p \in Slots : state[p] \in {"SLEEPING", "RUNNABLE", "RUNNING"}}

\* No two slots in use have the same pid, whatever forks, clones and failures
\* interleave.
PidsUnique ==
    \A p, q \in Slots :
        state[p] # "UNUSED" /\ state[q] # "UNUSED" /\ pid[p] = pid[q] => p = q

\* exit leaves nobody behind: a slot's parent is a process that can still wait
\* for it, and every process but init has one.
ParentsStarted ==
    /\ \A c \in Slots : parent[c] # Nil => parent[c] \in Started
    /\ \A c \in Slots \ {initproc} :
         state[c] \in {"SLEEPING", "RUNNABLE", "RUNNING", "ZOMBIE"} => parent[c] # Nil

\* No wakeup is lost: nobody sleeps in wait (join) while one of its children
\* (threads) is a zombie to be reaped.
NoZombieMissed ==
    \A p \in Slots : state[p] = "SLEEPING" =>
        /\ pc[p] = "wait" => \A c \in Children(p) : state[c] # "ZOMBIE"
        /\ pc[p] = "join" => \A c \in Threads(p) : state[c] # "ZOMBIE"

\* No kill is lost on a process that sleeps in wait or join.
NoKillMissed ==
    \A p \in Slots : state[p] = "SLEEPING" /\ pc[p] \in {"wait", "join"} => ~killed[p]

\* clone's last read of np->pid, after the lock is released, still finds the
\* thread it made: nobody else can have reaped it.
CloneReturnsThread ==
    \A p \in Slots : pc[p] = "cloneReturn" =>
        parent[np[p]] = p /\ state[np[p]] \notin {"UNUSED", "EMBRYO"}

\* Where a process builds the slot in np.
Building == {"forkKstack", "cloneKstack", "forkCopy", "cloneSetup",
             "forkPublish", "clonePublish"}

\* A process that is not yet reaped has an address space that was not freed.
AddressSpacesLive ==
    \A p \in Slots : state[p] \in {"SLEEPING", "RUNNABLE", "RUNNING", "ZOMBIE"} =>
        pgdir[p] \in live

\* join sleeps only for a thread that was started.
JoinSleepsForThread ==
    \A p \in Slots : state[p] = "SLEEPING" /\ pc[p] = "join" =>
        \E c \in Threads(p) : state[c] # "EMBRYO"

\* init reaps every zombie that is, or becomes, its child.
OrphansReaped ==
    \A p \in Slots \ {initproc} :
        state[p] = "ZOMBIE" /\ parent[p] = initproc ~> state[p] = "UNUSED" \/ panicked

\* A killed process exits: kill is not lost on a process that is creating
\* another one, waiting for one, or about to go to sleep.
KilledExits ==
    \A p \in Slots \ {initproc} :
        killed[p] /\ p \in Started ~> p \notin Started \/ panicked
=============================================================================
