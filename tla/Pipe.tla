-------------------------------- MODULE Pipe --------------------------------
(***************************************************************************)
(* The pipes of xv6-public (pipe.c), with the references of fileclose that *)
(* decide when an end is closed and the wakeup that kill() gives a         *)
(* sleeping process.  A process that runs under p->lock can still be       *)
(* killed between any two of its steps: kill takes ptable.lock only.       *)
(*                                                                         *)
(* Initially the pipe exists and any process may hold any of its ends: a   *)
(* process that inherits an end by a later fork is one that has not used   *)
(* it until then.                                                          *)
(***************************************************************************)
EXTENDS Integers, Sequences, FiniteSets

CONSTANTS Procs, None,
          Killable,     \* the processes somebody may kill
          Data,         \* bytes
          PipeSize,     \* PIPESIZE
          Modulus,      \* of the unsigned counters
          Sizes         \* the byte counts programs ask for in a read or write

\* PIPESIZE divides 2^32, and the counters' difference needs room.
ASSUME PipeAssumption ==
    /\ None \notin Procs /\ Killable \subseteq Procs /\ Data # {}
    /\ PipeSize \in Nat \ {0} /\ Modulus \in Nat /\ Sizes \subseteq Nat
    /\ PipeSize < Modulus /\ Modulus % PipeSize = 0

VARIABLES data, nread, nwrite, readopen, writeopen,   \* struct pipe
          freed,        \* kfree(p) has happened
          lock,         \* the process that holds p->lock
          ends,         \* the ends a process has a file reference to
          killed,
          pc, n, i,     \* where a process is; the locals of read and write
          out           \* what the last step showed to a program

pipe == <<data, nread, nwrite, readopen, writeopen, freed>>
vars == <<pipe, lock, ends, killed, pc, n, i, out>>

Writing == {"wAcquire", "wLoop", "wSleep", "wAsleep"}
Reading == {"rAcquire", "rLoop", "rSleep", "rAsleep", "rCopy"}
UnderLock == {"wLoop", "wSleep", "rLoop", "rSleep", "rCopy"}
Labels == {"user", "closeRead", "closeWrite"} \cup Writing \cup Reading

\* A step shows a program a byte or the end of its call, or nothing.
Quiet == [to |-> None, what |-> "quiet"]
Show(p, w) == out' = [to |-> p, what |-> w]
Silent == out' = Quiet

Init ==
    /\ \E junk \in Data : data = [k \in 0 .. PipeSize - 1 |-> junk]
    /\ nread = 0 /\ nwrite = 0
    /\ readopen = TRUE /\ writeopen = TRUE
    /\ freed = FALSE
    /\ lock = None
    /\ ends \in [Procs -> SUBSET {"read", "write"}]
    /\ \A e \in {"read", "write"} : \E p \in Procs : e \in ends[p]
    /\ killed = {}
    /\ pc = [p \in Procs |-> "user"]
    /\ n = [p \in Procs |-> 0]
    /\ i = [p \in Procs |-> 0]
    /\ out = Quiet

FullOneLate == nwrite = (nread + PipeSize + 1) % Modulus

\* p->nwrite == p->nread + PIPESIZE in unsigned arithmetic.
Full == nwrite = (nread + PipeSize) % Modulus
Empty == nread = nwrite

MustWaitAlways == Empty

\* The condition of piperead's loop.
MustWait == Empty /\ writeopen

\* nread++ and nwrite++ of unsigned counters.
Bump(c) == (c + 1) % Modulus

Goto(p, label) == pc' = [pc EXCEPT ![p] = label]
Incr(f, p) == [f EXCEPT ![p] = @ + 1]

\* wakeup of everybody in state asleep, as p itself moves to label.
WakeAnd(asleep, awake, p, label) ==
    pc' = [q \in Procs |-> IF q = p THEN label ELSE IF pc[q] = asleep THEN awake ELSE pc[q]]

WakeNobodyAnd(p, label) == Goto(p, label)

WakeReadersAnd(p, label) == WakeAnd("rAsleep", "rAcquire", p, label)
WakeWritersAnd(p, label) == WakeAnd("wAsleep", "wAcquire", p, label)

\* The call releases the lock and returns.
Return(p, a) ==
    /\ lock' = None
    /\ Show(p, a)
    /\ n' = [n EXCEPT ![p] = 0]
    /\ i' = [i EXCEPT ![p] = 0]
-----------------------------------------------------------------------------
\* sys_read and sys_write; a killed process makes no further calls.
Call(p, end, label, k) ==
    /\ pc[p] = "user" /\ end \in ends[p] /\ p \notin killed
    /\ n' = [n EXCEPT ![p] = k]
    /\ Silent
    /\ Goto(p, label)
    /\ UNCHANGED <<pipe, lock, ends, killed, i>>

\* The acquire at the start of a call and at the end of sleep.
Acquire(p) ==
    /\ lock = None
    /\ lock' = p
    /\ \/ pc[p] = "wAcquire" /\ Goto(p, "wLoop")
       \/ pc[p] = "rAcquire" /\ Goto(p, "rLoop")
    /\ Silent
    /\ UNCHANGED <<pipe, ends, killed, n, i>>

PutByte(p, d) ==
    /\ pc[p] = "wLoop" /\ i[p] < n[p] /\ ~Full
    /\ data' = [data EXCEPT ![nwrite % PipeSize] = d]
    /\ nwrite' = Bump(nwrite)
    /\ i' = Incr(i, p)
    /\ Silent
    /\ UNCHANGED <<nread, readopen, writeopen, freed, lock, ends, killed, pc, n>>

WriteFails(p) ==
    /\ pc[p] = "wLoop" /\ i[p] < n[p] /\ Full
    /\ ~readopen \/ p \in killed
    /\ Return(p, "fail")
    /\ Goto(p, "user")
    /\ UNCHANGED <<pipe, ends, killed>>

\* The full pipe wakes its readers; from here to the sleep a kill is missed.
WriteWaits(p) ==
    /\ pc[p] = "wLoop" /\ i[p] < n[p] /\ Full
    /\ readopen /\ p \notin killed
    /\ WakeReadersAnd(p, "wSleep")
    /\ Silent
    /\ UNCHANGED <<pipe, lock, ends, killed, n, i>>

WriteReturns(p) ==
    /\ pc[p] = "wLoop" /\ i[p] = n[p]
    /\ WakeReadersAnd(p, "user")
    /\ Return(p, "ok")
    /\ UNCHANGED <<pipe, ends, killed>>

\* sleep gives up the lock as it becomes asleep.
Sleep(p) ==
    /\ \/ pc[p] = "wSleep" /\ Goto(p, "wAsleep")
       \/ pc[p] = "rSleep" /\ Goto(p, "rAsleep")
    /\ lock' = None
    /\ Silent
    /\ UNCHANGED <<pipe, ends, killed, n, i>>

ReadFails(p) ==
    /\ pc[p] = "rLoop" /\ MustWait
    /\ p \in killed
    /\ Return(p, "fail")
    /\ Goto(p, "user")
    /\ UNCHANGED <<pipe, ends, killed>>

ReadWaits(p) ==
    /\ pc[p] = "rLoop" /\ MustWait
    /\ p \notin killed
    /\ Goto(p, "rSleep")
    /\ Silent
    /\ UNCHANGED <<pipe, lock, ends, killed, n, i>>

StartCopy(p) ==
    /\ pc[p] = "rLoop" /\ ~MustWait
    /\ Goto(p, "rCopy")
    /\ Silent
    /\ UNCHANGED <<pipe, lock, ends, killed, n, i>>

GetByte(p) ==
    /\ pc[p] = "rCopy" /\ i[p] < n[p] /\ ~Empty
    /\ Show(p, data[nread % PipeSize])
    /\ nread' = Bump(nread)
    /\ i' = Incr(i, p)
    /\ UNCHANGED <<data, nwrite, readopen, writeopen, freed, lock, ends, killed, pc, n>>

ReadReturns(p) ==
    /\ pc[p] = "rCopy" /\ (i[p] = n[p] \/ Empty)
    /\ WakeWritersAnd(p, "user")
    /\ Return(p, IF i[p] = 0 /\ n[p] > 0 THEN "eof" ELSE "ok")
    /\ UNCHANGED <<pipe, ends, killed>>

LastReferenceAny(p, e) == TRUE

\* fileclose finds f->ref at zero.
LastReference(p, e) == \A q \in Procs \ {p} : e \notin ends[q]

\* fileclose: only the last reference to an end goes on to pipeclose.
Close(p, e) ==
    /\ pc[p] = "user" /\ e \in ends[p]
    /\ ends' = [ends EXCEPT ![p] = @ \ {e}]
    /\ Goto(p, IF ~LastReference(p, e) THEN "user"
               ELSE IF e = "read" THEN "closeRead" ELSE "closeWrite")
    /\ Silent
    /\ UNCHANGED <<pipe, lock, killed, n, i>>

PipeCloseRead(p) ==
    /\ pc[p] = "closeRead" /\ lock = None
    /\ readopen' = FALSE
    /\ freed' = ~writeopen
    /\ WakeWritersAnd(p, "user")
    /\ Silent
    /\ UNCHANGED <<data, nread, nwrite, writeopen, lock, ends, killed, n, i>>

PipeCloseWrite(p) ==
    /\ pc[p] = "closeWrite" /\ lock = None
    /\ writeopen' = FALSE
    /\ freed' = ~readopen
    /\ WakeReadersAnd(p, "user")
    /\ Silent
    /\ UNCHANGED <<data, nread, nwrite, readopen, lock, ends, killed, n, i>>

\* kill(): the mark, and a sleeping process becomes runnable.
Kill(p) ==
    /\ p \in Killable \ killed
    /\ killed' = killed \cup {p}
    /\ Goto(p, CASE pc[p] = "wAsleep" -> "wAcquire" [] pc[p] = "rAsleep" -> "rAcquire"
                 [] OTHER -> pc[p])
    /\ Silent
    /\ UNCHANGED <<pipe, lock, ends, n, i>>
-----------------------------------------------------------------------------
Run(p) ==
    \/ \E d \in Data : PutByte(p, d)
    \/ WriteFails(p) \/ WriteWaits(p) \/ WriteReturns(p) \/ Sleep(p)
    \/ ReadFails(p) \/ ReadWaits(p) \/ StartCopy(p) \/ GetByte(p) \/ ReadReturns(p)
PipeClose(p) == PipeCloseRead(p) \/ PipeCloseWrite(p)

Next ==
    \E p \in Procs :
        \/ \E k \in Sizes :
             Call(p, "read", "rAcquire", k) \/ Call(p, "write", "wAcquire", k)
        \/ \E e \in {"read", "write"} : Close(p, e)
        \/ Acquire(p) \/ Run(p) \/ PipeClose(p) \/ Kill(p)

Spec == Init /\ [][Next]_vars

\* A process in the kernel runs on, and gets a lock that is free again and
\* again (sleeping and making calls need no fairness).
FairSpec ==
    /\ Spec
    /\ \A p \in Procs : WF_vars(Run(p)) /\ SF_vars(Acquire(p)) /\ SF_vars(PipeClose(p))
-----------------------------------------------------------------------------
TypeOK ==
    /\ data \in [0 .. PipeSize - 1 -> Data]
    /\ nread \in 0 .. Modulus - 1 /\ nwrite \in 0 .. Modulus - 1
    /\ readopen \in BOOLEAN /\ writeopen \in BOOLEAN /\ freed \in BOOLEAN
    /\ lock \in Procs \cup {None}
    /\ ends \in [Procs -> SUBSET {"read", "write"}]
    /\ killed \subseteq Killable
    /\ pc \in [Procs -> Labels]
    /\ n \in [Procs -> Nat] /\ i \in [Procs -> Nat]
    /\ out \in [to : Procs \cup {None}, what : Data \cup {"quiet", "ok", "eof", "fail"}]

\* A reader that sleeps while nobody has the lock waits for an empty pipe that
\* somebody can still write to.  The code grants this only until a writer is
\* killed: pipewrite returns at a full pipe without waking the readers of what
\* it has put there.
NoReaderMissed ==
    lock = None /\ killed = {} =>
        \A p \in Procs : pc[p] = "rAsleep" => Empty /\ writeopen

\* A writer that sleeps while nobody has the lock waits for a full pipe that
\* somebody can still read, whoever is killed.
NoWriterMissed ==
    lock = None => \A p \in Procs : pc[p] = "wAsleep" => Full /\ readopen

\* kfree(p) in pipeclose comes after the last use of the pipe.
NoUseAfterFree ==
    freed => \A p \in Procs : pc[p] = "user" /\ ends[p] = {}

\* Whoever reads from a pipe whose writers are gone returns, and whoever
\* writes to one whose readers are gone: pipeclose wakes them all.
EndSeen ==
    \A p \in Procs :
        /\ pc[p] \in Reading /\ ~writeopen ~> pc[p] = "user"
        /\ pc[p] \in Writing /\ ~readopen ~> pc[p] = "user"

\* The bytes between nread and nwrite.
Contents ==
    [k \in 1 .. (nwrite - nread) % Modulus |-> data[(nread + k - 1) % PipeSize]]

Stream == INSTANCE ByteStream
            WITH Capacity <- PipeSize, queue <- Contents,
                 readable <- readopen, writable <- writeopen,
                 doomed <- killed

\* The pipe is a bounded stream of bytes.
IsStream == Stream!Spec
=============================================================================
