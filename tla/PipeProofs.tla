----------------------------- MODULE PipeProofs -----------------------------
(***************************************************************************)
(* No wakeup is lost on a pipe, no freed pipe is used, and the pipe is a   *)
(* bounded stream of bytes, for any number of processes, any size of the   *)
(* pipe, any wrap-around of its counters and any sequence of reads,        *)
(* writes, closes and kills.                                               *)
(***************************************************************************)
EXTENDS Pipe, SequenceTheorems, TLAPS

\* p->lock is held by whoever is inside a section, and by nobody else.
LockHeld == \A p \in Procs : pc[p] \in UnderLock <=> lock = p

\* A call holds a reference to its end, a referenced end is open and not being
\* closed, and an end is closed by one process only.
EndsCounted ==
    /\ \A p \in Procs :
         /\ pc[p] \in Reading => "read" \in ends[p]
         /\ pc[p] \in Writing => "write" \in ends[p]
         /\ "read" \in ends[p] => readopen /\ \A q \in Procs : pc[q] # "closeRead"
         /\ "write" \in ends[p] => writeopen /\ \A q \in Procs : pc[q] # "closeWrite"
         /\ pc[p] = "closeRead" => readopen /\ \A q \in Procs \ {p} : pc[q] # "closeRead"
         /\ pc[p] = "closeWrite" => writeopen /\ \A q \in Procs \ {p} : pc[q] # "closeWrite"
    /\ freed => ~readopen /\ ~writeopen

\* A reader about to sleep has seen an empty pipe; one that sleeps has one, or
\* a writer is at work that will wake it.
ReadersRight ==
    /\ \A p \in Procs : pc[p] = "rSleep" => MustWait
    /\ killed = {} => \A p \in Procs :
         pc[p] = "rAsleep" => MustWait \/ \E w \in Procs : pc[w] = "wLoop"

\* The same of writers, full pipes, and readers that copy.
WritersRight ==
    \A p \in Procs :
        /\ pc[p] = "wSleep" => Full /\ readopen
        /\ pc[p] = "wAsleep" => (Full /\ readopen) \/ \E r \in Procs : pc[r] = "rCopy"

IInv == TypeOK /\ LockHeld /\ EndsCounted /\ ReadersRight /\ WritersRight
-----------------------------------------------------------------------------
\* The counters stay within an unsigned int.
LEMMA BumpInRange == \A c \in 0 .. Modulus - 1 : Bump(c) \in 0 .. Modulus - 1
  BY PipeAssumption DEF Bump

\* A counter modulo PIPESIZE is an index of data.
LEMMA SlotInRange == \A c \in 0 .. Modulus - 1 : c % PipeSize \in 0 .. PipeSize - 1
  BY PipeAssumption

\* Every action keeps the types.
LEMMA TypeStep == IInv /\ [Next]_vars => TypeOK'
<1> SUFFICES ASSUME IInv, [Next]_vars PROVE TypeOK'
  OBVIOUS
<1> USE PipeAssumption DEF IInv, TypeOK, Labels, Writing, Reading, pipe, Silent, Show, Quiet
<1>1. ASSUME NEW p \in Procs, NEW k \in Sizes, Call(p, "read", "rAcquire", k) PROVE TypeOK'
  BY <1>1 DEF Call, Goto
<1>2. ASSUME NEW p \in Procs, NEW k \in Sizes, Call(p, "write", "wAcquire", k) PROVE TypeOK'
  BY <1>2 DEF Call, Goto
<1>3. ASSUME NEW p \in Procs, NEW e \in {"read", "write"}, Close(p, e) PROVE TypeOK'
  BY <1>3 DEF Close, LastReference, Goto
<1>4. ASSUME NEW p \in Procs, Acquire(p) PROVE TypeOK'
  BY <1>4 DEF Acquire, Goto
<1>5. ASSUME NEW p \in Procs, NEW d \in Data, PutByte(p, d) PROVE TypeOK'
  <2>1. nwrite' \in 0 .. Modulus - 1
    BY <1>5, BumpInRange DEF PutByte
  <2>2. data' \in [0 .. PipeSize - 1 -> Data]
    BY <1>5 DEF PutByte
  <2>3. i' \in [Procs -> Nat]
    BY <1>5 DEF PutByte, Incr
  <2> QED
    BY <1>5, <2>1, <2>2, <2>3 DEF PutByte
<1>6. ASSUME NEW p \in Procs, WriteFails(p) PROVE TypeOK'
  BY <1>6 DEF WriteFails, Return, Goto
<1>7. ASSUME NEW p \in Procs, WriteWaits(p) PROVE TypeOK'
  BY <1>7 DEF WriteWaits, WakeReadersAnd, WakeAnd
<1>8. ASSUME NEW p \in Procs, WriteReturns(p) PROVE TypeOK'
  BY <1>8 DEF WriteReturns, Return, WakeReadersAnd, WakeAnd
<1>9. ASSUME NEW p \in Procs, Sleep(p) PROVE TypeOK'
  <2>1. CASE pc[p] = "wSleep" /\ Goto(p, "wAsleep")
    BY <1>9, <2>1 DEF Sleep, Goto
  <2>2. CASE pc[p] = "rSleep" /\ Goto(p, "rAsleep")
    BY <1>9, <2>2 DEF Sleep, Goto
  <2> QED
    BY <1>9, <2>1, <2>2 DEF Sleep
<1>10. ASSUME NEW p \in Procs, ReadFails(p) PROVE TypeOK'
  BY <1>10 DEF ReadFails, Return, Goto
<1>11. ASSUME NEW p \in Procs, ReadWaits(p) PROVE TypeOK'
  BY <1>11 DEF ReadWaits, Goto
<1>12. ASSUME NEW p \in Procs, StartCopy(p) PROVE TypeOK'
  BY <1>12 DEF StartCopy, Goto
<1>13. ASSUME NEW p \in Procs, GetByte(p) PROVE TypeOK'
  <2>1. nread' \in 0 .. Modulus - 1
    BY <1>13, BumpInRange DEF GetByte
  <2>2. data[nread % PipeSize] \in Data
    BY SlotInRange
  <2>3. i' \in [Procs -> Nat]
    BY <1>13 DEF GetByte, Incr
  <2> QED
    BY <1>13, <2>1, <2>2, <2>3 DEF GetByte
<1>14. ASSUME NEW p \in Procs, ReadReturns(p) PROVE TypeOK'
  BY <1>14 DEF ReadReturns, Return, WakeWritersAnd, WakeAnd
<1>15. ASSUME NEW p \in Procs, PipeCloseRead(p) PROVE TypeOK'
  BY <1>15 DEF PipeCloseRead, WakeWritersAnd, WakeAnd
<1>16. ASSUME NEW p \in Procs, PipeCloseWrite(p) PROVE TypeOK'
  BY <1>16 DEF PipeCloseWrite, WakeReadersAnd, WakeAnd
<1>17. ASSUME NEW p \in Procs, Kill(p) PROVE TypeOK'
  BY SMTT(60), <1>17 DEF Kill, Goto
<1>18. CASE UNCHANGED vars
  BY <1>18 DEF vars, pipe
<1> HIDE DEF IInv, TypeOK, Labels, Writing, Reading, pipe, Silent, Show, Quiet
<1> QED
  BY <1>1, <1>2, <1>3, <1>4, <1>5, <1>6, <1>7, <1>8, <1>9, <1>10, <1>11, <1>12, <1>13, <1>14, <1>15, <1>16, <1>17, <1>18 DEF Next, Run, PipeClose

\* The processes in a section of the pipe are those that hold its lock.
LEMMA LockStep == IInv /\ [Next]_vars => LockHeld'
<1> SUFFICES ASSUME IInv, [Next]_vars PROVE LockHeld'
  OBVIOUS
<1> USE PipeAssumption DEF IInv, TypeOK, LockHeld, UnderLock, Labels, Writing, Reading, pipe
<1>1. ASSUME NEW p \in Procs, NEW k \in Sizes, Call(p, "read", "rAcquire", k) PROVE LockHeld'
  BY <1>1 DEF Call, Goto
<1>2. ASSUME NEW p \in Procs, NEW k \in Sizes, Call(p, "write", "wAcquire", k) PROVE LockHeld'
  BY <1>2 DEF Call, Goto
<1>3. ASSUME NEW p \in Procs, NEW e \in {"read", "write"}, Close(p, e) PROVE LockHeld'
  BY <1>3 DEF Close, LastReference, Goto
<1>4. ASSUME NEW p \in Procs, Acquire(p) PROVE LockHeld'
  BY <1>4 DEF Acquire, Goto
<1>5. ASSUME NEW p \in Procs, NEW d \in Data, PutByte(p, d) PROVE LockHeld'
  BY <1>5 DEF PutByte, Incr
<1>6. ASSUME NEW p \in Procs, WriteFails(p) PROVE LockHeld'
  BY <1>6 DEF WriteFails, Return, Goto
<1>7. ASSUME NEW p \in Procs, WriteWaits(p) PROVE LockHeld'
  BY <1>7 DEF WriteWaits, WakeReadersAnd, WakeAnd
<1>8. ASSUME NEW p \in Procs, WriteReturns(p) PROVE LockHeld'
  BY <1>8 DEF WriteReturns, Return, WakeReadersAnd, WakeAnd
<1>9. ASSUME NEW p \in Procs, Sleep(p) PROVE LockHeld'
  BY ZenonT(60), <1>9 DEF Sleep, Goto
<1>10. ASSUME NEW p \in Procs, ReadFails(p) PROVE LockHeld'
  BY <1>10 DEF ReadFails, Return, Goto
<1>11. ASSUME NEW p \in Procs, ReadWaits(p) PROVE LockHeld'
  BY <1>11 DEF ReadWaits, Goto
<1>12. ASSUME NEW p \in Procs, StartCopy(p) PROVE LockHeld'
  BY <1>12 DEF StartCopy, Goto
<1>13. ASSUME NEW p \in Procs, GetByte(p) PROVE LockHeld'
  BY <1>13 DEF GetByte, Incr
<1>14. ASSUME NEW p \in Procs, ReadReturns(p) PROVE LockHeld'
  BY <1>14 DEF ReadReturns, Return, WakeWritersAnd, WakeAnd
<1>15. ASSUME NEW p \in Procs, PipeCloseRead(p) PROVE LockHeld'
  BY <1>15 DEF PipeCloseRead, WakeWritersAnd, WakeAnd
<1>16. ASSUME NEW p \in Procs, PipeCloseWrite(p) PROVE LockHeld'
  BY <1>16 DEF PipeCloseWrite, WakeReadersAnd, WakeAnd
<1>17. ASSUME NEW p \in Procs, Kill(p) PROVE LockHeld'
  BY <1>17 DEF Kill, Goto
<1>18. CASE UNCHANGED vars
  BY <1>18 DEF vars, pipe
<1> QED
  BY <1>1, <1>2, <1>3, <1>4, <1>5, <1>6, <1>7, <1>8, <1>9, <1>10, <1>11, <1>12, <1>13, <1>14, <1>15, <1>16, <1>17, <1>18 DEF Next, Run, PipeClose

\* The ends in use are open, and an end is closed once, by the last holder.
LEMMA RefsStep == IInv /\ [Next]_vars => EndsCounted'
<1> SUFFICES ASSUME IInv, [Next]_vars PROVE EndsCounted'
  OBVIOUS
<1> USE PipeAssumption DEF IInv, TypeOK, EndsCounted, Labels, Writing, Reading, pipe
<1>1. ASSUME NEW p \in Procs, NEW k \in Sizes, Call(p, "read", "rAcquire", k) PROVE EndsCounted'
  BY <1>1 DEF Call, Goto
<1>2. ASSUME NEW p \in Procs, NEW k \in Sizes, Call(p, "write", "wAcquire", k) PROVE EndsCounted'
  BY <1>2 DEF Call, Goto
<1>3. ASSUME NEW p \in Procs, NEW e \in {"read", "write"}, Close(p, e) PROVE EndsCounted'
  BY <1>3 DEF Close, LastReference, Goto
<1>4. ASSUME NEW p \in Procs, Acquire(p) PROVE EndsCounted'
  BY <1>4 DEF Acquire, Goto
<1>5. ASSUME NEW p \in Procs, NEW d \in Data, PutByte(p, d) PROVE EndsCounted'
  BY <1>5 DEF PutByte, Incr
<1>6. ASSUME NEW p \in Procs, WriteFails(p) PROVE EndsCounted'
  BY <1>6 DEF WriteFails, Return, Goto
<1>7. ASSUME NEW p \in Procs, WriteWaits(p) PROVE EndsCounted'
  BY <1>7 DEF WriteWaits, WakeReadersAnd, WakeAnd
<1>8. ASSUME NEW p \in Procs, WriteReturns(p) PROVE EndsCounted'
  BY <1>8 DEF WriteReturns, Return, WakeReadersAnd, WakeAnd
<1>9. ASSUME NEW p \in Procs, Sleep(p) PROVE EndsCounted'
  BY <1>9 DEF Sleep, Goto
<1>10. ASSUME NEW p \in Procs, ReadFails(p) PROVE EndsCounted'
  BY <1>10 DEF ReadFails, Return, Goto
<1>11. ASSUME NEW p \in Procs, ReadWaits(p) PROVE EndsCounted'
  BY <1>11 DEF ReadWaits, Goto
<1>12. ASSUME NEW p \in Procs, StartCopy(p) PROVE EndsCounted'
  BY <1>12 DEF StartCopy, Goto
<1>13. ASSUME NEW p \in Procs, GetByte(p) PROVE EndsCounted'
  BY <1>13 DEF GetByte, Incr
<1>14. ASSUME NEW p \in Procs, ReadReturns(p) PROVE EndsCounted'
  BY <1>14 DEF ReadReturns, Return, WakeWritersAnd, WakeAnd
<1>15. ASSUME NEW p \in Procs, PipeCloseRead(p) PROVE EndsCounted'
  BY <1>15 DEF PipeCloseRead, WakeWritersAnd, WakeAnd
<1>16. ASSUME NEW p \in Procs, PipeCloseWrite(p) PROVE EndsCounted'
  BY <1>16 DEF PipeCloseWrite, WakeReadersAnd, WakeAnd
<1>17. ASSUME NEW p \in Procs, Kill(p) PROVE EndsCounted'
  BY <1>17 DEF Kill, Goto
<1>18. CASE UNCHANGED vars
  BY <1>18 DEF vars, pipe
<1> QED
  BY <1>1, <1>2, <1>3, <1>4, <1>5, <1>6, <1>7, <1>8, <1>9, <1>10, <1>11, <1>12, <1>13, <1>14, <1>15, <1>16, <1>17, <1>18 DEF Next, Run, PipeClose

\* Nobody leaves a pipe that is not empty without waking its readers, unless killed.
LEMMA ReadersStep == IInv /\ [Next]_vars => ReadersRight'
<1> SUFFICES ASSUME IInv, [Next]_vars PROVE ReadersRight'
  OBVIOUS
<1> USE PipeAssumption DEF IInv, TypeOK, LockHeld, EndsCounted, ReadersRight, UnderLock, Labels, Writing, Reading, pipe, Empty, MustWait
<1>1. ASSUME NEW p \in Procs, NEW k \in Sizes, Call(p, "read", "rAcquire", k) PROVE ReadersRight'
  BY <1>1 DEF Call, Goto
<1>2. ASSUME NEW p \in Procs, NEW k \in Sizes, Call(p, "write", "wAcquire", k) PROVE ReadersRight'
  BY <1>2 DEF Call, Goto
<1>3. ASSUME NEW p \in Procs, NEW e \in {"read", "write"}, Close(p, e) PROVE ReadersRight'
  BY <1>3 DEF Close, LastReference, Goto
<1>4. ASSUME NEW p \in Procs, Acquire(p) PROVE ReadersRight'
  BY <1>4 DEF Acquire, Goto
<1>5. ASSUME NEW p \in Procs, NEW d \in Data, PutByte(p, d) PROVE ReadersRight'
  BY <1>5 DEF PutByte, Incr
<1>6. ASSUME NEW p \in Procs, WriteFails(p) PROVE ReadersRight'
  BY <1>6 DEF WriteFails, Return, Goto
<1>7. ASSUME NEW p \in Procs, WriteWaits(p) PROVE ReadersRight'
  BY <1>7 DEF WriteWaits, WakeReadersAnd, WakeAnd
<1>8. ASSUME NEW p \in Procs, WriteReturns(p) PROVE ReadersRight'
  BY <1>8 DEF WriteReturns, Return, WakeReadersAnd, WakeAnd
<1>9. ASSUME NEW p \in Procs, Sleep(p) PROVE ReadersRight'
  BY <1>9 DEF Sleep, Goto
<1>10. ASSUME NEW p \in Procs, ReadFails(p) PROVE ReadersRight'
  BY <1>10 DEF ReadFails, Return, Goto
<1>11. ASSUME NEW p \in Procs, ReadWaits(p) PROVE ReadersRight'
  BY <1>11 DEF ReadWaits, Goto
<1>12. ASSUME NEW p \in Procs, StartCopy(p) PROVE ReadersRight'
  BY <1>12 DEF StartCopy, Goto
<1>13. ASSUME NEW p \in Procs, GetByte(p) PROVE ReadersRight'
  BY <1>13 DEF GetByte, Incr
<1>14. ASSUME NEW p \in Procs, ReadReturns(p) PROVE ReadersRight'
  BY <1>14 DEF ReadReturns, Return, WakeWritersAnd, WakeAnd
<1>15. ASSUME NEW p \in Procs, PipeCloseRead(p) PROVE ReadersRight'
  BY <1>15 DEF PipeCloseRead, WakeWritersAnd, WakeAnd
<1>16. ASSUME NEW p \in Procs, PipeCloseWrite(p) PROVE ReadersRight'
  BY <1>16 DEF PipeCloseWrite, WakeReadersAnd, WakeAnd
<1>17. ASSUME NEW p \in Procs, Kill(p) PROVE ReadersRight'
  BY <1>17 DEF Kill, Goto
<1>18. CASE UNCHANGED vars
  BY <1>18 DEF vars, pipe
<1> QED
  BY <1>1, <1>2, <1>3, <1>4, <1>5, <1>6, <1>7, <1>8, <1>9, <1>10, <1>11, <1>12, <1>13, <1>14, <1>15, <1>16, <1>17, <1>18 DEF Next, Run, PipeClose

\* Nobody leaves a pipe that is not full without waking its writers.
LEMMA WritersStep == IInv /\ [Next]_vars => WritersRight'
<1> SUFFICES ASSUME IInv, [Next]_vars PROVE WritersRight'
  OBVIOUS
<1> USE PipeAssumption DEF IInv, TypeOK, LockHeld, EndsCounted, WritersRight, UnderLock, Labels, Writing, Reading, pipe, Full
<1>1. ASSUME NEW p \in Procs, NEW k \in Sizes, Call(p, "read", "rAcquire", k) PROVE WritersRight'
  BY <1>1 DEF Call, Goto
<1>2. ASSUME NEW p \in Procs, NEW k \in Sizes, Call(p, "write", "wAcquire", k) PROVE WritersRight'
  BY <1>2 DEF Call, Goto
<1>3. ASSUME NEW p \in Procs, NEW e \in {"read", "write"}, Close(p, e) PROVE WritersRight'
  BY <1>3 DEF Close, LastReference, Goto
<1>4. ASSUME NEW p \in Procs, Acquire(p) PROVE WritersRight'
  BY <1>4 DEF Acquire, Goto
<1>5. ASSUME NEW p \in Procs, NEW d \in Data, PutByte(p, d) PROVE WritersRight'
  BY <1>5 DEF PutByte, Incr
<1>6. ASSUME NEW p \in Procs, WriteFails(p) PROVE WritersRight'
  BY <1>6 DEF WriteFails, Return, Goto
<1>7. ASSUME NEW p \in Procs, WriteWaits(p) PROVE WritersRight'
  BY <1>7 DEF WriteWaits, WakeReadersAnd, WakeAnd
<1>8. ASSUME NEW p \in Procs, WriteReturns(p) PROVE WritersRight'
  BY <1>8 DEF WriteReturns, Return, WakeReadersAnd, WakeAnd
<1>9. ASSUME NEW p \in Procs, Sleep(p) PROVE WritersRight'
  BY <1>9 DEF Sleep, Goto
<1>10. ASSUME NEW p \in Procs, ReadFails(p) PROVE WritersRight'
  BY <1>10 DEF ReadFails, Return, Goto
<1>11. ASSUME NEW p \in Procs, ReadWaits(p) PROVE WritersRight'
  BY <1>11 DEF ReadWaits, Goto
<1>12. ASSUME NEW p \in Procs, StartCopy(p) PROVE WritersRight'
  BY <1>12 DEF StartCopy, Goto
<1>13. ASSUME NEW p \in Procs, GetByte(p) PROVE WritersRight'
  BY <1>13 DEF GetByte, Incr
<1>14. ASSUME NEW p \in Procs, ReadReturns(p) PROVE WritersRight'
  BY <1>14 DEF ReadReturns, Return, WakeWritersAnd, WakeAnd
<1>15. ASSUME NEW p \in Procs, PipeCloseRead(p) PROVE WritersRight'
  BY <1>15 DEF PipeCloseRead, WakeWritersAnd, WakeAnd
<1>16. ASSUME NEW p \in Procs, PipeCloseWrite(p) PROVE WritersRight'
  BY <1>16 DEF PipeCloseWrite, WakeReadersAnd, WakeAnd
<1>17. ASSUME NEW p \in Procs, Kill(p) PROVE WritersRight'
  BY <1>17 DEF Kill, Goto
<1>18. CASE UNCHANGED vars
  BY <1>18 DEF vars, pipe
<1> QED
  BY <1>1, <1>2, <1>3, <1>4, <1>5, <1>6, <1>7, <1>8, <1>9, <1>10, <1>11, <1>12, <1>13, <1>14, <1>15, <1>16, <1>17, <1>18 DEF Next, Run, PipeClose

\* The initial states satisfy the inductive invariant.
LEMMA InitInv == Init => IInv
<1> SUFFICES ASSUME Init PROVE IInv
  OBVIOUS
<1>1. TypeOK
  <2>1. data \in [0 .. PipeSize - 1 -> Data]
    BY DEF Init
  <2>2. 0 \in 0 .. Modulus - 1
    BY PipeAssumption
  <2> QED
    BY <2>1, <2>2 DEF Init, TypeOK, Labels, Quiet
<1>2. LockHeld
  BY PipeAssumption DEF Init, LockHeld, UnderLock
<1>3. EndsCounted
  BY DEF Init, EndsCounted, Reading, Writing
<1>4. ReadersRight /\ WritersRight
  BY DEF Init, ReadersRight, WritersRight
<1> QED
  BY <1>1, <1>2, <1>3, <1>4 DEF IInv

\* The inductive invariant holds in every reachable state.
THEOREM Inductive == Spec => []IInv
<1>1. IInv /\ [Next]_vars => IInv'
  BY TypeStep, LockStep, RefsStep, ReadersStep, WritersStep DEF IInv
<1> QED
  BY InitInv, <1>1, PTL DEF Spec

\* The pipe's counters stay within an unsigned int and everything else within
\* its type.
THEOREM TypeCorrect == Spec => []TypeOK
<1>1. IInv => TypeOK
  BY DEF IInv
<1> QED
  BY <1>1, Inductive, PTL

\* No reader sleeps beside bytes it could read, until a writer is killed.
THEOREM ReadersWoken == Spec => []NoReaderMissed
<1>1. IInv => NoReaderMissed
  BY PipeAssumption DEF IInv, NoReaderMissed, ReadersRight, MustWait, LockHeld, UnderLock
<1> QED
  BY <1>1, Inductive, PTL

\* No writer sleeps beside room it could use or readers that are gone.
THEOREM WritersWoken == Spec => []NoWriterMissed
<1>1. IInv => NoWriterMissed
  BY PipeAssumption DEF IInv, NoWriterMissed, WritersRight, LockHeld, UnderLock
<1> QED
  BY <1>1, Inductive, PTL

\* pipeclose frees the pipe after its last use.
THEOREM FreedUnused == Spec => []NoUseAfterFree
<1>1. IInv => NoUseAfterFree
  BY DEF IInv, NoUseAfterFree, EndsCounted, TypeOK, Labels
<1> QED
  BY <1>1, Inductive, PTL
-----------------------------------------------------------------------------
\* Facts about remainders.
LEMMA Division ==
    ASSUME NEW d \in Nat \ {0}, NEW a \in Int
    PROVE  \E q \in Int, r \in 0 .. d - 1 : a = q * d + r /\ a % d = r
<1>1. a = (a \div d) * d + (a % d) /\ a \div d \in Int /\ a % d \in 0 .. d - 1
  OBVIOUS
<1> QED
  BY <1>1

LEMMA Remainder ==
    ASSUME NEW d \in Nat \ {0}, NEW q \in Int, NEW r \in 0 .. d - 1
    PROVE  (q * d + r) % d = r
  OBVIOUS

LEMMA RemainderNear ==
    ASSUME NEW d \in Nat \ {0}, NEW a \in -d .. 2 * d - 1
    PROVE  a % d = IF a < 0 THEN a + d ELSE IF a < d THEN a ELSE a - d
<1>1. CASE a < 0
  BY <1>1
<1>2. CASE 0 <= a /\ a < d
  BY <1>2
<1>3. CASE d <= a
  BY <1>3
<1> QED
  BY <1>1, <1>2, <1>3

\* What is known of the sizes without remainders.
LEMMA SizesOrder == PipeSize \in Nat \ {0} /\ Modulus \in Nat \ {0} /\ PipeSize < Modulus
  BY PipeAssumption

\* A counter that wraps around comes to the same place of data, because
\* PIPESIZE divides 2^32.
LEMMA SlotAfterWrap == \A c \in Int : (c + Modulus) % PipeSize = c % PipeSize
<1> TAKE c \in Int
<1>1. PICK m \in Int : Modulus = m * PipeSize + 0
  BY PipeAssumption, Division
<1>2. PICK q \in Int, r \in 0 .. PipeSize - 1 : c = q * PipeSize + r /\ c % PipeSize = r
  BY PipeAssumption, Division
<1>3. c + Modulus = (q + m) * PipeSize + r
  BY <1>1, <1>2, PipeAssumption
<1>4. ((q + m) * PipeSize + r) % PipeSize = r
  BY <1>2, PipeAssumption, Remainder
<1> QED
  BY <1>2, <1>3, <1>4

\* Counters less than PIPESIZE apart come to different places.
LEMMA SlotsApart ==
    ASSUME NEW c \in Int, NEW e \in 1 .. PipeSize - 1
    PROVE  (c + e) % PipeSize # c % PipeSize
<1>1. PICK q \in Int, r \in 0 .. PipeSize - 1 : c = q * PipeSize + r /\ c % PipeSize = r
  BY PipeAssumption, Division
<1>2. CASE r + e < PipeSize
  <2>1. c + e = q * PipeSize + (r + e) /\ r + e \in 0 .. PipeSize - 1
    BY <1>1, <1>2, PipeAssumption
  <2>2. (q * PipeSize + (r + e)) % PipeSize = r + e
    BY <2>1, PipeAssumption, Remainder
  <2> QED
    BY <1>1, <2>1, <2>2, PipeAssumption
<1>3. CASE r + e >= PipeSize
  <2>1. PICK s \in 0 .. PipeSize - 1 : s = r + e - PipeSize
    BY <1>3, SizesOrder
  <2>2. c + e = (q + 1) * PipeSize + s
    BY <1>1, <2>1, SizesOrder
  <2>3. ((q + 1) * PipeSize + s) % PipeSize = s
    BY SizesOrder, Remainder
  <2> QED
    BY <1>1, <2>1, <2>2, <2>3, SizesOrder
<1> QED
  BY <1>1, <1>2, <1>3, PipeAssumption
-----------------------------------------------------------------------------
\* How many bytes are inside, in unsigned arithmetic.
Count == (nwrite - nread) % Modulus

\* Never more than the pipe holds, whenever the counters wrap around.
Bounded == Count <= PipeSize

\* Whoever copies nothing from an empty pipe has seen its last writer close it.
EndRight == \A p \in Procs : pc[p] = "rCopy" /\ i[p] = 0 => ~MustWait

StreamInv == IInv /\ Bounded /\ EndRight

\* The unsigned difference of two counters, and the counter after one.
LEMMA UnsignedDifference ==
    ASSUME NEW r \in 0 .. Modulus - 1, NEW w \in 0 .. Modulus - 1
    PROVE  (w - r) % Modulus = IF r <= w THEN w - r ELSE w - r + Modulus
<1>1. w - r \in -Modulus .. 2 * Modulus - 1
  BY SizesOrder
<1>2. (w - r) % Modulus = IF w - r < 0 THEN (w - r) + Modulus
                          ELSE IF w - r < Modulus THEN w - r ELSE (w - r) - Modulus
  BY <1>1, SizesOrder, RemainderNear
<1> QED
  BY <1>2, SizesOrder

LEMMA UnsignedCount ==
    TypeOK => Count = IF nread <= nwrite THEN nwrite - nread ELSE nwrite - nread + Modulus
  BY UnsignedDifference DEF TypeOK, Count

LEMMA UnsignedBump ==
    \A c \in 0 .. Modulus - 1 : Bump(c) = IF c + 1 = Modulus THEN 0 ELSE c + 1
<1> TAKE c \in 0 .. Modulus - 1
<1>1. c + 1 \in -Modulus .. 2 * Modulus - 1
  BY SizesOrder
<1>2. (c + 1) % Modulus = IF c + 1 < 0 THEN (c + 1) + Modulus
                          ELSE IF c + 1 < Modulus THEN c + 1 ELSE (c + 1) - Modulus
  BY <1>1, SizesOrder, RemainderNear
<1> QED
  BY <1>2, SizesOrder DEF Bump

\* The tests of pipewrite and piperead say what the count is.
LEMMA FullAndEmpty ==
    ASSUME TypeOK, Bounded
    PROVE  /\ Count \in 0 .. PipeSize
           /\ Full <=> Count = PipeSize
           /\ Empty <=> Count = 0
<1>1. Count \in 0 .. PipeSize
  BY UnsignedCount, PipeAssumption DEF TypeOK, Bounded
<1>2. (nread + PipeSize) % Modulus = IF nread + PipeSize < Modulus THEN nread + PipeSize
                                     ELSE nread + PipeSize - Modulus
  <2>1. nread + PipeSize \in -Modulus .. 2 * Modulus - 1 /\ nread + PipeSize >= 0
    BY SizesOrder DEF TypeOK
  <2>2. (nread + PipeSize) % Modulus
           = IF nread + PipeSize < 0 THEN (nread + PipeSize) + Modulus
             ELSE IF nread + PipeSize < Modulus THEN nread + PipeSize
             ELSE (nread + PipeSize) - Modulus
    BY <2>1, SizesOrder, RemainderNear
  <2> QED
    BY <2>1, <2>2, SizesOrder DEF TypeOK
<1>3. Full <=> Count = PipeSize
  <2> DEFINE brim == (nread + PipeSize) % Modulus
  <2>1. Full <=> nwrite = brim
    BY DEF Full
  <2>2. brim = IF nread + PipeSize < Modulus THEN nread + PipeSize
               ELSE nread + PipeSize - Modulus
    BY <1>2
  <2>3. Count = IF nread <= nwrite THEN nwrite - nread ELSE nwrite - nread + Modulus
    BY UnsignedCount
  <2> HIDE DEF brim
  <2>4. nwrite = brim <=> Count = PipeSize
    BY <2>2, <2>3, SizesOrder DEF TypeOK
  <2> QED
    BY <2>1, <2>4
<1>4. Empty <=> Count = 0
  BY UnsignedCount, SizesOrder DEF Empty, TypeOK
<1> QED
  BY <1>1, <1>3, <1>4

\* What is inside is a sequence of Count bytes.
LEMMA ContentsType ==
    TypeOK => Contents \in Seq(Data) /\ Len(Contents) = Count /\ Count \in Nat
<1> SUFFICES ASSUME TypeOK
             PROVE  Contents \in Seq(Data) /\ Len(Contents) = Count /\ Count \in Nat
  OBVIOUS
<1>1. Count \in Nat
  BY UnsignedCount, SizesOrder DEF TypeOK
<1>2. \A k \in 1 .. Count : (nread + k - 1) % PipeSize \in 0 .. PipeSize - 1
  BY <1>1, SizesOrder DEF TypeOK
<1>3. \A k \in 1 .. Count : data[(nread + k - 1) % PipeSize] \in Data
  BY <1>2 DEF TypeOK
<1>4. Contents = [k \in 1 .. Count |-> data[(nread + k - 1) % PipeSize]]
  BY DEF Contents, Count
<1> QED
  BY <1>1, <1>3, <1>4

\* The place of the next byte is that of nwrite.
LEMMA SlotOfWrite ==
    ASSUME TypeOK
    PROVE  (nread + Count) % PipeSize = nwrite % PipeSize
<1>1. nread + Count = nwrite \/ nread + Count = nwrite + Modulus
  BY UnsignedCount, SizesOrder DEF TypeOK
<1>2. (nwrite + Modulus) % PipeSize = nwrite % PipeSize
  BY SlotAfterWrap DEF TypeOK
<1> QED
  BY <1>1, <1>2

\* pipewrite puts its byte behind those inside.
LEMMA PutByteStep ==
    ASSUME StreamInv, NEW p \in Procs, NEW d \in Data, PutByte(p, d)
    PROVE  Bounded' /\ Stream!Put(d)
<1> USE DEF StreamInv, IInv
<1>1. /\ nwrite' = Bump(nwrite) /\ nread' = nread
      /\ data' = [data EXCEPT ![nwrite % PipeSize] = d]
  BY DEF PutByte
<1>2. Count \in 0 .. PipeSize - 1
  BY FullAndEmpty, SizesOrder DEF PutByte
<1>3. Count' = Count + 1
  <2>1. TypeOK'
    BY TypeStep DEF Next, Run
  <2>2. Count' = IF nread' <= nwrite' THEN nwrite' - nread' ELSE nwrite' - nread' + Modulus
    BY <2>1, UnsignedDifference DEF TypeOK, Count
  <2>3. nwrite' = IF nwrite + 1 = Modulus THEN 0 ELSE nwrite + 1
    BY <1>1, UnsignedBump DEF TypeOK
  <2> QED
    BY <1>1, <1>2, <2>2, <2>3, UnsignedCount, SizesOrder DEF TypeOK
<1>4. Bounded'
  BY <1>2, <1>3, SizesOrder DEF Bounded
<1>5. Contents' = [k \in 1 .. Count + 1 |-> data'[(nread + k - 1) % PipeSize]]
  BY <1>1, <1>3 DEF Contents, Count
<1>6. ASSUME NEW k \in 1 .. Count PROVE Contents'[k] = Contents[k]
  <2>1. (nread + k - 1) % PipeSize # (nread + Count) % PipeSize
    <3>1. /\ nread + k - 1 \in Int /\ Count - k + 1 \in 1 .. PipeSize - 1
          /\ (nread + k - 1) + (Count - k + 1) = nread + Count
      BY <1>2, SizesOrder DEF TypeOK
    <3> QED
      BY <3>1, SlotsApart
  <2>2. (nread + k - 1) % PipeSize \in 0 .. PipeSize - 1
    BY <1>2, SizesOrder DEF TypeOK
  <2>3. data'[(nread + k - 1) % PipeSize] = data[(nread + k - 1) % PipeSize]
    BY <1>1, <2>1, <2>2, SlotOfWrite DEF TypeOK
  <2>4. k \in 1 .. Count + 1
    BY <1>2
  <2> QED
    BY <1>5, <2>3, <2>4 DEF Contents, Count
<1>7. Contents'[Count + 1] = d
  <2>1. nread + (Count + 1) - 1 = nread + Count /\ Count + 1 \in 1 .. Count + 1
    BY <1>2, SizesOrder DEF TypeOK
  <2>2. nwrite % PipeSize \in 0 .. PipeSize - 1
    BY SlotInRange DEF TypeOK
  <2>3. data'[nwrite % PipeSize] = d
    BY <1>1, <2>2 DEF TypeOK
  <2> QED
    BY <1>5, <2>1, <2>3, SlotOfWrite
<1>8. Contents' = Append(Contents, d)
  <2>1. Contents \in Seq(Data) /\ Len(Contents) = Count
    BY ContentsType
  <2>2. /\ Append(Contents, d) \in Seq(Data) /\ Len(Append(Contents, d)) = Count + 1
        /\ \A k \in 1 .. Count : Append(Contents, d)[k] = Contents[k]
        /\ Append(Contents, d)[Count + 1] = d
    BY <2>1, AppendProperties
  <2>3. \A k \in 1 .. Count + 1 : Contents'[k] = Append(Contents, d)[k]
    <3> TAKE k \in 1 .. Count + 1
    <3>1. k \in 1 .. Count \/ k = Count + 1
      BY <1>2
    <3> QED
      BY <1>6, <1>7, <2>2, <3>1
  <2>4. \A k \in 1 .. Count + 1 : Contents'[k] \in Data
    BY <2>2, <2>3
  <2>5. Contents' \in Seq(Data) /\ Len(Contents') = Count + 1
    BY <1>2, <1>5, <2>4
  <2> QED
    BY <2>2, <2>3, <2>5, SeqEqual
<1>9. writeopen
  BY DEF PutByte, EndsCounted, Writing
<1> QED
  BY <1>2, <1>4, <1>8, <1>9, ContentsType, SizesOrder
     DEF PutByte, Stream!Put, Stream!Silent, Stream!Give, Silent, Quiet

\* piperead takes the first of them.
LEMMA GetByteStep ==
    ASSUME StreamInv, NEW p \in Procs, GetByte(p)
    PROVE  Bounded' /\ Stream!Get(p)
<1> USE DEF StreamInv, IInv
<1>1. nread' = Bump(nread) /\ nwrite' = nwrite /\ data' = data
  BY DEF GetByte
<1>2. Count \in 1 .. PipeSize
  BY FullAndEmpty, SizesOrder DEF GetByte
<1>3. nread' = IF nread + 1 = Modulus THEN 0 ELSE nread + 1
  BY <1>1, UnsignedBump DEF TypeOK
<1>4. Count' = Count - 1
  <2>1. TypeOK'
    BY TypeStep DEF Next, Run
  <2>2. Count' = IF nread' <= nwrite' THEN nwrite' - nread' ELSE nwrite' - nread' + Modulus
    BY <2>1, UnsignedDifference DEF TypeOK, Count
  <2> QED
    BY <1>1, <1>2, <1>3, <2>2, UnsignedCount, SizesOrder DEF TypeOK
<1>5. Bounded'
  BY <1>2, <1>4, SizesOrder DEF Bounded
<1>6. Contents' = [k \in 1 .. Count - 1 |-> data[(nread' + k - 1) % PipeSize]]
  BY <1>1, <1>4 DEF Contents, Count
<1>7. Contents = [k \in 1 .. Count |-> data[(nread + k - 1) % PipeSize]]
  BY DEF Contents, Count
<1>8. ASSUME NEW k \in 1 .. Count - 1 PROVE Contents'[k] = Contents[k + 1]
  <2>1. (nread' + k - 1) % PipeSize = (nread + (k + 1) - 1) % PipeSize
    <3>1. CASE nread + 1 = Modulus
      <4>1. nread' + k - 1 \in Int /\ nread + (k + 1) - 1 = (nread' + k - 1) + Modulus
        BY <1>3, <3>1, SizesOrder DEF TypeOK
      <4> QED
        BY <4>1, SlotAfterWrap
    <3>2. CASE nread + 1 # Modulus
      <4>1. nread + (k + 1) - 1 = nread' + k - 1
        BY <1>3, <3>2, SizesOrder DEF TypeOK
      <4> QED
        BY <4>1
    <3> QED
      BY <3>1, <3>2
  <2>2. k + 1 \in 1 .. Count
    BY <1>2
  <2> QED
    BY <1>6, <1>7, <2>1, <2>2
<1>9. Contents \in Seq(Data) /\ Len(Contents) = Count /\ Contents # <<>>
  BY <1>2, ContentsType
<1>10. Contents' = Tail(Contents)
  <2>1. /\ Tail(Contents) \in Seq(Data) /\ Len(Tail(Contents)) = Count - 1
        /\ \A k \in 1 .. Count - 1 : Tail(Contents)[k] = Contents[k + 1]
    BY <1>9, HeadTailProperties
  <2>2. \A k \in 1 .. Count - 1 : Contents'[k] \in Data
    BY <1>8, <2>1
  <2>3. Contents' \in Seq(Data) /\ Len(Contents') = Count - 1
    BY <1>2, <1>6, <2>2
  <2> QED
    BY <1>8, <2>1, <2>3, SeqEqual
<1>11. Head(Contents) = data[nread % PipeSize]
  <2>1. nread + 1 - 1 = nread /\ 1 \in 1 .. Count
    BY <1>2 DEF TypeOK
  <2>2. Head(Contents) = Contents[1]
    BY <1>9
  <2>3. Contents[1] = data[(nread + 1 - 1) % PipeSize]
    BY <1>7, <2>1
  <2> QED
    BY <2>1, <2>2, <2>3
<1>12. readopen
  BY DEF GetByte, EndsCounted, Reading
<1> QED
  BY <1>5, <1>9, <1>10, <1>11, <1>12 DEF GetByte, Stream!Get, Stream!Give, Show

\* The steps that leave the counters alone keep the bytes inside.
LEMMA BytesKept ==
    UNCHANGED <<data, nread, nwrite>> => Contents' = Contents /\ (Bounded => Bounded')
  BY DEF Contents, Bounded, Count

\* A reader under the lock sees the pipe as it found it, but for its own bytes.
LEMMA EndStep == StreamInv /\ [Next]_vars => EndRight'
<1> SUFFICES ASSUME StreamInv, [Next]_vars PROVE EndRight'
  OBVIOUS
<1> USE PipeAssumption DEF StreamInv, IInv, TypeOK, LockHeld, EndRight, UnderLock, pipe,
                           Empty, MustWait
<1>1. ASSUME NEW p \in Procs, NEW k \in Sizes,
             Call(p, "read", "rAcquire", k) \/ Call(p, "write", "wAcquire", k)
      PROVE  EndRight'
  BY <1>1 DEF Call, Goto
<1>2. ASSUME NEW p \in Procs, NEW e \in {"read", "write"}, Close(p, e) PROVE EndRight'
  BY <1>2 DEF Close, LastReference, Goto
<1>3. ASSUME NEW p \in Procs, Acquire(p) PROVE EndRight'
  BY <1>3 DEF Acquire, Goto
<1>4. ASSUME NEW p \in Procs, NEW d \in Data, PutByte(p, d) PROVE EndRight'
  BY <1>4 DEF PutByte, Incr
<1>5. ASSUME NEW p \in Procs, WriteFails(p) \/ ReadFails(p) PROVE EndRight'
  BY <1>5 DEF WriteFails, ReadFails, Return, Goto
<1>6. ASSUME NEW p \in Procs, WriteWaits(p) PROVE EndRight'
  BY <1>6 DEF WriteWaits, WakeReadersAnd, WakeAnd
<1>7. ASSUME NEW p \in Procs, WriteReturns(p) PROVE EndRight'
  BY <1>7 DEF WriteReturns, Return, WakeReadersAnd, WakeAnd
<1>8. ASSUME NEW p \in Procs, Sleep(p) PROVE EndRight'
  BY <1>8 DEF Sleep, Goto
<1>9. ASSUME NEW p \in Procs, ReadWaits(p) \/ StartCopy(p) PROVE EndRight'
  BY <1>9 DEF ReadWaits, StartCopy, Goto
<1>10. ASSUME NEW p \in Procs, GetByte(p) PROVE EndRight'
  BY <1>10 DEF GetByte, Incr
<1>11. ASSUME NEW p \in Procs, ReadReturns(p) PROVE EndRight'
  BY <1>11 DEF ReadReturns, Return, WakeWritersAnd, WakeAnd
<1>12. ASSUME NEW p \in Procs, PipeClose(p) PROVE EndRight'
  BY <1>12 DEF PipeClose, PipeCloseRead, PipeCloseWrite, WakeReadersAnd, WakeWritersAnd, WakeAnd
<1>13. ASSUME NEW p \in Procs, Kill(p) PROVE EndRight'
  BY <1>13 DEF Kill, Goto
<1>14. CASE UNCHANGED vars
  BY <1>14 DEF vars
<1> QED
  BY <1>1, <1>2, <1>3, <1>4, <1>5, <1>6, <1>7, <1>8, <1>9, <1>10, <1>11, <1>12, <1>13, <1>14
     DEF Next, Run

\* A step that the stream may take, or that it does not see.
StreamMove == Bounded' /\ [Stream!Next]_(Stream!vars)

\* Every step of the pipe is one.
LEMMA StreamStep == StreamInv /\ [Next]_vars => StreamMove
<1> SUFFICES ASSUME StreamInv, [Next]_vars PROVE StreamMove
  OBVIOUS
<1>1. ASSUME UNCHANGED pipe PROVE Bounded' /\ Contents' = Contents
  BY <1>1, BytesKept DEF pipe, StreamInv
<1>2. ASSUME UNCHANGED <<pipe, killed>>, Silent PROVE StreamMove
  <2>1. Stream!Internal
    BY <1>1, <1>2 DEF Stream!Internal, Stream!Silent, Stream!Give, Silent, Quiet, pipe
  <2> QED
    BY <1>1, <1>2, <2>1 DEF Stream!Next, StreamMove
<1>3. ASSUME NEW p \in Procs, NEW a \in {"ok", "eof", "fail"}, Show(p, a),
             UNCHANGED <<pipe, killed>>,
             a = "eof" => Empty /\ ~writeopen, a = "fail" => p \in killed \/ ~readopen
      PROVE  StreamMove
  <2>1. Empty => Contents = <<>>
    BY ContentsType, FullAndEmpty DEF StreamInv, IInv
  <2>2. Stream!Answer(p, a)
    BY <1>1, <1>3, <2>1 DEF Stream!Answer, Stream!Give, Show, pipe
  <2> QED
    BY <1>1, <1>3, <2>2 DEF Stream!Next, StreamMove
<1>4. ASSUME NEW p \in Procs, NEW d \in Data, PutByte(p, d) PROVE StreamMove
  BY <1>4, PutByteStep DEF Stream!Next, StreamMove
<1>5. ASSUME NEW p \in Procs, GetByte(p) PROVE StreamMove
  BY <1>5, GetByteStep DEF Stream!Next, StreamMove
<1>6. ASSUME NEW p \in Procs, PipeCloseRead(p) PROVE StreamMove
  <2>1. Contents' = Contents /\ Bounded'
    BY <1>6, BytesKept DEF PipeCloseRead, StreamInv
  <2>2. Stream!CloseRead
    BY <1>6, <2>1 DEF PipeCloseRead, Stream!CloseRead, Stream!Silent, Stream!Give, Silent, Quiet
  <2> QED
    BY <2>1, <2>2 DEF Stream!Next, StreamMove
<1>7. ASSUME NEW p \in Procs, PipeCloseWrite(p) PROVE StreamMove
  <2>1. Contents' = Contents /\ Bounded'
    BY <1>7, BytesKept DEF PipeCloseWrite, StreamInv
  <2>2. Stream!CloseWrite
    BY <1>7, <2>1 DEF PipeCloseWrite, Stream!CloseWrite, Stream!Silent, Stream!Give, Silent, Quiet
  <2> QED
    BY <2>1, <2>2 DEF Stream!Next, StreamMove
<1>8. ASSUME NEW p \in Procs, Kill(p) PROVE StreamMove
  <2>1. Contents' = Contents /\ Bounded'
    BY <1>1, <1>8 DEF Kill
  <2>2. Stream!Doom(p)
    BY <1>8, <2>1 DEF Kill, pipe, Stream!Doom, Stream!Silent, Stream!Give, Silent, Quiet
  <2> QED
    BY <2>1, <2>2 DEF Stream!Next, StreamMove
<1>9. ASSUME NEW p \in Procs, WriteFails(p) \/ ReadFails(p) PROVE StreamMove
  <2>1. Show(p, "fail") /\ UNCHANGED <<pipe, killed>> /\ (p \in killed \/ ~readopen)
    BY <1>9 DEF WriteFails, ReadFails, Return
  <2> QED
    BY <1>3, <2>1
<1>10. ASSUME NEW p \in Procs, WriteReturns(p) PROVE StreamMove
  <2>1. Show(p, "ok") /\ UNCHANGED <<pipe, killed>>
    BY <1>10 DEF WriteReturns, Return
  <2> QED
    BY <1>3, <2>1
<1>11. ASSUME NEW p \in Procs, ReadReturns(p) PROVE StreamMove
  <2>1. CASE i[p] = 0 /\ n[p] > 0
    <3>1. Show(p, "eof") /\ UNCHANGED <<pipe, killed>>
      BY <1>11, <2>1 DEF ReadReturns, Return
    <3>2. Empty /\ ~writeopen
      BY <1>11, <2>1 DEF ReadReturns, StreamInv, EndRight, MustWait
    <3> QED
      BY <1>3, <3>1, <3>2
  <2>2. CASE ~(i[p] = 0 /\ n[p] > 0)
    <3>1. Show(p, "ok") /\ UNCHANGED <<pipe, killed>>
      BY <1>11, <2>2 DEF ReadReturns, Return
    <3> QED
      BY <1>3, <3>1
  <2> QED
    BY <2>1, <2>2
<1>12. ASSUME NEW p \in Procs,
              \/ \E k \in Sizes :
                   Call(p, "read", "rAcquire", k) \/ Call(p, "write", "wAcquire", k)
              \/ \E e \in {"read", "write"} : Close(p, e)
              \/ Acquire(p) \/ WriteWaits(p) \/ Sleep(p) \/ ReadWaits(p) \/ StartCopy(p)
       PROVE  StreamMove
  <2>1. UNCHANGED <<pipe, killed>> /\ Silent
    BY <1>12 DEF Call, Close, Acquire, WriteWaits, Sleep, ReadWaits, StartCopy
  <2> QED
    BY <1>2, <2>1
<1>13. CASE UNCHANGED vars
  BY <1>1, <1>13 DEF vars, pipe, Stream!vars, StreamMove
<1>14. CASE Next
  <2>1. PICK p \in Procs :
          \/ \E k \in Sizes :
               Call(p, "read", "rAcquire", k) \/ Call(p, "write", "wAcquire", k)
          \/ \E e \in {"read", "write"} : Close(p, e)
          \/ Acquire(p) \/ Run(p) \/ PipeClose(p) \/ Kill(p)
    BY <1>14 DEF Next
  <2>2. CASE Run(p)
    BY <1>4, <1>5, <1>9, <1>10, <1>11, <1>12, <2>2 DEF Run
  <2>3. CASE PipeClose(p) \/ Kill(p)
    BY <1>6, <1>7, <1>8, <2>3 DEF PipeClose
  <2> QED
    BY <1>12, <2>1, <2>2, <2>3
<1> QED
  BY <1>13, <1>14

\* For any size of the pipe, any processes and any wrap-around of its counters
\* the pipe is a bounded stream of bytes: none is lost, doubled, reordered or
\* overwritten, and "end of file" is only said when it has come.
THEOREM PipeIsStream == Spec => IsStream
<1>1. Init => StreamInv /\ Stream!Init
  <2> SUFFICES ASSUME Init PROVE StreamInv /\ Stream!Init
    OBVIOUS
  <2>1. IInv /\ TypeOK
    BY InitInv DEF IInv
  <2>2. Count = 0
    BY <2>1, UnsignedCount DEF Init
  <2>3. Bounded
    BY <2>2, SizesOrder DEF Bounded
  <2>4. EndRight
    BY DEF Init, EndRight
  <2>5. Contents = <<>>
    BY <2>1, <2>2, ContentsType
  <2> QED
    BY <2>1, <2>3, <2>4, <2>5 DEF StreamInv, Init, Stream!Init, Quiet
<1>2. IInv /\ [Next]_vars => IInv'
  BY TypeStep, LockStep, RefsStep, ReadersStep, WritersStep DEF IInv
<1>3. StreamInv /\ [Next]_vars => StreamInv' /\ [Stream!Next]_(Stream!vars)
  BY <1>2, EndStep, StreamStep DEF StreamInv, StreamMove
<1> QED
  BY <1>1, <1>3, PTL DEF Spec, IsStream, Stream!Spec
=============================================================================
