--------------------------- MODULE BoundedBuffer ---------------------------
(***************************************************************************)
(* The bounded buffer of p3-student (BoundedBuffer.cpp) and the threads    *)
(* that call it.  A critical section under buffer_lock, from the lock or   *)
(* the end of a wait to the unlock or the next wait, is one step.          *)
(***************************************************************************)
EXTENDS Integers, Sequences, FiniteSets

CONSTANTS Threads,
          Data,           \* data items
          buffer_size     \* N of the constructor

ASSUME BufferAssumption == IsFiniteSet(Threads) /\ buffer_size \in Nat \ {0}

VARIABLES buffer, buffer_cnt, buffer_first, buffer_last,
          at,             \* where a thread is: in which call, waiting or not
          item            \* the argument of append, the result of remove

fields == <<buffer, buffer_cnt, buffer_first, buffer_last>>
bufferVars == <<fields, at, item>>

BufferInit ==
    /\ buffer \in [0 .. buffer_size - 1 -> Data]
    /\ buffer_cnt = 0
    /\ buffer_first = 0
    /\ buffer_last = 0
    /\ at = [t \in Threads |-> "out"]
    /\ \E junk \in Data : item = [t \in Threads |-> junk]

isEmpty == buffer_cnt = 0

isFullLate == buffer_cnt > buffer_size

\* The condition of append's loop.
isFull == buffer_cnt = buffer_size

\* The index after k in the circular buffer.
Advance(k) == (k + 1) % buffer_size

At(label) == {t \in Threads : at[t] = label}

SignalNobody(waiting, awake, t) == at' = [at EXCEPT ![t] = "out"]

\* pthread_cond_signal as t leaves the call: one of the waiting threads, if
\* there is any, returns to its loop.
Signal(waiting, awake, t) ==
    IF At(waiting) = {}
    THEN at' = [at EXCEPT ![t] = "out"]
    ELSE \E u \in At(waiting) : at' = [at EXCEPT ![t] = "out", ![u] = awake]
-----------------------------------------------------------------------------
CallAppend(t, d) ==
    /\ at[t] = "out"
    /\ at' = [at EXCEPT ![t] = "append"]
    /\ item' = [item EXCEPT ![t] = d]
    /\ UNCHANGED fields

AppendWaits(t) ==
    /\ at[t] = "append" /\ isFull
    /\ at' = [at EXCEPT ![t] = "appendWait"]
    /\ UNCHANGED <<fields, item>>

append(t) ==
    /\ at[t] = "append" /\ ~isFull
    /\ buffer' = [buffer EXCEPT ![buffer_last] = item[t]]
    /\ buffer_last' = Advance(buffer_last)
    /\ buffer_cnt' = buffer_cnt + 1
    /\ Signal("removeWait", "remove", t)
    /\ UNCHANGED <<buffer_first, item>>

CallRemove(t) ==
    /\ at[t] = "out"
    /\ at' = [at EXCEPT ![t] = "remove"]
    /\ UNCHANGED <<fields, item>>

RemoveWaits(t) ==
    /\ at[t] = "remove" /\ isEmpty
    /\ at' = [at EXCEPT ![t] = "removeWait"]
    /\ UNCHANGED <<fields, item>>

remove(t) ==
    /\ at[t] = "remove" /\ ~isEmpty
    /\ item' = [item EXCEPT ![t] = buffer[buffer_first]]
    /\ buffer_first' = Advance(buffer_first)
    /\ buffer_cnt' = buffer_cnt - 1
    /\ Signal("appendWait", "append", t)
    /\ UNCHANGED <<buffer, buffer_last>>

\* POSIX lets pthread_cond_wait return without a signal.
Spurious(t) ==
    /\ \/ at[t] = "appendWait" /\ at' = [at EXCEPT ![t] = "append"]
       \/ at[t] = "removeWait" /\ at' = [at EXCEPT ![t] = "remove"]
    /\ UNCHANGED <<fields, item>>

BufferNext ==
    \E t \in Threads :
        \/ \E d \in Data : CallAppend(t, d)
        \/ append(t) \/ AppendWaits(t)
        \/ CallRemove(t) \/ remove(t) \/ RemoveWaits(t)
        \/ Spurious(t)

BufferSpec == BufferInit /\ [][BufferNext]_bufferVars
-----------------------------------------------------------------------------
BufferTypeOK ==
    /\ buffer \in [0 .. buffer_size - 1 -> Data]
    /\ buffer_cnt \in 0 .. buffer_size
    /\ buffer_first \in 0 .. buffer_size - 1 /\ buffer_last \in 0 .. buffer_size - 1
    /\ at \in [Threads -> {"out", "append", "appendWait", "remove", "removeWait"}]
    /\ item \in [Threads -> Data]

\* One signal per item is enough: as long as a thread waits in append, every
\* free place has a thread of its own that is awake and on its way to it, and
\* as long as one waits in remove, every item has.
NoSignalMissed ==
    /\ At("appendWait") # {} => buffer_size - buffer_cnt <= Cardinality(At("append"))
    /\ At("removeWait") # {} => buffer_cnt <= Cardinality(At("remove"))

\* The items between buffer_first and buffer_last.
Contents ==
    [k \in 1 .. buffer_cnt |-> buffer[(buffer_first + k - 1) % buffer_size]]

Queue == INSTANCE BoundedQueue WITH queue <- Contents, Capacity <- buffer_size

\* append and remove are those of a bounded FIFO queue.
IsQueue == Queue!Spec
=============================================================================
