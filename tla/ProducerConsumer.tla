-------------------------- MODULE ProducerConsumer --------------------------
(***************************************************************************)
(* The producer and consumer threads of p3-student (ProducerConsumer.cpp)  *)
(* on top of the bounded buffer.  An item is known by its number p_cnt,    *)
(* its random value is left out.  The sections under p_lock and f_lock are *)
(* single steps; c_lock is held while remove() waits, and isEmpty() and    *)
(* done are read one after the other without the locks of their writers.   *)
(***************************************************************************)
EXTENDS BoundedBuffer

CONSTANTS Producers, Consumers, item_size, None

ASSUME ProducerConsumerAssumption ==
    /\ Threads = Producers \cup Consumers /\ Producers \cap Consumers = {}
    /\ None \notin Threads
    /\ item_size \in Nat \ {0} /\ Data = 1 .. item_size

VARIABLES produced, done,
          c_lock,         \* the consumer that holds c_lock
          pc,             \* where a thread is in its loop
          file            \* the item numbers of the lines of output.txt

vars == <<bufferVars, produced, done, c_lock, pc, file>>

Goto(t, label) == pc' = [pc EXCEPT ![t] = label]

Init ==
    /\ BufferInit
    /\ produced = 0
    /\ done = FALSE
    /\ c_lock = None
    /\ pc = [t \in Threads |-> "top"]
    /\ file = [producing |-> {}, consuming |-> {}]
-----------------------------------------------------------------------------
ProducerQuits(p) ==
    /\ pc[p] = "top" /\ produced = item_size
    /\ done' = TRUE
    /\ Goto(p, "quit")
    /\ UNCHANGED <<bufferVars, produced, c_lock, file>>

NumberShared == produced

\* p_cnt, read before p_lock is released.
Number == produced + 1

\* The section under p_lock, and the call of append after it.
Produce(p) ==
    /\ pc[p] = "top" /\ produced # item_size
    /\ produced' = produced + 1
    /\ CallAppend(p, Number)
    /\ Goto(p, "append")
    /\ UNCHANGED <<done, c_lock, file>>

AppendItem(p) ==
    /\ append(p)
    /\ Goto(p, "report")
    /\ UNCHANGED <<produced, done, c_lock, file>>

\* The lines under f_lock.
ReportProduced(p) ==
    /\ pc[p] = "report"
    /\ file' = [file EXCEPT !.producing = @ \cup {item[p]}]
    /\ Goto(p, "top")
    /\ UNCHANGED <<bufferVars, produced, done, c_lock>>

Producer(p) == ProducerQuits(p) \/ Produce(p) \/ AppendItem(p) \/ ReportProduced(p)
-----------------------------------------------------------------------------
LockConsumers(c) ==
    /\ pc[c] = "top" /\ c_lock = None
    /\ c_lock' = c
    /\ Goto(c, "isEmpty")
    /\ UNCHANGED <<bufferVars, produced, done, file>>

\* Without buffer_lock.
CheckEmpty(c) ==
    /\ pc[c] = "isEmpty" /\ isEmpty
    /\ Goto(c, "done")
    /\ UNCHANGED <<bufferVars, produced, done, c_lock, file>>

QuitLocked(c) ==
    /\ pc[c] = "done" /\ done
    /\ Goto(c, "quit")
    /\ UNCHANGED <<bufferVars, produced, done, c_lock, file>>

CheckDone(c) ==
    /\ pc[c] = "done" /\ done
    /\ c_lock' = None
    /\ Goto(c, "quit")
    /\ UNCHANGED <<bufferVars, produced, done, file>>

\* One of the two conditions does not hold: on to remove().
Consume(c) ==
    /\ \/ pc[c] = "isEmpty" /\ ~isEmpty
       \/ pc[c] = "done" /\ ~done
    /\ CallRemove(c)
    /\ Goto(c, "remove")
    /\ UNCHANGED <<produced, done, c_lock, file>>

RemoveItem(c) ==
    /\ remove(c)
    /\ c_lock' = None
    /\ Goto(c, "report")
    /\ UNCHANGED <<produced, done, file>>

ReportConsumed(c) ==
    /\ pc[c] = "report"
    /\ file' = [file EXCEPT !.consuming = @ \cup {item[c]}]
    /\ Goto(c, "top")
    /\ UNCHANGED <<bufferVars, produced, done, c_lock>>

Consumer(c) ==
    \/ LockConsumers(c) \/ CheckEmpty(c) \/ CheckDone(c) \/ Consume(c)
    \/ RemoveItem(c) \/ ReportConsumed(c)
-----------------------------------------------------------------------------
Waits(t) ==
    /\ AppendWaits(t) \/ RemoveWaits(t)
    /\ UNCHANGED <<produced, done, c_lock, pc, file>>

WokenForNothing(t) ==
    /\ Spurious(t)
    /\ UNCHANGED <<produced, done, c_lock, pc, file>>

Next ==
    \/ \E p \in Producers : Producer(p)
    \/ \E c \in Consumers : Consumer(c)
    \/ \E t \in Threads : Waits(t) \/ WokenForNothing(t)

\* pthreads run on as long as they can.  Spurious wakeups are never relied on.
Spec ==
    /\ Init /\ [][Next]_vars
    /\ \A p \in Producers : WF_vars(Producer(p) \/ Waits(p))
    /\ \A c \in Consumers : WF_vars(Consumer(c) \/ Waits(c))
-----------------------------------------------------------------------------
TypeOK ==
    /\ BufferTypeOK
    /\ produced \in 0 .. item_size
    /\ done \in BOOLEAN
    /\ c_lock \in Consumers \cup {None}
    /\ pc \in [Threads -> {"top", "append", "isEmpty", "done", "remove", "report", "quit"}]
    /\ file \in [producing : SUBSET Data, consuming : SUBSET Data]

\* Every number produced is in exactly one place: a producer on its way into
\* the buffer, the buffer, a consumer on its way to the file, or the file.
Accounted ==
    LET entering == {p \in Producers : pc[p] = "append"}
        leaving == {c \in Consumers : pc[c] = "report"}
        inside == {Contents[k] : k \in 1 .. buffer_cnt}
        places == {item[t] : t \in entering \cup leaving} \cup inside \cup file.consuming
    IN /\ places = 1 .. produced
       /\ produced = Cardinality(entering \cup leaving) + buffer_cnt
                     + Cardinality(file.consuming)

\* A consumer that has yet to look at the buffer, or is on its way into
\* remove(), sees to it that every item there is consumed: it does not sleep in
\* remove() beside an item, is not kept out by c_lock, and does not quit before.
\* An item that comes when every consumer has found the buffer empty may be
\* left there: AllQuit.
ItemsConsumed ==
    LET inside(d) == \E k \in 1 .. buffer_cnt : Contents[k] = d
        toLook == {c \in Consumers : pc[c] \notin {"done", "quit"}}
    IN \A d \in Data : inside(d) /\ toLook # {} ~> d \in file.consuming

\* All producer and consumer threads quit, and all items have been consumed.
AllQuit == <>(file.consuming = Data /\ \A t \in Threads : pc[t] = "quit")
=============================================================================
