------------------------------ MODULE FifoLock ------------------------------
(***************************************************************************)
(* What a ticket lock promises its clients (p4-student/README.md, "Ticket  *)
(* Locks"): threads enter the critical section one at a time and in the    *)
(* order in which they asked for it.                                       *)
(***************************************************************************)
EXTENDS Sequences

CONSTANT Threads

VARIABLES queue,   \* the threads that asked and have not yet left, in order
          inside   \* the threads in the critical section

vars == <<queue, inside>>

Init == queue = <<>> /\ inside = {}

Request(t) ==
    /\ \A i \in DOMAIN queue : queue[i] # t
    /\ queue' = Append(queue, t)
    /\ UNCHANGED inside

Enter(t) ==
    /\ queue # <<>> /\ Head(queue) = t
    /\ inside = {}
    /\ inside' = {t}
    /\ UNCHANGED queue

Leave(t) ==
    /\ inside = {t}
    /\ inside' = {}
    /\ UNCHANGED queue

\* The place of the thread at the head is passed on after it has left.
Pass(t) ==
    /\ queue # <<>> /\ Head(queue) = t
    /\ inside = {}
    /\ queue' = Tail(queue)
    /\ UNCHANGED inside

Next == \E t \in Threads : Request(t) \/ Enter(t) \/ Leave(t) \/ Pass(t)

Spec == Init /\ [][Next]_vars
=============================================================================
