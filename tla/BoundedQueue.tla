---------------------------- MODULE BoundedQueue ----------------------------
(***************************************************************************)
(* What the bounded buffer promises its threads: items leave it one by one *)
(* in the order in which they came, and at most Capacity are inside.       *)
(***************************************************************************)
EXTENDS Naturals, Sequences

CONSTANTS Threads, Data, Capacity

VARIABLES queue,    \* the items inside
          item      \* the item each thread has in its hands

vars == <<queue, item>>

Init == queue = <<>> /\ item \in [Threads -> Data]

Take(t, d) == item' = [item EXCEPT ![t] = d] /\ UNCHANGED queue

Put(t) ==
    /\ Len(queue) < Capacity
    /\ queue' = Append(queue, item[t])
    /\ UNCHANGED item

Get(t) ==
    /\ queue # <<>>
    /\ item' = [item EXCEPT ![t] = Head(queue)]
    /\ queue' = Tail(queue)

Next == \E t \in Threads : Put(t) \/ Get(t) \/ \E d \in Data : Take(t, d)

Spec == Init /\ [][Next]_vars
=============================================================================
