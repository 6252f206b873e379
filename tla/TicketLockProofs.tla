-------------------------- MODULE TicketLockProofs --------------------------
(***************************************************************************)
(* The ticket lock excludes and is first come, first served, for any       *)
(* number of threads below the modulus of the counters and whatever the    *)
(* compiler makes of the spin loop.                                        *)
(***************************************************************************)
EXTENDS TicketLock, FiniteSetTheorems, SequenceTheorems, TLAPS

\* A thread past the spin loop has the ticket being served, and so has one
\* that is about to leave the loop, however old the loaded value is.
TurnOfServed ==
    /\ \A t \in Served : currticket[t] = turn
    /\ \A t \in Threads :
         pc[t] = "compare" /\ reg[t] = currticket[t] => currticket[t] = turn

\* lk->proc names the thread between SetProc and ClearProc.
ProcOfServed == \A t \in Threads : proc = t <=> pc[t] \in {"in", "clear"}

IInv == TypeOK /\ TicketsOfQueue /\ TurnOfServed /\ ProcOfServed
-----------------------------------------------------------------------------
\* Unsigned increment stays within the counter's values.
LEMMA IncInValues == \A n \in Values : Inc(n) \in Values
  BY ModulusAssumption DEF Inc, Values

\* Zero, the value initlock_t writes, is a value of the counters.
LEMMA ZeroInValues == 0 \in Values
<1>1. Cardinality(Threads) \in Nat
  BY ThreadsAssumption, FS_CardinalityType
<1> QED
  BY <1>1, ModulusAssumption DEF Values

\* While the dial is not full, a fetch_and_add moves ticket one further ahead.
LEMMA AheadOfInc ==
    \A a, b \in Values :
        Ahead(a, b) + 1 < Modulus => Ahead(a, Inc(b)) = Ahead(a, b) + 1
  BY ModulusAssumption DEF Ahead, Inc, Values

\* Incrementing turn brings every other ticket one closer.
LEMMA AheadFromInc ==
    \A a, b \in Values : a # b => Ahead(Inc(a), b) = Ahead(a, b) - 1
  BY ModulusAssumption DEF Ahead, Inc, Values

\* Distances on the dial are natural numbers, zero only between equals.
LEMMA AheadNat ==
    \A a, b \in Values : /\ Ahead(a, b) \in Nat
                         /\ Ahead(a, b) = 0 <=> a = b
  BY ModulusAssumption DEF Ahead, Values

\* The queued threads are finitely many and fewer than the dial's positions.
LEMMA QueuedFinite == IsFiniteSet(Queued) /\ Cardinality(Queued) < Modulus
<1>1. Queued \subseteq Threads
  BY DEF Queued
<1>2. /\ IsFiniteSet(Queued)
      /\ Cardinality(Queued) \in Nat
      /\ Cardinality(Threads) \in Nat
      /\ Cardinality(Queued) <= Cardinality(Threads)
  BY <1>1, ThreadsAssumption, FS_Subset, FS_CardinalityType
<1> QED
  BY <1>2, ModulusAssumption

\* The inductive invariant makes holding_t exact.
LEMMA IInvHolding == IInv => HoldingExact
<1> SUFFICES ASSUME IInv, NEW t \in Threads, pc[t] \in {"out", "in"}
             PROVE  Holding(t) <=> pc[t] = "in"
  BY DEF HoldingExact
<1> USE DEF IInv
<1>1. CASE pc[t] = "out"
  BY <1>1 DEF ProcOfServed, Holding
<1>2. CASE pc[t] = "in"
  <2>1. t \in Queued
    BY <1>2 DEF Queued, Labels
  <2>2. Ahead(turn, currticket[t]) < Ahead(turn, ticket)
    BY <2>1 DEF TicketsOfQueue
  <2>3. ticket # turn
    BY <2>2, AheadNat DEF TypeOK
  <2> QED
    BY <1>2, <2>3 DEF ProcOfServed, Holding
<1> QED
  BY <1>1, <1>2

\* The inductive invariant implies mutual exclusion.
LEMMA IInvMutex == IInv => MutualExclusion
<1> SUFFICES ASSUME IInv, NEW s \in Served, NEW t \in Served
             PROVE  s = t
  BY DEF MutualExclusion
<1>1. s \in Queued /\ t \in Queued
  BY DEF Served, Queued, Labels
<1> QED
  BY <1>1 DEF IInv, TicketsOfQueue, TurnOfServed

\* initlock_t establishes the invariant.
LEMMA InitIInv == Init => IInv
<1> SUFFICES ASSUME Init PROVE IInv
  OBVIOUS
<1>1. TypeOK
  BY ZeroInValues DEF Init, TypeOK, Labels
<1>2. Queued = {} /\ Served = {}
  BY DEF Init, Queued, Served
<1>3. TicketsOfQueue
  BY <1>2, FS_EmptySet, ModulusAssumption DEF Init, TicketsOfQueue, Ahead
<1>4. TurnOfServed /\ ProcOfServed
  BY <1>2, ThreadsAssumption DEF Init, TurnOfServed, ProcOfServed
<1> QED
  BY <1>1, <1>3, <1>4 DEF IInv
-----------------------------------------------------------------------------
\* A step that leaves the counters and tickets alone and moves t within the
\* queued threads, or within the others, keeps the tickets in order.
LEMMA SameQueue ==
    ASSUME TicketsOfQueue, Queued' = Queued,
           UNCHANGED <<ticket, turn, currticket>>
    PROVE  TicketsOfQueue'
  BY DEF TicketsOfQueue, Ahead

\* Every step keeps the invariant.
LEMMA NextIInv == IInv /\ [Next]_vars => IInv'
<1> SUFFICES ASSUME IInv, [Next]_vars PROVE IInv'
  OBVIOUS
<1> USE DEF IInv
<1>1. CASE InitLock
  <2>1. TypeOK'
    BY <1>1, ZeroInValues DEF InitLock, TypeOK
  <2>2. Queued' = {} /\ Served' = {}
    BY <1>1 DEF InitLock, Queued, Served
  <2>3. TicketsOfQueue'
    BY <1>1, <2>2, FS_EmptySet, ModulusAssumption
    DEF InitLock, TicketsOfQueue, Ahead
  <2>4. TurnOfServed' /\ ProcOfServed'
    BY <1>1, <2>2, ThreadsAssumption DEF InitLock, TurnOfServed, ProcOfServed
  <2> QED
    BY <2>1, <2>3, <2>4
<1>2. CASE UNCHANGED vars
  BY <1>2
  DEF vars, TypeOK, TicketsOfQueue, TurnOfServed, ProcOfServed, Queued, Served
<1>3. CASE Halted
  BY <1>2, <1>3 DEF Halted
<1>4. ASSUME NEW t \in Threads, Step(t) PROVE IInv'
  <2>1. CASE Panic
    BY <2>1
    DEF Panic, TypeOK, TicketsOfQueue, TurnOfServed, ProcOfServed, Queued, Served
  <2>2. CASE AcquireCheck(t) /\ ~Panic
    <3>1. pc[t] = "out"
      BY <2>2, IInvHolding DEF AcquireCheck, HoldingExact
    <3>2. /\ pc' = [pc EXCEPT ![t] = "take"]
          /\ UNCHANGED <<ticket, turn, proc, currticket, reg, panicked>>
      BY <2>2 DEF AcquireCheck, Goto
    <3>3. TypeOK'
      BY <3>2 DEF TypeOK, Labels
    <3>4. Queued' = Queued /\ Served' = Served
      BY <3>1, <3>2 DEF Queued, Served, TypeOK, Labels
    <3>5. TurnOfServed' /\ ProcOfServed'
      BY <3>1, <3>2, <3>4 DEF TurnOfServed, ProcOfServed, TypeOK
    <3> QED
      BY <3>2, <3>3, <3>4, <3>5, SameQueue
  <2>3. CASE TakeTicket(t)
    <3>1. TypeOK'
      BY <2>3, IncInValues DEF TakeTicket, Fetched, TypeOK, Goto, Labels
    <3>2. t \notin Queued /\ Queued' = Queued \cup {t} /\ Served' = Served
      BY <2>3 DEF TakeTicket, Fetched, Queued, Served, TypeOK, Goto, Labels
    <3>3. Cardinality(Queued') = Cardinality(Queued) + 1
      BY <3>2, QueuedFinite, FS_AddElement
    <3>4. Ahead(turn, ticket) + 1 < Modulus
      BY <3>2, <3>3, QueuedFinite, FS_AddElement, ThreadsAssumption,
         ModulusAssumption, FS_Subset, FS_CardinalityType
      DEF TicketsOfQueue, Queued
    <3>5. Ahead(turn, ticket') = Ahead(turn, ticket) + 1
      BY <2>3, <3>4, AheadOfInc DEF TakeTicket, Fetched, TypeOK
    <3>6. \A s \in Queued : currticket'[s] = currticket[s] /\ currticket[s] # ticket
      <4> TAKE s \in Queued
      <4>1. s # t
        BY <3>2
      <4>2. s \in Threads /\ currticket[s] \in Values /\ ticket \in Values /\ turn \in Values
        BY DEF Queued, TypeOK
      <4>3. Ahead(turn, currticket[s]) < Ahead(turn, ticket)
        BY DEF TicketsOfQueue
      <4>4. currticket[s] # ticket
        BY <4>2, <4>3, AheadNat
      <4> QED
        BY <2>3, <4>1, <4>4, <4>2 DEF TakeTicket, Fetched, TypeOK
    <3>7. currticket'[t] = ticket
      BY <2>3 DEF TakeTicket, Fetched, TypeOK
    <3>8. TicketsOfQueue'
      <4>1. turn' = turn
        BY <2>3 DEF TakeTicket
      <4>2. Cardinality(Queued') = Ahead(turn', ticket')
        BY <3>3, <3>5, <4>1 DEF TicketsOfQueue
      <4>3. Ahead(turn, ticket) \in Nat
        BY AheadNat DEF TypeOK
      <4>4. \A s \in Queued' : Ahead(turn, currticket'[s]) < Ahead(turn, ticket')
        <5> TAKE s \in Queued'
        <5>1. CASE s = t
          BY <5>1, <3>5, <3>7, <4>3
        <5>2. CASE s \in Queued
          <6>1. Ahead(turn, currticket[s]) < Ahead(turn, ticket)
            BY <5>2 DEF TicketsOfQueue
          <6>2. Ahead(turn, currticket[s]) \in Nat
            BY <5>2, AheadNat DEF TypeOK, Queued
          <6> QED
            BY <5>2, <6>1, <6>2, <3>5, <3>6, <4>3
        <5> QED
          BY <5>1, <5>2, <3>2
      <4>5. \A r, s \in Queued' : currticket'[r] = currticket'[s] => r = s
        BY <3>2, <3>6, <3>7 DEF TicketsOfQueue
      <4>6. \A s \in Queued' : Ahead(turn', currticket'[s]) < Ahead(turn', ticket')
        BY <4>1, <4>4
      <4> QED
        BY <4>2, <4>5, <4>6 DEF TicketsOfQueue, Ahead
    <3>9. TurnOfServed' /\ ProcOfServed'
      <4>1. /\ turn' = turn /\ proc' = proc /\ reg' = reg
            /\ pc' = [pc EXCEPT ![t] = "load"] /\ pc[t] = "take"
            /\ \A s \in Threads \ {t} : currticket'[s] = currticket[s]
        BY <2>3 DEF TakeTicket, Fetched, Goto, TypeOK
      <4>2. \A s \in Served : s # t /\ s \in Threads
        BY <4>1 DEF Served
      <4> QED
        BY <4>1, <4>2, <3>2 DEF TurnOfServed, ProcOfServed, TypeOK
    <3> QED
      BY <3>1, <3>8, <3>9
  <2>4. CASE LoadTurn(t)
    <3>1. TypeOK'
      BY <2>4 DEF LoadTurn, TypeOK, Goto, Labels
    <3>2. Queued' = Queued /\ Served' = Served
      BY <2>4 DEF LoadTurn, Queued, Served, TypeOK, Goto, Labels
    <3>3. TurnOfServed' /\ ProcOfServed'
      BY <2>4, <3>2 DEF LoadTurn, TurnOfServed, ProcOfServed, TypeOK, Goto
    <3> QED
      BY <2>4, <3>1, <3>2, <3>3, SameQueue DEF LoadTurn
  <2>5. CASE CompareTurn(t)
    <3>1. TypeOK'
      BY <2>5 DEF CompareTurn, TurnCame, TypeOK, Goto, Labels
    <3>2. Queued' = Queued
      BY <2>5 DEF CompareTurn, TurnCame, Queued, TypeOK, Goto, Labels
    <3>3. TurnOfServed' /\ ProcOfServed'
      BY <2>5 DEF CompareTurn, TurnCame, TurnOfServed, ProcOfServed, Served, TypeOK, Goto
    <3> QED
      BY <2>5, <3>1, <3>2, <3>3, SameQueue DEF CompareTurn
  <2>6. CASE SetProc(t)
    <3>1. TypeOK'
      BY <2>6 DEF SetProc, TypeOK, Goto, Labels
    <3>2. Queued' = Queued /\ Served' = Served
      BY <2>6 DEF SetProc, Queued, Served, TypeOK, Goto, Labels
    <3>3. TurnOfServed'
      BY <2>6, <3>2 DEF SetProc, TurnOfServed, TypeOK, Goto
    <3>4. t \in Served
      BY <2>6 DEF SetProc, Served
    <3>5. \A s \in Threads : pc[s] \in {"in", "clear"} => s = t
      BY <3>4, IInvMutex DEF MutualExclusion, Served
    <3>6. ProcOfServed'
      BY <2>6, <3>5 DEF SetProc, ProcOfServed, TypeOK, Goto
    <3> QED
      BY <2>6, <3>1, <3>2, <3>3, <3>6, SameQueue DEF SetProc
  <2>7. CASE ReleaseCheck(t) /\ ~Panic
    <3>1. pc[t] = "in"
      BY <2>7, IInvHolding DEF ReleaseCheck, HoldingExact
    <3>2. /\ pc' = [pc EXCEPT ![t] = "clear"]
          /\ UNCHANGED <<ticket, turn, proc, currticket, reg, panicked>>
      BY <2>7 DEF ReleaseCheck, Goto
    <3>3. TypeOK'
      BY <3>2 DEF TypeOK, Labels
    <3>4. Queued' = Queued /\ Served' = Served
      BY <3>1, <3>2 DEF Queued, Served, TypeOK, Labels
    <3>5. TurnOfServed' /\ ProcOfServed'
      BY <3>1, <3>2, <3>4 DEF TurnOfServed, ProcOfServed, TypeOK
    <3> QED
      BY <3>2, <3>3, <3>4, <3>5, SameQueue
  <2>8. CASE ClearProc(t)
    <3>1. TypeOK'
      BY <2>8 DEF ClearProc, TypeOK, Goto, Labels
    <3>2. Queued' = Queued /\ Served' = Served
      BY <2>8 DEF ClearProc, Queued, Served, TypeOK, Goto, Labels
    <3>3. TurnOfServed'
      BY <2>8, <3>2 DEF ClearProc, TurnOfServed, TypeOK, Goto
    <3>4. proc = t
      BY <2>8 DEF ClearProc, ProcOfServed
    <3>5. ProcOfServed'
      BY <2>8, <3>4, ThreadsAssumption DEF ClearProc, ProcOfServed, TypeOK, Goto
    <3> QED
      BY <2>8, <3>1, <3>2, <3>3, <3>5, SameQueue DEF ClearProc
  <2>9. CASE PassTurn(t)
    <3>1. TypeOK'
      BY <2>9, IncInValues DEF PassTurn, TypeOK, Goto, Labels
    <3>2. /\ t \in Queued /\ t \in Served
          /\ Queued' = Queued \ {t} /\ Served' = Served \ {t}
      BY <2>9 DEF PassTurn, Queued, Served, TypeOK, Goto, Labels
    <3>3. currticket[t] = turn
      BY <3>2 DEF TurnOfServed
    <3>4. \A s \in Queued \ {t} : currticket[s] # turn
      BY <3>2, <3>3 DEF TicketsOfQueue
    <3>5. \A s \in Queued' : /\ currticket[s] \in Values
                             /\ Ahead(turn', currticket[s]) = Ahead(turn, currticket[s]) - 1
      BY <2>9, <3>2, <3>4, AheadFromInc DEF PassTurn, TypeOK, Queued
    <3>6. ticket # turn
      <4>1. Ahead(turn, currticket[t]) < Ahead(turn, ticket)
        BY <3>2 DEF TicketsOfQueue
      <4> QED
        BY <4>1, <3>3, AheadNat DEF TypeOK
    <3>7. Ahead(turn', ticket) = Ahead(turn, ticket) - 1
      BY <2>9, <3>6, AheadFromInc DEF PassTurn, TypeOK
    <3>8. Cardinality(Queued') = Cardinality(Queued) - 1
      BY <3>2, QueuedFinite, FS_RemoveElement
    <3>9. TicketsOfQueue'
      <4>1. ticket' = ticket /\ currticket' = currticket
        BY <2>9 DEF PassTurn
      <4>2. Cardinality(Queued') = Ahead(turn', ticket')
        BY <3>7, <3>8, <4>1 DEF TicketsOfQueue
      <4>3. \A s \in Queued' : Ahead(turn', currticket'[s]) < Ahead(turn', ticket')
        <5> TAKE s \in Queued'
        <5>1. Ahead(turn, currticket[s]) < Ahead(turn, ticket)
          BY <3>2 DEF TicketsOfQueue
        <5>2. Ahead(turn, currticket[s]) \in Nat /\ Ahead(turn, ticket) \in Nat
          BY <3>5, AheadNat DEF TypeOK
        <5> QED
          BY <5>1, <5>2, <3>5, <3>7, <4>1
      <4>4. \A r, s \in Queued' : currticket'[r] = currticket'[s] => r = s
        BY <3>2, <4>1 DEF TicketsOfQueue
      <4> QED
        BY <4>2, <4>3, <4>4 DEF TicketsOfQueue
    <3>10. TurnOfServed'
      <4>1. Served' = {}
        BY <3>2, IInvMutex DEF MutualExclusion
      <4>2. /\ \A s \in Threads : s # t => pc'[s] = pc[s]
            /\ pc'[t] = "out" /\ reg' = reg /\ currticket' = currticket
        BY <2>9 DEF PassTurn, Goto, TypeOK
      <4>3. ASSUME NEW s \in Threads, pc'[s] = "compare", reg'[s] = currticket'[s]
            PROVE  FALSE
        <5>1. s # t /\ pc[s] = "compare" /\ reg[s] = currticket[s]
          BY <4>2, <4>3
        <5>2. currticket[s] = turn
          BY <5>1 DEF TurnOfServed
        <5>3. s \in Queued
          BY <5>1 DEF Queued, Labels
        <5> QED
          BY <5>1, <5>2, <5>3, <3>4
      <4> QED
        BY <4>1, <4>3 DEF TurnOfServed
    <3>11. ProcOfServed'
      BY <2>9 DEF PassTurn, ProcOfServed, TypeOK, Goto
    <3> QED
      BY <3>1, <3>9, <3>10, <3>11
  <2> QED
    BY <1>4, <2>1, <2>2, <2>3, <2>4, <2>5, <2>6, <2>7, <2>8, <2>9 DEF Step
<1> QED
  BY <1>1, <1>2, <1>3, <1>4 DEF Next
-----------------------------------------------------------------------------
\* acquire_t and release_t keep the lock's fields and the threads' locals
\* within their types, the counters within an unsigned int.
THEOREM TypeCorrect == Spec => []TypeOK
<1>1. IInv => TypeOK
  BY DEF IInv
<1> QED
  BY <1>1, InitIInv, NextIInv, PTL DEF Spec

\* No two threads are between the spin loop of acquire_t and the increment
\* of lk->turn in release_t, for every number of threads and every modulus.
THEOREM Mutex == Spec => []MutualExclusion
  BY InitIInv, NextIInv, IInvMutex, PTL DEF Spec

\* The panics of acquire_t and release_t hit misuse only.
THEOREM HoldingIsExact == Spec => []HoldingExact
  BY InitIInv, NextIInv, IInvHolding, PTL DEF Spec

\* No ticket is lost, duplicated or left behind by the wrap of the counters.
THEOREM TicketsInOrder == Spec => []TicketsOfQueue
<1>1. IInv => TicketsOfQueue
  BY DEF IInv
<1> QED
  BY <1>1, InitIInv, NextIInv, PTL DEF Spec
-----------------------------------------------------------------------------
\* Where the queue of the FIFO lock has a thread: as far from its head as the
\* thread's ticket is from the turn.
Place(t) == Ahead(turn, currticket[t]) + 1
Places == 1 .. Ahead(turn, ticket)

PlacesRight ==
    /\ QueueOrder \in Seq(Threads) /\ Len(QueueOrder) = Ahead(turn, ticket)
    /\ \A k \in Places : QueueOrder[k] \in Queued /\ Place(QueueOrder[k]) = k
    /\ \A t \in Queued : Place(t) \in Places /\ QueueOrder[Place(t)] = t

\* On the dial nothing else is as far away.
LEMMA AheadInjective ==
    \A a, b, c \in Values : Ahead(a, b) = Ahead(a, c) => b = c
  BY ModulusAssumption DEF Ahead, Values

\* No place between turn and ticket is empty: the queued threads are as many
\* as the places and have different ones.
LEMMA PlacesFilled ==
    ASSUME IInv
    PROVE  /\ \A t \in Queued : Place(t) \in Places
           /\ \A s, t \in Queued : Place(s) = Place(t) => s = t
           /\ \A k \in Places : \E t \in Queued : Place(t) = k
<1> USE DEF IInv
<1>1. Ahead(turn, ticket) \in Nat /\ \A t \in Queued : Ahead(turn, currticket[t]) \in Nat
  BY AheadNat DEF TypeOK, Queued
<1>2. \A t \in Queued : Place(t) \in Places
  BY <1>1 DEF Place, Places, TicketsOfQueue
<1>3. \A s, t \in Queued : Place(s) = Place(t) => s = t
  <2> SUFFICES ASSUME NEW s \in Queued, NEW t \in Queued, Place(s) = Place(t)
               PROVE  s = t
    OBVIOUS
  <2>1. Ahead(turn, currticket[s]) = Ahead(turn, currticket[t])
    BY <1>1 DEF Place
  <2>2. currticket[s] \in Values /\ currticket[t] \in Values /\ turn \in Values
    BY DEF TypeOK, Queued
  <2>3. currticket[s] = currticket[t]
    BY <2>1, <2>2, AheadInjective
  <2> QED
    BY <2>3 DEF TicketsOfQueue
<1> DEFINE place == [t \in Queued |-> Place(t)]
<1>4. place \in Injection(Queued, Places)
  BY <1>2, <1>3 DEF Injection, IsInjective
<1>5. IsFiniteSet(Places) /\ Cardinality(Places) = Ahead(turn, ticket)
  BY <1>1, FS_Interval DEF Places
<1>6. Cardinality(Queued) = Cardinality(Places)
  BY <1>5 DEF TicketsOfQueue
<1>7. place \in Surjection(Queued, Places)
  <2> HIDE DEF place
  <2> QED
    BY <1>4, <1>5, <1>6, FS_Injection
<1>8. \A k \in Places : \E t \in Queued : Place(t) = k
  BY <1>7 DEF Surjection
<1> QED
  BY <1>2, <1>3, <1>8

\* So the queue read off the tickets has each queued thread once.
LEMMA PlacesHold == IInv => PlacesRight
<1> SUFFICES ASSUME IInv PROVE PlacesRight
  OBVIOUS
<1>1. Ahead(turn, ticket) \in Nat /\ \A t \in Queued : Ahead(turn, currticket[t]) \in Nat
  BY AheadNat DEF IInv, TypeOK, Queued
<1>2. ASSUME NEW k \in Places
      PROVE  QueueOrder[k] \in Queued /\ Place(QueueOrder[k]) = k
  <2>1. QueueOrder[k] = CHOOSE t \in Queued : Ahead(turn, currticket[t]) = k - 1
    BY DEF QueueOrder, Places
  <2>2. PICK t \in Queued : Place(t) = k
    BY PlacesFilled
  <2>3. Ahead(turn, currticket[t]) = k - 1
    BY <1>1, <2>2 DEF Place, Places
  <2>4. /\ QueueOrder[k] \in Queued
        /\ Ahead(turn, currticket[QueueOrder[k]]) = k - 1
    BY <2>1, <2>3
  <2> QED
    BY <1>1, <2>4 DEF Place, Places
<1>3. QueueOrder \in Seq(Threads) /\ Len(QueueOrder) = Ahead(turn, ticket)
  <2>1. \A k \in Places : QueueOrder[k] \in Threads
    BY <1>2 DEF Queued
  <2>2. QueueOrder = [k \in Places |-> QueueOrder[k]]
    BY DEF QueueOrder, Places
  <2> QED
    BY <1>1, <2>1, <2>2 DEF Places
<1>4. \A t \in Queued : Place(t) \in Places /\ QueueOrder[Place(t)] = t
  BY <1>2, PlacesFilled
<1> QED
  BY <1>2, <1>3, <1>4 DEF PlacesRight

LEMMA PlacesStep == IInv /\ [Next]_vars => PlacesRight'
  BY PlacesHold, NextIInv, PTL

\* Who is inside.
Inside == {t \in Threads : pc[t] \in {"in", "clear"}}

\* fetch_and_add puts the thread at the end of the queue.
LEMMA TakeRequests ==
    ASSUME IInv, NEW t \in Threads, TakeTicket(t)
    PROVE  Fifo!Request(t)
<1>1. PlacesRight /\ PlacesRight'
  BY PlacesHold, PlacesStep DEF Next, Step
<1>2. /\ currticket' = [currticket EXCEPT ![t] = ticket] /\ ticket' = Inc(ticket)
      /\ turn' = turn /\ pc[t] = "take" /\ pc' = [pc EXCEPT ![t] = "load"]
  BY DEF TakeTicket, Fetched, Goto
<1>3. t \notin Queued /\ Queued' = Queued \cup {t}
  BY <1>2 DEF Queued, IInv, TypeOK, Labels
<1>4. Ahead(turn, ticket) \in Nat
  BY AheadNat DEF IInv, TypeOK
<1>5. Len(QueueOrder') = Ahead(turn, ticket) + 1
  <2>1. IsFiniteSet(Queued) /\ Cardinality(Queued') = Cardinality(Queued) + 1
    BY <1>3, QueuedFinite, FS_AddElement
  <2>2. IInv'
    BY NextIInv DEF Next, Step
  <2>3. Cardinality(Queued) = Ahead(turn, ticket) /\ Cardinality(Queued') = Ahead(turn, ticket)'
    BY <2>2 DEF IInv, TicketsOfQueue
  <2>4. Len(QueueOrder') = Ahead(turn, ticket)'
    BY <1>1 DEF PlacesRight
  <2> QED
    BY <2>1, <2>3, <2>4
<1>6. ASSUME NEW k \in Places PROVE QueueOrder'[k] = QueueOrder[k]
  <2>1. QueueOrder[k] \in Queued /\ Place(QueueOrder[k]) = k
    BY <1>1 DEF PlacesRight
  <2>2. QueueOrder[k] \in Queued' /\ currticket'[QueueOrder[k]] = currticket[QueueOrder[k]]
    BY <1>2, <1>3, <2>1 DEF IInv, TypeOK, Queued
  <2>3. Ahead(turn', currticket'[QueueOrder[k]]) + 1 = k
    BY <1>2, <2>1, <2>2 DEF Place, Ahead
  <2>4. \A s \in Queued' : QueueOrder'[Ahead(turn', currticket'[s]) + 1] = s
    BY <1>1 DEF PlacesRight, Place, Ahead
  <2> QED
    BY <2>2, <2>3, <2>4
<1>7. QueueOrder'[Ahead(turn, ticket) + 1] = t
  <2>1. t \in Queued' /\ currticket'[t] = ticket
    BY <1>2, <1>3 DEF IInv, TypeOK
  <2>2. \A s \in Queued' : QueueOrder'[Ahead(turn', currticket'[s]) + 1] = s
    BY <1>1 DEF PlacesRight, Place, Ahead
  <2> QED
    BY <1>2, <2>1, <2>2
<1>8. QueueOrder' = Append(QueueOrder, t)
  <2>1. /\ QueueOrder \in Seq(Threads) /\ Len(QueueOrder) = Ahead(turn, ticket)
        /\ QueueOrder' \in Seq(Threads)
    BY <1>1 DEF PlacesRight
  <2>2. /\ Append(QueueOrder, t) \in Seq(Threads)
        /\ Len(Append(QueueOrder, t)) = Ahead(turn, ticket) + 1
        /\ \A k \in 1 .. Ahead(turn, ticket) : Append(QueueOrder, t)[k] = QueueOrder[k]
        /\ Append(QueueOrder, t)[Ahead(turn, ticket) + 1] = t
    BY <2>1, AppendProperties
  <2>3. \A k \in 1 .. Ahead(turn, ticket) + 1 : QueueOrder'[k] = Append(QueueOrder, t)[k]
    <3> TAKE k \in 1 .. Ahead(turn, ticket) + 1
    <3>1. k \in Places \/ k = Ahead(turn, ticket) + 1
      BY <1>4 DEF Places
    <3> QED
      BY <1>6, <1>7, <2>2, <3>1 DEF Places
  <2> QED
    BY <1>5, <2>1, <2>2, <2>3, SeqEqual
<1>9. \A k \in DOMAIN QueueOrder : QueueOrder[k] # t
  <2>1. DOMAIN QueueOrder = Places
    BY DEF QueueOrder, Places
  <2> QED
    BY <1>1, <1>3, <2>1 DEF PlacesRight
<1>10. Inside' = Inside
  BY <1>2 DEF Inside, IInv, TypeOK
<1> QED
  BY <1>8, <1>9, <1>10 DEF Fifo!Request, Inside

\* The thread being served is at the head.
LEMMA ServedFirst ==
    ASSUME IInv, NEW t \in Served
    PROVE  QueueOrder # <<>> /\ Head(QueueOrder) = t
<1>1. t \in Queued /\ currticket[t] = turn
  BY DEF Served, Queued, Labels, IInv, TurnOfServed
<1>2. Place(t) = 1
  BY <1>1, AheadNat DEF Place, IInv, TypeOK
<1>3. /\ 1 \in 1 .. Len(QueueOrder) /\ QueueOrder[1] = t
      /\ QueueOrder \in Seq(Threads)
  BY <1>1, <1>2, PlacesHold DEF PlacesRight, Places
<1> QED
  BY <1>3

\* Incrementing turn takes it off the queue.
LEMMA PassPasses ==
    ASSUME IInv, NEW t \in Threads, PassTurn(t)
    PROVE  Fifo!Pass(t)
<1>1. PlacesRight /\ PlacesRight' /\ IInv'
  BY PlacesHold, PlacesStep, NextIInv DEF Next, Step
<1>2. /\ currticket' = currticket /\ ticket' = ticket /\ turn' = Inc(turn)
      /\ pc[t] = "pass" /\ pc' = [pc EXCEPT ![t] = "out"]
  BY DEF PassTurn, Goto
<1>3. t \in Served /\ t \in Queued /\ Queued' = Queued \ {t}
  BY <1>2 DEF Queued, Served, IInv, TypeOK, Labels
<1>4. QueueOrder # <<>> /\ Head(QueueOrder) = t
  BY <1>3, ServedFirst
<1>5. Ahead(turn, ticket) \in Nat
  BY AheadNat DEF IInv, TypeOK
<1>6. Len(QueueOrder') = Ahead(turn, ticket) - 1
  <2>1. Cardinality(Queued') = Cardinality(Queued) - 1
    BY <1>3, QueuedFinite, FS_RemoveElement
  <2>2. Cardinality(Queued) = Ahead(turn, ticket) /\ Cardinality(Queued') = Ahead(turn, ticket)'
    BY <1>1 DEF IInv, TicketsOfQueue
  <2>3. Len(QueueOrder') = Ahead(turn, ticket)'
    BY <1>1 DEF PlacesRight
  <2> QED
    BY <2>1, <2>2, <2>3
<1>7. ASSUME NEW k \in 1 .. Ahead(turn, ticket) - 1 PROVE QueueOrder'[k] = QueueOrder[k + 1]
  <2> DEFINE s == QueueOrder[k + 1]
  <2>1. k + 1 \in Places /\ k + 1 # 1
    BY <1>5 DEF Places
  <2>2. s \in Queued /\ Place(s) = k + 1
    BY <1>1, <2>1 DEF PlacesRight
  <2>3. currticket[s] \in Values /\ turn \in Values /\ Ahead(turn, currticket[s]) = k
    BY <2>2, AheadNat DEF Place, IInv, TypeOK, Queued
  <2>4. currticket[s] # turn
    BY <2>3, AheadNat
  <2>5. Ahead(Inc(turn), currticket[s]) = k - 1
    BY <2>3, <2>4, AheadFromInc
  <2>6. s # t
    BY <1>3, <2>4 DEF IInv, TurnOfServed
  <2>7. s \in Queued' /\ Ahead(turn', currticket'[s]) + 1 = k
    BY <1>2, <1>3, <2>2, <2>5, <2>6
  <2>8. \A r \in Queued' : QueueOrder'[Ahead(turn', currticket'[r]) + 1] = r
    BY <1>1 DEF PlacesRight, Place, Ahead
  <2> QED
    BY <2>7, <2>8
<1>8. QueueOrder' = Tail(QueueOrder)
  <2>1. /\ QueueOrder \in Seq(Threads) /\ Len(QueueOrder) = Ahead(turn, ticket)
        /\ QueueOrder' \in Seq(Threads)
    BY <1>1 DEF PlacesRight
  <2>2. /\ Tail(QueueOrder) \in Seq(Threads)
        /\ Len(Tail(QueueOrder)) = Ahead(turn, ticket) - 1
        /\ \A k \in 1 .. Ahead(turn, ticket) - 1 : Tail(QueueOrder)[k] = QueueOrder[k + 1]
    BY <1>4, <2>1, HeadTailProperties
  <2> QED
    BY <1>6, <1>7, <2>1, <2>2, SeqEqual
<1>9. Inside = {} /\ Inside' = {}
  <2>1. \A s \in Threads : pc[s] \in {"in", "clear"} => s = t
    BY <1>3, IInvMutex DEF MutualExclusion, Served
  <2> QED
    BY <1>2, <2>1 DEF Inside, IInv, TypeOK
<1> QED
  BY <1>4, <1>8, <1>9 DEF Fifo!Pass, Inside

\* Every step of the ticket lock is one of the FIFO lock, or nothing to it.
LEMMA FifoStep == IInv /\ [Next]_vars => [Fifo!Next]_(Fifo!vars)
<1> SUFFICES ASSUME IInv, [Next]_vars PROVE [Fifo!Next]_(Fifo!vars)
  OBVIOUS
<1>1. ASSUME UNCHANGED <<ticket, turn, currticket>>, Queued' = Queued, Inside' = Inside
      PROVE  [Fifo!Next]_(Fifo!vars)
  <2>1. QueueOrder' = QueueOrder
    BY <1>1 DEF QueueOrder, Ahead
  <2> QED
    BY <1>1, <2>1 DEF Fifo!vars, Inside
<1>2. CASE InitLock
  <2>1. Queued = {} /\ Queued' = {} /\ Inside = {} /\ Inside' = {}
    BY <1>2 DEF InitLock, Queued, Inside
  <2>2. IInv'
    BY <1>2, NextIInv DEF Next
  <2>3. Cardinality({}) = 0
    BY FS_EmptySet
  <2>4. Ahead(turn, ticket) = 0 /\ Ahead(turn, ticket)' = 0
    BY <2>1, <2>2, <2>3 DEF IInv, TicketsOfQueue
  <2>5. PlacesRight /\ PlacesRight'
    BY <1>2, PlacesHold, PlacesStep DEF Next
  <2>6. QueueOrder = <<>> /\ QueueOrder' = <<>>
    BY <2>4, <2>5 DEF PlacesRight
  <2> QED
    BY <2>1, <2>6 DEF Fifo!vars, Inside
<1>3. CASE UNCHANGED vars \/ Halted
  BY <1>1, <1>3 DEF Halted, vars, Queued, Inside
<1>4. ASSUME NEW t \in Threads, Step(t) PROVE [Fifo!Next]_(Fifo!vars)
  <2>1. CASE Panic
    BY <1>1, <2>1 DEF Panic, Queued, Inside
  <2>2. CASE AcquireCheck(t) /\ ~Panic
    <3>1. pc[t] = "out" /\ pc' = [pc EXCEPT ![t] = "take"]
      BY <2>2, IInvHolding DEF AcquireCheck, HoldingExact, Goto
    <3>2. Queued' = Queued /\ Inside' = Inside
      BY <3>1 DEF Queued, Inside, IInv, TypeOK, Labels
    <3> QED
      BY <1>1, <2>2, <3>2 DEF AcquireCheck
  <2>3. CASE TakeTicket(t)
    BY <2>3, TakeRequests DEF Fifo!Next
  <2>4. CASE LoadTurn(t) \/ CompareTurn(t)
    <3>1. Queued' = Queued /\ Inside' = Inside
      BY <2>4 DEF LoadTurn, CompareTurn, Goto, Queued, Inside, IInv, TypeOK, Labels
    <3> QED
      BY <1>1, <2>4, <3>1 DEF LoadTurn, CompareTurn
  <2>5. CASE SetProc(t)
    <3>1. t \in Served
      BY <2>5 DEF SetProc, Served
    <3>2. \A s \in Threads : pc[s] \in {"in", "clear"} => s = t
      BY <3>1, IInvMutex DEF MutualExclusion, Served
    <3>3. Inside = {} /\ Inside' = {t} /\ Queued' = Queued
      BY <2>5, <3>2 DEF SetProc, Goto, Inside, Queued, IInv, TypeOK, Labels
    <3>4. QueueOrder' = QueueOrder
      BY <2>5, <3>3 DEF SetProc, QueueOrder, Ahead
    <3>5. Fifo!Enter(t)
      BY <3>1, <3>3, <3>4, ServedFirst DEF Fifo!Enter, Inside
    <3> QED
      BY <3>5 DEF Fifo!Next
  <2>6. CASE ReleaseCheck(t) /\ ~Panic
    <3>1. pc[t] = "in" /\ pc' = [pc EXCEPT ![t] = "clear"]
      BY <2>6, IInvHolding DEF ReleaseCheck, HoldingExact, Goto
    <3>2. Queued' = Queued /\ Inside' = Inside
      BY <3>1 DEF Queued, Inside, IInv, TypeOK, Labels
    <3> QED
      BY <1>1, <2>6, <3>2 DEF ReleaseCheck
  <2>7. CASE ClearProc(t)
    <3>1. t \in Served
      BY <2>7 DEF ClearProc, Served
    <3>2. \A s \in Threads : pc[s] \in {"in", "clear"} => s = t
      BY <3>1, IInvMutex DEF MutualExclusion, Served
    <3>3. Inside = {t} /\ Inside' = {} /\ Queued' = Queued
      BY <2>7, <3>2 DEF ClearProc, Goto, Inside, Queued, IInv, TypeOK, Labels
    <3>4. QueueOrder' = QueueOrder
      BY <2>7, <3>3 DEF ClearProc, QueueOrder, Ahead
    <3>5. Fifo!Leave(t)
      BY <3>3, <3>4 DEF Fifo!Leave, Inside
    <3> QED
      BY <3>5 DEF Fifo!Next
  <2>8. CASE PassTurn(t)
    BY <2>8, PassPasses DEF Fifo!Next
  <2> QED
    BY <1>4, <2>1, <2>2, <2>3, <2>4, <2>5, <2>6, <2>7, <2>8 DEF Step
<1> QED
  BY <1>2, <1>3, <1>4 DEF Next

\* The ticket lock is a FIFO lock for every number of threads, also when its
\* counters wrap: threads enter one at a time, in the order of fetch_and_add.
THEOREM TicketsAreFifo == Spec => FifoOrder
<1>1. Init => Fifo!Init
  <2> SUFFICES ASSUME Init PROVE Fifo!Init
    OBVIOUS
  <2>1. PlacesRight
    BY InitIInv, PlacesHold
  <2>2. Ahead(turn, ticket) = 0
    BY ModulusAssumption DEF Init, Ahead
  <2>3. QueueOrder = <<>>
    BY <2>1, <2>2 DEF PlacesRight
  <2>4. Inside = {}
    BY DEF Init, Inside
  <2> QED
    BY <2>3, <2>4 DEF Fifo!Init, Inside
<1> QED
  BY <1>1, InitIInv, NextIInv, FifoStep, PTL DEF Spec, FifoOrder, Fifo!Spec
=============================================================================
