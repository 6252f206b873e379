----------------------------- MODULE TicketLock -----------------------------
(***************************************************************************)
(* The ticket lock of xv6-public: initlock_t, acquire_t, release_t and     *)
(* holding_t of proc.c, called as system calls by the threads of one       *)
(* process.  Interrupts stay enabled in these calls, so the threads        *)
(* interleave between any two accesses to the lock's fields.               *)
(*                                                                         *)
(* The field turn is read in the spin loop while the holder writes it, and *)
(* it is not volatile: whether the loop loads it again is up to the        *)
(* compiler.  Rereads is the set of choices the compiler has; the build in *)
(* the repository (kernel.asm, acquire_t) loads it once.                   *)
(***************************************************************************)
EXTENDS Integers, FiniteSets

CONSTANTS Threads,   \* the threads that share the lock
          NoProc,    \* the null struct proc pointer
          Modulus,   \* 2^32 in the code: ticket and turn are unsigned ints
          Rereads    \* the choices {TRUE, FALSE} open to the spin loop

ASSUME ThreadsAssumption == IsFiniteSet(Threads) /\ NoProc \notin Threads
ASSUME ModulusAssumption == Modulus \in Nat /\ Cardinality(Threads) < Modulus
ASSUME RereadsAssumption == Rereads \subseteq BOOLEAN

VARIABLES ticket,      \* lk->ticket
          turn,        \* lk->turn
          proc,        \* lk->proc
          pc,          \* where each thread is
          currticket,  \* the local of acquire_t
          reg,         \* the register that holds the loaded lk->turn
          panicked     \* panic() has stopped the machine

vars == <<ticket, turn, proc, pc, currticket, reg, panicked>>

Values == 0 .. Modulus - 1

\* Unsigned increment.
Inc(n) == IF n = Modulus - 1 THEN 0 ELSE n + 1

\* "out" and "in": in user space, acquire_t not yet or already returned.
\* "take" .. "own": in acquire_t.  "clear", "pass": in release_t.
Labels == {"out", "take", "load", "compare", "own", "in", "clear", "pass"}

Init ==
    /\ ticket = 0
    /\ turn = 0
    /\ proc = NoProc
    /\ pc = [t \in Threads |-> "out"]
    /\ currticket = [t \in Threads |-> 0]
    /\ reg = [t \in Threads |-> 0]
    /\ panicked = FALSE

\* holding_t.  Its three reads are one step: only t makes lk->proc = t true
\* or false, and while it is true neither other field comes to equal the other.
Holding(t) == proc = t /\ ticket # turn

Goto(t, label) == pc' = [pc EXCEPT ![t] = label]

\* panic(): cli, and every other cpu stops at its next cprintf or spin.
Panic ==
    /\ panicked' = TRUE
    /\ UNCHANGED <<ticket, turn, proc, pc, currticket, reg>>

\* initlock_t, as locktest.c calls it: before the threads that use the lock
\* are cloned or after they are joined.
InitLock ==
    /\ ~panicked
    /\ \A t \in Threads : pc[t] = "out"
    /\ ticket' = 0
    /\ turn' = 0
    /\ proc' = NoProc
    /\ UNCHANGED <<pc, currticket, reg, panicked>>

\* acquire_t, lines 658-661: a thread may call it whether or not it holds
\* the lock.
AcquireCheck(t) ==
    /\ ~panicked
    /\ pc[t] \in {"out", "in"}
    /\ IF Holding(t)
       THEN Panic
       ELSE /\ Goto(t, "take")
            /\ UNCHANGED <<ticket, turn, proc, currticket, reg, panicked>>

\* fetch_and_add(&lk->ticket, 1) returns the value before the addition.
Fetched == ticket

TakeTicket(t) ==
    /\ ~panicked
    /\ pc[t] = "take"
    /\ currticket' = [currticket EXCEPT ![t] = Fetched]
    /\ ticket' = Inc(ticket)
    /\ Goto(t, "load")
    /\ UNCHANGED <<turn, proc, reg, panicked>>

LoadTurn(t) ==
    /\ ~panicked
    /\ pc[t] = "load"
    /\ reg' = [reg EXCEPT ![t] = turn]
    /\ Goto(t, "compare")
    /\ UNCHANGED <<ticket, turn, proc, currticket, panicked>>

TurnNotBelow(t) == reg[t] >= currticket[t]

\* The test of the while loop, on the value that was loaded.
TurnCame(t) == reg[t] = currticket[t]

CompareTurn(t) ==
    /\ ~panicked
    /\ pc[t] = "compare"
    /\ \/ TurnCame(t) /\ Goto(t, "own")
       \/ /\ ~TurnCame(t)
          /\ \E again \in Rereads : Goto(t, IF again THEN "load" ELSE "compare")
    /\ UNCHANGED <<ticket, turn, proc, currticket, reg, panicked>>

\* lk->proc = myproc(), and the return to user space.
SetProc(t) ==
    /\ ~panicked
    /\ pc[t] = "own"
    /\ proc' = t
    /\ Goto(t, "in")
    /\ UNCHANGED <<ticket, turn, currticket, reg, panicked>>

\* release_t, lines 669-672.
ReleaseCheck(t) ==
    /\ ~panicked
    /\ pc[t] \in {"out", "in"}
    /\ IF Holding(t)
       THEN /\ Goto(t, "clear")
            /\ UNCHANGED <<ticket, turn, proc, currticket, reg, panicked>>
       ELSE Panic

ClearProc(t) ==
    /\ ~panicked
    /\ pc[t] = "clear"
    /\ proc' = NoProc
    /\ Goto(t, "pass")
    /\ UNCHANGED <<ticket, turn, currticket, reg, panicked>>

PassTurnForgotten(t) ==
    /\ ~panicked
    /\ pc[t] = "pass"
    /\ Goto(t, "out")
    /\ UNCHANGED <<ticket, turn, proc, currticket, reg, panicked>>

\* ++lk->turn, not atomic with the line before it.
PassTurn(t) ==
    /\ ~panicked
    /\ pc[t] = "pass"
    /\ turn' = Inc(turn)
    /\ Goto(t, "out")
    /\ UNCHANGED <<ticket, proc, currticket, reg, panicked>>

\* The machine stays in panic()'s endless loop.
Halted == panicked /\ UNCHANGED vars

Step(t) ==
    \/ AcquireCheck(t) \/ TakeTicket(t) \/ LoadTurn(t) \/ CompareTurn(t)
    \/ SetProc(t) \/ ReleaseCheck(t) \/ ClearProc(t) \/ PassTurn(t)

Next == InitLock \/ Halted \/ \E t \in Threads : Step(t)

Spec == Init /\ [][Next]_vars

\* A thread inside a lock call keeps running (the timer interrupt preempts
\* every other one, trap.c lines 103-107), and a thread that holds the lock
\* goes on to release it, as child_func of locktest.c does.
FairSpec ==
    /\ Spec
    /\ \A t \in Threads :
         /\ WF_vars(TakeTicket(t) \/ LoadTurn(t) \/ CompareTurn(t) \/ SetProc(t))
         /\ WF_vars(pc[t] = "in" /\ ReleaseCheck(t))
         /\ WF_vars(ClearProc(t) \/ PassTurn(t))
-----------------------------------------------------------------------------
TypeOK ==
    /\ ticket \in Values
    /\ turn \in Values
    /\ proc \in Threads \cup {NoProc}
    /\ pc \in [Threads -> Labels]
    /\ currticket \in [Threads -> Values]
    /\ reg \in [Threads -> Values]
    /\ panicked \in BOOLEAN

\* Threads that hold a ticket not yet passed on.
Queued == {t \in Threads : pc[t] \in Labels \ {"out", "take"}}

\* Threads that have seen their turn come up.
Served == {t \in Threads : pc[t] \in {"own", "in", "clear", "pass"}}

\* How far b is ahead of a on the dial of an unsigned counter.
Ahead(a, b) == IF b >= a THEN b - a ELSE b - a + Modulus

\* At most one thread at a time is past the spin loop of acquire_t and has
\* not yet incremented lk->turn in release_t, also when the counters wrap.
MutualExclusion == \A s, t \in Served : s = t

\* For a thread in user space holding_t answers exactly whether its last call
\* was an acquire_t, so that the panics of acquire_t and release_t stop the
\* machine on a misuse and never on a correct caller racing with others.
HoldingExact ==
    \A t \in Threads : pc[t] \in {"out", "in"} => (Holding(t) <=> pc[t] = "in")

\* The tickets between lk->turn and lk->ticket are those of the queued threads,
\* one each: none is lost, given twice, or left behind.
TicketsOfQueue ==
    /\ Cardinality(Queued) = Ahead(turn, ticket)
    /\ \A t \in Queued : Ahead(turn, currticket[t]) < Ahead(turn, ticket)
    /\ \A s, t \in Queued : currticket[s] = currticket[t] => s = t

\* A thread that has taken a ticket gets the lock.
AcquireReturns ==
    \A t \in Threads : pc[t] = "load" ~> (pc[t] = "in" \/ panicked)

\* The lock implements the FIFO lock: the queue is read off the tickets.
QueueOrder ==
    [i \in 1 .. Ahead(turn, ticket) |->
        CHOOSE t \in Queued : Ahead(turn, currticket[t]) = i - 1]

Fifo == INSTANCE FifoLock
          WITH queue <- QueueOrder,
               inside <- {t \in Threads : pc[t] \in {"in", "clear"}}

FifoOrder == Fifo!Spec
=============================================================================
