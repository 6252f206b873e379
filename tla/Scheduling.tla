----------------------------- MODULE Scheduling -----------------------------
(***************************************************************************)
(* The four scheduling algorithms of p2 (scheduling.cpp), run one after    *)
(* the other on the same workload.  A step is one pass of an algorithm's   *)
(* loop, a unit of time.  Every duration is at least 1.                    *)
(***************************************************************************)
EXTENDS Integers, Sequences, FiniteSets, SequencesExt, FiniteSetsExt

CONSTANTS NJobs, MaxArrival, MaxDuration

Algorithms == <<"fifo", "sjf", "stcf", "rr">>

VARIABLES alg,          \* which algorithm runs: 0 before, 5 after all of them
          jobs,         \* the workload as it was read
          work,         \* workload: what has not arrived yet
          arrived, ongoing, idle, clock, timeend,
          complete      \* what each algorithm returned

schedVars == <<alg, jobs, work, arrived, ongoing, idle, clock, timeend, complete>>

\* ArrivalComparator and DurationComparator; what they do not tell apart comes
\* in either order.
ArrivesFirst(p, q) == p.arrival < q.arrival \/ (p.arrival = q.arrival /\ p.duration <= q.duration)
IsShorter(p, q) == p.duration < q.duration \/ (p.duration = q.duration /\ p.arrival <= q.arrival)

NewProcess(id, arrival, duration) ==
    [id |-> id, arrival |-> arrival, duration |-> duration, first_run |-> -1, completion |-> -1]

\* The workloads that can be read, in the order of the queue.
Workloads ==
    LET process(k, w) == NewProcess(k, w[k][1], w[k][2])
        inputs == [1 .. NJobs -> (0 .. MaxArrival) \X (1 .. MaxDuration)]
    IN  {w \in {[k \in 1 .. NJobs |-> process(k, i)] : i \in inputs} :
           \A k \in 1 .. NJobs - 1 : ArrivesFirst(w[k], w[k + 1])}

SchedInit ==
    /\ alg = 0 /\ jobs = <<>> /\ work = <<>>
    /\ arrived = <<>> /\ ongoing = NewProcess(0, 0, 0) /\ idle = TRUE /\ clock = 0 /\ timeend = 0
    /\ complete = [a \in DOMAIN Algorithms |-> <<>>]

\* The locals at the start of an algorithm.
Begin ==
    /\ work' = jobs'
    /\ arrived' = <<>> /\ ongoing' = NewProcess(0, 0, 0) /\ idle' = TRUE /\ clock' = 0 /\ timeend' = 0

read_workload ==
    /\ alg = 0
    /\ alg' = 1 /\ jobs' \in Workloads
    /\ Begin
    /\ UNCHANGED complete
-----------------------------------------------------------------------------
Runs(names) == alg \in DOMAIN Algorithms /\ Algorithms[alg] \in names
Finished == idle /\ work = <<>> /\ arrived = <<>>

\* How many processes at the top of the workload arrive now: rr compares with
\* ==, the others with >=.
Due ==
    LET arrives(p) == IF Runs({"rr"}) THEN clock = p.arrival ELSE clock >= p.arrival
    IN  Cardinality({k \in DOMAIN work : \A j \in 1 .. k : arrives(work[j])})
Waiting == arrived \o SubSeq(work, 1, Due)
Arrive == work' = SubSeq(work, Due + 1, Len(work))

FrontOnly(q) == {1} \cap DOMAIN q                                             \* mutant

\* The places in the queue that top() may return: arrived is a FIFO in fifo and
\* rr, and ordered by duration in sjf and stcf.
Top(q) ==
    IF Runs({"fifo", "rr"}) THEN {1} \cap DOMAIN q
    ELSE {k \in DOMAIN q : \A j \in DOMAIN q : IsShorter(q[k], q[j])}

Completes(p) == complete' = [complete EXCEPT ![alg] = Append(@, p)]

\* fifo and sjf: a process runs to its end.
RunToEnd ==
    LET free == idle \/ clock = timeend
    IN  /\ Runs({"fifo", "sjf"}) /\ ~Finished
        /\ Arrive
        /\ \/ \E k \in Top(Waiting) :
                LET p == Waiting[k]
                IN  /\ free
                    /\ arrived' = RemoveAt(Waiting, k) /\ idle' = FALSE
                    /\ timeend' = clock + p.duration
                    /\ Completes([p EXCEPT !.first_run = clock, !.completion = clock + p.duration])
           \/ /\ ~(free /\ Waiting # <<>>)
              /\ arrived' = Waiting /\ idle' = free
              /\ UNCHANGED <<timeend, complete>>
        /\ clock' = clock + 1
        /\ UNCHANGED <<alg, jobs, ongoing>>

Started(p) == IF p.first_run = -1 THEN [p EXCEPT !.first_run = clock] ELSE p

\* stcf: the process that runs gives way to a shorter one.
Preemptive ==
    LET on == IF idle THEN ongoing ELSE [ongoing EXCEPT !.duration = @ - 1]
        ends == ~idle /\ on.duration = 0
        free == idle \/ ends
        taken == {k \in Top(Waiting) : free \/ on.duration > Waiting[k].duration}
    IN  /\ Runs({"stcf"}) /\ ~Finished
        /\ IF ends THEN Completes([on EXCEPT !.completion = clock]) ELSE UNCHANGED complete
        /\ Arrive
        /\ \/ \E k \in taken :
                /\ arrived' = RemoveAt(Waiting, k) \o (IF free THEN <<>> ELSE <<on>>)
                /\ ongoing' = Started(Waiting[k]) /\ idle' = FALSE
           \/ taken = {} /\ arrived' = Waiting /\ ongoing' = on /\ idle' = free
        /\ clock' = clock + 1
        /\ UNCHANGED <<alg, jobs, timeend>>

\* rr: a process runs for a unit of time and goes to the end of the queue.
RoundRobin ==
    LET on == IF Waiting # <<>> THEN Started(Head(Waiting)) ELSE ongoing
        left == IF Waiting # <<>> THEN Tail(Waiting) ELSE Waiting
        ran == [on EXCEPT !.duration = @ - 1]
    IN  /\ Runs({"rr"}) /\ ~Finished
        /\ Arrive
        /\ clock' = clock + 1
        /\ \/ /\ ran.duration = 0
              /\ ongoing' = [ran EXCEPT !.completion = clock + 1]
              /\ Completes(ongoing')
              /\ idle' = TRUE /\ arrived' = left
           \/ /\ ran.duration # 0
              /\ ongoing' = ran /\ arrived' = Append(left, ran)
              /\ idle' = (Waiting = <<>> /\ idle)
              /\ UNCHANGED complete
        /\ UNCHANGED <<alg, jobs, timeend>>

\* A process arrives after all before it have completed; rr would then count down
\* the duration of a process that is not there, and is not run.
HasGap ==
    \E k \in 1 .. NJobs : jobs[k].arrival > MapThenSumSet(LAMBDA j : jobs[j].duration, 1 .. k - 1)

\* An algorithm returns, and the next one gets the same workload.
Return ==
    /\ Runs(Range(Algorithms)) /\ Finished
    /\ alg' = IF Runs({"stcf"}) /\ HasGap THEN alg + 2 ELSE alg + 1
    /\ UNCHANGED <<jobs, complete>>
    /\ Begin

SchedNext == read_workload \/ RunToEnd \/ Preemptive \/ RoundRobin \/ Return

\* avg_turnaround and avg_response, times the number of processes.
TotalTurnaround(list) == FoldLeft(LAMBDA t, p : t + (p.completion - p.arrival), 0, list)
TotalResponse(list) == FoldLeft(LAMBDA t, p : t + (p.first_run - p.arrival), 0, list)
-----------------------------------------------------------------------------
Duration(p) == jobs[p.id].duration
Makespan(list) == Max({p.completion : p \in Range(list)})

\* What the four algorithms returned for a workload.  Each completes every process
\* once, none before it could, and none lets the processor idle while a process
\* waits.  fifo keeps the order of arrival; sjf starts the shortest process that
\* has arrived; no other algorithm's average turnaround is below that of stcf; a
\* process under rr waits for at most one unit of each other process at a time.
SchedulesRight ==
    LET ran == IF alg = 0 THEN {} ELSE {a \in 1 .. alg - 1 : complete[a] # <<>>}
        of(a) == Range(complete[a])
    IN  alg > 4 =>
        /\ \A a \in 1 .. 3 : complete[a] # <<>>
        /\ \A a \in ran :
             /\ Len(complete[a]) = NJobs /\ {p.id : p \in of(a)} = 1 .. NJobs
             /\ \A p \in of(a) : p.arrival <= p.first_run /\ p.first_run + Duration(p) <= p.completion
             /\ Makespan(complete[a]) = Makespan(complete[1])
             /\ TotalTurnaround(complete[3]) <= TotalTurnaround(complete[a])
        /\ \A p, q \in of(1) : p.arrival < q.arrival => p.completion <= q.first_run
        /\ \A p, q \in of(2) : q.arrival <= p.first_run /\ p.first_run < q.first_run
                                 => Duration(p) <= Duration(q)
        /\ \A p \in of(4) : p.completion - p.arrival <= NJobs * Duration(p)
        /\ 4 \in ran => TotalResponse(complete[4]) <= TotalResponse(complete[1])
=============================================================================
