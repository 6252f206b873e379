----------------------------- MODULE LogProofs -----------------------------
(***************************************************************************)
(* Three results about the log, for any number of processes, any size of   *)
(* the log and crashes anywhere: a commit runs alone; the header always    *)
(* fits and log_write and end_op never panic; and the log implements       *)
(* AtomicDisk, so what operations that ran together wrote reaches the disk *)
(* at once or not at all.                                                  *)
(***************************************************************************)
EXTENDS Log, FiniteSetTheorems, SequenceTheorems, TLAPS

Running == {p \in Procs : pc[p] \in {"op", "append"}}

\* log.outstanding counts the operations that run.
Counted ==
    /\ pc \in [Procs -> Labels]
    /\ committing \in BOOLEAN
    /\ outstanding = Cardinality(Running)

\* log.committing is set exactly while a process commits, and that process is
\* the only one in the log.
Alone ==
    /\ committing <=> \E p \in Procs : pc[p] \in Committers
    /\ \A p \in Procs : pc[p] \in Committers =>
         \A q \in Procs \ {p} : pc[q] \in {"out", "asleep"}

IInv == Counted /\ Alone
-----------------------------------------------------------------------------
\* The running operations are finitely many.
LEMMA RunningFinite == IsFiniteSet(Running) /\ Cardinality(Running) \in Nat
<1>1. Running \subseteq Procs
  BY DEF Running
<1> QED
  BY <1>1, LogAssumption, FS_Subset, FS_CardinalityType

\* A step that changes neither who runs nor the count keeps the count.
LEMMA CountKept ==
    ASSUME Counted, pc' \in [Procs -> Labels], committing' \in BOOLEAN,
           outstanding' = outstanding, Running' = Running
    PROVE  Counted'
  BY DEF Counted

\* When no operation runs nobody is in Running, and the other way round.
LEMMA NobodyRuns == Cardinality(Running) = 0 <=> Running = {}
  BY RunningFinite, FS_EmptySet

\* The last operation to end is the only one.
LEMMA LastOne ==
    ASSUME NEW p \in Running, Cardinality(Running) - 1 = 0
    PROVE  Running = {p}
<1>1. Cardinality(Running \ {p}) = 0 /\ IsFiniteSet(Running \ {p})
  BY RunningFinite, FS_RemoveElement
<1>2. Running \ {p} = {}
  BY <1>1, FS_EmptySet
<1> QED
  BY <1>2

\* begin_op counts one more operation, and only while nobody commits.
LEMMA BeginOpStep ==
    ASSUME IInv, NEW p \in Procs, BeginOp(p)
    PROVE  IInv'
<1> USE DEF IInv, Counted, BeginOp, Goto
<1>1. p \notin Running /\ Running' = Running \cup {p}
  BY DEF Running
<1>2. Cardinality(Running \cup {p}) = Cardinality(Running) + 1
  BY <1>1, RunningFinite, FS_AddElement
<1>3. Counted'
  BY <1>1, <1>2 DEF Labels
<1>4. Alone'
  BY DEF Alone, Committers
<1> QED
  BY <1>3, <1>4

\* end_op finds nobody committing, so it does not panic, and begins to commit
\* only when it ends the last operation.
LEMMA EndOpStep ==
    ASSUME IInv, NEW p \in Procs, EndOp(p)
    PROVE  IInv' /\ UNCHANGED panicked
<1> USE DEF IInv, Counted, EndOp
<1>1. p \in Running
  BY DEF Running
<1>2. ~committing
  BY DEF Alone, Committers
<1>3. /\ outstanding' = outstanding - 1
      /\ committing' = CommitsNow
      /\ committing' \in BOOLEAN
      /\ UNCHANGED panicked
  BY <1>2 DEF CommitsNow
<1>4. Cardinality(Running \ {p}) = Cardinality(Running) - 1
  BY <1>1, RunningFinite, FS_RemoveElement
<1>5. CASE CommitsNow
  <2>1. \/ Goto(p, "done")
        \/ Goto(p, "copy")
    BY <1>2, <1>5
  <2>2. Running = {p}
    BY <1>1, <1>5, LastOne DEF CommitsNow
  <2>3. Running' = Running \ {p} /\ pc' \in [Procs -> Labels]
    BY <2>1 DEF Running, Goto, Labels
  <2>4. \A q \in Procs \ {p} : pc[q] \in {"out", "asleep"}
    BY <1>2, <2>2 DEF Alone, Running, Labels, Committers
  <2>5. Alone'
    BY <1>3, <1>5, <2>1, <2>4 DEF Alone, Goto, Committers
  <2> QED
    BY <1>3, <1>4, <1>5, <2>3, <2>5
<1>6. CASE ~CommitsNow
  <2>1. WakeAllAnd(p, "out")
    BY <1>2, <1>6
  <2>2. Running' = Running \ {p} /\ pc' \in [Procs -> Labels]
    BY <2>1 DEF Running, WakeAllAnd, Labels
  <2>3. Alone'
    BY <1>2, <1>3, <1>6, <2>1 DEF Alone, WakeAllAnd, Committers
  <2> QED
    BY <1>3, <1>4, <1>6, <2>2, <2>3
<1> QED
  BY <1>5, <1>6

\* The steps of the process that commits keep it the only one.
LEMMA CommitStep ==
    ASSUME IInv, NEW p \in Procs,
           \/ CopyToLog(p) \/ MarkCommitted(p) \/ Install(p) \/ EraseLog(p) \/ EndCommit(p)
    PROVE  IInv'
<1> USE DEF IInv
<1>1. pc[p] \in Committers /\ outstanding' = outstanding
  BY DEF CopyToLog, MarkCommitted, Install, EraseLog, EndCommit, Committers, memory
<1>2. CASE EndCommit(p)
  <2>1. Running' = Running /\ pc' \in [Procs -> Labels]
    BY <1>2 DEF EndCommit, Running, WakeAllAnd, Counted, Labels
  <2>2. Counted'
    BY <1>1, <1>2, <2>1, CountKept DEF EndCommit
  <2>3. Alone'
    BY <1>1, <1>2 DEF EndCommit, WakeAllAnd, Alone, Committers, Counted
  <2> QED
    BY <2>2, <2>3
<1>3. CASE CopyToLog(p) \/ MarkCommitted(p) \/ Install(p) \/ EraseLog(p)
  <2>1. PICK label \in Committers : pc' = [pc EXCEPT ![p] = label]
    BY <1>3 DEF CopyToLog, MarkCommitted, Install, EraseLog, Goto, Committers, Counted
  <2>2. committing' = committing
    BY <1>3 DEF CopyToLog, MarkCommitted, Install, EraseLog, memory
  <2>3. Running' = Running /\ pc' \in [Procs -> Labels]
    BY <1>1, <2>1 DEF Running, Counted, Labels, Committers
  <2>4. Counted'
    BY <1>1, <2>2, <2>3, CountKept DEF Counted
  <2>5. Alone'
    BY <1>1, <2>1, <2>2 DEF Alone, Counted, Committers
  <2> QED
    BY <2>4, <2>5
<1> QED
  BY <1>2, <1>3

\* log_write and a wait in begin_op leave the operations that run running.
LEMMA WriteStep ==
    ASSUME IInv, NEW p \in Procs,
           \/ BeginSleeps(p) \/ LogAppend(p)
           \/ \E b \in Blocks, d \in Data : LogWrite(p, b, d)
    PROVE  IInv'
<1> USE DEF IInv, BeginSleeps, LogAppend, LogWrite, Goto, memory
<1>1. outstanding' = outstanding /\ committing' = committing
  OBVIOUS
<1>2. Running' = Running /\ pc' \in [Procs -> Labels]
  BY DEF Running, Counted, Labels
<1>3. Counted'
  BY <1>1, <1>2, CountKept DEF Counted
<1>4. Alone'
  BY ZenonT(60), <1>1 DEF Alone, Counted, Committers
<1> QED
  BY <1>3, <1>4

\* After a crash nothing runs.
LEMMA CrashStep == ASSUME Crash PROVE IInv'
<1>1. Running' = {}
  BY DEF Crash, Running
<1>2. Cardinality(Running') = 0
  BY <1>1, FS_EmptySet
<1> QED
  BY <1>2 DEF Crash, IInv, Counted, Alone, Labels, Committers

\* Recovery and the buffer cache leave the processes alone.
LEMMA OtherStep ==
    ASSUME IInv, Recover \/ (\E b \in Blocks : Evict(b)) \/ UNCHANGED vars
    PROVE  IInv'
<1>1. UNCHANGED <<pc, outstanding, committing>>
  BY DEF Recover, RecoverRead, RecoverInstall, RecoverErase, Evict, vars, memory, locals
<1> QED
  BY <1>1 DEF IInv, Counted, Alone, Running

LEMMA NextIInv == IInv /\ [Next]_vars => IInv'
  BY BeginOpStep, EndOpStep, CommitStep, WriteStep, CrashStep, OtherStep DEF Next, Step

\* The inductive invariant holds in every reachable state.
THEOREM Inductive == Spec => []IInv
<1>1. Init => IInv
  <2> SUFFICES ASSUME Init PROVE IInv
    OBVIOUS
  <2>1. Running = {}
    BY DEF Init, Running
  <2>2. Cardinality(Running) = 0
    BY <2>1, FS_EmptySet
  <2> QED
    BY <2>2 DEF Init, IInv, Counted, Alone, Labels, Committers
<1>2. IInv /\ [Next]_vars => IInv'
  BY NextIInv
<1> QED
  BY <1>1, <1>2, PTL DEF Spec

\* A commit never writes the updates of an operation that still runs.
THEOREM CommitsAlone == Spec => []CommitAlone
<1>1. IInv => CommitAlone
  <2> SUFFICES ASSUME IInv, NEW p \in Procs, pc[p] \in Committers
               PROVE  /\ committing /\ outstanding = 0
                      /\ \A q \in Procs \ {p} : pc[q] \in {"out", "asleep"}
    BY DEF CommitAlone
  <2>1. Running = {}
    BY DEF IInv, Alone, Running, Committers
  <2> QED
    BY <2>1, NobodyRuns DEF IInv, Alone, Counted
<1> QED
  BY <1>1, Inductive, PTL
-----------------------------------------------------------------------------
Unique(s) == \A i, j \in 1 .. Len(s) : s[i] = s[j] => i = j

\* The most blocks the log can have: those of an operation that runs alone, or
\* of several, of which at least two ran when the last of them began.
Bound == IF OpBlocks <= LogSize - 2 * (MaxOpBlocks - OpBlocks)
         THEN LogSize - 2 * (MaxOpBlocks - OpBlocks) ELSE OpBlocks

\* The blocks the running operations may still add to the log.
Tokens == {t \in Running \X (1 .. OpBlocks) :
             t[2] + Cardinality(written[t[1]] \cap Logged) <= OpBlocks}

FitTypes ==
    /\ lh \in Seq(Blocks) /\ head \in Seq(Blocks)
    /\ buf \in [Procs -> SUBSET Blocks] /\ written \in [Procs -> SUBSET Blocks]
    /\ boot \in {"up", "read", "install", "erase"}

\* A process in log_write has one buffer, which its operation has written.
BuffersHeld ==
    \A p \in Procs :
      /\ pc[p] = "append" => \E b \in written[p] : buf[p] = {b}
      /\ pc[p] # "append" => buf[p] = {}
      /\ pc[p] \in {"op", "append"} => Cardinality(written[p]) <= OpBlocks

\* A block is in the log once, and a log without operation or commit is empty.
LogSound ==
    /\ Unique(lh) /\ Unique(head)
    /\ boot = "up" /\ outstanding = 0 /\ ~committing => lh = <<>>
    /\ \A p \in Procs : pc[p] = "done" => lh = <<>>
    /\ boot # "up" => \A p \in Procs : pc[p] = "out"

Reserved == Len(lh) + Cardinality(Tokens) <= Bound /\ Len(head) <= Bound

FitInv == IInv /\ FitTypes /\ BuffersHeld /\ LogSound /\ Reserved /\ panicked = FALSE
-----------------------------------------------------------------------------
CrashTypes ==
    /\ home \in [Blocks -> Data] /\ cache \in [Blocks -> Data]
    /\ logged \in [1 .. LogSize -> Data]
    /\ dirty \subseteq Blocks /\ tail \in Nat \ {0}

\* What the header on disk says.
HeaderRight ==
    /\ boot = "up" /\ (\A p \in Procs : pc[p] \notin {"install", "erase"}) => head = <<>>
    /\ (\E p \in Procs : pc[p] \in {"install", "erase"}) => head = lh
    /\ boot \in {"install", "erase"} => head = lh

\* Where write_log and install_trans are.
TailRight ==
    /\ (\E p \in Procs : pc[p] \in {"copy", "install"}) \/ boot = "install" => tail \in 1 .. Len(lh)
    /\ (\E p \in Procs : pc[p] = "mark") => tail = 1 /\ lh # <<>>
    /\ boot = "read" => tail = 1

\* What has been copied to the log and from there to the home locations.
CopiedRight ==
    /\ (\E p \in Procs : pc[p] = "copy") =>
         \A i \in 1 .. Len(lh) : i < tail => logged[i] = cache[lh[i]]
    /\ (\E p \in Procs : pc[p] \in {"mark", "install", "erase"}) =>
         \A i \in 1 .. Len(lh) : logged[i] = cache[lh[i]]
    /\ (\E p \in Procs : pc[p] = "install") \/ boot = "install" =>
         \A i \in 1 .. Len(lh) : i < tail => home[lh[i]] = logged[i]
    /\ (\E p \in Procs : pc[p] = "erase") \/ boot = "erase" =>
         \A i \in 1 .. Len(lh) : home[lh[i]] = logged[i]

\* A buffer that differs from its home block is in the log and dirty, or still
\* held by the operation that changed it.
CacheRight ==
    \A b \in Blocks : cache[b] # home[b] =>
        /\ boot = "up"
        /\ b \in Held \/ (b \in dirty /\ b \in Logged)

CrashInv == FitInv /\ CrashTypes /\ HeaderRight /\ TailRight /\ CopiedRight /\ CacheRight
-----------------------------------------------------------------------------
\* What RoomAssumption makes of the sizes.
LEMMA SizesRight ==
    /\ Bound \in Nat /\ LogSize \in Nat /\ DiskLogSize \in Nat /\ OpBlocks \in Nat
    /\ MaxOpBlocks \in Nat
    /\ OpBlocks <= Bound /\ LogSize - 2 * (MaxOpBlocks - OpBlocks) <= Bound
    /\ Bound < LogSize /\ Bound <= DiskLogSize - 2
  BY LogAssumption, RoomAssumption DEF Bound

LEMMA TokensFinite ==
    \A T \in SUBSET (Procs \X (1 .. OpBlocks)) : IsFiniteSet(T) /\ Cardinality(T) \in Nat
<1>1. OpBlocks \in Int /\ 1 \in Int
  BY SizesRight
<1>2. IsFiniteSet(1 .. OpBlocks)
  BY <1>1, FS_Interval
<1>3. IsFiniteSet(Procs \X (1 .. OpBlocks))
  BY <1>2, LogAssumption, FS_Product
<1> QED
  BY <1>3, FS_Subset, FS_CardinalityType

LEMMA TokensType == Tokens \in SUBSET (Procs \X (1 .. OpBlocks))
  BY DEF Tokens, Running

\* Sets of blocks are finite.
LEMMA BlocksFinite ==
    \A S \in SUBSET Blocks : IsFiniteSet(S) /\ Cardinality(S) \in Nat
  BY LogAssumption, FS_Subset, FS_CardinalityType

LEMMA LoggedType == FitTypes => Logged \in SUBSET Blocks /\ Len(lh) \in Nat
  BY DEF FitTypes, Logged

\* The log has room whenever an operation runs.
LEMMA RoomLeft ==
    FitInv => /\ Len(lh) \in Nat /\ Len(lh) <= Bound
              /\ Cardinality(Tokens) \in Nat
              /\ Len(lh) < LogSize /\ Len(lh) < DiskLogSize - 1
<1> SUFFICES ASSUME FitInv
             PROVE  /\ Len(lh) \in Nat /\ Len(lh) <= Bound
                    /\ Cardinality(Tokens) \in Nat
                    /\ Len(lh) < LogSize /\ Len(lh) < DiskLogSize - 1
  OBVIOUS
<1>1. Len(lh) \in Nat /\ Cardinality(Tokens) \in Nat
  BY TokensFinite, TokensType, LoggedType DEF FitInv
<1>2. Len(lh) + Cardinality(Tokens) <= Bound
  BY DEF FitInv, Reserved
<1> QED
  BY <1>1, <1>2, SizesRight

\* A step that gives the operations no more blocks and the log no block keeps
\* the bound.
LEMMA ReservedKept ==
    ASSUME FitInv, lh' = lh, head' = head, Tokens' \subseteq Tokens
    PROVE  Reserved'
<1>1. /\ IsFiniteSet(Tokens) /\ Cardinality(Tokens) \in Nat /\ Tokens' \in SUBSET Tokens
  BY TokensFinite, TokensType
<1>2. Cardinality(Tokens') <= Cardinality(Tokens) /\ IsFiniteSet(Tokens')
  BY <1>1, FS_Subset
<1>3. Cardinality(Tokens') \in Nat
  BY <1>2, FS_CardinalityType
<1>4. Len(lh) + Cardinality(Tokens) <= Bound /\ Len(head) <= Bound /\ Len(lh) \in Nat
  BY RoomLeft DEF FitInv, Reserved
<1>5. Len(lh) + Cardinality(Tokens') <= Bound
  BY <1>1, <1>2, <1>3, <1>4, SizesRight
<1> QED
  BY <1>4, <1>5 DEF Reserved

\* The tokens of a state, one by one.
LEMMA TokensOf ==
    /\ \A q, i : <<q, i>> \in Tokens <=>
         /\ q \in Procs /\ pc[q] \in {"op", "append"} /\ i \in 1 .. OpBlocks
         /\ i + Cardinality(written[q] \cap Logged) <= OpBlocks
    /\ \A t \in Tokens : t = <<t[1], t[2]>>
<1>1. \A t : t \in Tokens <=>
        /\ t \in Running \X (1 .. OpBlocks)
        /\ t[2] + Cardinality(written[t[1]] \cap Logged) <= OpBlocks
  BY DEF Tokens
<1>2. \A q, i : <<q, i>> \in Running \X (1 .. OpBlocks) <=>
        q \in Procs /\ pc[q] \in {"op", "append"} /\ i \in 1 .. OpBlocks
  BY DEF Running
<1>3. \A q, i : <<q, i>>[1] = q /\ <<q, i>>[2] = i
  OBVIOUS
<1>4. ASSUME NEW q, NEW i
      PROVE  <<q, i>> \in Tokens <=>
               /\ q \in Procs /\ pc[q] \in {"op", "append"} /\ i \in 1 .. OpBlocks
               /\ i + Cardinality(written[q] \cap Logged) <= OpBlocks
  BY <1>1, <1>2, <1>3
<1>5. \A t \in Running \X (1 .. OpBlocks) : t = <<t[1], t[2]>>
  OBVIOUS
<1> QED
  BY <1>1, <1>4, <1>5

LEMMA TokensOfNext ==
    /\ \A q, i : <<q, i>> \in Tokens' <=>
         /\ q \in Procs /\ pc'[q] \in {"op", "append"} /\ i \in 1 .. OpBlocks
         /\ i + Cardinality(written'[q] \cap Logged') <= OpBlocks
    /\ \A t \in Tokens' : t = <<t[1], t[2]>>
<1>1. \A t : t \in Tokens' <=>
        /\ t \in Running' \X (1 .. OpBlocks)
        /\ t[2] + Cardinality(written'[t[1]] \cap Logged') <= OpBlocks
  BY DEF Tokens
<1>2. \A q, i : <<q, i>> \in Running' \X (1 .. OpBlocks) <=>
        q \in Procs /\ pc'[q] \in {"op", "append"} /\ i \in 1 .. OpBlocks
  BY DEF Running
<1>3. \A q, i : <<q, i>>[1] = q /\ <<q, i>>[2] = i
  OBVIOUS
<1>4. ASSUME NEW q, NEW i
      PROVE  <<q, i>> \in Tokens' <=>
               /\ q \in Procs /\ pc'[q] \in {"op", "append"} /\ i \in 1 .. OpBlocks
               /\ i + Cardinality(written'[q] \cap Logged') <= OpBlocks
  BY <1>1, <1>2, <1>3
<1>5. \A t \in Running' \X (1 .. OpBlocks) : t = <<t[1], t[2]>>
  OBVIOUS
<1> QED
  BY <1>1, <1>4, <1>5

\* Whoever stops to run or has written more, of which more is in the log, has
\* no more tokens.
LEMMA FewerTokens ==
    ASSUME FitTypes, FitTypes', Logged \subseteq Logged',
           \A q \in Procs : pc'[q] \in {"op", "append"} =>
               pc[q] \in {"op", "append"} /\ written[q] \subseteq written'[q]
    PROVE  Tokens' \subseteq Tokens
<1> SUFFICES ASSUME NEW q, NEW i, <<q, i>> \in Tokens' PROVE <<q, i>> \in Tokens
  BY TokensOfNext
<1>1. /\ q \in Procs /\ pc'[q] \in {"op", "append"} /\ i \in 1 .. OpBlocks
      /\ i + Cardinality(written'[q] \cap Logged') <= OpBlocks
  BY TokensOfNext
<1>2. pc[q] \in {"op", "append"} /\ written[q] \subseteq written'[q]
  BY <1>1
<1> DEFINE old == written[q] \cap Logged
           new == written'[q] \cap Logged'
<1>3. new \in SUBSET Blocks /\ old \in SUBSET new
  BY <1>1, <1>2 DEF FitTypes
<1> HIDE DEF old, new
<1>4. /\ IsFiniteSet(new) /\ Cardinality(new) \in Nat /\ Cardinality(old) <= Cardinality(new)
      /\ Cardinality(old) \in Nat
  BY <1>3, BlocksFinite, FS_Subset, FS_CardinalityType
<1>5. i + Cardinality(old) <= OpBlocks
  BY <1>1, <1>4, SizesRight DEF new
<1> QED
  BY <1>1, <1>2, <1>5, TokensOf DEF old

\* Everything FitInv says beside IInv.
Fits == FitTypes /\ BuffersHeld /\ LogSound /\ Reserved /\ panicked = FALSE

\* Two operations at least leave over what they do not write.
LEMMA Leftover ==
    ASSUME NEW n \in Nat, NEW m \in Nat, NEW op \in Nat, NEW k \in Nat, NEW size \in Nat, k >= 2,
           op < m, n + k * m <= size
    PROVE  n + k * op <= size - 2 * (m - op)
<1>1. k * m = k * op + k * (m - op)
  OBVIOUS
<1>2. k * (m - op) >= 2 * (m - op)
  <2>1. k * (m - op) = 2 * (m - op) + (k - 2) * (m - op)
    OBVIOUS
  <2>2. (k - 2) * (m - op) >= 0
    <3>1. \A a, b \in Nat : a * b >= 0
      OBVIOUS
    <3>2. k - 2 \in Nat /\ m - op \in Nat
      OBVIOUS
    <3> QED
      BY <3>1, <3>2
  <2>3. 2 * (m - op) \in Int /\ k * (m - op) \in Int /\ (k - 2) * (m - op) \in Int
    OBVIOUS
  <2> QED
    BY <2>1, <2>2, <2>3
<1>3. k * m \in Int /\ k * op \in Int /\ k * (m - op) \in Int
  OBVIOUS
<1> QED
  BY <1>1, <1>2, <1>3

\* begin_op: an operation alone finds an empty log, and one beside others the
\* blocks it reserves.
LEMMA BeginFits ==
    ASSUME FitInv, NEW p \in Procs, BeginOp(p)
    PROVE  Fits'
<1>1. /\ pc[p] = "out" /\ pc' = [pc EXCEPT ![p] = "op"] /\ lh' = lh /\ head' = head
      /\ written' = [written EXCEPT ![p] = {}] /\ buf' = buf /\ boot' = boot
      /\ boot = "up" /\ panicked' = panicked /\ outstanding' = outstanding + 1
      /\ ~committing /\ Room /\ outstanding = Cardinality(Running) /\ committing' = committing
      /\ pc \in [Procs -> Labels]
  BY DEF BeginOp, Goto, Up, disk, FitInv, IInv, Counted
<1>2. FitTypes'
  BY <1>1 DEF FitInv, FitTypes
<1>3. BuffersHeld'
  BY <1>1, FS_EmptySet, SizesRight DEF FitInv, FitTypes, BuffersHeld
<1>4. outstanding \in Nat
  BY <1>1, RunningFinite
<1>5. LogSound'
  BY <1>1, <1>4 DEF FitInv, LogSound, Unique
<1>6. Reserved'
  <2> DEFINE n == Cardinality(Running')
  <2>1. Running' = Running \cup {p} /\ p \notin Running
    BY <1>1 DEF Running
  <2>2. n = outstanding + 1 /\ IsFiniteSet(Running') /\ n \in Nat
    BY <1>1, <2>1, RunningFinite, FS_AddElement
  <2>3. Tokens' \in SUBSET (Running' \X (1 .. OpBlocks))
    BY DEF Tokens
  <2>4. IsFiniteSet(1 .. OpBlocks) /\ Cardinality(1 .. OpBlocks) = OpBlocks
    <3>1. OpBlocks \in Int /\ 1 \in Int /\ OpBlocks >= 1
      BY LogAssumption
    <3> QED
      BY <3>1, FS_Interval
  <2>5. /\ IsFiniteSet(Running' \X (1 .. OpBlocks))
        /\ Cardinality(Running' \X (1 .. OpBlocks)) = n * OpBlocks
    BY <2>2, <2>4, FS_Product
  <2>6. Cardinality(Tokens') <= n * OpBlocks /\ IsFiniteSet(Tokens')
    BY <2>3, <2>5, FS_Subset
  <2>7. Cardinality(Tokens') \in Nat
    BY <2>6, FS_CardinalityType
  <2>8. Len(lh) \in Nat /\ Len(lh) + n * MaxOpBlocks <= LogSize
    BY <1>1, <2>2, RoomLeft DEF Room
  <2> HIDE DEF n
  <2>9. n * OpBlocks \in Int
    BY <2>2, SizesRight
  <2>10. CASE outstanding = 0
    <3>1. Len(lh) = 0
      BY <1>1, <2>10 DEF FitInv, LogSound
    <3>2. n * OpBlocks = OpBlocks
      BY <2>2, <2>10, SizesRight
    <3> QED
      BY <1>1, <2>6, <2>7, <3>1, <3>2, SizesRight DEF FitInv, Reserved
  <2>11. CASE outstanding # 0
    <3>1. n >= 2
      BY <1>4, <2>2, <2>11
    <3>2. Len(lh) + n * OpBlocks <= LogSize - 2 * (MaxOpBlocks - OpBlocks)
      BY <2>2, <2>8, <3>1, SizesRight, RoomAssumption, Leftover
    <3>3. Len(lh) + Cardinality(Tokens') <= Bound
      BY <2>6, <2>7, <2>8, <2>9, <3>2, SizesRight
    <3> QED
      BY <1>1, <3>3 DEF FitInv, Reserved
  <2> QED
    BY <2>10, <2>11
<1> QED
  BY <1>1, <1>2, <1>3, <1>5, <1>6 DEF Fits, FitInv

\* log_write's checks: they pass.
LEMMA WriteFits ==
    ASSUME FitInv, NEW p \in Procs, NEW b \in Blocks, NEW d \in Data, LogWrite(p, b, d)
    PROVE  Fits' /\ pc' = [pc EXCEPT ![p] = "append"] /\ outstanding > 0
<1>1. /\ pc[p] = "op" /\ lh' = lh /\ head' = head /\ boot' = boot
      /\ written' = [written EXCEPT ![p] = written[p] \cup {b}] /\ buf' = [buf EXCEPT ![p] = {b}]
      /\ Cardinality(written[p] \cup {b}) <= OpBlocks
      /\ pc \in [Procs -> Labels] /\ outstanding' = outstanding /\ committing' = committing
      /\ boot = "up"
  BY DEF LogWrite, disk, FitInv, IInv, Counted, Up
<1>2. outstanding > 0 /\ outstanding \in Nat
  <2>1. p \in Running
    BY <1>1 DEF Running
  <2> QED
    BY <2>1, RunningFinite, NobodyRuns DEF FitInv, IInv, Counted
<1>3. pc' = [pc EXCEPT ![p] = "append"] /\ panicked' = panicked
  <2>1. ~(Len(lh) >= LogSize \/ Len(lh) >= DiskLogSize - 1 \/ outstanding < 1)
    BY <1>2, RoomLeft, SizesRight
  <2> QED
    BY <2>1 DEF LogWrite, Goto
<1>4. FitTypes'
  BY <1>1 DEF FitInv, FitTypes
<1>5. BuffersHeld'
  <2>1. written \in [Procs -> SUBSET Blocks] /\ buf \in [Procs -> SUBSET Blocks]
    BY DEF FitInv, FitTypes
  <2>2. \A q \in Procs : q # p => pc'[q] = pc[q] /\ buf'[q] = buf[q] /\ written'[q] = written[q]
    BY <1>1, <1>3
  <2>3. pc'[p] = "append" /\ buf'[p] = {b} /\ written'[p] = written[p] \cup {b}
    BY <1>1, <1>3, <2>1
  <2> QED
    BY <1>1, <2>2, <2>3 DEF FitInv, BuffersHeld
<1>6. LogSound'
  BY <1>1, <1>3 DEF FitInv, LogSound, Unique
<1>7. Reserved'
  <2>1. Logged' = Logged
    BY <1>1 DEF Logged
  <2>2. \A q \in Procs : pc'[q] \in {"op", "append"} =>
          pc[q] \in {"op", "append"} /\ written[q] \subseteq written'[q]
    BY <1>1, <1>3 DEF FitInv, FitTypes
  <2>3. Tokens' \subseteq Tokens
    BY <1>4, <2>1, <2>2, FewerTokens DEF FitInv
  <2> QED
    BY <1>1, <2>3, ReservedKept
<1> QED
  BY <1>2, <1>3, <1>4, <1>5, <1>6, <1>7 DEF Fits, FitInv

\* The block log_write adds takes one of its operation's tokens.
LEMMA AppendFits ==
    ASSUME FitInv, NEW p \in Procs, LogAppend(p)
    PROVE  /\ Fits'
           /\ \E b \in Blocks : /\ buf[p] = {b} /\ dirty' = dirty \cup {b}
                                /\ Logged' = Logged \cup {b} /\ lh' = Appended(b)
<1>1. /\ pc[p] = "append" /\ pc' = [pc EXCEPT ![p] = "op"] /\ head' = head /\ boot' = boot
      /\ written' = written /\ buf' = [buf EXCEPT ![p] = {}] /\ panicked' = panicked
      /\ pc \in [Procs -> Labels] /\ outstanding' = outstanding /\ committing' = committing
      /\ boot = "up"
  BY DEF LogAppend, Goto, disk, FitInv, IInv, Counted, Up
<1>2. PICK b \in written[p] : buf[p] = {b}
  BY <1>1 DEF FitInv, BuffersHeld
<1>3. lh' = Appended(b) /\ dirty' = dirty \cup {b}
  BY <1>2 DEF LogAppend, Pinned
<1>4. b \in Blocks /\ lh \in Seq(Blocks) /\ Len(lh) \in Nat
  BY <1>2, RoomLeft DEF FitInv, FitTypes
<1>5. /\ lh' \in Seq(Blocks) /\ Logged' = Logged \cup {b} /\ Unique(lh')
      /\ b \notin Logged => Len(lh') = Len(lh) + 1
      /\ b \in Logged => lh' = lh
  <2>1. CASE b \in Logged
    BY <1>3, <1>4, <2>1 DEF Appended, Logged, FitInv, LogSound
  <2>2. CASE b \notin Logged
    <3>1. lh' = Append(lh, b)
      BY <1>3, <2>2 DEF Appended
    <3>2. /\ lh' \in Seq(Blocks) /\ Len(lh') = Len(lh) + 1 /\ lh'[Len(lh) + 1] = b
          /\ \A i \in 1 .. Len(lh) : lh'[i] = lh[i]
      BY <1>4, <3>1, AppendProperties
    <3>3. Logged' = {lh'[i] : i \in 1 .. Len(lh) + 1}
      BY <3>2 DEF Logged
    <3>4. Logged' = Logged \cup {b}
      <4>1. \A x \in Logged' : x \in Logged \cup {b}
        <5> SUFFICES ASSUME NEW i \in 1 .. Len(lh) + 1 PROVE lh'[i] \in Logged \cup {b}
          BY <3>3
        <5>1. i \in 1 .. Len(lh) \/ i = Len(lh) + 1
          BY <1>4
        <5> QED
          BY <3>2, <5>1 DEF Logged
      <4>2. \A i \in 1 .. Len(lh) : lh[i] \in Logged'
        <5> TAKE i \in 1 .. Len(lh)
        <5>1. i \in 1 .. Len(lh) + 1
          BY <1>4
        <5> QED
          BY <3>2, <3>3, <5>1
      <4>3. b \in Logged'
        <5>1. Len(lh) + 1 \in 1 .. Len(lh) + 1
          BY <1>4
        <5> QED
          BY <3>2, <3>3, <5>1
      <4>4. \A x \in Logged : x \in Logged'
        BY <4>2 DEF Logged
      <4> QED
        BY <4>1, <4>3, <4>4
    <3>5. Unique(lh')
      <4> SUFFICES ASSUME NEW i \in 1 .. Len(lh) + 1, NEW j \in 1 .. Len(lh) + 1, lh'[i] = lh'[j]
                   PROVE  i = j
        BY <3>2 DEF Unique
      <4>1. \A k \in 1 .. Len(lh) : lh[k] # b
        BY <2>2 DEF Logged
      <4>2. \A k, m \in 1 .. Len(lh) : lh[k] = lh[m] => k = m
        BY DEF FitInv, LogSound, Unique
      <4>3. /\ i \in 1 .. Len(lh) \/ i = Len(lh) + 1
            /\ j \in 1 .. Len(lh) \/ j = Len(lh) + 1
        BY <1>4
      <4> QED
        BY <3>2, <4>1, <4>2, <4>3
    <3> QED
      BY <2>2, <3>2, <3>4, <3>5
  <2> QED
    BY <2>1, <2>2
<1>6. FitTypes'
  BY <1>1, <1>5 DEF FitInv, FitTypes
<1>7. BuffersHeld'
  <2>1. buf \in [Procs -> SUBSET Blocks]
    BY DEF FitInv, FitTypes
  <2>2. \A q \in Procs : q # p => pc'[q] = pc[q] /\ buf'[q] = buf[q]
    BY <1>1, <2>1
  <2>3. pc'[p] = "op" /\ buf'[p] = {}
    BY <1>1, <2>1
  <2> QED
    BY <1>1, <2>2, <2>3 DEF FitInv, BuffersHeld
<1>8. p \in Running
  BY <1>1 DEF Running
<1>9. outstanding # 0
  BY <1>8, RunningFinite, NobodyRuns DEF FitInv, IInv, Counted
<1>10. LogSound'
  <2>1. \A q \in Procs : pc'[q] # "done"
    BY <1>1 DEF FitInv, IInv, Alone, Committers
  <2> QED
    BY <1>1, <1>5, <1>9, <2>1 DEF FitInv, LogSound
<1>11. Tokens' \subseteq Tokens
  <2>1. \A q \in Procs : pc'[q] \in {"op", "append"} =>
          pc[q] \in {"op", "append"} /\ written[q] \subseteq written'[q]
    BY <1>1
  <2>2. Logged \subseteq Logged'
    BY <1>5
  <2> QED
    BY <1>6, <2>1, <2>2, FewerTokens DEF FitInv
<1>12. Reserved'
  <2>1. CASE b \in Logged
    BY <1>1, <1>5, <1>11, <2>1, ReservedKept
  <2>2. CASE b \notin Logged
    <3> DEFINE old == written[p] \cap Logged
               new == written[p] \cap Logged'
               token == <<p, OpBlocks - Cardinality(old)>>
    <3>1. new = old \cup {b} /\ b \notin old /\ new \in SUBSET written[p] /\ old \in SUBSET Blocks
          /\ written[p] \in SUBSET Blocks
      BY <1>2, <1>5, <2>2 DEF FitInv, FitTypes
    <3> HIDE DEF old, new
    <3>2. IsFiniteSet(old) /\ Cardinality(old) \in Nat /\ IsFiniteSet(written[p])
      BY <3>1, BlocksFinite
    <3>3. Cardinality(new) = Cardinality(old) + 1
      BY <3>1, <3>2, FS_AddElement
    <3>4. Cardinality(new) <= Cardinality(written[p])
      BY <3>1, <3>2, FS_Subset
    <3>5. Cardinality(written[p]) <= OpBlocks /\ Cardinality(written[p]) \in Nat
      BY <1>1, <3>1, BlocksFinite DEF FitInv, BuffersHeld
    <3>6. /\ OpBlocks - Cardinality(old) \in 1 .. OpBlocks
          /\ (OpBlocks - Cardinality(old)) + Cardinality(old) <= OpBlocks
          /\ ~((OpBlocks - Cardinality(old)) + Cardinality(new) <= OpBlocks)
      BY <3>2, <3>3, <3>4, <3>5, SizesRight
    <3>7. token \in Tokens
      BY <1>1, <3>6, TokensOf DEF old
    <3>8. token \notin Tokens'
      BY <1>1, <3>6, TokensOfNext DEF new
    <3> HIDE DEF token
    <3>9. /\ IsFiniteSet(Tokens) /\ Cardinality(Tokens) \in Nat
          /\ Tokens' \in SUBSET (Tokens \ {token})
      BY <1>11, <3>8, TokensFinite, TokensType
    <3>10. /\ IsFiniteSet(Tokens \ {token})
           /\ Cardinality(Tokens \ {token}) = Cardinality(Tokens) - 1
      BY <3>7, <3>9, FS_RemoveElement
    <3>11. Cardinality(Tokens') <= Cardinality(Tokens) - 1 /\ IsFiniteSet(Tokens')
      BY <3>9, <3>10, FS_Subset
    <3>12. Cardinality(Tokens') \in Nat
      BY <3>11, FS_CardinalityType
    <3>13. Len(lh') = Len(lh) + 1
      BY <1>5, <2>2
    <3>14. Len(lh) + Cardinality(Tokens) <= Bound /\ Len(head) <= Bound
      BY DEF FitInv, Reserved
    <3>15. Len(lh') + Cardinality(Tokens') <= Bound
      BY <1>4, <3>9, <3>11, <3>12, <3>13, <3>14, SizesRight
    <3> QED
      BY <1>1, <3>14, <3>15 DEF Reserved
  <2> QED
    BY <2>1, <2>2
<1> QED
  BY <1>1, <1>2, <1>3, <1>4, <1>5, <1>6, <1>7, <1>10, <1>12 DEF Fits, FitInv

\* end_op: the last operation goes on to commit.
LEMMA EndFits ==
    ASSUME FitInv, NEW p \in Procs, EndOp(p)
    PROVE  /\ Fits' /\ outstanding > 0 /\ ~committing
           /\ \/ /\ CommitsNow /\ Running = {p}
                 /\ pc' = [pc EXCEPT ![p] = IF lh = <<>> THEN "done" ELSE "copy"]
              \/ ~CommitsNow /\ WakeAllAnd(p, "out")
<1>1. /\ pc[p] = "op" /\ lh' = lh /\ head' = head /\ boot' = boot
      /\ written' = written /\ buf' = buf /\ outstanding' = outstanding - 1
      /\ pc \in [Procs -> Labels] /\ boot = "up"
  BY DEF EndOp, disk, FitInv, IInv, Counted, Up
<1>2. ~committing
  BY <1>1 DEF FitInv, IInv, Alone, Committers
<1>3. /\ committing' = CommitsNow /\ panicked' = panicked
      /\ \/ /\ CommitsNow
            /\ pc' = [pc EXCEPT ![p] = IF lh = <<>> THEN "done" ELSE "copy"]
         \/ ~CommitsNow /\ WakeAllAnd(p, "out")
  BY <1>2 DEF EndOp, Goto
<1>4. p \in Running
  BY <1>1 DEF Running
<1>5. outstanding > 0 /\ outstanding \in Nat
  BY <1>4, RunningFinite, NobodyRuns DEF FitInv, IInv, Counted
<1>6. CommitsNow => Running = {p}
  BY <1>4, LastOne DEF CommitsNow, FitInv, IInv, Counted
<1>7. /\ \A q \in Procs : q # p => pc'[q] = pc[q] \/ (pc[q] = "asleep" /\ pc'[q] = "out")
      /\ pc'[p] \in {"done", "copy", "out"} /\ (pc'[p] = "done" => lh = <<>>)
  <2>1. CASE CommitsNow
    BY <1>1, <1>3, <2>1
  <2>2. CASE ~CommitsNow
    BY <1>1, <1>3, <2>2 DEF WakeAllAnd
  <2> QED
    BY <2>1, <2>2
<1>8. FitTypes'
  BY <1>1 DEF FitInv, FitTypes
<1>9. BuffersHeld'
  BY <1>1, <1>7 DEF FitInv, BuffersHeld
<1>10. LogSound'
  <2>1. \A q \in Procs : pc'[q] = "done" => lh = <<>>
    BY <1>7 DEF FitInv, LogSound
  <2>2. ~(outstanding' = 0 /\ ~committing')
    BY <1>1, <1>3 DEF CommitsNow
  <2> QED
    BY <1>1, <2>1, <2>2 DEF FitInv, LogSound
<1>11. Reserved'
  <2>1. Logged' = Logged
    BY <1>1 DEF Logged
  <2>2. \A q \in Procs : pc'[q] \in {"op", "append"} =>
          pc[q] \in {"op", "append"} /\ written[q] \subseteq written'[q]
    BY <1>1, <1>7
  <2>3. Tokens' \subseteq Tokens
    BY <1>8, <2>1, <2>2, FewerTokens DEF FitInv
  <2> QED
    BY <1>1, <2>3, ReservedKept
<1> QED
  BY <1>2, <1>3, <1>5, <1>6, <1>8, <1>9, <1>10, <1>11 DEF Fits, FitInv

\* The tokens are none when nobody runs.
LEMMA NoTokens ==
    ASSUME \A q \in Procs : pc'[q] \notin {"op", "append"}, lh' \in Seq(Blocks),
           Len(lh') <= Bound, Len(head') <= Bound
    PROVE  Reserved'
<1>1. Tokens' = {}
  BY DEF Tokens, Running
<1>2. Cardinality(Tokens') = 0
  BY <1>1, FS_EmptySet
<1> QED
  BY <1>2, SizesRight DEF Reserved

\* A step of the process that commits.
CommitMoves(p) ==
    \/ CopyToLog(p) \/ MarkCommitted(p) \/ Install(p) \/ EraseLog(p) \/ EndCommit(p)

LEMMA CommitFits ==
    ASSUME FitInv, NEW p \in Procs, CommitMoves(p)
    PROVE  Fits'
<1>1. /\ pc[p] \in Committers /\ pc \in [Procs -> Labels] /\ boot' = boot /\ boot = "up"
      /\ written' = written /\ buf' = buf /\ panicked' = panicked
      /\ lh' = lh \/ lh' = <<>>
      /\ head' = head \/ head' = lh \/ head' = <<>>
  BY DEF CommitMoves, CopyToLog, MarkCommitted, Install, EraseLog, EndCommit, Committers, memory,
         disk, Up, FitInv, IInv, Counted
<1>2. \A q \in Procs : q # p => pc[q] \in {"out", "asleep"}
  BY <1>1 DEF FitInv, IInv, Alone
<1>3. /\ \A q \in Procs : q # p => pc'[q] \in {"out", "asleep"}
      /\ pc'[p] \in Committers \cup {"out"}
      /\ pc'[p] = "done" => lh' = <<>>
      /\ pc'[p] = "out" => lh = <<>> /\ lh' = lh
      /\ pc'[p] # "out" => committing' = committing
  <2>1. CASE EndCommit(p)
    <3>1. pc[p] = "done" /\ lh' = lh
      BY <2>1 DEF EndCommit
    <3> QED
      BY <1>1, <1>2, <2>1, <3>1 DEF EndCommit, WakeAllAnd, FitInv, LogSound, Committers
  <2>2. CASE EraseLog(p)
    BY <1>1, <1>2, <2>2 DEF EraseLog, Goto, Committers
  <2>3. CASE CopyToLog(p) \/ MarkCommitted(p) \/ Install(p)
    <3>1. /\ \E label \in {"copy", "mark", "install", "erase"} : pc' = [pc EXCEPT ![p] = label]
          /\ committing' = committing
      BY <1>1, <2>3 DEF CopyToLog, MarkCommitted, Install, Goto, memory
    <3> QED
      BY <1>1, <1>2, <3>1 DEF Committers
  <2> QED
    BY <2>1, <2>2, <2>3 DEF CommitMoves
<1>4. committing
  BY <1>1 DEF FitInv, IInv, Alone
<1>5. FitTypes'
  <2>1. <<>> \in Seq(Blocks) /\ lh \in Seq(Blocks) /\ head \in Seq(Blocks)
    BY DEF FitInv, FitTypes
  <2>2. lh' \in Seq(Blocks) /\ head' \in Seq(Blocks)
    BY <1>1, <2>1
  <2> QED
    BY <1>1, <2>2 DEF FitInv, FitTypes
<1>6. BuffersHeld'
  BY <1>1, <1>2, <1>3 DEF FitInv, BuffersHeld, Committers
<1>7. LogSound'
  <2>1. Unique(lh') /\ Unique(head')
    BY <1>1 DEF FitInv, LogSound, Unique
  <2>2. ~committing' => lh' = <<>>
    BY <1>3, <1>4
  <2>3. \A q \in Procs : pc'[q] = "done" => lh' = <<>>
    BY <1>3
  <2> QED
    BY <1>1, <2>1, <2>2, <2>3 DEF LogSound
<1>8. Reserved'
  <2>1. \A q \in Procs : pc'[q] \notin {"op", "append"}
    BY <1>3 DEF Committers
  <2>2. Len(lh') <= Bound /\ Len(head') <= Bound
    <3>1. Len(<<>>) <= Bound /\ Len(lh) <= Bound /\ Len(head) <= Bound
      BY RoomLeft, SizesRight DEF FitInv, Reserved
    <3> QED
      BY <1>1, <3>1
  <2>3. lh' \in Seq(Blocks)
    BY <1>5 DEF FitTypes
  <2> QED
    BY <2>1, <2>2, <2>3, NoTokens
<1> QED
  BY <1>1, <1>5, <1>6, <1>7, <1>8 DEF Fits, FitInv

\* A machine that stops loses the header in memory and has the one on disk.
LEMMA CrashFits ==
    ASSUME FitInv, Crash
    PROVE  Fits'
<1>1. /\ lh' = <<>> /\ pc' = [p \in Procs |-> "out"] /\ buf' = [p \in Procs |-> {}]
      /\ written' = [p \in Procs |-> {}] /\ boot' = "read" /\ panicked' = FALSE /\ head' = head
  BY DEF Crash, disk
<1>2. FitTypes' /\ BuffersHeld'
  BY <1>1 DEF FitInv, FitTypes, BuffersHeld
<1>3. LogSound'
  BY <1>1 DEF FitInv, LogSound, Unique
<1>4. Reserved'
  BY <1>1, <1>2, NoTokens, SizesRight DEF FitInv, Reserved, FitTypes
<1> QED
  BY <1>1, <1>2, <1>3, <1>4 DEF Fits

\* Recovery reads that header, which fits too.
LEMMA RecoverFits ==
    ASSUME FitInv, Recover
    PROVE  Fits'
<1>1. /\ boot # "up" /\ pc' = pc /\ buf' = buf /\ written' = written /\ panicked' = panicked
      /\ lh' = lh \/ lh' = head \/ lh' = <<>>
      /\ head' = head \/ head' = <<>>
      /\ boot' \in {"install", "erase", "up"} /\ (boot' = "up" => lh' = <<>>)
  BY DEF Recover, RecoverRead, RecoverInstall, RecoverErase, disk
<1>2. FitTypes' /\ BuffersHeld'
  <2>1. <<>> \in Seq(Blocks) /\ lh \in Seq(Blocks) /\ head \in Seq(Blocks)
    BY DEF FitInv, FitTypes
  <2>2. lh' \in Seq(Blocks) /\ head' \in Seq(Blocks)
    BY <1>1, <2>1
  <2>3. FitTypes'
    BY <1>1, <2>2 DEF FitInv, FitTypes
  <2> QED
    BY <1>1, <2>3 DEF FitInv, BuffersHeld
<1>3. \A q \in Procs : pc'[q] = "out"
  BY <1>1 DEF FitInv, LogSound
<1>4. LogSound'
  <2>1. Unique(lh') /\ Unique(head')
    BY <1>1 DEF FitInv, LogSound, Unique
  <2> QED
    BY <1>1, <1>3, <2>1 DEF LogSound
<1>5. Reserved'
  <2>1. Len(<<>>) <= Bound /\ Len(lh) <= Bound /\ Len(head) <= Bound
    BY RoomLeft, SizesRight DEF FitInv, Reserved
  <2>2. Len(lh') <= Bound /\ Len(head') <= Bound
    BY <1>1, <2>1
  <2>3. lh' \in Seq(Blocks)
    BY <1>2 DEF FitTypes
  <2>4. \A q \in Procs : pc'[q] \notin {"op", "append"}
    BY <1>3
  <2> QED
    BY <2>2, <2>3, <2>4, NoTokens
<1> QED
  BY <1>1, <1>2, <1>4, <1>5 DEF Fits, FitInv

\* The other steps do not touch the log.
LEMMA SleepFits ==
    ASSUME FitInv,
           (\E p \in Procs : BeginSleeps(p)) \/ (\E b \in Blocks : Evict(b)) \/ UNCHANGED vars
    PROVE  Fits'
<1>1. /\ lh' = lh /\ head' = head /\ buf' = buf /\ written' = written /\ boot' = boot
      /\ panicked' = panicked /\ outstanding' = outstanding /\ committing' = committing
      /\ \A q \in Procs : pc'[q] = pc[q]
                            \/ (pc[q] = "out" /\ pc'[q] = "asleep" /\ boot = "up")
  BY DEF BeginSleeps, Evict, Goto, Up, vars, disk, memory, locals, FitInv, IInv, Counted
<1>2. FitTypes' /\ BuffersHeld'
  BY <1>1 DEF FitInv, FitTypes, BuffersHeld
<1>3. LogSound'
  BY <1>1 DEF FitInv, LogSound, Unique
<1>4. Reserved'
  <2>1. Logged' = Logged
    BY <1>1 DEF Logged
  <2>2. \A q \in Procs : pc'[q] \in {"op", "append"} =>
          pc[q] \in {"op", "append"} /\ written[q] \subseteq written'[q]
    BY <1>1
  <2>3. Tokens' \subseteq Tokens
    BY <1>2, <2>1, <2>2, FewerTokens DEF FitInv
  <2> QED
    BY <1>1, <2>3, ReservedKept
<1> QED
  BY <1>1, <1>2, <1>3, <1>4 DEF Fits, FitInv

LEMMA NextFits == FitInv /\ [Next]_vars => FitInv'
<1> SUFFICES ASSUME FitInv, [Next]_vars PROVE FitInv'
  OBVIOUS
<1>1. IInv'
  BY NextIInv DEF FitInv
<1>2. Fits'
  BY BeginFits, WriteFits, AppendFits, EndFits, CommitFits, CrashFits, RecoverFits, SleepFits
     DEF Next, Step, CommitMoves
<1> QED
  BY <1>1, <1>2 DEF FitInv, Fits

LEMMA InitFits == Init => FitInv
<1> SUFFICES ASSUME Init PROVE FitInv
  OBVIOUS
<1>1. Running = {} /\ Tokens = {}
  BY DEF Init, Running, Tokens
<1>2. Cardinality(Running) = 0 /\ Cardinality(Tokens) = 0
  BY <1>1, FS_EmptySet
<1>3. IInv
  BY <1>2 DEF Init, IInv, Counted, Alone, Labels, Committers
<1>4. FitTypes /\ BuffersHeld
  BY DEF Init, FitTypes, BuffersHeld
<1>5. LogSound /\ panicked = FALSE
  BY DEF Init, LogSound, Unique
<1>6. Reserved
  BY <1>2, SizesRight DEF Init, Reserved
<1> QED
  BY <1>3, <1>4, <1>5, <1>6 DEF FitInv

\* begin_op's reservation is enough: log.lh never counts more blocks than there
\* are on disk, and neither log_write nor end_op panics.
THEOREM LogNeverFull == Spec => []LogFits
<1>1. FitInv => LogFits
  BY RoomLeft, SizesRight DEF FitInv, LogFits
<1>2. Spec => []FitInv
  BY InitFits, NextFits, PTL DEF Spec
<1> QED
  BY <1>1, <1>2, PTL
-----------------------------------------------------------------------------
\* What a restart finds, block by block.
SurvivesRight ==
    /\ \A i \in 1 .. Len(head) : Surviving[head[i]] = logged[i]
    /\ \A b \in Blocks : (\A i \in 1 .. Len(head) : head[i] # b) => Surviving[b] = home[b]
    /\ Surviving = [b \in Blocks |-> Surviving[b]]

LEMMA SurvivesIs == FitInv => SurvivesRight
<1> SUFFICES ASSUME FitInv PROVE SurvivesRight
  OBVIOUS
<1>1. /\ head \in Seq(Blocks) /\ \A i \in 1 .. Len(head) : head[i] \in Blocks
      /\ \A i, j \in 1 .. Len(head) : head[i] = head[j] => i = j
  BY DEF FitInv, FitTypes, LogSound, Unique
<1>2. ASSUME NEW i \in 1 .. Len(head) PROVE Surviving[head[i]] = logged[i]
  <2> DEFINE c == CHOOSE j \in 1 .. Len(head) : head[j] = head[i]
  <2>1. c \in 1 .. Len(head) /\ head[c] = head[i]
    OBVIOUS
  <2>2. Surviving[head[i]] = logged[c]
    BY <1>1 DEF Surviving
  <2> HIDE DEF c
  <2> QED
    BY <1>1, <2>1, <2>2
<1>3. \A b \in Blocks : (\A i \in 1 .. Len(head) : head[i] # b) => Surviving[b] = home[b]
  BY DEF Surviving
<1>4. Surviving = [b \in Blocks |-> Surviving[b]]
  BY DEF Surviving
<1> QED
  BY <1>2, <1>3, <1>4 DEF SurvivesRight

LEMMA SurvivesNext == FitInv /\ [Next]_vars => SurvivesRight'
  BY SurvivesIs, NextFits, PTL

\* Writes to blocks that the log covers, and to log blocks that the header does
\* not count, change nothing of it.
LEMMA SurvivingKept ==
    ASSUME SurvivesRight, SurvivesRight', head' = head,
           head \in Seq(Blocks),
           \A i \in 1 .. Len(head) : logged'[i] = logged[i],
           \A b \in Blocks : (\A i \in 1 .. Len(head) : head[i] # b) => home'[b] = home[b]
    PROVE  Surviving' = Surviving
<1>1. ASSUME NEW b \in Blocks PROVE Surviving'[b] = Surviving[b]
  <2>1. CASE \E i \in 1 .. Len(head) : head[i] = b
    <3>1. PICK i \in 1 .. Len(head) : head[i] = b
      BY <2>1
    <3>2. Surviving[b] = logged[i] /\ Surviving'[b] = logged'[i]
      BY <3>1 DEF SurvivesRight
    <3> QED
      BY <3>2
  <2>2. CASE \A i \in 1 .. Len(head) : head[i] # b
    BY <2>2 DEF SurvivesRight
  <2> QED
    BY <2>1, <2>2
<1>2. Surviving = [b \in Blocks |-> Surviving[b]] /\ Surviving' = [b \in Blocks |-> Surviving'[b]]
  BY DEF SurvivesRight
<1> QED
  BY <1>1, <1>2, Zenon

CrashRight == CrashTypes /\ HeaderRight /\ TailRight /\ CopiedRight /\ CacheRight

\* A step AtomicDisk may take, or does not see.
AtomicMove == [Abstract!Next]_(Abstract!vars)

\* A step that changes neither what survives nor what running operations see.
LEMMA UnseenStep ==
    ASSUME Surviving' = Surviving, outstanding' = outstanding,
           \/ boot = "up" /\ boot' = "up" /\ cache' = cache
           \/ boot # "up" /\ boot' # "up"
    PROVE  AtomicMove
  BY DEF AtomicMove, Abstract!vars

\* As long as nobody commits, the header on disk is empty and the rest of
\* CrashInv is about the cache.
LEMMA QuietCrashRight ==
    ASSUME \A q \in Procs : pc'[q] \notin {"copy", "mark", "install", "erase"},
           boot' = "up", CrashTypes', head' = <<>>, CacheRight'
    PROVE  CrashRight'
  BY DEF CrashRight, HeaderRight, TailRight, CopiedRight

\* Outside commit() and recovery.
LEMMA WorkingState ==
    ASSUME CrashInv, boot = "up", NEW p \in Procs, pc[p] \in {"out", "op", "append"},
           ~committing
    PROVE  /\ \A q \in Procs : pc[q] \notin Committers
           /\ head = <<>>
<1>1. \A q \in Procs : pc[q] \notin Committers
  BY DEF CrashInv, FitInv, IInv, Alone
<1> QED
  BY <1>1 DEF CrashInv, HeaderRight, Committers

\* A process in an operation finds nobody committing.
LEMMA NotCommitting ==
    ASSUME FitInv, NEW p \in Procs, pc[p] \in {"op", "append"}
    PROVE  ~committing
  BY DEF FitInv, IInv, Alone, Committers

LEMMA BeginAtomic ==
    ASSUME CrashInv, [Next]_vars, NEW p \in Procs, BeginOp(p)
    PROVE  CrashRight' /\ AtomicMove
<1>1. /\ pc[p] = "out" /\ pc' = [pc EXCEPT ![p] = "op"] /\ pc \in [Procs -> Labels]
      /\ lh' = lh /\ head' = head /\ buf' = buf /\ boot' = boot /\ boot = "up"
      /\ outstanding' = outstanding + 1 /\ ~committing
      /\ UNCHANGED <<home, logged, cache, dirty, tail>>
  BY DEF BeginOp, Goto, Up, disk, CrashInv, FitInv, IInv, Counted
<1>2. (\A q \in Procs : pc[q] \notin Committers) /\ head = <<>>
  BY <1>1, WorkingState
<1>3. CrashTypes' /\ CacheRight'
  BY <1>1 DEF CrashInv, CrashTypes, CacheRight, Held, Logged
<1>4. \A q \in Procs : pc'[q] \notin {"copy", "mark", "install", "erase"}
  BY <1>1, <1>2 DEF Committers
<1>5. Surviving' = Surviving
  BY <1>1 DEF Surviving
<1>6. Abstract!Begin
  BY <1>1, <1>5 DEF Abstract!Begin
<1> QED
  BY <1>1, <1>2, <1>3, <1>4, <1>6, QuietCrashRight DEF AtomicMove, Abstract!Next

LEMMA WriteAtomic ==
    ASSUME CrashInv, [Next]_vars, NEW p \in Procs, NEW b \in Blocks, NEW d \in Data,
           LogWrite(p, b, d)
    PROVE  CrashRight' /\ AtomicMove
<1>1. /\ pc[p] = "op" /\ pc \in [Procs -> Labels] /\ cache' = [cache EXCEPT ![b] = d]
      /\ lh' = lh /\ head' = head /\ buf' = [buf EXCEPT ![p] = {b}] /\ boot' = boot
      /\ boot = "up" /\ outstanding' = outstanding
      /\ UNCHANGED <<home, logged, dirty, tail>>
  BY DEF LogWrite, Up, disk, CrashInv, FitInv, IInv, Counted
<1>2. pc' = [pc EXCEPT ![p] = "append"] /\ outstanding > 0
  BY WriteFits DEF CrashInv
<1>3. (\A q \in Procs : pc[q] \notin Committers) /\ head = <<>>
  BY <1>1, WorkingState, NotCommitting DEF CrashInv
<1>4. CrashTypes'
  BY <1>1 DEF CrashInv, CrashTypes
<1>5. CacheRight'
  <2>1. Held' = Held \cup {b}
    <3>1. buf[p] = {} /\ buf \in [Procs -> SUBSET Blocks]
      BY <1>1 DEF CrashInv, FitInv, FitTypes, BuffersHeld
    <3>2. \A x : x \in Held <=> \E q \in Procs : x \in buf[q]
      BY DEF Held
    <3>3. \A x : x \in Held' <=> \E q \in Procs : x \in buf'[q]
      BY DEF Held
    <3>4. \A q \in Procs : buf'[q] = IF q = p THEN {b} ELSE buf[q]
      BY <1>1, <3>1
    <3> QED
      BY <3>1, <3>2, <3>3, <3>4
  <2>2. \A c \in Blocks : c # b => cache'[c] = cache[c]
    BY <1>1 DEF CrashInv, CrashTypes
  <2> QED
    BY <1>1, <2>1, <2>2 DEF CrashInv, CacheRight, Logged
<1>6. \A q \in Procs : pc'[q] \notin {"copy", "mark", "install", "erase"}
  BY <1>1, <1>2, <1>3 DEF Committers
<1>7. Surviving' = Surviving
  BY <1>1 DEF Surviving
<1>8. Abstract!Write(b, d)
  BY <1>1, <1>2, <1>7 DEF Abstract!Write
<1> QED
  BY <1>1, <1>3, <1>4, <1>5, <1>6, <1>8, QuietCrashRight DEF AtomicMove, Abstract!Next

LEMMA AppendAtomic ==
    ASSUME CrashInv, [Next]_vars, NEW p \in Procs, LogAppend(p)
    PROVE  CrashRight' /\ AtomicMove
<1>1. /\ pc[p] = "append" /\ pc' = [pc EXCEPT ![p] = "op"] /\ pc \in [Procs -> Labels]
      /\ head' = head /\ buf' = [buf EXCEPT ![p] = {}] /\ boot' = boot
      /\ boot = "up" /\ outstanding' = outstanding
      /\ UNCHANGED <<home, logged, cache, tail>>
  BY DEF LogAppend, Goto, Up, disk, CrashInv, FitInv, IInv, Counted
<1>2. PICK b \in Blocks : /\ buf[p] = {b} /\ dirty' = dirty \cup {b}
                          /\ Logged' = Logged \cup {b}
  BY AppendFits DEF CrashInv
<1>3. (\A q \in Procs : pc[q] \notin Committers) /\ head = <<>>
  BY <1>1, WorkingState, NotCommitting DEF CrashInv
<1>4. CrashTypes'
  BY <1>1, <1>2 DEF CrashInv, CrashTypes
<1>5. CacheRight'
  <2>1. \A x \in Held : x = b \/ x \in Held'
    <3>1. buf \in [Procs -> SUBSET Blocks]
      BY DEF CrashInv, FitInv, FitTypes
    <3>2. \A x : x \in Held <=> \E q \in Procs : x \in buf[q]
      BY DEF Held
    <3>3. \A x : x \in Held' <=> \E q \in Procs : x \in buf'[q]
      BY DEF Held
    <3>4. \A q \in Procs : q # p => buf'[q] = buf[q]
      BY <1>1, <3>1
    <3> QED
      BY <1>2, <3>2, <3>3, <3>4
  <2> QED
    BY <1>1, <1>2, <2>1 DEF CrashInv, CacheRight
<1>6. \A q \in Procs : pc'[q] \notin {"copy", "mark", "install", "erase"}
  BY <1>1, <1>3 DEF Committers
<1>7. Surviving' = Surviving
  BY <1>1 DEF Surviving
<1> QED
  BY <1>1, <1>3, <1>4, <1>5, <1>6, <1>7, QuietCrashRight, UnseenStep

LEMMA EndAtomic ==
    ASSUME CrashInv, [Next]_vars, NEW p \in Procs, EndOp(p)
    PROVE  CrashRight' /\ AtomicMove
<1>1. /\ pc[p] = "op" /\ pc \in [Procs -> Labels] /\ lh' = lh /\ lh \in Seq(Blocks)
      /\ head' = head /\ buf' = buf /\ boot' = boot
      /\ boot = "up" /\ outstanding' = outstanding - 1
      /\ UNCHANGED <<home, logged, cache, dirty>>
  BY DEF EndOp, Up, disk, CrashInv, FitInv, FitTypes, IInv, Counted
<1>2. /\ outstanding > 0 /\ ~committing
      /\ \/ /\ CommitsNow
            /\ pc' = [pc EXCEPT ![p] = IF lh = <<>> THEN "done" ELSE "copy"]
         \/ ~CommitsNow /\ WakeAllAnd(p, "out")
  BY EndFits DEF CrashInv
<1>3. tail' = 1
  BY <1>2 DEF EndOp
<1>4. (\A q \in Procs : pc[q] \notin Committers) /\ head = <<>>
  BY <1>1, <1>2, WorkingState DEF CrashInv
<1>5. CrashTypes' /\ CacheRight'
  BY <1>1, <1>3 DEF CrashInv, CrashTypes, CacheRight, Held, Logged
<1>6. \A q \in Procs : /\ pc'[q] \notin {"mark", "install", "erase"}
                       /\ pc'[q] = "copy" => lh # <<>>
  <2>1. CASE CommitsNow
    BY <1>1, <1>2, <1>4, <2>1 DEF Committers
  <2>2. CASE ~CommitsNow
    BY <1>1, <1>2, <1>4, <2>2 DEF Committers, WakeAllAnd
  <2> QED
    BY <2>1, <2>2
<1>7. lh # <<>> => 1 \in 1 .. Len(lh)
  BY <1>1
<1>8. HeaderRight' /\ TailRight' /\ CopiedRight'
  <2>1. HeaderRight'
    BY <1>1, <1>4, <1>6 DEF HeaderRight
  <2>2. TailRight'
    BY <1>1, <1>3, <1>6, <1>7 DEF TailRight
  <2>3. CopiedRight'
    BY <1>1, <1>3, <1>6 DEF CopiedRight
  <2> QED
    BY <2>1, <2>2, <2>3
<1>9. Surviving' = Surviving
  BY <1>1 DEF Surviving
<1>10. Abstract!End
  BY <1>1, <1>2, <1>9 DEF Abstract!End
<1> QED
  BY <1>5, <1>8, <1>10 DEF CrashRight, AtomicMove, Abstract!Next

\* What holds while p commits: it is alone, and no buffer is held.
LEMMA CommittingState ==
    ASSUME CrashInv, NEW p \in Procs, pc[p] \in Committers
    PROVE  /\ \A q \in Procs : q # p => pc[q] \in {"out", "asleep"}
           /\ Held = {} /\ outstanding = 0 /\ boot = "up"
           /\ lh \in Seq(Blocks) /\ Len(lh) \in Nat /\ Len(lh) <= LogSize
           /\ \A i \in 1 .. Len(lh) : lh[i] \in Blocks
           /\ \A i, j \in 1 .. Len(lh) : lh[i] = lh[j] => i = j
           /\ pc \in [Procs -> Labels]
<1>1. \A q \in Procs : q # p => pc[q] \in {"out", "asleep"}
  BY DEF CrashInv, FitInv, IInv, Alone
<1>2. \A q \in Procs : buf[q] = {}
  BY <1>1 DEF CrashInv, FitInv, BuffersHeld, Committers
<1>3. Held = {}
  BY <1>2 DEF Held
<1>4. Running = {}
  BY <1>1 DEF Running, Committers
<1>5. outstanding = 0
  BY <1>4, NobodyRuns DEF CrashInv, FitInv, IInv, Counted
<1>6. boot = "up"
  BY DEF CrashInv, FitInv, LogSound, Committers
<1>7. lh \in Seq(Blocks) /\ Len(lh) \in Nat /\ Len(lh) <= LogSize
  BY RoomLeft, SizesRight DEF CrashInv, FitInv, FitTypes
<1>8. \A i \in 1 .. Len(lh) : lh[i] \in Blocks
  BY <1>7
<1> QED
  BY <1>1, <1>3, <1>5, <1>6, <1>7, <1>8 DEF CrashInv, FitInv, LogSound, Unique, IInv, Counted

\* write_log: the blocks go where no header looks.
LEMMA CopyAtomic ==
    ASSUME CrashInv, [Next]_vars, NEW p \in Procs, CopyToLog(p)
    PROVE  CrashRight' /\ AtomicMove
<1>1. /\ pc[p] = "copy" /\ logged' = [logged EXCEPT ![tail] = cache[lh[tail]]]
      /\ \/ tail < Len(lh) /\ tail' = tail + 1 /\ pc' = pc
         \/ ~(tail < Len(lh)) /\ tail' = 1 /\ pc' = [pc EXCEPT ![p] = "mark"]
      /\ UNCHANGED <<home, head, lh, outstanding, cache, dirty, buf, boot>>
  BY DEF CopyToLog, Goto, memory, MoreToCopy
<1>2. /\ \A q \in Procs : q # p => pc[q] \in {"out", "asleep"}
      /\ outstanding = 0 /\ boot = "up"
      /\ lh \in Seq(Blocks) /\ Len(lh) \in Nat /\ Len(lh) <= LogSize
      /\ \A i \in 1 .. Len(lh) : lh[i] \in Blocks
      /\ pc \in [Procs -> Labels]
  BY <1>1, CommittingState DEF Committers
<1>3. /\ home \in [Blocks -> Data] /\ cache \in [Blocks -> Data]
      /\ logged \in [1 .. LogSize -> Data] /\ LogSize \in Nat
  BY SizesRight DEF CrashInv, CrashTypes
<1>4. /\ tail \in 1 .. Len(lh) /\ head = <<>>
      /\ \A i \in 1 .. Len(lh) : i < tail => logged[i] = cache[lh[i]]
  BY <1>1, <1>2 DEF CrashInv, HeaderRight, TailRight, CopiedRight
<1>5. tail \in 1 .. LogSize /\ cache[lh[tail]] \in Data
  BY <1>2, <1>3, <1>4
<1>6. /\ logged' \in [1 .. LogSize -> Data] /\ logged'[tail] = cache[lh[tail]]
      /\ \A i \in 1 .. Len(lh) : i # tail => logged'[i] = logged[i]
  BY <1>1, <1>2, <1>3, <1>5
<1>7. \A i \in 1 .. Len(lh) : i <= tail => logged'[i] = cache[lh[i]]
  BY <1>2, <1>4, <1>6
<1>8. Surviving' = Surviving
  <2>1. SurvivesRight /\ SurvivesRight'
    BY SurvivesIs, SurvivesNext DEF CrashInv
  <2>2. head \in Seq(Blocks) /\ \A i : i \notin 1 .. Len(head)
    BY <1>4
  <2> QED
    BY <1>1, <2>1, <2>2, SurvivingKept
<1>9. CrashTypes' /\ CacheRight'
  <2>1. tail' \in Nat \ {0}
    BY <1>1, <1>2, <1>4
  <2> QED
    BY <1>1, <1>6, <2>1 DEF CrashInv, CrashTypes, CacheRight, Held, Logged
<1>10. HeaderRight' /\ TailRight' /\ CopiedRight'
  <2>1. CASE tail < Len(lh) /\ tail' = tail + 1 /\ pc' = pc
    <3>1. tail' \in 1 .. Len(lh) /\ \A i \in 1 .. Len(lh) : i < tail' => i <= tail
      BY <1>2, <1>4, <2>1
    <3>2. \A q \in Procs : pc'[q] \notin {"mark", "install", "erase"}
      BY <1>1, <1>2, <2>1
    <3>3. HeaderRight' /\ TailRight'
      BY <1>1, <1>2, <1>4, <3>1, <3>2 DEF HeaderRight, TailRight
    <3>4. CopiedRight'
      BY <1>1, <1>2, <1>7, <3>1, <3>2 DEF CopiedRight
    <3> QED
      BY <3>3, <3>4
  <2>2. CASE ~(tail < Len(lh)) /\ tail' = 1 /\ pc' = [pc EXCEPT ![p] = "mark"]
    <3>1. /\ pc'[p] = "mark" /\ \A q \in Procs : pc'[q] \notin {"copy", "install", "erase"}
          /\ lh # <<>> /\ \A i \in 1 .. Len(lh) : i <= tail
      <4>1. \A i \in 1 .. Len(lh) : i <= tail
        BY <1>2, <1>4, <2>2
      <4>2. lh # <<>>
        BY <1>4
      <4> QED
        BY <1>2, <2>2, <4>1, <4>2
    <3>2. HeaderRight' /\ TailRight'
      BY <1>1, <1>2, <1>4, <2>2, <3>1 DEF HeaderRight, TailRight
    <3>3. CopiedRight'
      BY <1>1, <1>2, <1>7, <3>1 DEF CopiedRight
    <3> QED
      BY <3>2, <3>3
  <2> QED
    BY <1>1, <2>1, <2>2
<1> QED
  BY <1>1, <1>2, <1>8, <1>9, <1>10, UnseenStep DEF CrashRight

\* write_head: what the running operations saw is what a restart will find.
LEMMA MarkAtomic ==
    ASSUME CrashInv, [Next]_vars, NEW p \in Procs, MarkCommitted(p)
    PROVE  CrashRight' /\ AtomicMove
<1>1. /\ pc[p] = "mark" /\ pc' = [pc EXCEPT ![p] = "install"] /\ head' = lh
      /\ UNCHANGED <<home, logged, lh, outstanding, cache, dirty, buf, boot, tail>>
  BY DEF MarkCommitted, Goto, memory
<1>2. /\ \A q \in Procs : q # p => pc[q] \in {"out", "asleep"}
      /\ Held = {} /\ outstanding = 0 /\ boot = "up"
      /\ lh \in Seq(Blocks) /\ Len(lh) \in Nat
      /\ \A i \in 1 .. Len(lh) : lh[i] \in Blocks
      /\ pc \in [Procs -> Labels]
  BY <1>1, CommittingState DEF Committers
<1>3. /\ tail = 1 /\ lh # <<>> /\ \A i \in 1 .. Len(lh) : logged[i] = cache[lh[i]]
  BY <1>1 DEF CrashInv, TailRight, CopiedRight
<1>4. \A b \in Blocks : b \notin Logged => cache[b] = home[b]
  BY <1>2 DEF CrashInv, CacheRight
<1>5. Surviving' = cache
  <2>1. SurvivesRight'
    BY SurvivesNext DEF CrashInv
  <2>2. ASSUME NEW b \in Blocks PROVE Surviving'[b] = cache[b]
    <3>1. CASE \E i \in 1 .. Len(lh) : lh[i] = b
      <4>1. PICK i \in 1 .. Len(lh) : lh[i] = b
        BY <3>1
      <4>2. Surviving'[lh[i]] = logged[i]
        BY <1>1, <2>1 DEF SurvivesRight
      <4> QED
        BY <1>3, <4>1, <4>2
    <3>2. CASE \A i \in 1 .. Len(lh) : lh[i] # b
      <4>1. Surviving'[b] = home[b]
        BY <1>1, <2>1, <3>2 DEF SurvivesRight
      <4>2. b \notin Logged
        BY <3>2 DEF Logged
      <4> QED
        BY <1>4, <4>1, <4>2
    <3> QED
      BY <3>1, <3>2
  <2>3. Surviving' = [b \in Blocks |-> Surviving'[b]]
    BY <2>1 DEF SurvivesRight
  <2>4. cache = [b \in Blocks |-> cache[b]]
    BY DEF CrashInv, CrashTypes
  <2> QED
    BY <2>2, <2>3, <2>4, Zenon
<1>6. Abstract!Commit
  BY <1>1, <1>2, <1>5 DEF Abstract!Commit
<1>7. CrashTypes' /\ CacheRight'
  BY <1>1 DEF CrashInv, CrashTypes, CacheRight, Held, Logged
<1>8. pc'[p] = "install" /\ \A q \in Procs : pc'[q] \notin {"copy", "mark", "erase"}
  BY <1>1, <1>2
<1>9. 1 \in 1 .. Len(lh)
  BY <1>2, <1>3
<1>10. HeaderRight' /\ TailRight'
  BY <1>1, <1>2, <1>3, <1>8, <1>9 DEF HeaderRight, TailRight
<1>11. CopiedRight'
  BY <1>1, <1>2, <1>3, <1>8 DEF CopiedRight
<1> QED
  BY <1>6, <1>7, <1>10, <1>11 DEF CrashRight, AtomicMove, Abstract!Next

\* One round of install_trans: the home block gets what the log holds for it,
\* which changes nothing of what a restart finds.
LEMMA InstallRight ==
    ASSUME CrashInv, [Next]_vars, InstallNext, head = lh, tail \in 1 .. Len(lh),
           head' = head, lh' = lh, logged' = logged,
           \A i \in 1 .. Len(lh) : i < tail => home[lh[i]] = logged[i]
    PROVE  /\ Surviving' = Surviving
           /\ home' \in [Blocks -> Data] /\ cache' \in [Blocks -> Data] /\ dirty' \subseteq Blocks
           /\ lh[tail] \in Blocks
           /\ home'[lh[tail]] = logged[tail] /\ cache'[lh[tail]] = logged[tail]
           /\ \A b \in Blocks : b # lh[tail] => home'[b] = home[b] /\ cache'[b] = cache[b]
           /\ dirty' = dirty \ {lh[tail]}
           /\ \A i \in 1 .. Len(lh) : i <= tail => home'[lh[i]] = logged[i]
           /\ \A i \in 1 .. Len(lh) : i # tail => lh[i] # lh[tail]
           /\ \A i \in 1 .. Len(lh) : lh[i] \in Blocks
           /\ Len(lh) \in Nat
<1>1. /\ lh \in Seq(Blocks) /\ Len(lh) \in Nat /\ Len(lh) <= LogSize /\ LogSize \in Nat
      /\ \A i, j \in 1 .. Len(lh) : lh[i] = lh[j] => i = j
  BY RoomLeft, SizesRight DEF CrashInv, FitInv, FitTypes, LogSound, Unique
<1>2. \A i \in 1 .. Len(lh) : lh[i] \in Blocks
  BY <1>1
<1>3. tail \in 1 .. LogSize /\ tail \in Nat
  BY <1>1
<1>4. /\ home \in [Blocks -> Data] /\ cache \in [Blocks -> Data] /\ dirty \subseteq Blocks
      /\ logged[tail] \in Data
  BY <1>3 DEF CrashInv, CrashTypes
<1>5. /\ home' \in [Blocks -> Data] /\ cache' \in [Blocks -> Data] /\ dirty' \subseteq Blocks
      /\ home'[lh[tail]] = logged[tail] /\ cache'[lh[tail]] = logged[tail]
      /\ \A b \in Blocks : b # lh[tail] => home'[b] = home[b] /\ cache'[b] = cache[b]
      /\ dirty' = dirty \ {lh[tail]}
  BY <1>2, <1>4 DEF InstallNext
<1>6. \A i \in 1 .. Len(lh) : i # tail => lh[i] # lh[tail]
  BY <1>1
<1>7. ASSUME NEW i \in 1 .. Len(lh), i <= tail PROVE home'[lh[i]] = logged[i]
  <2>1. CASE i = tail
    BY <1>5, <2>1
  <2>2. CASE i # tail
    <3>1. i < tail
      BY <1>1, <1>3, <1>7, <2>2
    <3> QED
      BY <1>2, <1>5, <1>6, <2>2, <3>1
  <2> QED
    BY <2>1, <2>2
<1>8. Surviving' = Surviving
  <2>1. SurvivesRight /\ SurvivesRight'
    BY SurvivesIs, SurvivesNext DEF CrashInv
  <2>2. \A b \in Blocks : (\A i \in 1 .. Len(head) : head[i] # b) => home'[b] = home[b]
    BY <1>5
  <2> QED
    BY <1>1, <2>1, <2>2, SurvivingKept
<1> QED
  BY <1>1, <1>2, <1>5, <1>6, <1>7, <1>8

LEMMA InstallAtomic ==
    ASSUME CrashInv, [Next]_vars, NEW p \in Procs, Install(p)
    PROVE  CrashRight' /\ AtomicMove
<1>1. /\ pc[p] = "install" /\ InstallNext
      /\ \/ tail < Len(lh) /\ tail' = tail + 1 /\ pc' = pc
         \/ ~(tail < Len(lh)) /\ tail' = 1 /\ pc' = [pc EXCEPT ![p] = "erase"]
      /\ UNCHANGED <<logged, head, lh, outstanding, buf, boot>>
  BY DEF Install, Goto
<1>2. /\ \A q \in Procs : q # p => pc[q] \in {"out", "asleep"}
      /\ Held = {} /\ outstanding = 0 /\ boot = "up"
      /\ pc \in [Procs -> Labels]
  BY <1>1, CommittingState DEF Committers
<1>3. /\ tail \in 1 .. Len(lh) /\ head = lh
      /\ \A i \in 1 .. Len(lh) : logged[i] = cache[lh[i]]
      /\ \A i \in 1 .. Len(lh) : i < tail => home[lh[i]] = logged[i]
  BY <1>1 DEF CrashInv, HeaderRight, TailRight, CopiedRight
<1>4. /\ Surviving' = Surviving
      /\ home' \in [Blocks -> Data] /\ cache' \in [Blocks -> Data] /\ dirty' \subseteq Blocks
      /\ lh[tail] \in Blocks
      /\ home'[lh[tail]] = logged[tail] /\ cache'[lh[tail]] = logged[tail]
      /\ \A b \in Blocks : b # lh[tail] => home'[b] = home[b] /\ cache'[b] = cache[b]
      /\ dirty' = dirty \ {lh[tail]}
      /\ \A i \in 1 .. Len(lh) : i <= tail => home'[lh[i]] = logged[i]
      /\ \A i \in 1 .. Len(lh) : lh[i] \in Blocks
      /\ Len(lh) \in Nat
  BY <1>1, <1>3, InstallRight
<1>5. cache' = cache
  <2>1. \A b \in Blocks : cache'[b] = cache[b]
    BY <1>3, <1>4
  <2>2. cache = [b \in Blocks |-> cache[b]] /\ cache' = [b \in Blocks |-> cache'[b]]
    BY <1>4 DEF CrashInv, CrashTypes
  <2> QED
    BY <2>1, <2>2, Zenon
<1>6. CrashTypes'
  <2>1. tail' \in Nat \ {0}
    BY <1>1, <1>3, <1>4
  <2> QED
    BY <1>1, <1>4, <2>1 DEF CrashInv, CrashTypes
<1>7. CacheRight'
  <2>1. ASSUME NEW b \in Blocks, cache'[b] # home'[b]
        PROVE  boot' = "up" /\ b \in dirty' /\ b \in Logged'
    <3>1. b # lh[tail] /\ cache[b] # home[b]
      BY <1>4, <2>1
    <3>2. b \in dirty /\ b \in Logged
      BY <1>2, <3>1 DEF CrashInv, CacheRight
    <3> QED
      BY <1>1, <1>2, <1>4, <3>1, <3>2 DEF Logged
  <2> QED
    BY <2>1 DEF CacheRight
<1>8. HeaderRight' /\ TailRight' /\ CopiedRight'
  <2>1. CASE tail < Len(lh) /\ tail' = tail + 1 /\ pc' = pc
    <3>1. tail' \in 1 .. Len(lh) /\ \A i \in 1 .. Len(lh) : i < tail' => i <= tail
      BY <1>3, <1>4, <2>1
    <3>2. pc'[p] = "install" /\ \A q \in Procs : pc'[q] \notin {"copy", "mark", "erase"}
      BY <1>1, <1>2, <2>1
    <3>3. HeaderRight' /\ TailRight'
      BY <1>1, <1>2, <1>3, <3>1, <3>2 DEF HeaderRight, TailRight
    <3>4. CopiedRight'
      BY <1>1, <1>2, <1>3, <1>4, <1>5, <3>1, <3>2 DEF CopiedRight
    <3> QED
      BY <3>3, <3>4
  <2>2. CASE ~(tail < Len(lh)) /\ tail' = 1 /\ pc' = [pc EXCEPT ![p] = "erase"]
    <3>1. \A i \in 1 .. Len(lh) : i <= tail
      BY <1>3, <1>4, <2>2
    <3>2. pc'[p] = "erase" /\ \A q \in Procs : pc'[q] \notin {"copy", "mark", "install"}
      BY <1>2, <2>2
    <3>3. HeaderRight' /\ TailRight'
      BY <1>1, <1>2, <1>3, <3>2 DEF HeaderRight, TailRight
    <3>4. CopiedRight'
      BY <1>1, <1>2, <1>3, <1>4, <1>5, <3>1, <3>2 DEF CopiedRight
    <3> QED
      BY <3>3, <3>4
  <2> QED
    BY <1>1, <2>1, <2>2
<1> QED
  BY <1>1, <1>2, <1>4, <1>5, <1>6, <1>7, <1>8, UnseenStep DEF CrashRight

\* Emptying the header once every logged block is at home changes nothing of
\* what a restart finds.
LEMMA EraseRight ==
    ASSUME CrashInv, [Next]_vars, head = lh, head' = <<>>, home' = home,
           \A i \in 1 .. Len(lh) : home[lh[i]] = logged[i]
    PROVE  Surviving = home /\ Surviving' = home
<1>1. SurvivesRight /\ SurvivesRight' /\ home = [b \in Blocks |-> home[b]]
  BY SurvivesIs, SurvivesNext DEF CrashInv, CrashTypes
<1>2. ASSUME NEW b \in Blocks PROVE Surviving[b] = home[b]
  <2>1. CASE \E i \in 1 .. Len(head) : head[i] = b
    <3>1. PICK i \in 1 .. Len(head) : head[i] = b
      BY <2>1
    <3> QED
      BY <1>1, <3>1 DEF SurvivesRight
  <2>2. CASE \A i \in 1 .. Len(head) : head[i] # b
    BY <1>1, <2>2 DEF SurvivesRight
  <2> QED
    BY <2>1, <2>2
<1>3. ASSUME NEW b \in Blocks PROVE Surviving'[b] = home[b]
  <2>1. \A i : i \notin 1 .. Len(<<>>)
    OBVIOUS
  <2> QED
    BY <1>1, <2>1 DEF SurvivesRight
<1>4. Surviving = [b \in Blocks |-> Surviving[b]] /\ Surviving' = [b \in Blocks |-> Surviving'[b]]
  BY <1>1 DEF SurvivesRight
<1> QED
  BY <1>1, <1>2, <1>3, <1>4, Zenon

LEMMA EraseAtomic ==
    ASSUME CrashInv, [Next]_vars, NEW p \in Procs, EraseLog(p)
    PROVE  CrashRight' /\ AtomicMove
<1>1. /\ pc[p] = "erase" /\ pc' = [pc EXCEPT ![p] = "done"] /\ lh' = <<>> /\ head' = <<>>
      /\ UNCHANGED <<home, logged, outstanding, cache, dirty, buf, tail, boot>>
  BY DEF EraseLog, Goto
<1>2. /\ \A q \in Procs : q # p => pc[q] \in {"out", "asleep"}
      /\ Held = {} /\ outstanding = 0 /\ boot = "up"
      /\ pc \in [Procs -> Labels]
  BY <1>1, CommittingState DEF Committers
<1>3. /\ head = lh
      /\ \A i \in 1 .. Len(lh) : logged[i] = cache[lh[i]]
      /\ \A i \in 1 .. Len(lh) : home[lh[i]] = logged[i]
  BY <1>1 DEF CrashInv, HeaderRight, CopiedRight
<1>4. \A b \in Blocks : cache[b] = home[b]
  BY <1>2, <1>3 DEF CrashInv, CacheRight, Logged
<1>5. Surviving' = Surviving
  BY <1>1, <1>3, EraseRight
<1>6. CrashTypes' /\ CacheRight'
  BY <1>1, <1>4 DEF CrashInv, CrashTypes, CacheRight
<1>7. \A q \in Procs : pc'[q] \notin {"copy", "mark", "install", "erase"}
  BY <1>1, <1>2
<1> QED
  BY <1>1, <1>2, <1>5, <1>6, <1>7, QuietCrashRight, UnseenStep

LEMMA DoneAtomic ==
    ASSUME CrashInv, [Next]_vars, NEW p \in Procs, EndCommit(p)
    PROVE  CrashRight' /\ AtomicMove
<1>1. /\ pc[p] = "done" /\ WakeAllAnd(p, "out")
      /\ UNCHANGED <<home, logged, head, lh, outstanding, cache, dirty, buf, tail, boot>>
  BY DEF EndCommit, disk
<1>2. /\ \A q \in Procs : q # p => pc[q] \in {"out", "asleep"}
      /\ boot = "up"
  BY <1>1, CommittingState DEF Committers
<1>3. head = <<>>
  BY <1>1, <1>2 DEF CrashInv, HeaderRight
<1>4. Surviving' = Surviving
  BY <1>1 DEF Surviving
<1>5. CrashTypes' /\ CacheRight'
  BY <1>1 DEF CrashInv, CrashTypes, CacheRight, Held, Logged
<1>6. \A q \in Procs : pc'[q] \notin {"copy", "mark", "install", "erase"}
  BY <1>1, <1>2 DEF WakeAllAnd
<1> QED
  BY <1>1, <1>2, <1>3, <1>4, <1>5, <1>6, QuietCrashRight, UnseenStep

\* Going to sleep, dropping a clean buffer, and steps that do nothing.
LEMMA IdleAtomic ==
    ASSUME CrashInv, [Next]_vars,
           (\E p \in Procs : BeginSleeps(p)) \/ (\E b \in Blocks : Evict(b)) \/ UNCHANGED vars
    PROVE  CrashRight' /\ AtomicMove
<1>1. /\ UNCHANGED <<home, logged, head, lh, outstanding, dirty, buf, tail, boot>>
      /\ \A q \in Procs : pc'[q] = pc[q] \/ (pc[q] = "out" /\ pc'[q] = "asleep")
      /\ cache' = cache
  <2>1. CASE \E p \in Procs : BeginSleeps(p)
    BY <2>1 DEF BeginSleeps, Goto, disk, memory, CrashInv, FitInv, IInv, Counted
  <2>2. CASE \E b \in Blocks : Evict(b)
    <3>1. PICK b \in Blocks : Evict(b)
      BY <2>2
    <3>2. cache[b] = home[b]
      BY <3>1 DEF Evict, CrashInv, CacheRight
    <3>3. cache' = [cache EXCEPT ![b] = cache[b]]
      BY <3>1, <3>2 DEF Evict
    <3>4. cache' = cache
      BY <3>3 DEF CrashInv, CrashTypes
    <3> QED
      BY <3>1, <3>4 DEF Evict, disk, locals
  <2>3. CASE UNCHANGED vars
    BY <2>3 DEF vars, disk, memory, locals
  <2> QED
    BY <2>1, <2>2, <2>3
<1>2. Surviving' = Surviving
  BY <1>1 DEF Surviving
<1>3. CrashTypes' /\ CacheRight'
  BY <1>1 DEF CrashInv, CrashTypes, CacheRight, Held, Logged
<1>4. \A q \in Procs : \A l \in {"copy", "mark", "install", "erase"} : pc'[q] = l <=> pc[q] = l
  BY <1>1
<1>5. HeaderRight' /\ TailRight'
  BY <1>1, <1>4 DEF CrashInv, HeaderRight, TailRight
<1>6. CopiedRight'
  BY <1>1, <1>4 DEF CrashInv, CopiedRight
<1>7. boot = "up" \/ boot # "up"
  OBVIOUS
<1> QED
  BY <1>1, <1>2, <1>3, <1>5, <1>6, <1>7, UnseenStep DEF CrashRight

\* A crash takes the running operations back to what survives.
LEMMA CrashAtomicStep ==
    ASSUME CrashInv, [Next]_vars, Crash
    PROVE  CrashRight' /\ AtomicMove
<1>1. /\ lh' = <<>> /\ outstanding' = 0 /\ cache' = home /\ dirty' = {} /\ tail' = 1
      /\ pc' = [p \in Procs |-> "out"] /\ boot' = "read"
      /\ UNCHANGED <<home, logged, head>>
  BY DEF Crash, disk
<1>2. Surviving' = Surviving
  BY <1>1 DEF Surviving
<1>3. CrashTypes' /\ CacheRight'
  BY <1>1 DEF CrashInv, CrashTypes, CacheRight
<1>4. \A q \in Procs : pc'[q] = "out"
  BY <1>1
<1>5. HeaderRight' /\ TailRight' /\ CopiedRight'
  BY <1>1, <1>4 DEF HeaderRight, TailRight, CopiedRight
<1>6. Abstract!Crash
  BY <1>1, <1>2 DEF Abstract!Crash
<1> QED
  BY <1>3, <1>5, <1>6 DEF CrashRight, AtomicMove, Abstract!Next

\* While the kernel recovers, no process runs and the buffers hold what the disk
\* has.
LEMMA RecoveringState ==
    ASSUME CrashInv, boot # "up"
    PROVE  cache = home /\ \A q \in Procs : pc[q] = "out"
<1>1. \A b \in Blocks : cache[b] = home[b]
  BY DEF CrashInv, CacheRight
<1>2. cache = [b \in Blocks |-> cache[b]] /\ home = [b \in Blocks |-> home[b]]
  BY DEF CrashInv, CrashTypes
<1>3. cache = home
  BY <1>1, <1>2, Zenon
<1> QED
  BY <1>3 DEF CrashInv, FitInv, LogSound

LEMMA ReadAtomic ==
    ASSUME CrashInv, [Next]_vars, RecoverRead
    PROVE  CrashRight' /\ AtomicMove
<1>1. /\ boot = "read" /\ lh' = head
      /\ boot' = IF head = <<>> THEN "erase" ELSE "install"
      /\ UNCHANGED <<home, logged, head, outstanding, cache, dirty, pc, buf, tail>>
  BY DEF RecoverRead, disk
<1>2. cache = home /\ \A q \in Procs : pc'[q] = "out"
  BY <1>1, RecoveringState
<1>3. head \in Seq(Blocks) /\ tail = 1
  BY <1>1 DEF CrashInv, FitInv, FitTypes, TailRight
<1>4. head # <<>> => 1 \in 1 .. Len(head)
  BY <1>3
<1>5. Surviving' = Surviving
  BY <1>1 DEF Surviving
<1>6. CrashTypes' /\ CacheRight'
  BY <1>1, <1>2 DEF CrashInv, CrashTypes, CacheRight
<1>7. HeaderRight' /\ TailRight'
  BY <1>1, <1>2, <1>3, <1>4 DEF HeaderRight, TailRight
<1>8. CopiedRight'
  <2>1. \A i \in 1 .. Len(lh') : ~(i < tail')
    BY <1>1, <1>3
  <2>2. boot' = "erase" => \A i : i \notin 1 .. Len(lh')
    BY <1>1
  <2> QED
    BY <1>2, <2>1, <2>2 DEF CopiedRight
<1> QED
  BY <1>1, <1>5, <1>6, <1>7, <1>8, UnseenStep DEF CrashRight

LEMMA ReinstallAtomic ==
    ASSUME CrashInv, [Next]_vars, RecoverInstall
    PROVE  CrashRight' /\ AtomicMove
<1>1. /\ boot = "install" /\ InstallNext
      /\ \/ tail < Len(lh) /\ tail' = tail + 1 /\ boot' = boot
         \/ ~(tail < Len(lh)) /\ tail' = 1 /\ boot' = "erase"
      /\ UNCHANGED <<logged, head, lh, outstanding, pc, buf>>
  BY DEF RecoverInstall
<1>2. cache = home /\ \A q \in Procs : pc'[q] = "out"
  BY <1>1, RecoveringState
<1>3. /\ tail \in 1 .. Len(lh) /\ head = lh
      /\ \A i \in 1 .. Len(lh) : i < tail => home[lh[i]] = logged[i]
  BY <1>1 DEF CrashInv, HeaderRight, TailRight, CopiedRight
<1>4. /\ Surviving' = Surviving
      /\ home' \in [Blocks -> Data] /\ cache' \in [Blocks -> Data] /\ dirty' \subseteq Blocks
      /\ home'[lh[tail]] = logged[tail] /\ cache'[lh[tail]] = logged[tail]
      /\ \A b \in Blocks : b # lh[tail] => home'[b] = home[b] /\ cache'[b] = cache[b]
      /\ \A i \in 1 .. Len(lh) : i <= tail => home'[lh[i]] = logged[i]
      /\ Len(lh) \in Nat
  BY <1>1, <1>3, InstallRight
<1>5. CrashTypes' /\ CacheRight'
  <2>1. tail' \in Nat \ {0}
    BY <1>1, <1>3, <1>4
  <2>2. \A b \in Blocks : cache'[b] = home'[b]
    BY <1>2, <1>4
  <2> QED
    BY <1>1, <1>4, <2>1, <2>2 DEF CrashInv, CrashTypes, CacheRight
<1>6. HeaderRight' /\ TailRight' /\ CopiedRight'
  <2>1. CASE tail < Len(lh) /\ tail' = tail + 1 /\ boot' = boot
    <3>1. tail' \in 1 .. Len(lh) /\ \A i \in 1 .. Len(lh) : i < tail' => i <= tail
      BY <1>3, <1>4, <2>1
    <3>2. HeaderRight' /\ TailRight'
      BY <1>1, <1>2, <1>3, <2>1, <3>1 DEF HeaderRight, TailRight
    <3>3. CopiedRight'
      BY <1>1, <1>2, <1>4, <2>1, <3>1 DEF CopiedRight
    <3> QED
      BY <3>2, <3>3
  <2>2. CASE ~(tail < Len(lh)) /\ tail' = 1 /\ boot' = "erase"
    <3>1. \A i \in 1 .. Len(lh) : i <= tail
      BY <1>3, <1>4, <2>2
    <3>2. HeaderRight' /\ TailRight'
      BY <1>1, <1>2, <1>3, <2>2 DEF HeaderRight, TailRight
    <3>3. CopiedRight'
      BY <1>1, <1>2, <1>4, <2>2, <3>1 DEF CopiedRight
    <3> QED
      BY <3>2, <3>3
  <2> QED
    BY <1>1, <2>1, <2>2
<1>7. boot # "up" /\ boot' # "up"
  BY <1>1
<1> QED
  BY <1>1, <1>4, <1>5, <1>6, <1>7, UnseenStep DEF CrashRight

LEMMA ReeraseAtomic ==
    ASSUME CrashInv, [Next]_vars, RecoverErase
    PROVE  CrashRight' /\ AtomicMove
<1>1. /\ boot = "erase" /\ lh' = <<>> /\ head' = <<>> /\ boot' = "up"
      /\ UNCHANGED <<home, logged, outstanding, cache, dirty, pc, buf, tail>>
  BY DEF RecoverErase
<1>2. cache = home /\ \A q \in Procs : pc'[q] = "out"
  BY <1>1, RecoveringState
<1>3. head = lh /\ \A i \in 1 .. Len(lh) : home[lh[i]] = logged[i]
  BY <1>1 DEF CrashInv, HeaderRight, CopiedRight
<1>4. Surviving = home /\ Surviving' = home
  BY <1>1, <1>3, EraseRight
<1>5. CrashTypes' /\ CacheRight'
  BY <1>1, <1>2 DEF CrashInv, CrashTypes, CacheRight
<1>6. CrashRight'
  BY <1>1, <1>2, <1>5, QuietCrashRight
<1>7. AtomicMove
  BY <1>1, <1>2, <1>4 DEF AtomicMove, Abstract!vars
<1> QED
  BY <1>6, <1>7

LEMMA NextCrash == CrashInv /\ [Next]_vars => CrashInv' /\ AtomicMove
<1> SUFFICES ASSUME CrashInv, [Next]_vars PROVE CrashInv' /\ AtomicMove
  OBVIOUS
<1>1. FitInv'
  BY NextFits DEF CrashInv
<1>2. CrashRight' /\ AtomicMove
  BY BeginAtomic, WriteAtomic, AppendAtomic, EndAtomic, CopyAtomic, MarkAtomic, InstallAtomic,
     EraseAtomic, DoneAtomic, IdleAtomic, CrashAtomicStep, ReadAtomic, ReinstallAtomic,
     ReeraseAtomic
  DEF Next, Step, Recover
<1> QED
  BY <1>1, <1>2 DEF CrashInv, CrashRight

LEMMA InitCrash == Init => CrashInv /\ Abstract!Init
<1> SUFFICES ASSUME Init PROVE CrashInv /\ Abstract!Init
  OBVIOUS
<1>1. FitInv
  BY InitFits
<1>2. /\ home = [b \in Blocks |-> Empty] /\ cache = home /\ head = <<>> /\ lh = <<>>
      /\ boot = "up" /\ dirty = {} /\ tail = 1 /\ outstanding = 0
      /\ \A p \in Procs : pc[p] = "out"
      /\ logged = [i \in 1 .. LogSize |-> Empty] /\ Empty \in Data
  BY LogAssumption DEF Init
<1>3. CrashTypes /\ CacheRight
  BY <1>2 DEF CrashTypes, CacheRight
<1>4. HeaderRight /\ TailRight /\ CopiedRight
  BY <1>2 DEF HeaderRight, TailRight, CopiedRight
<1>5. Surviving = [b \in Blocks |-> Empty]
  BY <1>2 DEF Surviving
<1>6. Abstract!Init
  BY <1>2, <1>5 DEF Abstract!Init
<1> QED
  BY <1>1, <1>3, <1>4, <1>6 DEF CrashInv

\* The log implements AtomicDisk: the operations that ran together reach the
\* disk at once, when write_head writes the header, and a crash at any point of
\* commit() or of recovery loses what was not committed and nothing else.
THEOREM LogIsAtomic == Spec => CrashAtomic
  BY InitCrash, NextCrash, PTL DEF Spec, CrashAtomic, Abstract!Spec, AtomicMove

\* The variables keep their types.
THEOREM TypeCorrect == Spec => []TypeOK
<1>1. CrashInv => TypeOK
  <2> SUFFICES ASSUME CrashInv PROVE TypeOK
    OBVIOUS
  <2>1. panicked \in BOOLEAN
    BY DEF CrashInv, FitInv
  <2>2. outstanding \in Nat /\ committing \in BOOLEAN /\ pc \in [Procs -> Labels]
    BY RunningFinite DEF CrashInv, FitInv, IInv, Counted
  <2> QED
    BY <2>1, <2>2 DEF CrashInv, FitInv, FitTypes, CrashTypes, TypeOK
<1> QED
  BY <1>1, InitCrash, NextCrash, PTL DEF Spec
=============================================================================
