--------------------------- MODULE ProgramsProofs ---------------------------
(***************************************************************************)
(* The bounded buffer and the producer-consumer program, for any number of *)
(* threads, any size of the buffer and any calls: one pthread_cond_signal  *)
(* per item is enough, the circular buffer is a FIFO queue, and every item *)
(* produced is in exactly one place.  And the shell, for any commands and  *)
(* any number of processes: f->ref counts the descriptors of a file.       *)
(***************************************************************************)
EXTENDS ProducerConsumer, Shell, FiniteSetTheorems, SequenceTheorems, NaturalsInduction,
        WellFoundedInduction, TLAPS

IInv == BufferTypeOK /\ NoSignalMissed
-----------------------------------------------------------------------------
\* The threads at a place of the buffer are finitely many.
LEMMA AtFinite ==
    ASSUME NEW label
    PROVE  IsFiniteSet(At(label)) /\ Cardinality(At(label)) \in Nat
<1>1. At(label) \subseteq Threads
  BY DEF At
<1> QED
  BY <1>1, BufferAssumption, FS_Subset, FS_CardinalityType

\* Adding a thread that is not there yet counts one more.
LEMMA OneMore ==
    ASSUME NEW label, NEW t, t \notin At(label), At(label)' = At(label) \cup {t}
    PROVE  Cardinality(At(label)') = Cardinality(At(label)) + 1
  BY AtFinite, FS_AddElement

\* Taking away one that is there counts one less.
LEMMA OneLess ==
    ASSUME NEW label, NEW t, t \in At(label), At(label)' = At(label) \ {t}
    PROVE  Cardinality(At(label)') = Cardinality(At(label)) - 1
  BY AtFinite, FS_RemoveElement

\* An index of the circular buffer is followed by one.
LEMMA AdvanceInRange ==
    \A k \in 0 .. buffer_size - 1 : Advance(k) \in 0 .. buffer_size - 1
  BY BufferAssumption DEF Advance

\* Every action of the buffer keeps the types.
LEMMA TypeStep == IInv /\ [BufferNext]_bufferVars => BufferTypeOK'
<1> SUFFICES ASSUME IInv, [BufferNext]_bufferVars PROVE BufferTypeOK'
  OBVIOUS
<1> USE BufferAssumption DEF IInv, BufferTypeOK, fields
<1>1. ASSUME NEW t \in Threads, NEW d \in Data, CallAppend(t, d) PROVE BufferTypeOK'
  BY <1>1 DEF CallAppend
<1>2. ASSUME NEW t \in Threads, AppendWaits(t) PROVE BufferTypeOK'
  BY <1>2 DEF AppendWaits
<1>3. ASSUME NEW t \in Threads, append(t) PROVE BufferTypeOK'
  <2>1. buffer' \in [0 .. buffer_size - 1 -> Data] /\ buffer_cnt' \in 0 .. buffer_size
    BY <1>3 DEF append, isFull
  <2>2. buffer_last' \in 0 .. buffer_size - 1
    BY <1>3, AdvanceInRange DEF append
  <2>3. at' \in [Threads -> {"out", "append", "appendWait", "remove", "removeWait"}]
    BY <1>3 DEF append, Signal, At
  <2> QED
    BY <1>3, <2>1, <2>2, <2>3 DEF append
<1>4. ASSUME NEW t \in Threads, CallRemove(t) PROVE BufferTypeOK'
  BY <1>4 DEF CallRemove
<1>5. ASSUME NEW t \in Threads, RemoveWaits(t) PROVE BufferTypeOK'
  BY <1>5 DEF RemoveWaits
<1>6. ASSUME NEW t \in Threads, remove(t) PROVE BufferTypeOK'
  <2>1. item' \in [Threads -> Data] /\ buffer_cnt' \in 0 .. buffer_size
    BY <1>6 DEF remove, isEmpty
  <2>2. buffer_first' \in 0 .. buffer_size - 1
    BY <1>6, AdvanceInRange DEF remove
  <2>3. at' \in [Threads -> {"out", "append", "appendWait", "remove", "removeWait"}]
    BY <1>6 DEF remove, Signal, At
  <2> QED
    BY <1>6, <2>1, <2>2, <2>3 DEF remove
<1>7. ASSUME NEW t \in Threads, Spurious(t) PROVE BufferTypeOK'
  BY <1>7 DEF Spurious
<1>8. CASE UNCHANGED bufferVars
  BY <1>8 DEF bufferVars
<1> HIDE DEF IInv, BufferTypeOK, fields
<1> QED
  BY <1>1, <1>2, <1>3, <1>4, <1>5, <1>6, <1>7, <1>8 DEF BufferNext

\* A call of append or remove brings one more awake thread.
LEMMA ArriveStep ==
    ASSUME IInv, NEW t \in Threads,
           (\E d \in Data : CallAppend(t, d)) \/ CallRemove(t) \/ Spurious(t)
    PROVE  NoSignalMissed'
<1> USE DEF IInv, BufferTypeOK, NoSignalMissed, fields
<1>1. /\ buffer_cnt' = buffer_cnt
      /\ At("appendWait")' \subseteq At("appendWait")
      /\ At("removeWait")' \subseteq At("removeWait")
  BY DEF CallAppend, CallRemove, Spurious, At
<1>2. ASSUME NEW label \in {"append", "remove"}
      PROVE  /\ Cardinality(At(label)') \in Nat
             /\ Cardinality(At(label)) <= Cardinality(At(label)')
  <2>1. CASE at'[t] = label
    <3>1. t \notin At(label) /\ At(label)' = At(label) \cup {t}
      BY <2>1 DEF CallAppend, CallRemove, Spurious, At
    <3>2. Cardinality(At(label)') = Cardinality(At(label)) + 1
      BY <3>1, OneMore
    <3>3. Cardinality(At(label)) \in Nat
      BY AtFinite
    <3> QED
      BY <3>2, <3>3
  <2>2. CASE at'[t] # label
    <3>1. At(label)' = At(label)
      BY <2>2 DEF CallAppend, CallRemove, Spurious, At
    <3> QED
      BY <3>1, AtFinite
  <2> QED
    BY <2>1, <2>2
<1>3. Cardinality(At("append")) \in Nat /\ Cardinality(At("remove")) \in Nat
  BY AtFinite
<1> QED
  BY <1>1, <1>2, <1>3, BufferAssumption

\* A thread that begins to wait in append has seen a full buffer.
LEMMA AppendWaitsStep ==
    ASSUME IInv, NEW t \in Threads, AppendWaits(t)
    PROVE  NoSignalMissed'
<1> USE DEF IInv, BufferTypeOK, NoSignalMissed, fields
<1>1. At("remove")' = At("remove") /\ At("removeWait")' = At("removeWait")
  BY DEF AppendWaits, At
<1>2. At("append")' = At("append") \ {t} /\ t \in At("append")
  BY DEF AppendWaits, At
<1>3. Cardinality(At("append")') \in Nat
  <2>1. IsFiniteSet(At("append"))
    BY AtFinite
  <2>2. IsFiniteSet(At("append") \ {t})
    BY <2>1, FS_RemoveElement
  <2>3. Cardinality(At("append") \ {t}) \in Nat
    BY <2>2, FS_CardinalityType
  <2> QED
    BY <1>2, <2>3
<1> QED
  BY <1>1, <1>3, BufferAssumption DEF AppendWaits, isFull

\* A thread that begins to wait in remove has seen an empty buffer.
LEMMA RemoveWaitsStep ==
    ASSUME IInv, NEW t \in Threads, RemoveWaits(t)
    PROVE  NoSignalMissed'
<1> USE DEF IInv, BufferTypeOK, NoSignalMissed, fields
<1>1. At("append")' = At("append") /\ At("appendWait")' = At("appendWait")
  BY DEF RemoveWaits, At
<1>2. At("remove")' = At("remove") \ {t} /\ t \in At("remove")
  BY DEF RemoveWaits, At
<1>3. Cardinality(At("remove")') \in Nat
  <2>1. IsFiniteSet(At("remove"))
    BY AtFinite
  <2>2. IsFiniteSet(At("remove") \ {t})
    BY <2>1, FS_RemoveElement
  <2>3. Cardinality(At("remove") \ {t}) \in Nat
    BY <2>2, FS_CardinalityType
  <2> QED
    BY <1>2, <2>3
<1> QED
  BY <1>1, <1>3, BufferAssumption DEF RemoveWaits, isEmpty

\* append uses one free place and one awake thread, and wakes one remover.
LEMMA AppendStep ==
    ASSUME IInv, NEW t \in Threads, append(t)
    PROVE  NoSignalMissed'
<1> USE DEF IInv, BufferTypeOK
<1>1. buffer_cnt' = buffer_cnt + 1
  BY DEF append
<1>2. /\ t \in At("append") /\ At("append")' = At("append") \ {t}
      /\ At("appendWait")' = At("appendWait")
  BY DEF append, Signal, At
<1>3. Cardinality(At("append")') = Cardinality(At("append")) - 1
  BY <1>2, OneLess
<1>4. At("removeWait") # {} =>
        Cardinality(At("remove")') = Cardinality(At("remove")) + 1
  <2> SUFFICES ASSUME At("removeWait") # {}
               PROVE  Cardinality(At("remove")') = Cardinality(At("remove")) + 1
    OBVIOUS
  <2>1. PICK u \in At("removeWait") : at' = [at EXCEPT ![t] = "out", ![u] = "remove"]
    BY DEF append, Signal
  <2>2. u \notin At("remove") /\ At("remove")' = At("remove") \cup {u}
    BY <1>2, <2>1 DEF At
  <2> QED
    BY <2>2, OneMore
<1>5. At("removeWait") = {} => At("removeWait")' = {}
  BY DEF append, Signal, At
<1>6. Cardinality(At("append")) \in Nat /\ Cardinality(At("remove")) \in Nat
  BY AtFinite
<1> QED
  BY <1>1, <1>2, <1>3, <1>4, <1>5, <1>6, BufferAssumption DEF NoSignalMissed

\* remove uses one item and one awake thread, and wakes one appender.
LEMMA RemoveStep ==
    ASSUME IInv, NEW t \in Threads, remove(t)
    PROVE  NoSignalMissed'
<1> USE DEF IInv, BufferTypeOK
<1>1. buffer_cnt' = buffer_cnt - 1
  BY DEF remove
<1>2. /\ t \in At("remove") /\ At("remove")' = At("remove") \ {t}
      /\ At("removeWait")' = At("removeWait")
  BY DEF remove, Signal, At
<1>3. Cardinality(At("remove")') = Cardinality(At("remove")) - 1
  BY <1>2, OneLess
<1>4. At("appendWait") # {} =>
        Cardinality(At("append")') = Cardinality(At("append")) + 1
  <2> SUFFICES ASSUME At("appendWait") # {}
               PROVE  Cardinality(At("append")') = Cardinality(At("append")) + 1
    OBVIOUS
  <2>1. PICK u \in At("appendWait") : at' = [at EXCEPT ![t] = "out", ![u] = "append"]
    BY DEF remove, Signal
  <2>2. u \notin At("append") /\ At("append")' = At("append") \cup {u}
    BY <1>2, <2>1 DEF At
  <2> QED
    BY <2>2, OneMore
<1>5. At("appendWait") = {} => At("appendWait")' = {}
  BY DEF remove, Signal, At
<1>6. Cardinality(At("append")) \in Nat /\ Cardinality(At("remove")) \in Nat
  BY AtFinite
<1> QED
  BY <1>1, <1>2, <1>3, <1>4, <1>5, <1>6, BufferAssumption DEF NoSignalMissed

\* The invariant is inductive for the buffer.
LEMMA BufferStep == IInv /\ [BufferNext]_bufferVars => IInv'
<1> SUFFICES ASSUME IInv, [BufferNext]_bufferVars PROVE IInv'
  OBVIOUS
<1>1. BufferTypeOK'
  BY TypeStep
<1>2. CASE UNCHANGED bufferVars
  BY <1>1, <1>2 DEF IInv, NoSignalMissed, At, bufferVars, fields
<1>3. CASE BufferNext
  BY <1>1, <1>3, ArriveStep, AppendWaitsStep, RemoveWaitsStep, AppendStep, RemoveStep
     DEF BufferNext, IInv
<1> QED
  BY <1>2, <1>3

\* The buffer begins empty with nobody in it.
LEMMA BufferInitInv == BufferInit => IInv
<1> SUFFICES ASSUME BufferInit PROVE IInv
  OBVIOUS
<1>1. BufferTypeOK
  BY BufferAssumption DEF BufferInit, BufferTypeOK
<1>2. At("appendWait") = {} /\ At("removeWait") = {}
  BY DEF BufferInit, At
<1> QED
  BY <1>1, <1>2 DEF IInv, NoSignalMissed

\* Whatever threads call append and remove, no signal is missed.
THEOREM BufferSignals == BufferSpec => []NoSignalMissed
<1>1. IInv => NoSignalMissed
  BY DEF IInv
<1> QED
  BY <1>1, BufferInitInv, BufferStep, PTL DEF BufferSpec

\* No more items are produced than asked for.
ProgramInv == IInv /\ produced \in 0 .. item_size

\* The threads of the program use the buffer through its operations only, and
\* count at most item_size items.
LEMMA ProgramUsesBuffer ==
    ProgramInv /\ [Next]_vars => [BufferNext]_bufferVars /\ produced' \in 0 .. item_size
<1> SUFFICES ASSUME ProgramInv, [Next]_vars
             PROVE  [BufferNext]_bufferVars /\ produced' \in 0 .. item_size
  OBVIOUS
<1> USE ProducerConsumerAssumption
<1>1. CASE UNCHANGED vars
  BY <1>1 DEF vars, ProgramInv
<1>2. ASSUME NEW p \in Producers, Producer(p)
      PROVE  [BufferNext]_bufferVars /\ produced' \in 0 .. item_size
  <2>1. CASE ProducerQuits(p) \/ ReportProduced(p)
    BY <2>1 DEF ProducerQuits, ReportProduced, ProgramInv
  <2>2. CASE Produce(p)
    <3>1. Number \in Data /\ produced' \in 0 .. item_size
      BY <2>2 DEF Produce, Number, ProgramInv
    <3>2. CallAppend(p, Number)
      BY <2>2 DEF Produce
    <3> QED
      BY <3>1, <3>2 DEF BufferNext
  <2>3. CASE AppendItem(p)
    BY <2>3 DEF AppendItem, BufferNext, ProgramInv
  <2> QED
    BY <1>2, <2>1, <2>2, <2>3 DEF Producer
<1>3. ASSUME NEW c \in Consumers, Consumer(c)
      PROVE  [BufferNext]_bufferVars /\ produced' \in 0 .. item_size
  <2>1. CASE LockConsumers(c) \/ CheckEmpty(c) \/ CheckDone(c) \/ ReportConsumed(c)
    BY <2>1 DEF LockConsumers, CheckEmpty, CheckDone, ReportConsumed, ProgramInv
  <2>2. CASE Consume(c) \/ RemoveItem(c)
    BY <2>2 DEF Consume, RemoveItem, BufferNext, ProgramInv
  <2> QED
    BY <1>3, <2>1, <2>2 DEF Consumer
<1>4. ASSUME NEW t \in Threads, Waits(t) \/ WokenForNothing(t)
      PROVE  [BufferNext]_bufferVars /\ produced' \in 0 .. item_size
  BY <1>4 DEF Waits, WokenForNothing, BufferNext, ProgramInv
<1> QED
  BY <1>1, <1>2, <1>3, <1>4 DEF Next

\* No signal is missed in the producer-consumer program.
THEOREM ProgramSignals == Spec => []NoSignalMissed
<1>1. Init => ProgramInv
  BY BufferInitInv, ProducerConsumerAssumption DEF Init, ProgramInv
<1>2. ProgramInv /\ [Next]_vars => ProgramInv'
  BY ProgramUsesBuffer, BufferStep DEF ProgramInv
<1>3. ProgramInv => NoSignalMissed
  BY DEF ProgramInv, IInv
<1> QED
  BY <1>1, <1>2, <1>3, PTL DEF Spec

-----------------------------------------------------------------------------
\* The next free place lies buffer_cnt places after the first item.
Circular == buffer_last = (buffer_first + buffer_cnt) % buffer_size

QueueInv == IInv /\ Circular

\* An index at most one turn of the buffer too high, brought back.
Wrap(i) == IF i < buffer_size THEN i ELSE i - buffer_size

LEMMA WrapAround == \A i \in 0 .. 2 * buffer_size - 1 : i % buffer_size = Wrap(i)
<1> TAKE i \in 0 .. 2 * buffer_size - 1
<1>1. CASE i < buffer_size
  BY <1>1, BufferAssumption DEF Wrap
<1>2. CASE i >= buffer_size
  BY <1>2, BufferAssumption DEF Wrap
<1> QED
  BY <1>1, <1>2, BufferAssumption

\* What is inside is a sequence of buffer_cnt items.
LEMMA ContentsType ==
    BufferTypeOK => Contents \in Seq(Data) /\ Len(Contents) = buffer_cnt
<1> SUFFICES ASSUME BufferTypeOK
             PROVE  Contents \in Seq(Data) /\ Len(Contents) = buffer_cnt
  OBVIOUS
<1>1. \A k \in 1 .. buffer_cnt :
        (buffer_first + k - 1) % buffer_size \in 0 .. buffer_size - 1
  BY BufferAssumption DEF BufferTypeOK
<1>2. \A k \in 1 .. buffer_cnt : buffer[(buffer_first + k - 1) % buffer_size] \in Data
  BY <1>1 DEF BufferTypeOK
<1> QED
  BY <1>2 DEF Contents, BufferTypeOK

\* append puts its item behind those inside.
LEMMA AppendPuts ==
    ASSUME QueueInv, NEW t \in Threads, append(t)
    PROVE  Circular' /\ Queue!Put(t)
<1> USE BufferAssumption DEF QueueInv, IInv
<1>1. /\ buffer_cnt' = buffer_cnt + 1 /\ buffer_first' = buffer_first
      /\ buffer_cnt < buffer_size
  BY DEF append, isFull, BufferTypeOK
<1>2. Circular'
  <2>1. (buffer_first + buffer_cnt) % buffer_size = Wrap(buffer_first + buffer_cnt)
    BY <1>1, WrapAround DEF BufferTypeOK
  <2>2. (buffer_last + 1) % buffer_size = Wrap(buffer_last + 1)
    BY WrapAround DEF BufferTypeOK
  <2>3. (buffer_first + (buffer_cnt + 1)) % buffer_size
          = Wrap(buffer_first + (buffer_cnt + 1))
    BY <1>1, WrapAround DEF BufferTypeOK
  <2>4. (buffer_last + 1) % buffer_size = (buffer_first + (buffer_cnt + 1)) % buffer_size
    BY SMTT(60), <1>1, <2>1, <2>2, <2>3 DEF Circular, BufferTypeOK, Wrap
  <2> QED
    BY <1>1, <2>4 DEF append, Circular, Advance
<1>3. \A k \in 1 .. buffer_cnt :
        buffer'[(buffer_first + k - 1) % buffer_size]
            = buffer[(buffer_first + k - 1) % buffer_size]
  <2> TAKE k \in 1 .. buffer_cnt
  <2>1. buffer_first + k - 1 = buffer_first + (k - 1)
    BY DEF BufferTypeOK
  <2>2. /\ (buffer_first + k - 1) % buffer_size \in 0 .. buffer_size - 1
        /\ (buffer_first + k - 1) % buffer_size # buffer_last
    <3>1. (buffer_first + buffer_cnt) % buffer_size = Wrap(buffer_first + buffer_cnt)
      BY <1>1, WrapAround DEF BufferTypeOK
    <3>2. (buffer_first + (k - 1)) % buffer_size = Wrap(buffer_first + (k - 1))
      BY <1>1, WrapAround DEF BufferTypeOK
    <3> QED
      BY <1>1, <2>1, <3>1, <3>2 DEF Circular, BufferTypeOK, Wrap
  <2> QED
    BY <2>2 DEF append, BufferTypeOK
<1>4. buffer'[(buffer_first + (buffer_cnt + 1) - 1) % buffer_size] = item[t]
  <2>1. buffer_first + (buffer_cnt + 1) - 1 = buffer_first + buffer_cnt
    BY DEF BufferTypeOK
  <2> QED
    BY <2>1 DEF append, Circular, BufferTypeOK
<1>5. Contents' = [k \in 1 .. buffer_cnt + 1 |->
                     buffer'[(buffer_first + k - 1) % buffer_size]]
  BY <1>1 DEF Contents
<1>6. Contents' = Append(Contents, item[t])
  <2>1. Contents \in Seq(Data) /\ Len(Contents) = buffer_cnt /\ item[t] \in Data
    BY ContentsType DEF BufferTypeOK
  <2>2. \A k \in 1 .. buffer_cnt + 1 : Contents'[k] = Append(Contents, item[t])[k]
    <3> TAKE k \in 1 .. buffer_cnt + 1
    <3>1. CASE k = buffer_cnt + 1
      <4>1. Append(Contents, item[t])[k] = item[t]
        BY <2>1, <3>1, AppendProperties
      <4>2. Contents'[k] = buffer'[(buffer_first + k - 1) % buffer_size]
        BY <1>5
      <4> QED
        BY <1>4, <3>1, <4>1, <4>2
    <3>2. CASE k \in 1 .. buffer_cnt
      <4>1. Append(Contents, item[t])[k] = Contents[k]
        BY <2>1, <3>2, AppendProperties
      <4>2. Contents'[k] = buffer'[(buffer_first + k - 1) % buffer_size]
        BY <1>5
      <4>3. Contents[k] = buffer[(buffer_first + k - 1) % buffer_size]
        BY <3>2 DEF Contents
      <4> QED
        BY <1>3, <3>2, <4>1, <4>2, <4>3
    <3> QED
      <4>1. k = buffer_cnt + 1 \/ k \in 1 .. buffer_cnt
        BY DEF BufferTypeOK
      <4> QED
        BY <3>1, <3>2, <4>1
  <2>3. /\ Append(Contents, item[t]) \in Seq(Data)
        /\ Len(Append(Contents, item[t])) = buffer_cnt + 1
    BY <2>1
  <2>4. /\ DOMAIN Append(Contents, item[t]) = 1 .. buffer_cnt + 1
        /\ DOMAIN Contents' = 1 .. buffer_cnt + 1
    BY <1>5, <2>3
  <2>5. /\ Append(Contents, item[t])
             = [k \in 1 .. buffer_cnt + 1 |-> Append(Contents, item[t])[k]]
        /\ Contents' = [k \in 1 .. buffer_cnt + 1 |-> Contents'[k]]
    BY <1>5, <2>3, <2>4
  <2> QED
    BY <2>2, <2>5
<1> QED
  BY <1>1, <1>2, <1>6, ContentsType DEF Queue!Put, append

\* remove takes the first of them.
LEMMA RemoveGets ==
    ASSUME QueueInv, NEW t \in Threads, remove(t)
    PROVE  Circular' /\ Queue!Get(t)
<1> USE BufferAssumption DEF QueueInv, IInv
<1>1. /\ buffer_cnt' = buffer_cnt - 1 /\ buffer_first' = Advance(buffer_first)
      /\ buffer_cnt > 0 /\ buffer' = buffer
  BY DEF remove, isEmpty, BufferTypeOK
<1>2. Circular'
  <2>1. (buffer_first + buffer_cnt) % buffer_size = Wrap(buffer_first + buffer_cnt)
    BY WrapAround DEF BufferTypeOK
  <2>2. Advance(buffer_first) = Wrap(buffer_first + 1)
    BY WrapAround DEF Advance, BufferTypeOK
  <2>3. (Advance(buffer_first) + (buffer_cnt - 1)) % buffer_size
          = Wrap(Advance(buffer_first) + (buffer_cnt - 1))
    <3>1. Advance(buffer_first) \in 0 .. buffer_size - 1
      BY AdvanceInRange DEF BufferTypeOK
    <3>2. Advance(buffer_first) + (buffer_cnt - 1) \in 0 .. 2 * buffer_size - 1
      BY <1>1, <3>1 DEF BufferTypeOK
    <3> QED
      BY <3>2, WrapAround
  <2>4. (buffer_first + buffer_cnt) % buffer_size
          = (Advance(buffer_first) + (buffer_cnt - 1)) % buffer_size
    BY <1>1, <2>1, <2>2, <2>3 DEF BufferTypeOK, Wrap
  <2> QED
    BY <1>1, <2>4 DEF remove, Circular
<1>3. Contents \in Seq(Data) /\ Len(Contents) = buffer_cnt /\ Contents # <<>>
  BY <1>1, ContentsType DEF BufferTypeOK
<1>4. Head(Contents) = buffer[buffer_first]
  <2>1. Head(Contents) = Contents[1]
    BY <1>3
  <2>2. (buffer_first + 1 - 1) % buffer_size = buffer_first
    BY DEF BufferTypeOK
  <2>3. Contents[1] = buffer[(buffer_first + 1 - 1) % buffer_size]
    BY <1>1 DEF Contents, BufferTypeOK
  <2> QED
    BY <2>1, <2>2, <2>3
<1>5. \A k \in 1 .. buffer_cnt - 1 :
        (Advance(buffer_first) + k - 1) % buffer_size
            = (buffer_first + (k + 1) - 1) % buffer_size
  <2> TAKE k \in 1 .. buffer_cnt - 1
  <2>1. /\ Advance(buffer_first) + k - 1 = Advance(buffer_first) + (k - 1)
        /\ buffer_first + (k + 1) - 1 = buffer_first + k
        /\ Advance(buffer_first) \in 0 .. buffer_size - 1
    BY AdvanceInRange DEF BufferTypeOK
  <2>2. Advance(buffer_first) = Wrap(buffer_first + 1)
    BY WrapAround DEF Advance, BufferTypeOK
  <2>3. (Advance(buffer_first) + (k - 1)) % buffer_size
          = Wrap(Advance(buffer_first) + (k - 1))
    <3>1. Advance(buffer_first) + (k - 1) \in 0 .. 2 * buffer_size - 1
      BY <2>1 DEF BufferTypeOK
    <3> QED
      BY <3>1, WrapAround
  <2>4. (buffer_first + k) % buffer_size = Wrap(buffer_first + k)
    BY WrapAround DEF BufferTypeOK
  <2>5. (Advance(buffer_first) + (k - 1)) % buffer_size = (buffer_first + k) % buffer_size
    BY <2>1, <2>2, <2>3, <2>4 DEF BufferTypeOK, Wrap
  <2> QED
    BY <2>1, <2>5
<1>6. Contents' = [k \in 1 .. buffer_cnt - 1 |->
                     buffer[(Advance(buffer_first) + k - 1) % buffer_size]]
  BY <1>1 DEF Contents
<1>7. \A k \in 1 .. buffer_cnt - 1 : Contents'[k] = Contents[k + 1]
  <2> TAKE k \in 1 .. buffer_cnt - 1
  <2>1. k + 1 \in 1 .. buffer_cnt
    BY DEF BufferTypeOK
  <2> QED
    BY <1>5, <1>6, <2>1 DEF Contents
<1>8. Contents' = Tail(Contents)
  <2>1. /\ Tail(Contents) \in Seq(Data) /\ Len(Tail(Contents)) = buffer_cnt - 1
        /\ \A k \in 1 .. buffer_cnt - 1 : Tail(Contents)[k] = Contents[k + 1]
    BY <1>3, HeadTailProperties
  <2>2. Contents' \in Seq(Data) /\ Len(Contents') = buffer_cnt - 1
    <3>1. \A k \in 1 .. buffer_cnt - 1 : Contents'[k] \in Data
      BY <1>7, <2>1
    <3> QED
      BY <1>1, <1>6, <3>1 DEF BufferTypeOK
  <2> QED
    BY <1>7, <2>1, <2>2, SeqEqual
<1> QED
  BY <1>2, <1>3, <1>4, <1>8 DEF Queue!Get, remove

\* Every step of the buffer is one of the queue, or nothing to it.
LEMMA QueueStep ==
    QueueInv /\ [BufferNext]_bufferVars => QueueInv' /\ [Queue!Next]_(Queue!vars)
<1> SUFFICES ASSUME QueueInv, [BufferNext]_bufferVars
             PROVE  Circular' /\ [Queue!Next]_(Queue!vars)
  BY BufferStep DEF QueueInv
<1>1. ASSUME UNCHANGED fields PROVE Circular' /\ Contents' = Contents
  BY <1>1, QueueInv DEF fields, QueueInv, Circular, Contents
<1>2. ASSUME UNCHANGED <<fields, item>> PROVE Circular' /\ [Queue!Next]_(Queue!vars)
  BY <1>1, <1>2 DEF Queue!vars
<1>3. ASSUME NEW t \in Threads, NEW d \in Data, CallAppend(t, d)
      PROVE  Circular' /\ [Queue!Next]_(Queue!vars)
  <2>1. Queue!Take(t, d)
    BY <1>1, <1>3 DEF CallAppend, Queue!Take
  <2> QED
    BY <1>1, <1>3, <2>1 DEF CallAppend, Queue!Next
<1>4. ASSUME NEW t \in Threads, append(t) PROVE Circular' /\ [Queue!Next]_(Queue!vars)
  BY <1>4, AppendPuts DEF Queue!Next
<1>5. ASSUME NEW t \in Threads, remove(t) PROVE Circular' /\ [Queue!Next]_(Queue!vars)
  BY <1>5, RemoveGets DEF Queue!Next
<1>6. ASSUME NEW t \in Threads,
             AppendWaits(t) \/ CallRemove(t) \/ RemoveWaits(t) \/ Spurious(t)
      PROVE  Circular' /\ [Queue!Next]_(Queue!vars)
  BY <1>2, <1>6 DEF AppendWaits, CallRemove, RemoveWaits, Spurious
<1>7. CASE UNCHANGED bufferVars
  BY <1>2, <1>7 DEF bufferVars
<1> QED
  BY <1>3, <1>4, <1>5, <1>6, <1>7 DEF BufferNext

\* The buffer begins as an empty queue.
LEMMA QueueInitInv == BufferInit => QueueInv /\ Queue!Init
<1> SUFFICES ASSUME BufferInit PROVE QueueInv /\ Queue!Init
  OBVIOUS
<1>1. IInv /\ BufferTypeOK
  BY BufferInitInv DEF IInv
<1>2. Circular
  BY BufferAssumption DEF BufferInit, Circular
<1>3. Contents \in Seq(Data) /\ Len(Contents) = 0
  BY <1>1, ContentsType DEF BufferInit
<1> QED
  BY <1>1, <1>2, <1>3 DEF QueueInv, Queue!Init, BufferTypeOK

\* For any threads and calls append and remove are those of a bounded FIFO
\* queue: the circular buffer loses, repeats and reorders nothing.
THEOREM BufferIsQueue == BufferSpec => IsQueue
  BY QueueInitInv, QueueStep, PTL DEF BufferSpec, IsQueue, Queue!Spec

\* The program's threads get what a queue gives them.
THEOREM ProgramIsQueue == Spec => IsQueue
<1>1. Init => ProgramInv /\ QueueInv /\ Queue!Init
  BY BufferInitInv, QueueInitInv, ProducerConsumerAssumption DEF Init, ProgramInv
<1>2. ProgramInv /\ QueueInv /\ [Next]_vars
        => (ProgramInv /\ QueueInv)' /\ [Queue!Next]_(Queue!vars)
  BY ProgramUsesBuffer, BufferStep, QueueStep DEF ProgramInv
<1> QED
  BY <1>1, <1>2, PTL DEF Spec, IsQueue, Queue!Spec
-----------------------------------------------------------------------------
\* Where a thread is in its loop says where it is in the buffer: a producer
\* calls append only, a consumer remove only, and outside those it is out.
Stations ==
    /\ pc \in [Threads -> {"top", "append", "isEmpty", "done", "remove", "report", "quit"}]
    /\ \A p \in Producers : at[p] \in IF pc[p] = "append" THEN {"append", "appendWait"}
                                                          ELSE {"out"}
    /\ \A c \in Consumers : at[c] \in IF pc[c] = "remove" THEN {"remove", "removeWait"}
                                                          ELSE {"out"}

\* The threads with an item that is neither in the buffer nor in the file.
Holders == {p \in Producers : pc[p] = "append"} \cup {c \in Consumers : pc[c] = "report"}
Held == {item[t] : t \in Holders}
Inside == {Contents[k] : k \in 1 .. buffer_cnt}

CountInv ==
    /\ ProgramInv /\ QueueInv /\ Stations
    /\ file \in [producing : SUBSET Data, consuming : SUBSET Data]
    /\ Accounted

\* Accounted in these terms.
LEMMA AccountedByParts ==
    Accounted <=> /\ Held \cup Inside \cup file.consuming = 1 .. produced
                  /\ produced = Cardinality(Holders) + buffer_cnt
                                + Cardinality(file.consuming)
  BY DEF Accounted, Held, Inside, Holders

\* A call, a wait and a wakeup leave the threads where their loops say.
LEMMA StationsKept == CountInv /\ [Next]_vars => Stations'
<1> SUFFICES ASSUME CountInv, [Next]_vars PROVE Stations'
  OBVIOUS
<1> USE ProducerConsumerAssumption DEF CountInv, Stations, QueueInv, IInv, BufferTypeOK
<1>1. CASE UNCHANGED vars
  BY <1>1 DEF vars, bufferVars
<1>2. ASSUME NEW p \in Producers, Producer(p) PROVE Stations'
  <2>1. CASE ProducerQuits(p) \/ ReportProduced(p)
    BY <2>1 DEF ProducerQuits, ReportProduced, Goto, bufferVars
  <2>2. CASE Produce(p)
    BY <2>2 DEF Produce, CallAppend, Goto
  <2>3. CASE AppendItem(p)
    <3>1. at[p] = "append" /\ pc' = [pc EXCEPT ![p] = "report"]
      BY <2>3 DEF AppendItem, append, Goto
    <3>2. \/ at' = [at EXCEPT ![p] = "out"]
          \/ \E u \in At("removeWait") : at' = [at EXCEPT ![p] = "out", ![u] = "remove"]
      BY <2>3 DEF AppendItem, append, Signal
    <3> QED
      BY <3>1, <3>2 DEF At
  <2> QED
    BY <1>2, <2>1, <2>2, <2>3 DEF Producer
<1>3. ASSUME NEW c \in Consumers, Consumer(c) PROVE Stations'
  <2>1. CASE LockConsumers(c) \/ CheckEmpty(c) \/ CheckDone(c) \/ ReportConsumed(c)
    BY <2>1 DEF LockConsumers, CheckEmpty, CheckDone, ReportConsumed, Goto, bufferVars
  <2>2. CASE Consume(c)
    BY <2>2 DEF Consume, CallRemove, Goto
  <2>3. CASE RemoveItem(c)
    BY <2>3 DEF RemoveItem, remove, Signal, At, Goto
  <2> QED
    BY <1>3, <2>1, <2>2, <2>3 DEF Consumer
<1>4. ASSUME NEW t \in Threads, Waits(t) \/ WokenForNothing(t) PROVE Stations'
  BY <1>4 DEF Waits, WokenForNothing, AppendWaits, RemoveWaits, Spurious
<1> QED
  BY <1>1, <1>2, <1>3, <1>4 DEF Next

\* The holders are finitely many, and so are the lines of the file.
LEMMA CountsFinite ==
    CountInv => /\ IsFiniteSet(Holders) /\ Cardinality(Holders) \in Nat
                /\ IsFiniteSet(file.consuming) /\ Cardinality(file.consuming) \in Nat
                /\ buffer_cnt \in Nat
<1> SUFFICES ASSUME CountInv
             PROVE  /\ IsFiniteSet(Holders) /\ Cardinality(Holders) \in Nat
                    /\ IsFiniteSet(file.consuming) /\ Cardinality(file.consuming) \in Nat
                    /\ buffer_cnt \in Nat
  OBVIOUS
<1>1. Holders \subseteq Threads
  BY ProducerConsumerAssumption DEF Holders
<1>2. file.consuming \subseteq 1 .. item_size
  BY ProducerConsumerAssumption DEF CountInv
<1>3. IsFiniteSet(1 .. item_size)
  BY ProducerConsumerAssumption, FS_Interval
<1>4. buffer_cnt \in Nat
  BY BufferAssumption DEF CountInv, QueueInv, IInv, BufferTypeOK
<1> QED
  BY <1>1, <1>2, <1>3, <1>4, BufferAssumption, FS_Subset, FS_CardinalityType

\* A function has at most as many values on a finite set as there are members.
LEMMA ImageFinite ==
    ASSUME NEW f, NEW S, IsFiniteSet(S)
    PROVE  /\ IsFiniteSet({f[x] : x \in S}) /\ Cardinality({f[x] : x \in S}) \in Nat
           /\ Cardinality({f[x] : x \in S}) <= Cardinality(S)
<1> DEFINE T == {f[x] : x \in S}
           g == [x \in S |-> f[x]]
<1>1. g \in Surjection(S, T)
  BY DEF Surjection
<1>2. IsFiniteSet(T) /\ Cardinality(T) <= Cardinality(S)
  <2> HIDE DEF T, g
  <2> QED
    BY <1>1, FS_Surjection
<1> QED
  BY <1>2, FS_CardinalityType

\* An item that a consumer is about to report has not been reported: else the
\* numbers produced would be more than the places they are in.
LEMMA NotReportedYet ==
    ASSUME CountInv, NEW c \in Consumers, pc[c] = "report"
    PROVE  item[c] \notin file.consuming
<1> SUFFICES ASSUME item[c] \in file.consuming PROVE FALSE
  OBVIOUS
<1> DEFINE others == Holders \ {c}
           others_items == {item[t] : t \in others}
<1>1. others_items \cup Inside \cup file.consuming = 1 .. produced
  BY AccountedByParts DEF CountInv, Held
<1>2. c \in Holders
  BY DEF Holders
<1>3. /\ IsFiniteSet(others) /\ Cardinality(others) = Cardinality(Holders) - 1
      /\ Cardinality(others) \in Nat
  BY <1>2, CountsFinite, FS_RemoveElement, FS_CardinalityType
<1>4. /\ IsFiniteSet(others_items) /\ Cardinality(others_items) <= Cardinality(others)
      /\ Cardinality(others_items) \in Nat
  BY <1>3, ImageFinite
<1>5. IsFiniteSet(Inside) /\ Cardinality(Inside) <= buffer_cnt /\ Cardinality(Inside) \in Nat
  <2>1. IsFiniteSet(1 .. buffer_cnt) /\ Cardinality(1 .. buffer_cnt) = buffer_cnt
    BY CountsFinite, FS_Interval
  <2> QED
    BY <2>1, ImageFinite DEF Inside
<1>6. /\ IsFiniteSet(others_items \cup Inside)
      /\ Cardinality(others_items \cup Inside) \in Nat
      /\ Cardinality(others_items \cup Inside)
            <= Cardinality(others_items) + Cardinality(Inside)
  <2>1. /\ IsFiniteSet(others_items \cup Inside) /\ IsFiniteSet(others_items \cap Inside)
        /\ Cardinality(others_items \cup Inside) = Cardinality(others_items)
             + Cardinality(Inside) - Cardinality(others_items \cap Inside)
    BY <1>4, <1>5, FS_Union, FS_Intersection
  <2>2. /\ Cardinality(others_items \cup Inside) \in Nat
        /\ Cardinality(others_items \cap Inside) \in Nat
    BY <2>1, FS_CardinalityType
  <2> HIDE DEF others_items
  <2> QED
    BY <1>4, <1>5, <2>1, <2>2
<1>7. Cardinality((others_items \cup Inside) \cup file.consuming)
        <= Cardinality(others_items \cup Inside) + Cardinality(file.consuming)
  <2> DEFINE S == others_items \cup Inside
             T == file.consuming
  <2>1. IsFiniteSet(S) /\ IsFiniteSet(T) /\ Cardinality(S) \in Nat /\ Cardinality(T) \in Nat
    BY <1>6, CountsFinite
  <2> HIDE DEF S, T
  <2>2. /\ IsFiniteSet(S \cap T) /\ Cardinality(S \cap T) \in Nat
        /\ Cardinality(S \cup T) = Cardinality(S) + Cardinality(T) - Cardinality(S \cap T)
    BY <2>1, FS_Union, FS_Intersection, FS_CardinalityType
  <2>3. Cardinality(S \cup T) <= Cardinality(S) + Cardinality(T)
    BY <2>1, <2>2
  <2> QED
    BY <2>3 DEF S, T
<1>8. Cardinality(1 .. produced) = produced /\ produced \in Nat
  <2>1. produced \in Nat
    BY ProducerConsumerAssumption DEF CountInv, ProgramInv
  <2> QED
    BY <2>1, FS_Interval
<1>9. produced = Cardinality(Holders) + buffer_cnt + Cardinality(file.consuming)
  BY AccountedByParts DEF CountInv
<1>10. /\ Cardinality(Holders) \in Nat /\ Cardinality(file.consuming) \in Nat
       /\ buffer_cnt \in Nat
  BY CountsFinite
<1>11. produced <= Cardinality(others_items \cup Inside) + Cardinality(file.consuming)
  BY <1>1, <1>7, <1>8
<1> HIDE DEF others, others_items
<1> QED
  BY <1>3, <1>4, <1>5, <1>6, <1>8, <1>9, <1>10, <1>11

\* The four steps that move an item.
LEMMA ProduceCounted ==
    ASSUME CountInv, NEW p \in Producers, Produce(p)
    PROVE  Accounted'
<1> USE ProducerConsumerAssumption
<1>1. /\ pc[p] = "top" /\ pc' = [pc EXCEPT ![p] = "append"]
      /\ item' = [item EXCEPT ![p] = produced + 1] /\ produced' = produced + 1
      /\ UNCHANGED <<fields, file>>
  BY DEF Produce, CallAppend, Goto, Number
<1>2. p \notin Holders /\ Holders' = Holders \cup {p}
  BY <1>1 DEF Holders, CountInv, Stations
<1>3. Held' = Held \cup {produced + 1}
  <2>1. \A t \in Holders : item'[t] = item[t]
    BY <1>1, <1>2 DEF Held, Holders, CountInv, QueueInv, IInv, BufferTypeOK
  <2>2. item'[p] = produced + 1
    BY <1>1 DEF CountInv, QueueInv, IInv, BufferTypeOK
  <2> QED
    BY <1>2, <2>1, <2>2 DEF Held
<1>4. Inside' = Inside /\ buffer_cnt' = buffer_cnt
  BY <1>1 DEF Inside, Contents, fields
<1>5. Cardinality(Holders') = Cardinality(Holders) + 1
  BY <1>2, CountsFinite, FS_AddElement
<1>6. 1 .. produced + 1 = (1 .. produced) \cup {produced + 1} /\ produced \in Nat
  BY DEF CountInv, ProgramInv
<1>7. /\ Held' \cup Inside' \cup file'.consuming = 1 .. produced'
      /\ produced' = Cardinality(Holders') + buffer_cnt' + Cardinality(file'.consuming)
  <2>1. /\ Held \cup Inside \cup file.consuming = 1 .. produced
        /\ produced = Cardinality(Holders) + buffer_cnt + Cardinality(file.consuming)
    BY AccountedByParts DEF CountInv
  <2>2. Held' \cup Inside' \cup file'.consuming = 1 .. produced'
    BY <1>1, <1>3, <1>4, <1>6, <2>1
  <2>3. file'.consuming = file.consuming /\ produced' = produced + 1
    BY <1>1
  <2>4. Cardinality(Holders) \in Nat /\ Cardinality(file.consuming) \in Nat /\ buffer_cnt \in Nat
    BY CountsFinite DEF CountInv, QueueInv, IInv, BufferTypeOK
  <2>5. produced' = Cardinality(Holders') + buffer_cnt' + Cardinality(file'.consuming)
    BY <1>4, <1>5, <2>1, <2>3, <2>4
  <2> QED
    BY <2>2, <2>5
<1> QED
  BY <1>7 DEF Accounted, Held, Inside, Holders

LEMMA AppendCounted ==
    ASSUME CountInv, NEW p \in Producers, AppendItem(p)
    PROVE  Accounted'
<1> USE ProducerConsumerAssumption
<1>1. /\ at[p] = "append" /\ pc' = [pc EXCEPT ![p] = "report"]
      /\ buffer_cnt' = buffer_cnt + 1 /\ UNCHANGED <<item, file, produced>>
  BY DEF AppendItem, append, Goto
<1>2. p \in Holders /\ Holders' = Holders \ {p}
  BY <1>1 DEF Holders, CountInv, Stations
<1>3. Held = Held' \cup {item[p]}
  BY <1>1, <1>2 DEF Held
<1>4. Inside' = Inside \cup {item[p]}
  <2>1. Contents' = Append(Contents, item[p])
    BY AppendPuts DEF AppendItem, CountInv, Queue!Put
  <2>2. Contents \in Seq(Data) /\ Len(Contents) = buffer_cnt /\ item[p] \in Data
    BY ContentsType DEF CountInv, QueueInv, IInv, BufferTypeOK
  <2>3. /\ \A k \in 1 .. buffer_cnt : Contents'[k] = Contents[k]
        /\ Contents'[buffer_cnt + 1] = item[p]
    BY <2>1, <2>2, AppendProperties
  <2>4. 1 .. buffer_cnt + 1 = (1 .. buffer_cnt) \cup {buffer_cnt + 1}
    BY CountsFinite
  <2> QED
    BY <1>1, <2>3, <2>4 DEF Inside
<1>5. Cardinality(Holders') = Cardinality(Holders) - 1
  BY <1>2, CountsFinite, FS_RemoveElement
<1>6. /\ Held' \cup Inside' \cup file'.consuming = 1 .. produced'
      /\ produced' = Cardinality(Holders') + buffer_cnt' + Cardinality(file'.consuming)
  <2>1. /\ Held \cup Inside \cup file.consuming = 1 .. produced
        /\ produced = Cardinality(Holders) + buffer_cnt + Cardinality(file.consuming)
    BY AccountedByParts DEF CountInv
  <2>2. Held' \cup Inside' \cup file'.consuming = 1 .. produced'
    BY <1>1, <1>3, <1>4, <2>1
  <2> QED
    BY <1>1, <1>5, <2>1, <2>2, CountsFinite
<1> QED
  BY <1>6 DEF Accounted, Held, Inside, Holders

LEMMA RemoveCounted ==
    ASSUME CountInv, NEW c \in Consumers, RemoveItem(c)
    PROVE  Accounted'
<1> USE ProducerConsumerAssumption
<1>1. /\ at[c] = "remove" /\ pc' = [pc EXCEPT ![c] = "report"]
      /\ buffer_cnt' = buffer_cnt - 1 /\ UNCHANGED <<file, produced>>
  BY DEF RemoveItem, remove, Goto
<1>2. c \notin Holders /\ Holders' = Holders \cup {c}
  BY <1>1 DEF Holders, CountInv, Stations
<1>3. /\ Contents # <<>> /\ item' = [item EXCEPT ![c] = Head(Contents)]
      /\ Contents' = Tail(Contents)
  BY RemoveGets DEF RemoveItem, CountInv, Queue!Get
<1>4. Held' = Held \cup {Head(Contents)}
  <2>1. \A t \in Holders : item'[t] = item[t]
    BY <1>2, <1>3 DEF Holders, CountInv, QueueInv, IInv, BufferTypeOK
  <2>2. item'[c] = Head(Contents)
    BY <1>3 DEF CountInv, QueueInv, IInv, BufferTypeOK
  <2> QED
    BY <1>2, <2>1, <2>2 DEF Held
<1>5. Inside = Inside' \cup {Head(Contents)}
  <2>1. Contents \in Seq(Data) /\ Len(Contents) = buffer_cnt /\ buffer_cnt \in Nat
    BY ContentsType, CountsFinite DEF CountInv, QueueInv, IInv
  <2>2. buffer_cnt # 0
    BY <1>3, <2>1
  <2>3. /\ \A k \in 1 .. buffer_cnt - 1 : Contents'[k] = Contents[k + 1]
        /\ Head(Contents) = Contents[1]
    BY <1>3, <2>1, <2>2, HeadTailProperties
  <2>4. Inside' = {Contents[k + 1] : k \in 1 .. buffer_cnt - 1}
    BY <1>1, <2>3 DEF Inside
  <2>5. ASSUME NEW k \in 1 .. buffer_cnt PROVE Contents[k] \in Inside' \cup {Head(Contents)}
    <3>1. CASE k = 1
      BY <2>3, <3>1
    <3>2. CASE k # 1
      <4>1. k - 1 \in 1 .. buffer_cnt - 1 /\ (k - 1) + 1 = k
        BY <2>1, <3>2
      <4> QED
        BY <2>4, <4>1
    <3> QED
      BY <3>1, <3>2
  <2>6. ASSUME NEW k \in 1 .. buffer_cnt - 1 PROVE Contents[k + 1] \in Inside
    <3>1. k + 1 \in 1 .. buffer_cnt
      BY <2>1
    <3> QED
      BY <3>1 DEF Inside
  <2>7. Head(Contents) \in Inside
    <3>1. 1 \in 1 .. buffer_cnt
      BY <2>1, <2>2
    <3> QED
      BY <2>3, <3>1 DEF Inside
  <2>8. Inside \subseteq Inside' \cup {Head(Contents)}
    <3> SUFFICES ASSUME NEW d \in Inside PROVE d \in Inside' \cup {Head(Contents)}
      OBVIOUS
    <3>1. PICK k \in 1 .. buffer_cnt : d = Contents[k]
      BY DEF Inside
    <3> QED
      BY <2>5, <3>1
  <2>9. Inside' \subseteq Inside
    <3> SUFFICES ASSUME NEW d \in Inside' PROVE d \in Inside
      OBVIOUS
    <3>1. PICK k \in 1 .. buffer_cnt - 1 : d = Contents[k + 1]
      BY <2>4
    <3> QED
      BY <2>6, <3>1
  <2> QED
    BY <2>7, <2>8, <2>9
<1>6. Cardinality(Holders') = Cardinality(Holders) + 1
  BY <1>2, CountsFinite, FS_AddElement
<1>7. /\ Held' \cup Inside' \cup file'.consuming = 1 .. produced'
      /\ produced' = Cardinality(Holders') + buffer_cnt' + Cardinality(file'.consuming)
  <2>1. /\ Held \cup Inside \cup file.consuming = 1 .. produced
        /\ produced = Cardinality(Holders) + buffer_cnt + Cardinality(file.consuming)
    BY AccountedByParts DEF CountInv
  <2>2. Held' \cup Inside' \cup file'.consuming = 1 .. produced'
    BY <1>1, <1>4, <1>5, <2>1
  <2> QED
    BY <1>1, <1>6, <2>1, <2>2, CountsFinite
<1> QED
  BY <1>7 DEF Accounted, Held, Inside, Holders

LEMMA ReportCounted ==
    ASSUME CountInv, NEW c \in Consumers, ReportConsumed(c)
    PROVE  Accounted'
<1> USE ProducerConsumerAssumption
<1>1. /\ pc[c] = "report" /\ pc' = [pc EXCEPT ![c] = "top"]
      /\ file'.consuming = file.consuming \cup {item[c]}
      /\ UNCHANGED <<fields, item, produced>>
  BY DEF ReportConsumed, Goto, bufferVars, CountInv
<1>2. c \in Holders /\ Holders' = Holders \ {c}
  BY <1>1 DEF Holders, CountInv, Stations
<1>3. Held = Held' \cup {item[c]}
  BY <1>1, <1>2 DEF Held
<1>4. Inside' = Inside /\ buffer_cnt' = buffer_cnt
  BY <1>1 DEF Inside, Contents, fields
<1>5. /\ Cardinality(Holders') = Cardinality(Holders) - 1
      /\ Cardinality(file'.consuming) = Cardinality(file.consuming) + 1
  <2>1. Cardinality(Holders') = Cardinality(Holders) - 1
    BY <1>2, CountsFinite, FS_RemoveElement
  <2>2. item[c] \notin file.consuming
    BY <1>1, NotReportedYet
  <2>3. IsFiniteSet(file.consuming)
    BY CountsFinite
  <2>4. Cardinality(file'.consuming) = Cardinality(file.consuming) + 1
    BY <1>1, <2>2, <2>3, FS_AddElement
  <2> QED
    BY <2>1, <2>4
<1>6. /\ Held' \cup Inside' \cup file'.consuming = 1 .. produced'
      /\ produced' = Cardinality(Holders') + buffer_cnt' + Cardinality(file'.consuming)
  <2>1. /\ Held \cup Inside \cup file.consuming = 1 .. produced
        /\ produced = Cardinality(Holders) + buffer_cnt + Cardinality(file.consuming)
    BY AccountedByParts DEF CountInv
  <2>2. Held' \cup Inside' \cup file'.consuming = 1 .. produced'
    BY <1>1, <1>3, <1>4, <2>1
  <2> QED
    BY <1>1, <1>4, <1>5, <2>1, <2>2, CountsFinite
<1> QED
  BY <1>6 DEF Accounted, Held, Inside, Holders

\* The other steps move none.
LEMMA OthersCounted ==
    ASSUME CountInv,
           UNCHANGED <<fields, item, produced, file>>, Holders' = Holders
    PROVE  Accounted'
<1>1. Inside' = Inside /\ Held' = Held /\ buffer_cnt' = buffer_cnt
  BY DEF Inside, Contents, fields, Held
<1>2. /\ Held' \cup Inside' \cup file'.consuming = 1 .. produced'
      /\ produced' = Cardinality(Holders') + buffer_cnt' + Cardinality(file'.consuming)
  BY <1>1, AccountedByParts DEF CountInv
<1> QED
  BY <1>2 DEF Accounted, Held, Inside, Holders

\* The report of a producer is only a line more in the file.
LEMMA ReportProducedCounted ==
    ASSUME CountInv, NEW p \in Producers, ReportProduced(p)
    PROVE  Accounted'
<1>1. /\ UNCHANGED <<fields, item, produced>> /\ file'.consuming = file.consuming
      /\ pc[p] = "report" /\ pc' = [pc EXCEPT ![p] = "top"]
  BY DEF ReportProduced, bufferVars, CountInv, Goto
<1>2. Holders' = Holders
  BY <1>1, ProducerConsumerAssumption DEF Holders, CountInv, Stations
<1>3. Inside' = Inside /\ Held' = Held /\ buffer_cnt' = buffer_cnt
  BY <1>1, <1>2 DEF Inside, Contents, fields, Held
<1>4. /\ Held' \cup Inside' \cup file'.consuming = 1 .. produced'
      /\ produced' = Cardinality(Holders') + buffer_cnt' + Cardinality(file'.consuming)
  BY <1>1, <1>2, <1>3, AccountedByParts DEF CountInv
<1> QED
  BY <1>4 DEF Accounted, Held, Inside, Holders

\* Every step accounts for every item.
LEMMA AccountedKept == CountInv /\ [Next]_vars => Accounted'
<1> SUFFICES ASSUME CountInv, [Next]_vars PROVE Accounted'
  OBVIOUS
<1> USE ProducerConsumerAssumption
<1>1. CASE UNCHANGED vars
  BY <1>1, OthersCounted DEF vars, bufferVars, Holders
<1>2. ASSUME NEW p \in Producers, ProducerQuits(p) PROVE Accounted'
  <2>1. UNCHANGED <<fields, item, produced, file>> /\ Holders' = Holders
    BY <1>2 DEF ProducerQuits, Goto, bufferVars, Holders, CountInv, Stations
  <2> QED
    BY <2>1, OthersCounted
<1>3. ASSUME NEW c \in Consumers,
             LockConsumers(c) \/ CheckEmpty(c) \/ CheckDone(c) \/ Consume(c)
      PROVE  Accounted'
  <2>1. UNCHANGED <<fields, item, produced, file>>
    BY <1>3 DEF LockConsumers, CheckEmpty, CheckDone, Consume, CallRemove, bufferVars
  <2>2. \E label \in {"isEmpty", "done", "quit", "remove"} :
            pc[c] # "report" /\ pc' = [pc EXCEPT ![c] = label]
    BY <1>3 DEF LockConsumers, CheckEmpty, CheckDone, Consume, Goto
  <2>3. Holders' = Holders
    BY <2>2 DEF Holders, CountInv, Stations
  <2> QED
    BY <2>1, <2>3, OthersCounted
<1>4. ASSUME NEW t \in Threads, Waits(t) \/ WokenForNothing(t) PROVE Accounted'
  <2>1. UNCHANGED <<fields, item, produced, file>> /\ Holders' = Holders
    BY <1>4 DEF Waits, WokenForNothing, AppendWaits, RemoveWaits, Spurious, Holders
  <2> QED
    BY <2>1, OthersCounted
<1> QED
  BY <1>1, <1>2, <1>3, <1>4, ProduceCounted, AppendCounted, ReportProducedCounted,
     RemoveCounted, ReportCounted DEF Next, Producer, Consumer

\* The lines of the file are numbers of items.
LEMMA FileKept ==
    CountInv /\ [Next]_vars => file' \in [producing : SUBSET Data, consuming : SUBSET Data]
<1> SUFFICES ASSUME CountInv, [Next]_vars
             PROVE  file' \in [producing : SUBSET Data, consuming : SUBSET Data]
  OBVIOUS
<1>1. \A t \in Threads : item[t] \in Data
  BY DEF CountInv, QueueInv, IInv, BufferTypeOK
<1>2. ASSUME NEW p \in Producers, Producer(p)
      PROVE  file' \in [producing : SUBSET Data, consuming : SUBSET Data]
  BY <1>1, <1>2, ProducerConsumerAssumption
     DEF CountInv, Producer, ProducerQuits, Produce, AppendItem, ReportProduced
<1>3. ASSUME NEW c \in Consumers, Consumer(c)
      PROVE  file' \in [producing : SUBSET Data, consuming : SUBSET Data]
  BY <1>1, <1>3, ProducerConsumerAssumption
     DEF CountInv, Consumer, LockConsumers, CheckEmpty, CheckDone, Consume, RemoveItem,
         ReportConsumed
<1>4. CASE UNCHANGED vars \/ \E t \in Threads : Waits(t) \/ WokenForNothing(t)
  BY <1>4 DEF CountInv, vars, Waits, WokenForNothing
<1> QED
  BY <1>2, <1>3, <1>4 DEF Next

\* At the start no item is anywhere.
LEMMA CountInit == Init => CountInv
<1> SUFFICES ASSUME Init PROVE CountInv
  OBVIOUS
<1>1. ProgramInv /\ QueueInv
  BY BufferInitInv, QueueInitInv, ProducerConsumerAssumption DEF Init, ProgramInv
<1>2. Stations
  BY ProducerConsumerAssumption DEF Init, BufferInit, Stations
<1>3. /\ file \in [producing : SUBSET Data, consuming : SUBSET Data]
      /\ file.consuming = {} /\ produced = 0 /\ buffer_cnt = 0
  BY DEF Init, BufferInit
<1>4. Holders = {}
  BY ProducerConsumerAssumption DEF Init, Holders
<1>5. Held = {} /\ Inside = {}
  BY <1>3, <1>4 DEF Held, Inside
<1>6. Cardinality({}) = 0
  BY FS_EmptySet
<1>7. Accounted
  BY <1>3, <1>4, <1>5, <1>6, AccountedByParts
<1> QED
  BY <1>1, <1>2, <1>3, <1>7 DEF CountInv

\* For any number of producers, consumers, items and places every number
\* produced is in exactly one place at any time: none is lost, doubled or
\* reported twice.
THEOREM NothingLost == Spec => []Accounted
<1>1. CountInv /\ [Next]_vars => CountInv'
  BY ProgramUsesBuffer, BufferStep, QueueStep, StationsKept, FileKept, AccountedKept
     DEF CountInv, ProgramInv
<1>2. CountInv => Accounted
  BY DEF CountInv
<1> QED
  BY CountInit, <1>1, <1>2, PTL DEF Spec
-----------------------------------------------------------------------------
(***************************************************************************)
(* The shell.                                                              *)
(***************************************************************************)
\* The calls a process may have left, by what is known of its descriptors then:
\* those from 3 on are closed; 0 or 1 is free too; they are the ends of the pipe;
\* both; only the write end is open.
Ends(c) == <<With("closep", 1), With("closep", 2), Run(c)>>
LeftList(c) == <<With("close", 1), With("dup", 2), With("closep", 1), With("closep", 2), Run(c)>>
RightList(c) == <<With("close", 0), With("dup", 1), With("closep", 1), With("closep", 2), Run(c)>>

ChildLists == {Exits} \cup {<<Run(c)>> : c \in Commands}
CleanLists ==
    {<<Do("prompt")>>, <<Do("wait"), Do("prompt")>>, <<Do("wait"), Do("exit")>>,
     <<Do("wait"), Do("wait"), Do("exit")>>}
    \cup {<<With("fork", x), Do("wait"), Do("prompt")>> : x \in ChildLists}
    \cup {<<Run(c)>> : c \in Commands} \cup {<<Do("wait"), Run(c)>> : c \in Commands}
    \cup {<<With("exec", c.argv[1]), Do("exit")>> : c \in {d \in Commands : d.type = "EXEC" /\ d.argv # <<>>}}
    \cup {<<With("close", k), Do("open"), Run(c)>> : k \in 0 .. 1, c \in Commands}
    \cup {<<With("fork", <<Run(c)>>), Do("wait"), Run(d)>> : c, d \in Commands}
    \cup {<<With("fork", <<Run(c)>>), Do("exit")>> : c \in Commands}
    \cup {<<Do("pipe"), With("fork", LeftList(c)), With("fork", RightList(d)), With("closep", 1),
            With("closep", 2), Do("wait"), Do("wait"), Do("exit")>> : c, d \in Commands}
OpenLists == {<<Do("open"), Run(c)>> : c \in Commands}
PipedLists ==
    {<<With("closep", 1), With("closep", 2), Do("wait"), Do("wait"), Do("exit")>>}
    \cup {<<With("fork", LeftList(c)), With("fork", RightList(d)), With("closep", 1),
            With("closep", 2), Do("wait"), Do("wait"), Do("exit")>> : c, d \in Commands}
    \cup {<<With("fork", RightList(c)), With("closep", 1), With("closep", 2), Do("wait"), Do("wait"),
            Do("exit")>> : c \in Commands}
    \cup {LeftList(c) : c \in Commands} \cup {RightList(c) : c \in Commands} \cup {Ends(c) : c \in Commands}
DupLists ==
    {<<With("dup", k), With("closep", 1), With("closep", 2), Run(c)>> : k \in 1 .. 2, c \in Commands}
HalfLists ==
    {<<With("closep", 2), Do("wait"), Do("wait"), Do("exit")>>}
    \cup {<<With("closep", 2), Run(c)>> : c \in Commands}
CallLists == {<<>>, Exits} \cup CleanLists \cup OpenLists \cup PipedLists \cup DupLists \cup HalfLists

\* Of the descriptors a from 3 on, only those in E may be open.
Only(a, E) == \A k \in Fds : k > 2 /\ k \notin E => a[k] = 0
LowFree(a) == a[0] = 0 \/ a[1] = 0

\* The descriptors a and the array p of a process with calls l left.
Shape(a, p, l) ==
    \/ l = Exits
    \/ l \in CleanLists /\ Only(a, {})
    \/ l \in OpenLists /\ Only(a, {}) /\ LowFree(a)
    \/ l \in PipedLists /\ Only(a, {p[1], p[2]})
    \/ l \in DupLists /\ Only(a, {p[1], p[2]}) /\ LowFree(a)
    \/ l \in HalfLists /\ Only(a, {p[2]})

FdArrays == [Fds -> 0 .. NFILE]
ProcType == [state : {"unused", "runs", "filter", "program", "zombie", "panic"}, parent : ShProcs \cup {0},
             calls : CallLists, ofile : FdArrays, p : Fds \X Fds]
FileType == [type : {"none", "dev", "inode", "pipe"}, ref : Nat, pipe : 0 .. NPipes, end : {"r", "w"}]

ProcRight(s) ==
    IF s.state \in {"unused", "zombie", "panic"} THEN s.ofile = NoFds
    ELSE Shape(s.ofile, s.p, s.calls) /\ (s.state # "runs" => s.calls = Exits)

\* The descriptors of the processes with arrays O that refer to a file.
RefsIn(O, f) == {o \in ShProcs \X Fds : O[o[1]][o[2]] = f}
Extra(f) == IF f = 1 THEN 3 ELSE 0
RefsRight(O, F) == \A f \in FileIds : F[f].ref = Cardinality(RefsIn(O, f)) + Extra(f)

\* The ends of a pipe that files F have; each is a file of its own.
EndsOf(F, i) == {F[f].end : f \in {g \in FileIds : F[g].type = "pipe" /\ F[g].pipe = i}}
EndsRight(F, P) == \A i \in PipeIds : P[i] = EndsOf(F, i)
FilesRight(F) ==
    /\ F \in [FileIds -> FileType]
    /\ \A f \in FileIds : /\ F[f].ref = 0 => F[f] = ClosedFile
                          /\ F[f].type = "pipe" <=> F[f].pipe # 0
    /\ \A f, g \in FileIds : F[f].type = "pipe" /\ F[g].type = "pipe" /\ F[f].pipe = F[g].pipe
                             /\ F[f].end = F[g].end => f = g

OfilesOf(s) == [q \in ShProcs |-> s[q].ofile]

\* Processes S, files F and pipes P.
ProcsRight(S) == S \in [ShProcs -> ProcType] /\ \A q \in ShProcs : ProcRight(S[q])
ShellRight(S, F, P) ==
    /\ ProcsRight(S) /\ P \in [PipeIds -> SUBSET {"r", "w"}]
    /\ RefsRight(OfilesOf(S), F) /\ FilesRight(F) /\ EndsRight(F, P)

ShellInv == ShellRight(sh, ftable, pipes)
-----------------------------------------------------------------------------
\* A set of natural numbers has a least one.
LEMMA LeastNatural ==
    ASSUME NEW T \in SUBSET Nat, T # {}
    PROVE  \E x \in T : \A y \in T : x <= y
<1>1. IsWellFoundedOn(OpToRel(<, Nat), Nat)
  BY NatLessThanWellFounded
<1>2. PICK x \in T : \A y \in T : ~ (<<y, x>> \in OpToRel(<, Nat))
  BY <1>1, WFMin
<1>3. \A y \in T : ~ (<<y, x>> \in {ss \in Nat \X Nat : ss[1] < ss[2]})
  BY <1>2, Zenon DEF OpToRel
<1>4. \A y \in T : ~ (y < x)
  BY <1>3
<1> QED
  BY <1>4

\* The first call and those after it.
LEMMA Lists1 ==
    ASSUME NEW a
    PROVE  <<a>> # <<>> /\ Head(<<a>>) = a /\ Tail(<<a>>) = <<>>
  OBVIOUS

LEMMA Lists2 ==
    ASSUME NEW a, NEW b
    PROVE  <<a, b>> # <<>> /\ Head(<<a, b>>) = a /\ Tail(<<a, b>>) = <<b>>
  OBVIOUS

LEMMA Lists3 ==
    ASSUME NEW a, NEW b, NEW c
    PROVE  <<a, b, c>> # <<>> /\ Head(<<a, b, c>>) = a /\ Tail(<<a, b, c>>) = <<b, c>>
  OBVIOUS

LEMMA Lists4 ==
    ASSUME NEW a, NEW b, NEW c, NEW d
    PROVE  <<a, b, c, d>> # <<>> /\ Head(<<a, b, c, d>>) = a /\ Tail(<<a, b, c, d>>) = <<b, c, d>>
  OBVIOUS

LEMMA Lists5 ==
    ASSUME NEW a, NEW b, NEW c, NEW d, NEW e
    PROVE  <<a, b, c, d, e>> # <<>> /\ Head(<<a, b, c, d, e>>) = a /\ Tail(<<a, b, c, d, e>>) = <<b, c, d, e>>
  OBVIOUS

LEMMA Lists6 ==
    ASSUME NEW a, NEW b, NEW c, NEW d, NEW e, NEW f
    PROVE  /\ <<a, b, c, d, e, f>> # <<>> /\ Head(<<a, b, c, d, e, f>>) = a
           /\ Tail(<<a, b, c, d, e, f>>) = <<b, c, d, e, f>>
  OBVIOUS

LEMMA Lists7 ==
    ASSUME NEW a, NEW b, NEW c, NEW d, NEW e, NEW f, NEW g
    PROVE  /\ <<a, b, c, d, e, f, g>> # <<>> /\ Head(<<a, b, c, d, e, f, g>>) = a
           /\ Tail(<<a, b, c, d, e, f, g>>) = <<b, c, d, e, f, g>>
  OBVIOUS

LEMMA Lists8 ==
    ASSUME NEW a, NEW b, NEW c, NEW d, NEW e, NEW f, NEW g, NEW h
    PROVE  /\ <<a, b, c, d, e, f, g, h>> # <<>> /\ Head(<<a, b, c, d, e, f, g, h>>) = a
           /\ Tail(<<a, b, c, d, e, f, g, h>>) = <<b, c, d, e, f, g, h>>
  OBVIOUS

LEMMA JoinedIs ==
    ASSUME NEW S, NEW s \in Seq(S), NEW t \in Seq(S), NEW u \in Seq(S), Len(u) = Len(s) + Len(t),
           \A i \in 1 .. Len(s) : u[i] = s[i], \A i \in 1 .. Len(t) : u[Len(s) + i] = t[i]
    PROVE  s \o t = u
<1>1. /\ s \o t \in Seq(S) /\ Len(s \o t) = Len(u)
      /\ \A i \in 1 .. Len(u) : (s \o t)[i] = IF i <= Len(s) THEN s[i] ELSE t[i - Len(s)]
  BY ConcatProperties
<1>2. ASSUME NEW i \in 1 .. Len(u) PROVE (s \o t)[i] = u[i]
  <2>1. Len(s) \in Nat /\ Len(t) \in Nat
    OBVIOUS
  <2>2. CASE i <= Len(s)
    BY <1>1, <2>1, <2>2
  <2>3. CASE i > Len(s)
    <3>1. i - Len(s) \in 1 .. Len(t) /\ Len(s) + (i - Len(s)) = i
      BY <2>1, <2>3
    <3> QED
      BY <1>1, <2>1, <2>3, <3>1
  <2> QED
    BY <2>1, <2>2, <2>3
<1> QED
  BY <1>1, <1>2, SeqEqual

LEMMA JoinedThree ==
    ASSUME NEW a, NEW b, NEW c
    PROVE  <<a, b>> \o <<c>> = <<a, b, c>>
<1>1. PICK S : S = {a, b, c}
  OBVIOUS
<1>2. <<a, b>> \in Seq(S) /\ <<c>> \in Seq(S) /\ <<a, b, c>> \in Seq(S)
  BY <1>1
<1>3. /\ Len(<<a, b, c>>) = Len(<<a, b>>) + Len(<<c>>)
      /\ \A i \in 1 .. Len(<<a, b>>) : <<a, b, c>>[i] = <<a, b>>[i]
      /\ \A i \in 1 .. Len(<<c>>) : <<a, b, c>>[Len(<<a, b>>) + i] = <<c>>[i]
  OBVIOUS
<1> QED
  BY <1>2, <1>3, JoinedIs

LEMMA Appended ==
    ASSUME NEW a, NEW b, NEW c, NEW d, NEW e
    PROVE  Append(<<a, b, c, d>>, e) = <<a, b, c, d, e>>
<1>1. PICK S : S = {a, b, c, d, e}
  OBVIOUS
<1>2. PICK s, t, u : s = <<a, b, c, d>> /\ t = Append(s, e) /\ u = <<a, b, c, d, e>>
  OBVIOUS
<1>3. /\ s \in Seq(S) /\ u \in Seq(S) /\ e \in S /\ Len(s) = 4 /\ Len(u) = 5
      /\ \A i \in 1 .. 4 : u[i] = s[i]
  BY <1>1, <1>2
<1>4. u[5] = e
  BY <1>2
<1>5. t \in Seq(S) /\ Len(t) = 5 /\ (\A i \in 1 .. 4 : t[i] = s[i]) /\ t[5] = e
  BY <1>2, <1>3, AppendProperties
<1>6. \A i \in 1 .. 5 : t[i] = u[i]
  BY <1>3, <1>4, <1>5
<1>7. t = u
  BY <1>3, <1>5, <1>6, SeqEqual
<1> QED
  BY <1>2, <1>7

LEMMA Joined ==
    ASSUME NEW a, NEW b, NEW c, NEW d, NEW e, NEW f, NEW g, NEW h
    PROVE  (<<a, b, c>> \o <<d, e>>) \o <<f, g, h>> = <<a, b, c, d, e, f, g, h>>
<1>1. PICK S : S = {a, b, c, d, e, f, g, h}
  OBVIOUS
<1>2. /\ <<a, b>> \in Seq(S) /\ <<c>> \in Seq(S) /\ <<a, b, c>> \in Seq(S) /\ <<d, e>> \in Seq(S)
      /\ <<a, b, c, d>> \in Seq(S) /\ <<e>> \in Seq(S)
      /\ <<f, g, h>> \in Seq(S) /\ <<a, b, c, d, e>> \in Seq(S) /\ <<a, b, c, d, e, f, g, h>> \in Seq(S)
  BY <1>1
<1>3. <<a, b, c>> \o <<d, e>> = <<a, b, c, d, e>>
  <2>1. PICK s, t, u : s = <<a, b, c>> /\ t = <<d, e>> /\ u = <<a, b, c, d, e>>
    OBVIOUS
  <2>2. s \in Seq(S) /\ t \in Seq(S) /\ u \in Seq(S)
    BY <1>2, <2>1
  <2>3. /\ Len(u) = Len(s) + Len(t) /\ \A i \in 1 .. Len(s) : u[i] = s[i]
        /\ \A i \in 1 .. Len(t) : u[Len(s) + i] = t[i]
    BY <2>1
  <2>4. s \o t = u
    BY ONLY <2>2, <2>3, JoinedIs
  <2> QED
    BY <2>1, <2>4
<1>4. <<a, b, c, d, e>> \o <<f, g, h>> = <<a, b, c, d, e, f, g, h>>
  <2>1. PICK s, t, u : s = <<a, b, c, d, e>> /\ t = <<f, g, h>> /\ u = <<a, b, c, d, e, f, g, h>>
    OBVIOUS
  <2>2. s \in Seq(S) /\ t \in Seq(S) /\ u \in Seq(S)
    BY <1>2, <2>1
  <2>3. /\ Len(u) = Len(s) + Len(t) /\ \A i \in 1 .. Len(s) : u[i] = s[i]
        /\ \A i \in 1 .. Len(t) : u[Len(s) + i] = t[i]
    BY <2>1
  <2>4. s \o t = u
    BY ONLY <2>2, <2>3, JoinedIs
  <2> QED
    BY <2>1, <2>4
<1> QED
  BY <1>3, <1>4

\* What the first call h and the others t say of the descriptors.
ByCall(a, p, h, t) ==
    \/ h.op = "exit"
    \/ h.op = "prompt" /\ Only(a, {})
    \/ h.op = "wait" /\ Only(a, {}) /\ t \in CleanLists \cup {Exits}
    \/ h.op = "runcmd" /\ Only(a, {}) /\ h.arg \in Commands
    \/ h.op = "exec"
    \/ h.op = "close" /\ h.arg \in 0 .. 1 /\ Only(a, {}) /\ t \in OpenLists
    \/ h.op = "close" /\ h.arg \in 0 .. 1 /\ Only(a, {p[1], p[2]}) /\ t \in DupLists
    \/ h.op = "fork" /\ Only(a, {}) /\ h.arg \in ChildLists /\ t \in CleanLists \cup {Exits}
    \/ h.op = "fork" /\ Only(a, {p[1], p[2]}) /\ h.arg \in PipedLists /\ t \in PipedLists
    \/ h.op = "pipe" /\ Only(a, {}) /\ t \in PipedLists
    \/ h.op = "open" /\ Only(a, {}) /\ LowFree(a) /\ t \in CleanLists
    \/ h.op = "dup" /\ h.arg \in 1 .. 2 /\ Only(a, {p[1], p[2]}) /\ LowFree(a) /\ t \in PipedLists
    \/ h.op = "closep" /\ h.arg = 1 /\ Only(a, {p[1], p[2]}) /\ t \in HalfLists
    \/ h.op = "closep" /\ h.arg = 2 /\ Only(a, {p[2]}) /\ t \in CleanLists

\* With the descriptors from 3 on closed.
LEMMA CleanCall ==
    ASSUME NEW a, NEW p, NEW l, l \in CleanLists, Only(a, {})
    PROVE  l # <<>> /\ ByCall(a, p, Head(l), Tail(l))
<1>0. PICK h, t : h = Head(l) /\ t = Tail(l)
  OBVIOUS
<1>1. CASE l = <<Do("prompt")>>
  <2>1. l # <<>> /\ h = Do("prompt") /\ t = <<>>
    BY <1>0, <1>1, Lists1
  <2>2. h.op = "prompt"
    BY <2>1 DEF Do, With, Run
  <2> QED
    BY <1>0, <2>1, <2>2 DEF ByCall
<1>2. CASE l = <<Do("wait"), Do("prompt")>>
  <2>1. l # <<>> /\ h = Do("wait") /\ t = <<Do("prompt")>>
    BY <1>0, <1>2, Lists2
  <2>2. h.op = "wait"
    BY <2>1 DEF Do, With, Run
  <2>3. t \in CleanLists
    BY <2>1 DEF CleanLists
  <2> QED
    BY <1>0, <2>1, <2>2, <2>3 DEF ByCall
<1>3. CASE l = <<Do("wait"), Do("exit")>>
  <2>1. l # <<>> /\ h = Do("wait") /\ t = <<Do("exit")>>
    BY <1>0, <1>3, Lists2
  <2>2. h.op = "wait"
    BY <2>1 DEF Do, With, Run
  <2>3. t \in CleanLists \cup {Exits}
    BY <2>1 DEF Exits
  <2> QED
    BY <1>0, <2>1, <2>2, <2>3 DEF ByCall
<1>4. CASE l = <<Do("wait"), Do("wait"), Do("exit")>>
  <2>1. l # <<>> /\ h = Do("wait") /\ t = <<Do("wait"), Do("exit")>>
    BY <1>0, <1>4, Lists3
  <2>2. h.op = "wait"
    BY <2>1 DEF Do, With, Run
  <2>3. t \in CleanLists
    BY <2>1 DEF CleanLists
  <2> QED
    BY <1>0, <2>1, <2>2, <2>3 DEF ByCall
<1>5. CASE \E x \in ChildLists : l = <<With("fork", x), Do("wait"), Do("prompt")>>
  <2>0. PICK x \in ChildLists : l = <<With("fork", x), Do("wait"), Do("prompt")>>
    BY <1>5
  <2>1. l # <<>> /\ h = With("fork", x) /\ t = <<Do("wait"), Do("prompt")>>
    BY <1>0, <2>0, Lists3
  <2>2. h.op = "fork" /\ h.arg \in ChildLists
    BY <2>1 DEF Do, With, Run, ChildLists
  <2>3. t \in CleanLists
    BY <2>0, <2>1 DEF CleanLists
  <2> QED
    BY <1>0, <2>1, <2>2, <2>3 DEF ByCall
<1>6. CASE \E c \in Commands : l = <<Run(c)>>
  <2>0. PICK c \in Commands : l = <<Run(c)>>
    BY <1>6
  <2>1. l # <<>> /\ h = Run(c) /\ t = <<>>
    BY <1>0, <2>0, Lists1
  <2>2. h.op = "runcmd" /\ h.arg \in Commands
    BY <2>1 DEF Do, With, Run
  <2> QED
    BY <1>0, <2>1, <2>2 DEF ByCall
<1>7. CASE \E c \in Commands : l = <<Do("wait"), Run(c)>>
  <2>0. PICK c \in Commands : l = <<Do("wait"), Run(c)>>
    BY <1>7
  <2>1. l # <<>> /\ h = Do("wait") /\ t = <<Run(c)>>
    BY <1>0, <2>0, Lists2
  <2>2. h.op = "wait"
    BY <2>1 DEF Do, With, Run
  <2>3. t \in CleanLists
    BY <2>0, <2>1 DEF CleanLists
  <2> QED
    BY <1>0, <2>1, <2>2, <2>3 DEF ByCall
<1>8. CASE \E c \in {d \in Commands : d.type = "EXEC" /\ d.argv # <<>>} : l = <<With("exec", c.argv[1]), Do("exit")>>
  <2>0. PICK c \in {d \in Commands : d.type = "EXEC" /\ d.argv # <<>>} : l = <<With("exec", c.argv[1]), Do("exit")>>
    BY <1>8
  <2>1. l # <<>> /\ h = With("exec", c.argv[1]) /\ t = <<Do("exit")>>
    BY <1>0, <2>0, Lists2
  <2>2. h.op = "exec"
    BY <2>1 DEF Do, With, Run
  <2> QED
    BY <1>0, <2>1, <2>2 DEF ByCall
<1>9. CASE \E k \in 0 .. 1, c \in Commands : l = <<With("close", k), Do("open"), Run(c)>>
  <2>0. PICK k \in 0 .. 1, c \in Commands : l = <<With("close", k), Do("open"), Run(c)>>
    BY <1>9
  <2>1. l # <<>> /\ h = With("close", k) /\ t = <<Do("open"), Run(c)>>
    BY <1>0, <2>0, Lists3
  <2>2. h.op = "close" /\ h.arg \in 0 .. 1
    BY <2>1 DEF Do, With, Run
  <2>3. t \in OpenLists
    BY <2>0, <2>1 DEF OpenLists
  <2> QED
    BY <1>0, <2>1, <2>2, <2>3 DEF ByCall
<1>10. CASE \E c, d \in Commands : l = <<With("fork", <<Run(c)>>), Do("wait"), Run(d)>>
  <2>0. PICK c, d \in Commands : l = <<With("fork", <<Run(c)>>), Do("wait"), Run(d)>>
    BY <1>10
  <2>1. l # <<>> /\ h = With("fork", <<Run(c)>>) /\ t = <<Do("wait"), Run(d)>>
    BY <1>0, <2>0, Lists3
  <2>2. h.op = "fork" /\ h.arg \in ChildLists
    BY <2>1 DEF Do, With, Run, ChildLists
  <2>3. t \in CleanLists
    BY <2>0, <2>1 DEF CleanLists
  <2> QED
    BY <1>0, <2>1, <2>2, <2>3 DEF ByCall
<1>11. CASE \E c \in Commands : l = <<With("fork", <<Run(c)>>), Do("exit")>>
  <2>0. PICK c \in Commands : l = <<With("fork", <<Run(c)>>), Do("exit")>>
    BY <1>11
  <2>1. l # <<>> /\ h = With("fork", <<Run(c)>>) /\ t = <<Do("exit")>>
    BY <1>0, <2>0, Lists2
  <2>2. h.op = "fork" /\ h.arg \in ChildLists
    BY <2>1 DEF Do, With, Run, ChildLists
  <2>3. t \in CleanLists \cup {Exits}
    BY <2>1 DEF Exits
  <2> QED
    BY <1>0, <2>1, <2>2, <2>3 DEF ByCall
<1>12. CASE \E c, d \in Commands : l = <<Do("pipe"), With("fork", LeftList(c)), With("fork", RightList(d)), With("closep", 1), With("closep", 2), Do("wait"), Do("wait"), Do("exit")>>
  <2>0. PICK c, d \in Commands : l = <<Do("pipe"), With("fork", LeftList(c)), With("fork", RightList(d)), With("closep", 1), With("closep", 2), Do("wait"), Do("wait"), Do("exit")>>
    BY <1>12
  <2>1. l # <<>> /\ h = Do("pipe") /\ t = <<With("fork", LeftList(c)), With("fork", RightList(d)), With("closep", 1), With("closep", 2), Do("wait"), Do("wait"), Do("exit")>>
    BY <1>0, <2>0, Lists8
  <2>2. h.op = "pipe"
    BY <2>1 DEF Do, With, Run
  <2>3. t \in PipedLists
    BY <2>0, <2>1 DEF PipedLists, Ends
  <2> QED
    BY <1>0, <2>1, <2>2, <2>3 DEF ByCall
<1> QED
  BY <1>1, <1>2, <1>3, <1>4, <1>5, <1>6, <1>7, <1>8, <1>9, <1>10, <1>11, <1>12 DEF CleanLists

\* Before open.
LEMMA OpenCalled ==
    ASSUME NEW a, NEW p, NEW l, l \in OpenLists, Only(a, {}), LowFree(a)
    PROVE  l # <<>> /\ ByCall(a, p, Head(l), Tail(l))
<1>0. PICK h, t : h = Head(l) /\ t = Tail(l)
  OBVIOUS
<1>1. CASE \E c \in Commands : l = <<Do("open"), Run(c)>>
  <2>0. PICK c \in Commands : l = <<Do("open"), Run(c)>>
    BY <1>1
  <2>1. l # <<>> /\ h = Do("open") /\ t = <<Run(c)>>
    BY <1>0, <2>0, Lists2
  <2>2. h.op = "open"
    BY <2>1 DEF Do, With, Run
  <2>3. t \in CleanLists
    BY <2>0, <2>1 DEF CleanLists
  <2> QED
    BY <1>0, <2>1, <2>2, <2>3 DEF ByCall
<1> QED
  BY <1>1 DEF OpenLists

\* With the ends of a pipe open.
LEMMA PipedCall ==
    ASSUME NEW a, NEW p, NEW l, l \in PipedLists, Only(a, {p[1], p[2]})
    PROVE  l # <<>> /\ ByCall(a, p, Head(l), Tail(l))
<1>0. PICK h, t : h = Head(l) /\ t = Tail(l)
  OBVIOUS
<1>1. CASE l = <<With("closep", 1), With("closep", 2), Do("wait"), Do("wait"), Do("exit")>>
  <2>1. l # <<>> /\ h = With("closep", 1) /\ t = <<With("closep", 2), Do("wait"), Do("wait"), Do("exit")>>
    BY <1>0, <1>1, Lists5
  <2>2. h.op = "closep" /\ h.arg = 1
    BY <2>1 DEF Do, With, Run
  <2>3. t \in HalfLists
    BY <2>1 DEF HalfLists
  <2> QED
    BY <1>0, <2>1, <2>2, <2>3 DEF ByCall
<1>2. CASE \E c, d \in Commands : l = <<With("fork", LeftList(c)), With("fork", RightList(d)), With("closep", 1), With("closep", 2), Do("wait"), Do("wait"), Do("exit")>>
  <2>0. PICK c, d \in Commands : l = <<With("fork", LeftList(c)), With("fork", RightList(d)), With("closep", 1), With("closep", 2), Do("wait"), Do("wait"), Do("exit")>>
    BY <1>2
  <2>1. l # <<>> /\ h = With("fork", LeftList(c)) /\ t = <<With("fork", RightList(d)), With("closep", 1), With("closep", 2), Do("wait"), Do("wait"), Do("exit")>>
    BY <1>0, <2>0, Lists7
  <2>2. h.op = "fork" /\ h.arg \in PipedLists
    BY <2>1 DEF Do, With, Run, PipedLists
  <2>3. t \in PipedLists
    BY <2>0, <2>1 DEF PipedLists, Ends
  <2> QED
    BY <1>0, <2>1, <2>2, <2>3 DEF ByCall
<1>3. CASE \E c \in Commands : l = <<With("fork", RightList(c)), With("closep", 1), With("closep", 2), Do("wait"), Do("wait"), Do("exit")>>
  <2>0. PICK c \in Commands : l = <<With("fork", RightList(c)), With("closep", 1), With("closep", 2), Do("wait"), Do("wait"), Do("exit")>>
    BY <1>3
  <2>1. l # <<>> /\ h = With("fork", RightList(c)) /\ t = <<With("closep", 1), With("closep", 2), Do("wait"), Do("wait"), Do("exit")>>
    BY <1>0, <2>0, Lists6
  <2>2. h.op = "fork" /\ h.arg \in PipedLists
    BY <2>1 DEF Do, With, Run, PipedLists
  <2>3. t \in PipedLists
    BY <2>0, <2>1 DEF PipedLists, Ends
  <2> QED
    BY <1>0, <2>1, <2>2, <2>3 DEF ByCall
<1>4. CASE \E c \in Commands : l = LeftList(c)
  <2>0. PICK c \in Commands : l = LeftList(c)
    BY <1>4
  <2>1. l # <<>> /\ h = With("close", 1) /\ t = <<With("dup", 2), With("closep", 1), With("closep", 2), Run(c)>>
    BY <1>0, <2>0, Lists5 DEF LeftList, RightList, Ends
  <2>2. h.op = "close" /\ h.arg \in 0 .. 1
    BY <2>1 DEF Do, With, Run
  <2>3. t \in DupLists
    BY <2>0, <2>1 DEF DupLists
  <2> QED
    BY <1>0, <2>1, <2>2, <2>3 DEF ByCall
<1>5. CASE \E c \in Commands : l = RightList(c)
  <2>0. PICK c \in Commands : l = RightList(c)
    BY <1>5
  <2>1. l # <<>> /\ h = With("close", 0) /\ t = <<With("dup", 1), With("closep", 1), With("closep", 2), Run(c)>>
    BY <1>0, <2>0, Lists5 DEF LeftList, RightList, Ends
  <2>2. h.op = "close" /\ h.arg \in 0 .. 1
    BY <2>1 DEF Do, With, Run
  <2>3. t \in DupLists
    BY <2>0, <2>1 DEF DupLists
  <2> QED
    BY <1>0, <2>1, <2>2, <2>3 DEF ByCall
<1>6. CASE \E c \in Commands : l = Ends(c)
  <2>0. PICK c \in Commands : l = Ends(c)
    BY <1>6
  <2>1. l # <<>> /\ h = With("closep", 1) /\ t = <<With("closep", 2), Run(c)>>
    BY <1>0, <2>0, Lists3 DEF LeftList, RightList, Ends
  <2>2. h.op = "closep" /\ h.arg = 1
    BY <2>1 DEF Do, With, Run
  <2>3. t \in HalfLists
    BY <2>0, <2>1 DEF HalfLists
  <2> QED
    BY <1>0, <2>1, <2>2, <2>3 DEF ByCall
<1> QED
  BY <1>1, <1>2, <1>3, <1>4, <1>5, <1>6 DEF PipedLists

\* Before dup.
LEMMA DupCalled ==
    ASSUME NEW a, NEW p, NEW l, l \in DupLists, Only(a, {p[1], p[2]}), LowFree(a)
    PROVE  l # <<>> /\ ByCall(a, p, Head(l), Tail(l))
<1>0. PICK h, t : h = Head(l) /\ t = Tail(l)
  OBVIOUS
<1>1. CASE \E k \in 1 .. 2, c \in Commands : l = <<With("dup", k), With("closep", 1), With("closep", 2), Run(c)>>
  <2>0. PICK k \in 1 .. 2, c \in Commands : l = <<With("dup", k), With("closep", 1), With("closep", 2), Run(c)>>
    BY <1>1
  <2>1. l # <<>> /\ h = With("dup", k) /\ t = <<With("closep", 1), With("closep", 2), Run(c)>>
    BY <1>0, <2>0, Lists4
  <2>2. h.op = "dup" /\ h.arg \in 1 .. 2
    BY <2>1 DEF Do, With, Run
  <2>3. t \in PipedLists
    BY <2>0, <2>1 DEF PipedLists, Ends
  <2> QED
    BY <1>0, <2>1, <2>2, <2>3 DEF ByCall
<1> QED
  BY <1>1 DEF DupLists

\* With the write end open.
LEMMA HalfCall ==
    ASSUME NEW a, NEW p, NEW l, l \in HalfLists, Only(a, {p[2]})
    PROVE  l # <<>> /\ ByCall(a, p, Head(l), Tail(l))
<1>0. PICK h, t : h = Head(l) /\ t = Tail(l)
  OBVIOUS
<1>1. CASE l = <<With("closep", 2), Do("wait"), Do("wait"), Do("exit")>>
  <2>1. l # <<>> /\ h = With("closep", 2) /\ t = <<Do("wait"), Do("wait"), Do("exit")>>
    BY <1>0, <1>1, Lists4
  <2>2. h.op = "closep" /\ h.arg = 2
    BY <2>1 DEF Do, With, Run
  <2>3. t \in CleanLists
    BY <2>1 DEF CleanLists
  <2> QED
    BY <1>0, <2>1, <2>2, <2>3 DEF ByCall
<1>2. CASE \E c \in Commands : l = <<With("closep", 2), Run(c)>>
  <2>0. PICK c \in Commands : l = <<With("closep", 2), Run(c)>>
    BY <1>2
  <2>1. l # <<>> /\ h = With("closep", 2) /\ t = <<Run(c)>>
    BY <1>0, <2>0, Lists2
  <2>2. h.op = "closep" /\ h.arg = 2
    BY <2>1 DEF Do, With, Run
  <2>3. t \in CleanLists
    BY <2>0, <2>1 DEF CleanLists
  <2> QED
    BY <1>0, <2>1, <2>2, <2>3 DEF ByCall
<1> QED
  BY <1>1, <1>2 DEF HalfLists

LEMMA CallOf ==
    ASSUME NEW a, NEW p, NEW l, Shape(a, p, l)
    PROVE  l # <<>> /\ ByCall(a, p, Head(l), Tail(l))
<1>1. CASE l = Exits
  <2>1. l # <<>> /\ Head(l) = Do("exit")
    BY <1>1, Lists1 DEF Exits
  <2>2. Head(l).op = "exit"
    BY <2>1 DEF Do
  <2> QED
    BY <2>1, <2>2 DEF ByCall
<1> QED
  BY <1>1, CleanCall, OpenCalled, PipedCall, DupCalled, HalfCall DEF Shape

LEMMA ShellConstants ==
    /\ NOFILE \in Nat /\ NFILE \in Nat \ {0} /\ NPipes \in Nat
    /\ 0 \in Fds /\ 1 \in Fds /\ 2 \in Fds /\ 3 \in Fds /\ 4 \in Fds /\ Fds \subseteq Nat
    /\ IsFiniteSet(ShProcs) /\ IsFiniteSet(Fds) /\ 1 \in ShProcs /\ 0 \notin ShProcs /\ ShProcs \subseteq Nat
<1>1. NOFILE \in Nat /\ NOFILE >= 5
  BY ShellAssumption
<1>2. IsFiniteSet(Fds)
  BY <1>1, FS_Interval DEF Fds
<1> QED
  BY <1>1, <1>2, ShellAssumption DEF Fds

\* What a call does to the descriptors is what the next one needs.
LEMMA ForkShape ==
    ASSUME NEW a, NEW p, NEW h, NEW t, ByCall(a, p, h, t), h.op = "fork"
    PROVE  Shape(a, p, t) /\ Shape(a, p, h.arg)
<1>1. \/ Only(a, {}) /\ h.arg \in ChildLists /\ t \in CleanLists \cup {Exits}
      \/ Only(a, {p[1], p[2]}) /\ h.arg \in PipedLists /\ t \in PipedLists
  BY DEF ByCall
<1>2. ChildLists \subseteq CleanLists \cup {Exits}
  BY DEF ChildLists, CleanLists
<1> QED
  BY <1>1, <1>2 DEF Shape

LEMMA WaitShape ==
    ASSUME NEW a, NEW p, NEW h, NEW t, ByCall(a, p, h, t), h.op = "wait"
    PROVE  Shape(a, p, t)
<1>1. Only(a, {}) /\ t \in CleanLists \cup {Exits}
  BY DEF ByCall
<1> QED
  BY <1>1 DEF Shape

LEMMA CloseShape ==
    ASSUME NEW a \in FdArrays, NEW p, NEW h, NEW t, ByCall(a, p, h, t), h.op = "close"
    PROVE  h.arg \in 0 .. 1 /\ Shape([a EXCEPT ![h.arg] = 0], p, t)
<1>1. /\ h.arg \in 0 .. 1
      /\ \/ Only(a, {}) /\ t \in OpenLists
         \/ Only(a, {p[1], p[2]}) /\ t \in DupLists
  BY DEF ByCall
<1>2. PICK b : b = [a EXCEPT ![h.arg] = 0]
  OBVIOUS
<1>3. b[h.arg] = 0 /\ \A k \in Fds : b[k] = 0 \/ b[k] = a[k]
  BY <1>1, <1>2, ShellConstants DEF FdArrays
<1>4. LowFree(b)
  BY <1>1, <1>3 DEF LowFree
<1>5. \A E : Only(a, E) => Only(b, E)
  BY <1>3 DEF Only
<1>6. Shape(b, p, t)
  BY <1>1, <1>4, <1>5 DEF Shape
<1> QED
  BY <1>1, <1>2, <1>6

LEMMA ClosepShape ==
    ASSUME NEW a \in FdArrays, NEW p \in Fds \X Fds, NEW h, NEW t, ByCall(a, p, h, t), h.op = "closep"
    PROVE  h.arg \in 1 .. 2 /\ p[h.arg] \in Fds /\ Shape([a EXCEPT ![p[h.arg]] = 0], p, t)
<1>1. \/ h.arg = 1 /\ Only(a, {p[1], p[2]}) /\ t \in HalfLists
      \/ h.arg = 2 /\ Only(a, {p[2]}) /\ t \in CleanLists
  BY DEF ByCall
<1>2. h.arg \in 1 .. 2 /\ p[h.arg] \in Fds
  BY <1>1
<1>3. PICK k, b : k = p[h.arg] /\ b = [a EXCEPT ![k] = 0]
  OBVIOUS
<1>4. b[k] = 0 /\ \A j \in Fds : b[j] = 0 \/ b[j] = a[j]
  BY <1>2, <1>3 DEF FdArrays
<1>5. CASE h.arg = 1
  <2>1. Only(b, {p[2]})
    BY <1>1, <1>3, <1>4, <1>5 DEF Only
  <2> QED
    BY <1>1, <1>2, <1>3, <1>5, <2>1 DEF Shape
<1>6. CASE h.arg = 2
  <2>1. Only(b, {})
    BY <1>1, <1>3, <1>4, <1>6 DEF Only
  <2> QED
    BY <1>1, <1>2, <1>3, <1>6, <2>1 DEF Shape
<1> QED
  BY <1>1, <1>5, <1>6

LEMMA FillLow ==
    ASSUME NEW a \in FdArrays, NEW k \in Fds, k <= 1, NEW x, NEW E, Only(a, E)
    PROVE  Only([a EXCEPT ![k] = x], E)
<1>1. \A j \in Fds : j > 2 => j # k
  BY ShellConstants
<1>2. \A j \in Fds : j # k => [a EXCEPT ![k] = x][j] = a[j]
  BY DEF FdArrays
<1> QED
  BY <1>1, <1>2 DEF Only

LEMMA DupShape ==
    ASSUME NEW a \in FdArrays, NEW p, NEW h, NEW t, ByCall(a, p, h, t), h.op = "dup"
    PROVE  /\ h.arg \in 1 .. 2 /\ LowFree(a)
           /\ \A k \in Fds : \A x : k <= 1 => Shape([a EXCEPT ![k] = x], p, t)
<1>1. h.arg \in 1 .. 2 /\ Only(a, {p[1], p[2]}) /\ LowFree(a) /\ t \in PipedLists
  BY DEF ByCall
<1> QED
  BY <1>1, FillLow DEF Shape

LEMMA OpenShape ==
    ASSUME NEW a \in FdArrays, NEW p, NEW h, NEW t, ByCall(a, p, h, t), h.op = "open"
    PROVE  /\ LowFree(a)
           /\ \A k \in Fds : \A x : k <= 1 => Shape([a EXCEPT ![k] = x], p, t)
<1>1. Only(a, {}) /\ LowFree(a) /\ t \in CleanLists
  BY DEF ByCall
<1> QED
  BY <1>1, FillLow DEF Shape

LEMMA PipeShape ==
    ASSUME NEW a \in FdArrays, NEW p, NEW h, NEW t, ByCall(a, p, h, t), h.op = "pipe"
    PROVE  /\ a[3] = 0 /\ a[4] = 0
           /\ \A k, m \in Fds : \A x, y : Shape([a EXCEPT ![k] = x, ![m] = y], <<k, m>>, t)
<1>1. Only(a, {}) /\ t \in PipedLists
  BY DEF ByCall
<1>2. a[3] = 0 /\ a[4] = 0
  BY <1>1, ShellConstants DEF Only
<1>3. ASSUME NEW k \in Fds, NEW m \in Fds, NEW x, NEW y
      PROVE  Shape([a EXCEPT ![k] = x, ![m] = y], <<k, m>>, t)
  <2>1. PICK b, s : b = [a EXCEPT ![k] = x, ![m] = y] /\ s = <<k, m>>
    OBVIOUS
  <2>2. s[1] = k /\ s[2] = m /\ \A j \in Fds : j # k /\ j # m => b[j] = a[j]
    BY <2>1 DEF FdArrays
  <2>3. Only(b, {s[1], s[2]})
    BY <1>1, <2>2 DEF Only
  <2>4. Shape(b, s, t)
    BY <1>1, <2>3 DEF Shape
  <2> QED
    BY <2>1, <2>4
<1> QED
  BY <1>2, <1>3

LEMMA RuncmdShape ==
    ASSUME NEW a, NEW p, NEW h, NEW t, ByCall(a, p, h, t), h.op = "runcmd"
    PROVE  Shape(a, p, runcmd(h.arg))
<1>1. PICK c \in Commands : c = h.arg /\ Only(a, {})
  BY DEF ByCall
<1>2. IsCommand(c)
  BY ShellAssumption
<1>3. ASSUME runcmd(c) \in CleanLists \cup {Exits} PROVE Shape(a, p, runcmd(h.arg))
  BY <1>1, <1>3 DEF Shape
<1>4. CASE c.type = "EXEC"
  <2>1. CASE c.argv = <<>>
    <3>1. runcmd(c) = Exits
      BY <1>4, <2>1 DEF runcmd, Exits
    <3> QED
      BY <1>3, <3>1
  <2>2. CASE c.argv # <<>>
    <3>1. runcmd(c) = <<With("exec", c.argv[1]), Do("exit")>>
      BY <1>4, <2>2 DEF runcmd
    <3>2. runcmd(c) \in CleanLists
      BY <1>4, <2>2, <3>1 DEF CleanLists
    <3> QED
      BY <1>3, <3>2
  <2> QED
    BY <2>1, <2>2
<1>5. CASE c.type = "REDIR"
  <2>1. runcmd(c) = <<With("close", c.fd), Do("open"), Run(c.cmd)>>
    BY <1>5 DEF runcmd
  <2>2. c.fd \in 0 .. 1 /\ c.cmd \in Commands
    BY <1>2, <1>5 DEF IsCommand
  <2>3. runcmd(c) \in CleanLists
    BY <2>1, <2>2 DEF CleanLists
  <2> QED
    BY <1>3, <2>3
<1>6. CASE c.type = "LIST"
  <2>1. runcmd(c) = <<With("fork", <<Run(c.left)>>), Do("wait"), Run(c.right)>>
    BY <1>6 DEF runcmd
  <2>2. c.left \in Commands /\ c.right \in Commands
    BY <1>2, <1>6 DEF IsCommand
  <2>3. runcmd(c) \in CleanLists
    BY <2>1, <2>2 DEF CleanLists
  <2> QED
    BY <1>3, <2>3
<1>7. CASE c.type = "PIPE"
  <2>1. runcmd(c) = (<<Do("pipe"), With("fork", Append(LeftEnds, Run(c.left))),
                       With("fork", Append(RightEnds, Run(c.right)))>> \o ParentEnds)
                    \o <<Do("wait"), Do("wait"), Do("exit")>>
    BY <1>7 DEF runcmd
  <2>2. c.left \in Commands /\ c.right \in Commands
    BY <1>2, <1>7 DEF IsCommand
  <2>3. Append(LeftEnds, Run(c.left)) = LeftList(c.left) /\ Append(RightEnds, Run(c.right)) = RightList(c.right)
    BY Appended DEF LeftEnds, RightEnds, LeftList, RightList
  <2>4. runcmd(c) = <<Do("pipe"), With("fork", LeftList(c.left)), With("fork", RightList(c.right)),
                      With("closep", 1), With("closep", 2), Do("wait"), Do("wait"), Do("exit")>>
    <3>1. PICK x, y : x = LeftList(c.left) /\ y = RightList(c.right)
      OBVIOUS
    <3>2. (<<Do("pipe"), With("fork", x), With("fork", y)>> \o <<With("closep", 1), With("closep", 2)>>)
            \o <<Do("wait"), Do("wait"), Do("exit")>>
          = <<Do("pipe"), With("fork", x), With("fork", y), With("closep", 1), With("closep", 2),
              Do("wait"), Do("wait"), Do("exit")>>
      BY Joined
    <3> QED
      BY <2>1, <2>3, <3>1, <3>2 DEF ParentEnds
  <2>5. runcmd(c) \in CleanLists
    BY <2>2, <2>4 DEF CleanLists
  <2> QED
    BY <1>3, <2>5
<1>8. CASE c.type = "BACK"
  <2>1. runcmd(c) = <<With("fork", <<Run(c.cmd)>>), Do("exit")>>
    BY <1>8 DEF runcmd
  <2>2. c.cmd \in Commands
    BY <1>2, <1>8 DEF IsCommand
  <2>3. runcmd(c) \in CleanLists
    BY <2>1, <2>2 DEF CleanLists
  <2> QED
    BY <1>3, <2>3
<1> QED
  BY <1>2, <1>4, <1>5, <1>6, <1>7, <1>8 DEF IsCommand

\* The shape of a process's calls is of a type.
LEMMA ShapeListed ==
    ASSUME NEW a, NEW p, NEW l, Shape(a, p, l)
    PROVE  l \in CallLists
  BY DEF Shape, CallLists

LEMMA ExitShape ==
    ASSUME NEW a, NEW p
    PROVE  Shape(a, p, Exits)
  BY DEF Shape

-----------------------------------------------------------------------------
\* Counting descriptors: those of one process, and those of the others.
Among(a, fds, f) == {k \in fds : a[k] = f}
Row(a, f) == Among(a, Fds, f)

\* A set and the values that a one-to-one function gives its elements are as many.
LEMMA OneToOneCount ==
    ASSUME NEW S, NEW T, IsFiniteSet(S), NEW g \in [S -> T],
           \A o, q \in S : g[o] = g[q] => o = q,
           \A c \in T : \E o \in S : g[o] = c
    PROVE  Cardinality(S) = Cardinality(T)
<1>1. g \in Injection(S, T)
  BY DEF Injection, IsInjective
<1>2. g \in Surjection(S, T)
  BY DEF Surjection
<1>3. g \in Bijection(S, T)
  BY <1>1, <1>2 DEF Bijection
<1> QED
  BY <1>3, FS_Bijection DEF ExistsBijection

LEMMA RowFinite ==
    ASSUME NEW a, NEW f, NEW fds \in SUBSET Fds
    PROVE  /\ IsFiniteSet(Row(a, f)) /\ Cardinality(Row(a, f)) \in Nat
           /\ IsFiniteSet(Among(a, fds, f)) /\ Cardinality(Among(a, fds, f)) \in Nat
           /\ Cardinality(Among(a, fds, f)) <= Cardinality(Row(a, f))
<1>1. Row(a, f) \subseteq Fds /\ Among(a, fds, f) \subseteq Row(a, f)
  BY DEF Row, Among
<1>2. IsFiniteSet(Row(a, f))
  BY <1>1, ShellConstants, FS_Subset
<1>3. /\ IsFiniteSet(Among(a, fds, f))
      /\ Cardinality(Among(a, fds, f)) <= Cardinality(Row(a, f))
  BY <1>1, <1>2, FS_Subset
<1> QED
  BY <1>2, <1>3, FS_CardinalityType

LEMMA RowCounts ==
    ASSUME NEW O, NEW q \in ShProcs, NEW f
    PROVE  /\ Cardinality(RefsIn(O, f)) \in Nat
           /\ Cardinality({o \in RefsIn(O, f) : o[1] # q}) \in Nat
           /\ Cardinality(RefsIn(O, f))
              = Cardinality({o \in RefsIn(O, f) : o[1] # q}) + Cardinality(Row(O[q], f))
<1>1. PICK S, T, U : S = RefsIn(O, f) /\ T = {o \in RefsIn(O, f) : o[1] = q} /\ U = {o \in RefsIn(O, f) : o[1] # q}
  OBVIOUS
<1>2. IsFiniteSet(ShProcs \X Fds)
  BY ShellConstants, FS_Product
<1>3. S \subseteq ShProcs \X Fds /\ T \subseteq S /\ U = S \ T /\ S \cap T = T
  BY <1>1 DEF RefsIn
<1>4. IsFiniteSet(S) /\ IsFiniteSet(U) /\ IsFiniteSet(T)
  BY <1>2, <1>3, FS_Subset
<1>5. Cardinality(U) = Cardinality(S) - Cardinality(T)
  <2>1. Cardinality(S \ T) = Cardinality(S) - Cardinality(S \cap T)
    BY <1>4, FS_Difference
  <2> QED
    BY <1>3, <2>1
<1>6. PICK R : R = Row(O[q], f)
  OBVIOUS
<1>7. Cardinality(R) = Cardinality(T)
  <2>1. PICK g : g = [k \in R |-> <<q, k>>]
    OBVIOUS
  <2>2. \A k \in R : k \in Fds /\ O[q][k] = f
    BY <1>6 DEF Row, Among
  <2>3. \A k \in R : g[k] \in T
    BY <1>1, <2>1, <2>2 DEF RefsIn
  <2>4. g \in [R -> T] /\ \A j, k \in R : g[j] = g[k] => j = k
    BY <2>1, <2>3
  <2>5. ASSUME NEW o \in T PROVE \E k \in R : g[k] = o
    <3>1. o \in ShProcs \X Fds /\ o[1] = q /\ O[o[1]][o[2]] = f
      BY <1>1 DEF RefsIn
    <3>2. o = <<q, o[2]>> /\ o[2] \in R
      BY <1>6, <3>1 DEF Row, Among
    <3> QED
      BY <2>1, <3>2
  <2>6. IsFiniteSet(R)
    BY <1>6, RowFinite
  <2> QED
    BY ONLY <2>4, <2>5, <2>6, OneToOneCount
<1>8. Cardinality(S) \in Nat /\ Cardinality(T) \in Nat /\ Cardinality(U) \in Nat
  BY <1>4, FS_CardinalityType
<1> QED
  BY <1>1, <1>5, <1>6, <1>7, <1>8

\* The process q has new descriptors, the others have theirs.
OnlyRow(O, N, q) == \A r \in ShProcs : r # q => N[r] = O[r]

LEMMA RowChange ==
    ASSUME NEW O, NEW N, NEW q \in ShProcs, OnlyRow(O, N, q), NEW f
    PROVE  /\ Cardinality(RefsIn(O, f)) \in Nat /\ Cardinality(RefsIn(N, f)) \in Nat
           /\ Cardinality(Row(O[q], f)) \in Nat /\ Cardinality(Row(N[q], f)) \in Nat
           /\ Cardinality(Row(O[q], f)) <= Cardinality(RefsIn(O, f))
           /\ Cardinality(RefsIn(N, f))
              = Cardinality(RefsIn(O, f)) - Cardinality(Row(O[q], f)) + Cardinality(Row(N[q], f))
<1>1. {o \in RefsIn(O, f) : o[1] # q} = {o \in RefsIn(N, f) : o[1] # q}
  BY DEF RefsIn, OnlyRow
<1>2. Cardinality(Row(O[q], f)) \in Nat /\ Cardinality(Row(N[q], f)) \in Nat
  BY RowFinite
<1>3. PICK x, y, u, v, w : /\ x = Cardinality(RefsIn(O, f)) /\ y = Cardinality(RefsIn(N, f))
                           /\ u = Cardinality({o \in RefsIn(O, f) : o[1] # q})
                           /\ v = Cardinality(Row(O[q], f)) /\ w = Cardinality(Row(N[q], f))
  OBVIOUS
<1>4. x \in Nat /\ u \in Nat /\ x = u + v
  BY <1>3, RowCounts
<1>5. y \in Nat /\ y = u + w
  BY <1>1, <1>3, RowCounts
<1> QED
  BY <1>2, <1>3, <1>4, <1>5

LEMMA RowClosed ==
    ASSUME NEW f \in FileIds
    PROVE  Row(NoFds, f) = {} /\ Cardinality(Row(NoFds, f)) = 0
<1>1. f # 0
  BY DEF FileIds
<1>2. Row(NoFds, f) = {}
  BY <1>1 DEF Row, Among, NoFds
<1> QED
  BY <1>2, FS_EmptySet

LEMMA RowLess ==
    ASSUME NEW a, NEW fds \in SUBSET Fds, NEW f \in FileIds
    PROVE  Cardinality(Row([k \in Fds |-> IF k \in fds THEN 0 ELSE a[k]], f))
           = Cardinality(Row(a, f)) - Cardinality(Among(a, fds, f))
<1>1. PICK b, S, T : b = [k \in Fds |-> IF k \in fds THEN 0 ELSE a[k]] /\ S = Row(a, f) /\ T = Among(a, fds, f)
  OBVIOUS
<1>2. f # 0
  BY DEF FileIds
<1>3. Row(b, f) = S \ T /\ S \cap T = T
  BY <1>1, <1>2 DEF Row, Among
<1>4. IsFiniteSet(S)
  BY <1>1, RowFinite
<1>5. Cardinality(S \ T) = Cardinality(S) - Cardinality(T)
  BY <1>3, <1>4, FS_Difference
<1> QED
  BY <1>1, <1>3, <1>5

LEMMA RowMore ==
    ASSUME NEW a \in FdArrays, NEW j \in Fds, a[j] = 0, NEW g, NEW f \in FileIds
    PROVE  Cardinality(Row([a EXCEPT ![j] = g], f)) = Cardinality(Row(a, f)) + IF f = g THEN 1 ELSE 0
<1>1. PICK b, S : b = [a EXCEPT ![j] = g] /\ S = Row(a, f)
  OBVIOUS
<1>2. f # 0
  BY DEF FileIds
<1>3. b[j] = g /\ \A k \in Fds : k # j => b[k] = a[k]
  BY <1>1 DEF FdArrays
<1>4. IsFiniteSet(S) /\ Cardinality(S) \in Nat
  BY <1>1, RowFinite
<1>5. CASE f = g
  <2>1. Row(b, f) = S \cup {j} /\ j \notin S
    BY <1>1, <1>2, <1>3, <1>5 DEF Row, Among
  <2>2. Cardinality(S \cup {j}) = Cardinality(S) + 1
    BY <1>4, <2>1, FS_AddElement
  <2> QED
    BY <1>1, <1>5, <2>1, <2>2
<1>6. CASE f # g
  <2>1. Row(b, f) = S
    BY <1>1, <1>2, <1>3, <1>6 DEF Row, Among
  <2> QED
    BY <1>1, <1>4, <1>6, <2>1
<1> QED
  BY <1>5, <1>6

LEMMA RowConsole ==
    ASSUME NEW f \in FileIds
    PROVE  Console3 \in FdArrays /\ Cardinality(Row(Console3, f)) = Extra(f)
<1>1. f # 0 /\ Fds \subseteq Nat /\ 1 \in 0 .. NFILE /\ 0 \in 0 .. NFILE
  BY ShellConstants DEF FileIds
<1>2. Console3 \in FdArrays
  BY <1>1 DEF Console3, FdArrays
<1>3. CASE f = 1
  <2>1. Row(Console3, f) = 0 .. 2
    <3>1. \A k \in Fds : Console3[k] = f <=> k <= 2
      BY <1>3 DEF Console3
    <3>2. \A k : k \in 0 .. 2 <=> k \in Fds /\ k <= 2
      BY ShellAssumption DEF Fds
    <3> QED
      BY <3>1, <3>2 DEF Row, Among
  <2>2. Cardinality(0 .. 2) = 2 - 0 + 1
    BY FS_Interval, 0 \in Int, 2 \in Int, ~(0 > 2)
  <2> QED
    BY <1>2, <1>3, <2>1, <2>2 DEF Extra
<1>4. CASE f # 1
  <2>1. Row(Console3, f) = {}
    BY <1>1, <1>4 DEF Row, Among, Console3
  <2> QED
    BY <1>2, <1>4, <2>1, FS_EmptySet DEF Extra
<1> QED
  BY <1>3, <1>4

-----------------------------------------------------------------------------
\* The table of files after a change of counts, of closed files, of new ones.
LEMMA FileFields ==
    ASSUME NEW x \in FileType
    PROVE  /\ x.type \in {"none", "dev", "inode", "pipe"} /\ x.ref \in Nat /\ x.pipe \in 0 .. NPipes
           /\ x.end \in {"r", "w"}
           /\ \A n \in Nat : /\ [x EXCEPT !.ref = n] \in FileType /\ [x EXCEPT !.ref = n].ref = n
                             /\ [x EXCEPT !.ref = n].type = x.type /\ [x EXCEPT !.ref = n].pipe = x.pipe
                             /\ [x EXCEPT !.ref = n].end = x.end
           /\ [x EXCEPT !.ref = x.ref] = x
  BY DEF FileType

\* With the same types, pipes and ends.
LEMMA SameFiles ==
    ASSUME NEW F, NEW G, NEW P, FilesRight(F), EndsRight(F, P), G \in [FileIds -> FileType],
           \A f \in FileIds : /\ G[f].type = F[f].type /\ G[f].pipe = F[f].pipe /\ G[f].end = F[f].end
                              /\ G[f].ref = 0 => G[f] = F[f]
    PROVE  FilesRight(G) /\ EndsRight(G, P)
<1>1. FilesRight(G)
  BY DEF FilesRight
<1>2. ASSUME NEW i \in PipeIds PROVE EndsOf(G, i) = EndsOf(F, i)
  BY DEF EndsOf
<1> QED
  BY <1>1, <1>2 DEF EndsRight

\* filedup: the counts grow by m.
Grows(O, N, F, G, m) ==
    /\ m \in [FileIds -> Nat] /\ G \in [FileIds -> FileType]
    /\ \A f \in FileIds : /\ G[f] = [F[f] EXCEPT !.ref = F[f].ref + m[f]]
                          /\ Cardinality(RefsIn(O, f)) \in Nat
                          /\ Cardinality(RefsIn(N, f)) = Cardinality(RefsIn(O, f)) + m[f]

LEMMA CountsGrow ==
    ASSUME NEW O, NEW N, NEW F, NEW G, NEW P, NEW m, Grows(O, N, F, G, m),
           FilesRight(F), RefsRight(O, F), EndsRight(F, P)
    PROVE  FilesRight(G) /\ RefsRight(N, G) /\ EndsRight(G, P)
<1> USE DEF Grows
<1>1. ASSUME NEW f \in FileIds
      PROVE  /\ G[f].type = F[f].type /\ G[f].pipe = F[f].pipe /\ G[f].end = F[f].end
             /\ G[f].ref = F[f].ref + m[f] /\ (G[f].ref = 0 => G[f] = F[f])
  <2>1. F[f] \in FileType /\ F[f].ref \in Nat /\ m[f] \in Nat /\ F[f].ref + m[f] \in Nat
    BY FileFields DEF FilesRight
  <2>2. PICK x, n : x = F[f] /\ n = F[f].ref + m[f]
    OBVIOUS
  <2>3. G[f] = [x EXCEPT !.ref = n] /\ x \in FileType /\ n \in Nat
    BY <2>1, <2>2
  <2>4. G[f].type = x.type /\ G[f].pipe = x.pipe /\ G[f].end = x.end /\ G[f].ref = n
    BY <2>3, FileFields
  <2>5. ASSUME G[f].ref = 0 PROVE G[f] = F[f]
    <3>1. n = x.ref
      BY <2>1, <2>2, <2>4, <2>5
    <3> QED
      BY <2>2, <2>3, <3>1, FileFields
  <2> QED
    BY <2>2, <2>4, <2>5
<1>2. FilesRight(G) /\ EndsRight(G, P)
  BY <1>1, SameFiles
<1>3. RefsRight(N, G)
  <2>1. ASSUME NEW f \in FileIds PROVE G[f].ref = Cardinality(RefsIn(N, f)) + Extra(f)
    <3>1. F[f].ref = Cardinality(RefsIn(O, f)) + Extra(f) /\ Extra(f) \in Nat /\ m[f] \in Nat
      BY DEF RefsRight, Extra
    <3> QED
      BY <1>1, <3>1
  <2> QED
    BY <2>1 DEF RefsRight
<1> QED
  BY <1>2, <1>3

\* fileclose and pipeclose: the counts shrink by m, and files that were counted
\* m times are gone.
GoneFiles(F, m) == {f \in FileIds : m[f] > 0 /\ F[f].ref = m[f]}

Shrinks(O, N, F, G, P, R, m) ==
    /\ m \in [FileIds -> Nat]
    /\ G = [f \in FileIds |-> IF f \in GoneFiles(F, m) THEN ClosedFile
                               ELSE [F[f] EXCEPT !.ref = F[f].ref - m[f]]]
    /\ R = [i \in PipeIds |-> P[i] \ {F[f].end : f \in {g \in GoneFiles(F, m) : F[g].pipe = i}}]
    /\ \A f \in FileIds : /\ Cardinality(RefsIn(O, f)) \in Nat /\ m[f] <= Cardinality(RefsIn(O, f))
                           /\ Cardinality(RefsIn(N, f)) = Cardinality(RefsIn(O, f)) - m[f]

LEMMA CountsShrink ==
    ASSUME NEW O, NEW N, NEW F, NEW G, NEW P, NEW R, NEW m, Shrinks(O, N, F, G, P, R, m),
           FilesRight(F), RefsRight(O, F), EndsRight(F, P)
    PROVE  FilesRight(G) /\ RefsRight(N, G) /\ EndsRight(G, R)
<1> USE DEF Shrinks
<1>1. ClosedFile \in FileType /\ ClosedFile.ref = 0 /\ ClosedFile.type = "none" /\ ClosedFile.pipe = 0
  BY ShellConstants DEF ClosedFile, FileType
<1>2. ASSUME NEW f \in FileIds
      PROVE  /\ F[f] \in FileType /\ F[f].ref \in Nat /\ m[f] \in Nat /\ Extra(f) \in Nat
             /\ F[f].ref = Cardinality(RefsIn(O, f)) + Extra(f) /\ m[f] <= F[f].ref
  BY FileFields DEF FilesRight, RefsRight, Extra
<1>3. ASSUME NEW f \in GoneFiles(F, m)
      PROVE  f \in FileIds /\ G[f] = ClosedFile /\ Cardinality(RefsIn(N, f)) = 0 /\ Extra(f) = 0
  BY <1>2 DEF GoneFiles
<1>4. ASSUME NEW f \in FileIds, f \notin GoneFiles(F, m)
      PROVE  /\ G[f] \in FileType /\ G[f].type = F[f].type /\ G[f].pipe = F[f].pipe /\ G[f].end = F[f].end
             /\ G[f].ref = F[f].ref - m[f] /\ (G[f].ref = 0 => G[f] = F[f])
  <2>1. PICK x, n : x = F[f] /\ n = F[f].ref - m[f]
    OBVIOUS
  <2>2. G[f] = [x EXCEPT !.ref = n] /\ x \in FileType /\ n \in Nat
    BY <1>2, <1>4, <2>1
  <2>3. G[f] \in FileType /\ G[f].type = x.type /\ G[f].pipe = x.pipe /\ G[f].end = x.end /\ G[f].ref = n
    BY ONLY <2>2, FileFields
  <2>4. ASSUME G[f].ref = 0 PROVE G[f] = F[f]
    <3>1. F[f].ref = m[f]
      BY <1>2, <2>1, <2>3, <2>4
    <3>2. n = x.ref
      BY <1>2, <1>4, <2>1, <3>1 DEF GoneFiles
    <3> QED
      BY <2>1, <2>2, <3>2, FileFields
  <2> QED
    BY <2>1, <2>3, <2>4
<1>5. FilesRight(G)
  <2>1. \A f \in FileIds : G[f] \in FileType
    BY <1>1, <1>3, <1>4
  <2>2. G \in [FileIds -> FileType]
    BY <2>1
  <2>3. ASSUME NEW f \in FileIds
        PROVE  (G[f].ref = 0 => G[f] = ClosedFile) /\ (G[f].type = "pipe" <=> G[f].pipe # 0)
    <3>1. CASE f \in GoneFiles(F, m)
      BY <1>1, <1>3, <3>1
    <3>2. CASE f \notin GoneFiles(F, m)
      BY <1>4, <3>2 DEF FilesRight
    <3> QED
      BY <3>1, <3>2
  <2>4. ASSUME NEW f \in FileIds, G[f].type = "pipe"
        PROVE  F[f].type = "pipe" /\ F[f].pipe = G[f].pipe /\ F[f].end = G[f].end
    BY <1>1, <1>3, <1>4, <2>4
  <2> QED
    BY <2>2, <2>3, <2>4 DEF FilesRight
<1>6. RefsRight(N, G)
  <2>1. ASSUME NEW f \in FileIds PROVE G[f].ref = Cardinality(RefsIn(N, f)) + Extra(f)
    <3>1. CASE f \in GoneFiles(F, m)
      <4>1. G[f].ref = 0 /\ Cardinality(RefsIn(N, f)) = 0 /\ Extra(f) = 0
        BY <1>1, <1>3, <3>1
      <4> QED
        BY <4>1
    <3>2. CASE f \notin GoneFiles(F, m)
      <4>1. G[f].ref = F[f].ref - m[f]
        BY <1>4, <3>2
      <4> QED
        BY <1>2, <4>1
    <3> QED
      BY <3>1, <3>2
  <2> QED
    BY <2>1 DEF RefsRight
<1>7. ASSUME NEW i \in PipeIds PROVE R[i] = EndsOf(G, i)
  <2>1. R[i] = P[i] \ {F[f].end : f \in {g \in GoneFiles(F, m) : F[g].pipe = i}} /\ P[i] = EndsOf(F, i)
    BY DEF EndsRight
  <2>2. i # 0
    BY DEF PipeIds
  <2>3. ASSUME NEW x \in R[i] PROVE x \in EndsOf(G, i)
    <3>1. PICK f \in FileIds : F[f].type = "pipe" /\ F[f].pipe = i /\ F[f].end = x
      BY <2>1, <2>3 DEF EndsOf
    <3>2. f \notin GoneFiles(F, m)
      BY <2>1, <2>3, <3>1
    <3> QED
      BY <1>4, <3>1, <3>2 DEF EndsOf
  <2>4. ASSUME NEW x \in EndsOf(G, i) PROVE x \in R[i]
    <3>1. PICK f \in FileIds : G[f].type = "pipe" /\ G[f].pipe = i /\ G[f].end = x
      BY <2>4 DEF EndsOf
    <3>2. f \notin GoneFiles(F, m)
      BY <1>1, <1>3, <3>1
    <3>3. F[f].type = "pipe" /\ F[f].pipe = i /\ F[f].end = x
      BY <1>4, <3>1, <3>2
    <3>4. x \in P[i]
      BY <2>1, <3>3 DEF EndsOf
    <3>5. ASSUME NEW g \in GoneFiles(F, m), F[g].pipe = i, F[g].end = x PROVE FALSE
      <4>1. g \in FileIds /\ F[g].type = "pipe"
        BY <2>2, <3>5 DEF GoneFiles, FilesRight
      <4>2. f = g
        BY <3>3, <3>5, <4>1 DEF FilesRight
      <4> QED
        BY <3>2, <4>2
    <3> QED
      BY <2>1, <3>4, <3>5
  <2> QED
    BY <2>3, <2>4
<1> QED
  BY <1>5, <1>6, <1>7 DEF EndsRight

\* filealloc: an unused file gets a descriptor.
Opens(O, N, F, G, f) ==
    /\ f \in FileIds /\ F[f].ref = 0
    /\ G = [F EXCEPT ![f] = [ClosedFile EXCEPT !.type = "inode", !.ref = 1]]
    /\ \A g \in FileIds : /\ Cardinality(RefsIn(O, g)) \in Nat
                          /\ Cardinality(RefsIn(N, g)) = Cardinality(RefsIn(O, g)) + IF g = f THEN 1 ELSE 0

LEMMA FileOpened ==
    ASSUME NEW O, NEW N, NEW F, NEW G, NEW P, NEW f, Opens(O, N, F, G, f),
           FilesRight(F), RefsRight(O, F), EndsRight(F, P)
    PROVE  FilesRight(G) /\ RefsRight(N, G) /\ EndsRight(G, P)
<1> USE DEF Opens
<1>1. PICK new : new = [ClosedFile EXCEPT !.type = "inode", !.ref = 1]
  OBVIOUS
<1>2. new \in FileType /\ new.ref = 1 /\ new.type = "inode" /\ new.pipe = 0
  <2>1. new = [type |-> "inode", ref |-> 1, pipe |-> 0, end |-> "r"]
    BY <1>1 DEF ClosedFile
  <2> QED
    BY <2>1, ShellConstants DEF FileType
<1>3. G \in [FileIds -> FileType] /\ G[f] = new /\ \A g \in FileIds : g # f => G[g] = F[g]
  BY <1>1, <1>2 DEF FilesRight
<1>4. F[f] = ClosedFile /\ F[f].type = "none"
  BY DEF FilesRight, ClosedFile
<1>5. FilesRight(G)
  <2>1. ASSUME NEW g \in FileIds
        PROVE  (G[g].ref = 0 => G[g] = ClosedFile) /\ (G[g].type = "pipe" <=> G[g].pipe # 0)
    <3>1. CASE g = f
      <4>1. G[g].ref = 1 /\ G[g].type = "inode" /\ G[g].pipe = 0
        BY <1>2, <1>3, <3>1
      <4> QED
        BY <4>1
    <3>2. CASE g # f
      BY <1>3, <3>2 DEF FilesRight
    <3> QED
      BY <3>1, <3>2
  <2>2. ASSUME NEW g \in FileIds, G[g].type = "pipe" PROVE G[g] = F[g]
    BY <1>2, <1>3, <2>2
  <2> QED
    BY <1>3, <2>1, <2>2 DEF FilesRight
<1>6. RefsRight(N, G)
  <2>1. ASSUME NEW g \in FileIds PROVE G[g].ref = Cardinality(RefsIn(N, g)) + Extra(g)
    <3>1. F[g].ref = Cardinality(RefsIn(O, g)) + Extra(g) /\ Extra(g) \in Nat
      BY DEF RefsRight, Extra
    <3>2. CASE g = f
      BY <1>2, <1>3, <3>1, <3>2
    <3>3. CASE g # f
      BY <1>3, <3>1, <3>3
    <3> QED
      BY <3>2, <3>3
  <2> QED
    BY <2>1 DEF RefsRight
<1>7. ASSUME NEW i \in PipeIds PROVE EndsOf(G, i) = EndsOf(F, i)
  BY <1>2, <1>3, <1>4 DEF EndsOf
<1> QED
  BY <1>5, <1>6, <1>7 DEF EndsRight

\* pipealloc: two unused files are the ends of an unused pipe.
PipeOpens(O, N, F, G, P, R, rf, wf, i) ==
    /\ rf \in FileIds /\ wf \in FileIds /\ rf # wf /\ F[rf].ref = 0 /\ F[wf].ref = 0
    /\ i \in PipeIds /\ P[i] = {} /\ P \in [PipeIds -> SUBSET {"r", "w"}]
    /\ G = [F EXCEPT ![rf] = [type |-> "pipe", ref |-> 1, pipe |-> i, end |-> "r"],
                     ![wf] = [type |-> "pipe", ref |-> 1, pipe |-> i, end |-> "w"]]
    /\ R = [P EXCEPT ![i] = {"r", "w"}]
    /\ \A g \in FileIds : /\ Cardinality(RefsIn(O, g)) \in Nat
                          /\ Cardinality(RefsIn(N, g))
                             = Cardinality(RefsIn(O, g)) + IF g = rf \/ g = wf THEN 1 ELSE 0

LEMMA PipeOpened ==
    ASSUME NEW O, NEW N, NEW F, NEW G, NEW P, NEW R, NEW rf, NEW wf, NEW i,
           PipeOpens(O, N, F, G, P, R, rf, wf, i), FilesRight(F), RefsRight(O, F), EndsRight(F, P)
    PROVE  FilesRight(G) /\ RefsRight(N, G) /\ EndsRight(G, R)
<1> USE DEF PipeOpens
<1>1. PICK r, w : /\ r = [type |-> "pipe", ref |-> 1, pipe |-> i, end |-> "r"]
                  /\ w = [type |-> "pipe", ref |-> 1, pipe |-> i, end |-> "w"]
  OBVIOUS
<1>2. /\ r \in FileType /\ r.ref = 1 /\ r.type = "pipe" /\ r.pipe = i /\ r.end = "r"
      /\ w \in FileType /\ w.ref = 1 /\ w.type = "pipe" /\ w.pipe = i /\ w.end = "w" /\ i # 0
  BY <1>1, ShellConstants DEF FileType, PipeIds
<1>3. /\ G \in [FileIds -> FileType] /\ G[rf] = r /\ G[wf] = w
      /\ \A g \in FileIds : g # rf /\ g # wf => G[g] = F[g]
  BY <1>1, <1>2 DEF FilesRight
<1>4. F[rf].type = "none" /\ F[wf].type = "none"
  BY DEF FilesRight, ClosedFile
<1>5. ASSUME NEW g \in FileIds, F[g].type = "pipe", F[g].pipe = i PROVE FALSE
  <2>1. F[g].end \in EndsOf(F, i)
    BY <1>5 DEF EndsOf
  <2> QED
    BY <2>1 DEF EndsRight
<1>6. FilesRight(G)
  <2>1. ASSUME NEW g \in FileIds
        PROVE  (G[g].ref = 0 => G[g] = ClosedFile) /\ (G[g].type = "pipe" <=> G[g].pipe # 0)
    <3>1. CASE g = rf \/ g = wf
      BY <1>2, <1>3, <3>1
    <3>2. CASE g # rf /\ g # wf
      BY <1>3, <3>2 DEF FilesRight
    <3> QED
      BY <3>1, <3>2
  <2>2. ASSUME NEW f \in FileIds, NEW g \in FileIds, G[f].type = "pipe", G[g].type = "pipe", G[f].pipe = G[g].pipe,
               G[f].end = G[g].end
        PROVE  f = g
    <3>1. CASE G[f].pipe = i
      <4>1. f \in {rf, wf} /\ g \in {rf, wf}
        BY <1>3, <1>5, <2>2, <3>1
      <4> QED
        BY <1>2, <1>3, <2>2, <4>1
    <3>2. CASE G[f].pipe # i
      <4>1. f \notin {rf, wf} /\ g \notin {rf, wf}
        BY <1>2, <1>3, <2>2, <3>2
      <4>2. G[f] = F[f] /\ G[g] = F[g]
        BY <1>3, <4>1
      <4> QED
        BY <2>2, <4>2 DEF FilesRight
    <3> QED
      BY <3>1, <3>2
  <2> QED
    BY <1>3, <2>1, <2>2 DEF FilesRight
<1>7. RefsRight(N, G)
  <2>1. ASSUME NEW g \in FileIds PROVE G[g].ref = Cardinality(RefsIn(N, g)) + Extra(g)
    <3>1. F[g].ref = Cardinality(RefsIn(O, g)) + Extra(g) /\ Extra(g) \in Nat
      BY DEF RefsRight, Extra
    <3>2. CASE g = rf \/ g = wf
      <4>1. F[g].ref = 0 /\ G[g].ref = 1
        BY <1>2, <1>3, <3>2
      <4> QED
        BY <3>1, <3>2, <4>1
    <3>3. CASE g # rf /\ g # wf
      BY <1>3, <3>1, <3>3
    <3> QED
      BY <3>2, <3>3
  <2> QED
    BY <2>1 DEF RefsRight
<1>8. ASSUME NEW j \in PipeIds PROVE R[j] = EndsOf(G, j)
  <2>1. CASE j = i
    <3>1. R[j] = {"r", "w"}
      BY <2>1
    <3>2. "r" \in EndsOf(G, j) /\ "w" \in EndsOf(G, j)
      BY <1>2, <1>3, <2>1 DEF EndsOf
    <3>3. \A x \in EndsOf(G, j) : x \in {"r", "w"}
      BY <1>3 DEF EndsOf, FileType
    <3> QED
      BY <3>1, <3>2, <3>3
  <2>2. CASE j # i
    <3>1. R[j] = EndsOf(F, j)
      BY <2>2 DEF EndsRight
    <3>2. \A g \in FileIds : G[g].type = "pipe" /\ G[g].pipe = j <=> F[g].type = "pipe" /\ F[g].pipe = j
      BY <1>2, <1>3, <1>4, <2>2
    <3>3. \A g \in FileIds : F[g].type = "pipe" => G[g] = F[g]
      BY <1>3, <1>4
    <3>4. {g \in FileIds : G[g].type = "pipe" /\ G[g].pipe = j} = {g \in FileIds : F[g].type = "pipe" /\ F[g].pipe = j}
      BY <3>2
    <3>5. EndsOf(G, j) = EndsOf(F, j)
      <4>1. ASSUME NEW g \in {f \in FileIds : F[f].type = "pipe" /\ F[f].pipe = j} PROVE G[g].end = F[g].end
        BY <3>3
      <4>2. PICK S : S = {f \in FileIds : F[f].type = "pipe" /\ F[f].pipe = j}
        OBVIOUS
      <4>3. EndsOf(G, j) = {G[f].end : f \in S} /\ EndsOf(F, j) = {F[f].end : f \in S}
        BY <3>4, <4>2 DEF EndsOf
      <4>4. \A f \in S : G[f].end = F[f].end
        BY <4>1, <4>2
      <4> QED
        BY ONLY <4>3, <4>4
    <3> QED
      BY <3>1, <3>5
  <2> QED
    BY <2>1, <2>2
<1> QED
  BY <1>6, <1>7, <1>8 DEF EndsRight

-----------------------------------------------------------------------------
\* Processes.
Proc(state, parent, l, a, p) == [state |-> state, parent |-> parent, calls |-> l, ofile |-> a, p |-> p]

LEMMA ProcFields ==
    ASSUME NEW s \in ProcType
    PROVE  /\ s = Proc(s.state, s.parent, s.calls, s.ofile, s.p)
           /\ s.state \in {"unused", "runs", "filter", "program", "zombie", "panic"} /\ s.parent \in ShProcs \cup {0}
           /\ s.calls \in CallLists /\ s.ofile \in FdArrays /\ s.p \in Fds \X Fds
  BY DEF ProcType, Proc

LEMMA ProcMade ==
    ASSUME NEW state \in {"unused", "runs", "filter", "program", "zombie", "panic"}, NEW parent \in ShProcs \cup {0},
           NEW l \in CallLists, NEW a \in FdArrays, NEW p \in Fds \X Fds
    PROVE  /\ Proc(state, parent, l, a, p) \in ProcType
           /\ Proc(state, parent, l, a, p).state = state /\ Proc(state, parent, l, a, p).parent = parent
           /\ Proc(state, parent, l, a, p).calls = l /\ Proc(state, parent, l, a, p).ofile = a
           /\ Proc(state, parent, l, a, p).p = p
  BY DEF ProcType, Proc

\* A process that makes calls, and one that is not there.
LEMMA ProcRuns ==
    ASSUME NEW parent \in ShProcs \cup {0}, NEW l, NEW a \in FdArrays, NEW p \in Fds \X Fds, Shape(a, p, l)
    PROVE  /\ Proc("runs", parent, l, a, p) \in ProcType /\ ProcRight(Proc("runs", parent, l, a, p))
           /\ Proc("runs", parent, l, a, p).ofile = a
<1>1. l \in CallLists
  BY ShapeListed
<1>2. PICK s : s = Proc("runs", parent, l, a, p)
  OBVIOUS
<1>3. s \in ProcType /\ s.state = "runs" /\ s.calls = l /\ s.ofile = a /\ s.p = p
  BY <1>1, <1>2, ProcMade
<1>4. ProcRight(s)
  BY <1>3 DEF ProcRight
<1> QED
  BY <1>2, <1>3, <1>4

LEMMA NoFdsType == NoFds \in FdArrays /\ <<0, 0>> \in Fds \X Fds /\ <<>> \in CallLists /\ Exits \in CallLists
  BY ShellConstants DEF NoFds, FdArrays, CallLists

LEMMA ProcGone ==
    ASSUME NEW state \in {"unused", "zombie", "panic"}, NEW parent \in ShProcs \cup {0}
    PROVE  /\ Proc(state, parent, <<>>, NoFds, <<0, 0>>) \in ProcType
           /\ ProcRight(Proc(state, parent, <<>>, NoFds, <<0, 0>>))
           /\ Proc(state, parent, <<>>, NoFds, <<0, 0>>).ofile = NoFds
<1>1. PICK s : s = Proc(state, parent, <<>>, NoFds, <<0, 0>>)
  OBVIOUS
<1>2. s \in ProcType /\ s.state = state /\ s.ofile = NoFds
  BY <1>1, ProcMade, NoFdsType
<1>3. ProcRight(s)
  BY <1>2 DEF ProcRight
<1> QED
  BY <1>1, <1>2, <1>3

LEMMA AbsentIs == Absent = Proc("unused", 0, <<>>, NoFds, <<0, 0>>)
  BY DEF Absent, Proc

\* A process is replaced.
LEMMA SetProc ==
    ASSUME NEW S, ProcsRight(S), NEW q \in ShProcs, NEW s \in ProcType, ProcRight(s)
    PROVE  /\ ProcsRight([S EXCEPT ![q] = s])
           /\ OfilesOf([S EXCEPT ![q] = s])[q] = s.ofile
           /\ \A r \in ShProcs : r # q => OfilesOf([S EXCEPT ![q] = s])[r] = OfilesOf(S)[r]
<1>1. PICK T : T = [S EXCEPT ![q] = s]
  OBVIOUS
<1>2. T \in [ShProcs -> ProcType] /\ T[q] = s /\ \A r \in ShProcs : r # q => T[r] = S[r]
  BY <1>1 DEF ProcsRight
<1>3. ProcsRight(T)
  BY <1>2 DEF ProcsRight
<1>4. OfilesOf(T)[q] = s.ofile /\ \A r \in ShProcs : r # q => OfilesOf(T)[r] = OfilesOf(S)[r]
  BY <1>2 DEF OfilesOf
<1> QED
  BY <1>1, <1>3, <1>4

LEMMA OfilesIs ==
    ASSUME NEW S, NEW q \in ShProcs
    PROVE  OfilesOf(S)[q] = S[q].ofile
  BY DEF OfilesOf

\* With the descriptors it had.
LEMMA SameFds ==
    ASSUME NEW S, NEW F, NEW P, ShellRight(S, F, P), NEW q \in ShProcs, NEW s \in ProcType, ProcRight(s),
           s.ofile = S[q].ofile
    PROVE  ShellRight([S EXCEPT ![q] = s], F, P)
<1>1. PICK T : T = [S EXCEPT ![q] = s]
  OBVIOUS
<1>2. /\ ProcsRight(T) /\ OfilesOf(T)[q] = s.ofile
      /\ \A r \in ShProcs : r # q => OfilesOf(T)[r] = OfilesOf(S)[r]
  <2>1. ProcsRight(S)
    BY DEF ShellRight
  <2>2. /\ ProcsRight([S EXCEPT ![q] = s])
        /\ OfilesOf([S EXCEPT ![q] = s])[q] = s.ofile
        /\ \A r \in ShProcs : r # q => OfilesOf([S EXCEPT ![q] = s])[r] = OfilesOf(S)[r]
    BY ONLY <2>1, q \in ShProcs, s \in ProcType, ProcRight(s), SetProc
  <2> QED
    BY <1>1, <2>2
<1>3. \A r \in ShProcs : OfilesOf(T)[r] = OfilesOf(S)[r]
  BY <1>2, OfilesIs
<1>4. \A f : RefsIn(OfilesOf(T), f) = RefsIn(OfilesOf(S), f)
  BY <1>3 DEF RefsIn
<1>5. RefsRight(OfilesOf(T), F)
  BY <1>4 DEF ShellRight, RefsRight
<1>6. ShellRight(T, F, P)
  BY <1>2, <1>5 DEF ShellRight
<1> QED
  BY <1>1, <1>6

\* A process about to make a call.
CallAt(s, op, h, t) ==
    /\ s.state = "runs" /\ s.calls # <<>> /\ h = Head(s.calls) /\ t = Tail(s.calls) /\ h.op = op
    /\ ByCall(s.ofile, s.p, h, t)

LEMMA AtCall ==
    ASSUME NEW S, ProcsRight(S), NEW q \in ShProcs, NEW op,
           S[q].state = "runs", S[q].calls # <<>>, Head(S[q].calls).op = op
    PROVE  S[q] \in ProcType /\ CallAt(S[q], op, Head(S[q].calls), Tail(S[q].calls))
<1>1. PICK s : s = S[q]
  OBVIOUS
<1>2. s \in ProcType /\ ProcRight(s) /\ s.state = "runs"
  BY <1>1 DEF ProcsRight
<1>3. Shape(s.ofile, s.p, s.calls)
  BY <1>2 DEF ProcRight
<1>4. ByCall(s.ofile, s.p, Head(s.calls), Tail(s.calls))
  BY <1>3, CallOf
<1> QED
  BY <1>1, <1>2, <1>4 DEF CallAt

\* A step that only says how the process goes on.
LEMMA GoesOn ==
    ASSUME NEW S, NEW F, NEW P, ShellRight(S, F, P), NEW q \in ShProcs, S[q].state = "runs", NEW l,
           Shape(S[q].ofile, S[q].p, l)
    PROVE  ShellRight([S EXCEPT ![q] = [S[q] EXCEPT !.calls = l]], F, P)
<1>1. PICK s : s = S[q]
  OBVIOUS
<1>2. s \in ProcType /\ s.state = "runs"
  BY <1>1 DEF ShellRight, ProcsRight
<1>3. PICK u : u = [s EXCEPT !.calls = l]
  OBVIOUS
<1>4. u = Proc("runs", s.parent, l, s.ofile, s.p)
  BY <1>2, <1>3 DEF ProcType, Proc
<1>5. s.parent \in ShProcs \cup {0} /\ s.ofile \in FdArrays /\ s.p \in Fds \X Fds /\ Shape(s.ofile, s.p, l)
  BY <1>1, <1>2, ProcFields
<1>6. u \in ProcType /\ ProcRight(u) /\ u.ofile = s.ofile
  BY <1>4, <1>5, ProcRuns
<1>7. ShellRight([S EXCEPT ![q] = u], F, P)
  BY <1>1, <1>6, SameFds
<1> QED
  BY <1>1, <1>3, <1>7

-----------------------------------------------------------------------------
\* The calls that leave the files alone.
LEMMA CallsAt ==
    ASSUME ShellInv, NEW q \in ShProcs, NEW op, Calls(q, op)
    PROVE  /\ sh[q] \in ProcType /\ sh[q].state = "runs"
           /\ ByCall(sh[q].ofile, sh[q].p, Head(sh[q].calls), Tail(sh[q].calls))
           /\ Head(sh[q].calls).op = op
<1>1. ProcsRight(sh)
  BY DEF ShellInv, ShellRight
<1>2. sh[q].state = "runs" /\ sh[q].calls # <<>> /\ Head(sh[q].calls).op = op
  BY DEF Calls
<1>3. sh[q] \in ProcType /\ CallAt(sh[q], op, Head(sh[q].calls), Tail(sh[q].calls))
  BY <1>1, <1>2, AtCall
<1> QED
  BY <1>2, <1>3 DEF CallAt

LEMMA GoesOnKeeps ==
    ASSUME ShellInv, NEW q \in ShProcs, sh[q].state = "runs", NEW l, Shape(sh[q].ofile, sh[q].p, l),
           sh' = [sh EXCEPT ![q] = [sh[q] EXCEPT !.calls = l]], ftable' = ftable, pipes' = pipes
    PROVE  ShellInv'
<1>1. ShellRight([sh EXCEPT ![q] = [sh[q] EXCEPT !.calls = l]], ftable, pipes)
  BY GoesOn DEF ShellInv
<1> QED
  BY <1>1 DEF ShellInv

LEMMA EndOfInputKeeps ==
    ASSUME ShellInv, NEW q \in ShProcs, EndOfInput(q)
    PROVE  ShellInv'
<1>1. sh[q].state = "runs" /\ sh' = [sh EXCEPT ![q] = [sh[q] EXCEPT !.calls = Exits]] /\ ftable' = ftable /\ pipes' = pipes
  BY DEF EndOfInput, Calls, Set
<1>2. Shape(sh[q].ofile, sh[q].p, Exits)
  BY ExitShape
<1> QED
  BY <1>1, <1>2, GoesOnKeeps

LEMMA ExecFailsKeeps ==
    ASSUME ShellInv, NEW q \in ShProcs, ExecFails(q)
    PROVE  ShellInv'
<1>1. sh[q].state = "runs" /\ sh' = [sh EXCEPT ![q] = [sh[q] EXCEPT !.calls = Exits]] /\ ftable' = ftable /\ pipes' = pipes
  BY DEF ExecFails, Calls, Set
<1>2. Shape(sh[q].ofile, sh[q].p, Exits)
  BY ExitShape
<1> QED
  BY <1>1, <1>2, GoesOnKeeps

LEMMA RuncmdKeeps ==
    ASSUME ShellInv, NEW q \in ShProcs, Runcmd(q)
    PROVE  ShellInv'
<1>1. Calls(q, "runcmd") /\ ftable' = ftable /\ pipes' = pipes
  BY DEF Runcmd
<1>2. sh' = [sh EXCEPT ![q] = [sh[q] EXCEPT !.calls = runcmd(Head(sh[q].calls).arg)]]
  BY DEF Runcmd, Set, Arg
<1>3. /\ sh[q].state = "runs" /\ Head(sh[q].calls).op = "runcmd"
      /\ ByCall(sh[q].ofile, sh[q].p, Head(sh[q].calls), Tail(sh[q].calls))
  BY <1>1, CallsAt
<1>4. Shape(sh[q].ofile, sh[q].p, runcmd(Head(sh[q].calls).arg))
  BY <1>3, RuncmdShape
<1> QED
  BY <1>1, <1>2, <1>3, <1>4, GoesOnKeeps

LEMMA ReadLineKeeps ==
    ASSUME ShellInv, NEW q \in ShProcs, NEW line \in Lines, ReadLine(q, line)
    PROVE  ShellInv'
<1>1. PICK child : child = IF line = {} THEN Exits ELSE <<Run(CHOOSE c \in line : TRUE)>>
  OBVIOUS
<1>2. /\ Calls(q, "prompt") /\ ftable' = ftable /\ pipes' = pipes
      /\ sh' = [sh EXCEPT ![q] = [sh[q] EXCEPT !.calls = <<With("fork", child), Do("wait")>> \o Prompt]]
  BY <1>1 DEF ReadLine, Set
<1>3. child \in ChildLists
  <2>1. CASE line = {}
    BY <1>1, <2>1 DEF ChildLists
  <2>2. CASE line # {}
    <3>1. (CHOOSE c \in line : TRUE) \in Commands
      BY <2>2, ShellAssumption
    <3> QED
      BY <1>1, <2>2, <3>1 DEF ChildLists
  <2> QED
    BY <2>1, <2>2
<1>4. <<With("fork", child), Do("wait")>> \o Prompt = <<With("fork", child), Do("wait"), Do("prompt")>>
  <2>1. Prompt = <<Do("prompt")>>
    BY DEF Prompt, Do
  <2> QED
    BY <2>1, JoinedThree
<1>5. /\ sh[q].state = "runs" /\ Head(sh[q].calls).op = "prompt"
      /\ ByCall(sh[q].ofile, sh[q].p, Head(sh[q].calls), Tail(sh[q].calls))
  BY <1>2, CallsAt
<1>6. Only(sh[q].ofile, {})
  BY <1>5 DEF ByCall
<1>7. <<With("fork", child), Do("wait"), Do("prompt")>> \in CleanLists
  BY <1>3 DEF CleanLists
<1>8. Shape(sh[q].ofile, sh[q].p, <<With("fork", child), Do("wait")>> \o Prompt)
  BY <1>4, <1>6, <1>7 DEF Shape
<1> QED
  BY <1>2, <1>5, <1>8, GoesOnKeeps

\* exec, and the end of a program.
LEMMA ExecKeeps ==
    ASSUME ShellInv, NEW q \in ShProcs, Exec1(q)
    PROVE  ShellInv'
<1>1. PICK s, state : s = sh[q] /\ state = IF Arg(q) \in Filters THEN "filter" ELSE "program"
  OBVIOUS
<1>2. /\ s.state = "runs" /\ ftable' = ftable /\ pipes' = pipes
      /\ sh' = [sh EXCEPT ![q] = [s EXCEPT !.state = state, !.calls = Exits]]
  BY <1>1 DEF Exec1, Calls, Set
<1>3. s \in ProcType
  BY <1>1 DEF ShellInv, ShellRight, ProcsRight
<1>4. PICK u : u = [s EXCEPT !.state = state, !.calls = Exits]
  OBVIOUS
<1>5. u = Proc(state, s.parent, Exits, s.ofile, s.p)
  BY <1>3, <1>4 DEF ProcType, Proc
<1>6. u \in ProcType /\ u.state = state /\ u.calls = Exits /\ u.ofile = s.ofile /\ u.p = s.p
  <2>1. state \in {"unused", "runs", "filter", "program", "zombie", "panic"}
    BY <1>1
  <2>2. s.parent \in ShProcs \cup {0} /\ s.ofile \in FdArrays /\ s.p \in Fds \X Fds
    BY <1>3, ProcFields
  <2>3. Exits \in CallLists
    BY NoFdsType
  <2> QED
    BY ONLY <1>5, <2>1, <2>2, <2>3, ProcMade
<1>7. ProcRight(u)
  BY <1>1, <1>6, ExitShape DEF ProcRight
<1>8. ShellRight([sh EXCEPT ![q] = u], ftable, pipes)
  BY <1>1, <1>6, <1>7, SameFds DEF ShellInv
<1> QED
  BY <1>2, <1>4, <1>8 DEF ShellInv

LEMMA ProgramEndsKeeps ==
    ASSUME ShellInv, NEW q \in ShProcs, ProgramEnds(q)
    PROVE  ShellInv'
<1>1. PICK s : s = sh[q]
  OBVIOUS
<1>2. /\ s.state \in {"filter", "program"} /\ ftable' = ftable /\ pipes' = pipes
      /\ sh' = [sh EXCEPT ![q] = [s EXCEPT !.state = "runs"]]
  BY <1>1 DEF ProgramEnds, Set
<1>3. s \in ProcType /\ ProcRight(s)
  BY <1>1 DEF ShellInv, ShellRight, ProcsRight
<1>4. s.calls = Exits
  BY <1>2, <1>3 DEF ProcRight
<1>5. PICK u : u = [s EXCEPT !.state = "runs"]
  OBVIOUS
<1>6. u = Proc("runs", s.parent, Exits, s.ofile, s.p)
  BY <1>3, <1>4, <1>5 DEF ProcType, Proc
<1>7. u \in ProcType /\ ProcRight(u) /\ u.ofile = s.ofile
  BY <1>3, <1>6, ProcFields, ProcRuns, ExitShape
<1>8. ShellRight([sh EXCEPT ![q] = u], ftable, pipes)
  BY <1>1, <1>7, SameFds DEF ShellInv
<1> QED
  BY <1>2, <1>5, <1>8 DEF ShellInv

LEMMA WaitCallKeeps ==
    ASSUME ShellInv, NEW q \in ShProcs, WaitCall(q)
    PROVE  ShellInv'
<1>1. Calls(q, "wait") /\ ftable' = ftable /\ pipes' = pipes
  BY DEF WaitCall
<1>2. PICK r \in ShProcs : sh[r].state = "zombie" /\ sh' = [sh EXCEPT ![q] = After(q), ![r] = Absent]
  BY DEF WaitCall
<1>3. /\ sh[q].state = "runs" /\ Head(sh[q].calls).op = "wait" /\ sh[q] \in ProcType
      /\ ByCall(sh[q].ofile, sh[q].p, Head(sh[q].calls), Tail(sh[q].calls))
  BY <1>1, CallsAt
<1>4. Shape(sh[q].ofile, sh[q].p, Tail(sh[q].calls))
  BY <1>3, WaitShape
<1>5. PICK S : S = [sh EXCEPT ![q] = After(q)]
  OBVIOUS
<1>6. S = [sh EXCEPT ![q] = [sh[q] EXCEPT !.calls = Tail(sh[q].calls)]]
  BY <1>5 DEF After
<1>7. ShellRight(S, ftable, pipes)
  BY <1>3, <1>4, <1>6, GoesOn DEF ShellInv
<1>8. S[r] = sh[r] /\ S[r].ofile = NoFds
  <2>1. ProcRight(sh[r]) /\ r # q /\ sh \in [ShProcs -> ProcType]
    BY <1>2, <1>3 DEF ShellInv, ShellRight, ProcsRight
  <2>2. sh[r].ofile = NoFds
    BY <1>2, <2>1 DEF ProcRight
  <2> QED
    BY <1>5, <2>1, <2>2
<1>9. Absent \in ProcType /\ ProcRight(Absent) /\ Absent.ofile = NoFds
  BY AbsentIs, ProcGone
<1>10. ShellRight([S EXCEPT ![r] = Absent], ftable, pipes)
  BY <1>7, <1>8, <1>9, SameFds
<1>11. sh' = [S EXCEPT ![r] = Absent]
  BY <1>2, <1>5
<1> QED
  BY <1>1, <1>10, <1>11 DEF ShellInv

-----------------------------------------------------------------------------
\* The calls that change the files.
LEMMA LeastIs ==
    ASSUME NEW T \in SUBSET Nat, T # {}
    PROVE  /\ (CHOOSE x \in T : \A y \in T : x <= y) \in T
           /\ \A y \in T : (CHOOSE x \in T : \A y2 \in T : x <= y2) <= y
  BY LeastNatural

LEMMA ClosingKeeps ==
    ASSUME ShellInv, NEW q \in ShProcs, NEW fds \in SUBSET Fds, Closing(q, fds), NEW N,
           \A r \in ShProcs : r # q => N[r] = OfilesOf(sh)[r],
           N[q] = [k \in Fds |-> IF k \in fds THEN 0 ELSE sh[q].ofile[k]]
    PROVE  /\ FilesRight(ftable') /\ RefsRight(N, ftable') /\ EndsRight(ftable', pipes')
           /\ pipes' \in [PipeIds -> SUBSET {"r", "w"}]
<1>1. PICK a, O, F, P : a = sh[q].ofile /\ O = OfilesOf(sh) /\ F = ftable /\ P = pipes
  OBVIOUS
<1>2. PICK m : m = [f \in FileIds |-> Cardinality(Among(a, fds, f))]
  OBVIOUS
<1>3. m \in [FileIds -> Nat]
  <2>1. ASSUME NEW f \in FileIds PROVE Cardinality(Among(a, fds, f)) \in Nat
    BY RowFinite
  <2> QED
    BY <1>2, <2>1
<1>4. /\ FilesRight(F) /\ RefsRight(O, F) /\ EndsRight(F, P) /\ P \in [PipeIds -> SUBSET {"r", "w"}]
      /\ O[q] = a
  BY <1>1, OfilesIs DEF ShellInv, ShellRight
<1>5. GoneWith(q, fds) = GoneFiles(F, m) /\ \A f \in FileIds : m[f] = Cardinality(FdsOf(q, fds, f))
  BY <1>1, <1>2 DEF GoneWith, GoneFiles, FdsOf, Among
<1>6. /\ ftable' = [f \in FileIds |-> IF f \in GoneFiles(F, m) THEN ClosedFile
                                     ELSE [F[f] EXCEPT !.ref = F[f].ref - m[f]]]
      /\ pipes' = [i \in PipeIds |-> P[i] \ {F[f].end : f \in {g \in GoneFiles(F, m) : F[g].pipe = i}}]
  BY <1>1, <1>5 DEF Closing
<1>7. ASSUME NEW f \in FileIds
      PROVE  /\ Cardinality(RefsIn(O, f)) \in Nat /\ m[f] <= Cardinality(RefsIn(O, f))
             /\ Cardinality(RefsIn(N, f)) = Cardinality(RefsIn(O, f)) - m[f]
  <2>1. PICK x, y, v, w : /\ x = Cardinality(RefsIn(O, f)) /\ y = Cardinality(RefsIn(N, f))
                          /\ v = Cardinality(Row(O[q], f)) /\ w = Cardinality(Row(N[q], f))
    OBVIOUS
  <2>2. x \in Nat /\ y \in Nat /\ v \in Nat /\ w \in Nat /\ v <= x /\ y = x - v + w
    <3>1. OnlyRow(O, N, q)
      BY <1>1 DEF OnlyRow
    <3>2. /\ Cardinality(RefsIn(O, f)) \in Nat /\ Cardinality(RefsIn(N, f)) \in Nat
          /\ Cardinality(Row(O[q], f)) \in Nat /\ Cardinality(Row(N[q], f)) \in Nat
          /\ Cardinality(Row(O[q], f)) <= Cardinality(RefsIn(O, f))
          /\ Cardinality(RefsIn(N, f))
             = Cardinality(RefsIn(O, f)) - Cardinality(Row(O[q], f)) + Cardinality(Row(N[q], f))
      BY ONLY <3>1, q \in ShProcs, RowChange
    <3> QED
      BY <2>1, <3>2
  <2>3. w = v - m[f]
    <3>1. N[q] = [k \in Fds |-> IF k \in fds THEN 0 ELSE a[k]] /\ O[q] = a
      BY <1>1, <1>4
    <3>2. Cardinality(Row([k \in Fds |-> IF k \in fds THEN 0 ELSE a[k]], f))
          = Cardinality(Row(a, f)) - Cardinality(Among(a, fds, f))
      BY RowLess
    <3> QED
      BY <1>2, <2>1, <3>1, <3>2
  <2>4. m[f] <= v /\ m[f] \in Nat
    <3>1. /\ Cardinality(Among(a, fds, f)) \in Nat
          /\ Cardinality(Among(a, fds, f)) <= Cardinality(Row(a, f))
      BY RowFinite
    <3> QED
      BY <1>2, <1>4, <2>1, <3>1
  <2> QED
    BY <2>1, <2>2, <2>3, <2>4
<1>8. PICK G, R : G = ftable' /\ R = pipes'
  OBVIOUS
<1>9. FilesRight(G) /\ RefsRight(N, G) /\ EndsRight(G, R)
  <2>1. Shrinks(O, N, F, G, P, R, m)
    BY <1>3, <1>6, <1>7, <1>8 DEF Shrinks
  <2> QED
    BY ONLY <1>4, <2>1, CountsShrink
<1>10. R \in [PipeIds -> SUBSET {"r", "w"}]
  BY <1>4, <1>6, <1>8
<1> QED
  BY <1>8, <1>9, <1>10

LEMMA CloseKeeps ==
    ASSUME ShellInv, NEW q \in ShProcs, sh[q].state = "runs", NEW fd \in Fds,
           Shape([sh[q].ofile EXCEPT ![fd] = 0], sh[q].p, Tail(sh[q].calls)), Close(q, fd)
    PROVE  ShellInv'
<1>1. PICK s, t, b : s = sh[q] /\ t = Tail(s.calls) /\ b = [s.ofile EXCEPT ![fd] = 0]
  OBVIOUS
<1>2. /\ s \in ProcType /\ ProcsRight(sh) /\ s.state = "runs" /\ s.parent \in ShProcs \cup {0} /\ s.ofile \in FdArrays
      /\ s.p \in Fds \X Fds
  BY <1>1, ProcFields DEF ShellInv, ShellRight, ProcsRight
<1>3. PICK u : u = [After(q) EXCEPT !.ofile[fd] = 0]
  OBVIOUS
<1>4. u = Proc("runs", s.parent, t, b, s.p)
  BY <1>1, <1>2, <1>3 DEF After, ProcType, Proc
<1>5. b \in FdArrays
  <2>1. 0 \in 0 .. NFILE
    BY ShellConstants
  <2> QED
    BY <1>1, <1>2, <2>1 DEF FdArrays
<1>6. u \in ProcType /\ ProcRight(u) /\ u.ofile = b
  BY <1>1, <1>2, <1>4, <1>5, ProcRuns
<1>7. PICK T : T = [sh EXCEPT ![q] = u]
  OBVIOUS
<1>8. sh' = T /\ Closing(q, {fd})
  BY <1>3, <1>7 DEF Close, Set
<1>9. ProcsRight(T) /\ OfilesOf(T)[q] = b /\ \A r \in ShProcs : r # q => OfilesOf(T)[r] = OfilesOf(sh)[r]
  BY <1>2, <1>6, <1>7, SetProc
<1>10. OfilesOf(T)[q] = [k \in Fds |-> IF k \in {fd} THEN 0 ELSE sh[q].ofile[k]]
  BY <1>1, <1>2, <1>9 DEF FdArrays
<1>11. /\ FilesRight(ftable') /\ RefsRight(OfilesOf(T), ftable') /\ EndsRight(ftable', pipes')
       /\ pipes' \in [PipeIds -> SUBSET {"r", "w"}]
  <2>1. {fd} \in SUBSET Fds
    OBVIOUS
  <2> QED
    BY <1>8, <1>9, <1>10, <2>1, ClosingKeeps
<1>12. ShellRight(T, ftable', pipes')
  BY <1>9, <1>11 DEF ShellRight
<1> QED
  BY <1>8, <1>12 DEF ShellInv

LEMMA CloseCallKeeps ==
    ASSUME ShellInv, NEW q \in ShProcs, CloseCall(q)
    PROVE  ShellInv'
<1>1. CASE Calls(q, "close") /\ Close(q, Arg(q))
  <2>1. /\ sh[q].state = "runs" /\ Head(sh[q].calls).op = "close" /\ sh[q] \in ProcType
        /\ ByCall(sh[q].ofile, sh[q].p, Head(sh[q].calls), Tail(sh[q].calls))
    BY <1>1, CallsAt
  <2>2. sh[q].ofile \in FdArrays
    BY <2>1, ProcFields
  <2>3. PICK k : k = Head(sh[q].calls).arg
    OBVIOUS
  <2>4. k \in 0 .. 1 /\ Shape([sh[q].ofile EXCEPT ![k] = 0], sh[q].p, Tail(sh[q].calls))
    BY <2>1, <2>2, <2>3, CloseShape
  <2>5. k \in Fds
    BY <2>4, ShellConstants
  <2> QED
    BY <1>1, <2>1, <2>3, <2>4, <2>5, CloseKeeps DEF Arg
<1>2. CASE Calls(q, "closep") /\ Close(q, sh[q].p[Arg(q)])
  <2>1. /\ sh[q].state = "runs" /\ Head(sh[q].calls).op = "closep" /\ sh[q] \in ProcType
        /\ ByCall(sh[q].ofile, sh[q].p, Head(sh[q].calls), Tail(sh[q].calls))
    BY <1>2, CallsAt
  <2>2. sh[q].ofile \in FdArrays /\ sh[q].p \in Fds \X Fds
    BY <2>1, ProcFields
  <2>3. PICK k : k = sh[q].p[Head(sh[q].calls).arg]
    OBVIOUS
  <2>4. k \in Fds /\ Shape([sh[q].ofile EXCEPT ![k] = 0], sh[q].p, Tail(sh[q].calls))
    BY <2>1, <2>2, <2>3, ClosepShape
  <2> QED
    BY <1>2, <2>1, <2>3, <2>4, CloseKeeps DEF Arg
<1> QED
  BY <1>1, <1>2 DEF CloseCall

LEMMA ExitKeeps ==
    ASSUME ShellInv, NEW q \in ShProcs, Exit1(q)
    PROVE  ShellInv'
<1>1. PICK T : T = sh'
  OBVIOUS
<1>2. ProcsRight(sh) /\ sh \in [ShProcs -> ProcType] /\ \A r \in ShProcs : sh[r] \in ProcType /\ ProcRight(sh[r])
  BY DEF ShellInv, ShellRight, ProcsRight
<1>3. Absent \in ProcType /\ ProcRight(Absent) /\ Absent.ofile = NoFds
  BY AbsentIs, ProcGone
<1>4. T[q] \in ProcType /\ ProcRight(T[q]) /\ T[q].ofile = NoFds
  <2>1. CASE sh[q].parent = 0
    <3>1. T[q] = Absent
      BY <1>1, <2>1 DEF Exit1
    <3> QED
      BY <1>3, <3>1
  <2>2. CASE sh[q].parent # 0
    <3>1. T[q] = [Absent EXCEPT !.state = "zombie", !.parent = sh[q].parent]
      BY <1>1, <2>2 DEF Exit1
    <3>2. T[q] = Proc("zombie", sh[q].parent, <<>>, NoFds, <<0, 0>>)
      BY <3>1 DEF Absent, Proc
    <3>3. sh[q].parent \in ShProcs \cup {0}
      BY <1>2, ProcFields
    <3> QED
      BY <3>2, <3>3, ProcGone
  <2> QED
    BY <2>1, <2>2
<1>5. ASSUME NEW r \in ShProcs, r # q
      PROVE  T[r] \in ProcType /\ ProcRight(T[r]) /\ T[r].ofile = sh[r].ofile
  <2>1. sh[r] \in ProcType /\ ProcRight(sh[r])
    BY <1>2
  <2>2. CASE ~(sh[r].state # "unused" /\ sh[r].parent = q)
    <3>1. T[r] = sh[r]
      BY <1>1, <1>5, <2>2 DEF Exit1
    <3> QED
      BY <2>1, <3>1
  <2>3. CASE sh[r].state = "zombie" /\ sh[r].parent = q
    <3>1. T[r] = Absent
      BY <1>1, <1>5, <2>3 DEF Exit1
    <3>2. sh[r].ofile = NoFds
      BY <2>1, <2>3 DEF ProcRight
    <3> QED
      BY <1>3, <3>1, <3>2
  <2>4. CASE sh[r].state \notin {"unused", "zombie"} /\ sh[r].parent = q
    <3>1. T[r] = [sh[r] EXCEPT !.parent = 0]
      BY <1>1, <1>5, <2>4 DEF Exit1
    <3>2. PICK s, u : s = sh[r] /\ u = [s EXCEPT !.parent = 0]
      OBVIOUS
    <3>3. u = Proc(s.state, 0, s.calls, s.ofile, s.p)
      BY <2>1, <3>2 DEF ProcType, Proc
    <3>4. /\ s.state \in {"unused", "runs", "filter", "program", "zombie", "panic"} /\ s.calls \in CallLists
          /\ s.ofile \in FdArrays /\ s.p \in Fds \X Fds
      BY <2>1, <3>2, ProcFields
    <3>5. /\ u \in ProcType /\ u.state = s.state /\ u.calls = s.calls /\ u.ofile = s.ofile /\ u.p = s.p
      BY <3>3, <3>4, ProcMade
    <3>6. ProcRight(u)
      BY <2>1, <3>2, <3>5 DEF ProcRight
    <3> QED
      BY <3>1, <3>2, <3>5, <3>6
  <2> QED
    BY <2>2, <2>3, <2>4
<1>6. ProcsRight(T)
  <2>1. T \in [ShProcs -> ProcType]
    <3>1. \A r \in ShProcs : T[r] \in ProcType
      BY <1>4, <1>5
    <3>2. T = [r \in ShProcs |-> T[r]]
      BY <1>1 DEF Exit1
    <3> QED
      BY <3>1, <3>2
  <2> QED
    BY <1>4, <1>5, <2>1 DEF ProcsRight
<1>7. sh[q].ofile = NoFds /\ UNCHANGED <<ftable, pipes>>
  <2>1. sh[q].ofile \in FdArrays
    BY <1>2, ProcFields
  <2>2. \A k \in Fds : sh[q].ofile[k] = 0
    BY DEF Exit1, UsedFds
  <2> QED
    BY <2>1, <2>2 DEF FdArrays, NoFds, Exit1
<1>8. \A r \in ShProcs : OfilesOf(T)[r] = OfilesOf(sh)[r]
  BY <1>4, <1>5, <1>7, OfilesIs
<1>9. \A f : RefsIn(OfilesOf(T), f) = RefsIn(OfilesOf(sh), f)
  BY <1>8 DEF RefsIn
<1>10. RefsRight(OfilesOf(T), ftable)
  BY <1>9 DEF ShellInv, ShellRight, RefsRight
<1>11. ShellRight(T, ftable, pipes)
  BY <1>6, <1>10 DEF ShellInv, ShellRight
<1> QED
  BY <1>1, <1>7, <1>11 DEF ShellInv

\* One descriptor less never matters.
LEMMA ClosedShape ==
    ASSUME NEW a \in FdArrays, NEW p, NEW l, Shape(a, p, l), NEW fd \in Fds
    PROVE  Shape([a EXCEPT ![fd] = 0], p, l)
<1>1. PICK b : b = [a EXCEPT ![fd] = 0]
  OBVIOUS
<1>2. \A k \in Fds : b[k] = a[k] \/ b[k] = 0
  BY <1>1 DEF FdArrays
<1>3. \A E : Only(a, E) => Only(b, E)
  BY <1>2 DEF Only
<1>4. LowFree(a) => LowFree(b)
  BY <1>2, ShellConstants DEF LowFree
<1>5. Shape(b, p, l)
  BY <1>3, <1>4 DEF Shape
<1> QED
  BY <1>1, <1>5

LEMMA ExitClosesKeeps ==
    ASSUME ShellInv, NEW q \in ShProcs, ExitCloses(q)
    PROVE  ShellInv'
<1>1. PICK s, fd, b : s = sh[q] /\ fd = LowestFd(UsedFds(q)) /\ b = [s.ofile EXCEPT ![fd] = 0]
  OBVIOUS
<1>2. /\ s \in ProcType /\ ProcsRight(sh) /\ s.parent \in ShProcs \cup {0} /\ s.ofile \in FdArrays
      /\ s.p \in Fds \X Fds /\ ProcRight(s)
  BY <1>1, ProcFields DEF ShellInv, ShellRight, ProcsRight
<1>3. /\ s.state = "runs" /\ UsedFds(q) # {} /\ Closing(q, {fd})
      /\ sh' = [sh EXCEPT ![q] = [s EXCEPT !.ofile[fd] = 0]]
  BY <1>1 DEF ExitCloses, Calls, Set
<1>4. fd \in Fds
  <2>1. UsedFds(q) \in SUBSET Fds /\ UsedFds(q) \in SUBSET Nat
    BY ShellConstants DEF UsedFds
  <2>2. fd \in UsedFds(q)
    BY <1>1, <1>3, <2>1, LeastIs DEF LowestFd
  <2> QED
    BY <2>1, <2>2
<1>5. b \in FdArrays /\ Shape(b, s.p, s.calls)
  <2>1. 0 \in 0 .. NFILE
    BY ShellConstants
  <2>2. Shape(s.ofile, s.p, s.calls)
    BY <1>2, <1>3 DEF ProcRight
  <2>3. b \in FdArrays
    BY <1>1, <1>2, <2>1 DEF FdArrays
  <2> QED
    BY <1>1, <1>2, <1>4, <2>2, <2>3, ClosedShape
<1>6. PICK u : u = [s EXCEPT !.ofile[fd] = 0]
  OBVIOUS
<1>7. u = Proc("runs", s.parent, s.calls, b, s.p)
  BY <1>1, <1>2, <1>3, <1>6 DEF ProcType, Proc
<1>8. u \in ProcType /\ ProcRight(u) /\ u.ofile = b
  BY <1>2, <1>5, <1>7, ProcRuns
<1>9. PICK T : T = [sh EXCEPT ![q] = u]
  OBVIOUS
<1>10. ProcsRight(T) /\ OfilesOf(T)[q] = b /\ \A r \in ShProcs : r # q => OfilesOf(T)[r] = OfilesOf(sh)[r]
  BY <1>2, <1>8, <1>9, SetProc
<1>11. OfilesOf(T)[q] = [k \in Fds |-> IF k \in {fd} THEN 0 ELSE sh[q].ofile[k]]
  BY <1>1, <1>2, <1>10 DEF FdArrays
<1>12. /\ FilesRight(ftable') /\ RefsRight(OfilesOf(T), ftable') /\ EndsRight(ftable', pipes')
       /\ pipes' \in [PipeIds -> SUBSET {"r", "w"}]
  <2>1. {fd} \in SUBSET Fds
    BY <1>4
  <2> QED
    BY <1>3, <1>10, <1>11, <2>1, ClosingKeeps
<1>13. ShellRight(T, ftable', pipes')
  BY <1>10, <1>12 DEF ShellRight
<1> QED
  BY <1>3, <1>6, <1>9, <1>13 DEF ShellInv

LEMMA InitFailsKeeps ==
    ASSUME ShellInv, InitFails
    PROVE  ShellInv'
<1>1. PICK u : u = [Absent EXCEPT !.state = "panic"]
  OBVIOUS
<1>2. u = Proc("panic", 0, <<>>, NoFds, <<0, 0>>)
  BY <1>1 DEF Absent, Proc
<1>3. u \in ProcType /\ ProcRight(u) /\ u.ofile = NoFds
  BY <1>2, ProcGone
<1>4. 1 \in ShProcs
  BY ShellConstants
<1>5. sh[1].ofile = NoFds
  BY <1>4 DEF InitFails, ShellInv, ShellRight, ProcsRight, ProcRight
<1>6. ShellRight([sh EXCEPT ![1] = u], ftable, pipes)
  BY <1>3, <1>4, <1>5, SameFds DEF ShellInv
<1> QED
  BY <1>1, <1>6 DEF InitFails, Set, ShellInv

\* The process q is s now.
LEMMA ReplacedCounts ==
    ASSUME NEW S, ProcsRight(S), NEW q \in ShProcs, NEW s \in ProcType, ProcRight(s), NEW f
    PROVE  /\ Cardinality(RefsIn(OfilesOf(S), f)) \in Nat
           /\ Cardinality(Row(S[q].ofile, f)) \in Nat
           /\ Cardinality(Row(s.ofile, f)) \in Nat
           /\ Cardinality(RefsIn(OfilesOf([S EXCEPT ![q] = s]), f))
              = Cardinality(RefsIn(OfilesOf(S), f)) - Cardinality(Row(S[q].ofile, f)) + Cardinality(Row(s.ofile, f))
<1>1. PICK O, N : O = OfilesOf(S) /\ N = OfilesOf([S EXCEPT ![q] = s])
  OBVIOUS
<1>2. N[q] = s.ofile /\ O[q] = S[q].ofile /\ OnlyRow(O, N, q)
  <2>1. N[q] = s.ofile /\ \A r \in ShProcs : r # q => N[r] = O[r]
    BY <1>1, SetProc
  <2>2. O[q] = S[q].ofile
    BY <1>1, OfilesIs
  <2> QED
    BY <2>1, <2>2 DEF OnlyRow
<1>3. /\ Cardinality(RefsIn(O, f)) \in Nat /\ Cardinality(RefsIn(N, f)) \in Nat
      /\ Cardinality(Row(O[q], f)) \in Nat /\ Cardinality(Row(N[q], f)) \in Nat
      /\ Cardinality(RefsIn(N, f))
         = Cardinality(RefsIn(O, f)) - Cardinality(Row(O[q], f)) + Cardinality(Row(N[q], f))
  BY ONLY <1>2, q \in ShProcs, RowChange
<1> QED
  BY <1>1, <1>2, <1>3

\* It has m more descriptors of the files, which are counted.
LEMMA MoreFds ==
    ASSUME NEW S, NEW F, NEW P, ShellRight(S, F, P), NEW q \in ShProcs, NEW s \in ProcType, ProcRight(s),
           NEW m \in [FileIds -> Nat], NEW G,
           \A f \in FileIds : Cardinality(Row(s.ofile, f)) = Cardinality(Row(S[q].ofile, f)) + m[f],
           G = [f \in FileIds |-> [F[f] EXCEPT !.ref = F[f].ref + m[f]]]
    PROVE  ShellRight([S EXCEPT ![q] = s], G, P)
<1>1. PICK T, O, N : T = [S EXCEPT ![q] = s] /\ O = OfilesOf(S) /\ N = OfilesOf(T)
  OBVIOUS
<1>2. /\ ProcsRight(S) /\ FilesRight(F) /\ RefsRight(O, F) /\ EndsRight(F, P)
      /\ P \in [PipeIds -> SUBSET {"r", "w"}]
  BY <1>1 DEF ShellRight
<1>3. ProcsRight(T)
  BY <1>1, <1>2, SetProc
<1>4. ASSUME NEW f \in FileIds
      PROVE  Cardinality(RefsIn(O, f)) \in Nat /\ Cardinality(RefsIn(N, f)) = Cardinality(RefsIn(O, f)) + m[f]
  <2>1. PICK x, y, v, w : /\ x = Cardinality(RefsIn(O, f)) /\ y = Cardinality(RefsIn(N, f))
                          /\ v = Cardinality(Row(S[q].ofile, f)) /\ w = Cardinality(Row(s.ofile, f))
    OBVIOUS
  <2>2. x \in Nat /\ v \in Nat /\ w \in Nat /\ y = x - v + w
    BY <1>1, <1>2, <2>1, ReplacedCounts
  <2>3. w = v + m[f] /\ m[f] \in Nat
    BY <2>1
  <2> QED
    BY <2>1, <2>2, <2>3
<1>5. G \in [FileIds -> FileType] /\ \A f \in FileIds : G[f] = [F[f] EXCEPT !.ref = F[f].ref + m[f]]
  <2>1. ASSUME NEW f \in FileIds PROVE [F[f] EXCEPT !.ref = F[f].ref + m[f]] \in FileType
    <3>1. F[f] \in FileType /\ m[f] \in Nat
      BY <1>2 DEF FilesRight
    <3>2. F[f].ref + m[f] \in Nat
      BY <3>1, FileFields
    <3> QED
      BY <3>1, <3>2, FileFields
  <2> QED
    BY <2>1
<1>6. FilesRight(G) /\ RefsRight(N, G) /\ EndsRight(G, P)
  <2>1. FilesRight(F) /\ RefsRight(O, F) /\ EndsRight(F, P)
    BY <1>2
  <2>2. Grows(O, N, F, G, m)
    BY <1>4, <1>5 DEF Grows
  <2> QED
    BY ONLY <2>1, <2>2, CountsGrow
<1>7. ShellRight(T, G, P)
  BY <1>1, <1>2, <1>3, <1>6 DEF ShellRight
<1> QED
  BY <1>1, <1>7

LEMMA ForkKeeps ==
    ASSUME ShellInv, NEW q \in ShProcs, Fork1(q)
    PROVE  ShellInv'
<1>1. PICK free : free = {r \in ShProcs : sh[r].state = "unused"}
  OBVIOUS
<1>2. PICK np : np = CHOOSE r \in free : \A t \in free : r <= t
  OBVIOUS
<1>3. /\ Calls(q, "fork") /\ pipes' = pipes
      /\ \/ sh' = [sh EXCEPT ![q] = [sh[q] EXCEPT !.calls = Exits]] /\ ftable' = ftable
         \/ /\ free # {} /\ ftable' = Dupped(q)
            /\ sh' = [sh EXCEPT ![q] = After(q), ![np] = [sh[q] EXCEPT !.parent = q, !.calls = Arg(q)]]
  BY <1>1, <1>2 DEF Fork1, Set
<1>4. /\ sh[q].state = "runs" /\ Head(sh[q].calls).op = "fork" /\ sh[q] \in ProcType
      /\ ByCall(sh[q].ofile, sh[q].p, Head(sh[q].calls), Tail(sh[q].calls))
  BY <1>3, CallsAt
<1>5. CASE sh' = [sh EXCEPT ![q] = [sh[q] EXCEPT !.calls = Exits]] /\ ftable' = ftable
  BY <1>3, <1>4, <1>5, ExitShape, GoesOnKeeps
<1>6. CASE /\ free # {} /\ ftable' = Dupped(q)
           /\ sh' = [sh EXCEPT ![q] = After(q), ![np] = [sh[q] EXCEPT !.parent = q, !.calls = Arg(q)]]
  <2>1. PICK h, t, s : h = Head(sh[q].calls) /\ t = Tail(sh[q].calls) /\ s = sh[q]
    OBVIOUS
  <2>2. Shape(s.ofile, s.p, t) /\ Shape(s.ofile, s.p, h.arg)
    BY <1>4, <2>1, ForkShape
  <2>3. np \in ShProcs /\ sh[np].state = "unused"
    <3>1. free \in SUBSET Nat
      BY <1>1, ShellConstants
    <3>2. np \in free
      BY <1>2, <1>6, <3>1, LeastIs
    <3> QED
      BY <1>1, <3>2
  <2>4. PICK S : S = [sh EXCEPT ![q] = [s EXCEPT !.calls = t]]
    OBVIOUS
  <2>5. ShellRight(S, ftable, pipes)
    BY <1>4, <2>1, <2>2, <2>4, GoesOn DEF ShellInv
  <2>6. S[np].ofile = NoFds
    <3>1. ProcRight(sh[np]) /\ np # q /\ sh \in [ShProcs -> ProcType]
      BY <1>4, <2>3 DEF ShellInv, ShellRight, ProcsRight
    <3>2. sh[np].ofile = NoFds
      BY <2>3, <3>1 DEF ProcRight
    <3> QED
      BY <2>3, <2>4, <3>1, <3>2
  <2>7. PICK c : c = [s EXCEPT !.parent = q, !.calls = h.arg]
    OBVIOUS
  <2>8. s \in ProcType /\ s.state = "runs" /\ s.ofile \in FdArrays /\ s.p \in Fds \X Fds
    BY <1>4, <2>1, ProcFields
  <2>9. c = Proc("runs", q, h.arg, s.ofile, s.p)
    BY <2>7, <2>8 DEF ProcType, Proc
  <2>10. c \in ProcType /\ ProcRight(c) /\ c.ofile = s.ofile
    BY <2>2, <2>8, <2>9, ProcRuns
  <2>11. PICK m : m = [f \in FileIds |-> Cardinality(Row(s.ofile, f))]
    OBVIOUS
  <2>12. m \in [FileIds -> Nat]
    <3>1. \A f \in FileIds : Cardinality(Row(s.ofile, f)) \in Nat
      BY RowFinite
    <3> QED
      BY <2>11, <3>1
  <2>13. \A f \in FileIds : Cardinality(Row(c.ofile, f)) = Cardinality(Row(S[np].ofile, f)) + m[f]
    <3>1. ASSUME NEW f \in FileIds PROVE Cardinality(Row(c.ofile, f)) = Cardinality(Row(S[np].ofile, f)) + m[f]
      <4>1. Cardinality(Row(S[np].ofile, f)) = 0
        BY <2>6, RowClosed
      <4>2. Cardinality(Row(c.ofile, f)) = m[f] /\ m[f] \in Nat
        BY <2>10, <2>11, <2>12
      <4> QED
        BY <4>1, <4>2
    <3> QED
      BY <3>1
  <2>14. ftable' = [f \in FileIds |-> [ftable[f] EXCEPT !.ref = ftable[f].ref + m[f]]]
    BY <1>6, <2>1, <2>11 DEF Dupped, FdsOf, Row, Among
  <2>15. ShellRight([S EXCEPT ![np] = c], ftable', pipes)
    BY <2>3, <2>5, <2>10, <2>12, <2>13, <2>14, MoreFds
  <2>16. sh' = [S EXCEPT ![np] = c]
    BY <1>6, <2>1, <2>4, <2>7 DEF After, Arg
  <2> QED
    BY <1>3, <2>15, <2>16 DEF ShellInv
<1> QED
  BY <1>3, <1>5, <1>6

\* fdalloc finds 0 or 1.
LEMMA LowestIs ==
    ASSUME ShellInv, NEW q \in ShProcs, LowFree(sh[q].ofile)
    PROVE  /\ LowestFd(FreeFds(q)) \in Fds /\ sh[q].ofile[LowestFd(FreeFds(q))] = 0
           /\ LowestFd(FreeFds(q)) <= 1
<1>1. FreeFds(q) \in SUBSET Nat /\ (0 \in FreeFds(q) \/ 1 \in FreeFds(q))
  BY ShellConstants DEF FreeFds, LowFree
<1>2. PICK T, k : T = FreeFds(q) /\ k = LowestFd(T)
  OBVIOUS
<1>3. k \in T /\ \A y \in T : k <= y
  BY <1>1, <1>2, LeastIs DEF LowestFd
<1>4. k \in Nat /\ k <= 1
  BY <1>1, <1>2, <1>3
<1> QED
  BY <1>2, <1>3, <1>4 DEF FreeFds

LEMMA DupKeeps ==
    ASSUME ShellInv, NEW q \in ShProcs, Dup(q)
    PROVE  ShellInv'
<1>1. PICK s, h, t, k, f : /\ s = sh[q] /\ h = Head(s.calls) /\ t = Tail(s.calls)
                           /\ k = LowestFd(FreeFds(q)) /\ f = s.ofile[s.p[h.arg]]
  OBVIOUS
<1>2. /\ Calls(q, "dup") /\ pipes' = pipes /\ ftable' = [ftable EXCEPT ![f].ref = @ + 1]
      /\ sh' = [sh EXCEPT ![q] = [After(q) EXCEPT !.ofile[k] = f]]
  BY <1>1 DEF Dup, Set, Arg
<1>3. /\ s.state = "runs" /\ h.op = "dup" /\ s \in ProcType /\ ByCall(s.ofile, s.p, h, t)
  BY <1>1, <1>2, CallsAt
<1>4. s.ofile \in FdArrays /\ s.p \in Fds \X Fds
  BY <1>3, ProcFields
<1>5. h.arg \in 1 .. 2 /\ LowFree(s.ofile) /\ \A j \in Fds : \A x : j <= 1 => Shape([s.ofile EXCEPT ![j] = x], s.p, t)
  BY <1>3, <1>4, DupShape
<1>6. k \in Fds /\ s.ofile[k] = 0 /\ k <= 1
  BY <1>1, <1>5, LowestIs
<1>7. PICK b, u : b = [s.ofile EXCEPT ![k] = f] /\ u = [s EXCEPT !.calls = t, !.ofile = b]
  OBVIOUS
<1>8. f \in 0 .. NFILE
  <2>1. s.p[h.arg] \in Fds
    BY <1>4, <1>5
  <2> QED
    BY <1>1, <1>4, <2>1 DEF FdArrays
<1>9. b \in FdArrays /\ Shape(b, s.p, t)
  BY <1>4, <1>5, <1>6, <1>7, <1>8 DEF FdArrays
<1>10. u \in ProcType /\ ProcRight(u) /\ u.ofile = b
  <2>1. u = Proc("runs", s.parent, t, b, s.p)
    BY <1>3, <1>7 DEF ProcType, Proc
  <2>2. s.parent \in ShProcs \cup {0}
    BY <1>3, ProcFields
  <2> QED
    BY ONLY <1>4, <1>9, <2>1, <2>2, ProcRuns
<1>11. [After(q) EXCEPT !.ofile[k] = f] = u
  BY <1>1, <1>3, <1>7 DEF After, ProcType
<1>12. PICK m : m = [g \in FileIds |-> IF g = f THEN 1 ELSE 0]
  OBVIOUS
<1>13. m \in [FileIds -> Nat] /\ \A g \in FileIds : Cardinality(Row(u.ofile, g)) = Cardinality(Row(sh[q].ofile, g)) + m[g]
  <2>1. ASSUME NEW g \in FileIds PROVE Cardinality(Row(u.ofile, g)) = Cardinality(Row(sh[q].ofile, g)) + m[g]
    <3>1. Cardinality(Row(b, g)) = Cardinality(Row(s.ofile, g)) + IF g = f THEN 1 ELSE 0
      BY <1>4, <1>6, <1>7, RowMore
    <3> QED
      BY <1>1, <1>10, <1>12, <3>1
  <2> QED
    BY <1>12, <2>1
<1>14. ftable' = [g \in FileIds |-> [ftable[g] EXCEPT !.ref = ftable[g].ref + m[g]]]
  <2>1. ftable \in [FileIds -> FileType]
    BY DEF ShellInv, ShellRight, FilesRight
  <2>2. ASSUME NEW g \in FileIds PROVE ftable'[g] = [ftable[g] EXCEPT !.ref = ftable[g].ref + m[g]]
    <3>1. CASE g = f
      BY <1>2, <1>12, <2>1, <3>1
    <3>2. CASE g # f
      <4>1. ftable'[g] = ftable[g] /\ m[g] = 0
        BY <1>2, <1>12, <2>1, <3>2
      <4>2. PICK x : x = ftable[g] /\ x \in FileType
        BY <2>1
      <4>3. [x EXCEPT !.ref = x.ref] = x /\ x.ref + m[g] = x.ref
        BY <4>1, <4>2, FileFields
      <4> QED
        BY <4>1, <4>2, <4>3
    <3> QED
      BY <3>1, <3>2
  <2>3. ftable' = [g \in FileIds |-> ftable'[g]]
    BY <1>2, <2>1
  <2> QED
    BY <2>2, <2>3
<1>15. ShellRight([sh EXCEPT ![q] = u], ftable', pipes)
  BY <1>10, <1>13, <1>14, MoreFds DEF ShellInv
<1> QED
  BY <1>2, <1>11, <1>15 DEF ShellInv

\* The first unused file.
LEMMA FirstIs ==
    ASSUME NEW T \in SUBSET FreeFiles, T # {}
    PROVE  FirstFile(T) \in T /\ FirstFile(T) \in FileIds /\ ftable[FirstFile(T)].ref = 0
<1>1. T \in SUBSET Nat
  BY DEF FreeFiles, FileIds
<1>2. FirstFile(T) \in T
  BY <1>1, LeastIs DEF FirstFile
<1> QED
  BY <1>2 DEF FreeFiles

LEMMA OpenKeeps ==
    ASSUME ShellInv, NEW q \in ShProcs, OpenCall(q)
    PROVE  ShellInv'
<1>1. PICK s, h, t, k, f : /\ s = sh[q] /\ h = Head(s.calls) /\ t = Tail(s.calls)
                           /\ k = LowestFd(FreeFds(q)) /\ f = FirstFile(FreeFiles)
  OBVIOUS
<1>2. /\ Calls(q, "open") /\ pipes' = pipes
      /\ \/ sh' = [sh EXCEPT ![q] = [sh[q] EXCEPT !.calls = Exits]] /\ ftable' = ftable
         \/ /\ FreeFiles # {}
            /\ sh' = [sh EXCEPT ![q] = [After(q) EXCEPT !.ofile[k] = f]]
            /\ ftable' = [ftable EXCEPT ![f] = [ClosedFile EXCEPT !.type = "inode", !.ref = 1]]
  BY <1>1 DEF OpenCall, Set
<1>3. /\ s.state = "runs" /\ h.op = "open" /\ s \in ProcType /\ ByCall(s.ofile, s.p, h, t)
  BY <1>1, <1>2, CallsAt
<1>4. CASE sh' = [sh EXCEPT ![q] = [sh[q] EXCEPT !.calls = Exits]] /\ ftable' = ftable
  BY <1>1, <1>2, <1>3, <1>4, ExitShape, GoesOnKeeps
<1>5. CASE /\ FreeFiles # {}
           /\ sh' = [sh EXCEPT ![q] = [After(q) EXCEPT !.ofile[k] = f]]
           /\ ftable' = [ftable EXCEPT ![f] = [ClosedFile EXCEPT !.type = "inode", !.ref = 1]]
  <2>1. s.ofile \in FdArrays /\ s.p \in Fds \X Fds
    BY <1>3, ProcFields
  <2>2. LowFree(s.ofile) /\ \A j \in Fds : \A x : j <= 1 => Shape([s.ofile EXCEPT ![j] = x], s.p, t)
    BY <1>3, <2>1, OpenShape
  <2>3. k \in Fds /\ s.ofile[k] = 0 /\ k <= 1
    BY <1>1, <2>2, LowestIs
  <2>4. f \in FileIds /\ ftable[f].ref = 0
    BY <1>1, <1>5, FirstIs
  <2>5. PICK b, u : b = [s.ofile EXCEPT ![k] = f] /\ u = [s EXCEPT !.calls = t, !.ofile = b]
    OBVIOUS
  <2>6. b \in FdArrays /\ Shape(b, s.p, t)
    BY <2>1, <2>2, <2>3, <2>4, <2>5 DEF FdArrays, FileIds
  <2>7. u \in ProcType /\ ProcRight(u) /\ u.ofile = b
    <3>1. u = Proc("runs", s.parent, t, b, s.p)
      BY <1>3, <2>5 DEF ProcType, Proc
    <3>2. s.parent \in ShProcs \cup {0}
      BY <1>3, ProcFields
    <3> QED
      BY ONLY <2>1, <2>6, <3>1, <3>2, ProcRuns
  <2>8. [After(q) EXCEPT !.ofile[k] = f] = u
    BY <1>1, <1>3, <2>5 DEF After, ProcType
  <2>9. PICK T, O, N, F, G, P : /\ T = [sh EXCEPT ![q] = u] /\ O = OfilesOf(sh) /\ N = OfilesOf(T)
                                /\ F = ftable /\ G = ftable' /\ P = pipes
    OBVIOUS
  <2>10. /\ ProcsRight(sh) /\ FilesRight(F) /\ RefsRight(O, F) /\ EndsRight(F, P)
         /\ P \in [PipeIds -> SUBSET {"r", "w"}]
    BY <2>9 DEF ShellInv, ShellRight
  <2>11. ProcsRight(T)
    BY <2>7, <2>9, <2>10, SetProc
  <2>12. ASSUME NEW g \in FileIds
         PROVE  /\ Cardinality(RefsIn(O, g)) \in Nat
                /\ Cardinality(RefsIn(N, g)) = Cardinality(RefsIn(O, g)) + IF g = f THEN 1 ELSE 0
    <3>1. PICK x, y, v, w : /\ x = Cardinality(RefsIn(O, g)) /\ y = Cardinality(RefsIn(N, g))
                            /\ v = Cardinality(Row(sh[q].ofile, g)) /\ w = Cardinality(Row(u.ofile, g))
      OBVIOUS
    <3>2. x \in Nat /\ v \in Nat /\ w \in Nat /\ y = x - v + w
      BY <2>7, <2>9, <2>10, <3>1, ReplacedCounts
    <3>3. w = v + IF g = f THEN 1 ELSE 0
      <4>1. Cardinality(Row(b, g)) = Cardinality(Row(s.ofile, g)) + IF g = f THEN 1 ELSE 0
        BY <2>1, <2>3, <2>5, RowMore
      <4> QED
        BY <1>1, <2>7, <3>1, <4>1
    <3> QED
      BY <3>1, <3>2, <3>3
  <2>13. G = [F EXCEPT ![f] = [ClosedFile EXCEPT !.type = "inode", !.ref = 1]] /\ F[f].ref = 0
    BY <1>5, <2>4, <2>9
  <2>14. FilesRight(G) /\ RefsRight(N, G) /\ EndsRight(G, P)
    <3>1. Opens(O, N, F, G, f)
      BY <2>4, <2>12, <2>13 DEF Opens
    <3> QED
      BY ONLY <2>10, <3>1, FileOpened
  <2>15. ShellRight(T, G, P)
    BY <2>9, <2>10, <2>11, <2>14 DEF ShellRight
  <2> QED
    BY <1>2, <1>5, <2>8, <2>9, <2>15 DEF ShellInv
<1> QED
  BY <1>2, <1>4, <1>5

\* Two unused files, and two unused descriptors.
LEMMA TwoFiles ==
    ASSUME Cardinality(FreeFiles) >= 2, NEW rf, rf \in FreeFiles
    PROVE  FreeFiles \ {rf} # {}
<1>1. SUFFICES ASSUME FreeFiles \ {rf} = {} PROVE FALSE
  OBVIOUS
<1>2. FreeFiles = {rf}
  BY <1>1
<1>3. Cardinality({rf}) = 1
  BY FS_Singleton
<1> QED
  BY <1>2, <1>3

LEMMA TwoFds ==
    ASSUME NEW q \in ShProcs, sh[q].ofile[3] = 0, sh[q].ofile[4] = 0, NEW j, NEW k,
           j = LowestFd(FreeFds(q)), k = LowestFd(FreeFds(q) \ {j})
    PROVE  j \in Fds /\ k \in Fds /\ j # k /\ sh[q].ofile[j] = 0 /\ sh[q].ofile[k] = 0
<1>1. FreeFds(q) \in SUBSET Nat /\ 3 \in FreeFds(q) /\ 4 \in FreeFds(q)
  BY ShellConstants DEF FreeFds
<1>2. j \in FreeFds(q)
  BY <1>1, LeastIs DEF LowestFd
<1>3. PICK T : T = FreeFds(q) \ {j}
  OBVIOUS
<1>4. T \in SUBSET Nat /\ T # {}
  BY <1>1, <1>3
<1>5. k \in T
  BY <1>3, <1>4, LeastIs DEF LowestFd
<1> QED
  BY <1>2, <1>3, <1>5 DEF FreeFds

LEMMA PipeCallKeeps ==
    ASSUME ShellInv, NEW q \in ShProcs, PipeCall(q)
    PROVE  ShellInv'
<1>1. PICK s, h, t : s = sh[q] /\ h = Head(s.calls) /\ t = Tail(s.calls)
  OBVIOUS
<1>2. PICK rf, wf, j, k : /\ rf = FirstFile(FreeFiles) /\ wf = FirstFile(FreeFiles \ {rf})
                          /\ j = LowestFd(FreeFds(q)) /\ k = LowestFd(FreeFds(q) \ {j})
  OBVIOUS
<1>3. PICK free, i : free = {x \in PipeIds : pipes[x] = {}} /\ i = CHOOSE x \in free : TRUE
  OBVIOUS
<1>4. /\ Calls(q, "pipe")
      /\ \/ sh' = [sh EXCEPT ![q] = [sh[q] EXCEPT !.calls = Exits]] /\ ftable' = ftable /\ pipes' = pipes
         \/ /\ Cardinality(FreeFiles) >= 2 /\ free # {}
            /\ ftable' = [ftable EXCEPT ![rf] = [type |-> "pipe", ref |-> 1, pipe |-> i, end |-> "r"],
                                        ![wf] = [type |-> "pipe", ref |-> 1, pipe |-> i, end |-> "w"]]
            /\ pipes' = [pipes EXCEPT ![i] = {"r", "w"}]
            /\ sh' = [sh EXCEPT ![q] = [After(q) EXCEPT !.ofile[j] = rf, !.ofile[k] = wf, !.p = <<j, k>>]]
  BY <1>2, <1>3 DEF PipeCall, Set
<1>5. /\ s.state = "runs" /\ h.op = "pipe" /\ s \in ProcType /\ ByCall(s.ofile, s.p, h, t)
  BY <1>1, <1>4, CallsAt
<1>6. CASE sh' = [sh EXCEPT ![q] = [sh[q] EXCEPT !.calls = Exits]] /\ ftable' = ftable /\ pipes' = pipes
  BY <1>1, <1>5, <1>6, ExitShape, GoesOnKeeps
<1>7. CASE /\ Cardinality(FreeFiles) >= 2 /\ free # {}
           /\ ftable' = [ftable EXCEPT ![rf] = [type |-> "pipe", ref |-> 1, pipe |-> i, end |-> "r"],
                                       ![wf] = [type |-> "pipe", ref |-> 1, pipe |-> i, end |-> "w"]]
           /\ pipes' = [pipes EXCEPT ![i] = {"r", "w"}]
           /\ sh' = [sh EXCEPT ![q] = [After(q) EXCEPT !.ofile[j] = rf, !.ofile[k] = wf, !.p = <<j, k>>]]
  <2>1. s.ofile \in FdArrays
    BY <1>5, ProcFields
  <2>2. /\ s.ofile[3] = 0 /\ s.ofile[4] = 0
        /\ \A x, y \in Fds : \A u, v : Shape([s.ofile EXCEPT ![x] = u, ![y] = v], <<x, y>>, t)
    BY <1>5, <2>1, PipeShape
  <2>3. j \in Fds /\ k \in Fds /\ j # k /\ s.ofile[j] = 0 /\ s.ofile[k] = 0
    BY <1>1, <1>2, <2>2, TwoFds
  <2>4. rf \in FileIds /\ wf \in FileIds /\ rf # wf /\ ftable[rf].ref = 0 /\ ftable[wf].ref = 0
    <3>1. FreeFiles # {}
      <4>1. SUFFICES ASSUME FreeFiles = {} PROVE FALSE
        OBVIOUS
      <4>2. Cardinality({}) = 0
        BY FS_EmptySet
      <4> QED
        BY <1>7, <4>1, <4>2
    <3>2. rf \in FreeFiles /\ rf \in FileIds /\ ftable[rf].ref = 0
      BY <1>2, <3>1, FirstIs
    <3>3. FreeFiles \ {rf} # {}
      BY <1>7, <3>2, TwoFiles
    <3>4. PICK T : T = FreeFiles \ {rf}
      OBVIOUS
    <3>5. wf \in T /\ wf \in FileIds /\ ftable[wf].ref = 0
      BY <1>2, <3>3, <3>4, FirstIs
    <3> QED
      BY <3>2, <3>4, <3>5
  <2>5. i \in PipeIds /\ pipes[i] = {}
    BY <1>3, <1>7
  <2>6. PICK a, b, p, u : /\ a = [s.ofile EXCEPT ![j] = rf] /\ b = [a EXCEPT ![k] = wf] /\ p = <<j, k>>
                          /\ u = [s EXCEPT !.calls = t, !.ofile = b, !.p = p]
    OBVIOUS
  <2>7. a \in FdArrays /\ b \in FdArrays /\ a[k] = 0 /\ p \in Fds \X Fds
    BY <2>1, <2>3, <2>4, <2>6 DEF FdArrays, FileIds
  <2>8. Shape(b, p, t)
    <3>1. b = [s.ofile EXCEPT ![j] = rf, ![k] = wf]
      BY <2>6
    <3> QED
      BY <2>2, <2>3, <2>6, <3>1
  <2>9. u \in ProcType /\ ProcRight(u) /\ u.ofile = b
    <3>1. u = Proc("runs", s.parent, t, b, p)
      BY <1>5, <2>6 DEF ProcType, Proc
    <3>2. s.parent \in ShProcs \cup {0}
      BY <1>5, ProcFields
    <3> QED
      BY ONLY <2>7, <2>8, <3>1, <3>2, ProcRuns
  <2>10. [After(q) EXCEPT !.ofile[j] = rf, !.ofile[k] = wf, !.p = <<j, k>>] = u
    BY <1>1, <1>5, <2>6 DEF After, ProcType
  <2>11. PICK T, O, N, F, G, P, R : /\ T = [sh EXCEPT ![q] = u] /\ O = OfilesOf(sh) /\ N = OfilesOf(T)
                                    /\ F = ftable /\ G = ftable' /\ P = pipes /\ R = pipes'
    OBVIOUS
  <2>12. /\ ProcsRight(sh) /\ FilesRight(F) /\ RefsRight(O, F) /\ EndsRight(F, P)
         /\ P \in [PipeIds -> SUBSET {"r", "w"}]
    BY <2>11 DEF ShellInv, ShellRight
  <2>13. ProcsRight(T)
    BY <2>9, <2>11, <2>12, SetProc
  <2>14. ASSUME NEW g \in FileIds
         PROVE  /\ Cardinality(RefsIn(O, g)) \in Nat
                /\ Cardinality(RefsIn(N, g)) = Cardinality(RefsIn(O, g)) + IF g = rf \/ g = wf THEN 1 ELSE 0
    <3>1. PICK x, y, v, w : /\ x = Cardinality(RefsIn(O, g)) /\ y = Cardinality(RefsIn(N, g))
                            /\ v = Cardinality(Row(sh[q].ofile, g)) /\ w = Cardinality(Row(u.ofile, g))
      OBVIOUS
    <3>2. x \in Nat /\ v \in Nat /\ w \in Nat /\ y = x - v + w
      BY <2>9, <2>11, <2>12, <3>1, ReplacedCounts
    <3>3. PICK z : z = Cardinality(Row(a, g))
      OBVIOUS
    <3>4. z = v + IF g = rf THEN 1 ELSE 0
      <4>1. Cardinality(Row(a, g)) = Cardinality(Row(s.ofile, g)) + IF g = rf THEN 1 ELSE 0
        BY <2>1, <2>3, <2>6, RowMore
      <4> QED
        BY <1>1, <3>1, <3>3, <4>1
    <3>5. w = z + IF g = wf THEN 1 ELSE 0
      <4>1. Cardinality(Row(b, g)) = Cardinality(Row(a, g)) + IF g = wf THEN 1 ELSE 0
        <5>1. a \in FdArrays /\ k \in Fds /\ a[k] = 0
          BY <2>3, <2>7
        <5>2. Cardinality(Row([a EXCEPT ![k] = wf], g)) = Cardinality(Row(a, g)) + IF g = wf THEN 1 ELSE 0
          BY ONLY g \in FileIds, <5>1, RowMore
        <5> QED
          BY <2>6, <5>2
      <4> QED
        BY <2>9, <3>1, <3>3, <4>1
    <3> QED
      BY <2>4, <3>1, <3>2, <3>4, <3>5
  <2>15. PipeOpens(O, N, F, G, P, R, rf, wf, i)
    BY <1>7, <2>4, <2>5, <2>11, <2>12, <2>14 DEF PipeOpens
  <2>16. FilesRight(G) /\ RefsRight(N, G) /\ EndsRight(G, R)
    BY ONLY <2>12, <2>15, PipeOpened
  <2>17. R \in [PipeIds -> SUBSET {"r", "w"}]
    BY <1>7, <2>11, <2>12
  <2>18. ShellRight(T, G, R)
    BY <2>11, <2>13, <2>16, <2>17 DEF ShellRight
  <2> QED
    BY <1>7, <2>10, <2>11, <2>18 DEF ShellInv
<1> QED
  BY <1>4, <1>6, <1>7

\* The shell with the console's descriptors.
LEMMA Shell1 ==
    /\ [Absent EXCEPT !.state = "runs", !.calls = Prompt, !.ofile = Console3] \in ProcType
    /\ ProcRight([Absent EXCEPT !.state = "runs", !.calls = Prompt, !.ofile = Console3])
    /\ [Absent EXCEPT !.state = "runs", !.calls = Prompt, !.ofile = Console3].ofile = Console3
<1>1. PICK u : u = [Absent EXCEPT !.state = "runs", !.calls = Prompt, !.ofile = Console3]
  OBVIOUS
<1>2. u = Proc("runs", 0, Prompt, Console3, <<0, 0>>)
  BY <1>1 DEF Absent, Proc
<1>3. Console3 \in FdArrays
  BY ShellConstants DEF Console3, FdArrays
<1>4. Shape(Console3, <<0, 0>>, Prompt)
  <2>1. Prompt \in CleanLists
    BY DEF Prompt, CleanLists, Do
  <2>2. Only(Console3, {})
    BY ShellConstants DEF Only, Console3
  <2> QED
    BY <2>1, <2>2 DEF Shape
<1>5. u \in ProcType /\ ProcRight(u) /\ u.ofile = Console3
  <2>1. 0 \in ShProcs \cup {0} /\ <<0, 0>> \in Fds \X Fds
    BY NoFdsType
  <2> QED
    BY ONLY <1>2, <1>3, <1>4, <2>1, ProcRuns
<1> QED
  BY <1>1, <1>5

LEMMA RestartKeeps ==
    ASSUME ShellInv, Restart
    PROVE  ShellInv'
<1>1. PICK u : u = [Absent EXCEPT !.state = "runs", !.calls = Prompt, !.ofile = Console3]
  OBVIOUS
<1>2. /\ sh[1].state = "unused" /\ sh' = [sh EXCEPT ![1] = u] /\ ftable' = [ftable EXCEPT ![1].ref = @ + 3]
      /\ pipes' = pipes
  BY <1>1 DEF Restart, Set
<1>3. u \in ProcType /\ ProcRight(u) /\ u.ofile = Console3
  BY <1>1, Shell1
<1>4. 1 \in ShProcs /\ sh[1].ofile = NoFds
  <2>1. 1 \in ShProcs
    BY ShellConstants
  <2>2. ProcRight(sh[1])
    BY <2>1 DEF ShellInv, ShellRight, ProcsRight
  <2> QED
    BY <1>2, <2>1, <2>2 DEF ProcRight
<1>5. PICK m : m = [f \in FileIds |-> Extra(f)]
  OBVIOUS
<1>6. m \in [FileIds -> Nat]
  BY <1>5 DEF Extra
<1>7. ASSUME NEW f \in FileIds PROVE Cardinality(Row(u.ofile, f)) = Cardinality(Row(sh[1].ofile, f)) + m[f]
  <2>1. Cardinality(Row(NoFds, f)) = 0 /\ Cardinality(Row(Console3, f)) = Extra(f)
    BY RowClosed, RowConsole
  <2>2. m[f] \in Nat /\ m[f] = Extra(f)
    BY <1>5, <1>6
  <2> QED
    BY <1>3, <1>4, <2>1, <2>2
<1>8. ftable' = [f \in FileIds |-> [ftable[f] EXCEPT !.ref = ftable[f].ref + m[f]]]
  <2>1. ftable \in [FileIds -> FileType]
    BY DEF ShellInv, ShellRight, FilesRight
  <2>2. ASSUME NEW g \in FileIds PROVE ftable'[g] = [ftable[g] EXCEPT !.ref = ftable[g].ref + m[g]]
    <3>1. CASE g = 1
      BY <1>2, <1>5, <2>1, <3>1 DEF Extra
    <3>2. CASE g # 1
      <4>1. ftable'[g] = ftable[g] /\ m[g] = 0
        BY <1>2, <1>5, <2>1, <3>2 DEF Extra
      <4>2. PICK x : x = ftable[g] /\ x \in FileType
        BY <2>1
      <4>3. [x EXCEPT !.ref = x.ref] = x /\ x.ref + m[g] = x.ref
        BY <4>1, <4>2, FileFields
      <4> QED
        BY <4>1, <4>2, <4>3
    <3> QED
      BY <3>1, <3>2
  <2>3. ftable' = [g \in FileIds |-> ftable'[g]]
    BY <1>2, <2>1
  <2> QED
    BY <2>2, <2>3
<1>9. ShellRight([sh EXCEPT ![1] = u], ftable', pipes)
  BY <1>3, <1>4, <1>6, <1>7, <1>8, MoreFds DEF ShellInv
<1> QED
  BY <1>2, <1>9 DEF ShellInv

LEMMA ShellStarts ==
    ASSUME ShellInit
    PROVE  ShellInv
<1>1. PICK u : u = [Absent EXCEPT !.state = "runs", !.calls = Prompt, !.ofile = Console3]
  OBVIOUS
<1>2. u \in ProcType /\ ProcRight(u) /\ u.ofile = Console3
  BY <1>1, Shell1
<1>3. Absent \in ProcType /\ ProcRight(Absent) /\ Absent.ofile = NoFds
  BY AbsentIs, ProcGone
<1>4. PICK S0, F, P : S0 = [q \in ShProcs |-> Absent] /\ F = ftable /\ P = pipes
  OBVIOUS
<1>5. sh = [S0 EXCEPT ![1] = u] /\ 1 \in ShProcs
  BY <1>1, <1>4, ShellConstants DEF ShellInit
<1>6. ProcsRight(S0)
  BY <1>3, <1>4 DEF ProcsRight
<1>7. ProcsRight(sh)
  BY <1>2, <1>5, <1>6, SetProc
<1>8. PICK con : con = [ClosedFile EXCEPT !.type = "dev", !.ref = 6]
  OBVIOUS
<1>9. F = [f \in FileIds |-> IF f = 1 THEN con ELSE ClosedFile]
  BY <1>4, <1>8 DEF ShellInit
<1>10. /\ con \in FileType /\ con.ref = 6 /\ con.type = "dev" /\ con.pipe = 0
       /\ ClosedFile \in FileType /\ ClosedFile.ref = 0 /\ ClosedFile.type = "none" /\ ClosedFile.pipe = 0
  <2>1. con = [type |-> "dev", ref |-> 6, pipe |-> 0, end |-> "r"]
    BY <1>8 DEF ClosedFile
  <2> QED
    BY <2>1, ShellConstants DEF FileType, ClosedFile
<1>11. FilesRight(F)
  BY <1>9, <1>10 DEF FilesRight
<1>12. EndsRight(F, P) /\ P \in [PipeIds -> SUBSET {"r", "w"}]
  <2>1. P = [i \in PipeIds |-> {}]
    BY <1>4 DEF ShellInit
  <2>2. ASSUME NEW i \in PipeIds PROVE EndsOf(F, i) = {}
    BY <1>9, <1>10 DEF EndsOf
  <2> QED
    BY <2>1, <2>2 DEF EndsRight
<1>13. RefsRight(OfilesOf(sh), F)
  <2>1. ASSUME NEW f \in FileIds PROVE F[f].ref = Cardinality(RefsIn(OfilesOf(sh), f)) + Extra(f)
    <3>1. PICK x, y, v, w : /\ x = Cardinality(RefsIn(OfilesOf(S0), f)) /\ y = Cardinality(RefsIn(OfilesOf(sh), f))
                            /\ v = Cardinality(Row(S0[1].ofile, f)) /\ w = Cardinality(Row(u.ofile, f))
      OBVIOUS
    <3>2. x \in Nat /\ v \in Nat /\ w \in Nat /\ y = x - v + w
      BY <1>2, <1>5, <1>6, <3>1, ReplacedCounts
    <3>3. x = 0
      <4>1. f # 0
        BY DEF FileIds
      <4>2. RefsIn(OfilesOf(S0), f) = {}
        BY <1>3, <1>4, <4>1 DEF RefsIn, OfilesOf, NoFds
      <4> QED
        BY <3>1, <4>2, FS_EmptySet
    <3>4. v = 0 /\ w = Extra(f)
      BY <1>2, <1>3, <1>4, <1>5, <3>1, RowClosed, RowConsole
    <3>5. F[f].ref = Extra(f) + Extra(f)
      BY <1>9, <1>10 DEF Extra
    <3> QED
      BY <3>1, <3>2, <3>3, <3>4, <3>5
  <2> QED
    BY <2>1 DEF RefsRight
<1> QED
  BY <1>4, <1>7, <1>11, <1>12, <1>13 DEF ShellInv, ShellRight

LEMMA ShellKeeps ==
    ASSUME ShellInv, [ShellNext]_shVars
    PROVE  ShellInv'
<1>1. CASE Restart
  BY <1>1, RestartKeeps
<1>2. CASE \E q \in ShProcs : ShellStep(q) \/ EndOfInput(q) \/ \E line \in Lines : ReadLine(q, line)
  <2>1. PICK q \in ShProcs : ShellStep(q) \/ EndOfInput(q) \/ \E line \in Lines : ReadLine(q, line)
    BY <1>2
  <2>2. CASE ShellStep(q)
    BY <2>2, RuncmdKeeps, ForkKeeps, CloseCallKeeps, DupKeeps, OpenKeeps, PipeCallKeeps, ExecKeeps,
       ExecFailsKeeps, ProgramEndsKeeps, ExitClosesKeeps, ExitKeeps, WaitCallKeeps DEF ShellStep
  <2>3. CASE EndOfInput(q)
    BY <2>3, EndOfInputKeeps
  <2>4. CASE \E line \in Lines : ReadLine(q, line)
    BY <2>4, ReadLineKeeps
  <2> QED
    BY <2>1, <2>2, <2>3, <2>4
<1>3. CASE InitFails
  BY <1>3, InitFailsKeeps
<1>4. CASE UNCHANGED shVars
  BY <1>4 DEF shVars, ShellInv
<1> QED
  BY <1>1, <1>2, <1>3, <1>4 DEF ShellNext

LEMMA ShellInvExact ==
    ASSUME ShellInv
    PROVE  FilesExact
<1>1. RefsRight(OfilesOf(sh), ftable) /\ EndsRight(ftable, pipes)
  BY DEF ShellInv, ShellRight
<1>2. ASSUME NEW f \in FileIds
      PROVE  ftable[f].ref = Cardinality({o \in ShProcs \X Fds : sh[o[1]].ofile[o[2]] = f})
                             + IF f = 1 THEN 3 ELSE 0
  <2>1. RefsIn(OfilesOf(sh), f) = {o \in ShProcs \X Fds : sh[o[1]].ofile[o[2]] = f}
    <3>1. \A o \in ShProcs \X Fds : OfilesOf(sh)[o[1]] = sh[o[1]].ofile
      BY DEF OfilesOf
    <3> QED
      BY <3>1 DEF RefsIn
  <2>2. ftable[f].ref = Cardinality(RefsIn(OfilesOf(sh), f)) + Extra(f)
    BY <1>1 DEF RefsRight
  <2> QED
    BY <2>1, <2>2 DEF Extra
<1> QED
  BY <1>1, <1>2 DEF FilesExact, EndsRight, EndsOf

\* Of every file f->ref is the number of descriptors that refer to it, and an
\* end of a pipe is open exactly while a process has it: over fork, exit, close,
\* dup, open and pipe of any number of processes, in any order, and whatever
\* commands are typed (FilesExact).
THEOREM FilesCounted == ShellSpec => []FilesExact
<1>1. ShellInit => ShellInv
  BY ShellStarts
<1>2. ShellInv /\ [ShellNext]_shVars => ShellInv'
  BY ShellKeeps
<1>3. ShellInv => FilesExact
  BY ShellInvExact
<1> QED
  BY <1>1, <1>2, <1>3, PTL DEF ShellSpec
=============================================================================
