---------------------------- MODULE YPipeProofs ----------------------------
(***************************************************************************)
(* Proofs about the lock-free pipe, for every set of values and any number *)
(* of items.                                                               *)
(*                                                                         *)
(* The argument is one picture of the pointers.  In index order they are   *)
(*     1 <= front <= r <= w <= f <= back                                   *)
(* and c, the pointer both threads touch, is either w or NULL.  c is NULL  *)
(* exactly while a reader that found nothing sleeps and nobody owes it a   *)
(* wake-up, which is why the writer may overwrite it without comparing.    *)
(***************************************************************************)
EXTENDS YPipe, SequenceTheorems, TLAPS

-----------------------------------------------------------------------------
(* Slices of a sequence: what SubSeq (s, m, n) is when it lies inside s. *)

\* The length and the elements of a slice that lies inside its sequence.
LEMMA Slice ==
    ASSUME NEW S, NEW s \in Seq(S), NEW m \in Nat, NEW n \in Int,
           m >= 1, n <= Len(s)
    PROVE  /\ SubSeq(s, m, n) \in Seq(S)
           /\ Len(SubSeq(s, m, n)) = IF m <= n THEN n - m + 1 ELSE 0
           /\ \A i \in 1..(n - m + 1) : SubSeq(s, m, n)[i] = s[m + i - 1]
<1>1. Len(s) \in Nat
  BY LenProperties
<1>2. \A i \in m..n : s[i] \in S
  BY <1>1, ElementOfSeq
<1> QED
  BY <1>2, SubSeqProperties

\* A slice depends only on the cells in it.
LEMMA SliceEqual ==
    ASSUME NEW S, NEW s \in Seq(S), NEW t \in Seq(S), NEW m \in Nat, NEW n \in Int,
           m >= 1, n <= Len(s), n <= Len(t), \A i \in m..n : s[i] = t[i]
    PROVE  SubSeq(s, m, n) = SubSeq(t, m, n)
<1> DEFINE a == SubSeq(s, m, n)
           b == SubSeq(t, m, n)
<1>1. /\ a \in Seq(S) /\ Len(a) = IF m <= n THEN n - m + 1 ELSE 0
      /\ \A i \in 1..(n - m + 1) : a[i] = s[m + i - 1]
  BY Slice
<1>2. /\ b \in Seq(S) /\ Len(b) = IF m <= n THEN n - m + 1 ELSE 0
      /\ \A i \in 1..(n - m + 1) : b[i] = t[m + i - 1]
  BY Slice
<1>3. ASSUME NEW i \in 1..Len(a) PROVE a[i] = b[i]
  <2> HIDE DEF a, b
  <2>1. m <= n /\ i \in 1..(n - m + 1)
    BY <1>1
  <2>2. m + i - 1 \in m..n
    BY <2>1
  <2> QED
    BY <1>1, <1>2, <2>1, <2>2
<1>4. Len(a) = Len(b)
  BY <1>1, <1>2
<1> HIDE DEF a, b
<1>5. a = b
  BY <1>1, <1>2, <1>3, <1>4, SeqEqual
<1> QED
  BY <1>5 DEF a, b

\* A slice up to the end grows with the sequence.
LEMMA SliceAppend ==
    ASSUME NEW S, NEW s \in Seq(S), NEW v \in S, NEW m \in 1..(Len(s) + 1)
    PROVE  SubSeq(Append(s, v), m, Len(s) + 1) = Append(SubSeq(s, m, Len(s)), v)
<1> DEFINE t == Append(s, v)
<1>1. Len(s) \in Nat
  BY LenProperties
<1>2. /\ t \in Seq(S) /\ Len(t) = Len(s) + 1
      /\ \A i \in 1..Len(s) : t[i] = s[i]
      /\ t[Len(s) + 1] = v
  BY AppendProperties
<1> HIDE DEF t
<1>3. SubSeq(t, m, Len(t)) = SubSeq(t, m, Len(t) - 1) \o <<t[Len(t)]>>
  BY <1>1, <1>2, SubSeqRecursiveSecond
<1>4. SubSeq(t, m, Len(s)) = SubSeq(s, m, Len(s))
  BY <1>1, <1>2, SliceEqual
<1>5. SubSeq(s, m, Len(s)) \in Seq(S)
  BY <1>1, Slice
<1>6. Append(SubSeq(s, m, Len(s)), v) = SubSeq(s, m, Len(s)) \o <<v>>
  BY <1>5, AppendIsConcat
<1>7. Len(t) - 1 = Len(s)
  BY <1>1, <1>2
<1> QED
  BY <1>2, <1>3, <1>4, <1>6, <1>7 DEF t

\* Dropping the last element.
LEMMA SliceButLast ==
    ASSUME NEW S, NEW s \in Seq(S), Len(s) >= 1
    PROVE  /\ SubSeq(s, 1, Len(s) - 1) \in Seq(S)
           /\ Len(SubSeq(s, 1, Len(s) - 1)) = Len(s) - 1
           /\ \A i \in 1..(Len(s) - 1) : SubSeq(s, 1, Len(s) - 1)[i] = s[i]
<1> DEFINE n == Len(s) - 1
<1>1. n \in Nat /\ n <= Len(s)
  BY LenProperties
<1> HIDE DEF n
<1>2. /\ SubSeq(s, 1, n) \in Seq(S)
      /\ Len(SubSeq(s, 1, n)) = IF 1 <= n THEN n - 1 + 1 ELSE 0
      /\ \A i \in 1..(n - 1 + 1) : SubSeq(s, 1, n)[i] = s[1 + i - 1]
  BY <1>1, Slice
<1>3. n - 1 + 1 = n /\ \A i \in 1..n : 1 + i - 1 = i
  BY <1>1
<1> QED
  BY <1>1, <1>2, <1>3 DEF n
-----------------------------------------------------------------------------
(* The invariant *)

\* The order of the pointers.
PointerOrder ==
    /\ 1 <= front /\ front <= r /\ r <= w /\ w <= f /\ f <= back
    /\ c = w \/ c = NULL

\* What a sleeping reader, c and the owed wake-ups have to do with each other.
SleepProtocol ==
    /\ reader = "asleep" => r = front
    /\ reader = "awake" => c = w /\ wakes = 0
    /\ reader = "asleep" /\ c = NULL => w = front /\ wakes = 0
    /\ reader = "asleep" /\ c # NULL => wakes = 1
    /\ wpc = "set" => reader = "asleep" /\ c = NULL /\ w # f

IInv == TypeOK /\ PointerOrder /\ SleepProtocol

\* The invariant holds in a new pipe.
LEMMA InitInv == Init => IInv
<1> SUFFICES ASSUME Init PROVE IInv
  OBVIOUS
<1>1. queue \in Seq(Value) /\ Len(queue) = 0
  BY EmptySeq DEF Init
<1> QED
  BY <1>1 DEF Init, IInv, TypeOK, PointerOrder, SleepProtocol, back, NULL

\* Every step of either thread keeps the picture.
LEMMA StepInv == IInv /\ [Next]_vars => IInv'
<1> SUFFICES ASSUME IInv, [Next]_vars PROVE IInv'
  OBVIOUS
<1> USE DEF IInv, TypeOK, PointerOrder, SleepProtocol, back, NULL
<1>1. ASSUME NEW v \in Value, NEW incomplete \in BOOLEAN, write(v, incomplete)
      PROVE  IInv'
  <2>1. queue' \in Seq(Value) /\ Len(queue') = Len(queue) + 1
    BY <1>1, AppendProperties DEF write
  <2>2. Len(queue) \in Nat
    BY LenProperties
  <2> QED
    BY <1>1, <2>1, <2>2 DEF write
<1>2. CASE unwrite
  <2>1. Len(queue) \in Nat /\ Len(queue) >= 1
    BY <1>2, LenProperties DEF unwrite
  <2>2. /\ SubSeq(queue, 1, Len(queue) - 1) \in Seq(Value)
        /\ Len(SubSeq(queue, 1, Len(queue) - 1)) = Len(queue) - 1
    BY <2>1, SliceButLast
  <2> QED
    BY <1>2, <2>1, <2>2 DEF unwrite
<1>3. CASE flush_cas
  BY <1>3 DEF flush_cas
<1>4. CASE flush_cas_fails
  BY <1>4 DEF flush_cas_fails
<1>5. CASE flush_set
  BY <1>5 DEF flush_set
<1>6. CASE check_read
  BY <1>6 DEF check_read, Prefetched
<1>7. CASE read
  BY <1>7 DEF read, Prefetched
<1>8. CASE wake
  BY <1>8 DEF wake
<1>9. CASE UNCHANGED vars
  BY <1>9 DEF vars
<1> QED
  BY <1>1, <1>2, <1>3, <1>4, <1>5, <1>6, <1>7, <1>8, <1>9
     DEF Next, Writer, Reader

\* The picture holds in every state of the pipe.
THEOREM Invariance == Spec => []IInv
<1> QED
  BY InitInv, StepInv, PTL DEF Spec

\* ypipe_t's state is well typed.
THEOREM TypeCorrect == Spec => []TypeOK
<1>1. IInv => TypeOK
  BY DEF IInv
<1> QED
  BY <1>1, Invariance, PTL

\* The reader never copies a cell the writer can still change, and unwrite
\* never takes back a cell that was handed over.
THEOREM NoSharedCellHolds == Spec => []NoSharedCell
<1>1. IInv => NoSharedCell
  BY DEF IInv, TypeOK, PointerOrder, NoSharedCell, Prefetched, back, NULL
<1> QED
  BY <1>1, Invariance, PTL

\* No wake-up is lost and no second one is ever outstanding.
THEOREM NoLostWakeupHolds == Spec => []NoLostWakeup
<1>1. IInv => NoLostWakeup
  BY DEF IInv, TypeOK, PointerOrder, SleepProtocol, NoLostWakeup, NULL
<1> QED
  BY <1>1, Invariance, PTL
-----------------------------------------------------------------------------
(* Refinement *)

\* The three stages of the contract, as slices of the queue.
Avail    == SubSeq(queue, front, w - 1)
Complete == SubSeq(queue, w, f - 1)
Partial  == SubSeq(queue, f, Len(queue))

\* A new pipe is a new pipe of the contract.
LEMMA InitRefines == Init => Contract!UInit
<1> SUFFICES ASSUME Init PROVE Contract!UInit
  OBVIOUS
<1>1. Len(queue) = 0
  BY EmptySeq DEF Init
<1>2. SubSeq(queue, 1, 0) = <<>>
  BY SubSeqEmpty
<1>3. front = 1 /\ w = 1 /\ f = 1 /\ w - 1 = 0 /\ f - 1 = 0
  BY DEF Init
<1> QED
  BY <1>1, <1>2, <1>3 DEF Init, Contract!UInit

\* Sizes of the stages, which say when they are empty.
LEMMA StageSizes ==
    ASSUME IInv
    PROVE  /\ Len(queue) \in Nat
           /\ Avail \in Seq(Value) /\ Len(Avail) = w - front
           /\ Complete \in Seq(Value) /\ Len(Complete) = f - w
           /\ Partial \in Seq(Value) /\ Len(Partial) = Len(queue) + 1 - f
<1> USE DEF IInv, TypeOK, PointerOrder, back, NULL
<1>1. Len(queue) \in Nat
  BY LenProperties
<1>2. /\ front >= 1 /\ w - 1 \in Int /\ w - 1 <= Len(queue)
      /\ w >= 1 /\ f - 1 \in Int /\ f - 1 <= Len(queue) /\ f >= 1
  BY <1>1
<1>3. /\ Avail \in Seq(Value)
      /\ Len(Avail) = IF front <= w - 1 THEN (w - 1) - front + 1 ELSE 0
  BY <1>2, Slice DEF Avail
<1>4. /\ Complete \in Seq(Value)
      /\ Len(Complete) = IF w <= f - 1 THEN (f - 1) - w + 1 ELSE 0
  BY <1>2, Slice DEF Complete
<1>5. /\ Partial \in Seq(Value)
      /\ Len(Partial) = IF f <= Len(queue) THEN Len(queue) - f + 1 ELSE 0
  BY <1>1, <1>2, Slice DEF Partial
<1> QED
  BY <1>1, <1>2, <1>3, <1>4, <1>5

\* write () is a write of the contract.
LEMMA WriteRefines ==
    ASSUME IInv, NEW v \in Value, NEW incomplete \in BOOLEAN, write(v, incomplete)
    PROVE  Contract!UWrite(v, incomplete)
<1>1. /\ queue \in Seq(Value) /\ Len(queue) \in Nat
      /\ front \in Nat /\ w \in Nat /\ f \in Nat
      /\ 1 <= front /\ front <= w /\ w <= f /\ f <= Len(queue) + 1
  BY StageSizes DEF IInv, TypeOK, PointerOrder, back
<1>2. /\ queue' \in Seq(Value) /\ Len(queue') = Len(queue) + 1
      /\ \A i \in 1..Len(queue) : queue'[i] = queue[i]
  BY <1>1, AppendProperties DEF write
<1>3. SubSeq(queue', f, Len(queue')) = Append(Partial, v)
  BY <1>1, <1>2, SliceAppend DEF write, Partial
<1>4. SubSeq(queue', front, w - 1) = Avail
  <2>1. \A i \in front..(w - 1) : queue'[i] = queue[i]
    BY <1>1, <1>2
  <2>2. w - 1 \in Int /\ w - 1 <= Len(queue) /\ w - 1 <= Len(queue')
    BY <1>1, <1>2
  <2> QED
    BY <1>1, <1>2, <2>1, <2>2, SliceEqual DEF Avail
<1>5. SubSeq(queue', w, f - 1) = Complete
  <2>1. \A i \in w..(f - 1) : queue'[i] = queue[i]
    BY <1>1, <1>2
  <2>2. f - 1 \in Int /\ f - 1 <= Len(queue) /\ f - 1 <= Len(queue') /\ w >= 1
    BY <1>1, <1>2
  <2> QED
    BY <1>1, <1>2, <2>1, <2>2, SliceEqual DEF Complete
<1>6. front' = front /\ w' = w /\ reader' = reader /\ wakes' = wakes
  BY DEF write
<1>7. CASE incomplete
  <2>1. f' = f
    BY <1>7 DEF write
  <2> QED
    BY <1>3, <1>4, <1>5, <1>6, <1>7, <2>1 DEF Contract!UWrite, Avail, Complete, Partial
<1>8. CASE ~incomplete
  <2>1. f' = Len(queue') + 1 /\ f' - 1 = Len(queue')
    BY <1>1, <1>2, <1>8 DEF write, back
  <2>2. SubSeq(queue', f', Len(queue')) = <<>>
    BY <1>1, <1>2, <2>1, SubSeqEmpty
  <2>3. /\ w \in 1..(Len(queue') + 1) /\ f - 1 \in w - 1..Len(queue')
        /\ Len(queue') \in f - 1..Len(queue') /\ (f - 1) + 1 = f
    BY <1>1, <1>2
  <2>4. SubSeq(queue', w, f - 1) \o SubSeq(queue', f, Len(queue'))
          = SubSeq(queue', w, Len(queue'))
    BY <1>2, <2>3, ConcatAdjacentSubSeq
  <2> QED
    BY <1>3, <1>4, <1>5, <1>6, <1>8, <2>1, <2>2, <2>4
       DEF Contract!UWrite, Avail, Complete, Partial
<1> QED
  BY <1>7, <1>8

\* unwrite () is an unwrite of the contract.
LEMMA UnwriteRefines ==
    ASSUME IInv, unwrite
    PROVE  Contract!UUnwrite
<1>1. /\ queue \in Seq(Value) /\ Len(queue) \in Nat
      /\ front \in Nat /\ w \in Nat /\ f \in Nat
      /\ 1 <= front /\ front <= w /\ w <= f /\ f <= Len(queue)
  BY StageSizes, SMTT(40) DEF IInv, TypeOK, PointerOrder, back, unwrite
<1>2. /\ queue' \in Seq(Value) /\ Len(queue') = Len(queue) - 1
      /\ \A i \in 1..(Len(queue) - 1) : queue'[i] = queue[i]
  BY <1>1, SliceButLast DEF unwrite
<1>3. SubSeq(queue', front, w - 1) = Avail
  <2>1. \A i \in front..(w - 1) : queue'[i] = queue[i]
    BY <1>1, <1>2
  <2>2. w - 1 \in Int /\ w - 1 <= Len(queue) /\ w - 1 <= Len(queue')
    BY <1>1, <1>2
  <2> QED
    BY <1>1, <1>2, <2>1, <2>2, SliceEqual DEF Avail
<1>4. SubSeq(queue', w, f - 1) = Complete
  <2>1. \A i \in w..(f - 1) : queue'[i] = queue[i]
    BY <1>1, <1>2
  <2>2. f - 1 \in Int /\ f - 1 <= Len(queue) /\ f - 1 <= Len(queue') /\ w >= 1
    BY <1>1, <1>2
  <2> QED
    BY <1>1, <1>2, <2>1, <2>2, SliceEqual DEF Complete
<1>5. Partial \in Seq(Value) /\ Len(Partial) = Len(queue) + 1 - f /\ Partial # <<>>
  BY <1>1, StageSizes, EmptySeq
<1>6. SubSeq(queue', f, Len(queue')) = SubSeq(Partial, 1, Len(Partial) - 1)
  <2> DEFINE n == Len(queue) - 1
             a == SubSeq(queue', f, n)
             b == SubSeq(Partial, 1, Len(Partial) - 1)
  <2>1. n \in Int /\ n <= Len(queue') /\ Len(queue') = n /\ f >= 1 /\ f \in Nat
    BY <1>1, <1>2
  <2>2. /\ a \in Seq(Value) /\ Len(a) = IF f <= n THEN n - f + 1 ELSE 0
        /\ \A i \in 1..(n - f + 1) : a[i] = queue'[f + i - 1]
    BY <1>2, <2>1, Slice
  <2>3. /\ b \in Seq(Value) /\ Len(b) = Len(Partial) - 1
        /\ \A i \in 1..(Len(Partial) - 1) : b[i] = Partial[i]
    <3>1. Len(Partial) >= 1
      BY <1>1, <1>5
    <3> QED
      BY <1>5, <3>1, SliceButLast
  <2>4. \A i \in 1..(Len(queue) - f + 1) : Partial[i] = queue[f + i - 1]
    BY <1>1, Slice DEF Partial
  <2> HIDE DEF a, b
  <2>5. Len(a) = Len(b) /\ Len(a) = n - f + 1
    BY <1>1, <1>5, <2>2, <2>3
  <2>6. ASSUME NEW i \in 1..Len(a) PROVE a[i] = b[i]
    <3>1. /\ i \in 1..(n - f + 1) /\ i \in 1..(Len(Partial) - 1)
          /\ i \in 1..(Len(queue) - f + 1) /\ f + i - 1 \in 1..(Len(queue) - 1)
      BY <1>1, <1>5, <2>5
    <3> QED
      BY <1>2, <2>2, <2>3, <2>4, <3>1
  <2>7. a = b
    BY <2>2, <2>3, <2>5, <2>6, SeqEqual
  <2> QED
    BY <2>1, <2>7 DEF a, b
<1> QED
  BY <1>3, <1>4, <1>5, <1>6 DEF unwrite, Contract!UUnwrite, Avail, Complete, Partial

\* Both ways a flush ends publish the complete items.
LEMMA FlushMoves ==
    ASSUME IInv, w # f, w' = f, f' = f, front' = front, queue' = queue
    PROVE  /\ Complete # <<>> /\ Complete' = <<>>
           /\ Avail' = Avail \o Complete
           /\ Partial' = Partial
<1>1. /\ queue \in Seq(Value) /\ Len(queue) \in Nat
      /\ front \in Nat /\ w \in Nat /\ f \in Nat
      /\ 1 <= front /\ front <= w /\ w < f /\ f <= Len(queue) + 1
  BY StageSizes DEF IInv, TypeOK, PointerOrder, back
<1>2. Complete # <<>>
  BY <1>1, StageSizes, EmptySeq
<1>3. SubSeq(queue, f, f - 1) = <<>>
  BY <1>1, SubSeqEmpty
<1>4. /\ front \in 1..(Len(queue) + 1) /\ w - 1 \in front - 1..Len(queue)
      /\ f - 1 \in w - 1..Len(queue) /\ (w - 1) + 1 = w
  BY <1>1
<1>5. SubSeq(queue, front, w - 1) \o SubSeq(queue, w, f - 1)
        = SubSeq(queue, front, f - 1)
  BY <1>1, <1>4, ConcatAdjacentSubSeq
<1> QED
  BY <1>2, <1>3, <1>5 DEF Avail, Complete, Partial

\* read () is a read of the contract.
LEMMA ReadRefines ==
    ASSUME IInv, read
    PROVE  Contract!URead
<1>1. /\ queue \in Seq(Value) /\ Len(queue) \in Nat
      /\ front \in Nat /\ w \in Nat /\ f \in Nat
      /\ 1 <= front /\ front < w /\ w <= f /\ f <= Len(queue) + 1
  BY StageSizes DEF IInv, TypeOK, PointerOrder, back, read, Prefetched
<1>2. Avail # <<>>
  BY <1>1, StageSizes, EmptySeq
<1>3. front \in 1..Len(queue) /\ w - 1 \in front..Len(queue)
  BY <1>1
<1>4. Tail(Avail) = SubSeq(queue, front + 1, w - 1)
  BY <1>1, <1>3, HeadTailOfSubSeq DEF Avail
<1> QED
  BY <1>2, <1>4 DEF read, Contract!URead, Avail

\* Every step of the threads is a step of the contract or changes nothing in it.
LEMMA StepRefines ==
    ASSUME IInv, [Next]_vars
    PROVE  [Contract!UNext]_(Contract!uvars)
<1>1. ASSUME NEW v \in Value, NEW incomplete \in BOOLEAN, write(v, incomplete)
      PROVE  Contract!UNext
  BY <1>1, WriteRefines DEF Contract!UNext
<1>2. CASE unwrite
  BY <1>2, UnwriteRefines DEF Contract!UNext
<1>3. CASE flush_cas
  <2>1. ~(reader = "asleep" /\ wakes = 0)
    BY <1>3 DEF flush_cas, IInv, TypeOK, PointerOrder, SleepProtocol, NULL
  <2> QED
    BY <1>3, <2>1, FlushMoves
       DEF flush_cas, Avail, Complete, Partial, Contract!UNext, Contract!UFlush
<1>4. CASE flush_cas_fails
  BY <1>4 DEF flush_cas_fails, Contract!uvars
<1>5. CASE flush_set
  <2>1. reader = "asleep" /\ wakes = 0 /\ wakes' = 1 /\ w # f
    BY <1>5 DEF flush_set, IInv, TypeOK, PointerOrder, SleepProtocol, NULL
  <2> QED
    BY <1>5, <2>1, FlushMoves
       DEF flush_set, Avail, Complete, Partial, Contract!UNext, Contract!UFlush
<1>6. CASE check_read
  <2>1. CASE reader' = "asleep"
    <3>1. reader = "awake" /\ w = front /\ w - 1 < front /\ front \in Int /\ w - 1 \in Int
      BY <1>6, <2>1 DEF check_read, IInv, TypeOK, PointerOrder, SleepProtocol, NULL
    <3>2. SubSeq(queue, front, w - 1) = <<>>
      BY <3>1, SubSeqEmpty
    <3> QED
      BY <1>6, <2>1, <3>1, <3>2 DEF check_read, Contract!UNext, Contract!UReadFail
  <2>2. CASE reader' # "asleep"
    <3>1. reader' = reader
      BY <1>6, <2>2 DEF check_read
    <3> QED
      BY <1>6, <3>1 DEF check_read, Contract!uvars
  <2> QED
    BY <2>1, <2>2
<1>7. CASE read
  BY <1>7, ReadRefines DEF Contract!UNext
<1>8. CASE wake
  BY <1>8 DEF wake, Contract!UNext, Contract!UWake
<1>9. CASE UNCHANGED vars
  BY <1>9 DEF vars, Contract!uvars
<1> QED
  BY <1>1, <1>2, <1>3, <1>4, <1>5, <1>6, <1>7, <1>8, <1>9
     DEF Next, Writer, Reader

\* ypipe_t implements the contract its callers rely on: reads fail only when
\* nothing is flushed, a flush is atomic, and a wake-up is owed exactly when
\* something is flushed to a sleeping reader.
THEOREM RefinesUPipe == Spec => ImplementsUPipe
<1>1. Init => Contract!UInit
  BY InitRefines
<1>2. IInv /\ [Next]_vars => [Contract!UNext]_(Contract!uvars)
  BY StepRefines
<1> QED
  BY <1>1, <1>2, Invariance, PTL DEF Spec, ImplementsUPipe, Contract!USpec
=============================================================================
