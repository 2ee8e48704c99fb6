---------------------------- MODULE YQueueProofs ----------------------------
(***************************************************************************)
(* Proofs about the chunked memory of the lock-free pipe, for every chunk  *)
(* size, every set of addresses and any number of items.                   *)
(*                                                                         *)
(* The argument rests on one picture of the memory.  The live chunks that  *)
(* nobody holds (not the spare, not sc, not o) are the list: their         *)
(* ordinals are the interval from begin_chunk's to end_chunk's, each taken *)
(* once, next adds one and prev takes one away.  On the cells of the list  *)
(* address and index determine each other, and every pointer that ypipe_t  *)
(* compares is such a cell, or NULL.  So a comparison of addresses is one  *)
(* of indices although a freed address may come back, and the order of the *)
(* pointers, which YPipeProofs proves, keeps them away from the chunks     *)
(* that pop () and unpush () take out of the list.                         *)
(***************************************************************************)
EXTENDS YQueue, SequenceTheorems, FiniteSetTheorems, WellFoundedInduction, TLAPS

\* The proofs about the pipe over indices, for the indices of this memory.
P == INSTANCE YPipeProofs WITH
    queue <- written, front <- Index(front), r <- ToIndex(r), w <- ToIndex(w),
    f <- ToIndex(f), c <- ToIndex(c),
    wpc <- IF wpc = "set" THEN "set" ELSE "idle"

-----------------------------------------------------------------------------
(* The picture *)

\* The chunks of the list: live, and in nobody's hands.
Linked == {a \in Chunk : chunk[a].live /\ a \notin {spare_chunk, sc, o}}
\* The addresses that stand for a cell of the queue.
Cell == Linked \X Pos

\* The links and the ordinals agree.
ListOK ==
    /\ begin_chunk \in Linked /\ back_chunk \in Linked /\ end_chunk \in Linked
    /\ \A a \in Linked : base[begin_chunk] <= base[a] /\ base[a] <= base[end_chunk]
    /\ \A a, b \in Linked : base[a] = base[b] => a = b
    /\ \A a \in Linked : a # end_chunk =>
          chunk[a].next \in Linked /\ base[chunk[a].next] = base[a] + 1
    /\ \A a \in Linked : a # begin_chunk =>
          chunk[a].prev \in Linked /\ base[chunk[a].prev] = base[a] - 1

\* The chunks outside the list: the spare, the one push () took, the one pop ()
\* took.  All live, all different.
HeldOK ==
    /\ \A a \in {spare_chunk, sc, o} : a # Null => chunk[a].live
    /\ spare_chunk # Null => spare_chunk # sc /\ spare_chunk # o
    /\ sc # Null => sc # o
    /\ wpc # "link" => sc = Null
    /\ rpc = "idle" => o = Null

\* back is the terminator cell and end the cell after it; between the two steps
\* of a push () that fills a chunk, end waits for its chunk.
EndsOK ==
    /\ wpc # "link" => /\ end_pos \in Pos
                       /\ Index(back) = Len(written) + 1
                       /\ Index(<<end_chunk, end_pos>>) = Len(written) + 2
    /\ wpc = "link" => /\ end_pos = N /\ back_chunk = end_chunk /\ back_pos = N - 1
                       /\ Index(back) = Len(written) + 2
                       /\ Len(written) < MaxItems
                       /\ pending \in Value \X BOOLEAN

\* The pointers of ypipe_t are cells of the list.
PointersOK ==
    /\ r \in Cell /\ w \in Cell /\ f \in Cell
    /\ c \in Cell \/ c = Null

\* The types, with the values a pointer into the list needs.
Typed ==
    /\ chunk \in [Chunk -> [live : BOOLEAN, prev : Pointer, next : Pointer,
                            values : [Pos -> Value \cup {Junk}]]]
    /\ base \in [Chunk -> Nat]
    /\ begin_chunk \in Chunk /\ back_chunk \in Chunk /\ end_chunk \in Chunk
    /\ begin_pos \in Pos /\ back_pos \in Pos /\ end_pos \in 0..N
    /\ spare_chunk \in Chunk \cup {Null} /\ sc \in Chunk \cup {Null} /\ o \in Chunk \cup {Null}
    /\ r \in Address /\ w \in Address /\ f \in Address /\ c \in Address
    /\ wpc \in {"idle", "link", "set"} /\ rpc \in {"idle", "spare"}
    /\ reader \in {"awake", "asleep"}
    /\ alive \in BOOLEAN
    /\ written \in Seq(Value)

\* The picture, while the queue exists.
Memory ==
    /\ Typed
    /\ alive => ListOK /\ HeldOK /\ EndsOK /\ PointersOK
    /\ ~alive => wpc = "idle" /\ rpc = "idle"

\* With the order of the pointers and the sleep protocol, over indices.
IInv == Memory /\ P!IInv

-----------------------------------------------------------------------------
(* Addresses and indices *)

\* A row ends before a later one starts.
LEMMA Rows ==
    ASSUME NEW x \in Nat, NEW y \in Nat, x < y
    PROVE  x * N + N <= y * N
<1>1. N \in Nat
  BY NAssumption
<1> DEFINE d == y - x - 1
<1>2. d \in Nat /\ y = x + 1 + d
  OBVIOUS
<1>3. d * N \in Nat /\ x * N \in Nat
  BY <1>1, <1>2
<1>4. y * N = x * N + N + d * N
  <2> HIDE DEF d
  <2> QED
    BY <1>1, <1>2
<1> QED
  BY <1>1, <1>3, <1>4

\* Cells in row-major order: by row, then by position, and no two alike.
LEMMA RowMajor ==
    ASSUME NEW x \in Nat, NEW y \in Nat, NEW i \in Pos, NEW j \in Pos
    PROVE  /\ x * N + i + 1 \in Nat /\ x * N + i + 1 >= 1
           /\ x * N + i + 1 <= y * N + j + 1 => x < y \/ (x = y /\ i <= j)
           /\ x * N + i + 1 < y * N + j + 1 => x < y \/ (x = y /\ i < j)
           /\ x * N + i + 1 = y * N + j + 1 => x = y /\ i = j
<1>1. N \in Nat /\ N > 1 /\ i \in Nat /\ j \in Nat /\ i < N /\ j < N
  BY NAssumption DEF Pos
<1> DEFINE p == x * N
           q == y * N
<1>2. p \in Nat /\ q \in Nat
  BY <1>1
<1>3. x < y => p + N <= q
  BY Rows
<1>4. y < x => q + N <= p
  BY Rows
<1>5. x = y => p = q
  OBVIOUS
<1> HIDE DEF p, q
<1>6. /\ p + i + 1 \in Nat /\ p + i + 1 >= 1
      /\ p + i + 1 <= q + j + 1 => x < y \/ (x = y /\ i <= j)
      /\ p + i + 1 < q + j + 1 => x < y \/ (x = y /\ i < j)
      /\ p + i + 1 = q + j + 1 => x = y /\ i = j
  BY <1>1, <1>2, <1>3, <1>4, <1>5
<1> QED
  BY <1>6 DEF p, q

\* The start of the next row.
LEMMA NextRow == ASSUME NEW x \in Nat PROVE (x + 1) * N = x * N + N /\ x * N \in Nat
BY NAssumption

\* The same for the cells of the list: the index orders them by ordinal, then
\* by position, and tells them apart.
LEMMA CellOrder ==
    ASSUME Typed, NEW p \in Cell, NEW q \in Cell
    PROVE  /\ Index(p) \in Nat /\ Index(p) >= 1
           /\ Index(p) <= Index(q) =>
                base[p[1]] < base[q[1]] \/ (base[p[1]] = base[q[1]] /\ p[2] <= q[2])
           /\ Index(p) < Index(q) =>
                base[p[1]] < base[q[1]] \/ (base[p[1]] = base[q[1]] /\ p[2] < q[2])
           /\ (ListOK /\ Index(p) = Index(q)) => p = q
<1>1. /\ base[p[1]] \in Nat /\ base[q[1]] \in Nat /\ p[2] \in Pos /\ q[2] \in Pos
      /\ p[1] \in Linked /\ q[1] \in Linked
      /\ p = <<p[1], p[2]>> /\ q = <<q[1], q[2]>>
  BY DEF Typed, Cell, Linked
<1>2. /\ Index(p) = base[p[1]] * N + p[2] + 1
      /\ Index(q) = base[q[1]] * N + q[2] + 1
  BY DEF Index
<1>3. /\ Index(p) \in Nat /\ Index(p) >= 1
      /\ Index(p) <= Index(q) =>
           base[p[1]] < base[q[1]] \/ (base[p[1]] = base[q[1]] /\ p[2] <= q[2])
      /\ Index(p) < Index(q) =>
           base[p[1]] < base[q[1]] \/ (base[p[1]] = base[q[1]] /\ p[2] < q[2])
      /\ Index(p) = Index(q) => base[p[1]] = base[q[1]] /\ p[2] = q[2]
  BY <1>1, <1>2, RowMajor
<1>4. ListOK /\ Index(p) = Index(q) => p[1] = q[1] /\ p[2] = q[2]
  BY <1>1, <1>3 DEF ListOK
<1>5. ListOK /\ Index(p) = Index(q) => p = q
  BY <1>1, <1>4
<1> QED
  BY <1>3, <1>5

\* NULL is neither a chunk nor the address of a cell.
LEMMA NullIsNoCell == Null \notin Chunk /\ \A p \in Cell : p # Null
<1>1. Linked \subseteq Chunk
  BY DEF Linked
<1>2. Cell \subseteq Chunk \X (0..(N - 1))
  BY <1>1 DEF Cell, Pos
<1> QED
  BY <1>2, NullAssumption

\* The order of the pointers, said of addresses.
LEMMA InRange ==
    ASSUME IInv, alive
    PROVE  /\ front \in Cell /\ back \in Cell
           /\ Index(front) <= Index(r) /\ Index(r) <= Index(w)
           /\ Index(w) <= Index(f) /\ Index(f) <= Len(written) + 1
           /\ c = w \/ c = Null
           /\ ToIndex(r) = Index(r) /\ ToIndex(w) = Index(w) /\ ToIndex(f) = Index(f)
           /\ ToIndex(c) = (IF c = Null THEN 0 ELSE Index(c))
<1>1. Typed /\ ListOK /\ PointersOK
  BY DEF IInv, Memory
<1>2. front \in Cell /\ back \in Cell
  BY <1>1 DEF Typed, ListOK, front, back, Cell
<1>3. /\ r \in Cell /\ w \in Cell /\ f \in Cell
      /\ c \in Cell \/ c = Null
      /\ r # Null /\ w # Null /\ f # Null
  BY <1>1, NullIsNoCell DEF PointersOK
<1>4. /\ ToIndex(r) = Index(r) /\ ToIndex(w) = Index(w) /\ ToIndex(f) = Index(f)
      /\ ToIndex(c) = (IF c = Null THEN 0 ELSE Index(c))
  BY <1>3 DEF ToIndex
<1>5. /\ Index(front) <= ToIndex(r) /\ ToIndex(r) <= ToIndex(w)
      /\ ToIndex(w) <= ToIndex(f) /\ ToIndex(f) <= Len(written) + 1
      /\ ToIndex(c) = ToIndex(w) \/ ToIndex(c) = 0
  BY DEF IInv, P!IInv, P!PointerOrder, P!back, P!NULL
<1>6. c = w \/ c = Null
  <2>1. CASE c # Null
    <3>1. c \in Cell /\ w \in Cell
      BY <1>3, <2>1
    <3>2. Index(c) >= 1 /\ Index(c) \in Nat
      BY <1>1, <3>1, CellOrder
    <3>3. Index(c) = Index(w)
      BY <1>4, <1>5, <2>1, <3>2
    <3> QED
      BY <1>1, <3>1, <3>3, CellOrder
  <2> QED
    BY <2>1
<1> QED
  BY <1>2, <1>4, <1>5, <1>6

\* Indices count from one.
LEMMA IndexType == ASSUME Typed, NEW p \in Cell PROVE Index(p) \in Nat /\ Index(p) >= 1
BY CellOrder

\* Two addresses that the code compares are equal when their indices are.
LEMMA SameAddress ==
    ASSUME Typed, ListOK, NEW p \in Cell, NEW q \in Cell
    PROVE  p = q <=> Index(p) = Index(q)
BY CellOrder

\* The sleep protocol, said of addresses.
LEMMA Sleeping ==
    ASSUME IInv, alive
    PROVE  /\ reader = "awake" => c = w /\ c # Null
           /\ reader = "asleep" => r = front
           /\ wpc = "set" => c = Null /\ w # f
           /\ wakes \in Nat
<1>1. Typed /\ ListOK /\ PointersOK
  BY DEF IInv, Memory
<1>2. /\ front \in Cell /\ r \in Cell /\ w \in Cell
      /\ c = w \/ c = Null
      /\ ToIndex(r) = Index(r) /\ ToIndex(w) = Index(w)
      /\ ToIndex(c) = (IF c = Null THEN 0 ELSE Index(c)) /\ ToIndex(f) = Index(f)
  BY <1>1, InRange DEF PointersOK
<1>3. Index(w) \in Nat /\ Index(w) >= 1
  BY <1>1, <1>2, IndexType
<1>4. /\ reader = "awake" => ToIndex(c) = ToIndex(w)
      /\ reader = "asleep" => ToIndex(r) = Index(front)
      /\ wpc = "set" => ToIndex(c) = 0 /\ ToIndex(w) # ToIndex(f)
      /\ wakes \in Nat
  BY DEF IInv, P!IInv, P!SleepProtocol, P!TypeOK, P!NULL
<1>5. reader = "awake" => c # Null
  BY <1>2, <1>3, <1>4
<1>6. reader = "asleep" => r = front
  <2>1. r = front <=> Index(r) = Index(front)
    BY <1>1, <1>2, SameAddress
  <2> QED
    BY <1>2, <1>4, <2>1
<1>7. wpc = "set" => c = Null /\ w # f
  BY <1>2, <1>3, <1>4
<1> QED
  BY <1>2, <1>4, <1>5, <1>6, <1>7

-----------------------------------------------------------------------------
(* The steps *)

\* A step that moves no link keeps the list.
LEMMA SameList ==
    ASSUME ListOK, Linked' = Linked, base' = base, begin_chunk' = begin_chunk,
           end_chunk' = end_chunk, back_chunk' \in Linked,
           \A a \in Linked : chunk'[a].next = chunk[a].next /\ chunk'[a].prev = chunk[a].prev
    PROVE  ListOK'
BY DEF ListOK

\* Storing a value moves no link.
LEMMA Stored ==
    ASSUME Typed, NEW v \in Value, Store(v)
    PROVE  /\ chunk' \in [Chunk -> [live : BOOLEAN, prev : Pointer, next : Pointer,
                                    values : [Pos -> Value \cup {Junk}]]]
           /\ \A a \in Chunk : /\ chunk'[a].live = chunk[a].live
                               /\ chunk'[a].next = chunk[a].next
                               /\ chunk'[a].prev = chunk[a].prev
BY DEF Typed, Store

\* write () inside a chunk is a write of the pipe.
LEMMA WriteStep ==
    ASSUME IInv, NEW v \in Value, NEW incomplete \in BOOLEAN, write(v, incomplete)
    PROVE  Memory' /\ P!Next /\ Linked' = Linked
<1>1. Typed /\ ListOK /\ HeldOK /\ EndsOK /\ PointersOK /\ alive /\ wpc = "idle"
  BY DEF IInv, Memory, write
<1>2. N \in Nat /\ N > 1 /\ Len(written) \in Nat /\ end_pos \in Pos /\ end_pos + 1 \in Pos
  BY <1>1, NAssumption, LenProperties DEF EndsOK, Typed, write, Pos
<1>3. /\ chunk' \in [Chunk -> [live : BOOLEAN, prev : Pointer, next : Pointer,
                               values : [Pos -> Value \cup {Junk}]]]
      /\ \A a \in Chunk : /\ chunk'[a].live = chunk[a].live
                          /\ chunk'[a].next = chunk[a].next
                          /\ chunk'[a].prev = chunk[a].prev
  BY <1>1, Stored DEF write
<1>4. Linked' = Linked /\ Linked \subseteq Chunk
  BY <1>3 DEF Linked, write, wlocal, rlocal
<1>5. ListOK'
  BY <1>1, <1>3, <1>4, SameList DEF write, ListOK
<1>6. HeldOK'
  BY <1>1, <1>3 DEF write, HeldOK, wlocal, rlocal, Typed
<1>7. Len(written') = Len(written) + 1 /\ written' \in Seq(Value)
  BY <1>1, AppendProperties DEF write, Typed
<1>8. /\ Index(<<end_chunk, end_pos>>) = Len(written) + 2
      /\ Index(back)' = Index(<<end_chunk, end_pos>>)
      /\ Index(<<end_chunk, end_pos>>)' = Index(<<end_chunk, end_pos>>) + 1
  <2>1. base' = base /\ back' = <<end_chunk, end_pos>> /\ end_chunk' = end_chunk /\ end_pos' = end_pos + 1
    BY DEF write, back
  <2>2. Index(<<end_chunk, end_pos>>) = base[end_chunk] * N + end_pos + 1
    BY DEF Index
  <2>3. Index(<<end_chunk, end_pos>>)' = base[end_chunk] * N + (end_pos + 1) + 1
    BY <2>1 DEF Index
  <2>4. base[end_chunk] * N \in Nat /\ end_pos \in Nat
    BY <1>1, <1>2 DEF Typed, Pos
  <2>5. Index(back)' = Index(<<end_chunk, end_pos>>)
    BY <2>1 DEF Index, back
  <2>6. Index(<<end_chunk, end_pos>>) = Len(written) + 2
    BY <1>1 DEF EndsOK
  <2> QED
    BY <2>2, <2>3, <2>4, <2>5, <2>6
<1>9. EndsOK'
  BY <1>1, <1>2, <1>7, <1>8 DEF EndsOK, write, wlocal
<1>10. <<end_chunk, end_pos>> \in Cell
  BY <1>1, <1>2 DEF Cell, ListOK
<1>11. Cell' = Cell
  BY <1>4 DEF Cell
<1>12. PointersOK'
  BY <1>1, <1>10, <1>11 DEF PointersOK, write
<1>13. Typed'
  <2>1. f' \in Address
    BY <1>1, <1>4, <1>10 DEF Typed, write, Address, Cell
  <2>2. end_pos' \in 0..N /\ back_pos' \in Pos /\ back_chunk' \in Chunk
    BY <1>1, <1>2 DEF Typed, write, Pos
  <2>3. Address' = Address
    BY DEF Address
  <2> QED
    BY <1>1, <1>3, <1>7, <2>1, <2>2, <2>3 DEF Typed, write, wlocal, rlocal
<1>14. ToIndex(f)' = IF incomplete THEN ToIndex(f) ELSE Len(written) + 2
  <2>1. <<end_chunk, end_pos>> # Null
    BY <1>10, NullIsNoCell
  <2> QED
    BY <1>8, <2>1 DEF ToIndex, Index, write
<1>15. /\ Index(front)' = Index(front) /\ ToIndex(r)' = ToIndex(r)
       /\ ToIndex(w)' = ToIndex(w) /\ ToIndex(c)' = ToIndex(c)
  BY DEF write, ToIndex, Index, front
<1>16. P!write(v, incomplete)
  BY <1>1, <1>2, <1>14, <1>15 DEF P!write, P!back, write, wlocal
<1> QED
  BY <1>1, <1>4, <1>5, <1>6, <1>9, <1>12, <1>13, <1>16 DEF Memory, P!Next, P!Writer, write

\* The first half of a write () that fills a chunk is invisible.
LEMMA WriteXchgStep ==
    ASSUME IInv, NEW v \in Value, NEW incomplete \in BOOLEAN, write_xchg(v, incomplete)
    PROVE  Memory' /\ UNCHANGED P!vars /\ Linked' = Linked
<1>1. Typed /\ ListOK /\ HeldOK /\ EndsOK /\ PointersOK /\ alive /\ wpc = "idle" /\ sc = Null
  BY DEF IInv, Memory, HeldOK, write_xchg
<1>2. N \in Nat /\ N > 1 /\ Len(written) \in Nat /\ end_pos \in Pos /\ end_pos = N - 1
  BY <1>1, NAssumption, LenProperties DEF EndsOK, Typed, write_xchg, Pos
<1>3. /\ chunk' \in [Chunk -> [live : BOOLEAN, prev : Pointer, next : Pointer,
                               values : [Pos -> Value \cup {Junk}]]]
      /\ \A a \in Chunk : /\ chunk'[a].live = chunk[a].live
                          /\ chunk'[a].next = chunk[a].next
                          /\ chunk'[a].prev = chunk[a].prev
  BY <1>1, Stored DEF write_xchg
<1>4. Linked' = Linked /\ Linked \subseteq Chunk
  BY <1>1, <1>3, NullIsNoCell DEF Linked, write_xchg, xchg, rlocal
<1>5. ListOK'
  BY <1>1, <1>3, <1>4, SameList DEF write_xchg, ListOK
<1>6. HeldOK'
  BY <1>1, <1>3 DEF write_xchg, xchg, HeldOK, rlocal, Typed
<1>7. EndsOK'
  <2>1. base' = base /\ back' = <<end_chunk, end_pos>> /\ written' = written
    BY DEF write_xchg, back
  <2>2. Index(back)' = Index(<<end_chunk, end_pos>>)
    BY <2>1 DEF Index
  <2> QED
    BY <1>1, <1>2, <2>1, <2>2 DEF EndsOK, write_xchg
<1>8. PointersOK'
  BY <1>1, <1>4 DEF PointersOK, Cell, write_xchg
<1>9. Typed'
  <2>1. end_pos' \in 0..N /\ back_pos' \in Pos /\ back_chunk' \in Chunk
    BY <1>1, <1>2 DEF Typed, write_xchg, Pos
  <2>2. Address' = Address
    BY DEF Address
  <2> QED
    BY <1>1, <1>3, <2>1, <2>2 DEF Typed, write_xchg, xchg, rlocal
<1>10. UNCHANGED P!vars
  BY <1>1 DEF P!vars, write_xchg, ToIndex, Index, front
<1> QED
  BY <1>1, <1>4, <1>5, <1>6, <1>7, <1>8, <1>9, <1>10 DEF Memory, write_xchg

\* The second half is the write of the pipe; the chunk it links was in nobody
\* else's hands.
LEMMA WriteLinkStep ==
    ASSUME IInv, write_link
    PROVE  /\ Memory' /\ P!Next
           /\ end_chunk' \in Chunk \ Linked /\ Linked' = Linked \cup {end_chunk'}
           /\ base'[end_chunk'] = base[end_chunk] + 1
           /\ \A b \in Linked : base'[b] = base[b] /\ chunk'[b].values = chunk[b].values
<1>1. Typed /\ ListOK /\ HeldOK /\ EndsOK /\ PointersOK /\ alive /\ wpc = "link"
  BY DEF IInv, Memory, write_link
<1>2. N \in Nat /\ N > 1 /\ Len(written) \in Nat
  BY <1>1, NAssumption, LenProperties DEF Typed
<1>3. PICK a \in IF sc # Null THEN {sc} ELSE Chunk \ Live :
        /\ chunk' = [chunk EXCEPT ![end_chunk].next = a,
                                  ![a] = [(IF sc # Null THEN chunk[a] ELSE Fresh)
                                          EXCEPT !.prev = end_chunk]]
        /\ end_chunk' = a
        /\ base' = [base EXCEPT ![a] = base[end_chunk] + 1]
  BY DEF write_link
<1>4. Linked \subseteq Chunk /\ end_chunk \in Linked /\ back_chunk = end_chunk /\ back_pos = N - 1
  BY <1>1 DEF Linked, ListOK, EndsOK
<1>5. a \in Chunk /\ a \notin Linked /\ a # end_chunk /\ a # spare_chunk /\ a # o
  BY <1>1, <1>3, <1>4, NullIsNoCell DEF Linked, HeldOK, Live, Typed
<1> DEFINE Rec == [live : BOOLEAN, prev : Pointer, next : Pointer, values : [Pos -> Value \cup {Junk}]]
           new == IF sc # Null THEN chunk[a] ELSE Fresh
<1>6. new \in Rec /\ new.live
  BY <1>1, <1>3, <1>5 DEF HeldOK, Fresh, Pointer, Typed
<1>7. /\ chunk' \in [Chunk -> Rec]
      /\ chunk'[a].live /\ chunk'[a].prev = end_chunk
      /\ \A b \in Chunk \ {a} : chunk'[b].live = chunk[b].live /\ chunk'[b].prev = chunk[b].prev
      /\ \A b \in Chunk \ {a, end_chunk} : chunk'[b].next = chunk[b].next
      /\ \A b \in Chunk \ {a} : chunk'[b].values = chunk[b].values
      /\ chunk'[end_chunk].next = a
  <2>1. chunk \in [Chunk -> Rec] /\ end_chunk \in Chunk /\ a \in Pointer /\ end_chunk \in Pointer
    BY <1>1, <1>5 DEF Typed, Pointer
  <2>2. chunk' = [chunk EXCEPT ![end_chunk].next = a, ![a] = [new EXCEPT !.prev = end_chunk]]
    BY <1>3
  <2> HIDE DEF new
  <2>3. [new EXCEPT !.prev = end_chunk] \in Rec /\ [new EXCEPT !.prev = end_chunk].live
        /\ [new EXCEPT !.prev = end_chunk].prev = end_chunk
    BY <1>6, <2>1
  <2> QED
    BY <1>5, <2>1, <2>2, <2>3
<1> HIDE DEF new, Rec
<1>8. /\ base' \in [Chunk -> Nat] /\ base'[a] = base[end_chunk] + 1
      /\ \A b \in Chunk \ {a} : base'[b] = base[b]
  BY <1>1, <1>3, <1>5 DEF Typed
<1>9. Linked' = Linked \cup {a}
  <2>1. spare_chunk' = spare_chunk /\ sc' = Null /\ o' = o
    BY DEF write_link, rlocal
  <2>2. sc \in {Null, a}
    BY <1>3
  <2> QED
    BY <1>5, <1>7, <2>1, <2>2, NullIsNoCell DEF Linked
<1>10. ListOK'
  <2>1. begin_chunk' = begin_chunk /\ back_chunk' = back_chunk /\ end_chunk' = a
    BY <1>3 DEF write_link
  <2>2. \A b \in Linked : b # a /\ b \in Chunk /\ base[b] \in Nat /\ base'[b] = base[b]
    BY <1>1, <1>4, <1>5, <1>8 DEF Typed
  <2>3. \A b \in Linked' : base'[begin_chunk] <= base'[b] /\ base'[b] <= base'[a]
    BY <1>1, <1>8, <1>9, <2>2 DEF ListOK
  <2>4. \A b1, b2 \in Linked' : base'[b1] = base'[b2] => b1 = b2
    <3>1. \A b \in Linked : base'[b] < base'[a]
      BY <1>1, <1>8, <2>2 DEF ListOK
    <3>2. \A b1, b2 \in Linked : base'[b1] = base'[b2] => b1 = b2
      BY <1>1, <2>2 DEF ListOK
    <3> QED
      BY <1>8, <1>9, <2>2, <3>1, <3>2
  <2>5. ASSUME NEW b \in Linked', b # a
        PROVE  chunk'[b].next \in Linked' /\ base'[chunk'[b].next] = base'[b] + 1
    <3>1. b \in Linked /\ b \in Chunk \ {a}
      BY <1>9, <2>2, <2>5
    <3>2. CASE b = end_chunk
      BY <1>7, <1>8, <1>9, <2>2, <3>1, <3>2
    <3>3. CASE b # end_chunk
      <4>1. chunk'[b].next = chunk[b].next
        BY <1>7, <3>1, <3>3
      <4>2. chunk[b].next \in Linked /\ base[chunk[b].next] = base[b] + 1
        BY <1>1, <3>1, <3>3 DEF ListOK
      <4> QED
        BY <1>9, <2>2, <3>1, <4>1, <4>2
    <3> QED
      BY <3>2, <3>3
  <2>6. ASSUME NEW b \in Linked', b # begin_chunk
        PROVE  chunk'[b].prev \in Linked' /\ base'[chunk'[b].prev] = base'[b] - 1
    <3>1. CASE b = a
      BY <1>4, <1>7, <1>8, <1>9, <2>2, <3>1
    <3>2. CASE b # a
      <4>1. b \in Linked /\ chunk'[b].prev = chunk[b].prev
        BY <1>7, <1>9, <2>2, <3>2
      <4>2. chunk[b].prev \in Linked /\ base[chunk[b].prev] = base[b] - 1
        BY <1>1, <2>6, <4>1 DEF ListOK
      <4> QED
        BY <1>9, <2>2, <4>1, <4>2
    <3> QED
      BY <3>1, <3>2
  <2> QED
    BY <1>1, <1>9, <2>1, <2>3, <2>4, <2>5, <2>6 DEF ListOK
<1>11. HeldOK'
  <2>1. spare_chunk' = spare_chunk /\ sc' = Null /\ o' = o /\ rpc' = rpc
    BY DEF write_link, rlocal
  <2>2. \A x \in {spare_chunk, o} : x # Null => x \in Chunk \ {a} /\ chunk[x].live
    BY <1>1, <1>5 DEF HeldOK, Typed
  <2>3. \A x \in {spare_chunk, o} : x # Null => chunk'[x].live
    BY <1>7, <2>2
  <2> QED
    BY <1>1, <2>1, <2>3 DEF HeldOK
<1>12. Len(written') = Len(written) + 1 /\ written' \in Seq(Value)
  BY <1>1, AppendProperties DEF write_link, Typed, EndsOK
<1>13. Index(back)' = Index(back) /\ Index(<<end_chunk, end_pos>>)' = Index(back) + 1
  <2>1. back' = back /\ back = <<end_chunk, N - 1>> /\ end_chunk' = a /\ end_pos' = 0
    BY <1>3, <1>4 DEF write_link, back
  <2>2. base'[end_chunk] = base[end_chunk] /\ base[end_chunk] \in Nat /\ end_chunk \in Chunk
    BY <1>1, <1>4, <1>5, <1>8 DEF Typed
  <2>3. Index(back) = base[end_chunk] * N + (N - 1) + 1 /\ Index(back)' = base'[end_chunk] * N + (N - 1) + 1
    BY <2>1 DEF Index
  <2>4. Index(<<end_chunk, end_pos>>)' = (base[end_chunk] + 1) * N + 0 + 1
    BY <1>8, <2>1 DEF Index
  <2>5. (base[end_chunk] + 1) * N = base[end_chunk] * N + N /\ base[end_chunk] * N \in Nat
    BY <2>2, NextRow
  <2> QED
    <3> DEFINE q == base[end_chunk] * N
               m == (base[end_chunk] + 1) * N
    <3>1. /\ q \in Nat /\ m = q + N
          /\ Index(back) = q + (N - 1) + 1 /\ Index(back)' = q + (N - 1) + 1
          /\ Index(<<end_chunk, end_pos>>)' = m + 0 + 1
      BY <2>2, <2>3, <2>4, <2>5
    <3> HIDE DEF q, m
    <3> QED
      BY <1>2, <3>1
<1>14. EndsOK'
  <2>1. Index(back) = Len(written) + 2 /\ end_pos' = 0 /\ wpc' = "idle" /\ 0 \in Pos
    BY <1>1, <1>2 DEF EndsOK, write_link, Pos
  <2> QED
    BY <1>2, <1>12, <1>13, <2>1 DEF EndsOK
<1>15. Cell \subseteq Cell' /\ back \in Cell
  BY <1>1, <1>9 DEF Cell, back, ListOK, Typed
<1>16. PointersOK'
  BY <1>1, <1>15 DEF PointersOK, write_link
<1>17. Typed'
  <2>1. f' \in Address /\ Address' = Address
    BY <1>1, <1>4, <1>15 DEF Typed, write_link, Address, Cell
  <2>2. chunk' \in [Chunk -> [live : BOOLEAN, prev : Pointer, next : Pointer,
                              values : [Pos -> Value \cup {Junk}]]]
    BY <1>7 DEF Rec
  <2>3. end_pos' \in 0..N /\ end_chunk' \in Chunk
    BY <1>2, <1>3, <1>5 DEF write_link
  <2> QED
    BY <1>1, <1>8, <1>12, <2>1, <2>2, <2>3 DEF Typed, write_link, rlocal
<1>18. ASSUME NEW p \in Cell
       PROVE  base'[p[1]] = base[p[1]]
  BY <1>4, <1>5, <1>8 DEF Cell
<1>19. /\ Index(front)' = Index(front) /\ ToIndex(r)' = ToIndex(r)
       /\ ToIndex(w)' = ToIndex(w) /\ ToIndex(c)' = ToIndex(c)
       /\ ToIndex(f)' = IF pending[2] THEN ToIndex(f) ELSE Len(written) + 2
  <2>1. /\ front' = front /\ r' = r /\ w' = w /\ c' = c
        /\ f' = IF pending[2] THEN f ELSE back
    BY DEF write_link, front
  <2>2. /\ front \in Cell /\ r \in Cell /\ w \in Cell /\ f \in Cell
        /\ c \in Cell \/ c = Null
    BY <1>1, InRange DEF PointersOK
  <2>3. back \in Cell /\ back # Null /\ Index(back) = Len(written) + 2
    BY <1>1, <1>15, NullIsNoCell DEF EndsOK
  <2>4. ASSUME NEW p \in Cell PROVE base'[p[1]] * N + p[2] + 1 = base[p[1]] * N + p[2] + 1
    BY <1>18
  <2>5. Index(front)' = Index(front)
    BY <2>1, <2>2, <2>4 DEF Index
  <2>6. ToIndex(r)' = ToIndex(r)
    BY <2>1, <2>2, <2>4 DEF Index, ToIndex
  <2>7. ToIndex(w)' = ToIndex(w)
    BY <2>1, <2>2, <2>4 DEF Index, ToIndex
  <2>8. ToIndex(c)' = ToIndex(c)
    BY <2>1, <2>2, <2>4 DEF Index, ToIndex
  <2>9. ToIndex(f)' = IF pending[2] THEN ToIndex(f) ELSE Len(written) + 2
    BY <2>1, <2>2, <2>3, <2>4 DEF Index, ToIndex
  <2> QED
    BY <2>5, <2>6, <2>7, <2>8, <2>9
<1>20. P!write(pending[1], pending[2])
  BY <1>1, <1>2, <1>19 DEF P!write, P!back, write_link, EndsOK
<1>21. pending[1] \in Value /\ pending[2] \in BOOLEAN
  BY <1>1 DEF EndsOK
<1>22. \A b \in Linked : base'[b] = base[b] /\ chunk'[b].values = chunk[b].values
  BY <1>4, <1>5, <1>7, <1>8
<1>23. Memory' /\ P!Next
  BY <1>1, <1>10, <1>11, <1>14, <1>16, <1>17, <1>20, <1>21 DEF Memory, P!Next, P!Writer, write_link
<1> QED
  BY <1>3, <1>5, <1>8, <1>9, <1>22, <1>23

\* The index of a cell, spelled out.
LEMMA IndexOf ==
    ASSUME Typed, NEW a \in Linked, NEW i \in Pos
    PROVE  <<a, i>> \in Cell /\ Index(<<a, i>>) = base[a] * N + i + 1 /\ base[a] \in Nat
BY DEF Typed, Linked, Cell, Index

\* unpush () moves a pointer to the cell before it, across chunks too.
LEMMA CellBefore ==
    ASSUME Typed, ListOK, NEW p \in Cell, Index(p) > 1,
           p[2] = 0 => p[1] # begin_chunk
    PROVE  LET q == IF p[2] # 0 THEN <<p[1], p[2] - 1>> ELSE <<chunk[p[1]].prev, N - 1>>
           IN  q \in Cell /\ Index(q) = Index(p) - 1
<1>1. /\ p[1] \in Linked /\ p[2] \in Pos /\ p = <<p[1], p[2]>>
      /\ N \in Nat /\ N > 1
  BY NAssumption DEF Cell
<1>2. Index(p) = base[p[1]] * N + p[2] + 1 /\ base[p[1]] \in Nat
  BY <1>1, IndexOf
<1> DEFINE m == base[p[1]] * N
<1>3. m \in Nat
  BY <1>1, <1>2
<1>4. CASE p[2] # 0
  <2>1. p[2] - 1 \in Pos
    BY <1>1, <1>4 DEF Pos
  <2>2. <<p[1], p[2] - 1>> \in Cell /\ Index(<<p[1], p[2] - 1>>) = m + (p[2] - 1) + 1
    BY <1>1, <2>1, IndexOf
  <2>3. p[2] \in Nat /\ Index(p) = m + p[2] + 1
    BY <1>1, <1>2 DEF Pos
  <2> HIDE DEF m
  <2> QED
    BY <1>3, <1>4, <2>2, <2>3
<1>5. CASE p[2] = 0
  <2> DEFINE a == chunk[p[1]].prev
  <2>1. a \in Linked /\ base[a] = base[p[1]] - 1
    BY <1>1, <1>5 DEF ListOK
  <2>2. N - 1 \in Pos
    BY <1>1 DEF Pos
  <2>3. <<a, N - 1>> \in Cell /\ Index(<<a, N - 1>>) = base[a] * N + (N - 1) + 1 /\ base[a] \in Nat
    BY <2>1, <2>2, IndexOf
  <2>4. base[p[1]] = base[a] + 1
    BY <1>2, <2>1, <2>3
  <2>5. m = base[a] * N + N /\ base[a] * N \in Nat
    BY <2>3, <2>4, NextRow
  <2>6. Index(p) = m + 0 + 1
    BY <1>2, <1>5
  <2> HIDE DEF m
  <2>7. Index(<<a, N - 1>>) = Index(p) - 1
    <3> DEFINE u == base[a] * N
    <3>1. u \in Nat /\ m = u + N /\ Index(<<a, N - 1>>) = u + (N - 1) + 1
      BY <2>3, <2>5
    <3> HIDE DEF u, a
    <3> QED
      BY <1>1, <2>6, <3>1
  <2> QED
    BY <1>5, <2>3, <2>7
<1> QED
  BY <1>4, <1>5

\* What comes before the first cell of a chunk is in an earlier chunk.
LEMMA FirstCell ==
    ASSUME Typed, ListOK, NEW p \in Cell, NEW a \in Linked, Index(p) < Index(<<a, 0>>)
    PROVE  p[1] # a /\ a # begin_chunk
<1>1. 0 \in Pos
  BY NAssumption DEF Pos
<1>2. <<a, 0>> \in Cell
  BY <1>1, IndexOf
<1>3. /\ p[1] \in Linked /\ p[2] \in Nat
      /\ base[p[1]] \in Nat /\ base[a] \in Nat /\ base[begin_chunk] \in Nat
  BY DEF Cell, Pos, Typed, Linked
<1>4. base[p[1]] < base[a] \/ (base[p[1]] = base[a] /\ p[2] < 0)
  <2> DEFINE q == <<a, 0>>
  <2>1. q \in Cell /\ q[1] = a /\ q[2] = 0 /\ Index(p) < Index(q)
    BY <1>2
  <2> HIDE DEF q
  <2> QED
    BY <2>1, CellOrder
<1>5. base[begin_chunk] <= base[p[1]]
  BY <1>3 DEF ListOK
<1> QED
  BY <1>3, <1>4, <1>5

\* unwrite () is an unwrite of the pipe, and the chunk it frees holds no cell a
\* pointer stands on.
LEMMA UnwriteStep ==
    ASSUME IInv, unwrite
    PROVE  /\ Memory' /\ P!Next /\ Linked' \subseteq Linked /\ Len(written) >= 1
           /\ \A b \in Linked' : chunk'[b].values = chunk[b].values
<1>1. Typed /\ ListOK /\ HeldOK /\ EndsOK /\ PointersOK /\ alive /\ wpc = "idle"
  BY DEF IInv, Memory, unwrite
<1>2. /\ N \in Nat /\ N > 1 /\ Len(written) \in Nat /\ end_pos \in Pos /\ 0 \in Pos
      /\ back_pos \in Pos /\ begin_chunk \in Linked
  BY <1>1, NAssumption, LenProperties DEF EndsOK, Typed, Pos, ListOK
<1> DEFINE term == <<end_chunk, end_pos>>
           was == <<back_chunk', back_pos'>>
<1>3. /\ front \in Cell /\ back \in Cell /\ r \in Cell /\ w \in Cell /\ f \in Cell /\ term \in Cell
      /\ Index(front) \in Nat /\ Index(front) >= 1
      /\ Index(r) \in Nat /\ Index(w) \in Nat /\ Index(f) \in Nat
      /\ Index(front) <= Index(r) /\ Index(r) <= Index(w) /\ Index(w) <= Index(f)
      /\ Index(f) <= Len(written) + 1
      /\ Index(back) = Len(written) + 1 /\ Index(term) = Len(written) + 2
  <2>1. term \in Cell
    BY <1>1, <1>2 DEF Cell, ListOK
  <2>2. front \in Cell /\ back \in Cell /\ r \in Cell /\ w \in Cell /\ f \in Cell
    BY <1>1, InRange DEF PointersOK
  <2>3. /\ Index(front) \in Nat /\ Index(front) >= 1
        /\ Index(r) \in Nat /\ Index(w) \in Nat /\ Index(f) \in Nat
    BY <1>1, <2>2, IndexType
  <2>4. /\ Index(front) <= Index(r) /\ Index(r) <= Index(w) /\ Index(w) <= Index(f)
        /\ Index(f) <= Len(written) + 1
    BY <1>1, InRange
  <2>5. Index(back) = Len(written) + 1 /\ Index(term) = Len(written) + 2
    BY <1>1 DEF EndsOK
  <2> QED
    BY <2>1, <2>2, <2>3, <2>4, <2>5
<1>4. Index(f) < Index(back) /\ Index(f) < Index(term) /\ Len(written) >= 1
  <2>1. f # back
    BY DEF unwrite
  <2>2. Index(f) # Index(back)
    BY <1>1, <1>3, <2>1, SameAddress
  <2> QED
    BY <1>2, <1>3, <2>2
<1>5. was \in Cell /\ Index(was) = Len(written)
  <2>1. Index(back) > 1
    BY <1>2, <1>3, <1>4
  <2>2. back[2] = 0 => back[1] # begin_chunk
    <3> SUFFICES ASSUME back_pos = 0 PROVE back_chunk # begin_chunk
      BY DEF back
    <3>1. back_chunk \in Linked /\ Index(f) < Index(<<back_chunk, 0>>)
      BY <1>1, <1>4 DEF back, ListOK
    <3> QED
      BY <1>1, <1>3, <3>1, FirstCell
  <2>3. was = IF back[2] # 0 THEN <<back[1], back[2] - 1>> ELSE <<chunk[back[1]].prev, N - 1>>
    BY DEF unwrite, back
  <2> HIDE DEF was
  <2>4. was \in Cell /\ Index(was) = Index(back) - 1
    BY <1>1, <1>3, <2>1, <2>2, <2>3, CellBefore
  <2> QED
    BY <1>2, <1>3, <2>4
<1>6. written' \in Seq(Value) /\ Len(written') = Len(written) - 1
  BY <1>1, <1>4, P!SliceButLast, MaxItemsAssumption DEF unwrite, Typed
<1>7. base' = base /\ Index(back)' = Index(was)
  BY DEF unwrite, Index, back
<1>8. c = w \/ c = Null
  BY <1>1, InRange
<1>9. P!unwrite
  <2>1. ToIndex(f) = Index(f) /\ ToIndex(f) # Len(written) + 1
    BY <1>1, <1>2, <1>3, <1>4, InRange
  <2>2. /\ Index(front)' = Index(front) /\ ToIndex(r)' = ToIndex(r)
        /\ ToIndex(w)' = ToIndex(w) /\ ToIndex(c)' = ToIndex(c) /\ ToIndex(f)' = ToIndex(f)
    BY DEF unwrite, front, ToIndex, Index
  <2> QED
    BY <1>1, <2>1, <2>2 DEF P!unwrite, P!back, unwrite, wlocal
<1>10. CASE end_pos # 0
  <2>1. end_pos' = end_pos - 1 /\ end_chunk' = end_chunk /\ chunk' = chunk
    BY <1>10 DEF unwrite
  <2>2. end_pos - 1 \in Pos
    BY <1>2, <1>10 DEF Pos
  <2>3. Linked' = Linked /\ Cell' = Cell
    BY <2>1 DEF Linked, Cell, unwrite, wlocal, rlocal
  <2>4. back_chunk' \in Linked /\ back_pos' \in Pos
    BY <1>5 DEF Cell
  <2>5. ListOK'
    BY <1>1, <1>7, <2>1, <2>3, <2>4, SameList DEF unwrite
  <2>6. HeldOK'
    BY <1>1, <2>1 DEF HeldOK, unwrite, wlocal, rlocal
  <2>7. Index(<<end_chunk, end_pos>>)' = Len(written) + 1
    <3>1. Index(term) = base[end_chunk] * N + end_pos + 1 /\ base[end_chunk] \in Nat
      BY <1>1, <1>2, IndexOf DEF ListOK
    <3>2. Index(<<end_chunk, end_pos>>)' = base[end_chunk] * N + (end_pos - 1) + 1
      BY <1>7, <2>1 DEF Index
    <3> DEFINE m == base[end_chunk] * N
    <3>3. m \in Nat /\ end_pos \in Nat /\ Index(term) = m + end_pos + 1
          /\ Index(<<end_chunk, end_pos>>)' = m + (end_pos - 1) + 1
      BY <1>2, <3>1, <3>2 DEF Pos
    <3> HIDE DEF m, term
    <3> QED
      BY <1>2, <1>3, <3>3
  <2>8. EndsOK'
    <3>1. wpc' = "idle" /\ end_pos' \in Pos
      BY <1>1, <2>1, <2>2 DEF unwrite, wlocal
    <3> HIDE DEF was
    <3> QED
      BY <1>2, <1>5, <1>6, <1>7, <2>7, <3>1 DEF EndsOK
  <2>9. PointersOK'
    BY <1>1, <2>3 DEF PointersOK, unwrite
  <2>10. Typed'
    <3>1. Linked \subseteq Chunk /\ Address' = Address
      BY DEF Linked, Address
    <3>2. end_pos' \in 0..N
      BY <1>2, <2>1, <2>2 DEF Pos
    <3> QED
      BY <1>1, <1>6, <1>7, <2>1, <2>4, <3>1, <3>2 DEF Typed, unwrite, wlocal, rlocal
  <2> QED
    BY <1>1, <1>4, <1>9, <2>1, <2>3, <2>5, <2>6, <2>8, <2>9, <2>10 DEF Memory, P!Next, P!Writer, unwrite
<1>11. CASE end_pos = 0
  <2> DEFINE p == chunk[end_chunk].prev
  <2>1. /\ end_pos' = N - 1 /\ end_chunk' = p
        /\ chunk' = [chunk EXCEPT ![end_chunk] = Freed, ![p].next = Null]
    BY <1>11 DEF unwrite
  <2>2. end_chunk \in Linked /\ Linked \subseteq Chunk /\ term = <<end_chunk, 0>>
    BY <1>1, <1>11 DEF ListOK, Linked
  <2>3. end_chunk # begin_chunk
    BY <1>1, <1>3, <1>4, <2>2, FirstCell
  <2>4. ASSUME NEW q \in Cell, Index(q) < Index(term) PROVE q[1] # end_chunk
    BY <1>1, <2>2, <2>4, FirstCell
  <2>5. p \in Linked /\ base[p] = base[end_chunk] - 1 /\ base[p] \in Nat /\ base[end_chunk] \in Nat
    BY <1>1, <2>2, <2>3 DEF ListOK, Typed
  <2>6. p # end_chunk
    BY <2>5
  <2>7. /\ chunk' \in [Chunk -> [live : BOOLEAN, prev : Pointer, next : Pointer,
                                 values : [Pos -> Value \cup {Junk}]]]
        /\ ~chunk'[end_chunk].live
        /\ \A b \in Chunk \ {end_chunk} : chunk'[b].live = chunk[b].live /\ chunk'[b].prev = chunk[b].prev
        /\ \A b \in Chunk \ {end_chunk, p} : chunk'[b].next = chunk[b].next
        /\ \A b \in Chunk \ {end_chunk} : chunk'[b].values = chunk[b].values
    <3>1. Freed \in [live : BOOLEAN, prev : Pointer, next : Pointer,
                     values : [Pos -> Value \cup {Junk}]] /\ ~Freed.live
      BY DEF Freed, Fresh, Pointer
    <3>2. Null \in Pointer /\ end_chunk \in Chunk /\ p \in Chunk
      BY <2>2, <2>5 DEF Pointer
    <3> HIDE DEF p
    <3> QED
      BY <1>1, <2>1, <2>6, <3>1, <3>2 DEF Typed
  <2> HIDE DEF p
  <2>8. Linked' = Linked \ {end_chunk}
    BY <2>2, <2>7 DEF Linked, unwrite, wlocal, rlocal
  <2>9. ASSUME NEW q \in Cell, Index(q) < Index(term) PROVE q \in Cell'
    <3>1. q = <<q[1], q[2]>> /\ q[1] \in Linked /\ q[2] \in Pos
      BY DEF Cell
    <3>2. q[1] \in Linked'
      BY <2>4, <2>8, <2>9, <3>1
    <3> QED
      BY <3>1, <3>2 DEF Cell
  <2>10. Index(was) < Index(term)
    BY <1>2, <1>3, <1>5
  <2>11. /\ was \in Cell' /\ r \in Cell' /\ w \in Cell' /\ f \in Cell'
         /\ front \in Cell'
    <3>1. Index(r) < Index(term) /\ Index(w) < Index(term) /\ Index(f) < Index(term) /\ Index(front) < Index(term)
      BY <1>3, <1>4
    <3> HIDE DEF was, term
    <3> QED
      BY <1>3, <1>5, <2>9, <2>10, <3>1
  <2>12. ListOK'
    <3>1. begin_chunk' = begin_chunk /\ begin_chunk \in Linked' /\ back_chunk' \in Linked' /\ p \in Linked'
      BY <2>5, <2>6, <2>8, <2>11 DEF unwrite, Cell, front
    <3>2. \A b \in Linked' : b \in Linked /\ b \in Chunk \ {end_chunk} /\ base[b] \in Nat
      BY <1>1, <2>2, <2>8 DEF Typed
    <3>3. \A b \in Linked' : base[begin_chunk] <= base[b] /\ base[b] <= base[p]
      <4>1. \A b \in Linked' : base[b] # base[end_chunk] /\ base[b] <= base[end_chunk]
        BY <1>1, <2>2, <3>2 DEF ListOK
      <4> QED
        BY <1>1, <2>5, <3>2, <4>1 DEF ListOK
    <3>4. ASSUME NEW b \in Linked', b # p
          PROVE  chunk'[b].next \in Linked' /\ base[chunk'[b].next] = base[b] + 1
      <4>1. chunk'[b].next = chunk[b].next
        BY <2>7, <3>2, <3>4
      <4>2. chunk[b].next \in Linked /\ base[chunk[b].next] = base[b] + 1
        BY <1>1, <3>2 DEF ListOK
      <4>3. base[b] # base[p]
        BY <1>1, <2>5, <3>2, <3>4 DEF ListOK
      <4>4. chunk[b].next # end_chunk
        BY <2>5, <3>2, <4>2, <4>3
      <4> QED
        BY <2>8, <4>1, <4>2, <4>4
    <3>5. ASSUME NEW b \in Linked', b # begin_chunk
          PROVE  chunk'[b].prev \in Linked' /\ base[chunk'[b].prev] = base[b] - 1
      <4>1. chunk'[b].prev = chunk[b].prev
        BY <2>7, <3>2
      <4>2. chunk[b].prev \in Linked /\ base[chunk[b].prev] = base[b] - 1
        BY <1>1, <3>2, <3>5 DEF ListOK
      <4>3. base[b] <= base[end_chunk]
        BY <1>1, <3>2 DEF ListOK
      <4>4. chunk[b].prev # end_chunk
        BY <2>5, <3>2, <4>2, <4>3
      <4> QED
        BY <2>8, <4>1, <4>2, <4>4
    <3>6. \A a, b \in Linked' : base[a] = base[b] => a = b
      BY <1>1, <3>2 DEF ListOK
    <3> QED
      BY <1>7, <2>1, <3>1, <3>3, <3>4, <3>5, <3>6 DEF ListOK
  <2>13. HeldOK'
    <3>1. /\ spare_chunk' = spare_chunk /\ sc' = sc /\ o' = o /\ wpc' = wpc /\ rpc' = rpc
          /\ end_chunk \notin {spare_chunk, sc, o}
      BY <2>2 DEF unwrite, wlocal, rlocal, Linked
    <3>2. \A x \in {spare_chunk, sc, o} : x # Null => x \in Chunk \ {end_chunk} /\ chunk[x].live
      BY <1>1, <3>1 DEF HeldOK, Typed
    <3> QED
      BY <1>1, <2>7, <3>1, <3>2 DEF HeldOK
  <2>14. Index(<<end_chunk, end_pos>>)' = Len(written) + 1
    <3>1. Index(term) = base[end_chunk] * N + 0 + 1
      BY <2>2 DEF Index
    <3>2. Index(<<end_chunk, end_pos>>)' = base[p] * N + (N - 1) + 1
      BY <1>7, <2>1 DEF Index
    <3>3. base[end_chunk] = base[p] + 1
      BY <2>5
    <3>4. base[end_chunk] * N = base[p] * N + N /\ base[p] * N \in Nat
      BY <2>5, <3>3, NextRow
    <3> DEFINE m == base[end_chunk] * N
               u == base[p] * N
    <3>5. /\ u \in Nat /\ m = u + N /\ Index(term) = m + 0 + 1
          /\ Index(<<end_chunk, end_pos>>)' = u + (N - 1) + 1
      BY <3>1, <3>2, <3>4
    <3> HIDE DEF m, u, term
    <3> QED
      BY <1>2, <1>3, <3>5
  <2>15. EndsOK'
    <3>1. wpc' = "idle" /\ end_pos' \in Pos
      BY <1>1, <1>2, <2>1 DEF unwrite, wlocal, Pos
    <3> HIDE DEF was
    <3> QED
      BY <1>2, <1>5, <1>6, <1>7, <2>14, <3>1 DEF EndsOK
  <2>16. PointersOK'
    BY <1>8, <2>11 DEF PointersOK, unwrite
  <2>17. Typed'
    <3>1. Address' = Address /\ end_pos' \in 0..N /\ end_chunk' \in Chunk
      BY <1>2, <2>1, <2>2, <2>5 DEF Address
    <3>2. back_chunk' \in Chunk /\ back_pos' \in Pos
      BY <1>5, <2>2 DEF Cell
    <3> QED
      BY <1>1, <1>6, <1>7, <2>7, <3>1, <3>2 DEF Typed, unwrite, wlocal, rlocal
  <2>18. \A b \in Linked' : chunk'[b].values = chunk[b].values
    BY <2>2, <2>7, <2>8
  <2>19. Memory' /\ P!Next
    BY <1>1, <1>9, <2>12, <2>13, <2>15, <2>16, <2>17 DEF Memory, P!Next, P!Writer, unwrite
  <2> QED
    BY <1>4, <2>8, <2>18, <2>19
<1> QED
  BY <1>10, <1>11

\* What a step of the pointers alone leaves as it was.
LEMMA SameMemory ==
    ASSUME Memory, alive, UNCHANGED <<qvars, sc, pending, rlocal, written, base, alive>>,
           wpc' = wpc \/ (wpc \in {"idle", "set"} /\ wpc' \in {"idle", "set"}),
           reader' \in {"awake", "asleep"},
           r' \in Cell, w' \in Cell, f' = f,
           c' \in Cell \/ c' = Null
    PROVE  /\ Memory'
           /\ Index(front)' = Index(front) /\ ToIndex(f)' = ToIndex(f)
<1>1. Typed /\ ListOK /\ HeldOK /\ EndsOK /\ PointersOK
  BY DEF Memory
<1> USE DEF qvars, rlocal
<1>2. Linked' = Linked /\ Cell' = Cell /\ Cell \subseteq Address /\ Null \in Address /\ Address' = Address
  BY DEF Linked, Cell, Address
<1>3. ListOK'
  BY <1>1, <1>2 DEF ListOK
<1>4. HeldOK'
  BY <1>1 DEF HeldOK
<1>5. Index(back)' = Index(back) /\ Index(<<end_chunk, end_pos>>)' = Index(<<end_chunk, end_pos>>)
  BY DEF Index, back
<1>6. EndsOK'
  BY <1>1, <1>5 DEF EndsOK
<1>7. PointersOK'
  BY <1>1, <1>2 DEF PointersOK
<1>8. Typed'
  BY <1>1, <1>2 DEF Typed
<1>9. Index(front)' = Index(front) /\ ToIndex(f)' = ToIndex(f)
  BY DEF Index, ToIndex, front
<1> QED
  BY <1>3, <1>4, <1>6, <1>7, <1>8, <1>9 DEF Memory

\* A flush () whose compare-and-swap of addresses succeeds.
LEMMA FlushCasStep ==
    ASSUME IInv, flush_cas
    PROVE  Memory' /\ P!Next
<1>1. /\ alive /\ wpc = "idle" /\ w # f /\ c = w /\ c' = f /\ w' = f
      /\ UNCHANGED <<qvars, r, f, wlocal, rlocal, reader, wakes, alive, written, base>>
  BY DEF flush_cas, cas
<1>2. Typed /\ ListOK /\ PointersOK /\ Memory
  BY <1>1 DEF IInv, Memory
<1>3. r \in Cell /\ w \in Cell /\ f \in Cell
  BY <1>2 DEF PointersOK
<1>4. Memory' /\ Index(front)' = Index(front) /\ ToIndex(f)' = ToIndex(f)
  <2>1. UNCHANGED <<qvars, sc, pending, rlocal, written, base, alive>>
    BY <1>1 DEF wlocal
  <2>2. wpc \in {"idle", "set"} /\ wpc' \in {"idle", "set"} /\ reader' \in {"awake", "asleep"}
    BY <1>1, <1>2 DEF wlocal, Typed
  <2> QED
    BY <1>1, <1>2, <1>3, <2>1, <2>2, SameMemory
<1>5. ToIndex(w)' = ToIndex(f) /\ ToIndex(c)' = ToIndex(f) /\ ToIndex(r)' = ToIndex(r)
  BY <1>1 DEF ToIndex, Index
<1>6. ToIndex(c) = ToIndex(w) /\ ToIndex(w) # ToIndex(f)
  <2>1. ToIndex(w) = Index(w) /\ ToIndex(f) = Index(f)
    BY <1>1, InRange
  <2>2. Index(w) # Index(f)
    BY <1>1, <1>2, <1>3, SameAddress
  <2> QED
    BY <1>1, <2>1, <2>2
<1>7. P!flush_cas
  BY <1>1, <1>4, <1>5, <1>6 DEF P!flush_cas, wlocal
<1> QED
  BY <1>4, <1>7 DEF P!Next, P!Writer

\* A flush () whose compare-and-swap of addresses fails.
LEMMA FlushFailsStep ==
    ASSUME IInv, flush_cas_fails
    PROVE  Memory' /\ P!Next
<1>1. /\ alive /\ wpc = "idle" /\ w # f /\ c # w /\ wpc' = "set"
      /\ UNCHANGED <<qvars, r, w, f, c, sc, pending, rlocal, reader, wakes, alive, written, base>>
  BY DEF flush_cas_fails
<1>2. Typed /\ ListOK /\ PointersOK /\ Memory
  BY <1>1 DEF IInv, Memory
<1>3. /\ r \in Cell /\ w \in Cell /\ f \in Cell
      /\ c \in Cell \/ c = Null
  BY <1>2 DEF PointersOK
<1>4. Memory' /\ Index(front)' = Index(front) /\ ToIndex(f)' = ToIndex(f)
  <2>1. wpc \in {"idle", "set"} /\ wpc' \in {"idle", "set"} /\ reader' \in {"awake", "asleep"}
    BY <1>1, <1>2 DEF Typed
  <2> QED
    BY <1>1, <1>2, <1>3, <2>1, SameMemory
<1>5. ToIndex(w)' = ToIndex(w) /\ ToIndex(c)' = ToIndex(c) /\ ToIndex(r)' = ToIndex(r)
  BY <1>1 DEF ToIndex, Index
<1>6. ToIndex(c) # ToIndex(w) /\ ToIndex(w) # ToIndex(f)
  <2>1. /\ ToIndex(w) = Index(w) /\ ToIndex(f) = Index(f) /\ c = Null
        /\ ToIndex(c) = IF c = Null THEN 0 ELSE Index(c)
    BY <1>1, InRange
  <2>2. Index(w) # Index(f) /\ Index(w) \in Nat /\ Index(w) >= 1
    BY <1>1, <1>2, <1>3, SameAddress, IndexType
  <2> QED
    BY <2>1, <2>2
<1>7. P!flush_cas_fails
  BY <1>1, <1>4, <1>5, <1>6 DEF P!flush_cas_fails
<1> QED
  BY <1>4, <1>7 DEF P!Next, P!Writer

\* The store to c that follows.
LEMMA FlushSetStep ==
    ASSUME IInv, flush_set
    PROVE  Memory' /\ P!Next
<1>1. /\ wpc = "set" /\ c' = f /\ w' = f /\ wpc' = "idle" /\ wakes' = wakes + 1
      /\ UNCHANGED <<qvars, r, f, sc, pending, rlocal, reader, alive, written, base>>
  BY DEF flush_set, set
<1>2. Typed /\ ListOK /\ PointersOK /\ Memory /\ alive
  BY <1>1 DEF IInv, Memory
<1>3. r \in Cell /\ w \in Cell /\ f \in Cell
  BY <1>2 DEF PointersOK
<1>4. Memory' /\ Index(front)' = Index(front) /\ ToIndex(f)' = ToIndex(f)
  <2>1. wpc \in {"idle", "set"} /\ wpc' \in {"idle", "set"} /\ reader' \in {"awake", "asleep"}
    BY <1>1, <1>2 DEF Typed
  <2> QED
    BY <1>1, <1>2, <1>3, <2>1, SameMemory
<1>5. ToIndex(w)' = ToIndex(f) /\ ToIndex(c)' = ToIndex(f) /\ ToIndex(r)' = ToIndex(r)
  BY <1>1 DEF ToIndex, Index
<1>6. P!flush_set
  BY <1>1, <1>4, <1>5 DEF P!flush_set
<1> QED
  BY <1>4, <1>6 DEF P!Next, P!Writer

\* The reader takes its wake-up.
LEMMA WakeStep ==
    ASSUME IInv, wake
    PROVE  Memory' /\ P!Next
<1>1. /\ alive /\ reader = "asleep" /\ wakes > 0 /\ wakes' = wakes - 1 /\ reader' = "awake"
      /\ UNCHANGED <<qvars, r, w, f, c, wlocal, rlocal, alive, written, base>>
  BY DEF wake
<1>2. Memory /\ r \in Cell /\ w \in Cell /\ c \in Cell \cup {Null}
  BY <1>1 DEF IInv, Memory, PointersOK
<1>3. Memory'
  BY <1>1, <1>2, SameMemory DEF wlocal
<1>4. /\ ToIndex(w)' = ToIndex(w) /\ ToIndex(c)' = ToIndex(c) /\ ToIndex(r)' = ToIndex(r)
      /\ ToIndex(f)' = ToIndex(f) /\ Index(front)' = Index(front)
  BY <1>1 DEF ToIndex, Index, front, qvars
<1>5. P!wake
  BY <1>1, <1>4 DEF P!wake, wlocal, qvars
<1> QED
  BY <1>3, <1>5 DEF P!Next, P!Reader

\* check_read (): its compare-and-swap and its test compare addresses.
LEMMA CheckReadStep ==
    ASSUME IInv, check_read
    PROVE  Memory' /\ P!Next
<1>1. /\ alive /\ reader = "awake" /\ ~Prefetched /\ r' = c
      /\ c' = IF c = front THEN Null ELSE c
      /\ reader' = IF r' = front \/ r' = Null THEN "asleep" ELSE "awake"
      /\ UNCHANGED <<qvars, w, f, wlocal, rlocal, wakes, alive, written, base>>
  BY DEF check_read, cas
<1>2. Typed /\ ListOK /\ PointersOK /\ Memory
  BY <1>1 DEF IInv, Memory
<1>3. front \in Cell /\ r \in Cell /\ w \in Cell /\ f \in Cell /\ c \in Cell /\ c # Null /\ r # Null
  BY <1>1, <1>2, InRange, Sleeping, NullIsNoCell DEF PointersOK
<1>4. Memory' /\ Index(front)' = Index(front) /\ ToIndex(f)' = ToIndex(f)
  <2>1. c' \in Cell \/ c' = Null
    BY <1>1, <1>3
  <2>2. w' \in Cell /\ r' \in Cell /\ f' = f /\ reader' \in {"awake", "asleep"} /\ wpc' = wpc
    BY <1>1, <1>3 DEF wlocal
  <2>3. UNCHANGED <<qvars, sc, pending, rlocal, written, base, alive>>
    BY <1>1 DEF wlocal
  <2> QED
    BY <1>1, <1>2, <2>1, <2>2, <2>3, SameMemory
<1>5. /\ ToIndex(r) = Index(r) /\ ToIndex(c) = Index(c)
      /\ r = front <=> Index(r) = Index(front)
      /\ c = front <=> Index(c) = Index(front)
      /\ Index(c) >= 1 /\ Index(c) \in Nat
  BY <1>1, <1>2, <1>3, InRange, SameAddress, IndexType
<1>6. /\ ToIndex(w)' = ToIndex(w) /\ ToIndex(r)' = ToIndex(c)
      /\ ToIndex(c)' = IF c = front THEN 0 ELSE ToIndex(c)
  <2>1. ToIndex(w)' = ToIndex(w) /\ ToIndex(r)' = ToIndex(c)
    BY <1>1 DEF ToIndex, Index
  <2>2. ToIndex(c)' = IF c = front THEN 0 ELSE ToIndex(c)
    BY <1>1, <1>3 DEF ToIndex, Index
  <2> QED
    BY <2>1, <2>2
<1>7. P!check_read
  <2>1. ~P!Prefetched
    BY <1>1, <1>3, <1>5 DEF P!Prefetched, P!NULL, Prefetched
  <2>2. ToIndex(c)' = IF ToIndex(c) = Index(front) THEN P!NULL ELSE ToIndex(c)
    BY <1>5, <1>6 DEF P!NULL
  <2>3. reader' = IF ToIndex(r)' = Index(front) \/ ToIndex(r)' = P!NULL THEN "asleep" ELSE "awake"
    BY <1>1, <1>3, <1>5, <1>6 DEF P!NULL
  <2> QED
    BY <1>1, <1>4, <1>6, <2>1, <2>2, <2>3 DEF P!check_read, wlocal
<1> QED
  BY <1>4, <1>7 DEF P!Next, P!Reader

\* What the reader may read is before the last cell written.
LEMMA PrefetchedCell ==
    ASSUME IInv, alive, Prefetched
    PROVE  P!Prefetched /\ Index(front) < Index(r)
<1>1. Typed /\ ListOK /\ PointersOK
  BY DEF IInv, Memory
<1>2. front \in Cell /\ r \in Cell /\ front # r
  BY <1>1, InRange DEF PointersOK, Prefetched
<1>3. /\ Index(front) # Index(r) /\ Index(front) <= Index(r) /\ ToIndex(r) = Index(r)
      /\ Index(r) \in Nat /\ Index(r) >= 1 /\ Index(front) \in Nat
  BY <1>1, <1>2, InRange, SameAddress, IndexType
<1> QED
  BY <1>3 DEF P!Prefetched, P!NULL

\* read () inside a chunk.
LEMMA ReadStep ==
    ASSUME IInv, read
    PROVE  Memory' /\ P!Next /\ Linked' = Linked /\ Index(front)' = Index(front) + 1
<1>1. Typed /\ ListOK /\ HeldOK /\ EndsOK /\ PointersOK /\ alive
  BY DEF IInv, Memory, read
<1>2. N \in Nat /\ begin_pos \in Nat /\ begin_pos + 1 \in Pos
  BY <1>1, NAssumption DEF Typed, Pos, read
<1>3. Linked' = Linked /\ Cell' = Cell /\ Address' = Address
  BY DEF Linked, Cell, Address, read, wlocal, rlocal
<1>4. ListOK' /\ HeldOK' /\ PointersOK'
  BY <1>1, <1>3 DEF ListOK, HeldOK, PointersOK, read, wlocal, rlocal
<1>5. Index(back)' = Index(back) /\ Index(<<end_chunk, end_pos>>)' = Index(<<end_chunk, end_pos>>)
  BY DEF Index, back, read
<1>6. EndsOK'
  BY <1>1, <1>5 DEF EndsOK, read, wlocal
<1>7. Typed'
  BY <1>1, <1>2, <1>3 DEF Typed, read, wlocal, rlocal
<1>8. Index(front)' = Index(front) + 1
  <2>1. Index(front) = base[begin_chunk] * N + begin_pos + 1 /\ base[begin_chunk] \in Nat
    BY <1>1 DEF Index, front, Typed
  <2>2. Index(front)' = base[begin_chunk] * N + (begin_pos + 1) + 1
    BY DEF Index, front, read
  <2> DEFINE m == base[begin_chunk] * N
  <2>3. m \in Nat /\ Index(front) = m + begin_pos + 1 /\ Index(front)' = m + (begin_pos + 1) + 1
    BY <1>2, <2>1, <2>2
  <2> HIDE DEF m
  <2> QED
    BY <1>2, <2>3
<1>9. /\ ToIndex(w)' = ToIndex(w) /\ ToIndex(c)' = ToIndex(c) /\ ToIndex(r)' = ToIndex(r)
      /\ ToIndex(f)' = ToIndex(f)
  BY DEF ToIndex, Index, read
<1>10. P!read
  BY <1>1, <1>8, <1>9, PrefetchedCell DEF P!read, read, wlocal
<1> QED
  BY <1>1, <1>3, <1>4, <1>6, <1>7, <1>8, <1>10 DEF Memory, P!Next, P!Reader, read

\* read () of the last cell of a chunk: the chunk it leaves holds no cell a
\* pointer stands on.
LEMMA ReadAdvanceStep ==
    ASSUME IInv, read_advance
    PROVE  /\ Memory' /\ P!Next /\ Linked' \subseteq Linked /\ Index(front)' = Index(front) + 1
           /\ \A b \in Linked' : chunk'[b].values = chunk[b].values
<1>1. Typed /\ ListOK /\ HeldOK /\ EndsOK /\ PointersOK /\ alive /\ rpc = "idle" /\ o = Null
  BY DEF IInv, Memory, read_advance, HeldOK
<1>2. N \in Nat /\ N > 1 /\ begin_pos = N - 1 /\ Len(written) \in Nat
  BY <1>1, NAssumption, LenProperties DEF Typed, Pos, read_advance
<1> DEFINE n == chunk[begin_chunk].next
<1>3. /\ begin_chunk' = n /\ begin_pos' = 0 /\ o' = begin_chunk /\ rpc' = "spare"
      /\ chunk' = [chunk EXCEPT ![n].prev = Null]
  BY DEF read_advance
<1>4. front \in Cell /\ back \in Cell /\ r \in Cell /\ w \in Cell /\ f \in Cell
  BY <1>1, InRange DEF PointersOK
<1>5. /\ Index(front) < Index(r) /\ Index(front) < Index(w)
      /\ Index(front) < Index(f) /\ Index(front) < Index(back)
      /\ P!Prefetched
  <2>1. Index(front) < Index(r) /\ P!Prefetched
    BY <1>1, PrefetchedCell DEF read_advance
  <2>2. Index(r) <= Index(w) /\ Index(w) <= Index(f) /\ Index(f) <= Len(written) + 1
    BY <1>1, InRange
  <2>3. Index(back) >= Len(written) + 1
    BY <1>1, <1>2 DEF EndsOK
  <2>4. /\ Index(front) \in Nat /\ Index(r) \in Nat /\ Index(w) \in Nat /\ Index(f) \in Nat /\ Index(back) \in Nat
    BY <1>1, <1>4, IndexType
  <2> QED
    BY <1>2, <2>1, <2>2, <2>3, <2>4
<1>6. ASSUME NEW q \in Cell, Index(front) < Index(q)
      PROVE  base[begin_chunk] < base[q[1]] /\ q[1] # begin_chunk /\ q[1] \in Linked
  <2>1. q[1] \in Linked /\ q[2] \in 0..(N - 1) /\ base[q[1]] \in Nat /\ base[begin_chunk] \in Nat
    BY <1>1 DEF Cell, Typed, Linked, Pos
  <2>2. base[front[1]] < base[q[1]] \/ (base[front[1]] = base[q[1]] /\ front[2] < q[2])
    BY <1>1, <1>4, <1>6, CellOrder
  <2>3. front[1] = begin_chunk /\ front[2] = begin_pos
    BY DEF front
  <2> QED
    BY <1>2, <2>1, <2>2, <2>3
<1>7. /\ begin_chunk # end_chunk /\ begin_chunk \in Linked /\ end_chunk \in Linked /\ Linked \subseteq Chunk
      /\ base[begin_chunk] \in Nat /\ base[end_chunk] \in Nat
  <2>1. base[begin_chunk] < base[r[1]] /\ r[1] \in Linked
    BY <1>4, <1>5, <1>6
  <2>2. /\ begin_chunk \in Linked /\ end_chunk \in Linked /\ Linked \subseteq Chunk
        /\ base[begin_chunk] \in Nat /\ base[end_chunk] \in Nat /\ base[r[1]] \in Nat
    BY <1>1, <2>1 DEF ListOK, Linked, Typed
  <2>3. base[r[1]] <= base[end_chunk]
    BY <1>1, <2>1 DEF ListOK
  <2> QED
    BY <2>1, <2>2, <2>3
<1>8. n \in Linked /\ base[n] = base[begin_chunk] + 1 /\ n # begin_chunk /\ base[n] \in Nat
  BY <1>1, <1>7 DEF ListOK, Typed
<1> HIDE DEF n
<1>9. /\ chunk' \in [Chunk -> [live : BOOLEAN, prev : Pointer, next : Pointer,
                               values : [Pos -> Value \cup {Junk}]]]
      /\ \A a \in Chunk : chunk'[a].live = chunk[a].live /\ chunk'[a].next = chunk[a].next
      /\ \A a \in Chunk : chunk'[a].values = chunk[a].values
      /\ \A a \in Chunk \ {n} : chunk'[a].prev = chunk[a].prev
  <2>1. Null \in Pointer /\ n \in Chunk
    BY <1>7, <1>8 DEF Pointer
  <2> QED
    BY <1>1, <1>3, <2>1 DEF Typed
<1>10. spare_chunk' = spare_chunk /\ sc' = sc /\ base' = base /\ end_chunk' = end_chunk /\ back' = back
  BY DEF read_advance, wlocal, back
<1>11. Linked' = Linked \ {begin_chunk}
  <2>1. begin_chunk # Null /\ begin_chunk \notin {spare_chunk, sc} /\ begin_chunk \in Chunk
    BY <1>7, NullIsNoCell DEF Linked
  <2> QED
    BY <1>1, <1>3, <1>9, <1>10, <2>1, NullIsNoCell DEF Linked
<1>12. ListOK'
  <2>1. n \in Linked' /\ end_chunk \in Linked' /\ back_chunk' \in Linked'
    <3>1. back[1] # begin_chunk /\ back[1] \in Linked /\ back[1] = back_chunk /\ back_chunk' = back_chunk
      <4>1. back[1] = back_chunk /\ back_chunk' = back_chunk
        BY DEF back, read_advance
      <4> QED
        BY <1>4, <1>5, <1>6, <4>1
    <3> QED
      BY <1>7, <1>8, <1>11, <3>1
  <2>2. \A b \in Linked' : b \in Linked /\ b \in Chunk /\ b # begin_chunk /\ base[b] \in Nat
    BY <1>1, <1>7, <1>11 DEF Typed
  <2>3. \A b \in Linked' : base[n] <= base[b] /\ base[b] <= base[end_chunk]
    <3>1. \A b \in Linked' : base[b] # base[begin_chunk] /\ base[b] >= base[begin_chunk]
      BY <1>1, <1>7, <2>2 DEF ListOK
    <3> QED
      BY <1>1, <1>7, <1>8, <2>2, <3>1 DEF ListOK
  <2>4. ASSUME NEW b \in Linked', b # end_chunk
        PROVE  chunk'[b].next \in Linked' /\ base[chunk'[b].next] = base[b] + 1
    <3>1. chunk'[b].next = chunk[b].next
      BY <1>9, <2>2
    <3>2. chunk[b].next \in Linked /\ base[chunk[b].next] = base[b] + 1
      BY <1>1, <2>2, <2>4 DEF ListOK
    <3>3. base[b] >= base[begin_chunk]
      BY <1>1, <2>2 DEF ListOK
    <3>4. chunk[b].next # begin_chunk
      BY <1>7, <2>2, <3>2, <3>3
    <3> QED
      BY <1>11, <3>1, <3>2, <3>4
  <2>5. ASSUME NEW b \in Linked', b # n
        PROVE  chunk'[b].prev \in Linked' /\ base[chunk'[b].prev] = base[b] - 1
    <3>1. chunk'[b].prev = chunk[b].prev
      BY <1>9, <2>2, <2>5
    <3>2. chunk[b].prev \in Linked /\ base[chunk[b].prev] = base[b] - 1
      BY <1>1, <2>2 DEF ListOK
    <3>3. base[b] # base[n]
      BY <1>1, <1>8, <2>2, <2>5 DEF ListOK
    <3>4. chunk[b].prev # begin_chunk
      BY <1>7, <1>8, <2>2, <3>2, <3>3
    <3> QED
      BY <1>11, <3>1, <3>2, <3>4
  <2>6. \A a, b \in Linked' : base[a] = base[b] => a = b
    BY <1>1, <2>2 DEF ListOK
  <2> QED
    BY <1>3, <1>10, <2>1, <2>3, <2>4, <2>5, <2>6 DEF ListOK
<1>13. HeldOK'
  <2>1. begin_chunk \notin {spare_chunk, sc} /\ begin_chunk \in Chunk /\ chunk[begin_chunk].live
    BY <1>7 DEF Linked
  <2>2. \A x \in {spare_chunk, sc} : x # Null => x \in Chunk /\ chunk[x].live
    BY <1>1 DEF HeldOK, Typed
  <2>3. wpc' = wpc
    BY DEF read_advance, wlocal
  <2> QED
    BY <1>1, <1>3, <1>9, <1>10, <2>1, <2>2, <2>3 DEF HeldOK
<1>14. Index(back)' = Index(back) /\ Index(<<end_chunk, end_pos>>)' = Index(<<end_chunk, end_pos>>)
  BY DEF Index, back, read_advance
<1>15. EndsOK'
  BY <1>1, <1>14 DEF EndsOK, read_advance, wlocal
<1>16. ASSUME NEW q \in Cell, Index(front) < Index(q) PROVE q \in Cell'
  <2>1. q = <<q[1], q[2]>> /\ q[2] \in Pos
    BY DEF Cell
  <2>2. q[1] \in Linked'
    BY <1>6, <1>11, <1>16
  <2> QED
    BY <2>1, <2>2 DEF Cell
<1>17. PointersOK'
  <2>1. c = w \/ c = Null
    BY <1>1, InRange
  <2>2. r \in Cell' /\ w \in Cell' /\ f \in Cell'
    BY <1>4, <1>5, <1>16
  <2> QED
    BY <2>1, <2>2 DEF PointersOK, read_advance
<1>18. Typed'
  <2>1. Address' = Address /\ begin_chunk' \in Chunk /\ begin_pos' \in Pos /\ o' \in Chunk
    BY <1>2, <1>3, <1>7, <1>8 DEF Address, Pos
  <2> QED
    BY <1>1, <1>3, <1>9, <2>1 DEF Typed, read_advance, wlocal
<1>19. Index(front)' = Index(front) + 1
  <2>1. Index(front) = base[begin_chunk] * N + (N - 1) + 1
    BY <1>2 DEF Index, front
  <2>2. Index(front)' = base[n] * N + 0 + 1
    BY <1>3, <1>10 DEF Index, front
  <2>3. base[n] * N = base[begin_chunk] * N + N /\ base[begin_chunk] * N \in Nat
    BY <1>7, <1>8, NextRow
  <2> DEFINE m == base[begin_chunk] * N
             u == base[n] * N
  <2>4. m \in Nat /\ u = m + N /\ Index(front) = m + (N - 1) + 1 /\ Index(front)' = u + 0 + 1
    BY <2>1, <2>2, <2>3
  <2> HIDE DEF m, u
  <2> QED
    BY <1>2, <2>4
<1>20. /\ ToIndex(w)' = ToIndex(w) /\ ToIndex(c)' = ToIndex(c) /\ ToIndex(r)' = ToIndex(r)
       /\ ToIndex(f)' = ToIndex(f)
  BY DEF ToIndex, Index, read_advance
<1>21. P!read
  BY <1>5, <1>19, <1>20 DEF P!read, read_advance, wlocal
<1>22. Linked' \subseteq Linked /\ \A b \in Linked' : chunk'[b].values = chunk[b].values
  BY <1>7, <1>9, <1>11
<1>23. Memory' /\ P!Next
  BY <1>1, <1>12, <1>13, <1>15, <1>17, <1>18, <1>21 DEF Memory, P!Next, P!Reader, read_advance
<1> QED
  BY <1>19, <1>22, <1>23

\* Exchanging the spare and freeing the old one is invisible.
LEMMA PopSpareStep ==
    ASSUME IInv, pop_spare
    PROVE  /\ Memory' /\ UNCHANGED P!vars /\ Linked' = Linked
           /\ \A a \in Linked : chunk'[a] = chunk[a]
<1>1. Typed /\ ListOK /\ HeldOK /\ EndsOK /\ PointersOK /\ alive
  BY DEF IInv, Memory, pop_spare
<1>2. /\ spare_chunk' = o /\ o' = Null /\ rpc' = "idle" /\ sc' = sc
      /\ chunk' = [a \in Chunk |-> IF a = spare_chunk THEN Freed ELSE chunk[a]]
  BY DEF pop_spare, xchg, wlocal
<1>3. Freed \in [live : BOOLEAN, prev : Pointer, next : Pointer,
                 values : [Pos -> Value \cup {Junk}]] /\ ~Freed.live
  BY DEF Freed, Fresh, Pointer
<1>4. /\ chunk' \in [Chunk -> [live : BOOLEAN, prev : Pointer, next : Pointer,
                               values : [Pos -> Value \cup {Junk}]]]
      /\ \A a \in Chunk : a # spare_chunk => chunk'[a] = chunk[a]
      /\ \A a \in Chunk : a = spare_chunk => ~chunk'[a].live
  BY <1>1, <1>2, <1>3 DEF Typed
<1>5. Linked' = Linked /\ Linked \subseteq Chunk /\ \A a \in Linked : chunk'[a] = chunk[a]
  BY <1>2, <1>4, NullIsNoCell DEF Linked
<1>6. ListOK'
  BY <1>1, <1>5, SameList DEF pop_spare, ListOK
<1>7. HeldOK'
  <2>1. \A x \in {sc, o} : x # Null => x \in Chunk /\ x # spare_chunk /\ chunk[x].live
    BY <1>1 DEF HeldOK, Typed
  <2>2. \A x \in {sc, o} : x # Null => chunk'[x].live
    BY <1>4, <2>1
  <2>3. wpc' = wpc
    BY DEF pop_spare, wlocal
  <2> QED
    BY <1>1, <1>2, <2>2, <2>3 DEF HeldOK
<1>8. Index(back)' = Index(back) /\ Index(<<end_chunk, end_pos>>)' = Index(<<end_chunk, end_pos>>)
  BY DEF Index, back, pop_spare
<1>9. EndsOK'
  BY <1>1, <1>8 DEF EndsOK, pop_spare, wlocal
<1>10. PointersOK'
  BY <1>1, <1>5 DEF PointersOK, Cell, pop_spare
<1>11. Typed'
  <2>1. Address' = Address
    BY DEF Address
  <2> QED
    BY <1>1, <1>2, <1>4, <2>1 DEF Typed, pop_spare, wlocal
<1>12. UNCHANGED P!vars
  BY DEF P!vars, pop_spare, wlocal, ToIndex, Index, front
<1> QED
  BY <1>1, <1>5, <1>6, <1>7, <1>9, <1>10, <1>11, <1>12 DEF Memory, pop_spare

\* The destructor leaves the pointers as they are.
LEMMA DestroyStep ==
    ASSUME IInv, destroy
    PROVE  Memory' /\ UNCHANGED P!vars
<1>1. Typed
  BY DEF IInv, Memory
<1>2. Freed \in [live : BOOLEAN, prev : Pointer, next : Pointer,
                 values : [Pos -> Value \cup {Junk}]]
  BY DEF Freed, Fresh, Pointer
<1>3. chunk' \in [Chunk -> [live : BOOLEAN, prev : Pointer, next : Pointer,
                            values : [Pos -> Value \cup {Junk}]]]
  BY <1>1, <1>2 DEF destroy, Typed
<1>4. Typed'
  <2>1. Address' = Address
    BY DEF Address
  <2> QED
    BY <1>1, <1>3, <2>1 DEF Typed, destroy, wlocal, rlocal
<1>5. UNCHANGED P!vars
  BY DEF P!vars, destroy, wlocal, ToIndex, Index, front
<1> QED
  BY <1>4, <1>5 DEF Memory, destroy, wlocal, rlocal

\* A new queue is a new pipe.
LEMMA InitMemory == Init => IInv /\ P!Init
<1> SUFFICES ASSUME Init PROVE IInv /\ P!Init
  OBVIOUS
<1>1. PICK a \in Chunk :
        /\ chunk = [b \in Chunk |-> IF b = a THEN Fresh ELSE Freed]
        /\ begin_chunk = a /\ back_chunk = a /\ end_chunk = a
        /\ r = <<a, 0>> /\ w = <<a, 0>> /\ f = <<a, 0>> /\ c = <<a, 0>>
  BY DEF Init
<1>2. N \in Nat /\ N > 1 /\ 0 \in Pos /\ 1 \in Pos
  BY NAssumption DEF Pos
<1>3. /\ Fresh \in [live : BOOLEAN, prev : Pointer, next : Pointer, values : [Pos -> Value \cup {Junk}]]
      /\ Freed \in [live : BOOLEAN, prev : Pointer, next : Pointer, values : [Pos -> Value \cup {Junk}]]
      /\ Fresh.live /\ ~Freed.live
  BY DEF Freed, Fresh, Pointer
<1>4. /\ chunk \in [Chunk -> [live : BOOLEAN, prev : Pointer, next : Pointer,
                              values : [Pos -> Value \cup {Junk}]]]
      /\ \A b \in Chunk : chunk[b].live <=> b = a
  BY <1>1, <1>3
<1>5. /\ spare_chunk = Null /\ sc = Null /\ o = Null /\ wpc = "idle" /\ rpc = "idle"
      /\ begin_pos = 0 /\ back_pos = 0 /\ end_pos = 1 /\ reader = "awake" /\ wakes = 0
      /\ alive = TRUE /\ written = <<>> /\ base = [b \in Chunk |-> 0]
  BY DEF Init
<1>6. Linked = {a}
  BY <1>4, <1>5, NullIsNoCell DEF Linked
<1>7. <<a, 0>> \in Cell /\ <<a, 0>> \in Address /\ <<a, 0>> # Null
  BY <1>2, <1>6, NullIsNoCell DEF Cell, Address
<1>8. written \in Seq(Value) /\ Len(written) = 0
  BY <1>5, EmptySeq
<1>9. base[a] = 0 /\ 0 * N = 0
  BY <1>2, <1>5
<1>10. Index(<<a, 0>>) = 1 /\ Index(<<a, 1>>) = 2 /\ Index(back) = 1 /\ Index(front) = 1
  <2>1. Index(<<a, 0>>) = 0 * N + 0 + 1 /\ Index(<<a, 1>>) = 0 * N + 1 + 1
    BY <1>9 DEF Index
  <2>2. front = <<a, 0>> /\ back = <<a, 0>>
    BY <1>1, <1>5 DEF front, back
  <2> QED
    BY <1>9, <2>1, <2>2
<1>11. Typed
  BY <1>1, <1>2, <1>4, <1>5, <1>7, <1>8 DEF Typed
<1>12. ListOK /\ HeldOK /\ PointersOK
  BY <1>1, <1>5, <1>6, <1>7, <1>9 DEF ListOK, HeldOK, PointersOK
<1>13. EndsOK
  BY <1>1, <1>2, <1>5, <1>8, <1>10 DEF EndsOK
<1>14. ToIndex(r) = 1 /\ ToIndex(w) = 1 /\ ToIndex(f) = 1 /\ ToIndex(c) = 1
  BY <1>1, <1>7, <1>10 DEF ToIndex
<1>15. P!Init
  BY <1>5, <1>10, <1>14 DEF P!Init
<1>16. P!IInv
  BY <1>15, P!InitInv, MaxItemsAssumption
<1> QED
  BY <1>5, <1>11, <1>12, <1>13, <1>15, <1>16 DEF IInv, Memory

\* Every step keeps the picture, and is a step of the pipe over indices or
\* invisible to it.
LEMMA StepRefines == IInv /\ [Next]_vars => Memory' /\ [P!Next]_(P!vars)
<1> SUFFICES ASSUME IInv, [Next]_vars PROVE Memory' /\ [P!Next]_(P!vars)
  OBVIOUS
<1>1. ASSUME NEW v \in Value, NEW incomplete \in BOOLEAN,
             write(v, incomplete) \/ write_xchg(v, incomplete)
      PROVE  Memory' /\ [P!Next]_(P!vars)
  BY <1>1, WriteStep, WriteXchgStep
<1>2. CASE write_link
  BY <1>2, WriteLinkStep
<1>3. CASE unwrite
  BY <1>3, UnwriteStep
<1>4. CASE flush_cas
  BY <1>4, FlushCasStep
<1>5. CASE flush_cas_fails
  BY <1>5, FlushFailsStep
<1>6. CASE flush_set
  BY <1>6, FlushSetStep
<1>7. CASE check_read
  BY <1>7, CheckReadStep
<1>8. CASE read
  BY <1>8, ReadStep
<1>9. CASE read_advance
  BY <1>9, ReadAdvanceStep
<1>10. CASE pop_spare
  BY <1>10, PopSpareStep
<1>11. CASE wake
  BY <1>11, WakeStep
<1>12. CASE destroy
  BY <1>12, DestroyStep
<1>13. CASE UNCHANGED vars
  <2>1. UNCHANGED P!vars
    BY <1>13 DEF vars, qvars, wlocal, rlocal, P!vars, ToIndex, Index, front
  <2>2. Memory'
    <3>1. Linked' = Linked /\ Cell' = Cell /\ Address' = Address
      BY <1>13 DEF vars, qvars, wlocal, rlocal, Linked, Cell, Address
    <3>2. Index(back)' = Index(back) /\ Index(<<end_chunk, end_pos>>)' = Index(<<end_chunk, end_pos>>)
      BY <1>13 DEF vars, qvars, Index, back
    <3>3. ListOK' = ListOK /\ HeldOK' = HeldOK /\ PointersOK' = PointersOK
      BY <1>13, <3>1 DEF vars, qvars, wlocal, rlocal, ListOK, HeldOK, PointersOK
    <3>4. EndsOK' = EndsOK
      BY <1>13, <3>2 DEF vars, qvars, wlocal, rlocal, EndsOK
    <3>5. Typed' = Typed
      BY <1>13, <3>1 DEF vars, qvars, wlocal, rlocal, Typed
    <3> QED
      <4>1. Memory /\ alive' = alive /\ wpc' = wpc /\ rpc' = rpc
        BY <1>13 DEF vars, wlocal, rlocal, IInv
      <4> HIDE DEF IInv
      <4>2. Typed'
        BY <3>5, <4>1 DEF Memory
      <4>3. alive' => ListOK' /\ HeldOK' /\ EndsOK' /\ PointersOK'
        BY <3>3, <3>4, <4>1 DEF Memory
      <4>4. ~alive' => wpc' = "idle" /\ rpc' = "idle"
        BY <4>1 DEF Memory
      <4> QED
        BY <4>2, <4>3, <4>4 DEF Memory
  <2> QED
    BY <2>1, <2>2
<1> QED
  BY <1>1, <1>2, <1>3, <1>4, <1>5, <1>6, <1>7, <1>8, <1>9, <1>10, <1>11, <1>12, <1>13 DEF Next

\* Both halves of the invariant are kept: the order of the pointers by the proof
\* about the pipe over indices.
LEMMA StepInv == IInv /\ [Next]_vars => IInv'
<1> SUFFICES ASSUME IInv, [Next]_vars PROVE IInv'
  OBVIOUS
<1>1. Memory' /\ [P!Next]_(P!vars)
  BY StepRefines
<1>2. P!IInv'
  BY <1>1, P!StepInv, MaxItemsAssumption DEF IInv
<1> QED
  BY <1>1, <1>2 DEF IInv

\* The picture holds in every state of the chunked queue.
THEOREM QueueInvariance == Spec => []IInv
<1>1. Init => IInv
  BY InitMemory
<1>2. IInv /\ [Next]_vars => IInv'
  BY StepInv
<1> QED
  BY <1>1, <1>2, PTL DEF Spec

\* The steps of YPipe are those its proofs are about.
LEMMA SameSteps == (P!Init => Indices!Init) /\ ([P!Next]_(P!vars) => [Indices!Next]_(Indices!vars))
<1>1. P!Init => Indices!Init
  BY DEF P!Init, Indices!Init
<1>2. P!vars = Indices!vars /\ P!vars' = Indices!vars'
  BY DEF P!vars, Indices!vars
<1>3. ASSUME NEW v \in Value, NEW incomplete \in BOOLEAN, P!write(v, incomplete)
      PROVE  Indices!write(v, incomplete)
  BY <1>3 DEF P!write, Indices!write, P!back, Indices!back
<1>4. P!unwrite => Indices!unwrite
  BY DEF P!unwrite, Indices!unwrite, P!back, Indices!back
<1>5. P!flush_cas => Indices!flush_cas
  BY DEF P!flush_cas, Indices!flush_cas
<1>6. P!flush_cas_fails => Indices!flush_cas_fails
  BY DEF P!flush_cas_fails, Indices!flush_cas_fails
<1>7. P!flush_set => Indices!flush_set
  BY DEF P!flush_set, Indices!flush_set
<1>8. P!check_read => Indices!check_read
  BY DEF P!check_read, Indices!check_read, P!Prefetched, Indices!Prefetched, P!NULL, Indices!NULL
<1>9. P!read => Indices!read
  BY DEF P!read, Indices!read, P!Prefetched, Indices!Prefetched, P!NULL, Indices!NULL
<1>10. P!wake => Indices!wake
  BY DEF P!wake, Indices!wake
<1>11. P!Next => Indices!Next
  BY <1>3, <1>4, <1>5, <1>6, <1>7, <1>8, <1>9, <1>10
     DEF P!Next, P!Writer, P!Reader, Indices!Next, Indices!Writer, Indices!Reader
<1> QED
  BY <1>1, <1>2, <1>11

\* The pipe over chunks implements the pipe over an unbounded array: comparing
\* addresses is as good as comparing indices, in spite of address reuse.
THEOREM QueueRefinesYPipe == Spec => ImplementsYPipe
<1>1. Init => Indices!Init
  BY InitMemory, SameSteps
<1>2. IInv /\ [Next]_vars => [Indices!Next]_(Indices!vars)
  BY StepRefines, SameSteps
<1> QED
  BY <1>1, <1>2, QueueInvariance, PTL DEF Spec, ImplementsYPipe, Indices!Spec
-----------------------------------------------------------------------------
(* The walk *)

\* Induction, for a set of numbers.
LEMMA SetInduction ==
    ASSUME NEW T, 0 \in T, \A n \in Nat : n \in T => n + 1 \in T
    PROVE  Nat \subseteq T
<1> SUFFICES ASSUME Nat \ T # {} PROVE FALSE
  OBVIOUS
<1> DEFINE R == OpToRel(<, Nat)
           U == Nat \ T
<1>1. U \subseteq Nat /\ U # {}
  OBVIOUS
<1>2. IsWellFoundedOn(R, Nat)
  BY NatLessThanWellFounded
<1> HIDE DEF R, U
<1>3. PICK m \in U : \A k \in U : ~(<<k, m>> \in R)
  BY <1>1, <1>2, WFMin
<1>4. m \in Nat /\ m \notin T
  BY DEF U
<1>5. m # 0
  BY <1>4
<1>6. m - 1 \in Nat /\ (m - 1) + 1 = m
  BY <1>4, <1>5
<1>7. m - 1 \notin T
  BY <1>4, <1>6
<1>8. m - 1 \in U
  BY <1>6, <1>7 DEF U
<1>9. <<m - 1, m>> \in R
  BY <1>4, <1>6 DEF R, OpToRel
<1> QED
  BY <1>3, <1>8, <1>9

\* How far Walk goes.
Steps == 0..Cardinality(Chunk)
\* The ordinals of the first and the last chunk of the list.
Lo == base[begin_chunk]
Hi == base[end_chunk]

\* The ordinal of the chunk a walk meets n steps from begin_chunk.
Row(n) == IF Lo + n <= Hi THEN Lo + n ELSE Hi

\* The ordinals of the list lie between those of its ends.
LEMMA Ordinals ==
    ASSUME Typed, ListOK
    PROVE  /\ Linked \subseteq Chunk /\ Lo \in Nat /\ Hi \in Nat /\ Lo <= Hi
           /\ begin_chunk \in Linked /\ end_chunk \in Linked
           /\ \A a \in Linked : base[a] \in Lo..Hi
           /\ Cardinality(Chunk) \in Nat
           /\ \A n \in Nat : Row(n) \in Lo..Hi
<1>1. /\ Linked \subseteq Chunk /\ Lo \in Nat /\ Hi \in Nat
      /\ begin_chunk \in Linked /\ end_chunk \in Linked
  BY DEF Typed, ListOK, Linked, Lo, Hi
<1>2. \A a \in Linked : base[a] \in Nat /\ Lo <= base[a] /\ base[a] <= Hi
  BY <1>1 DEF ListOK, Lo, Hi, Typed
<1>3. Cardinality(Chunk) \in Nat
  BY ChunkAssumption, FS_CardinalityType
<1>4. Lo <= Hi
  BY <1>1, <1>2
<1>5. \A n \in Nat : Row(n) \in Lo..Hi
  BY <1>1, <1>4 DEF Row
<1> QED
  BY <1>1, <1>2, <1>3, <1>4, <1>5

\* Every ordinal from the first chunk's to the last one's is some chunk's.
LEMMA NoGap ==
    ASSUME Typed, ListOK
    PROVE  \A n \in Nat : \E a \in Linked : base[a] = Row(n)
<1> DEFINE T == {n \in Nat : \E a \in Linked : base[a] = Row(n)}
<1>0. /\ Linked \subseteq Chunk /\ Lo \in Nat /\ Hi \in Nat /\ Lo <= Hi
      /\ begin_chunk \in Linked /\ end_chunk \in Linked
  BY Ordinals
<1>1. 0 \in T
  BY <1>0 DEF Row, Lo
<1>2. ASSUME NEW n \in Nat, n \in T PROVE n + 1 \in T
  <2>1. PICK a \in Linked : base[a] = Row(n)
    BY <1>2
  <2>2. CASE a = end_chunk
    <3>1. Row(n + 1) = Hi
      BY <1>0, <2>1, <2>2 DEF Row, Hi
    <3> QED
      BY <1>0, <3>1 DEF Hi
  <2>3. CASE a # end_chunk
    <3>1. chunk[a].next \in Linked /\ base[chunk[a].next] = base[a] + 1
      BY <2>3 DEF ListOK
    <3>2. base[a] # Hi
      BY <1>0, <2>3 DEF ListOK, Hi
    <3>3. Row(n + 1) = base[a] + 1
      BY <1>0, <2>1, <3>2 DEF Row
    <3> QED
      BY <3>1, <3>3
  <2> QED
    BY <2>2, <2>3
<1> HIDE DEF T
<1>3. Nat \subseteq T
  BY <1>1, <1>2, SetInduction
<1> QED
  BY <1>3 DEF T

\* A chunk list is no longer than there are chunks.
LEMMA ListLength == ASSUME Typed, ListOK PROVE Hi - Lo + 1 <= Cardinality(Chunk)
<1>0. /\ Linked \subseteq Chunk /\ Lo \in Nat /\ Hi \in Nat /\ Lo <= Hi
      /\ \A a \in Linked : base[a] \in Lo..Hi
  BY Ordinals
<1> DEFINE g == [a \in Linked |-> base[a]]
<1>1. ASSUME NEW k \in Lo..Hi PROVE \E a \in Linked : g[a] = k
  <2>1. k - Lo \in Nat /\ Row(k - Lo) = k
    BY <1>0 DEF Row
  <2> QED
    BY <2>1, NoGap
<1>2. g \in Surjection(Linked, Lo..Hi)
  BY <1>0, <1>1 DEF Surjection
<1>3. IsFiniteSet(Linked) /\ Cardinality(Linked) <= Cardinality(Chunk) /\ Cardinality(Linked) \in Nat
  BY <1>0, ChunkAssumption, FS_Subset, FS_CardinalityType
<1> HIDE DEF g
<1>4. Cardinality(Lo..Hi) <= Cardinality(Linked)
  BY <1>2, <1>3, FS_Surjection
<1>5. Cardinality(Lo..Hi) = Hi - Lo + 1
  <2>1. Cardinality(Lo..Hi) = IF Lo > Hi THEN 0 ELSE Hi - Lo + 1
    BY <1>0, FS_Interval
  <2> QED
    BY <1>0, <2>1
<1> QED
  BY <1>0, <1>3, <1>4, <1>5, Ordinals

\* The equation of Walk.
IsWalk(at) ==
    at = [n \in Steps |->
            IF n = 0 THEN begin_chunk
            ELSE IF at[n - 1] \in Chunk /\ at[n - 1] # end_chunk
                 THEN chunk[at[n - 1]].next ELSE at[n - 1]]

\* Walk is what a solution of that equation visits.
LEMMA WalkDefinition == Walk = {(CHOOSE at : IsWalk(at))[n] : n \in Steps}
BY DEF Walk, IsWalk, Steps

\* The equation has a solution.
LEMMA SomeWalk == ASSUME Typed, ListOK PROVE \E at : IsWalk(at)
<1> DEFINE h == [n \in Steps |-> CHOOSE a \in Linked : base[a] = Row(n)]
<1>0. /\ Linked \subseteq Chunk /\ Lo \in Nat /\ Hi \in Nat /\ Lo <= Hi
      /\ begin_chunk \in Linked /\ end_chunk \in Linked
      /\ Cardinality(Chunk) \in Nat
  BY Ordinals
<1>1. \A n \in Steps : n \in Nat
  BY <1>0 DEF Steps
<1>2. \A n \in Steps : h[n] \in Linked /\ base[h[n]] = Row(n)
  <2>1. ASSUME NEW n \in Steps PROVE h[n] \in Linked /\ base[h[n]] = Row(n)
    <3>1. \E a \in Linked : base[a] = Row(n)
      BY <1>1, NoGap
    <3> QED
      BY <3>1
  <2> QED
    BY <2>1
<1>3. h = [n \in Steps |-> h[n]]
  OBVIOUS
<1> HIDE DEF h
<1>4. ASSUME NEW n \in Steps
      PROVE  h[n] = IF n = 0 THEN begin_chunk
                    ELSE IF h[n - 1] \in Chunk /\ h[n - 1] # end_chunk
                         THEN chunk[h[n - 1]].next ELSE h[n - 1]
  <2>1. h[n] \in Linked /\ base[h[n]] = Row(n) /\ n \in Nat
    BY <1>1, <1>2
  <2>2. CASE n = 0
    <3>1. base[h[n]] = base[begin_chunk]
      BY <1>0, <2>1, <2>2 DEF Row, Lo
    <3> QED
      BY <1>0, <2>1, <2>2, <3>1 DEF ListOK
  <2>3. CASE n # 0
    <3>1. n - 1 \in Steps /\ n - 1 \in Nat
      BY <1>0, <2>1, <2>3 DEF Steps
    <3>2. h[n - 1] \in Linked /\ h[n - 1] \in Chunk /\ base[h[n - 1]] = Row(n - 1)
      BY <1>0, <1>2, <3>1
    <3>3. CASE h[n - 1] = end_chunk
      <4>1. Row(n - 1) = Hi
        BY <3>2, <3>3 DEF Hi
      <4>2. Row(n) = Hi
        BY <1>0, <2>1, <3>1, <4>1 DEF Row
      <4>3. h[n] = end_chunk
        BY <1>0, <2>1, <4>2 DEF ListOK, Hi
      <4> QED
        BY <2>3, <3>3, <4>3
    <3>4. CASE h[n - 1] # end_chunk
      <4> DEFINE b == h[n - 1]
      <4>0. b \in Linked /\ b \in Chunk /\ b # end_chunk /\ base[b] = Row(n - 1)
        BY <3>2, <3>4
      <4> HIDE DEF b
      <4>1. chunk[b].next \in Linked /\ base[chunk[b].next] = base[b] + 1
        BY <4>0 DEF ListOK
      <4>2. base[b] # Hi
        BY <1>0, <4>0 DEF ListOK, Hi
      <4>3. Row(n) = base[b] + 1
        BY <1>0, <2>1, <3>1, <4>0, <4>2 DEF Row
      <4>4. h[n] = chunk[b].next
        BY <2>1, <4>1, <4>3 DEF ListOK
      <4> QED
        BY <2>3, <4>0, <4>4 DEF b
    <3> QED
      BY <3>3, <3>4
  <2> QED
    BY <2>2, <2>3
<1>5. IsWalk(h)
  <2> DEFINE k == [n \in Steps |-> IF n = 0 THEN begin_chunk
                    ELSE IF h[n - 1] \in Chunk /\ h[n - 1] # end_chunk
                         THEN chunk[h[n - 1]].next ELSE h[n - 1]]
  <2>1. \A n \in Steps : h[n] = k[n]
    BY <1>4
  <2>2. k = [n \in Steps |-> k[n]]
    OBVIOUS
  <2> HIDE DEF k
  <2>3. h = k
    BY <1>3, <2>1, <2>2
  <2> QED
    BY <2>3 DEF IsWalk, k
<1> QED
  BY <1>5

\* Whatever solves it visits the chunks of the list in order.
LEMMA WalkRows ==
    ASSUME Typed, ListOK, NEW at, IsWalk(at)
    PROVE  \A n \in Steps : at[n] \in Linked /\ base[at[n]] = Row(n)
<1> DEFINE T == {n \in Nat : n \in Steps => at[n] \in Linked /\ base[at[n]] = Row(n)}
<1>0. /\ Linked \subseteq Chunk /\ Lo \in Nat /\ Hi \in Nat /\ Lo <= Hi
      /\ begin_chunk \in Linked /\ end_chunk \in Linked
      /\ Cardinality(Chunk) \in Nat
  BY Ordinals
<1>1. \A n \in Steps : at[n] = IF n = 0 THEN begin_chunk
                    ELSE IF at[n - 1] \in Chunk /\ at[n - 1] # end_chunk
                         THEN chunk[at[n - 1]].next ELSE at[n - 1]
  BY DEF IsWalk
<1>2. 0 \in T
  BY <1>0, <1>1 DEF Row, Lo
<1>3. ASSUME NEW n \in Nat, n \in T PROVE n + 1 \in T
  <2> SUFFICES ASSUME n + 1 \in Steps
               PROVE  at[n + 1] \in Linked /\ base[at[n + 1]] = Row(n + 1)
    OBVIOUS
  <2>1. n \in Steps /\ n + 1 # 0 /\ (n + 1) - 1 = n
    BY <1>0 DEF Steps
  <2>2. at[n] \in Linked /\ base[at[n]] = Row(n) /\ at[n] \in Chunk
    BY <1>0, <1>3, <2>1
  <2>3. at[n + 1] = IF at[n] # end_chunk THEN chunk[at[n]].next ELSE at[n]
    BY <1>1, <2>1, <2>2
  <2>4. CASE at[n] = end_chunk
    <3>1. Row(n) = Hi
      BY <2>2, <2>4 DEF Hi
    <3>2. Row(n + 1) = Hi
      BY <1>0, <3>1 DEF Row
    <3> QED
      BY <1>0, <2>3, <2>4, <3>2 DEF Hi
  <2>5. CASE at[n] # end_chunk
    <3> DEFINE b == at[n]
    <3>0. b \in Linked /\ b # end_chunk /\ base[b] = Row(n) /\ at[n + 1] = chunk[b].next
      BY <2>2, <2>3, <2>5
    <3> HIDE DEF b
    <3>1. chunk[b].next \in Linked /\ base[chunk[b].next] = base[b] + 1
      BY <3>0 DEF ListOK
    <3>2. base[b] # Hi
      BY <1>0, <3>0 DEF ListOK, Hi
    <3>3. Row(n + 1) = base[b] + 1
      BY <1>0, <3>0, <3>2 DEF Row
    <3> QED
      BY <3>0, <3>1, <3>3
  <2> QED
    BY <2>4, <2>5
<1> HIDE DEF T
<1>4. Nat \subseteq T
  BY <1>2, <1>3, SetInduction
<1>5. \A n \in Steps : n \in Nat
  BY <1>0 DEF Steps
<1> QED
  BY <1>4, <1>5 DEF T

\* Following next from begin_chunk meets exactly the chunks of the list.
LEMMA WalkIsLinked == ASSUME Typed, ListOK PROVE Walk = Linked
<1> DEFINE at == CHOOSE h : IsWalk(h)
<1>1. IsWalk(at)
  BY SomeWalk
<1>2. Walk = {at[n] : n \in Steps}
  BY WalkDefinition
<1> HIDE DEF at
<1>3. \A n \in Steps : at[n] \in Linked /\ base[at[n]] = Row(n)
  BY <1>1, WalkRows
<1>4. ASSUME NEW a \in Linked PROVE a \in Walk
  <2>1. /\ base[a] \in Lo..Hi /\ Lo \in Nat /\ Hi \in Nat /\ Cardinality(Chunk) \in Nat
        /\ Hi - Lo + 1 <= Cardinality(Chunk)
    BY Ordinals, ListLength
  <2>2. base[a] - Lo \in Steps /\ Row(base[a] - Lo) = base[a]
    BY <2>1 DEF Steps, Row
  <2>3. at[base[a] - Lo] = a
    BY <1>3, <2>2 DEF ListOK
  <2> QED
    BY <1>2, <2>2, <2>3
<1> QED
  BY <1>2, <1>3, <1>4
-----------------------------------------------------------------------------
(* What the cells hold *)

\* The items between the reader and the end of the queue are in their cells, the
\* one whose push () waits for a chunk too.
Contents == alive =>
    /\ \A p \in Cell : Index(front) <= Index(p) /\ Index(p) <= Len(written)
                         => chunk[p[1]].values[p[2]] = written[Index(p)]
    /\ wpc = "link" => \A p \in Cell : Index(p) = Len(written) + 1
                         => chunk[p[1]].values[p[2]] = pending[1]

\* The destructor frees everything.
Emptied == ~alive => Live = {}

\* The picture, what the cells hold, and what the destructor leaves.
FullInv == IInv /\ Contents /\ Emptied

\* Steps that write no cell keep what the cells hold.
LEMMA SameContents ==
    ASSUME Contents, IInv, alive, Memory', Cell' \subseteq Cell, base' = base, written' = written,
           pending' = pending, wpc' = "link" => wpc = "link", alive',
           Index(front) <= Index(front)', Index(front)' \in Nat,
           \A a \in Linked' : chunk'[a].values = chunk[a].values
    PROVE  Contents'
<1>1. Typed /\ ListOK
  BY DEF IInv, Memory
<1>2. Index(front) \in Nat /\ \A p \in Cell : Index(p) \in Nat
  BY <1>1, InRange, IndexType
<1>3. ASSUME NEW p \in Cell'
      PROVE  p \in Cell /\ base'[p[1]] * N + p[2] + 1 = Index(p) /\ chunk'[p[1]].values = chunk[p[1]].values
  <2>1. p[1] \in Linked' /\ p \in Cell
    BY <1>3 DEF Cell
  <2> QED
    BY <2>1 DEF Index
<1>4. ASSUME NEW p \in Cell', Index(front)' <= Index(p), Index(p) <= Len(written)
      PROVE  chunk'[p[1]].values[p[2]] = written[Index(p)]
  BY <1>2, <1>3, <1>4 DEF Contents
<1>5. ASSUME wpc' = "link", NEW p \in Cell', Index(p) = Len(written) + 1
      PROVE  chunk'[p[1]].values[p[2]] = pending[1]
  BY <1>3, <1>5 DEF Contents
<1>6. \A p : base'[p[1]] * N + p[2] + 1 = Index(p)
  BY DEF Index
<1> QED
  BY <1>4, <1>5, <1>6 DEF Contents, Index

\* Store (v) changes the back cell and no other.
LEMMA StoredWhere ==
    ASSUME Typed, ListOK, NEW v \in Value, Store(v), NEW p \in Cell, back \in Cell
    PROVE  chunk'[p[1]].values[p[2]] =
             IF Index(p) = Index(back) THEN v ELSE chunk[p[1]].values[p[2]]
<1>1. p[1] \in Chunk /\ p[2] \in Pos /\ back_chunk \in Chunk /\ back_pos \in Pos /\ p = <<p[1], p[2]>>
  BY DEF Cell, Linked, Typed
<1>2. chunk' = [chunk EXCEPT ![back_chunk].values[back_pos] = v]
  BY DEF Store
<1>3. chunk'[p[1]].values[p[2]] =
        IF p[1] = back_chunk /\ p[2] = back_pos THEN v ELSE chunk[p[1]].values[p[2]]
  BY <1>1, <1>2 DEF Typed
<1>4. p = back <=> p[1] = back_chunk /\ p[2] = back_pos
  BY <1>1 DEF back
<1>5. p = back <=> Index(p) = Index(back)
  BY SameAddress
<1> QED
  BY <1>3, <1>4, <1>5

\* write () inside a chunk puts its item where its index says.
LEMMA WriteContents ==
    ASSUME IInv, Contents, NEW v \in Value, NEW incomplete \in BOOLEAN, write(v, incomplete)
    PROVE  Contents'
<1>1. Typed /\ ListOK /\ EndsOK /\ alive /\ Linked' = Linked /\ Store(v)
  BY WriteStep DEF IInv, Memory, write
<1>2. back \in Cell /\ front \in Cell /\ Index(back) = Len(written) + 1 /\ Len(written) \in Nat
  BY <1>1, InRange, LenProperties DEF EndsOK, write, Typed
<1>3. /\ wpc' = "idle" /\ base' = base /\ front' = front
      /\ written' = Append(written, v)
  BY DEF write, wlocal, front
<1>4. /\ Len(written') = Len(written) + 1 /\ written'[Len(written) + 1] = v
      /\ \A i \in 1..Len(written) : written'[i] = written[i]
  BY <1>1, <1>3, AppendProperties DEF Typed
<1>5. Cell' = Cell /\ Index(front)' = Index(front)
  BY <1>1, <1>3 DEF Cell, Index
<1>6. ASSUME NEW p \in Cell, Index(front) <= Index(p), Index(p) <= Len(written) + 1
      PROVE  chunk'[p[1]].values[p[2]] = written'[Index(p)]
  <2>1. chunk'[p[1]].values[p[2]] =
          IF Index(p) = Index(back) THEN v ELSE chunk[p[1]].values[p[2]]
    BY <1>1, <1>2, StoredWhere
  <2>2. Index(p) \in Nat /\ Index(p) >= 1
    BY <1>1, IndexType
  <2>3. CASE Index(p) = Len(written) + 1
    BY <1>2, <1>4, <2>1, <2>3
  <2>4. CASE Index(p) # Len(written) + 1
    <3>1. Index(p) <= Len(written) /\ Index(p) \in 1..Len(written)
      BY <1>2, <1>6, <2>2, <2>4
    <3>2. chunk[p[1]].values[p[2]] = written[Index(p)]
      BY <1>1, <1>6, <3>1 DEF Contents
    <3> QED
      BY <1>2, <1>4, <2>1, <2>4, <3>1, <3>2
  <2> QED
    BY <2>3, <2>4
<1>7. \A p : base'[p[1]] * N + p[2] + 1 = Index(p)
  BY <1>3 DEF Index
<1> QED
  BY <1>3, <1>4, <1>5, <1>6, <1>7 DEF Contents, Index

\* So does one that fills a chunk, before its item counts as written.
LEMMA WriteXchgContents ==
    ASSUME IInv, Contents, NEW v \in Value, NEW incomplete \in BOOLEAN, write_xchg(v, incomplete)
    PROVE  Contents'
<1>1. Typed /\ ListOK /\ EndsOK /\ alive /\ Linked' = Linked /\ Store(v)
  BY WriteXchgStep DEF IInv, Memory, write_xchg
<1>2. back \in Cell /\ front \in Cell /\ Index(back) = Len(written) + 1 /\ Len(written) \in Nat
  BY <1>1, InRange, LenProperties DEF EndsOK, write_xchg, Typed
<1>3. base' = base /\ front' = front /\ written' = written /\ pending'[1] = v
  BY DEF write_xchg, front
<1>4. Cell' = Cell /\ Index(front)' = Index(front)
  BY <1>1, <1>3 DEF Cell, Index
<1>5. ASSUME NEW p \in Cell
      PROVE  chunk'[p[1]].values[p[2]] =
               IF Index(p) = Len(written) + 1 THEN v ELSE chunk[p[1]].values[p[2]]
  BY <1>1, <1>2, StoredWhere
<1>6. ASSUME NEW p \in Cell, Index(front) <= Index(p), Index(p) <= Len(written)
      PROVE  chunk'[p[1]].values[p[2]] = written[Index(p)]
  <2>1. Index(p) # Len(written) + 1
    BY <1>1, <1>2, <1>6, IndexType
  <2>2. chunk[p[1]].values[p[2]] = written[Index(p)]
    BY <1>1, <1>6 DEF Contents
  <2> QED
    BY <1>5, <2>1, <2>2
<1>7. \A p : base'[p[1]] * N + p[2] + 1 = Index(p)
  BY <1>3 DEF Index
<1> QED
  BY <1>3, <1>4, <1>5, <1>6, <1>7 DEF Contents, Index

\* The chunk it links holds no item yet.
LEMMA WriteLinkContents ==
    ASSUME IInv, Contents, write_link
    PROVE  Contents'
<1>1. /\ Typed /\ ListOK /\ EndsOK /\ alive
      /\ end_chunk' \in Chunk \ Linked /\ Linked' = Linked \cup {end_chunk'}
      /\ base'[end_chunk'] = base[end_chunk] + 1
      /\ \A b \in Linked : base'[b] = base[b] /\ chunk'[b].values = chunk[b].values
  BY WriteLinkStep DEF IInv, Memory, write_link
<1>2. /\ back \in Cell /\ front \in Cell /\ Index(back) = Len(written) + 2 /\ Len(written) \in Nat
      /\ back = <<end_chunk, N - 1>> /\ pending[1] \in Value
  BY <1>1, InRange, LenProperties DEF EndsOK, write_link, Typed, back
<1>3. /\ wpc' = "idle" /\ front' = front /\ wpc = "link"
      /\ written' = Append(written, pending[1])
  BY DEF write_link, front
<1>4. /\ Len(written') = Len(written) + 1 /\ written'[Len(written) + 1] = pending[1]
      /\ \A i \in 1..Len(written) : written'[i] = written[i]
  BY <1>1, <1>2, <1>3, AppendProperties DEF Typed
<1>5. ASSUME NEW p \in Cell
      PROVE  base'[p[1]] * N + p[2] + 1 = Index(p) /\ chunk'[p[1]].values = chunk[p[1]].values
  <2>1. p[1] \in Linked
    BY DEF Cell
  <2> QED
    BY <1>1, <2>1 DEF Index
<1>6. Index(front)' = Index(front)
  BY <1>2, <1>3, <1>5 DEF Index
<1>7. ASSUME NEW p \in Cell', p \notin Cell
      PROVE  base'[p[1]] * N + p[2] + 1 > Len(written) + 1
  <2>1. p[1] = end_chunk' /\ p[2] \in Pos
    BY <1>1, <1>7 DEF Cell
  <2>2. base[end_chunk] \in Nat /\ N \in Nat /\ N > 1 /\ p[2] \in Nat
    BY <1>1, <2>1, NAssumption DEF Typed, Pos
  <2>3. (base[end_chunk] + 1) * N = base[end_chunk] * N + N /\ base[end_chunk] * N \in Nat
    BY <2>2, NextRow
  <2>4. Index(back) = base[end_chunk] * N + (N - 1) + 1
    BY <1>2 DEF Index
  <2>5. base'[p[1]] * N + p[2] + 1 = base[end_chunk] * N + N + p[2] + 1
    BY <1>1, <2>1, <2>3
  <2> DEFINE m == base[end_chunk] * N
  <2>6. m \in Nat /\ base'[p[1]] * N + p[2] + 1 = m + N + p[2] + 1 /\ m + (N - 1) + 1 = Len(written) + 2
    BY <1>2, <2>3, <2>4, <2>5
  <2> HIDE DEF m
  <2>7. m + N + p[2] + 1 > Len(written) + 1
    BY <1>2, <2>2, <2>6
  <2> QED
    BY <2>6, <2>7
<1>8. ASSUME NEW p \in Cell', Index(front) <= base'[p[1]] * N + p[2] + 1,
             base'[p[1]] * N + p[2] + 1 <= Len(written) + 1
      PROVE  chunk'[p[1]].values[p[2]] = written'[base'[p[1]] * N + p[2] + 1]
  <2>1. p \in Cell
    <3> SUFFICES ASSUME p \notin Cell PROVE FALSE
      OBVIOUS
    <3> DEFINE i == base'[p[1]] * N + p[2] + 1
    <3>1. i > Len(written) + 1 /\ i <= Len(written) + 1
      BY <1>7, <1>8
    <3>2. i \in Int
      <4>1. p[1] \in Chunk /\ p[2] \in Nat
        BY <1>1, NAssumption DEF Cell, Linked, Pos
      <4>2. base'[p[1]] \in Nat
        BY <4>1, WriteLinkStep DEF Memory, Typed
      <4> QED
        BY <4>1, <4>2, NAssumption
    <3> HIDE DEF i
    <3> QED
      BY <1>2, <3>1, <3>2
  <2>2. /\ base'[p[1]] * N + p[2] + 1 = Index(p) /\ chunk'[p[1]].values = chunk[p[1]].values
        /\ Index(p) \in Nat /\ Index(p) >= 1
    BY <1>1, <1>5, <2>1, IndexType
  <2>3. Index(front) <= Index(p) /\ Index(p) <= Len(written) + 1
    BY <1>8, <2>2
  <2>4. CASE Index(p) = Len(written) + 1
    BY <1>1, <1>3, <1>4, <2>1, <2>2, <2>4 DEF Contents
  <2>5. CASE Index(p) # Len(written) + 1
    <3>1. Index(p) <= Len(written) /\ Index(p) \in 1..Len(written)
      BY <1>2, <2>2, <2>3, <2>5
    <3> QED
      BY <1>1, <1>4, <2>1, <2>2, <2>3, <3>1 DEF Contents
  <2> QED
    BY <2>4, <2>5
<1> QED
  BY <1>3, <1>4, <1>6, <1>8 DEF Contents, Index

\* unwrite () takes the last item back.
LEMMA UnwriteContents ==
    ASSUME IInv, Contents, unwrite
    PROVE  Contents'
<1>1. /\ Typed /\ ListOK /\ EndsOK /\ alive
      /\ Linked' \subseteq Linked /\ Len(written) >= 1
      /\ \A b \in Linked' : chunk'[b].values = chunk[b].values
  BY UnwriteStep DEF IInv, Memory, unwrite
<1>2. /\ base' = base /\ front' = front /\ wpc' = "idle"
      /\ written' = SubSeq(written, 1, Len(written) - 1) /\ Len(written) \in Nat
  BY <1>1, LenProperties DEF unwrite, front, wlocal, Typed
<1>3. /\ Len(written') = Len(written) - 1
      /\ \A i \in 1..(Len(written) - 1) : written'[i] = written[i]
  BY <1>1, <1>2, P!SliceButLast, MaxItemsAssumption DEF Typed
<1>4. Index(front)' = Index(front) /\ \A p : base'[p[1]] * N + p[2] + 1 = Index(p)
  BY <1>2 DEF Index
<1>5. ASSUME NEW p \in Cell', Index(front) <= Index(p), Index(p) <= Len(written) - 1
      PROVE  chunk'[p[1]].values[p[2]] = written'[Index(p)]
  <2>1. p \in Cell /\ p[1] \in Linked'
    BY <1>1 DEF Cell
  <2>2. Index(p) \in 1..(Len(written) - 1) /\ Index(p) <= Len(written)
    BY <1>1, <1>2, <1>5, <2>1, IndexType
  <2>3. chunk[p[1]].values[p[2]] = written[Index(p)]
    BY <1>1, <1>5, <2>1, <2>2 DEF Contents
  <2> QED
    BY <1>1, <1>3, <2>1, <2>2, <2>3
<1> QED
  BY <1>2, <1>3, <1>4, <1>5 DEF Contents, Index

\* ~yqueue_t (), which walks the list and frees the spare, leaves no live chunk.
LEMMA DestroyEmpties == ASSUME IInv, destroy PROVE Live' = {}
<1>1. Typed /\ ListOK /\ HeldOK /\ alive /\ sc = Null /\ o = Null
  BY DEF IInv, Memory, destroy, HeldOK
<1>2. Walk = Linked
  BY <1>1, WalkIsLinked
<1>3. chunk' = [a \in Chunk |-> IF a \in Linked \cup {spare_chunk} THEN Freed ELSE chunk[a]]
  BY <1>2 DEF destroy
<1>4. ~Freed.live
  BY DEF Freed, Fresh
<1>5. ASSUME NEW a \in Chunk PROVE ~chunk'[a].live
  <2>1. CASE a \in Linked \cup {spare_chunk}
    BY <1>3, <1>4, <2>1
  <2>2. CASE a \notin Linked \cup {spare_chunk}
    BY <1>1, <1>3, <2>2, NullIsNoCell DEF Linked
  <2> QED
    BY <2>1, <2>2
<1> QED
  BY <1>5 DEF Live

\* The full invariant holds in a new queue.
LEMMA FullInit == Init => FullInv
<1> SUFFICES ASSUME Init PROVE FullInv
  OBVIOUS
<1>1. IInv /\ written = <<>> /\ alive = TRUE /\ wpc = "idle"
  BY InitMemory DEF Init
<1>2. Typed
  BY <1>1 DEF IInv, Memory
<1>3. Len(written) = 0
  BY <1>1
<1>4. \A p \in Cell : ~(Index(p) <= Len(written))
  BY <1>2, <1>3, IndexType
<1> QED
  BY <1>1, <1>4 DEF FullInv, Contents, Emptied

\* Every step keeps the full invariant.
LEMMA FullStep == FullInv /\ [Next]_vars => FullInv'
<1> SUFFICES ASSUME FullInv, [Next]_vars PROVE FullInv'
  OBVIOUS
<1>0. IInv /\ Contents /\ Emptied /\ IInv'
  BY StepInv DEF FullInv
<1>1. Memory' /\ Typed /\ (alive => ListOK /\ PointersOK)
  BY <1>0 DEF IInv, Memory
<1>2. alive => Index(front) \in Nat /\ Index(front) <= Index(front) + 1 /\ Index(front) <= Index(front)
  BY <1>0, <1>1, InRange, IndexType
<1> SUFFICES Contents' /\ Emptied'
  BY <1>0 DEF FullInv
<1> HIDE DEF FullInv, IInv, Memory, Typed, ListOK
<1>3. ASSUME NEW v \in Value, NEW incomplete \in BOOLEAN,
             write(v, incomplete) \/ write_xchg(v, incomplete)
      PROVE  Contents' /\ Emptied'
  <2>1. alive'
    BY <1>3 DEF write, write_xchg
  <2> QED
    BY <1>0, <1>3, <2>1, WriteContents, WriteXchgContents DEF Emptied
<1>4. CASE write_link
  <2>1. alive'
    BY <1>0, <1>4 DEF write_link, IInv, Memory
  <2> QED
    BY <1>0, <1>4, <2>1, WriteLinkContents DEF Emptied
<1>5. CASE unwrite
  <2>1. alive'
    BY <1>5 DEF unwrite
  <2> QED
    BY <1>0, <1>5, <2>1, UnwriteContents DEF Emptied
<1>6. CASE flush_cas \/ flush_cas_fails \/ flush_set \/ check_read \/ wake
  <2>1. /\ alive /\ alive' /\ base' = base /\ written' = written /\ pending' = pending
        /\ chunk' = chunk /\ front' = front /\ Linked' = Linked
        /\ wpc' = "link" => wpc = "link"
    <3>1. alive
      BY <1>0, <1>6 DEF flush_cas, flush_cas_fails, flush_set, check_read, wake, IInv, Memory
    <3>2. UNCHANGED <<qvars, sc, pending, rlocal, written, base, alive>>
      BY <1>6 DEF flush_cas, flush_cas_fails, flush_set, check_read, wake, wlocal
    <3>3. wpc' = "link" => wpc = "link"
      BY <1>6 DEF flush_cas, flush_cas_fails, flush_set, check_read, wake, wlocal
    <3> QED
      BY <3>1, <3>2, <3>3 DEF qvars, rlocal, front, Linked
  <2>2. Index(front)' = Index(front) /\ Cell' = Cell
    BY <2>1 DEF Index, Cell
  <2>3. Contents'
    BY <1>0, <1>1, <1>2, <2>1, <2>2, SameContents
  <2> QED
    BY <2>1, <2>3 DEF Emptied
<1>7. CASE read \/ read_advance
  <2>1. /\ Linked' \subseteq Linked /\ Index(front)' = Index(front) + 1
        /\ \A b \in Linked' : chunk'[b].values = chunk[b].values
    BY <1>0, <1>7, ReadStep, ReadAdvanceStep DEF read
  <2>2. /\ alive /\ alive' /\ base' = base /\ written' = written /\ pending' = pending
        /\ wpc' = "link" => wpc = "link"
    BY <1>7 DEF read, read_advance, wlocal
  <2>3. Cell' \subseteq Cell
    BY <2>1 DEF Cell
  <2>4. Index(front)' \in Nat /\ Index(front) <= Index(front)'
    BY <1>2, <2>1, <2>2
  <2>5. Contents'
    BY <1>0, <1>1, <2>1, <2>2, <2>3, <2>4, SameContents
  <2> QED
    BY <2>2, <2>5 DEF Emptied
<1>8. CASE pop_spare
  <2>1. Linked' = Linked /\ \A b \in Linked : chunk'[b] = chunk[b]
    BY <1>0, <1>8, PopSpareStep
  <2>2. /\ alive /\ alive' /\ base' = base /\ written' = written /\ pending' = pending
        /\ wpc' = "link" => wpc = "link"
        /\ front' = front
    BY <1>0, <1>8 DEF pop_spare, wlocal, front, IInv, Memory
  <2>3. Cell' \subseteq Cell /\ Index(front)' = Index(front)
    BY <2>1, <2>2 DEF Cell, Index
  <2>4. \A b \in Linked' : chunk'[b].values = chunk[b].values
    BY <2>1
  <2>5. Index(front)' \in Nat /\ Index(front) <= Index(front)'
    BY <1>2, <2>2, <2>3
  <2>6. Contents'
    BY <1>0, <1>1, <2>2, <2>3, <2>4, <2>5, SameContents
  <2> QED
    BY <2>2, <2>6 DEF Emptied
<1>9. CASE destroy
  <2>1. ~alive' /\ Live' = {}
    BY <1>0, <1>9, DestroyEmpties DEF destroy
  <2> QED
    BY <2>1 DEF Contents, Emptied
<1>10. CASE UNCHANGED vars
  <2>1. /\ base' = base /\ written' = written /\ pending' = pending /\ wpc' = wpc
        /\ chunk' = chunk /\ front' = front /\ Linked' = Linked /\ alive' = alive /\ Live' = Live
    BY <1>10 DEF vars, qvars, wlocal, rlocal, front, Linked, Live
  <2>2. Index(front)' = Index(front) /\ Cell' = Cell
    BY <2>1 DEF Index, Cell
  <2>3. CASE alive
    <3>1. Contents'
      BY <1>0, <1>1, <1>2, <2>1, <2>2, <2>3, SameContents
    <3> QED
      BY <2>1, <2>3, <3>1 DEF Emptied
  <2>4. CASE ~alive
    BY <1>0, <2>1, <2>4 DEF Contents, Emptied
  <2> QED
    BY <2>3, <2>4
<1> QED
  BY <1>3, <1>4, <1>5, <1>6, <1>7, <1>8, <1>9, <1>10 DEF Next

\* The full invariant holds in every state of the chunked queue.
THEOREM QueueFullInvariance == Spec => []FullInv
BY FullInit, FullStep, PTL DEF Spec

\* What the full invariant says about memory.
LEMMA SafeFromInv == FullInv => MemorySafe /\ NoLeak
<1> SUFFICES ASSUME FullInv PROVE MemorySafe /\ NoLeak
  OBVIOUS
<1>1. IInv /\ Contents /\ Emptied /\ Typed
  BY DEF FullInv, IInv, Memory
<1>2. CASE ~alive
  BY <1>1, <1>2 DEF MemorySafe, NoLeak, Emptied
<1>3. CASE alive
  <2>1. ListOK /\ HeldOK /\ Walk = Linked
    BY <1>1, <1>3, WalkIsLinked DEF IInv, Memory
  <2>2. Linked \subseteq Live /\ end_chunk \in Linked /\ back_chunk \in Linked
    BY <2>1 DEF Linked, Live, ListOK
  <2>3. {spare_chunk, sc, o} \ {Null} \subseteq Live \ Linked
    BY <1>1, <2>1 DEF HeldOK, Linked, Live, Typed
  <2>4. \A h1, h2 \in {<<"spare", spare_chunk>>, <<"sc", sc>>, <<"o", o>>} :
           h1[2] = h2[2] /\ h1[2] # Null => h1 = h2
    BY <2>1 DEF HeldOK
  <2>5. ASSUME NEW a \in Linked, NEW i \in Pos,
               Index(front) <= Index(<<a, i>>), Index(<<a, i>>) <= Len(written)
        PROVE  chunk[a].values[i] = written[Index(<<a, i>>)]
    <3> DEFINE p == <<a, i>>
    <3>1. p \in Cell /\ p[1] = a /\ p[2] = i /\ Index(front) <= Index(p) /\ Index(p) <= Len(written)
      BY <2>5 DEF Cell
    <3> HIDE DEF p
    <3>2. chunk[p[1]].values[p[2]] = written[Index(p)]
      BY <1>1, <1>3, <3>1 DEF Contents
    <3>3. p = <<a, i>>
      BY DEF p
    <3> QED
      BY <3>1, <3>2, <3>3
  <2>6. MemorySafe
    BY <1>3, <2>1, <2>2, <2>3, <2>4, <2>5 DEF MemorySafe
  <2>7. Live = Linked \cup ({spare_chunk, sc, o} \ {Null})
    BY <2>3, NullIsNoCell DEF Linked, Live
  <2> QED
    BY <1>3, <2>1, <2>6, <2>7 DEF NoLeak
<1> QED
  BY <1>2, <1>3

\* Neither thread touches a freed chunk, no chunk has two owners, and every
\* unread item is still in its cell.
THEOREM QueueMemorySafe == Spec => []MemorySafe
BY SafeFromInv, QueueFullInvariance, PTL

\* No chunk is forgotten, and the destructor leaves none.
THEOREM QueueNoLeak == Spec => []NoLeak
BY SafeFromInv, QueueFullInvariance, PTL
=============================================================================
