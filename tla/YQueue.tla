------------------------------- MODULE YQueue -------------------------------
(***************************************************************************)
(* yqueue_t under ypipe_t: the memory of the lock-free pipe.               *)
(*                                                                         *)
(* The cells live in chunks of N linked by prev and next.  The writer      *)
(* appends chunks, the reader drops them, and one dropped chunk is handed  *)
(* from reader to writer through spare_chunk, the second word (after c)    *)
(* that both threads exchange atomically.  A freed address can be returned *)
(* by the next allocation, so the pointers r, w, f and c, which ypipe_t    *)
(* compares by address, are exposed to address reuse.                      *)
(*                                                                         *)
(* written and base are history: every item ever written, and the ordinal  *)
(* of the chunk an address currently stands for.                           *)
(***************************************************************************)
EXTENDS Integers, Sequences, FiniteSets

CONSTANTS Value,
          MaxItems,  \* bound on the number of items ever written
          Chunk,     \* the addresses malloc can return
          N,         \* cells per chunk
          Null,      \* the null pointer
          Junk       \* an uninitialised pointer or value

ASSUME NAssumption == N \in Nat /\ N > 1
ASSUME MaxItemsAssumption == MaxItems \in Nat
ASSUME ChunkAssumption == IsFiniteSet(Chunk)

\* The null pointer is neither a chunk nor the address of a cell.
ASSUME NullAssumption == Null \notin Chunk \cup (Chunk \X (0..(N - 1)))

VARIABLES chunk,                    \* address -> prev, next, values, live
          begin_chunk, begin_pos,   \* reader
          back_chunk, back_pos,     \* writer
          end_chunk, end_pos,       \* writer
          spare_chunk,              \* shared
          r, w, f, c,               \* of ypipe_t, as <<chunk, position>>
          wpc, sc, pending,         \* a write that is waiting for its chunk
          rpc, o,                   \* a pop that still holds its old chunk
          reader, wakes,            \* as in YPipe
          alive,
          written, base             \* history

qvars == <<chunk, begin_chunk, begin_pos, back_chunk, back_pos, end_chunk,
           end_pos, spare_chunk>>
wlocal == <<wpc, sc, pending>>
rlocal == <<rpc, o>>
vars == <<qvars, r, w, f, c, wlocal, rlocal, reader, wakes, alive, written, base>>

Pos == 0..(N - 1)
front == <<begin_chunk, begin_pos>>
back  == <<back_chunk, back_pos>>

Live == {a \in Chunk : chunk[a].live}
Fresh == [live |-> TRUE, prev |-> Junk, next |-> Junk, values |-> [i \in Pos |-> Junk]]

\* What is left of a chunk after free ().
Freed == [Fresh EXCEPT !.live = FALSE]

\* The chunks a walk from begin_chunk along next meets, up to end_chunk.
Walk == LET at[n \in 0..Cardinality(Chunk)] ==
              IF n = 0 THEN begin_chunk
              ELSE IF at[n - 1] \in Chunk /\ at[n - 1] # end_chunk
                   THEN chunk[at[n - 1]].next ELSE at[n - 1]
        IN  {at[n] : n \in 0..Cardinality(Chunk)}

\* yqueue_t () allocates one chunk, ypipe_t () pushes the terminator.
Init == /\ \E a \in Chunk :
             /\ chunk = [b \in Chunk |-> IF b = a THEN Fresh ELSE Freed]
             /\ begin_chunk = a /\ back_chunk = a /\ end_chunk = a
             /\ r = <<a, 0>> /\ w = <<a, 0>> /\ f = <<a, 0>> /\ c = <<a, 0>>
        /\ begin_pos = 0 /\ back_pos = 0 /\ end_pos = 1
        /\ spare_chunk = Null
        /\ wpc = "idle" /\ sc = Null /\ pending = Junk
        /\ rpc = "idle" /\ o = Null
        /\ reader = "awake" /\ wakes = 0
        /\ alive = TRUE
        /\ written = <<>>
        /\ base = [a \in Chunk |-> 0]
-----------------------------------------------------------------------------
(* The words that both threads change atomically *)

\* c.cas (cmp, val) and c.set (val)
cas(cmp, val) == c' = IF c = cmp THEN val ELSE c
set(val) == c' = val

\* spare_chunk.xchg (val)
xchg(val) == spare_chunk' = val
-----------------------------------------------------------------------------
(* The writer thread *)

Store(v) == chunk' = [chunk EXCEPT ![back_chunk].values[back_pos] = v]

\* write () when the last cell of the end chunk is not reached by push ().
write(v, incomplete) ==
    /\ alive /\ wpc = "idle"
    /\ Len(written) < MaxItems
    /\ end_pos + 1 # N
    /\ Store(v)
    /\ back_chunk' = end_chunk /\ back_pos' = end_pos
    /\ end_pos' = end_pos + 1
    /\ f' = IF incomplete THEN f ELSE <<end_chunk, end_pos>>
    /\ written' = Append(written, v)
    /\ UNCHANGED <<begin_chunk, begin_pos, end_chunk, spare_chunk, r, w, c,
                   wlocal, rlocal, reader, wakes, alive, base>>

\* write () whose push () fills the end chunk and asks for the spare one.
write_xchg(v, incomplete) ==
    /\ alive /\ wpc = "idle"
    /\ Len(written) < MaxItems
    /\ end_pos + 1 = N
    /\ Store(v)
    /\ back_chunk' = end_chunk /\ back_pos' = end_pos
    /\ end_pos' = N
    /\ sc' = spare_chunk
    /\ xchg(Null)
    /\ wpc' = "link"
    /\ pending' = <<v, incomplete>>
    /\ UNCHANGED <<begin_chunk, begin_pos, end_chunk, r, w, f, c, rlocal,
                   reader, wakes, alive, written, base>>

\* The rest of it: link the spare chunk, or a newly allocated one.
write_link ==
    /\ wpc = "link"
    /\ \E a \in IF sc # Null THEN {sc} ELSE Chunk \ Live :
         /\ chunk' = [chunk EXCEPT ![end_chunk].next = a,
                                   ![a] = [(IF sc # Null THEN chunk[a] ELSE Fresh)
                                           EXCEPT !.prev = end_chunk]]
         /\ end_chunk' = a
         /\ base' = [base EXCEPT ![a] = base[end_chunk] + 1]
    /\ end_pos' = 0
    /\ f' = IF pending[2] THEN f ELSE back
    /\ written' = Append(written, pending[1])
    /\ wpc' = "idle" /\ sc' = Null /\ pending' = Junk
    /\ UNCHANGED <<begin_chunk, begin_pos, back_chunk, back_pos, spare_chunk,
                   r, w, c, rlocal, reader, wakes, alive>>

\* Variant that leaves the end where it was when it crosses a chunk.
unwrite_KeepsEndChunk ==
    /\ alive /\ wpc = "idle"
    /\ f # back
    /\ IF back_pos # 0
       THEN back_pos' = back_pos - 1 /\ UNCHANGED back_chunk
       ELSE back_pos' = N - 1 /\ back_chunk' = chunk[back_chunk].prev
    /\ IF end_pos # 0
       THEN end_pos' = end_pos - 1 /\ UNCHANGED <<end_chunk, chunk>>
       ELSE /\ end_pos' = N - 1
            /\ chunk' = [chunk EXCEPT ![end_chunk] = Freed]
            /\ UNCHANGED end_chunk
    /\ written' = SubSeq(written, 1, Len(written) - 1)
    /\ UNCHANGED <<begin_chunk, begin_pos, spare_chunk, r, w, f, c, wlocal,
                   rlocal, reader, wakes, alive, base>>

\* unwrite () over unpush (): back and end both move one cell backwards.
unwrite ==
    /\ alive /\ wpc = "idle"
    /\ f # back
    /\ IF back_pos # 0
       THEN back_pos' = back_pos - 1 /\ UNCHANGED back_chunk
       ELSE back_pos' = N - 1 /\ back_chunk' = chunk[back_chunk].prev
    /\ IF end_pos # 0
       THEN end_pos' = end_pos - 1 /\ UNCHANGED <<end_chunk, chunk>>
       ELSE LET p == chunk[end_chunk].prev IN
            /\ end_pos' = N - 1
            /\ end_chunk' = p
            /\ chunk' = [chunk EXCEPT ![end_chunk] = Freed, ![p].next = Null]
    /\ written' = SubSeq(written, 1, Len(written) - 1)
    /\ UNCHANGED <<begin_chunk, begin_pos, spare_chunk, r, w, f, c, wlocal,
                   rlocal, reader, wakes, alive, base>>

flush_cas ==
    /\ alive /\ wpc = "idle"
    /\ w # f /\ c = w
    /\ cas(w, f) /\ w' = f
    /\ UNCHANGED <<qvars, r, f, wlocal, rlocal, reader, wakes, alive, written, base>>

flush_cas_fails ==
    /\ alive /\ wpc = "idle"
    /\ w # f /\ c # w
    /\ wpc' = "set"
    /\ UNCHANGED <<qvars, r, w, f, c, sc, pending, rlocal, reader, wakes, alive,
                   written, base>>

flush_set ==
    /\ wpc = "set"
    /\ set(f) /\ w' = f
    /\ wpc' = "idle"
    /\ wakes' = wakes + 1
    /\ UNCHANGED <<qvars, r, f, sc, pending, rlocal, reader, alive, written, base>>
-----------------------------------------------------------------------------
(* The reader thread *)

Prefetched == front # r /\ r # Null

check_read ==
    /\ alive /\ rpc = "idle"
    /\ reader = "awake"
    /\ ~Prefetched
    /\ r' = c
    /\ cas(front, Null)
    /\ reader' = IF r' = front \/ r' = Null THEN "asleep" ELSE "awake"
    /\ UNCHANGED <<qvars, w, f, wlocal, rlocal, wakes, alive, written, base>>

\* Variant that does not notice the end of a chunk.
read_PastChunk ==
    /\ alive /\ rpc = "idle"
    /\ reader = "awake"
    /\ Prefetched
    /\ begin_pos' = begin_pos + 1
    /\ UNCHANGED <<chunk, begin_chunk, back_chunk, back_pos, end_chunk, end_pos,
                   spare_chunk, r, w, f, c, wlocal, rlocal, reader, wakes, alive,
                   written, base>>

\* read (): copy the front cell out; pop () inside a chunk.
read ==
    /\ alive /\ rpc = "idle"
    /\ reader = "awake"
    /\ Prefetched
    /\ begin_pos + 1 # N
    /\ begin_pos' = begin_pos + 1
    /\ UNCHANGED <<chunk, begin_chunk, back_chunk, back_pos, end_chunk, end_pos,
                   spare_chunk, r, w, f, c, wlocal, rlocal, reader, wakes, alive,
                   written, base>>

\* read () of the last cell of a chunk: pop () advances to the next chunk.
read_advance ==
    /\ alive /\ rpc = "idle"
    /\ reader = "awake"
    /\ Prefetched
    /\ begin_pos + 1 = N
    /\ LET n == chunk[begin_chunk].next IN
         /\ begin_chunk' = n
         /\ chunk' = [chunk EXCEPT ![n].prev = Null]
    /\ begin_pos' = 0
    /\ o' = begin_chunk
    /\ rpc' = "spare"
    /\ UNCHANGED <<back_chunk, back_pos, end_chunk, end_pos, spare_chunk,
                   r, w, f, c, wlocal, reader, wakes, alive, written, base>>

\* Variant that frees the old chunk as well as keeping it as the spare.
pop_spare_FreesOld ==
    /\ rpc = "spare"
    /\ xchg(o)
    /\ chunk' = [a \in Chunk |->
                   IF a = o THEN Freed ELSE chunk[a]]
    /\ rpc' = "idle" /\ o' = Null
    /\ UNCHANGED <<begin_chunk, begin_pos, back_chunk, back_pos, end_chunk, end_pos,
                   r, w, f, c, wlocal, reader, wakes, alive, written, base>>

\* Variant that drops the previous spare instead of freeing it.
pop_spare_Leaks ==
    /\ rpc = "spare"
    /\ xchg(o)
    /\ rpc' = "idle" /\ o' = Null
    /\ UNCHANGED <<chunk, begin_chunk, begin_pos, back_chunk, back_pos, end_chunk,
                   end_pos, r, w, f, c, wlocal, reader, wakes, alive, written, base>>

\* The rest of pop (): the old chunk becomes the spare, the old spare is freed.
pop_spare ==
    /\ rpc = "spare"
    /\ xchg(o)
    /\ chunk' = [a \in Chunk |->
                   IF a = spare_chunk THEN Freed ELSE chunk[a]]
    /\ rpc' = "idle" /\ o' = Null
    /\ UNCHANGED <<begin_chunk, begin_pos, back_chunk, back_pos, end_chunk, end_pos,
                   r, w, f, c, wlocal, reader, wakes, alive, written, base>>

wake ==
    /\ alive /\ reader = "asleep"
    /\ wakes > 0
    /\ wakes' = wakes - 1
    /\ reader' = "awake"
    /\ UNCHANGED <<qvars, r, w, f, c, wlocal, rlocal, alive, written, base>>

\* ~yqueue_t (), once neither thread is inside the pipe.
destroy ==
    /\ alive /\ wpc = "idle" /\ rpc = "idle"
    /\ alive' = FALSE
    /\ chunk' = [a \in Chunk |-> IF a \in Walk \cup {spare_chunk}
                                 THEN Freed ELSE chunk[a]]
    /\ UNCHANGED <<begin_chunk, begin_pos, back_chunk, back_pos, end_chunk, end_pos,
                   spare_chunk, r, w, f, c, wlocal, rlocal, reader, wakes, written, base>>
-----------------------------------------------------------------------------
Next == \/ \E v \in Value, incomplete \in BOOLEAN :
              write(v, incomplete) \/ write_xchg(v, incomplete)
        \/ write_link \/ unwrite
        \/ flush_cas \/ flush_cas_fails \/ flush_set
        \/ check_read \/ read \/ read_advance \/ pop_spare \/ wake
        \/ destroy

Spec == Init /\ [][Next]_vars
-----------------------------------------------------------------------------
Pointer == Chunk \cup {Null, Junk}
Address == (Chunk \X Pos) \cup {Null}

TypeOK ==
    /\ chunk \in [Chunk -> [live : BOOLEAN, prev : Pointer, next : Pointer,
                            values : [Pos -> Value \cup {Junk}]]]
    /\ {begin_chunk, back_chunk, end_chunk} \subseteq Chunk
    /\ begin_pos \in Pos /\ back_pos \in Pos /\ end_pos \in 0..N
    /\ {spare_chunk, sc, o} \subseteq Chunk \cup {Null}
    /\ {r, w, f, c} \subseteq Address
    /\ wpc \in {"idle", "link", "set"} /\ rpc \in {"idle", "spare"}
    /\ reader \in {"awake", "asleep"} /\ wakes \in 0..1
    /\ written \in Seq(Value)

\* The index of the cell an address stands for now, in the order of writing.
Index(p) == base[p[1]] * N + p[2] + 1

\* Neither thread follows a pointer into freed memory, the two threads and the
\* spare word never own the same chunk, and every item between the reader and
\* the end of the queue is still in its cell.
MemorySafe == alive =>
    /\ Walk \subseteq Live /\ end_chunk \in Walk /\ back_chunk \in Walk
    /\ {spare_chunk, sc, o} \ {Null} \subseteq Live \ Walk
    /\ \A h1, h2 \in {<<"spare", spare_chunk>>, <<"sc", sc>>, <<"o", o>>} :
          h1[2] = h2[2] /\ h1[2] # Null => h1 = h2
    /\ \A a \in Walk, i \in Pos :
          LET k == Index(<<a, i>>) IN
          Index(front) <= k /\ k <= Len(written) => chunk[a].values[i] = written[k]

\* No chunk is forgotten: a live chunk is in the list, is the spare, or is in
\* the hands of a thread; and the destructor leaves none.
NoLeak == Live = IF alive THEN Walk \cup ({spare_chunk, sc, o} \ {Null}) ELSE {}

ToIndex(p) == IF p = Null THEN 0 ELSE Index(p)

Indices == INSTANCE YPipe WITH
    queue <- written, front <- Index(front), r <- ToIndex(r), w <- ToIndex(w),
    f <- ToIndex(f), c <- ToIndex(c),
    wpc <- IF wpc = "set" THEN "set" ELSE "idle"

\* Comparing addresses is as good as comparing indices, in spite of address
\* reuse: the pipe over chunks behaves as the pipe over an unbounded array.
ImplementsYPipe == Indices!Spec
=============================================================================
