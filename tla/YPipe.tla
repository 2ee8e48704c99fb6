------------------------------- MODULE YPipe -------------------------------
(***************************************************************************)
(* ypipe_t: the lock-free queue between one writer and one reader thread.  *)
(*                                                                         *)
(* A pointer into the queue is the index of the cell it points to; indices *)
(* only grow, cell i is queue[i], and the terminator element that          *)
(* queue.back() designates is the cell after the last one.  YQueue.tla     *)
(* shows that the chunked memory behind the pointers keeps addresses and   *)
(* indices in step.  Each action is at most one access to 'c', the only    *)
(* variable both threads touch; a flush whose compare-and-swap fails takes *)
(* two steps.  NULL is 0: cells are numbered from 1.                       *)
(***************************************************************************)
EXTENDS Integers, Sequences

CONSTANTS Value,     \* the items
          MaxItems   \* bound on the number of items ever written

NULL == 0

VARIABLES queue,   \* the cells written so far; the terminator follows them
          front,   \* index of queue.front (), reader only
          r,       \* first un-prefetched item, reader only
          w,       \* first un-flushed item, writer only
          f,       \* first item to be flushed in the future, writer only
          c,       \* past the last flushed item, or NULL: reader is asleep
          wpc,     \* "idle", or "set" between a failed cas and c.set (f)
          reader,  \* check_read returned false and no wake-up came since
          wakes    \* flushes that returned false, wake-up not yet taken

vars == <<queue, front, r, w, f, c, wpc, reader, wakes>>

back == Len(queue) + 1

Init == /\ queue = <<>>
        /\ front = 1 /\ r = 1 /\ w = 1 /\ f = 1 /\ c = 1
        /\ wpc = "idle"
        /\ reader = "awake"
        /\ wakes = 0
-----------------------------------------------------------------------------
(* The writer thread *)

write(v, incomplete) ==
    /\ wpc = "idle"
    /\ Len(queue) < MaxItems
    /\ queue' = Append(queue, v)
    /\ f' = IF incomplete THEN f ELSE back + 1
    /\ UNCHANGED <<front, r, w, c, wpc, reader, wakes>>

\* Variant without the test of f: takes back items that are already complete.
unwrite_Unguarded ==
    /\ wpc = "idle"
    /\ queue # <<>>
    /\ queue' = SubSeq(queue, 1, Len(queue) - 1)
    /\ UNCHANGED <<front, r, w, f, c, wpc, reader, wakes>>

unwrite ==
    /\ wpc = "idle"
    /\ f # back
    /\ queue' = SubSeq(queue, 1, Len(queue) - 1)
    /\ UNCHANGED <<front, r, w, f, c, wpc, reader, wakes>>

\* flush () whose c.cas (w, f) succeeds: the reader is awake.
flush_cas ==
    /\ wpc = "idle"
    /\ w # f
    /\ c = w
    /\ c' = f
    /\ w' = f
    /\ UNCHANGED <<queue, front, r, f, wpc, reader, wakes>>

\* flush () whose compare-and-swap fails; the store to c is still to come.
flush_cas_fails ==
    /\ wpc = "idle"
    /\ w # f
    /\ c # w
    /\ wpc' = "set"
    /\ UNCHANGED <<queue, front, r, w, f, c, reader, wakes>>

\* Variant that reports the reader as awake.
flush_set_ReturnsTrue ==
    /\ wpc = "set"
    /\ c' = f
    /\ w' = f
    /\ wpc' = "idle"
    /\ UNCHANGED <<queue, front, r, f, reader, wakes>>

\* c.set (f), and flush returns false: the caller now owes a wake-up.
flush_set ==
    /\ wpc = "set"
    /\ c' = f
    /\ w' = f
    /\ wpc' = "idle"
    /\ wakes' = wakes + 1
    /\ UNCHANGED <<queue, front, r, f, reader>>
-----------------------------------------------------------------------------
(* The reader thread *)

Prefetched == front # r /\ r # NULL

\* Variant that stores NULL without comparing: items flushed meanwhile are lost.
check_read_PlainStore ==
    /\ reader = "awake"
    /\ ~Prefetched
    /\ r' = c
    /\ c' = NULL
    /\ reader' = IF r' = front \/ r' = NULL THEN "asleep" ELSE "awake"
    /\ UNCHANGED <<queue, front, w, f, wpc, wakes>>

\* check_read () with nothing prefetched: r = c.cas (&queue.front (), NULL).
check_read ==
    /\ reader = "awake"
    /\ ~Prefetched
    /\ r' = c
    /\ c' = IF c = front THEN NULL ELSE c
    /\ reader' = IF r' = front \/ r' = NULL THEN "asleep" ELSE "awake"
    /\ UNCHANGED <<queue, front, w, f, wpc, wakes>>

\* The rest of read (): copy the front cell out and pop it.
read ==
    /\ reader = "awake"
    /\ Prefetched
    /\ front' = front + 1
    /\ UNCHANGED <<queue, r, w, f, c, wpc, reader, wakes>>

\* Variant in which a spurious wake-up is counted.
wake_Spurious ==
    /\ reader = "asleep"
    /\ wakes' = wakes - 1
    /\ reader' = "awake"
    /\ UNCHANGED <<queue, front, r, w, f, c, wpc>>

\* The reader takes the wake-up that a failed flush owes it.
wake ==
    /\ reader = "asleep"
    /\ wakes > 0
    /\ wakes' = wakes - 1
    /\ reader' = "awake"
    /\ UNCHANGED <<queue, front, r, w, f, c, wpc>>
-----------------------------------------------------------------------------
Writer == \/ \E v \in Value, incomplete \in BOOLEAN : write(v, incomplete)
          \/ unwrite
          \/ flush_cas \/ flush_cas_fails \/ flush_set

Reader == check_read \/ read \/ wake

Next == Writer \/ Reader

Spec == Init /\ [][Next]_vars

\* Neither thread stops inside a call, and a reader that has something to do
\* does it; the writer need not write or flush.
Fairness == WF_vars(flush_set) /\ WF_vars(Reader)
FairSpec == Spec /\ Fairness
-----------------------------------------------------------------------------
TypeOK ==
    /\ queue \in Seq(Value)
    /\ front \in Nat /\ w \in Nat /\ f \in Nat
    /\ r \in Nat /\ c \in Nat
    /\ wpc \in {"idle", "set"}
    /\ reader \in {"awake", "asleep"}
    /\ wakes \in Nat

\* The threads never touch the same cell: what the reader may copy without
\* looking at c again was flushed, and no cell that was handed over, through r
\* or through c, is taken back by unwrite.
NoSharedCell ==
    /\ Prefetched => front < w
    /\ r <= w /\ c <= w /\ w <= back

\* No lost wake-up: if the reader sleeps, every flushed item was read, or a
\* wake-up is owed to it, or a flush is about to owe one; and at most one
\* wake-up is ever outstanding, which is what signaler_t requires.
NoLostWakeup ==
    /\ reader = "asleep" => w = front \/ wakes = 1
    /\ wpc = "set" => reader = "asleep" /\ wakes = 0
    /\ wakes <= 1

\* What a sleeping or slow reader is entitled to: everything flushed is read.
FlushedIsRead == \A i \in 1..MaxItems : (w > i) ~> (front > i)

Contract == INSTANCE UPipe WITH
    avail    <- SubSeq(queue, front, w - 1),
    complete <- SubSeq(queue, w, f - 1),
    partial  <- SubSeq(queue, f, Len(queue))

\* ypipe_t keeps the contract its callers rely on: in particular a read fails
\* only when nothing is flushed, and a flush is one step seen from outside.
ImplementsUPipe == Contract!USpec
=============================================================================
