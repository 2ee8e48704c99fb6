------------------------------ MODULE Conflate ------------------------------
(***************************************************************************)
(* The pipe of a socket with ZMQ_CONFLATE: a double buffer, dbuffer_t, in  *)
(* place of the queue, behind the interface of a ypipe, and the wake-up    *)
(* that pipe_t does around it.  The writer fills the back buffer and swaps *)
(* the two if it gets the lock at once; otherwise the message stays behind *)
(* until the next one is written.                                          *)
(***************************************************************************)
EXTENDS Integers, Sequences

CONSTANT MaxWrites   \* bound on messages, which are numbered as they are written

VARIABLES buf,       \* front and back: the message in each, has_msg
          sync,      \* who holds the mutex
          writer,    \* where the writer is
          reader,    \* where the reader is, and in_active of its pipe
          awake,     \* reader_awake
          told,      \* is an activate_read on its way
          written,   \* messages written so far
          got,       \* messages read, in order
          closed     \* messages that were closed

vars == <<buf, sync, writer, reader, awake, told, written, got, closed>>

None == 0

Init ==
    /\ buf = [front |-> None, back |-> None, has_msg |-> FALSE]
    /\ sync = "free" /\ writer = "idle" /\ awake = FALSE /\ told = FALSE
    /\ reader = [at |-> "idle", in_active |-> TRUE]
    /\ written = 0 /\ got = <<>> /\ closed = <<>>

Closed(m) == IF m = None THEN closed ELSE Append(closed, m)

\* The mutex
lock(by) == sync = "free" /\ sync' = by
unlock == sync' = "free"

-----------------------------------------------------------------------------
\* write (): what the back buffer held is closed and replaced.
write ==
    /\ writer = "idle" /\ written < MaxWrites
    /\ written' = written + 1
    /\ closed' = Closed(buf.back)
    /\ buf' = [buf EXCEPT !.back = written + 1]
    /\ writer' = "written"
    /\ UNCHANGED <<sync, reader, awake, told, got>>

try_lock ==
    /\ writer = "written"
    /\ \/ lock("writer") /\ writer' = "swap"
       \/ sync # "free" /\ writer' = "flush" /\ UNCHANGED sync
    /\ UNCHANGED <<buf, reader, awake, told, written, got, closed>>

Swapped_Copied == [buf EXCEPT !.front = buf.back, !.has_msg = TRUE]
Swapped == [front |-> buf.back, back |-> buf.front, has_msg |-> TRUE]

swap ==
    /\ writer = "swap"
    /\ buf' = Swapped /\ unlock /\ writer' = "flush"
    /\ UNCHANGED <<reader, awake, told, written, got, closed>>

\* flush () of pipe_t: the peer is told unless the reader is awake.
flush ==
    /\ writer = "flush"
    /\ told' = (told \/ ~awake) /\ writer' = "idle"
    /\ UNCHANGED <<buf, sync, reader, awake, written, got, closed>>

-----------------------------------------------------------------------------
\* Each call of the reader takes the mutex: check_read (), probe () and, in
\* read (), check_read () again before the message is taken.
Lock(from, to) ==
    /\ reader.at = from /\ reader.in_active
    /\ lock("reader") /\ reader' = [reader EXCEPT !.at = to]
    /\ UNCHANGED <<buf, writer, awake, told, written, got, closed>>

Sleeps == [at |-> "idle", in_active |-> FALSE]

Checked(to) ==
    /\ unlock
    /\ reader' = IF buf.has_msg THEN [reader EXCEPT !.at = to] ELSE Sleeps
    /\ awake' = (awake /\ buf.has_msg)
    /\ UNCHANGED <<buf, writer, told, written, got, closed>>

check_read == reader.at = "checking" /\ Checked("probe")
read_check == reader.at = "read checking" /\ Checked("take")

\* The first message may have been replaced by a newer one since it was checked.
probe ==
    /\ reader.at = "probing"
    /\ unlock /\ reader' = [reader EXCEPT !.at = "read"]
    /\ UNCHANGED <<buf, writer, awake, told, written, got, closed>>

\* front->init (): the message is the reader's now.
Taken_Left == [buf EXCEPT !.has_msg = FALSE]
Taken == [buf EXCEPT !.front = None, !.has_msg = FALSE]

read ==
    /\ reader.at = "taking" /\ buf.has_msg
    /\ got' = Append(got, buf.front)
    /\ buf' = Taken /\ unlock
    /\ reader' = [reader EXCEPT !.at = "idle"]
    /\ UNCHANGED <<writer, awake, told, written, closed>>

process_activate_read ==
    /\ told /\ reader.at = "idle"
    /\ told' = FALSE /\ reader' = [reader EXCEPT !.in_active = TRUE]
    /\ UNCHANGED <<buf, sync, writer, awake, written, got, closed>>

\* The pipe is destroyed once neither side uses it.
destroy ==
    /\ writer = "idle" /\ reader.at = "idle" /\ written = MaxWrites
    /\ writer' = "gone" /\ reader' = Sleeps
    /\ closed' = closed \o SelectSeq(<<buf.back, buf.front>>, LAMBDA m : m # None)
    /\ buf' = [front |-> None, back |-> None, has_msg |-> FALSE]
    /\ told' = FALSE
    /\ UNCHANGED <<sync, awake, written, got>>

Next ==
    \/ write \/ try_lock \/ swap \/ flush
    \/ Lock("idle", "checking") \/ check_read
    \/ Lock("probe", "probing") \/ probe
    \/ Lock("read", "read checking") \/ read_check
    \/ Lock("take", "taking") \/ read
    \/ process_activate_read \/ destroy

Spec == Init /\ [][Next]_vars

-----------------------------------------------------------------------------
\* A message is in one place: a buffer, the hands of the reader, or closed, once.
\* So none leaks and none is freed twice.
EachOnce ==
    \A m \in 1..written :
        1 = (IF buf.front = m THEN 1 ELSE 0) + (IF buf.back = m THEN 1 ELSE 0)
            + Len(SelectSeq(got, LAMBDA x : x = m)) + Len(SelectSeq(closed, LAMBDA x : x = m))

\* The reader never goes back to an older message, and the one in front is newer
\* than any it has read.
NewestLast ==
    /\ \A i \in 1..Len(got) - 1 : got[i] < got[i + 1]
    /\ buf.has_msg => buf.front # None /\ (got # <<>> => buf.front > got[Len(got)])

\* A reader that sleeps over a message will be told: although flush () and
\* check_read () share reader_awake without the mutex.
Told == buf.has_msg /\ ~reader.in_active => told \/ writer = "flush"

=============================================================================
