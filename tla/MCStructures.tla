---------------------------- MODULE MCStructures ----------------------------
(* The data structures below the sockets, one at a time: the lock-free pipe, *)
(* the chunked queue it is made of, the double buffer of a conflating pipe,  *)
(* and the tries.  Addresses of chunks and values of the queue are           *)
(* interchangeable: no action names one, and nothing of the pipe, whose      *)
(* liveness is checked, mentions them.                                       *)
EXTENDS YQueue, TLC

VARIABLES which,                   \* "pipe", "queue", "buffer" or "trie"
          y_queue, y_front, y_r, y_w, y_f, y_c, y_wpc, y_reader, y_wakes,                  \* of YPipe
          multi, root, ref, ok,    \* of Trie
          c_buf, c_sync, c_writer, c_reader, c_awake, c_told, c_written, c_got, c_closed    \* of Conflate

tvars == <<multi, root, ref, ok>>
yvars == <<y_queue, y_front, y_r, y_w, y_f, y_c, y_wpc, y_reader, y_wakes>>
cvars == <<c_buf, c_sync, c_writer, c_reader, c_awake, c_told, c_written, c_got, c_closed>>

Y == INSTANCE YPipe WITH
        Value <- {"x", "y"}, MaxItems <- 5, queue <- y_queue, front <- y_front, r <- y_r, w <- y_w,
        f <- y_f, c <- y_c, wpc <- y_wpc, reader <- y_reader, wakes <- y_wakes

T == INSTANCE Trie WITH
        Strings <- {<<>>, <<0>>, <<1>>, <<3>>, <<1, 0>>, <<1, 2>>},
        Data <- {<<>>, <<0>>, <<1>>, <<2>>, <<3>>, <<1, 0>>, <<1, 1>>, <<1, 2>>, <<0, 2>>, <<1, 0, 2>>},
        Owners <- {"p", "q"}, MaxRef <- 2

C == INSTANCE Conflate WITH
        MaxWrites <- 4, buf <- c_buf, sync <- c_sync, writer <- c_writer, reader <- c_reader,
        awake <- c_awake, told <- c_told, written <- c_written, got <- c_got, closed <- c_closed

MCInit ==
    /\ which \in {"pipe", "queue", "buffer", "trie"}
    /\ Y!Init /\ Init /\ T!Init /\ C!Init
    /\ which # "trie" => ~multi

\* The structure that is not looked at stays as it was made.
Pipe(A) == which = "pipe" /\ A /\ UNCHANGED <<which, vars, tvars, cvars>>

MCNext ==
    \/ Pipe(Y!Next)
    \/ which = "queue" /\ Next /\ UNCHANGED <<which, yvars, tvars, cvars>>
    \/ which = "trie" /\ T!Next /\ UNCHANGED <<which, yvars, vars, cvars>>
    \/ which = "buffer" /\ C!Next /\ UNCHANGED <<which, yvars, vars, tvars>>

all == <<which, yvars, vars, tvars, cvars>>

MCSpec == MCInit /\ [][MCNext]_all /\ WF_all(Pipe(Y!flush_set)) /\ WF_all(Pipe(Y!Reader))

Symmetry == Permutations(Chunk) \cup Permutations(Value)

-----------------------------------------------------------------------------
\* Writer and reader of the pipe never touch one cell at the same time: what the
\* reader may copy without looking at c again was flushed, and none of it is taken
\* back (write, unwrite, flush and check_read of ypipe_t).
NoSharedCell == Y!NoSharedCell

\* A reader that sleeps over flushed items is owed a wake-up, or a flush is about
\* to owe it one, and there is never more than one: the two compare-and-swaps of
\* flush and check_read.
NoLostWakeup == Y!NoLostWakeup

\* Everything that was flushed is read in the end (flush, check_read).
FlushedIsRead == Y!FlushedIsRead

\* The pipe keeps the contract its callers rely on: a read fails only when nothing
\* is flushed, and a flush is one step seen from outside (ypipe_t).
ImplementsUPipe == Y!ImplementsUPipe

\* The queue touches no chunk it has freed or does not have, and frees each one
\* (push, pop and unpush of yqueue_t).  The double buffer keeps each message in one
\* place, gives the reader none that is older than one it has read, and never
\* leaves it asleep over one (dbuffer_t, ypipe_conflate_t).  The tries answer like
\* the set of subscriptions they were given and keep no node they do not need
\* (trie_t, mtrie_t).
StructuresSound == /\ MemorySafe /\ NoLeak
                   /\ C!EachOnce /\ C!NewestLast /\ C!Told
                   /\ T!TrieFaithful /\ T!TrieTight

=============================================================================
