------------------------------- MODULE UPipe -------------------------------
(***************************************************************************)
(* What a lock-free pipe promises to the two threads that share it: the    *)
(* contract of ypipe_base_t as its callers (pipe_t, mailbox_t) rely on it. *)
(*                                                                         *)
(* Items go through three stages.  'partial' holds the parts of a message  *)
(* whose last part has not been written yet, 'complete' the whole messages *)
(* that were written but not flushed, 'avail' what the reader can get.     *)
(* A read fails only when nothing is available; it then puts the reader to *)
(* sleep, and the next flush that moves something has to produce a wake-up.*)
(***************************************************************************)
EXTENDS Naturals, Sequences

CONSTANT Value      \* what is passed through the pipe

VARIABLES avail,    \* flushed and not yet read
          complete, \* complete messages, not flushed
          partial,  \* parts of an incomplete message
          reader,   \* the last read failed and no wake-up was taken since
          wakes     \* wake-ups owed to the reader and not yet taken

uvars == <<avail, complete, partial, reader, wakes>>

UInit == /\ avail = <<>> /\ complete = <<>> /\ partial = <<>>
         /\ reader = "awake"
         /\ wakes = 0

UWrite(v, incomplete) ==
    /\ IF incomplete
       THEN /\ partial' = Append(partial, v)
            /\ UNCHANGED complete
       ELSE /\ complete' = complete \o Append(partial, v)
            /\ partial' = <<>>
    /\ UNCHANGED <<avail, reader, wakes>>

UUnwrite ==
    /\ partial # <<>>
    /\ partial' = SubSeq(partial, 1, Len(partial) - 1)
    /\ UNCHANGED <<avail, complete, reader, wakes>>

\* Everything complete becomes available in one step.  Only a reader that
\* sleeps and has not been woken yet is owed a wake-up.
UFlush ==
    /\ complete # <<>>
    /\ avail' = avail \o complete
    /\ complete' = <<>>
    /\ wakes' = IF reader = "asleep" /\ wakes = 0 THEN 1 ELSE wakes
    /\ UNCHANGED <<partial, reader>>

URead ==
    /\ reader = "awake"
    /\ avail # <<>>
    /\ avail' = Tail(avail)
    /\ UNCHANGED <<complete, partial, reader, wakes>>

UReadFail ==
    /\ reader = "awake"
    /\ avail = <<>>
    /\ reader' = "asleep"
    /\ UNCHANGED <<avail, complete, partial, wakes>>

UWake ==
    /\ reader = "asleep"
    /\ wakes > 0
    /\ wakes' = wakes - 1
    /\ reader' = "awake"
    /\ UNCHANGED <<avail, complete, partial>>

UNext == \/ \E v \in Value, incomplete \in BOOLEAN : UWrite(v, incomplete)
         \/ UUnwrite
         \/ UFlush
         \/ URead
         \/ UReadFail
         \/ UWake

USpec == UInit /\ [][UNext]_uvars
=============================================================================
