------------------------------ MODULE Mailbox ------------------------------
(***************************************************************************)
(* mailbox_t: the command queue of one thread, written by every other one. *)
(*                                                                         *)
(* The lock-free pipe has one writer, so senders take turns under 'sync'.  *)
(* The signal that wakes the receiver is sent after the lock is released.  *)
(* The pipe is used through its contract, UPipe: a wake-up that UPipe owes *)
(* is here a sender on its way to signaler.send () or a byte in the        *)
(* signaler's descriptor.  The owner destroys the mailbox when the command *)
(* protocol tells it that no further command can come; the sender of the   *)
(* last one may still be inside send ().                                   *)
(***************************************************************************)
EXTENDS Integers, Sequences, FiniteSets

CONSTANTS Sender,     \* the threads that send commands
          Sends       \* how many commands each of them sends

ASSUME SendsAssumption == Sends \in Nat
\* A thread is none of the other two things that the lock can be.
ASSUME SenderAssumption == {"free", "receiver"} \cap Sender = {}

VARIABLES avail, complete, partial, reader, wakes,  \* cpipe
          sync,       \* the sender or "receiver" holding the lock, or "free"
          spc,        \* where each sender is in send ()
          sent,       \* commands each sender has put into the pipe
          signals,    \* bytes in the signaler's descriptor
          active,     \* the receiver reads the pipe without waiting
          rpc,        \* where the receiver is in recv () or the destructor
          got         \* commands received from each sender

pvars == <<avail, complete, partial, reader, wakes>>
vars == <<pvars, sync, spc, sent, signals, active, rpc, got>>

Command == Sender \X (1..Sends)

cpipe == INSTANCE UPipe WITH Value <- Command

\* The constructor reads the empty pipe to get it into the passive state.
Init == /\ avail = <<>> /\ complete = <<>> /\ partial = <<>>
        /\ reader = "asleep" /\ wakes = 0
        /\ sync = "free"
        /\ spc = [s \in Sender |-> "idle"]
        /\ sent = [s \in Sender |-> 0]
        /\ signals = 0
        /\ active = FALSE
        /\ rpc = "idle"
        /\ got = [s \in Sender |-> 0]
-----------------------------------------------------------------------------
(* send () *)

\* Variant that does not take the lock.
lock_NoOwner(s) ==
    /\ spc[s] = "idle"
    /\ sent[s] < Sends
    /\ spc' = [spc EXCEPT ![s] = "write"]
    /\ UNCHANGED <<pvars, sync, sent, signals, active, rpc, got>>

lock(s) ==
    /\ spc[s] = "idle"
    /\ sent[s] < Sends
    /\ sync = "free"
    /\ sync' = s
    /\ spc' = [spc EXCEPT ![s] = "write"]
    /\ UNCHANGED <<pvars, sent, signals, active, rpc, got>>

write(s) ==
    /\ spc[s] = "write"
    /\ cpipe!UWrite(<<s, sent[s] + 1>>, FALSE)
    /\ sent' = [sent EXCEPT ![s] = @ + 1]
    /\ spc' = [spc EXCEPT ![s] = "flush"]
    /\ UNCHANGED <<sync, signals, active, rpc, got>>

\* The result of flush () decides what happens after the lock is released.
flush(s) ==
    /\ spc[s] = "flush"
    /\ cpipe!UFlush
    /\ spc' = [spc EXCEPT ![s] = IF wakes' # wakes THEN "unlock_signal" ELSE "unlock"]
    /\ UNCHANGED <<sync, sent, signals, active, rpc, got>>

\* Variant that signals whatever flush () returned.
unlock_AlwaysSignals(s) ==
    /\ spc[s] \in {"unlock", "unlock_signal"}
    /\ sync' = "free"
    /\ spc' = [spc EXCEPT ![s] = "signal"]
    /\ UNCHANGED <<pvars, sent, signals, active, rpc, got>>

\* Variant that never signals.
unlock_NeverSignals(s) ==
    /\ spc[s] \in {"unlock", "unlock_signal"}
    /\ sync' = "free"
    /\ spc' = [spc EXCEPT ![s] = "idle"]
    /\ UNCHANGED <<pvars, sent, signals, active, rpc, got>>

unlock(s) ==
    /\ spc[s] \in {"unlock", "unlock_signal"}
    /\ sync' = "free"
    /\ spc' = [spc EXCEPT ![s] = IF @ = "unlock" THEN "idle" ELSE "signal"]
    /\ UNCHANGED <<pvars, sent, signals, active, rpc, got>>

signal(s) ==
    /\ spc[s] = "signal"
    /\ signals' = signals + 1
    /\ spc' = [spc EXCEPT ![s] = "idle"]
    /\ UNCHANGED <<pvars, sync, sent, active, rpc, got>>
-----------------------------------------------------------------------------
(* recv () *)

Take == got' = [got EXCEPT ![Head(avail)[1]] = Head(avail)[2]]

\* Everything that will ever be sent has been received: what the owner of a
\* mailbox knows, from the command protocol, when it gives the mailbox up.
AllReceived == \A s \in Sender : got[s] = Sends

\* Active: the command is there.
recv_active ==
    /\ rpc = "idle" /\ active
    /\ ~AllReceived
    /\ cpipe!URead
    /\ Take
    /\ UNCHANGED <<sync, spc, sent, signals, active, rpc>>

\* Active, but the pipe is empty: switch into the passive state and wait.
recv_passive ==
    /\ rpc = "idle" /\ active
    /\ ~AllReceived
    /\ cpipe!UReadFail
    /\ active' = FALSE
    /\ rpc' = "wait"
    /\ UNCHANGED <<sync, spc, sent, signals, got>>

recv_wait ==
    /\ rpc = "idle" /\ ~active
    /\ ~AllReceived
    /\ rpc' = "wait"
    /\ UNCHANGED <<pvars, sync, spc, sent, signals, active, got>>

\* signaler.wait () returns -1: a time-out, or EINTR, which can come even when
\* there is a signal.
wait_fails ==
    /\ rpc = "wait"
    /\ rpc' = "idle"
    /\ UNCHANGED <<pvars, sync, spc, sent, signals, active, got>>

wait_succeeds ==
    /\ rpc = "wait"
    /\ signals > 0
    /\ rpc' = "signalled"
    /\ UNCHANGED <<pvars, sync, spc, sent, signals, active, got>>

\* recv_failable () returns -1: nothing was read from the descriptor.
recv_failable_fails ==
    /\ rpc = "signalled"
    /\ rpc' = "idle"
    /\ UNCHANGED <<pvars, sync, spc, sent, signals, active, got>>

recv_failable ==
    /\ rpc = "signalled"
    /\ signals > 0
    /\ signals' = signals - 1
    /\ cpipe!UWake
    /\ active' = TRUE
    /\ rpc' = "read"
    /\ UNCHANGED <<sync, spc, sent, got>>

\* Variant that loses the command it read.
recv_read_Loses ==
    /\ rpc = "read"
    /\ cpipe!URead
    /\ rpc' = "idle"
    /\ UNCHANGED <<sync, spc, sent, signals, active, got>>

\* The read that has to succeed: zmq_assert (ok).
recv_read ==
    /\ rpc = "read"
    /\ IF avail # <<>>
       THEN cpipe!URead /\ Take /\ rpc' = "idle"
       ELSE cpipe!UReadFail /\ rpc' = "assert_failed" /\ UNCHANGED got
    /\ UNCHANGED <<sync, spc, sent, signals, active>>
-----------------------------------------------------------------------------
(* ~mailbox_t () *)

\* Variant that disappears without waiting for the lock.
destroy_lock_NoLock ==
    /\ rpc = "idle"
    /\ AllReceived
    /\ sync' = "receiver"
    /\ rpc' = "destroy"
    /\ UNCHANGED <<pvars, spc, sent, signals, active, got>>

destroy_lock ==
    /\ rpc = "idle"
    /\ AllReceived
    /\ sync = "free"
    /\ sync' = "receiver"
    /\ rpc' = "destroy"
    /\ UNCHANGED <<pvars, spc, sent, signals, active, got>>

destroy_unlock ==
    /\ rpc = "destroy"
    /\ sync' = "free"
    /\ rpc' = "destroyed"
    /\ UNCHANGED <<pvars, spc, sent, signals, active, got>>
-----------------------------------------------------------------------------
Send(s) == lock(s) \/ write(s) \/ flush(s) \/ unlock(s) \/ signal(s)

Recv == \/ recv_active \/ recv_passive \/ recv_wait
        \/ wait_fails \/ wait_succeeds
        \/ recv_failable_fails \/ recv_failable \/ recv_read
        \/ destroy_lock \/ destroy_unlock

Next == (\E s \in Sender : Send(s)) \/ Recv

Spec == Init /\ [][Next]_vars

\* Threads run; a lock that is released again and again is obtained; a poll
\* that finds the descriptor readable again and again is not interrupted, and
\* a read from it does not fail, for ever.
Fairness ==
    /\ \A s \in Sender : SF_vars(lock(s)) /\ WF_vars(Send(s))
    /\ WF_vars(recv_active \/ recv_passive \/ recv_wait \/ recv_read)
    /\ WF_vars(wait_fails \/ wait_succeeds)
    /\ SF_vars(wait_succeeds) /\ SF_vars(recv_failable)
    /\ WF_vars(destroy_lock) /\ WF_vars(destroy_unlock)
FairSpec == Spec /\ Fairness
-----------------------------------------------------------------------------
TypeOK ==
    /\ avail \in Seq(Command) /\ complete \in Seq(Command) /\ partial = <<>>
    /\ reader \in {"awake", "asleep"} /\ wakes \in Nat
    /\ sync \in Sender \cup {"free", "receiver"}
    /\ \A s \in Sender : spc[s] \notin {"idle", "signal"} <=> sync = s
    /\ spc \in [Sender -> {"idle", "write", "flush", "unlock", "unlock_signal", "signal"}]
    /\ sent \in [Sender -> 0..Sends] /\ got \in [Sender -> 0..Sends]
    /\ signals \in Nat
    /\ active \in BOOLEAN
    /\ rpc \in {"idle", "wait", "signalled", "read", "assert_failed", "destroy", "destroyed"}

\* Signals and sleeping match: there is a signal, or a sender about to send
\* it, exactly when the pipe owes the receiver a wake-up, never two of them
\* (signaler_t::recv asserts that it reads a single one), and a passive
\* receiver misses nothing.  zmq_assert (ok) in recv () never fails.
SignalsMatch ==
    /\ Cardinality({s \in Sender : spc[s] \in {"unlock_signal", "signal"}}) + signals = wakes
    /\ wakes <= 1
    /\ ~active /\ avail # <<>> => wakes = 1
    /\ rpc # "assert_failed"

\* A destroyed mailbox is not touched: no sender is still inside send (),
\* neither holding the lock nor on its way to the signaler.
NotUsedAfterDestroy ==
    rpc = "destroyed" => \A s \in Sender : spc[s] = "idle" /\ sync # s

\* Commands of one sender are received in the order they were sent.
InOrder == [][\A s \in Sender : got'[s] \in {got[s], got[s] + 1}]_vars

\* Every command is eventually received, and the owner can then leave.
EventuallyDestroyed == <>(AllReceived /\ rpc = "destroyed")
=============================================================================
