---------------------------- MODULE MailboxSafe ----------------------------
(***************************************************************************)
(* mailbox_safe_t: the command queue of a thread-safe socket.              *)
(*                                                                         *)
(* 'sync' is the socket's own mutex: every API call holds it, and so does  *)
(* send ().  Several application threads may be inside recv (); a thread   *)
(* that finds no command waits on a condition variable, which releases     *)
(* sync in the middle of its API call.  socket_poller_t threads do not     *)
(* wait there: they poll the descriptor of a signaler that send () writes. *)
(* The lock-free pipe is here a plain queue (everything happens under      *)
(* sync) with the flag that decides what flush () returns: 'asleep', set   *)
(* by a read that failed, that is c = NULL.                                *)
(***************************************************************************)
EXTENDS Integers, Sequences, FiniteSets

CONSTANTS Receiver,  \* threads that block in API calls of the socket
          Poller,    \* threads that block in socket_poller_t::wait
          Sender,    \* threads that send commands to the socket
          Sends      \* how many commands each of them sends

Thread == Receiver \cup Poller
Command == Sender \X (1..Sends)

VARIABLES items, asleep,   \* cpipe
          sync,            \* the thread inside an API call, or "free"
          pc,              \* where each thread is
          attached,        \* the pollers whose signaler is registered
          signals,         \* bytes in each poller's signaler
          sent, got

vars == <<items, asleep, sync, pc, attached, signals, sent, got>>

\* The constructor reads the empty pipe to get it into the passive state.
Init == /\ items = <<>> /\ asleep = TRUE
        /\ sync = "free"
        /\ pc = [t \in Thread |-> "out"]
        /\ attached = {}
        /\ signals = [p \in Poller |-> 0]
        /\ sent = [s \in Sender |-> 0]
        /\ got = [s \in Sender |-> 0]
-----------------------------------------------------------------------------
\* scoped_optional_lock_t: an API call holds the mutex.
Acquire(t) == sync = "free" /\ sync' = t
Release == sync' = "free"

\* cond_var.wait () releases the mutex and sleeps in one step.
cond_wait(t) == Release /\ pc' = [pc EXCEPT ![t] = "waiting"]

\* Variant that wakes one thread only.
Broadcast_One ==
    /\ IF \E t \in Thread : pc[t] = "waiting"
       THEN \E t \in Thread : pc[t] = "waiting" /\ pc' = [pc EXCEPT ![t] = "woken"]
       ELSE UNCHANGED pc
    /\ signals' = [p \in Poller |-> signals[p] + IF p \in attached THEN 1 ELSE 0]

\* cond_var.broadcast () and the loop over the signalers.
Broadcast ==
    /\ pc' = [t \in Thread |-> IF pc[t] = "waiting" THEN "woken" ELSE pc[t]]
    /\ signals' = [p \in Poller |-> signals[p] + IF p \in attached THEN 1 ELSE 0]

\* Variant that takes the result of flush () for its opposite.
send_Inverted(s) ==
    /\ sync = "free"
    /\ sent[s] < Sends
    /\ items' = Append(items, <<s, sent[s] + 1>>)
    /\ sent' = [sent EXCEPT ![s] = @ + 1]
    /\ asleep' = FALSE
    /\ IF asleep THEN UNCHANGED <<pc, signals>> ELSE Broadcast
    /\ UNCHANGED <<sync, attached, got>>

\* send (): one critical section, and only a flush that found the pipe asleep
\* wakes anybody.
send(s) ==
    /\ sync = "free"
    /\ sent[s] < Sends
    /\ items' = Append(items, <<s, sent[s] + 1>>)
    /\ sent' = [sent EXCEPT ![s] = @ + 1]
    /\ asleep' = FALSE
    /\ IF asleep THEN Broadcast ELSE UNCHANGED <<pc, signals>>
    /\ UNCHANGED <<sync, attached, got>>
-----------------------------------------------------------------------------
(* An API call: process_commands () calls recv () until there is nothing. *)

api_enter(t) ==
    /\ pc[t] = "out"
    /\ t \in Poller => t \in attached
    /\ Acquire(t)
    /\ pc' = [pc EXCEPT ![t] = "in"]
    /\ UNCHANGED <<items, asleep, attached, signals, sent, got>>

Take == /\ items' = Tail(items)
        /\ got' = [got EXCEPT ![Head(items)[1]] = Head(items)[2]]

\* recv () that gets a command straight away.
recv(t) ==
    /\ pc[t] = "in" /\ items # <<>>
    /\ Take
    /\ UNCHANGED <<asleep, sync, pc, attached, signals, sent>>

\* recv () that finds none: cond_var.wait () releases sync.
recv_wait(t) ==
    /\ pc[t] = "in" /\ items = <<>>
    /\ asleep' = TRUE
    /\ cond_wait(t)
    /\ UNCHANGED <<items, attached, signals, sent, got>>

\* The wait ends by its time-out, or for no reason.
wait_ends(t) ==
    /\ pc[t] = "waiting"
    /\ \E how \in {"timed_out", "woken"} : pc' = [pc EXCEPT ![t] = how]
    /\ UNCHANGED <<items, asleep, sync, attached, signals, sent, got>>

\* Variant that goes on without the mutex.
reacquire_WithoutSync(t) ==
    /\ pc[t] \in {"timed_out", "woken"}
    /\ pc' = [pc EXCEPT ![t] = IF @ = "woken" THEN "retry" ELSE "leave"]
    /\ UNCHANGED <<items, asleep, sync, attached, signals, sent, got>>

\* The condition variable takes sync again before wait () returns.
reacquire(t) ==
    /\ pc[t] \in {"timed_out", "woken"}
    /\ Acquire(t)
    /\ pc' = [pc EXCEPT ![t] = IF @ = "woken" THEN "retry" ELSE "leave"]
    /\ UNCHANGED <<items, asleep, attached, signals, sent, got>>

\* Variant that takes a command and still returns -1.
recv_retry_Loses(t) ==
    /\ pc[t] = "retry"
    /\ items' = IF items # <<>> THEN Tail(items) ELSE items
    /\ asleep' = (asleep \/ items = <<>>)
    /\ pc' = [pc EXCEPT ![t] = "leave"]
    /\ UNCHANGED <<sync, attached, signals, sent, got>>

\* The second read: another thread may already have fetched the command.
recv_retry(t) ==
    /\ pc[t] = "retry"
    /\ IF items # <<>>
       THEN Take /\ pc' = [pc EXCEPT ![t] = "in"] /\ UNCHANGED asleep
       ELSE /\ asleep' = TRUE
            /\ pc' = [pc EXCEPT ![t] = "leave"]
            /\ UNCHANGED <<items, got>>
    /\ UNCHANGED <<sync, attached, signals, sent>>

\* The API call ends.  A poller goes on to poll its signaler.
api_exit(t) ==
    /\ pc[t] = "leave"
    /\ Release
    /\ pc' = [pc EXCEPT ![t] = IF t \in Poller THEN "poll" ELSE "out"]
    /\ UNCHANGED <<items, asleep, attached, signals, sent, got>>
-----------------------------------------------------------------------------
(* socket_poller_t *)

add_signaler(p) ==
    /\ pc[p] = "out" /\ sync = "free"
    /\ p \notin attached
    /\ attached' = attached \cup {p}
    /\ UNCHANGED <<items, asleep, sync, pc, signals, sent, got>>

\* The poller's wait () returned, and its thread detaches the socket.
remove_signaler(p) ==
    /\ pc[p] = "out" /\ sync = "free"
    /\ p \in attached
    /\ attached' = attached \ {p}
    /\ UNCHANGED <<items, asleep, sync, pc, signals, sent, got>>

\* poll () finds the descriptor readable; signaler.recv () takes one signal.
poll(p) ==
    /\ pc[p] = "poll" /\ signals[p] > 0
    /\ signals' = [signals EXCEPT ![p] = @ - 1]
    /\ pc' = [pc EXCEPT ![p] = "out"]
    /\ UNCHANGED <<items, asleep, sync, attached, sent, got>>
-----------------------------------------------------------------------------
Call(t) == \/ api_enter(t) \/ recv(t) \/ recv_wait(t) \/ reacquire(t)
           \/ recv_retry(t) \/ api_exit(t)

Next == \/ \E s \in Sender : send(s)
        \/ \E t \in Thread : Call(t) \/ wait_ends(t)
        \/ \E p \in Poller : add_signaler(p) \/ remove_signaler(p) \/ poll(p)

Spec == Init /\ [][Next]_vars

\* A thread that can take the mutex again and again gets it, and a running
\* thread runs; nothing makes a wait end but a broadcast.
Fairness == /\ \A s \in Sender : WF_vars(send(s)) /\ SF_vars(send(s))
            /\ \A t \in Thread : WF_vars(recv(t) \/ recv_wait(t) \/ recv_retry(t) \/ api_exit(t))
            /\ \A t \in Thread : SF_vars(api_enter(t)) /\ SF_vars(reacquire(t))
            /\ \A p \in Poller : WF_vars(poll(p))
FairSpec == Spec /\ Fairness
-----------------------------------------------------------------------------
TypeOK ==
    /\ items \in Seq(Command) /\ asleep \in BOOLEAN
    /\ sync \in Thread \cup {"free"}
    /\ pc \in [Thread -> {"out", "in", "waiting", "timed_out", "woken", "retry",
                          "leave", "poll"}]
    /\ \A t \in Thread : pc[t] \in {"in", "retry", "leave"} <=> sync = t
    /\ attached \subseteq Poller
    /\ signals \in [Poller -> Nat]
    /\ sent \in [Sender -> 0..Sends] /\ got \in [Sender -> 0..Sends]

\* No thread is left behind: while one waits on the condition variable the
\* next flush will broadcast, and a poller that polls has a signal whenever
\* there is a command it has not seen.
NobodyForgotten ==
    /\ \A t \in Thread : pc[t] = "waiting" => asleep
    /\ asleep => items = <<>>
    /\ \A p \in attached : pc[p] = "poll" /\ items # <<>> => signals[p] > 0

\* Whatever thread fetches them, commands of one sender are processed in the
\* order they were sent, and none twice.
InOrder == [][\A s \in Sender : got'[s] \in {got[s], got[s] + 1}]_vars

\* Every command is processed although no thread ever times out.
AllProcessed == <>(\A s \in Sender : got[s] = Sends)
=============================================================================
