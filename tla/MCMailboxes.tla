---------------------------- MODULE MCMailboxes ----------------------------
(* The two kinds of mailbox, one at a time: that of a thread, and that of a  *)
(* socket which several threads share.                                       *)
EXTENDS Mailbox

CONSTANTS Receivers, Pollers    \* threads of the socket that several share, as
                                \*   many as there are senders

ASSUME ThreadAssumption == "free" \notin Receivers \cup Pollers

VARIABLES which,                                                        \* "plain" or "safe"
          s_items, s_asleep, s_sync, s_pc, s_attached, s_signals, s_sent, s_got    \* of MailboxSafe

svars == <<s_items, s_asleep, s_sync, s_pc, s_attached, s_signals, s_sent, s_got>>

SafeSender == {"1", "2"}

S == INSTANCE MailboxSafe WITH
        Receiver <- Receivers, Poller <- Pollers, Sender <- SafeSender,
        items <- s_items, asleep <- s_asleep, sync <- s_sync, pc <- s_pc, attached <- s_attached,
        signals <- s_signals, sent <- s_sent, got <- s_got

MCInit == which \in {"plain", "safe"} /\ Init /\ S!Init

\* The mailbox that is not looked at stays as it was made.
Plain(A) == which = "plain" /\ A /\ UNCHANGED <<which, svars>>
Safe(A) == which = "safe" /\ A /\ UNCHANGED <<which, vars>>
MCNext == Plain(Next) \/ Safe(S!Next)

all == <<which, vars, svars>>

\* The fairness of the one that is looked at is that of its own module.  A
\* condition for an action of one and an action of the other is what each asks
\* for, as they never run both.
MCFairness ==
    /\ \A i \in Sender :
          /\ SF_all(Plain(lock(i)) \/ Safe(S!api_enter(i)))
          /\ SF_all((i = "1" /\ Plain(wait_succeeds)) \/ (i = "2" /\ Plain(recv_failable)) \/ Safe(S!reacquire(i)))
          /\ WF_all(Plain(Send(i)) \/ Safe(S!recv(i) \/ S!recv_wait(i) \/ S!recv_retry(i) \/ S!api_exit(i)))
    /\ \A s \in SafeSender : SF_all(Safe(S!send(s)))
    /\ \A p \in Pollers : WF_all(Safe(S!poll(p)))
    /\ WF_all(Plain(recv_active \/ recv_passive \/ recv_wait \/ recv_read))
    /\ WF_all(Plain(wait_fails \/ wait_succeeds))
    /\ WF_all(Plain(destroy_lock)) /\ WF_all(Plain(destroy_unlock))

MCSpec == MCInit /\ [][MCNext]_all /\ MCFairness

-----------------------------------------------------------------------------
\* No receiver is left asleep over a command: signals match the wake-ups that
\* are due in the mailbox of a thread, and every thread that waits or polls for
\* a shared one will be woken by the next command (flush () in send).
NobodyForgotten == SignalsMatch /\ S!NobodyForgotten

\* Every command is received in the end: the owner of a mailbox can leave it, and
\* the threads of a shared one process all although none times out.
AllReceivedInTheEnd ==
    <>(IF which = "plain" THEN AllReceived /\ rpc = "destroyed"
       ELSE \A s \in SafeSender : s_got[s] = Sends)

=============================================================================
