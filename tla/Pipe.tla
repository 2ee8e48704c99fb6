-------------------------------- MODULE Pipe --------------------------------
(***************************************************************************)
(* pipe_t: the pair of objects through which a socket and a session, or    *)
(* two inproc sockets, exchange messages.                                  *)
(*                                                                         *)
(* Each end lives in the thread of its owner.  It reads one lock-free pipe *)
(* (inpipe), writes another (outpipe), and sends commands to its peer,     *)
(* which arrive in order.  Neither thread waits for the other: the end of  *)
(* the reader does not know whether the writer is asleep, terminating, or  *)
(* still using the queue that is about to be dropped.                      *)
(*                                                                         *)
(* A lock-free pipe is a record of its three stages (see UPipe) and of the *)
(* flag 'asleep' (c = NULL) that makes the next flush return false.  Read  *)
(* here is also allowed while asleep: a stale activate_read after a hiccup *)
(* makes an end read a pipe it has not been woken for.                     *)
(*                                                                         *)
(* The subscriptions that xhiccuped () of a subscriber sends again are     *)
(* messages its user may write at any time.  Left out is that they are also*)
(* written between the parts of a message the user has begun.              *)
(***************************************************************************)
EXTENDS Integers, Sequences, FiniteSets

CONSTANTS MaxMsgs,      \* End -> bound on the messages its user writes
          MultiPart,    \* ends whose user writes two-part messages
          Credential,   \* ends whose user writes credentials between messages
          MaxCredentials, \* bound on the credentials each of them writes
          Hiccuper,     \* ends whose user calls hiccup ()
          MaxHiccups,   \* bound on the calls of hiccup ()
          MaxCalls,     \* bound on messages, credentials and hiccups together
          MaxTerms,     \* bound on the calls of terminate (true) while waiting
          Delays,       \* the arguments terminate () is called with
          NoDelay,      \* ends on which set_nodelay () was called
          Tuner,        \* ends of sockets, whose setsockopt () calls set_hwms ()
          Hwm,          \* End -> high watermark for what it writes
          Boost,        \* of set_hwms_boost (), for both directions
          NewHwm        \* the values the watermarks are set to

ASSUME PipeAssumption ==
    /\ MaxMsgs \in [{1, 2} -> Nat] /\ Hwm \in [{1, 2} -> Nat]
    /\ MaxCredentials \in Nat /\ MaxHiccups \in Nat /\ MaxCalls \in Nat /\ MaxTerms \in Nat
    /\ Delays \subseteq BOOLEAN /\ Boost \in Int /\ NewHwm \subseteq Int

End == {1, 2}
peer(e) == 3 - e
NULL == 0

\* Lock-free pipes are numbered in the order they are created.
UpipeId == 1..(2 + MaxHiccups)

VARIABLES upipe,   \* UpipeId -> the lock-free pipe, or what is left of it
          pipe,    \* End -> the fields of the pipe_t object
          cmds,    \* End -> commands on their way to it
          sent,    \* End -> number of the last message written, 'more', how many
                   \* credentials, and the messages a hiccup has cut in the middle
          got,     \* End -> number of the last message read, 'more'
          calls    \* End -> how often bounded calls were made

vars == <<upipe, pipe, cmds, sent, got, calls>>

NewUpipe == [flushed |-> <<>>, complete |-> <<>>, partial |-> <<>>,
             asleep |-> FALSE, live |-> TRUE]
NoUpipe == [NewUpipe EXCEPT !.live = FALSE]

Delimiter == [kind |-> "delimiter", num |-> 0, more |-> FALSE]

\* Variant with a fixed distance between the watermarks.
compute_lwm_Delta(hwm) == hwm - 2

compute_lwm(hwm) == (hwm + 1) \div 2

\* pipepair (): end 1 reads upipe 1, which end 2 writes, and vice versa.
\* set_nodelay () is called by the owner of an end when it attaches it.
Init ==
    /\ upipe = [i \in UpipeId |-> IF i <= 2 THEN NewUpipe ELSE NoUpipe]
    /\ pipe = [e \in End |->
         [state |-> "active", inpipe |-> e, outpipe |-> peer(e),
          in_active |-> TRUE, out_active |-> TRUE,
          hwm |-> Hwm[e], lwm |-> compute_lwm(Hwm[peer(e)]),
          msgs_read |-> 0, msgs_written |-> 0, peers_msgs_read |-> 0,
          delay |-> e \notin NoDelay]]
    /\ cmds = [e \in End |-> <<>>]
    /\ sent = [e \in End |-> [num |-> 0, more |-> FALSE, credentials |-> 0, cut |-> {}]]
    /\ got = [e \in End |-> [num |-> 0, more |-> FALSE]]
    /\ calls = [e \in End |-> [terms |-> 0, hiccups |-> 0, hwms |-> 0]]

\* What is left of a deleted object: no field of it means anything.
Gone == [state |-> "gone", inpipe |-> NULL, outpipe |-> NULL,
         in_active |-> FALSE, out_active |-> FALSE, hwm |-> 0, lwm |-> 0,
         msgs_read |-> 0, msgs_written |-> 0, peers_msgs_read |-> 0, delay |-> FALSE]

State(e) == pipe[e].state
Alive(e) == State(e) # "gone"
Readable(e) == State(e) \in {"active", "waiting_for_delimiter"}

Cmd(t) == [type |-> t, arg |-> 0]
Send(e, cs) == cmds' = [cmds EXCEPT ![peer(e)] = @ \o cs]

\* What a lock-free pipe is after a flush, and whether that flush found the
\* reader asleep and returned false.
FlushedUpipe(u) ==
    IF u.complete = <<>> THEN u
    ELSE [u EXCEPT !.flushed = @ \o u.complete, !.complete = <<>>, !.asleep = FALSE]
FlushFails(u) == u.complete # <<>> /\ u.asleep
-----------------------------------------------------------------------------
(* Writing *)

\* check_hwm ().  The counters are unsigned: a negative difference is a huge
\* number, and the queue counts as full.
check_hwm(p) ==
    LET d == p.msgs_written - p.peers_msgs_read IN
    ~(p.hwm > 0 /\ (d >= p.hwm \/ d < 0))

\* check_write () that finds the pipe full.
check_write(e) ==
    /\ pipe[e].out_active /\ State(e) = "active"
    /\ ~check_hwm(pipe[e])
    /\ pipe' = [pipe EXCEPT ![e].out_active = FALSE]
    /\ UNCHANGED <<upipe, cmds, sent, got, calls>>

Written(u, m) ==
    IF m.more THEN [u EXCEPT !.partial = Append(@, m)]
    ELSE [u EXCEPT !.complete = @ \o Append(u.partial, m), !.partial = <<>>]

\* What the two users do leaves less for them to do; a hiccup counts twice.
MayCall ==
    LET n(e) == sent[e].num + sent[e].credentials + 2 * calls[e].hiccups
    IN  n(1) + n(2) < MaxCalls

\* The parts the user of an end can write next: the last part of the message it
\* has begun, or else a first part or, where an engine has just authenticated its
\* peer, a credential (which has the number of the message before it).
NextParts(e) ==
    IF sent[e].more
    THEN {[kind |-> "data", num |-> sent[e].num, more |-> FALSE]}
    ELSE {m \in [kind : {"data", "credential"}, num : {sent[e].num, sent[e].num + 1}, more : BOOLEAN] :
            /\ MayCall
            /\ m.kind = "data" => m.num = sent[e].num + 1 /\ m.num <= MaxMsgs[e]
                                  /\ (m.more <=> e \in MultiPart)
            /\ m.kind = "credential" => e \in Credential /\ sent[e].credentials < MaxCredentials
                                        /\ m.num = sent[e].num /\ ~m.more}

\* What the user of an end has written after the part m.
SentAfter(s, m) ==
    [s EXCEPT !.num = m.num, !.more = m.more,
              !.credentials = IF m.kind = "credential" THEN @ + 1 ELSE @]

\* The message begun is withdrawn.
Withdrawn(s) == [s EXCEPT !.num = @ - 1, !.more = FALSE]

\* Variant that checks the watermark after it has written.
write_ThenCheck(e) ==
    /\ pipe[e].out_active /\ State(e) = "active"
    /\ \E m \in NextParts(e) :
         /\ upipe' = [upipe EXCEPT ![pipe[e].outpipe] = Written(@, m)]
         /\ pipe' = [pipe EXCEPT ![e].msgs_written = IF m.more THEN @ ELSE @ + 1,
                                 ![e].out_active = check_hwm(pipe[e])]
         /\ sent' = [sent EXCEPT ![e] = SentAfter(@, m)]
    /\ UNCHANGED <<cmds, got, calls>>

\* write () that succeeds.  (Messages with an identity are not counted on
\* either side and do not occur here.)
write(e) ==
    /\ pipe[e].out_active /\ State(e) = "active"
    /\ check_hwm(pipe[e])
    /\ \E m \in NextParts(e) :
         /\ upipe' = [upipe EXCEPT ![pipe[e].outpipe] = Written(@, m)]
         /\ pipe' = [pipe EXCEPT ![e].msgs_written = IF m.more THEN @ ELSE @ + 1]
         /\ sent' = [sent EXCEPT ![e] = SentAfter(@, m)]
    /\ UNCHANGED <<cmds, got, calls>>

\* rollback (): the message begun is withdrawn.
rollback(e) ==
    /\ Alive(e) /\ pipe[e].outpipe # NULL
    /\ upipe[pipe[e].outpipe].partial # <<>>
    /\ upipe' = [upipe EXCEPT ![pipe[e].outpipe].partial = <<>>]
    /\ sent' = [sent EXCEPT ![e] = Withdrawn(@)]
    /\ UNCHANGED <<pipe, cmds, got, calls>>

\* Variant that ignores the result of the flush.
flush_Silent(e) ==
    LET o == pipe[e].outpipe IN
    /\ Alive(e) /\ State(e) # "term_ack_sent" /\ o # NULL
    /\ upipe[o].complete # <<>>
    /\ upipe' = [upipe EXCEPT ![o] = FlushedUpipe(@)]
    /\ UNCHANGED <<pipe, cmds, sent, got, calls>>

flush(e) ==
    LET o == pipe[e].outpipe IN
    /\ Alive(e) /\ State(e) # "term_ack_sent" /\ o # NULL
    /\ upipe[o].complete # <<>>
    /\ upipe' = [upipe EXCEPT ![o] = FlushedUpipe(@)]
    /\ Send(e, IF FlushFails(upipe[o]) THEN <<Cmd("activate_read")>> ELSE <<>>)
    /\ UNCHANGED <<pipe, sent, got, calls>>
-----------------------------------------------------------------------------
(* Reading *)

\* Variant that acknowledges a termination it has not been asked for.
process_delimiter_AcksAtOnce(e, p) ==
    /\ pipe' = [pipe EXCEPT ![e] = [p EXCEPT !.state = "term_ack_sent", !.outpipe = NULL]]
    /\ Send(e, <<Cmd("pipe_term_ack")>>)

\* process_delimiter (), on the fields the caller has already updated.
process_delimiter(e, p) ==
    IF p.state = "active"
    THEN /\ pipe' = [pipe EXCEPT ![e] = [p EXCEPT !.state = "delimiter_received"]]
         /\ UNCHANGED cmds
    ELSE /\ pipe' = [pipe EXCEPT ![e] = [p EXCEPT !.state = "term_ack_sent",
                                                  !.outpipe = NULL]]
         /\ Send(e, <<Cmd("pipe_term_ack")>>)

\* The pipe is empty: the next flush of the peer will send activate_read.
ReadFails(e) ==
    /\ pipe' = [pipe EXCEPT ![e].in_active = FALSE]
    /\ upipe' = [upipe EXCEPT ![pipe[e].inpipe].flushed = <<>>,
                              ![pipe[e].inpipe].asleep = TRUE]
    /\ UNCHANGED <<cmds, sent, got, calls>>

\* check_read (): finds nothing, or a delimiter, which it consumes.  Otherwise
\* it changes nothing.
check_read(e) ==
    LET q == upipe[pipe[e].inpipe].flushed IN
    /\ Readable(e) /\ pipe[e].in_active
    /\ \/ q = <<>> /\ ReadFails(e)
       \/ /\ q # <<>> /\ Head(q).kind = "delimiter"
          /\ upipe' = [upipe EXCEPT ![pipe[e].inpipe].flushed = Tail(q)]
          /\ process_delimiter(e, pipe[e])
          /\ UNCHANGED <<sent, got, calls>>

\* Whether the reader reports its progress to the writer.
ActivateWrite(p) == p.lwm > 0 /\ p.msgs_read % p.lwm = 0

\* read () finds a message part m, which it counts and may report.
ReadPart(e, m) ==
    LET p == [pipe[e] EXCEPT !.msgs_read = IF m.more THEN @ ELSE @ + 1] IN
    /\ pipe' = [pipe EXCEPT ![e] = p]
    /\ Send(e, IF ActivateWrite(p)
               THEN <<[type |-> "activate_write", arg |-> p.msgs_read]>>
               ELSE <<>>)
    /\ got' = [got EXCEPT ![e] = [num |-> m.num, more |-> m.more]]

\* read (): the k credentials at the head of the queue are taken out; behind them
\* is a message part, a delimiter, or nothing.
read(e) ==
    LET q == upipe[pipe[e].inpipe].flushed IN
    /\ Readable(e) /\ pipe[e].in_active
    /\ \E k \in 0..Len(q) :
         /\ \A i \in 1..k : q[i].kind = "credential"
         /\ \/ k = Len(q) /\ ReadFails(e)
            \/ /\ k < Len(q) /\ q[k + 1].kind # "credential"
               /\ upipe' = [upipe EXCEPT ![pipe[e].inpipe].flushed = SubSeq(q, k + 2, Len(q))]
               /\ IF q[k + 1].kind = "delimiter"
                  THEN process_delimiter(e, pipe[e]) /\ UNCHANGED got
                  ELSE ReadPart(e, q[k + 1])
               /\ UNCHANGED <<sent, calls>>
-----------------------------------------------------------------------------
(* Termination and hiccup *)

\* Variant that does not roll back: the delimiter completes the message begun.
WithDelimiter_NoRollback(u) ==
    FlushedUpipe([u EXCEPT !.complete = @ \o Append(u.partial, Delimiter), !.partial = <<>>])

\* The tail of terminate (): roll back, write the delimiter, flush.
WithDelimiter(u) ==
    FlushedUpipe([u EXCEPT !.partial = <<>>, !.complete = Append(@, Delimiter)])

\* The value terminate () stores in 'delay' is never read: the field matters to
\* an active end only, and no end is active afterwards.
\* In waiting_for_delimiter every call with a delay writes another delimiter:
\* there, such calls are bounded.
BoundedTerms(e, delay) ==
    LET again == delay /\ State(e) = "waiting_for_delimiter" IN
    /\ again => calls[e].terms < MaxTerms
    /\ calls' = IF again THEN [calls EXCEPT ![e].terms = @ + 1] ELSE calls

terminate(e, delay) ==
    LET p == pipe[e]
        q == CASE p.state \in {"active", "delimiter_received"} ->
                    [p EXCEPT !.state = "term_req_sent1", !.out_active = FALSE]
               [] p.state = "waiting_for_delimiter" /\ ~delay ->
                    [p EXCEPT !.state = "term_ack_sent", !.outpipe = NULL,
                              !.out_active = FALSE]
               [] p.state = "waiting_for_delimiter" /\ delay ->
                    [p EXCEPT !.out_active = FALSE]
               [] OTHER -> p
        request == CASE p.state \in {"active", "delimiter_received"} -> <<Cmd("pipe_term")>>
                     [] p.state = "waiting_for_delimiter" /\ ~delay -> <<Cmd("pipe_term_ack")>>
                     [] OTHER -> <<>>
        o == q.outpipe
        delimit == o # NULL /\ p.state \in {"active", "delimiter_received", "waiting_for_delimiter"}
    IN
    /\ Alive(e) /\ BoundedTerms(e, delay)
    /\ pipe' = [pipe EXCEPT ![e] = q]
    /\ IF delimit
       THEN /\ upipe' = [upipe EXCEPT ![o] = WithDelimiter(@)]
            /\ sent' = [sent EXCEPT ![e] =
                          IF @.more THEN Withdrawn(@) ELSE @]
            /\ Send(e, request \o
                       IF upipe[o].asleep THEN <<Cmd("activate_read")>> ELSE <<>>)
       ELSE Send(e, request) /\ UNCHANGED <<upipe, sent>>
    /\ UNCHANGED got

\* hiccup (): the reader drops its inpipe and gives the peer a new one.  Its user
\* is a session that has read the rest of a message it had begun to read
\* (clean_pipes () in engine_error ()).
hiccup(e) ==
    LET n == 2 + calls[1].hiccups + calls[2].hiccups + 1 IN
    /\ e \in Hiccuper /\ State(e) = "active" /\ ~got[e].more
    /\ n \in UpipeId /\ MayCall
    /\ calls' = [calls EXCEPT ![e].hiccups = @ + 1]
    /\ upipe' = [upipe EXCEPT ![n] = NewUpipe]
    /\ pipe' = [pipe EXCEPT ![e].inpipe = n, ![e].in_active = TRUE]
    /\ Send(e, <<[type |-> "hiccup", arg |-> n]>>)
    /\ UNCHANGED <<sent, got>>

\* set_hwms () from setsockopt (), with the boosts given at connection.  It makes
\* no difference to an end that is not active: that end writes no more, and
\* what it reports to its peer, which is terminating, wakes nobody.
HwmOf(v) == IF v <= 0 \/ Boost <= 0 THEN 0 ELSE v + Boost
set_hwms(e) ==
    /\ e \in Tuner /\ State(e) = "active" /\ calls[e].hwms = 0
    /\ calls' = [calls EXCEPT ![e].hwms = 1]
    /\ \E v \in NewHwm : pipe' = [pipe EXCEPT ![e].lwm = compute_lwm(HwmOf(v)),
                                              ![e].hwm = HwmOf(v)]
    /\ UNCHANGED <<upipe, cmds, sent, got>>
-----------------------------------------------------------------------------
(* Commands from the peer *)

Receive(e, type) == /\ Alive(e) /\ cmds[e] # <<>>
                    /\ Head(cmds[e]).type = type

\* The command is consumed and cs is sent to the peer.
Reply(e, cs) == cmds' = [cmds EXCEPT ![e] = Tail(@), ![peer(e)] = @ \o cs]

process_activate_read(e) ==
    /\ Receive(e, "activate_read")
    /\ pipe' = [pipe EXCEPT ![e].in_active = @ \/ Readable(e)]
    /\ Reply(e, <<>>)
    /\ UNCHANGED <<upipe, sent, got, calls>>

\* Variant that remembers the number only.
process_activate_write_NoWake(e) ==
    /\ Receive(e, "activate_write")
    /\ pipe' = [pipe EXCEPT ![e].peers_msgs_read = Head(cmds[e]).arg]
    /\ Reply(e, <<>>)
    /\ UNCHANGED <<upipe, sent, got, calls>>

process_activate_write(e) ==
    /\ Receive(e, "activate_write")
    /\ pipe' = [pipe EXCEPT ![e].peers_msgs_read = Head(cmds[e]).arg,
                            ![e].out_active = @ \/ State(e) = "active"]
    /\ Reply(e, <<>>)
    /\ UNCHANGED <<upipe, sent, got, calls>>

\* The messages counted when the old outpipe is emptied.
Dropped(u) ==
    LET q == u.flushed \o u.complete IN Cardinality({n \in DOMAIN q : ~q[n].more})

\* The old outpipe is flushed, emptied and deleted, with what there is of a
\* message that the user has begun: the user goes on with its next part.
process_hiccup(e) ==
    LET o == pipe[e].outpipe IN
    /\ Receive(e, "hiccup")
    /\ upipe' = [upipe EXCEPT ![o] = NoUpipe]
    /\ pipe' = [pipe EXCEPT ![e].msgs_written = @ - Dropped(upipe[o]),
                            ![e].outpipe = Head(cmds[e]).arg,
                            ![e].out_active = TRUE]
    /\ sent' = [sent EXCEPT ![e].cut = IF sent[e].more THEN @ \cup {sent[e].num} ELSE @]
    /\ Reply(e, <<>>)
    /\ UNCHANGED <<got, calls>>

\* Variant that acknowledges and keeps its pointer to the outpipe.
process_pipe_term_KeepsOutpipe(e) ==
    LET p == pipe[e]
        waits == p.state = "active" /\ p.delay
    IN
    /\ Receive(e, "pipe_term")
    /\ pipe' = [pipe EXCEPT ![e].state = IF waits THEN "waiting_for_delimiter"
                                         ELSE IF @ = "term_req_sent1"
                                         THEN "term_req_sent2" ELSE "term_ack_sent"]
    /\ Reply(e, IF waits THEN <<>> ELSE <<Cmd("pipe_term_ack")>>)
    /\ UNCHANGED <<upipe, sent, got, calls>>

process_pipe_term(e) ==
    LET p == pipe[e]
        waits == p.state = "active" /\ p.delay
    IN
    /\ Receive(e, "pipe_term")
    /\ pipe' = [pipe EXCEPT ![e] =
         IF waits THEN [p EXCEPT !.state = "waiting_for_delimiter"]
         ELSE [p EXCEPT !.outpipe = NULL,
                        !.state = IF p.state = "term_req_sent1"
                                  THEN "term_req_sent2" ELSE "term_ack_sent"]]
    /\ Reply(e, IF waits THEN <<>> ELSE <<Cmd("pipe_term_ack")>>)
    /\ UNCHANGED <<upipe, sent, got, calls>>

\* Variant that does not answer when both ends terminate.
process_pipe_term_ack_Silent(e) ==
    /\ Receive(e, "pipe_term_ack")
    /\ upipe' = [upipe EXCEPT ![pipe[e].inpipe] = NoUpipe]
    /\ pipe' = [pipe EXCEPT ![e] = Gone]
    /\ Reply(e, <<>>)
    /\ UNCHANGED <<sent, got, calls>>

\* The inpipe is emptied and deleted, then the object itself.
process_pipe_term_ack(e) ==
    /\ Receive(e, "pipe_term_ack")
    /\ upipe' = [upipe EXCEPT ![pipe[e].inpipe] = NoUpipe]
    /\ pipe' = [pipe EXCEPT ![e] = Gone]
    /\ Reply(e, IF State(e) = "term_req_sent1" THEN <<Cmd("pipe_term_ack")>> ELSE <<>>)
    /\ UNCHANGED <<sent, got, calls>>
-----------------------------------------------------------------------------
process_command(e) ==
    \/ process_activate_read(e) \/ process_activate_write(e)
    \/ process_hiccup(e)
    \/ process_pipe_term(e) \/ process_pipe_term_ack(e)

Next == \E e \in End :
    \/ check_write(e) \/ write(e) \/ rollback(e) \/ flush(e)
    \/ check_read(e) \/ read(e)
    \/ \E delay \in Delays : terminate(e, delay)
    \/ hiccup(e) \/ set_hwms(e)
    \/ process_command(e)

Spec == Init /\ [][Next]_vars

\* Threads process their commands and the users of both ends flush what they
\* wrote and keep reading.
Fairness == \A e \in End : /\ WF_vars(process_command(e))
                           /\ WF_vars(flush(e))
                           /\ WF_vars(read(e))

\* A user that must not wait for the peer's messages says so: with a linger of
\* zero, or when the linger period ends.
GivesUp(e) == State(e) = "waiting_for_delimiter" /\ terminate(e, FALSE)

FairSpec == Spec /\ Fairness
LingerSpec == FairSpec /\ \A e \in End : WF_vars(GivesUp(e))
-----------------------------------------------------------------------------
States == {"active", "delimiter_received", "waiting_for_delimiter",
           "term_ack_sent", "term_req_sent1", "term_req_sent2", "gone"}

Part == [kind : {"data", "credential", "delimiter"}, num : Int, more : BOOLEAN]
Upipe == [flushed : Seq(Part), complete : Seq(Part), partial : Seq(Part),
          asleep : BOOLEAN, live : BOOLEAN]
PipeObject == [state : States, inpipe : UpipeId \cup {NULL}, outpipe : UpipeId \cup {NULL},
               in_active : BOOLEAN, out_active : BOOLEAN, hwm : Nat, lwm : Nat,
               msgs_read : Nat, msgs_written : Int, peers_msgs_read : Nat, delay : BOOLEAN]
Said == [num : Int, more : BOOLEAN, credentials : Nat, cut : SUBSET Int]
Command == [type : {"activate_read", "activate_write", "hiccup", "pipe_term", "pipe_term_ack"},
            arg : Nat]

TypeOK ==
    /\ upipe \in [UpipeId -> Upipe]
    /\ pipe \in [End -> PipeObject]
    /\ cmds \in [End -> Seq(Command)]
    /\ sent \in [End -> Said]
    /\ got \in [End -> [num : Int, more : BOOLEAN]]
    /\ calls \in [End -> [terms : Nat, hiccups : Nat, hwms : Nat]]

\* The assertions of the handlers hold: a command always finds its receiver in
\* a state the handler accepts, whatever the two users did in the meantime.
ValidCommands == \A e \in End : cmds[e] # <<>> =>
    CASE Head(cmds[e]).type = "pipe_term" ->
           State(e) \in {"active", "delimiter_received", "term_req_sent1"}
      [] Head(cmds[e]).type = "pipe_term_ack" ->
           State(e) \in {"term_req_sent1", "term_ack_sent", "term_req_sent2"}
      [] Head(cmds[e]).type = "hiccup" -> pipe[e].outpipe # NULL
      [] OTHER -> Alive(e)

\* Nothing deleted is used and nothing is leaked: an end that is gone has no
\* command on its way to it, an end uses only live lock-free pipes, and one
\* that nobody uses is deleted, or its new owner is about to learn of it.
NoDangling ==
    /\ \A e \in End : ~Alive(e) => cmds[e] = <<>>
    /\ \A i \in UpipeId : upipe[i].live <=>
         \E e \in End : \/ pipe[e].inpipe = i \/ pipe[e].outpipe = i
                        \/ \E n \in DOMAIN cmds[e] : cmds[e][n].type = "hiccup"
                                                     /\ cmds[e][n].arg = i

IsWhole(m) == ~m.more /\ m.kind # "delimiter"
Unread(i) == LET q == upipe[i].flushed \o upipe[i].complete
             IN  {n \in DOMAIN q : IsWhole(q[n])}

\* The watermark is a hard limit on the messages in the queue, and the
\* counters it is computed from never wrap around: what the writer was told
\* never exceeds what was written, even when a hiccup takes messages back.
HwmRespected == \A e \in End : State(e) = "active" =>
    /\ pipe[e].hwm > 0 => Cardinality(Unread(pipe[e].outpipe)) <= pipe[e].hwm
    /\ pipe[e].peers_msgs_read <= pipe[e].msgs_written

\* A reader that gave up reading is told when there is something to read.
NoLostActivation == \A e \in End :
    /\ Readable(e) /\ ~pipe[e].in_active
    /\ upipe[pipe[e].inpipe].flushed # <<>>
    => \E n \in DOMAIN cmds[e] : cmds[e][n].type = "activate_read"

\* Messages are read in order and whole, even across rollbacks and when the
\* writer terminates in the middle of one: the last part is there as soon as the
\* first can be read.  Only a hiccup makes the reader miss some: all of a
\* message, or its beginning if the writer was in the middle of it.
InOrder == [][\A e \in End :
    LET q == upipe[pipe[e].inpipe].flushed IN
    /\ Readable(e) /\ got[e].more =>
         q # <<>> /\ Head(q) = [kind |-> "data", num |-> got[e].num, more |-> FALSE]
    /\ got'[e] # got[e] =>
         IF got[e].more THEN got'[e] = [got[e] EXCEPT !.more = FALSE]
         ELSE /\ \/ got'[e].num = got[e].num + 1
                 \/ got'[e].num > got[e].num /\ e \in Hiccuper
              /\ \/ got'[e].more <=> peer(e) \in MultiPart
                 \/ ~got'[e].more /\ e \in Hiccuper /\ got'[e].num \in sent[peer(e)].cut]_vars

\* A credential counts as written and never as read, so that each takes a place
\* of the watermark for good.  They leave too few for a report of the reader to
\* make room: the writer may then be stopped for ever.
Choked(e) ==
    pipe[e].hwm > 0 /\ pipe[e].hwm - sent[e].credentials < pipe[peer(e)].lwm

\* A writer stopped by the watermark resumes, unless the pipe terminates or the
\* credentials it has written fill the pipe.
BlockedWriterResumes == \A e \in End :
    (State(e) = "active" /\ ~pipe[e].out_active)
        ~> (State(e) # "active" \/ pipe[e].out_active \/ Choked(e))

\* Once one end terminates, both objects and all their queues disappear.
Terminates ==
    (\E e \in End : State(e) = "term_req_sent1") ~> (\A e \in End : ~Alive(e))

\* The parts of the specification that a run checks together: every command
\* finds its receiver in a state the handler accepts, and what the handlers
\* use, and only that, is still there.
NothingDangles == TypeOK /\ ValidCommands /\ NoDangling

\* Neither end waits for ever for the other: not with messages to write
\* (process_activate_write), and not to be deleted (process_pipe_term_ack).
Progress == BlockedWriterResumes /\ Terminates
=============================================================================
