------------------------------ MODULE Sockets ------------------------------
(***************************************************************************)
(* The socket types that exchange messages with one peer at a time: PUSH,  *)
(* PULL, PAIR, DEALER, REQ, ROUTER, REP, STREAM, and the thread-safe       *)
(* CLIENT, SERVER, SCATTER and GATHER.                                     *)
(*                                                                         *)
(* One socket of any of these types, with its pipes.  Its methods run in   *)
(* one thread, one after the other: the calls of the application, and the  *)
(* handlers of the commands that its pipes receive (a peer has written,    *)
(* has read, has gone).  What makes them hard is their order: each of the  *)
(* handlers may run between any two parts of a message.                    *)
(*                                                                         *)
(* The socket is the record s, its methods are operators from s to a new   *)
(* one; r.rc is the return value of a method, s.ok that no assertion has   *)
(* failed.                                                                 *)
(***************************************************************************)
EXTENDS Balance, FiniteSets

CONSTANTS Pipes,             \* pipes, each attached at most once
          Cases,             \* the types of the socket, each with the bounds on
                             \* the pipes that are attached, the messages of each
                             \* peer (in) and those of the application (out)
          Name,              \* an identity that peers may give themselves
          MaxIds,            \* bound on the request ids
          QuietDisconnect,   \* zmq_disconnect is not called within a receive
          KeepsTurn          \* no pipe ends that would move the one in turn

ASSUME BoundsAssumption ==
    /\ \A c \in Cases : c.pipes \in Nat /\ c.in \in Nat /\ c.out \in Nat
    /\ MaxIds \in Nat

RidMod == 8   \* the width of the generated identities, 2^32 in the code

VARIABLES case,   \* the type of the socket, with its bounds
          opt,    \* the socket's own options
          s,      \* the fields of the socket object, its lb_t, fq_t and pipes
          nin,    \* Pipes -> number of messages its peer has sent
          out,    \* message and part the application sends next, to whom, and the
        \* messages of which a later part was refused
          got     \* the parts it has received since the last message ended

vars == <<case, opt, s, nin, out, got>>

kind == case.kind   \* options.type

Anonymous == 0   \* an empty identity message; generated identities follow

RouterKinds == {"ROUTER", "REP"}
HasLb == {"PUSH", "DEALER", "REQ", "CLIENT", "SCATTER"}
HasFq == {"PULL", "DEALER", "REQ", "CLIENT", "GATHER", "ROUTER", "REP", "STREAM", "SERVER"}

\* set_nodelay () is called on the pipes of sockets that never read.
NoDelay == {"PUSH", "SCATTER"}

Body(p, n, i, more) == [part |-> "body", p |-> p, n |-> n, i |-> i, more |-> more]
Bottom == [part |-> "bottom", p |-> NoPipe, n |-> 0, i |-> 0, more |-> TRUE]
\* Variant that does not fill the frame in.
RequestId_Same(n) == [part |-> "request_id", p |-> NoPipe, n |-> 0, i |-> 0, more |-> TRUE]
RequestId(n) == [part |-> "request_id", p |-> NoPipe, n |-> n, i |-> 0, more |-> TRUE]
Identity(id, more) == [part |-> "identity", p |-> NoPipe, n |-> id, i |-> 0, more |-> more]
Probe == [part |-> "probe", p |-> NoPipe, n |-> 0, i |-> 0, more |-> FALSE]

Bodies(ms) == SelectSeq(ms, LAMBDA m : m.part \in {"body", "empty"})

Options == [handover : BOOLEAN, mandatory : BOOLEAN, strict : BOOLEAN,
            correlate : BOOLEAN, probe_router : BOOLEAN]

\* The options that a type has; the others keep their defaults.  (handover
\* and mandatory are not read by the same method and are not combined.)
OptionsOf(k) == {o \in Options :
    /\ ~(o.handover /\ o.mandatory)
    /\ k # "ROUTER" => o.handover = FALSE /\ o.mandatory = FALSE
    /\ k # "REQ" => o.strict = TRUE /\ o.correlate = FALSE
    /\ k # "DEALER" => o.probe_router = FALSE}

NoneAttached == [p \in Pipes |-> [NewPipe EXCEPT !.state = "none"]]

\* The constructors.
Init ==
    /\ case \in Cases
    /\ opt \in OptionsOf(kind)
    /\ s = [P |-> NoneAttached, lb |-> Lb, fq |-> Fq, ok |-> TRUE,
            pair |-> NoPipe,
            \* req_t
            receiving_reply |-> FALSE, message_begins |-> TRUE,
            reply_pipe |-> NoPipe, request_id |-> 0,
            \* rep_t
            sending_reply |-> FALSE, request_begins |-> TRUE,
            \* router_t, stream_t and server_t
            prefetched |-> FALSE, identity_sent |-> FALSE,
            prefetched_id |-> Anonymous, prefetched_msg |-> Delimiter,
            current_in |-> NoPipe, terminate_current_in |-> FALSE, more_in |-> FALSE,
            current_out |-> NoPipe, more_out |-> FALSE,
            next_rid |-> IF kind = "SERVER" THEN RidMod - 1 ELSE 1,
            anonymous_pipes |-> {}, outpipes |-> {},
            identity |-> [p \in Pipes |-> Anonymous]]
    /\ nin = [p \in Pipes |-> 0]
    /\ out = [n |-> 1, i |-> 1, to |-> NoPipe, cut |-> {}]
    /\ got = <<>>

Check(t, cond) == [t EXCEPT !.ok = @ /\ cond]
Result(t, rc, msg) == [s |-> t, rc |-> rc, msg |-> msg]
Nothing == Delimiter

\* A finished message is looked at once, when the call has returned it.
InMessage == got # <<>> /\ got[Len(got)].more
Held == IF InMessage THEN got ELSE <<>>

(***************************************************************************)
(* DEALER, and what the other types share with it.                         *)
(***************************************************************************)
Sent(t, r) == [s |-> [t EXCEPT !.lb = r.lb, !.P = r.P], rc |-> r.rc, msg |-> Nothing, to |-> r.to]

sendpipe(t, m) == Sent(t, lb_sendpipe(t.lb, t.P, m))

Received(t, r) ==
    [s |-> Check([t EXCEPT !.fq = r.fq, !.P = r.P], r.ok), rc |-> r.rc, msg |-> r.msg, from |-> r.from]

recvpipe(t) == Received(t, fq_recvpipe(t.fq, t.P))

dealer_xattach_pipe(t, p) ==
    LET t1 == IF opt.probe_router
              THEN [t EXCEPT !.P = flush(write(@, p, Probe), p)] ELSE t
    IN  [t1 EXCEPT !.fq = attach(@, p), !.lb = attach(@, p)]

push_xattach_pipe(t, p) == [t EXCEPT !.lb = attach(@, p)]
pull_xattach_pipe(t, p) == [t EXCEPT !.fq = attach(@, p)]

dealer_xpipe_terminated(t, p) ==
    [t EXCEPT !.fq = fq_pipe_terminated(@, p), !.lb = lb_pipe_terminated(@, p)]

push_xpipe_terminated(t, p) == [t EXCEPT !.lb = lb_pipe_terminated(@, p)]
pull_xpipe_terminated(t, p) == [t EXCEPT !.fq = fq_pipe_terminated(@, p)]

\* CLIENT, SCATTER and SERVER refuse multi-part messages (EINVAL).
Refused(t) == Result(t, -2, Nothing)

client_xsend(t, m) == IF m.more THEN Refused(t) ELSE sendpipe(t, m)
scatter_xsend(t, m) == IF m.more THEN Refused(t) ELSE sendpipe(t, m)

\* CLIENT, GATHER and SERVER drop the multi-part messages they receive.
RECURSIVE RecvRest(_)
RecvRest(r) == IF r.rc = 0 /\ r.msg.more THEN RecvRest(recvpipe(r.s)) ELSE r

Unwanted(r) == r.rc = 0 /\ r.msg.more

RECURSIVE SinglePart(_)
SinglePart(r) ==
    IF ~Unwanted(r) THEN r
    ELSE LET rest == RecvRest(recvpipe(r.s))
         IN  IF rest.rc # 0 THEN rest ELSE SinglePart(recvpipe(rest.s))

client_xrecv(t) == SinglePart(recvpipe(t))

gather_xrecv(t) == client_xrecv(t)

(***************************************************************************)
(* PAIR.                                                                   *)
(***************************************************************************)
pair_xattach_pipe(t, p) ==
    IF t.pair = NoPipe THEN [t EXCEPT !.pair = p]
    ELSE [t EXCEPT !.P = terminate(@, p, FALSE)]

pair_xpipe_terminated(t, p) == IF t.pair = p THEN [t EXCEPT !.pair = NoPipe] ELSE t

pair_xsend(t, m) ==
    IF t.pair = NoPipe THEN Result(t, -1, Nothing)
    ELSE IF ~check_write(t.P, t.pair)
    THEN Result([t EXCEPT !.P = WriteFailed(@, t.pair)], -1, Nothing)
    ELSE LET P1 == write(t.P, t.pair, m)
         IN  Result([t EXCEPT !.P = IF m.more THEN P1 ELSE flush(P1, t.pair)], 0, Nothing)

pair_xrecv(t) ==
    IF t.pair = NoPipe THEN Result(t, -1, Nothing)
    ELSE IF ~check_read(t.P, t.pair)
    THEN Result([t EXCEPT !.P = ReadFailed(@, t.pair)], -1, Nothing)
    ELSE Result([t EXCEPT !.P = read(@, t.pair)], 0, Head(t.P[t.pair].rx))

(***************************************************************************)
(* REQ.                                                                    *)
(***************************************************************************)
RECURSIVE FromReplyPipe(_)
FromReplyPipe(r) ==
    IF r.rc # 0 \/ r.s.reply_pipe \in {NoPipe, r.from} THEN r ELSE FromReplyPipe(recvpipe(r.s))

recv_reply_pipe(t) == FromReplyPipe(recvpipe(t))

\* Eat all currently available messages before the request is sent.
RECURSIVE Eat(_)
Eat(r) == IF r.rc # 0 THEN r.s ELSE Eat(recvpipe(r.s))

\* The first part of a request is preceded by its envelope: the bottom, and
\* with ZMQ_REQ_CORRELATE the number of the request before it.
BottomSent(r) ==
    IF r.rc # 0 THEN r
    ELSE Result(Eat(recvpipe(Check([r.s EXCEPT !.reply_pipe = r.to, !.message_begins = FALSE], r.to # NoPipe))),
                0, Nothing)

IdSent(r) == IF r.rc # 0 THEN r ELSE BottomSent(sendpipe([r.s EXCEPT !.reply_pipe = r.to], Bottom))

SendEnvelope(t) ==
    IF opt.correlate
    THEN IdSent(sendpipe([t EXCEPT !.reply_pipe = NoPipe, !.request_id = @ + 1], RequestId(t.request_id + 1)))
    ELSE BottomSent(sendpipe([t EXCEPT !.reply_pipe = NoPipe], Bottom))

RequestSent(r, m) ==
    IF r.rc = 0 /\ ~m.more
    THEN Result([r.s EXCEPT !.receiving_reply = TRUE, !.message_begins = TRUE], 0, Nothing) ELSE r

EnvelopeSent(e, m) == IF e.rc # 0 THEN e ELSE RequestSent(sendpipe(e.s, m), m)

req_xsend(t, m) ==
    IF t.receiving_reply /\ opt.strict THEN Refused(t)
    ELSE EnvelopeSent(IF t.receiving_reply \/ t.message_begins
                      THEN SendEnvelope([t EXCEPT !.receiving_reply = FALSE, !.message_begins = TRUE])
                      ELSE Result(t, 0, Nothing), m)

\* Skip the remaining frames of a message that is not wanted.
RECURSIVE SkipReply(_)
SkipReply(r) ==
    IF r.rc # 0 THEN [r EXCEPT !.s.ok = FALSE]
    ELSE IF r.msg.more THEN SkipReply(recv_reply_pipe(r.s)) ELSE r

\* The envelope of a reply: messages without the right one are skipped.
NextEnvelope(t) == [s |-> t, rc |-> 1, msg |-> Nothing]

RecvBottom(r) ==
    IF r.rc # 0 THEN r
    ELSE IF r.msg # Bottom THEN NextEnvelope(SkipReply(r).s)
    ELSE Result([r.s EXCEPT !.message_begins = FALSE], 0, Nothing)

RecvId(r) ==
    IF r.rc # 0 THEN r
    ELSE IF r.msg # RequestId(r.s.request_id) THEN NextEnvelope(SkipReply(r).s)
    ELSE RecvBottom(recv_reply_pipe(r.s))

RECURSIVE RecvEnvelope(_)
RecvEnvelope(r) ==
    IF r.rc # 1 THEN r
    ELSE RecvEnvelope(IF opt.correlate THEN RecvId(recv_reply_pipe(r.s)) ELSE RecvBottom(recv_reply_pipe(r.s)))

ReplyRead(r) ==
    IF r.rc = 0 /\ ~r.msg.more
    THEN Result([r.s EXCEPT !.receiving_reply = FALSE, !.message_begins = TRUE], 0, r.msg) ELSE r

EnvelopeRead(e) == IF e.rc # 0 THEN e ELSE ReplyRead(recv_reply_pipe(e.s))

req_xrecv(t) ==
    IF ~t.receiving_reply THEN Refused(t)
    ELSE EnvelopeRead(IF t.message_begins THEN RecvEnvelope(NextEnvelope(t)) ELSE Result(t, 0, Nothing))

req_xpipe_terminated(t, p) ==
    dealer_xpipe_terminated([t EXCEPT !.reply_pipe = IF @ = p THEN NoPipe ELSE @], p)

(***************************************************************************)
(* ROUTER.                                                                 *)
(***************************************************************************)
Lookup(t, id) == {o \in t.outpipes : o.id = id}
OutpipeOf(t, p) == {o \in t.outpipes : o.pipe = p}
NextRid(r) == (r + 1) % RidMod

AddOutpipe(t, p, id) ==
    Check([t EXCEPT !.identity[p] = id,
                     !.outpipes = @ \cup {[id |-> id, pipe |-> p, active |-> TRUE]}],
           Lookup(t, id) = {})

\* A new connection takes over the identity of o, which gets a generated one.
Handover(t, o) ==
    LET t1 == Check([t EXCEPT !.identity[o.pipe] = t.next_rid,
                               !.next_rid = NextRid(@),
                               !.outpipes = (@ \ {o}) \cup {[o EXCEPT !.id = t.next_rid]}],
                     Lookup(t, t.next_rid) = {})
    IN  IF o.pipe = t.current_in THEN [t1 EXCEPT !.terminate_current_in = TRUE]
        ELSE [t1 EXCEPT !.P = terminate(@, o.pipe, TRUE)]

\* identify_peer (): ok is the returned value.
identify_peer(t, p) ==
    LET m == Head(t.P[p].rx)
        t1 == [t EXCEPT !.P = read(@, p)]
        old == Lookup(t, m.n)
    IN  IF ~check_read(t.P, p)
        THEN [ok |-> FALSE, s |-> [t EXCEPT !.P = ReadFailed(@, p)]]
        ELSE IF m.n = Anonymous
        THEN [ok |-> TRUE, s |-> AddOutpipe([t1 EXCEPT !.next_rid = NextRid(@)], p, t.next_rid)]
        ELSE IF old = {} THEN [ok |-> TRUE, s |-> AddOutpipe(t1, p, m.n)]
        ELSE IF ~opt.handover THEN [ok |-> FALSE, s |-> t1]
        ELSE [ok |-> TRUE, s |-> AddOutpipe(Handover(t1, CHOOSE o \in old : TRUE), p, m.n)]

Identified(t, p) ==
    LET r == identify_peer(t, p)
    IN  IF r.ok THEN [r.s EXCEPT !.anonymous_pipes = @ \ {p}, !.fq = attach(@, p)]
        ELSE [r.s EXCEPT !.anonymous_pipes = @ \cup {p}]

router_xattach_pipe(t, p) == Identified(t, p)

router_xpipe_terminated(t, p) ==
    IF p \in t.anonymous_pipes THEN [t EXCEPT !.anonymous_pipes = @ \ {p}]
    ELSE Check([t EXCEPT !.outpipes = {o \in @ : o.id # t.identity[p]},
                          !.fq = fq_pipe_terminated(@, p),
                          !.current_out = IF @ = p THEN NoPipe ELSE @],
                Lookup(t, t.identity[p]) # {})

router_xread_activated(t, p) ==
    IF p \in t.anonymous_pipes THEN Identified(t, p)
    ELSE [t EXCEPT !.fq = activated(@, p)]

\* ROUTER, STREAM and SERVER.
router_xwrite_activated(t, p) ==
    Check([t EXCEPT !.outpipes = {IF o.pipe = p THEN [o EXCEPT !.active = TRUE] ELSE o : o \in @}],
           \E o \in OutpipeOf(t, p) : ~o.active)

\* The pipe of an outgoing message is full.
Inactive(t, o) == [t EXCEPT !.outpipes = (@ \ {o}) \cup {[o EXCEPT !.active = FALSE]},
                            !.P = WriteFailed(@, o.pipe)]

\* The first part: the identity of the peer.
SendIdentity(t, m) ==
    LET t1 == Check(t, t.current_out = NoPipe)
        o == CHOOSE o \in Lookup(t, m.n) : TRUE
    IN  IF ~m.more THEN Result(t1, 0, Nothing)
        ELSE IF Lookup(t, m.n) = {}
        THEN IF opt.mandatory THEN Result(t1, -2, Nothing)
             ELSE Result([t1 EXCEPT !.more_out = TRUE], 0, Nothing)
        ELSE IF ~check_write(t.P, o.pipe)
        THEN IF opt.mandatory THEN Result(Inactive(t1, o), -1, Nothing)
             ELSE Result([Inactive(t1, o) EXCEPT !.more_out = TRUE], 0, Nothing)
        ELSE Result([t1 EXCEPT !.more_out = TRUE, !.current_out = o.pipe], 0, Nothing)

\* Variant that goes on with the next message where the last one has failed.
SendPart_KeepsPipe(t, m) ==
    LET to == t.current_out
        t1 == [t EXCEPT !.more_out = m.more]
    IN  IF to = NoPipe THEN t1
        ELSE IF ~check_write(t.P, to) THEN [t1 EXCEPT !.P = WriteFailed(@, to)]
        ELSE IF m.more THEN [t1 EXCEPT !.P = write(@, to, m)]
        ELSE [t1 EXCEPT !.P = flush(write(@, to, m), to), !.current_out = NoPipe]

\* The other parts; without a pipe they are dropped.
SendPart(t, m) ==
    LET to == t.current_out
        t1 == [t EXCEPT !.more_out = m.more]
    IN  IF to = NoPipe THEN t1
        ELSE IF ~check_write(t.P, to)
        THEN [t1 EXCEPT !.P = WriteFailed(@, to), !.current_out = NoPipe]
        ELSE IF m.more THEN [t1 EXCEPT !.P = write(@, to, m)]
        ELSE [t1 EXCEPT !.P = flush(write(@, to, m), to), !.current_out = NoPipe]

router_xsend(t, m) ==
    IF ~t.more_out THEN SendIdentity(t, m) ELSE Result(SendPart(t, m), 0, Nothing)

\* Variant that stays in the middle of a reply to that peer.
router_rollback_KeepsPipe(t) ==
    IF t.current_out = NoPipe THEN t ELSE [t EXCEPT !.P = rollback(@, t.current_out)]

router_rollback(t) ==
    IF t.current_out = NoPipe THEN t
    ELSE [t EXCEPT !.P = rollback(@, t.current_out), !.current_out = NoPipe, !.more_out = FALSE]

\* The last part was returned; the connection may have lost its identity.
EndIn(t) ==
    LET t1 == [t EXCEPT !.current_in = NoPipe, !.terminate_current_in = FALSE]
    IN  IF ~t.terminate_current_in THEN t1
        ELSE Check([t1 EXCEPT !.P = terminate(@, t.current_in, TRUE)],
                    t.P[t.current_in].state # "gone")

\* After a reconnection the peer sends its identity again.
RECURSIVE NoIdentity(_)
NoIdentity(r) ==
    IF r.rc = 0 /\ r.msg.part = "identity" THEN NoIdentity(recvpipe(r.s)) ELSE r

Prefetched(t) ==
    IF ~t.identity_sent
    THEN Result([t EXCEPT !.identity_sent = TRUE, !.more_in = TRUE], 0,
                Identity(t.prefetched_id, TRUE))
    ELSE LET m == t.prefetched_msg
             t1 == [t EXCEPT !.prefetched = FALSE, !.prefetched_msg = Nothing,
                             !.more_in = m.more]
         IN  Result(IF m.more THEN t1 ELSE EndIn(t1), 0, m)

PartIn(t, m) == Result(IF m.more THEN [t EXCEPT !.more_in = TRUE] ELSE EndIn([t EXCEPT !.more_in = FALSE]), 0, m)

FirstIn(r) ==
    IF r.rc # 0 THEN r
    ELSE IF r.s.more_in THEN PartIn(r.s, r.msg)
    ELSE Result([r.s EXCEPT !.prefetched_msg = r.msg, !.prefetched = TRUE,
                            !.current_in = r.from, !.identity_sent = TRUE],
                0, Identity(r.s.identity[r.from], TRUE))

router_xrecv(t) == IF t.prefetched THEN Prefetched(t) ELSE FirstIn(NoIdentity(recvpipe(t)))

Prefetch(r) ==
    IF r.rc # 0 THEN r.s
    ELSE [r.s EXCEPT !.prefetched_msg = r.msg, !.prefetched_id = r.s.identity[r.from],
                     !.prefetched = TRUE, !.identity_sent = FALSE, !.current_in = r.from]

router_xhas_in(t) == IF t.more_in \/ t.prefetched THEN t ELSE Prefetch(NoIdentity(recvpipe(t)))

(***************************************************************************)
(* REP: the identity and the labels of a request go straight back into the *)
(* reply pipe.                                                             *)
(***************************************************************************)
ReplySent(r, m) ==
    IF r.rc = 0 /\ ~m.more THEN Result([r.s EXCEPT !.sending_reply = FALSE], 0, Nothing) ELSE r

rep_xsend(t, m) == IF ~t.sending_reply THEN Refused(t) ELSE ReplySent(router_xsend(t, m), m)

LabelCopied(c) == Check(c.s, c.rc = 0)

\* r is what was read: a label goes into the reply, up to the bottom; what ends
\* before it is no request.
RECURSIVE CopyTraceback(_)
CopyTraceback(r) ==
    IF r.rc # 0 THEN r
    ELSE IF ~r.msg.more THEN CopyTraceback(router_xrecv(router_rollback(r.s)))
    ELSE LET t == LabelCopied(router_xsend(r.s, r.msg))
         IN  IF r.msg = Bottom THEN Result([t EXCEPT !.request_begins = FALSE], 0, Nothing)
             ELSE CopyTraceback(router_xrecv(t))

RequestRead(r) ==
    IF r.rc = 0 /\ ~r.msg.more
    THEN Result([r.s EXCEPT !.sending_reply = TRUE, !.request_begins = TRUE], 0, r.msg) ELSE r

TracebackRead(e) == IF e.rc # 0 THEN e ELSE RequestRead(router_xrecv(e.s))

rep_xrecv(t) ==
    IF t.sending_reply THEN Refused(t)
    ELSE TracebackRead(IF t.request_begins THEN CopyTraceback(router_xrecv(t)) ELSE Result(t, 0, Nothing))

(***************************************************************************)
(* STREAM: every message is an identity and one frame of data.             *)
(***************************************************************************)
stream_xattach_pipe(t, p) ==
    [AddOutpipe([t EXCEPT !.next_rid = NextRid(@)], p, t.next_rid) EXCEPT !.fq = attach(@, p)]

stream_xpipe_terminated(t, p) ==
    Check([t EXCEPT !.outpipes = {o \in @ : o.id # t.identity[p]},
                     !.fq = fq_pipe_terminated(@, p),
                     !.current_out = IF @ = p THEN NoPipe ELSE @],
           Lookup(t, t.identity[p]) # {})

stream_xsend(t, m) ==
    LET t1 == Check(t, t.more_out \/ t.current_out = NoPipe)
        o == CHOOSE o \in Lookup(t, m.n) : TRUE
        t2 == [t EXCEPT !.more_out = FALSE, !.current_out = NoPipe]
        to == t.current_out
    IN  IF ~t.more_out
        THEN IF ~m.more THEN Result([t1 EXCEPT !.more_out = TRUE], 0, Nothing)
             ELSE IF Lookup(t, m.n) = {} THEN Result(t1, -2, Nothing)
             ELSE IF ~check_write(t.P, o.pipe) THEN Result(Inactive(t1, o), -1, Nothing)
             ELSE Result([t1 EXCEPT !.more_out = TRUE, !.current_out = o.pipe], 0, Nothing)
        ELSE IF to = NoPipe THEN Result(t2, 0, Nothing)
        ELSE IF m.part = "empty" THEN Result([t2 EXCEPT !.P = terminate(@, to, FALSE)], 0, Nothing)
        ELSE IF ~check_write(t.P, to) THEN Result([t2 EXCEPT !.P = WriteFailed(@, to)], 0, Nothing)
        ELSE Result([t2 EXCEPT !.P = flush(write(@, to, [m EXCEPT !.more = FALSE]), to)], 0, Nothing)

StreamIn(r) ==
    IF r.rc # 0 THEN r
    ELSE Result(Check([r.s EXCEPT !.prefetched_msg = r.msg, !.prefetched = TRUE, !.identity_sent = TRUE],
                      ~r.msg.more), 0, Identity(r.s.identity[r.from], TRUE))

stream_xrecv(t) ==
    IF t.prefetched THEN [Prefetched(t) EXCEPT !.s.more_in = FALSE] ELSE StreamIn(recvpipe(t))

StreamPrefetch(r) ==
    IF r.rc # 0 THEN r.s
    ELSE Check([r.s EXCEPT !.prefetched_msg = r.msg, !.prefetched_id = r.s.identity[r.from],
                           !.prefetched = TRUE, !.identity_sent = FALSE], ~r.msg.more)

stream_xhas_in(t) == IF t.prefetched THEN t ELSE StreamPrefetch(recvpipe(t))

(***************************************************************************)
(* SERVER: the routing id of a message is an attribute, not a part; zero   *)
(* is never used.                                                          *)
(***************************************************************************)
server_xattach_pipe(t, p) ==
    LET id == IF t.next_rid = 0 THEN NextRid(0) ELSE t.next_rid
    IN  [AddOutpipe([t EXCEPT !.next_rid = NextRid(id)], p, id) EXCEPT !.fq = attach(@, p)]

server_xpipe_terminated(t, p) ==
    Check([t EXCEPT !.outpipes = {o \in @ : o.id # t.identity[p]},
                     !.fq = fq_pipe_terminated(@, p)],
           Lookup(t, t.identity[p]) # {})

server_xsend(t, id, m) ==
    LET o == CHOOSE o \in Lookup(t, id) : TRUE
    IN  IF m.more \/ Lookup(t, id) = {} THEN Refused(t)
        ELSE IF ~check_write(t.P, o.pipe) THEN Result(Inactive(t, o), -1, Nothing)
        ELSE Result([t EXCEPT !.P = flush(write(@, o.pipe, m), o.pipe)], 0, Nothing)

ServerIn(r) == IF r.rc # 0 THEN r ELSE Result(Check(r.s, r.from # NoPipe), 0, r.msg)

server_xrecv(t) == ServerIn(SinglePart(recvpipe(t)))

(***************************************************************************)
(* The virtual methods of socket_base_t.                                   *)
(***************************************************************************)
xattach_pipe(t, p) ==
    CASE kind \in {"DEALER", "REQ", "CLIENT"} -> dealer_xattach_pipe(t, p)
      [] kind \in {"PUSH", "SCATTER"} -> push_xattach_pipe(t, p)
      [] kind \in {"PULL", "GATHER"} -> pull_xattach_pipe(t, p)
      [] kind \in RouterKinds -> router_xattach_pipe(t, p)
      [] kind = "PAIR" -> pair_xattach_pipe(t, p)
      [] kind = "STREAM" -> stream_xattach_pipe(t, p)
      [] kind = "SERVER" -> server_xattach_pipe(t, p)

xpipe_terminated(t, p) ==
    CASE kind \in {"DEALER", "CLIENT"} -> dealer_xpipe_terminated(t, p)
      [] kind = "REQ" -> req_xpipe_terminated(t, p)
      [] kind \in {"PUSH", "SCATTER"} -> push_xpipe_terminated(t, p)
      [] kind \in {"PULL", "GATHER"} -> pull_xpipe_terminated(t, p)
      [] kind \in RouterKinds -> router_xpipe_terminated(t, p)
      [] kind = "PAIR" -> pair_xpipe_terminated(t, p)
      [] kind = "STREAM" -> stream_xpipe_terminated(t, p)
      [] kind = "SERVER" -> server_xpipe_terminated(t, p)

xread_activated(t, p) ==
    CASE kind \in RouterKinds -> router_xread_activated(t, p)
      [] kind \in HasFq \ RouterKinds -> [t EXCEPT !.fq = activated(@, p)]
      [] OTHER -> t

xwrite_activated(t, p) ==
    CASE kind \in HasLb -> [t EXCEPT !.lb = activated(@, p)]
      [] kind \in RouterKinds \cup {"STREAM", "SERVER"} -> router_xwrite_activated(t, p)
      [] OTHER -> t

xsend(t, id, m) ==
    CASE kind \in {"DEALER", "PUSH"} -> sendpipe(t, m)
      [] kind = "REQ" -> req_xsend(t, m)
      [] kind = "CLIENT" -> client_xsend(t, m)
      [] kind = "SCATTER" -> scatter_xsend(t, m)
      [] kind = "PAIR" -> pair_xsend(t, m)
      [] kind = "ROUTER" -> router_xsend(t, m)
      [] kind = "REP" -> rep_xsend(t, m)
      [] kind = "STREAM" -> stream_xsend(t, m)
      [] kind = "SERVER" -> server_xsend(t, id, m)

xrecv(t) ==
    CASE kind \in {"DEALER", "PULL"} -> recvpipe(t)
      [] kind = "REQ" -> req_xrecv(t)
      [] kind = "CLIENT" -> client_xrecv(t)
      [] kind = "GATHER" -> gather_xrecv(t)
      [] kind = "PAIR" -> pair_xrecv(t)
      [] kind = "ROUTER" -> router_xrecv(t)
      [] kind = "REP" -> rep_xrecv(t)
      [] kind = "STREAM" -> stream_xrecv(t)
      [] kind = "SERVER" -> server_xrecv(t)

FqHasIn(t) == LET r == fq_has_in(t.fq, t.P) IN [t EXCEPT !.fq = r.fq, !.P = r.P]
LbHasOut(t) == LET r == lb_has_out(t.lb, t.P) IN [t EXCEPT !.lb = r.lb, !.P = r.P]

xhas_in(t) ==
    CASE kind \in {"DEALER", "PULL", "CLIENT", "GATHER", "SERVER"} -> FqHasIn(t)
      [] kind = "REQ" -> IF t.receiving_reply THEN FqHasIn(t) ELSE t
      [] kind = "ROUTER" -> router_xhas_in(t)
      [] kind = "REP" -> IF t.sending_reply THEN t ELSE router_xhas_in(t)
      [] kind = "STREAM" -> stream_xhas_in(t)
      [] kind = "PAIR" /\ t.pair # NoPipe /\ ~check_read(t.P, t.pair) ->
            [t EXCEPT !.P = ReadFailed(@, t.pair)]
      [] OTHER -> t

xhas_out(t) ==
    CASE kind \in HasLb \ {"REQ"} -> LbHasOut(t)
      [] kind = "REQ" -> IF t.receiving_reply THEN t ELSE LbHasOut(t)
      [] kind = "PAIR" /\ t.pair # NoPipe /\ ~check_write(t.P, t.pair) ->
            [t EXCEPT !.P = WriteFailed(@, t.pair)]
      [] OTHER -> t

(***************************************************************************)
(* The pipes and their peers.                                              *)
(***************************************************************************)
\* process_activate_read (): new parts have arrived.
Arrive(t, p, ms) ==
    LET t1 == [t EXCEPT !.P[p].rx = @ \o ms]
    IN  IF t.P[p].in_active THEN t1
        ELSE xread_activated([t1 EXCEPT !.P[p].in_active = TRUE], p)

\* process_activate_write (): the peer has read a message.
Leave(t, p) ==
    LET t1 == [t EXCEPT !.P[p].tx = Tail(@)]
    IN  IF t.P[p].out_active \/ t.P[p].state # "active" THEN t1
        ELSE xwrite_activated([t1 EXCEPT !.P[p].out_active = TRUE], p)

\* A connection is made.  Its identity may be in the pipe already (inproc).
Attach(p) ==
    /\ s.P[p].state = "none" /\ Cardinality({q \in Pipes : s.P[q].state # "none"}) < case.pipes
    /\ \E ids \in IF kind = "ROUTER" THEN {<<>>, <<Identity(Name, FALSE)>>}
                  ELSE IF kind = "REP" THEN {<<Identity(Anonymous, FALSE)>>} ELSE {<<>>} :
          s' = xattach_pipe([s EXCEPT !.P[p] = [NewPipe EXCEPT !.rx = ids]], p)
    /\ got' = Held /\ UNCHANGED <<case, opt, nin, out>>

\* What a peer may send: to a ROUTER its identity comes first, and again
\* after it has reconnected; to a REP a request, or one without its envelope.
Offers(p, n) ==
    LET one == <<Body(p, n, 1, FALSE)>>
        two == <<Body(p, n, 1, TRUE), Body(p, n, 2, FALSE)>>
    IN  CASE kind = "ROUTER" /\ s.identity[p] = Anonymous ->
                IF s.P[p].in_active THEN {} ELSE {<<Identity(Anonymous, FALSE)>>, <<Identity(Name, FALSE)>>}
          [] kind = "ROUTER" /\ s.identity[p] # Anonymous -> {<<Identity(s.identity[p], FALSE)>> \o one, two}
          [] kind = "REP" -> {<<Bottom>> \o one, <<Bottom>> \o two, two}
          [] kind = "STREAM" -> {one}
          [] kind \in {"REQ", "PUSH", "SCATTER"} -> {}
          [] OTHER -> {one, two}

PeerSends(p) ==
    /\ s.P[p].state = "active" /\ nin[p] < case.in
    /\ \E ms \in Offers(p, nin[p] + 1) :
          /\ s' = Arrive(s, p, ms)
          /\ nin' = IF Bodies(ms) = <<>> THEN nin ELSE [nin EXCEPT ![p] = @ + 1]
    /\ got' = Held /\ UNCHANGED <<case, opt, out>>

PeerReads(p) ==
    /\ s.P[p].state \in {"active", "waiting"} /\ s.P[p].tx # <<>>
    /\ s' = Leave(s, p)
    /\ got' = Held /\ UNCHANGED <<case, opt, nin, out>>

\* The peer of a REQ answers a request: it returns the envelope it got.
PeerReplies(p) ==
    /\ kind = "REQ" /\ s.P[p].state = "active" /\ s.P[p].tx # <<>>
    /\ LET request == Head(s.P[p].tx)
           envelope == SelectSeq(request, LAMBDA m : m.part # "body")
           n == request[Len(request)].n
       IN  /\ Bottom \in {request[i] : i \in DOMAIN request}
           /\ s' = Arrive(Leave(s, p), p, Append(envelope, Body(p, n, 1, FALSE)))
    /\ got' = Held /\ UNCHANGED <<case, opt, nin, out>>

\* The peer terminates the pipe; without delay nothing more is read.
PeerCloses(p) ==
    /\ s.P[p].state = "active"
    /\ s' = IF kind \in NoDelay THEN [s EXCEPT !.P[p].state = "closing"]
            ELSE [Arrive(s, p, <<Delimiter>>) EXCEPT !.P[p].state = "waiting"]
    /\ got' = Held /\ UNCHANGED <<case, opt, nin, out>>

\* The end of p makes lb_t or fq_t go on with another pipe in the middle of
\* a message of the one in turn: the last active pipe takes the place of p,
\* and current goes back to the first one although the pipe in turn was the
\* last.  The array then yields parts of two messages (or none, and fq_t
\* fails its assertion), and the rest of what is sent goes to another peer.
TakesTurn(b, p) == b.more /\ Current(b) # p /\ Current(Remove(b, p)) # Current(b)

EndsInTurn(p) ==
    \/ kind \in HasFq /\ p \notin s.anonymous_pipes /\ TakesTurn(s.fq, p)
    \/ kind \in HasLb /\ ~s.lb.dropping /\ TakesTurn(s.lb, p)

\* process_pipe_term_ack () and socket_base_t::pipe_terminated ().
Terminated(p) ==
    /\ s.P[p].state = "closing"
    /\ KeepsTurn => ~EndsInTurn(p)
    /\ s' = xpipe_terminated([s EXCEPT !.P[p] = [NewPipe EXCEPT !.state = "gone"]], p)
    /\ got' = Held /\ UNCHANGED <<case, opt, nin, out>>

(***************************************************************************)
(* The application.                                                        *)
(***************************************************************************)
\* zmq_disconnect of the endpoint of p.
Disconnect(p) ==
    /\ s.P[p].state \in {"active", "waiting"}
    /\ QuietDisconnect => ~InMessage /\ ~s.prefetched /\ ~s.fq.more
    /\ s' = [s EXCEPT !.P = terminate(@, p, FALSE)]
    /\ got' = Held /\ UNCHANGED <<case, opt, nin, out>>

\* The parts that may follow: one or two of them, after the identity of a
\* known peer or of one that does not exist.
Targets == {o.id : o \in s.outpipes} \cup {Anonymous}
ThePipe(id) == LET os == Lookup(s, id) IN IF os = {} THEN NoPipe ELSE (CHOOSE o \in os : TRUE).pipe

NextParts ==
    LET body(to, i) == {Body(to, out.n, i, FALSE)} \cup (IF i = 1 THEN {Body(to, out.n, 1, TRUE)} ELSE {})
    IN  CASE kind = "ROUTER" -> IF out.i = 1 THEN {Identity(id, more) : id \in Targets, more \in BOOLEAN}
                                ELSE body(out.to, out.i - 1)
          [] kind = "STREAM" -> IF out.i = 1 THEN {Identity(id, more) : id \in Targets, more \in BOOLEAN}
                                ELSE {[m EXCEPT !.part = pt] : m \in body(out.to, 1), pt \in {"body", "empty"}}
          [] kind = "REP" -> body(out.to, out.i)
          [] OTHER -> body(NoPipe, out.i)

\* zmq_msg_send; a blocking call that fails with EAGAIN tries the same part
\* again once commands have been processed.
send ==
    /\ kind \notin {"PULL", "GATHER"}
    /\ out.n <= case.out /\ s.request_id < MaxIds
    /\ \E m \in NextParts, id \in (IF kind = "SERVER" THEN Targets ELSE {Anonymous}) :
         \E r \in {xsend(s, id, IF kind = "SERVER" THEN [m EXCEPT !.p = ThePipe(id)] ELSE m)} :
         LET last == ~m.more /\ ~(kind = "STREAM" /\ out.i = 1)
         IN  /\ s' = r.s
             /\ out' = IF r.rc # 0 THEN [out EXCEPT !.cut = IF out.i > 1 THEN @ \cup {out.n} ELSE @]
                       ELSE IF last \/ (kind = "STREAM" /\ out.i = 2)
                       THEN [out EXCEPT !.n = @ + 1, !.i = 1, !.to = NoPipe]
                       ELSE [out EXCEPT !.i = @ + 1,
                                        !.to = IF m.part = "identity" THEN ThePipe(m.n) ELSE @]
             /\ got' = Held
    /\ UNCHANGED <<case, opt, nin>>

\* zmq_msg_recv
recv ==
    /\ kind \notin {"PUSH", "SCATTER"}
    /\ \E r \in {xrecv(s)} :
           /\ s' = r.s
           /\ got' = IF r.rc # 0 THEN Held ELSE Append(Held, r.msg)
           /\ out' = IF kind = "REP" /\ r.rc = 0 THEN [out EXCEPT !.to = r.msg.p] ELSE out
    /\ UNCHANGED <<case, opt, nin>>

\* zmq_poll or ZMQ_EVENTS
poll ==
    /\ s' \in {xhas_in(s), xhas_out(s)}
    /\ got' = Held /\ UNCHANGED <<case, opt, nin, out>>

Next ==
    \/ \E p \in Pipes : \/ Attach(p) \/ PeerSends(p) \/ PeerReads(p) \/ PeerReplies(p)
                        \/ PeerCloses(p) \/ Terminated(p) \/ Disconnect(p)
    \/ send \/ recv \/ poll

Spec == Init /\ [][Next]_vars

(***************************************************************************)
(* Properties.                                                             *)
(***************************************************************************)
\* No zmq_assert or errno_assert of the sockets fails, and a ROUTER does not
\* use the pipe it is reading from after it has gone.  KeepsTurn leaves out the
\* steps after which fq_t fails its own (fq.cpp:118); without it this fails.
AssertionsHold == s.ok

\* A pipe behind the active ones of lb_t or fq_t is one that will be
\* activated: it has been found full, or empty, or it is going.  And no pipe
\* is lost from the lists.
NoForgottenPipe ==
    /\ \A i \in s.lb.active + 1..Len(s.lb.pipes) :
          LET p == s.P[s.lb.pipes[i]] IN ~(p.out_active /\ p.state = "active")
    /\ \A i \in s.fq.active + 1..Len(s.fq.pipes) :
          LET p == s.P[s.fq.pipes[i]] IN ~(p.in_active /\ p.state \in {"active", "waiting"})
    /\ \A p \in Pipes : s.P[p].state \notin {"none", "gone"} =>
          /\ kind \in HasLb => \E i \in DOMAIN s.lb.pipes : s.lb.pipes[i] = p
          /\ kind \in HasFq => p \in s.anonymous_pipes \/ \E i \in DOMAIN s.fq.pipes : s.fq.pipes[i] = p

IsPrefixOfOne(ms) == \A i \in DOMAIN ms :
    ms[i].p = ms[1].p /\ ms[i].n = ms[1].n /\ ms[i].i = i /\ (ms[i].more \/ i = Len(ms))

\* The application receives the parts of one message of one peer, from the
\* first to the last, whatever happens to the pipes in between.
ReceivedWhole == IsPrefixOfOne(Bodies(got))

\* What a peer gets are the parts of one message up to the last one.  They
\* begin with the first unless a later part was refused: lb_t takes back the
\* parts before it, and a blocking call sends that part again.  (A PAIR is
\* exempt: between two parts its pipe may end and another one be attached,
\* which then gets the rest, pair.cpp:87.)
IsTail(ms) == \A i \in DOMAIN ms :
    ms[i].n = ms[1].n /\ ms[i].i = ms[1].i + i - 1 /\ (ms[i].more <=> i < Len(ms))

SentWhole == kind # "PAIR" => \A p \in Pipes : \A k \in DOMAIN s.P[p].tx :
    LET ms == Bodies(s.P[p].tx[k])
    IN  ms # <<>> => IsTail(ms) /\ (ms[1].i = 1 \/ ms[1].n \in out.cut)

\* A message stays together on both sides of the socket while pipes are
\* activated and terminated between its parts (fq.cpp:56, lb.cpp:55), except
\* by the steps that KeepsTurn leaves out.
KeptWhole == ReceivedWhole /\ SentWhole

\* A strict or a correlating REQ returns the reply to its last request.
ReplyMatches ==
    kind = "REQ" /\ (opt.strict \/ opt.correlate) /\ got # <<>> => got[1].n = out.n - 1

\* What a ROUTER, REP, STREAM or SERVER sends reaches the peer that the
\* identity (for a REP: the request) belonged to, or nobody.
Routed == kind \in RouterKinds \cup {"STREAM", "SERVER"} =>
    \A p \in Pipes : \A i \in DOMAIN s.P[p].tx :
        LET ms == Bodies(s.P[p].tx[i]) IN \A j \in DOMAIN ms : ms[j].p = p

\* Whoever a message belongs to is who gets it: the request a reply answers
\* (req_t::recv_reply_pipe and the request id), the peer an identity names.
RightPeer == ReplyMatches /\ Routed
=============================================================================
