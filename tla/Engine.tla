------------------------------- MODULE Engine -------------------------------
(***************************************************************************)
(* stream_engine_t and session_base_t: the two ends of a connection, each  *)
(* an engine on a TCP socket and the session that joins the engine to the  *)
(* pipe of a socket.  End "a" connects (its session is active and outlives *)
(* an engine), end "b" was accepted (its session dies with the engine).    *)
(*                                                                         *)
(* The engines run on callbacks: each event of the poller, timer or        *)
(* command is one action, and whatever it calls runs to its end.  A        *)
(* callback is an operator from worlds to worlds; a world holds what the   *)
(* variables hold.                                                         *)
(*                                                                         *)
(* The stream carries greeting items and whole frames (the codec module    *)
(* cuts frames into bytes).  A socket takes Room items, a batch is Batch   *)
(* items.  Pipes are those of the Pipe module seen from the session: the   *)
(* activation commands are messages in flight.                             *)
(***************************************************************************)
EXTENDS Mechanism, SequencesExt

CONSTANTS
    Cases,      \* the configurations: see CaseOf
    Room,       \* items a TCP socket buffers
    Batch,      \* out_batch_size and in_batch_size
    MaxConns,   \* connections the two ends make
    MaxTicks    \* heartbeat intervals that end

Ends == {"a", "b"}
Peer(e) == IF e = "a" THEN "b" ELSE "a"

VARIABLES
    opt,        \* options_t of each end
    engine,     \* the engine of each end
    session,    \* the session of each end
    wire,       \* wire[e]: items on their way to end e
    closed,     \* closed[e]: the socket of the other end is closed
    fault,      \* the first assertion that failed
    errors,     \* the pairs of an end and the reason it gave to engine_error
    conns,      \* connections made so far
    ticks,      \* heartbeat intervals that ended
    sent,       \* messages each user sent
    got         \* parts each user received

vars == <<opt, engine, session, wire, closed, fault, errors, conns, ticks, sent, got>>

ASSUME EngineAssumption ==
    /\ Room \in Nat \ {0} /\ Batch \in Nat \ {0}
    /\ MaxConns \in Nat \ {0} /\ MaxTicks \in Nat

World == [engine |-> engine, session |-> session, wire |-> wire, closed |-> closed,
          fault |-> fault, errors |-> errors]

Become(w) ==
    /\ engine' = w.engine /\ session' = w.session /\ wire' = w.wire
    /\ closed' = w.closed /\ fault' = w.fault /\ errors' = w.errors

Abort(w, what) == [w EXCEPT !.fault = IF @ = "none" THEN what ELSE @]
Done(w) == [w |-> w, rc |-> "ok"]
Failed(w, rc) == [w |-> w, rc |-> rc]

-----------------------------------------------------------------------------
(* Messages *)

Command(msg) == msg.c \in {"PING", "PONG", "JOIN", "LEAVE"}
More(msg) == msg.c = "DATA" /\ msg.more
Part(id, k, more) == [c |-> "DATA", id |-> id, k |-> k, more |-> more]
Internal == {"identity", "notify", "credential", "subscription", "JOIN", "LEAVE"}
Payload(p) == p.c = "DATA" /\ p.k \notin Internal
Data(e) == SelectSeq(got[e], Payload)

-----------------------------------------------------------------------------
(* session_base_t *)

NoEngine == [alive |-> FALSE]

\* A session and the pipe it shares with the socket: q is what the socket
\* wrote, unflushed and inq what the session wrote, credentials how many of that
\* were credentials.
NewSession(active) ==
    [alive |-> TRUE, active |-> active, connecting |-> active, link |-> "none",
     pipe |-> "none", q |-> <<>>, in_active |-> TRUE, incomplete_in |-> FALSE,
     unflushed |-> <<>>, inq |-> <<>>, out_active |-> TRUE, written |-> 0, peers_read |-> 0, credentials |-> 0,
     activate_read |-> FALSE, activate_write |-> FALSE, msgs_read |-> 0,
     zap |-> "none", state |-> "first", pending |-> <<>>]

check_hwm(o, s) == o.rcvhwm = 0 \/ s.written - s.peers_read < o.rcvhwm

\* session_base_t::pull_msg
base_pull_msg(w, e) ==
    LET s == w.session[e]
    IN  IF s.pipe \notin {"open", "closing"} THEN Failed(w, "EAGAIN")
        ELSE IF s.q = <<>>
        THEN Failed([w EXCEPT !.session[e].in_active = FALSE,
                              !.session[e].pipe = IF @ = "closing" THEN "delimited" ELSE @],
                    "EAGAIN")
        ELSE Done([w EXCEPT !.session[e].q = Tail(@),
                            !.session[e].incomplete_in = More(Head(s.q))])
             @@ [msg |-> Head(s.q)]

\* The writer counts whole messages and credentials, but no identity.
Counted(msg) == ~More(msg) /\ msg.k # "identity"

\* session_base_t::push_msg
base_push_msg(w, e, msg) ==
    LET s == w.session[e]
    IN  IF Command(msg) THEN Done(w)
        ELSE IF s.pipe # "open" \/ ~s.out_active THEN Failed(w, "EAGAIN")
        ELSE IF ~check_hwm(opt[e], s)
        THEN Failed([w EXCEPT !.session[e].out_active = FALSE], "EAGAIN")
        ELSE Done([w EXCEPT !.session[e].unflushed = Append(@, msg),
                            !.session[e].written = IF Counted(msg) THEN @ + 1 ELSE @,
                            !.session[e].credentials = IF msg.k = "credential" THEN @ + 1 ELSE @])

\* req_session_t::push_msg: the state moves before the push can fail.
req_push_msg(w, e, msg) ==
    LET state == w.session[e].state
        to == CASE state = "first" /\ More(msg) /\ msg.k = "id" -> "request_id"
                [] state \in {"first", "request_id"} /\ More(msg) /\ msg.k = "delimiter" -> "body"
                [] state = "body" /\ More(msg) -> "body"
                [] state = "body" /\ msg.c = "DATA" /\ ~More(msg) -> "first"
                [] OTHER -> "bad"
    IN  IF to = "bad" THEN Failed(w, "EFAULT")
        ELSE base_push_msg([w EXCEPT !.session[e].state = to], e, msg)

\* radio_session_t::push_msg: JOIN and LEAVE become messages of the pipe.
radio_push_msg(w, e, msg) ==
    base_push_msg(w, e, IF msg.c \in {"JOIN", "LEAVE"} THEN Part(msg.group, msg.c, FALSE)
                        ELSE msg)

\* radio_session_t::pull_msg: a message goes out as its group and its body.
GroupFirst(r, e) ==
    IF r.rc # "ok" THEN r
    ELSE Done([r.w EXCEPT !.session[e].state = "body", !.session[e].pending = <<r.msg>>])
         @@ [msg |-> Part(r.msg.id, "group", TRUE)]

radio_pull_msg(w, e) ==
    IF w.session[e].state = "body"
    THEN Done([w EXCEPT !.session[e].state = "first"]) @@ [msg |-> Head(w.session[e].pending)]
    ELSE GroupFirst(base_pull_msg(w, e), e)

BodyPushed(r, e) == IF r.rc # "ok" THEN r ELSE Done([r.w EXCEPT !.session[e].state = "first"])

\* dish_session_t::push_msg: the group message is closed before the push of
\* the body can fail, and a closed message has no data.
dish_push_msg(w, e, msg) ==
    LET s == w.session[e]
        closedw == [w EXCEPT !.session[e].pending = <<>>]
    IN  IF s.state = "first"
        THEN IF ~More(msg) THEN Failed(w, "EFAULT")
             ELSE Done([w EXCEPT !.session[e].state = "body", !.session[e].pending = <<msg>>])
        ELSE IF s.pending = <<>> THEN Failed(Abort(w, "check ()"), "EFAULT")
        ELSE IF More(msg) THEN Failed(closedw, "EFAULT")
        ELSE BodyPushed(base_push_msg(closedw, e, msg), e)

\* dish_session_t::pull_msg: a join of the pipe goes out as a command.
AsCommand(r) ==
    IF r.rc # "ok" \/ r.msg.k \notin {"JOIN", "LEAVE"} THEN r
    ELSE [r EXCEPT !.msg = [c |-> r.msg.k, group |-> r.msg.id]]

dish_pull_msg(w, e) == AsCommand(base_pull_msg(w, e))

push_msg(w, e, msg) ==
    CASE opt[e].type = "REQ" -> req_push_msg(w, e, msg)
      [] opt[e].type = "RADIO" -> radio_push_msg(w, e, msg)
      [] opt[e].type = "DISH" -> dish_push_msg(w, e, msg)
      [] OTHER -> base_push_msg(w, e, msg)

pull_msg(w, e) ==
    CASE opt[e].type = "RADIO" -> radio_pull_msg(w, e)
      [] opt[e].type = "DISH" -> dish_pull_msg(w, e)
      [] OTHER -> base_pull_msg(w, e)

\* The parts of whole messages at the start of a sequence of parts.
Whole(parts) ==
    LET ends == {i \in DOMAIN parts : ~More(parts[i])}
    IN  IF ends = {} THEN 0 ELSE CHOOSE i \in ends : \A j \in ends : j <= i

\* Only whole messages are flushed.
flush(w, e) ==
    LET s == w.session[e]
        n == Whole(s.unflushed)
    IN  IF s.pipe = "none" THEN w
        ELSE [w EXCEPT !.session[e].inq =
                           IF s.pipe = "open" THEN @ \o SubSeq(s.unflushed, 1, n) ELSE @,
                       !.session[e].unflushed = SubSeq(@, n + 1, Len(@))]

Dropped(r) == IF r.rc # "ok" THEN Abort(r.w, "clean_pipes: rc == 0") ELSE r.w

RECURSIVE DropHalfRead(_, _)
DropHalfRead(w, e) ==
    IF w.fault # "none" \/ ~w.session[e].incomplete_in THEN w ELSE DropHalfRead(Dropped(pull_msg(w, e)), e)

clean_pipes_KeepsHalf(w, e) == [flush(w, e) EXCEPT !.session[e].incomplete_in = FALSE]

\* rollback, flush, then the rest of a message the engine had begun to send.
clean_pipes(w, e) == DropHalfRead([flush(w, e) EXCEPT !.session[e].unflushed = <<>>], e)

reset(s) == [s EXCEPT !.state = "first"]

\* own_t::terminate of a session whose engine is gone: its pipe goes with it.
Terminate(w, e) == [w EXCEPT !.session[e].alive = FALSE, !.session[e].pipe = "none",
                             !.session[e].q = <<>>]

\* ZMQ_IMMEDIATE drops the pipe and what it holds; the next engine gets a new one.
FreshPipe(s) ==
    [NewSession(s.active) EXCEPT !.inq = s.inq, !.zap = s.zap, !.state = s.state,
                                 !.pending = s.pending]

reconnect(w, e) ==
    LET s == w.session[e]
        s1 == IF opt[e].immediate /\ s.pipe # "none" THEN FreshPipe(s) ELSE s
    IN  [w EXCEPT !.session[e] = [reset(s1) EXCEPT !.connecting = TRUE]]

\* The last check_read finds the delimiter if nothing else is left.
CheckRead(w, e) ==
    IF w.session[e].pipe = "closing" /\ w.session[e].q = <<>>
    THEN [w EXCEPT !.session[e].pipe = "delimited"] ELSE w

Cleaned(w, e, reason) ==
    IF reason # "protocol" /\ w.session[e].active THEN CheckRead(reconnect(w, e), e) ELSE Terminate(w, e)

engine_error(w, e, reason) ==
    Cleaned([(IF w.session[e].pipe # "none" THEN clean_pipes(w, e) ELSE w)
                EXCEPT !.errors = @ \cup {<<e, reason>>}], e, reason)

\* zap_connect and the request: what a mechanism finds when it asks.
Handler(e) ==
    IF opt[e].zap = "none" THEN "refused"
    ELSE IF opt[e].zap_quick THEN opt[e].zap ELSE "again"

zap_connect(w, e) ==
    IF w.session[e].zap # "none" THEN Abort(w, "zap_pipe == NULL")
    ELSE [w EXCEPT !.session[e].zap = "open"]

\* The request goes out once the ZAP pipe is there; the reply may be there at
\* once, or come later with a read_activated of the ZAP pipe.
ZapRequest(w, e) ==
    [w EXCEPT !.session[e].zap = IF opt[e].zap_quick THEN "replied" ELSE "asked"]

-----------------------------------------------------------------------------
(* stream_engine_t: the fields *)

Sig == [c |-> "signature"]
Revision(n) == [c |-> "revision", n |-> n]
GreetingTail(o) == [c |-> "greeting", mechanism |-> o.mechanism]
SocketType(o) == [c |-> "type"]

NewEngine(o) ==
    [alive |-> TRUE, handshaking |-> ~o.raw, greeting |-> <<>>, greeted |-> 1,
     encoder |-> IF o.raw THEN "raw" ELSE "none", out |-> <<>>, in |-> <<>>, cur |-> <<>>,
     next_msg |-> IF o.raw THEN "pull_msg_from_session" ELSE "identity_msg",
     process_msg |-> IF o.raw THEN "push_msg_to_session" ELSE "process_identity_msg",
     io_error |-> FALSE, subscription_required |-> FALSE,
     input_stopped |-> FALSE, output_stopped |-> FALSE, pollin |-> TRUE, pollout |-> TRUE,
     timers |-> IF o.handshake_ivl /\ ~o.raw THEN {"handshake"} ELSE {}, m |-> <<>>]

\* unplug and delete: the socket is closed, the timers are gone.
Destroy(w, e) ==
    [w EXCEPT !.engine[e] = NoEngine, !.closed[Peer(e)] = TRUE, !.session[e].link = "none"]

-----------------------------------------------------------------------------
(* stream_engine_t: output *)

\* session->pull_msg, then mechanism->encode.
Encoded(w, e, c) == Done([w EXCEPT !.engine[e].m = c.m]) @@ [msg |-> c.msg]

Pulled(r, e) ==
    IF r.rc # "ok" THEN r ELSE Encoded(r.w, e, encode(opt[e], r.w.engine[e].m, r.msg))

pull_and_encode(w, e) == Pulled(pull_msg(w, e), e)

identity_msg(w, e) ==
    Done([w EXCEPT !.engine[e].next_msg = "pull_msg_from_session"])
        @@ [msg |-> Part(opt[e].identity, "identity", FALSE)]

\* The push of the identity fails when the pipe is full, and then neither
\* next_msg nor process_msg moves on.
IdentityPushed(r, e) ==
    IF r.rc = "EAGAIN" THEN r.w
    ELSE [(IF opt[e].recv_identity THEN flush(r.w, e) ELSE r.w)
             EXCEPT !.engine[e].next_msg = "pull_and_encode", !.engine[e].process_msg = "write_credential"]

PushIdentity(w, e) ==
    IF opt[e].recv_identity THEN push_msg(w, e, Part(w.engine[e].m.identity, "identity", FALSE)) ELSE Done(w)

mechanism_ready(w, e) ==
    IdentityPushed(PushIdentity([w EXCEPT !.engine[e].timers = IF opt[e].heartbeat THEN @ \cup {"ivl"} ELSE @], e), e)

\* The NULL mechanism sends its ZAP request from here.
CommandMade(w, e, r) ==
    LET m == w.engine[e].m
        asks == m.kind = "null" /\ r.m.zap_request_sent /\ ~m.zap_request_sent
        w1 == [(IF asks THEN ZapRequest(w, e) ELSE w) EXCEPT !.engine[e].m = r.m]
    IN  IF r.rc = "ok" THEN Done(w1) @@ [msg |-> r.msg] ELSE Failed(w1, r.rc)

NextCommand(w, e) == CommandMade(w, e, next_handshake_command(opt[e], w.engine[e].m, Handler(e)))

NextHandshakeCommand(w, e) ==
    CASE status(w.engine[e].m) = "ready" -> pull_and_encode(mechanism_ready(w, e), e)
      [] status(w.engine[e].m) = "error" -> Failed(w, "EPROTO")
      [] OTHER -> NextCommand(w, e)

produce_ping_message(w, e) ==
    Encoded([w EXCEPT !.engine[e].next_msg = "pull_and_encode",
                      !.engine[e].timers = IF opt[e].heartbeat_timeout THEN @ \cup {"timeout"} ELSE @],
            e, encode(opt[e], w.engine[e].m, [c |-> "PING", ttl |-> opt[e].ttl]))

produce_pong_message(w, e) ==
    Encoded([w EXCEPT !.engine[e].next_msg = "pull_and_encode"], e, encode(opt[e], w.engine[e].m, [c |-> "PONG"]))

NextMsg(w, e) ==
    LET f == w.engine[e].next_msg
    IN  CASE f = "identity_msg" -> identity_msg(w, e)
          [] f = "pull_msg_from_session" -> pull_msg(w, e)
          [] f = "next_handshake_command" -> NextHandshakeCommand(w, e)
          [] f = "produce_ping_message" -> produce_ping_message(w, e)
          [] f = "produce_pong_message" -> produce_pong_message(w, e)
          [] OTHER -> pull_and_encode(w, e)

Put(r, e) == [r EXCEPT !.w.engine[e].out = IF r.rc # "ok" THEN @ ELSE Append(@, r.msg)]

RECURSIVE FillBatch(_, _)
FillBatch(r, e) ==
    IF r.rc # "ok" \/ Len(r.w.engine[e].out) >= Batch THEN r.w ELSE FillBatch(Put(NextMsg(r.w, e), e), e)

\* tcp_write takes what fits.  An error only stops the polling for output.
tcp_write(w, e) ==
    LET x == w.engine[e]
        n == Min({Len(x.out), Room - Len(w.wire[Peer(e)])})
        w1 == [w EXCEPT !.wire[Peer(e)] = @ \o SubSeq(x.out, 1, n),
                        !.engine[e].out = SubSeq(@, n + 1, Len(@))]
    IN  IF w.closed[e] THEN [w EXCEPT !.engine[e].pollout = FALSE]
        ELSE IF x.handshaking /\ n = Len(x.out) THEN [w1 EXCEPT !.engine[e].pollout = FALSE]
        ELSE w1

Output(w, e) ==
    IF w.engine[e].out = <<>>
    THEN [w EXCEPT !.engine[e].output_stopped = TRUE, !.engine[e].pollout = FALSE]
    ELSE tcp_write(w, e)

out_event(w, e) ==
    LET x == w.engine[e]
    IN  IF x.io_error THEN Abort(w, "out_event: !io_error")
        ELSE IF x.out = <<>> /\ x.encoder = "none" THEN w
        ELSE Output(IF x.out = <<>> THEN FillBatch(Done(w), e) ELSE w, e)

restart_output_Unpolled(w, e) ==
    IF w.engine[e].io_error THEN w
    ELSE out_event([w EXCEPT !.engine[e].output_stopped = FALSE], e)

restart_output(w, e) ==
    IF w.engine[e].io_error THEN w
    ELSE out_event(IF w.engine[e].output_stopped
                   THEN [w EXCEPT !.engine[e].pollout = TRUE, !.engine[e].output_stopped = FALSE]
                   ELSE w, e)

-----------------------------------------------------------------------------
(* stream_engine_t: input.  The decoder's message is cur: a step that fails  *)
(* leaves it there, as far as it was processed, and restart_input takes it   *)
(* up again.                                                               *)

IdentityProcessed(r, e) ==
    IF r.rc # "ok" THEN Failed(Abort(r.w, "process_identity_msg: rc == 0"), r.rc)
    ELSE Done([r.w EXCEPT !.engine[e].process_msg =
                   IF r.w.engine[e].subscription_required THEN "write_subscription_msg"
                   ELSE "push_msg_to_session"])

process_identity_msg(w, e) ==
    IdentityProcessed(IF opt[e].recv_identity THEN push_msg(w, e, w.engine[e].cur) ELSE Done(w), e)

\* What the mechanism does with a command, the ZAP request included.
CommandTaken(w, e, r) == [w |-> [w EXCEPT !.engine[e].m = r.m], rc |-> r.rc]

ProcessCommand(w, e) ==
    LET x == w.engine[e]
        asks == AsksZap(x.m, x.cur) /\ opt[e].zap # "none"
    IN  CommandTaken(IF asks THEN ZapRequest(zap_connect(w, e), e) ELSE w, e,
                     process_handshake_command(opt[e], x.m, x.cur, Handler(e)))

RestartOutputIfStopped(w, e) ==
    IF w.engine[e].alive /\ w.engine[e].output_stopped THEN restart_output(w, e) ELSE w

CommandProcessed(r, e) ==
    LET st == status(r.w.engine[e].m)
    IN  IF r.rc # "ok" THEN r
        ELSE IF st = "error" THEN Failed(r.w, "EPROTO")
        ELSE Done(RestartOutputIfStopped(IF st = "ready" THEN mechanism_ready(r.w, e) ELSE r.w, e))

ProcessHandshakeCommand(w, e) == CommandProcessed(ProcessCommand(w, e), e)

\* The interval travels in tenths of a second, in 16 bits, as milliseconds here.
TtlMilliseconds(ttl) == (ttl * 100) % 65536

process_heartbeat_message(w, e, msg) ==
    IF msg.c # "PING" THEN w
    ELSE out_event([w EXCEPT !.engine[e].timers =
                                 IF TtlMilliseconds(msg.ttl) > 0 THEN @ \cup {"ttl"} ELSE @,
                             !.engine[e].next_msg = "produce_pong_message"], e)

\* Any message shows that the peer is alive.
PushDecoded(w, e, d) ==
    IF d.rc # "ok" THEN Failed([w EXCEPT !.engine[e].m = d.m], d.rc)
    ELSE push_msg(process_heartbeat_message(
                      [w EXCEPT !.engine[e].m = d.m, !.engine[e].cur = d.msg,
                                !.engine[e].timers = @ \ {"timeout", "ttl"}], e, d.msg), e, d.msg)

DecodedPushed(r, e) ==
    IF r.rc # "EAGAIN" THEN r
    ELSE Failed([r.w EXCEPT !.engine[e].process_msg = "push_one_then_decode_and_push"], "EAGAIN")

\* Variant that decodes the message again when there is room for it.
decode_and_push_Again(w, e) == PushDecoded(w, e, decode(opt[e], w.engine[e].m, w.engine[e].cur))

decode_and_push(w, e) == DecodedPushed(PushDecoded(w, e, decode(opt[e], w.engine[e].m, w.engine[e].cur)), e)

OnePushed(r, e) == IF r.rc # "ok" THEN r ELSE Done([r.w EXCEPT !.engine[e].process_msg = "decode_and_push"])

push_one_then_decode_and_push(w, e) == OnePushed(push_msg(w, e, w.engine[e].cur), e)

CredentialPushed(r, e) ==
    IF r.rc # "ok" THEN r ELSE decode_and_push([r.w EXCEPT !.engine[e].process_msg = "decode_and_push"], e)

write_credential(w, e) ==
    CredentialPushed(IF w.engine[e].m.user_id THEN push_msg(w, e, Part("user", "credential", FALSE)) ELSE Done(w), e)

SubscriptionPushed(r, e) ==
    IF r.rc # "ok" THEN r
    ELSE push_msg([r.w EXCEPT !.engine[e].process_msg = "push_msg_to_session"], e, r.w.engine[e].cur)

write_subscription_msg(w, e) == SubscriptionPushed(push_msg(w, e, Part("all", "subscription", FALSE)), e)

ProcessMsg(w, e) ==
    LET f == w.engine[e].process_msg
    IN  CASE f = "process_identity_msg" -> process_identity_msg(w, e)
          [] f = "process_handshake_command" -> ProcessHandshakeCommand(w, e)
          [] f = "write_credential" -> write_credential(w, e)
          [] f = "write_subscription_msg" -> write_subscription_msg(w, e)
          [] f = "decode_and_push" -> decode_and_push(w, e)
          [] f = "push_one_then_decode_and_push" -> push_one_then_decode_and_push(w, e)
          [] OTHER -> push_msg(w, e, w.engine[e].cur)

\* A raw socket, whose process_msg is push_msg_to_session, tells its user that the
\* peer is gone.
error(w, e, reason) ==
    Destroy(engine_error(flush(IF opt[e].raw THEN push_msg(w, e, Part("gone", "notify", FALSE)).w ELSE w, e),
                         e, reason), e)

\* The loop over what was read: r is the result of the last message.
RECURSIVE Decode(_, _)
Decode(r, e) ==
    IF r.rc # "ok" \/ r.w.engine[e].in = <<>> THEN r
    ELSE Decode(ProcessMsg([r.w EXCEPT !.engine[e].cur = Head(r.w.engine[e].in), !.engine[e].in = Tail(@)], e), e)

\* What was decoded goes to the socket; without room there the input stops.
Decoded(r, e, stopped) ==
    IF r.rc \notin {"ok", "EAGAIN"} THEN error(r.w, e, r.rc)
    ELSE flush(IF r.rc = "ok" THEN r.w
               ELSE [r.w EXCEPT !.engine[e].input_stopped = stopped, !.engine[e].pollin = FALSE], e)

\* tcp_read, unless something is left of an earlier call.
Fill(w, e) ==
    LET n == Min({Batch, Len(w.wire[e])})
    IN  IF w.engine[e].in # <<>> THEN Done(w)
        ELSE IF n = 0 THEN Failed(w, IF w.closed[e] THEN "connection" ELSE "nothing")
        ELSE Done([w EXCEPT !.engine[e].in = SubSeq(w.wire[e], 1, n), !.wire[e] = SubSeq(@, n + 1, Len(@))])

\* The reason of an error of a message is that the protocol was broken.
Reason(r, broken) == IF r.rc \in {"ok", "EAGAIN"} THEN r ELSE [r EXCEPT !.rc = broken]

Processed(r, e, stopped) ==
    IF r.rc = "nothing" THEN r.w
    ELSE Decoded(IF r.rc = "ok" THEN Reason(Decode(r, e), "protocol") ELSE r, e, stopped)

\* Variant that goes on as if there had been room.
Input_NotStopped(w, e) == Processed(Fill(w, e), e, FALSE)

\* The rest of in_event, once the greeting is done.
Input(w, e) ==
    IF w.engine[e].input_stopped
    THEN [w EXCEPT !.engine[e].io_error = TRUE, !.engine[e].pollin = FALSE, !.engine[e].pollout = FALSE]
    ELSE Processed(Fill(w, e), e, TRUE)

-----------------------------------------------------------------------------
(* stream_engine_t: the greeting *)

zap_enabled(o) == o.mechanism # "NULL" \/ o.zap_domain

\* What is sent in answer to the part of the greeting read so far: the major
\* version to anybody who is versioned, then the rest in the peer's version.
Answer(w, e, item) ==
    LET x == w.engine[e]
        Send(it) == [w EXCEPT !.engine[e].out = Append(@, it), !.engine[e].greeted = @ + 1,
                              !.engine[e].pollout = x.out = <<>> \/ @]
    IN  CASE item.c = "signature" /\ x.greeted = 1 -> Send(Revision(3))
          [] item.c = "revision" /\ x.greeted = 2 ->
                Send(IF item.n \in {0, 1} THEN SocketType(opt[e]) ELSE GreetingTail(opt[e]))
          [] OTHER -> w

\* An unversioned peer starts with its identity, a versioned one sends three items.
GreetingComplete(g) == Len(g) = 3 \/ (g # <<>> /\ g[1].c # "signature")

RECURSIVE ReadGreeting(_, _)
ReadGreeting(w, e) ==
    LET x == w.engine[e]
        item == Head(w.wire[e])
        w1 == [w EXCEPT !.engine[e].greeting = Append(@, item), !.wire[e] = Tail(@)]
    IN  IF GreetingComplete(x.greeting) \/ w.wire[e] = <<>> THEN w
        ELSE ReadGreeting(Answer(w1, e, item), e)

Unversioned(w, e) ==
    LET o == opt[e]
        x == w.engine[e]
    IN  [w EXCEPT !.engine[e] =
            [x EXCEPT !.encoder = "v1", !.in = x.greeting,
                      !.subscription_required = o.type \in {"PUB", "XPUB"},
                      !.next_msg = "pull_msg_from_session",
                      !.process_msg = "process_identity_msg"]]

\* A NULL mechanism with a ZAP domain connects to the handler as it is made.
WithMechanism(w, e) ==
    LET o == opt[e]
        w1 == IF o.mechanism = "NULL" /\ o.zap_domain /\ o.zap # "none"
              THEN zap_connect(w, e) ELSE w
    IN  [w1 EXCEPT !.engine[e] =
            [@ EXCEPT !.encoder = "v2", !.m = NewMechanism(o, e \o ToString(conns), Handler(e)),
                      !.next_msg = "next_handshake_command",
                      !.process_msg = "process_handshake_command"]]

Greeted(w, e) ==
    LET x == w.engine[e]
    IN  [w EXCEPT !.engine[e].handshaking = FALSE,
                  !.engine[e].pollout = x.out = <<>> \/ @,
                  !.engine[e].timers = @ \ {"handshake"}]

\* What the greeting g decides: an older peer has no mechanism.
Older(g) == g[1].c # "signature" \/ g[2].n \in {0, 1}
Refuses(g, o) == IF Older(g) THEN zap_enabled(o) ELSE g[3].mechanism # o.mechanism

Versioned(w, e, g) ==
    IF g[1].c # "signature" THEN Unversioned(w, e)
    ELSE IF Older(g) THEN [w EXCEPT !.engine[e].encoder = IF g[2].n = 0 THEN "v1" ELSE "v2"]
    ELSE WithMechanism(w, e)

GreetingRead(w, e, g) ==
    IF GreetingComplete(g) /\ ~Refuses(g, opt[e]) THEN Greeted(Versioned(w, e, g), e)
    ELSE IF GreetingComplete(g) THEN error(w, e, "protocol")
    ELSE IF w.closed[e] /\ w.wire[e] = <<>> THEN error(w, e, "connection") ELSE w

handshake(w, e) == LET w1 == ReadGreeting(w, e) IN GreetingRead(w1, e, w1.engine[e].greeting)

InputIfGreeted(w, e) == IF w.engine[e].alive /\ ~w.engine[e].handshaking THEN Input(w, e) ELSE w

in_event(w, e) ==
    IF w.engine[e].io_error THEN Abort(w, "in_event: !io_error")
    ELSE InputIfGreeted(IF w.engine[e].handshaking THEN handshake(w, e) ELSE w, e)

\* The message that was refused goes first; x is the engine before it did.
Restarted(r, e, x) ==
    LET again == Len(r.w.engine[e].in) = Len(x.in) /\ r.rc # "ok"
    IN  IF r.rc = "EAGAIN" THEN flush(r.w, e)
        ELSE IF r.rc # "ok" \/ x.io_error
        THEN error(r.w, e, IF x.io_error /\ ~again THEN "connection" ELSE "protocol")
        ELSE in_event(flush([r.w EXCEPT !.engine[e].input_stopped = FALSE, !.engine[e].pollin = TRUE], e), e)

restart_input(w, e) ==
    IF ~w.engine[e].input_stopped THEN Abort(w, "restart_input: input_stopped")
    ELSE Restarted(Decode(Done([w EXCEPT !.engine[e].in = <<w.engine[e].cur>> \o @]), e), e, w.engine[e])

ReplyTaken(w, e, rc) ==
    IF rc # "ok" THEN error(w, e, "protocol")
    ELSE RestartOutputIfStopped(IF w.engine[e].input_stopped THEN restart_input(w, e) ELSE w, e)

\* The reply of the ZAP handler came after the request's own look for it.
ZapMsgAvailable(w, e) ==
    IF w.engine[e].m = <<>> THEN Abort(w, "zap_msg_available: mechanism != NULL")
    ELSE LET r == zap_msg_available(w.engine[e].m, opt[e].zap)
         IN  ReplyTaken([w EXCEPT !.engine[e].m = r.m], e, r.rc)

-----------------------------------------------------------------------------
(* The system *)

\* An end that is not this library: it sends its script and reads everything.
Foreign(e) == opt[e].script # <<>>

\* zmq_connect makes the pipe of an active session at once, unless the socket
\* wants it only with a connection.
InitSession(o, e) ==
    IF e = "a" THEN [NewSession(TRUE) EXCEPT !.pipe = IF o.immediate THEN "none" ELSE "open"]
    ELSE [NewSession(FALSE) EXCEPT !.alive = FALSE]

Init ==
    /\ opt \in Cases
    /\ engine = [e \in Ends |-> NoEngine]
    /\ session = [e \in Ends |-> InitSession(opt[e], e)]
    /\ wire = [e \in Ends |-> <<>>]
    /\ closed = [e \in Ends |-> FALSE]
    /\ fault = "none" /\ errors = {} /\ conns = 0 /\ ticks = 0
    /\ sent = [e \in Ends |-> 0]
    /\ got = [e \in Ends |-> <<>>]

\* The connecter and the listener have a connection: an engine for each end
\* is on its way to the session.
CanConnect ==
    /\ conns < MaxConns
    /\ session["a"].alive /\ session["a"].connecting
    /\ ~engine["b"].alive /\ session["b"].link = "none" /\ session["b"].inq = <<>>

Connect ==
    /\ CanConnect
    /\ conns' = conns + 1
    /\ session' = [session EXCEPT !["a"].connecting = FALSE, !["a"].link = "due",
                                  !["b"] = [NewSession(FALSE) EXCEPT !.link = "due"]]
    /\ wire' = [e \in Ends |-> <<>>]
    /\ closed' = [e \in Ends |-> FALSE]
    /\ sent' = [e \in Ends |-> IF Foreign(e) THEN 0 ELSE sent[e]]
    /\ UNCHANGED <<opt, engine, fault, errors, ticks, got>>

\* session_base_t::process_attach and stream_engine_t::plug
Notify(w, e) == IF opt[e].raw THEN flush(push_msg(w, e, Part("here", "notify", FALSE)).w, e) ELSE w

plug(w, e) ==
    in_event(Notify([w EXCEPT !.session[e].link = "up",
                              !.session[e].pipe = IF @ = "none" THEN "open" ELSE @,
                              !.engine[e] = [NewEngine(opt[e]) EXCEPT !.out = IF opt[e].raw THEN <<>> ELSE <<Sig>>]],
                    e), e)

CanAttach(e) ==
    /\ session[e].alive /\ session[e].link = "due" /\ ~Foreign(e)

Attach(e) ==
    /\ CanAttach(e)
    /\ Become(plug(World, e))
    /\ UNCHANGED <<opt, conns, ticks, sent, got>>

\* A hang-up is reported even to an engine that does not poll for input.
CanRead(e) ==
    /\ engine[e].alive /\ ~engine[e].io_error
    /\ closed[e] \/ (engine[e].pollin /\ wire[e] # <<>>)

InEvent(e) ==
    /\ CanRead(e)
    /\ Become(in_event(World, e))
    /\ UNCHANGED <<opt, conns, ticks, sent, got>>

CanWrite(e) ==
    /\ engine[e].alive /\ engine[e].pollout
    /\ closed[e] \/ Len(wire[Peer(e)]) < Room

OutEvent(e) ==
    /\ CanWrite(e)
    /\ Become(out_event(World, e))
    /\ UNCHANGED <<opt, conns, ticks, sent, got>>

\* timer_event: the end of a heartbeat interval.
Heartbeat(e) ==
    /\ engine[e].alive /\ "ivl" \in engine[e].timers /\ ticks < MaxTicks
    /\ Become(out_event([World EXCEPT !.engine[e].next_msg = "produce_ping_message"], e))
    /\ ticks' = ticks + 1
    /\ UNCHANGED <<opt, conns, sent, got>>

\* timer_event: the peer was silent for too long.
Timeout(e) ==
    /\ engine[e].alive
    /\ Become(error(World, e, "timeout"))
    /\ UNCHANGED <<opt, conns, ticks, sent, got>>

HandshakeOver(e) == engine[e].alive /\ "handshake" \in engine[e].timers

HandshakeTimeout(e) == HandshakeOver(e) /\ Timeout(e)
HeartbeatTimeout(e) ==
    engine[e].alive /\ {"ttl", "timeout"} \cap engine[e].timers # {} /\ Timeout(e)

\* read_activated of the pipe: the socket wrote to a session that had found it empty.
read_activated(w, e) ==
    LET w1 == [w EXCEPT !.session[e].activate_read = FALSE, !.session[e].in_active = TRUE]
    IN  IF w.engine[e].alive THEN restart_output(w1, e) ELSE CheckRead(w1, e)

IsReadActivated(e) ==
    /\ session[e].alive /\ session[e].activate_read

ReadActivated(e) ==
    /\ IsReadActivated(e)
    /\ Become(read_activated(World, e))
    /\ UNCHANGED <<opt, conns, ticks, sent, got>>

\* write_activated: the socket read from a pipe that was full.
write_activated(w, e) ==
    LET s == w.session[e]
        w1 == [w EXCEPT !.session[e].activate_write = FALSE,
                        !.session[e].peers_read = s.msgs_read, !.session[e].out_active = TRUE]
    IN  IF s.out_active \/ s.pipe # "open" \/ ~w.engine[e].alive THEN w1
        ELSE restart_input(w1, e)

IsWriteActivated(e) ==
    /\ session[e].alive /\ session[e].activate_write

WriteActivated(e) ==
    /\ IsWriteActivated(e)
    /\ Become(write_activated(World, e))
    /\ UNCHANGED <<opt, conns, ticks, sent, got>>

\* read_activated of the ZAP pipe.
ZapReplies(e) ==
    /\ session[e].alive /\ session[e].zap = "asked"

ZapReply(e) ==
    /\ ZapReplies(e)
    /\ LET w == [World EXCEPT !.session[e].zap = "replied"]
       IN  Become(IF engine[e].alive THEN ZapMsgAvailable(w, e)
                  ELSE IF session[e].pipe = "none" THEN Abort(w, "read_activated: pipe")
                  ELSE CheckRead(w, e))
    /\ UNCHANGED <<opt, conns, ticks, sent, got>>

-----------------------------------------------------------------------------
(* The users and the foreign ends *)

\* The socket flushes whole messages.
CanSend(e) ==
    /\ ~Foreign(e) /\ session[e].alive /\ session[e].pipe = "open"
    /\ sent[e] < Len(opt[e].sends)

UserSend(e) ==
    /\ CanSend(e)
    /\ sent' = [sent EXCEPT ![e] = @ + 1]
    /\ session' = [session EXCEPT ![e].q = @ \o opt[e].sends[sent[e] + 1],
                                  ![e].activate_read = @ \/ ~session[e].in_active]
    /\ UNCHANGED <<opt, engine, wire, closed, fault, errors, conns, ticks, got>>

\* With a low watermark of one, which is what a high-water mark of one or two has,
\* every part that is read is reported.  The reader passes over a credential on its
\* way to the next part: it neither counts nor reports it.
lwm(o) == (o.rcvhwm + 1) \div 2

UserRecv(e) ==
    LET p == Head(session[e].inq)
        credential == p.k = "credential"
    IN  /\ session[e].inq # <<>>
        /\ got' = [got EXCEPT ![e] = Append(@, p)]
        /\ session' = [session EXCEPT ![e].inq = Tail(@),
                                      ![e].msgs_read = IF Counted(p) /\ ~credential THEN @ + 1 ELSE @,
                                      ![e].activate_write = @ \/ ~credential]
        /\ UNCHANGED <<opt, engine, wire, closed, fault, errors, conns, ticks, sent>>

\* The user closes the socket: the pipe ends behind what it holds.
UserCloses(e) ==
    /\ opt[e].closes /\ session[e].alive /\ session[e].pipe = "open"
    /\ Become(LET w == [World EXCEPT !.session[e].pipe = "closing",
                                     !.session[e].inq = <<>>,
                                     !.session[e].activate_read = @ \/ ~session[e].in_active]
              IN  IF engine[e].alive THEN w ELSE CheckRead(w, e))
    /\ UNCHANGED <<opt, conns, ticks, sent, got>>

\* pipe_terminated, and the destructor of the session with its engine.
IsDelimited(e) ==
    /\ session[e].alive /\ session[e].pipe = "delimited"

SessionTerminated(e) ==
    /\ IsDelimited(e)
    /\ LET w == Terminate(World, e)
       IN  Become(IF engine[e].alive THEN Destroy(w, e) ELSE w)
    /\ UNCHANGED <<opt, conns, ticks, sent, got>>

ForeignCanSend(e) ==
    /\ Foreign(e) /\ session[e].link = "due"
    /\ sent[e] < Len(opt[e].script) /\ Len(wire[Peer(e)]) < Room /\ ~closed[e]

ForeignSend(e) ==
    /\ ForeignCanSend(e)
    /\ sent' = [sent EXCEPT ![e] = @ + 1]
    /\ wire' = [wire EXCEPT ![Peer(e)] = Append(@, opt[e].script[sent[e] + 1])]
    /\ UNCHANGED <<opt, engine, session, closed, fault, errors, conns, ticks, got>>

ForeignCanRecv(e) ==
    /\ Foreign(e) /\ session[e].link = "due"
    /\ wire[e] # <<>> \/ closed[e]

ForeignRecv(e) ==
    /\ ForeignCanRecv(e)
    /\ got' = [got EXCEPT ![e] = @ \o wire[e]]
    /\ wire' = [wire EXCEPT ![e] = <<>>]
    /\ session' = IF closed[e] THEN [session EXCEPT ![e].link = "none", ![e].alive = FALSE]
                  ELSE session
    /\ UNCHANGED <<opt, engine, closed, fault, errors, conns, ticks, sent>>

ForeignClose(e) ==
    /\ Foreign(e) /\ opt[e].closes /\ session[e].link = "due"
    /\ session' = [session EXCEPT ![e].link = "none", ![e].alive = FALSE]
    /\ closed' = [closed EXCEPT ![Peer(e)] = TRUE]
    /\ UNCHANGED <<opt, engine, wire, fault, errors, conns, ticks, sent, got>>

\* The connection is lost with what was on its way; both sockets report it.
Break ==
    /\ conns < MaxConns /\ \A e \in Ends : ~Foreign(e)
    /\ \E e \in Ends : engine[e].alive /\ ~closed[e]
    /\ wire' = [e \in Ends |-> <<>>]
    /\ closed' = [e \in Ends |-> TRUE]
    /\ UNCHANGED <<opt, engine, session, fault, errors, conns, ticks, sent, got>>

Next ==
    \/ Connect
    \/ Break
    \/ \E e \in Ends :
        \/ Attach(e) \/ InEvent(e) \/ OutEvent(e)
        \/ Heartbeat(e) \/ HeartbeatTimeout(e) \/ HandshakeTimeout(e)
        \/ ReadActivated(e) \/ WriteActivated(e) \/ ZapReply(e)
        \/ UserSend(e) \/ UserRecv(e) \/ UserCloses(e) \/ SessionTerminated(e)
        \/ ForeignSend(e) \/ ForeignRecv(e) \/ ForeignClose(e)

Spec == Init /\ [][Next]_vars

-----------------------------------------------------------------------------
(* Properties *)

\* No assertion of the engine or the session fails.
AssertionsHold == fault = "none"

\* Whether the two ends are set up to talk: what the handshake has to find out.
ShouldTalk ==
    LET a == opt["a"]
        b == opt["b"]
        Roles(s, c) ==
            /\ s.as_server /\ ~c.as_server /\ s.zap \in {"none", "200"}
            /\ s.mechanism = "CURVE" => c.server_key = s.key
            /\ s.mechanism = "GSSAPI" => c.principal \in s.principals \ {"none"}
    IN  /\ a.mechanism = b.mechanism
        /\ check_socket_type(a.type, b.type) /\ check_socket_type(b.type, a.type)
        /\ IF a.mechanism = "NULL"
           THEN \A e \in Ends : opt[e].zap_domain => opt[e].zap \in {"none", "200"}
           ELSE Roles(a, b) \/ Roles(b, a)

\* A user receives a message of the other end only when the two ends are set
\* up to talk: same mechanism, keys, compatible sockets, and the ZAP handler,
\* where there is one to ask, said 200 - whenever its reply came.
Authorised ==
    \A e \in Ends : ~Foreign(Peer(e)) /\ Data(e) # <<>> => ShouldTalk

\* Two ends that are set up to talk never break the protocol: neither a
\* message taken up again after back-pressure, nor a heartbeat, nor a
\* reconnection makes an engine reject what the other one sent.
NoProtocolError ==
    ShouldTalk => \A e \in Ends : <<e, "protocol">> \notin errors

\* What a user receives are whole messages of the other user, in the order
\* they were sent and none twice, whatever is taken up again after
\* back-pressure and whatever a reconnection drops half way; as long as no
\* engine failed, none is missing.
WholeMessages ==
    \A e \in Ends : ~Foreign(Peer(e)) =>
        LET d == Data(e)
            all == opt[Peer(e)].sends
            begun == SelectSeq(all, LAMBDA msg : \E i \in DOMAIN d : d[i] = msg[1])
        IN  /\ IsPrefix(d, FlattenSeq(begun))
            /\ errors = {} => IsPrefix(begun, SelectSeq(all, LAMBDA msg : Payload(msg[1])))

\* Nothing is left to do but what a timer, a closing user or the network may
\* do: no event of the poller, no command, no user and no ZAP reply is due.
Quiet ==
    /\ ~CanConnect
    /\ \A e \in Ends :
        /\ ~CanAttach(e) /\ ~CanRead(e) /\ ~CanWrite(e) /\ ~HandshakeOver(e)
        /\ ~IsReadActivated(e) /\ ~IsWriteActivated(e) /\ ~ZapReplies(e)
        /\ ~CanSend(e) /\ session[e].inq = <<>> /\ ~IsDelimited(e)
        /\ ~ForeignCanSend(e) /\ ~ForeignCanRecv(e)

Sent(e) == IF Foreign(e) THEN opt[e].sends ELSE SubSeq(opt[e].sends, 1, sent[e])

Drained ==
    /\ \A e \in Ends : session[e].alive => session[e].q = <<>>
    /\ errors = {} =>
           \A e \in Ends : Data(e) = SelectSeq(FlattenSeq(Sent(Peer(e))), Payload)

\* The writer counts the credentials that its reader never will: what is left of the
\* high-water mark is less than the messages between two reports.
Choked(e) == opt[e].rcvhwm # 0 /\ opt[e].rcvhwm - session[e].credentials < lwm(opt[e])

\* A system that has gone quiet has done its work: two ends that are set up to
\* talk have emptied their pipes, over a second connection if the first one
\* was lost, and delivered everything if none was; two that are not have both
\* hung up.  Neither stops with the other end waiting for it - except for a pipe
\* that the credentials written into it have filled for good, whose session takes
\* nothing more (pipe_t::read and write).
NoHang ==
    Quiet => IF ShouldTalk
             THEN \/ Drained \/ (session["a"].connecting /\ conns = MaxConns)
                  \/ \E e \in Ends : Choked(e)
             ELSE \A e \in Ends : ~engine[e].alive

=============================================================================
