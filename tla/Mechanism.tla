----------------------------- MODULE Mechanism -----------------------------
(***************************************************************************)
(* mechanism_t and its seven implementations, as operators on a record     *)
(* that holds a mechanism's fields.  o is the options_t of the end that    *)
(* owns the mechanism.  A command is a record whose field c is its name.   *)
(*                                                                         *)
(* Cryptography is symbolic: a box carries in its field lock the set of    *)
(* the two keys it was made with, and opens only with the same two.  A     *)
(* key stands for the public and the secret half.  The GSSAPI library is   *)
(* external: the context needs one token each way, and the server accepts  *)
(* the client's token iff it knows the principal.                          *)
(*                                                                         *)
(* z is what the session finds when the mechanism turns to the ZAP         *)
(* handler: "refused" (nobody is bound to inproc://zeromq.zap.01),         *)
(* "again" (no reply yet), "bad" (a malformed reply) or a status code.     *)
(***************************************************************************)
EXTENDS Integers, Sequences, TLC

NoIdentity == ""
Ok(m) == [rc |-> "ok", m |-> m]
Again(m) == [rc |-> "EAGAIN", m |-> m]
Eproto(m) == [rc |-> "EPROTO", m |-> m]
Produced(m, cmd) == [rc |-> "ok", m |-> m, msg |-> cmd]

-----------------------------------------------------------------------------
(* mechanism_t *)

Compatible ==
    [REQ |-> {"REP", "ROUTER"}, REP |-> {"REQ", "DEALER"},
     DEALER |-> {"REP", "DEALER", "ROUTER"}, ROUTER |-> {"REQ", "DEALER", "ROUTER"},
     PUSH |-> {"PULL"}, PULL |-> {"PUSH"},
     PUB |-> {"SUB", "XSUB"}, SUB |-> {"PUB", "XPUB"},
     XPUB |-> {"SUB", "XSUB"}, XSUB |-> {"PUB", "XPUB"},
     PAIR |-> {"PAIR"}, SERVER |-> {"CLIENT"}, CLIENT |-> {"SERVER"},
     RADIO |-> {"DISH"}, DISH |-> {"RADIO"},
     GATHER |-> {"SCATTER"}, SCATTER |-> {"GATHER"}, DGRAM |-> {"DGRAM"}]

check_socket_type(type, peer) ==
    type \in DOMAIN Compatible /\ peer \in Compatible[type]

add_property(o) ==
    [type |-> o.type,
     identity |-> IF o.type \in {"REQ", "DEALER", "ROUTER"} THEN o.identity ELSE NoIdentity]

Mechanism(kind, state) ==
    [kind |-> kind, state |-> state, identity |-> NoIdentity, user_id |-> FALSE,
     status_code |-> "none", nonce |-> 1, peer_nonce |-> 1,
     precom |-> {}, cookie |-> {}]

parse_metadata(o, m, p) ==
    IF ~check_socket_type(o.type, p.type) THEN Eproto(m)
    ELSE Ok(IF o.recv_identity THEN [m EXCEPT !.identity = p.identity] ELSE m)

\* A reply with a status code also carries the user id.  Each mechanism has
\* its own copy of receive_and_process_zap_reply.
ZapReplied(m, z) ==
    CASE z = "again" -> Again(m)
      [] z \in {"bad", "refused"} -> Eproto(m)
      [] OTHER -> Ok([m EXCEPT !.status_code = z, !.user_id = TRUE])

null_receive_zap_reply(m, z) == ZapReplied(m, z)
plain_receive_zap_reply(m, z) == ZapReplied(m, z)
curve_receive_zap_reply(m, z) == ZapReplied(m, z)
gssapi_receive_zap_reply(m, z) == ZapReplied(m, z)

\* What a server does with a client it must authenticate: the state after a
\* good reply, after a rejection, and while there is no reply.
Authenticated(m, z, r, good, rejected, waiting) ==
    IF z = "refused" THEN Ok([m EXCEPT !.state = good])
    ELSE IF r.rc = "ok" THEN Ok([r.m EXCEPT !.state = IF z = "200" THEN good ELSE rejected])
    ELSE IF r.rc = "EAGAIN" THEN Ok([m EXCEPT !.state = waiting])
    ELSE r

LateReply_AnyStatus(m, z, r, good, rejected, waiting) ==
    IF m.state # waiting THEN Eproto(m)
    ELSE IF r.rc # "ok" THEN r
    ELSE Ok([r.m EXCEPT !.state = good])

\* zap_msg_available of the servers.
LateReply(m, z, r, good, rejected, waiting) ==
    IF m.state # waiting THEN Eproto(m)
    ELSE IF r.rc # "ok" THEN r
    ELSE Ok([r.m EXCEPT !.state = IF z = "200" THEN good ELSE rejected])

-----------------------------------------------------------------------------
(* null_mechanism_t *)

\* state is not used: the flags say what was sent and received.
null_mechanism_t(o, z) ==
    Mechanism("null", "none")
        @@ [ready_sent |-> FALSE, error_sent |-> FALSE,
            ready_received |-> FALSE, error_received |-> FALSE,
            zap_connected |-> o.zap_domain /\ z # "refused",
            zap_request_sent |-> FALSE, zap_reply_received |-> FALSE]

NullCommand(o, m) ==
    IF m.zap_reply_received /\ m.status_code # "200"
    THEN Produced([m EXCEPT !.error_sent = TRUE], [c |-> "ERROR"])
    ELSE Produced([m EXCEPT !.ready_sent = TRUE], [c |-> "READY", p |-> add_property(o)])

null_next(o, m, z) ==
    IF m.ready_sent \/ m.error_sent THEN Again(m)
    ELSE IF ~m.zap_connected \/ m.zap_reply_received THEN NullCommand(o, m)
    ELSE IF m.zap_request_sent THEN Again(m)
    ELSE LET asked == [m EXCEPT !.zap_request_sent = TRUE]
             r == null_receive_zap_reply(asked, z)
         IN  IF r.rc # "ok" THEN r
             ELSE NullCommand(o, [r.m EXCEPT !.zap_reply_received = TRUE])

null_process(o, m, cmd) ==
    IF m.ready_received \/ m.error_received THEN Eproto(m)
    ELSE CASE cmd.c = "READY" -> parse_metadata(o, [m EXCEPT !.ready_received = TRUE], cmd.p)
           [] cmd.c = "ERROR" -> Ok([m EXCEPT !.error_received = TRUE])
           [] OTHER -> Eproto(m)

null_zap_msg_available(m, z) ==
    LET r == null_receive_zap_reply(m, z)
    IN  IF m.zap_reply_received THEN Eproto(m)
        ELSE IF r.rc # "ok" THEN r
        ELSE Ok([r.m EXCEPT !.zap_reply_received = TRUE])

null_status(m) ==
    IF m.ready_sent /\ m.ready_received THEN "ready"
    ELSE IF (m.ready_sent \/ m.error_sent) /\ (m.ready_received \/ m.error_received)
    THEN "error"
    ELSE "handshaking"

-----------------------------------------------------------------------------
(* plain_client_t and plain_server_t *)

plain_client_t == Mechanism("plain_client", "sending_hello")
plain_server_t == Mechanism("plain_server", "waiting_for_hello")

plain_produce_hello(m) ==
    Produced([m EXCEPT !.state = "waiting_for_welcome"], [c |-> "HELLO"])

plain_produce_initiate(o, m) ==
    Produced([m EXCEPT !.state = "waiting_for_ready"], [c |-> "INITIATE", p |-> add_property(o)])

plain_client_next(o, m) ==
    CASE m.state = "sending_hello" -> plain_produce_hello(m)
      [] m.state = "sending_initiate" -> plain_produce_initiate(o, m)
      [] OTHER -> Again(m)

plain_process_welcome(m) ==
    IF m.state # "waiting_for_welcome" THEN Eproto(m)
    ELSE Ok([m EXCEPT !.state = "sending_initiate"])

plain_process_error(m) ==
    IF m.state \notin {"waiting_for_welcome", "waiting_for_ready"} THEN Eproto(m)
    ELSE Ok([m EXCEPT !.state = "error_command_received"])

plain_process_ready(o, m, cmd) ==
    LET r == parse_metadata(o, m, cmd.p)
    IN  IF m.state # "waiting_for_ready" THEN Eproto(m)
        ELSE IF r.rc # "ok" THEN r
        ELSE Ok([r.m EXCEPT !.state = "ready"])

plain_client_process(o, m, cmd) ==
    CASE cmd.c = "WELCOME" -> plain_process_welcome(m)
      [] cmd.c = "READY" -> plain_process_ready(o, m, cmd)
      [] cmd.c = "ERROR" -> plain_process_error(m)
      [] OTHER -> Eproto(m)

plain_produce_ready(o, m) ==
    Produced([m EXCEPT !.state = "ready"], [c |-> "READY", p |-> add_property(o)])

plain_server_next(o, m) ==
    CASE m.state = "sending_welcome" ->
            Produced([m EXCEPT !.state = "waiting_for_initiate"], [c |-> "WELCOME"])
      [] m.state = "sending_ready" -> plain_produce_ready(o, m)
      [] m.state = "sending_error" ->
            Produced([m EXCEPT !.state = "error_command_sent"], [c |-> "ERROR"])
      [] OTHER -> Again(m)

plain_process_hello(m, cmd, z) ==
    IF cmd.c # "HELLO" THEN Eproto(m)
    ELSE Authenticated(m, z, plain_receive_zap_reply(m, z),
                       "sending_welcome", "sending_error", "waiting_for_zap_reply")

plain_process_initiate(o, m, cmd) ==
    IF cmd.c # "INITIATE" THEN Eproto(m)
    ELSE LET r == parse_metadata(o, m, cmd.p)
         IN  IF r.rc # "ok" THEN r ELSE Ok([r.m EXCEPT !.state = "sending_ready"])

plain_server_process(o, m, cmd, z) ==
    CASE m.state = "waiting_for_hello" -> plain_process_hello(m, cmd, z)
      [] m.state = "waiting_for_initiate" -> plain_process_initiate(o, m, cmd)
      [] OTHER -> Eproto(m)

plain_zap_msg_available(m, z) ==
    LateReply(m, z, plain_receive_zap_reply(m, z),
              "sending_welcome", "sending_error", "waiting_for_zap_reply")

plain_status(m) ==
    IF m.state = "ready" THEN "ready"
    ELSE IF m.state \in {"error_command_received", "error_command_sent"} THEN "error"
    ELSE "handshaking"

-----------------------------------------------------------------------------
(* curve_client_t and curve_server_t.  cn is the short-term key of an end,  *)
(* made for one connection.                                                *)

Box(k1, k2, body) == [lock |-> {k1, k2}, body |-> body]
Opens(box, k1, k2) == box.lock = {k1, k2}

curve_client_t(cn) ==
    Mechanism("curve_client", "send_hello") @@ [cn |-> cn, cn_server |-> "none"]

curve_server_t(cn) ==
    Mechanism("curve_server", "expect_hello") @@ [cn |-> cn, cn_client |-> "none"]

NextNonce(m) == [m EXCEPT !.nonce = @ + 1]

curve_produce_hello(o, m) ==
    Produced([NextNonce(m) EXCEPT !.state = "expect_welcome"],
             [c |-> "HELLO", cn |-> m.cn, nonce |-> m.nonce,
              box |-> Box(o.server_key, m.cn, {})])

curve_produce_initiate(o, m) ==
    Produced([NextNonce(m) EXCEPT !.state = "expect_ready"],
             [c |-> "INITIATE", cookie |-> m.cookie, nonce |-> m.nonce,
              box |-> Box(m.cn_server, m.cn,
                          [key |-> o.key, vouch |-> Box(m.cn_server, o.key, m.cn),
                           p |-> add_property(o)])])

curve_client_next(o, m) ==
    CASE m.state = "send_hello" -> curve_produce_hello(o, m)
      [] m.state = "send_initiate" -> curve_produce_initiate(o, m)
      [] OTHER -> Again(m)

curve_process_welcome(o, m, cmd) ==
    IF ~Opens(cmd.box, o.server_key, m.cn) THEN Eproto(m)
    ELSE Ok([m EXCEPT !.cn_server = cmd.box.body.cn, !.cookie = cmd.box.body.cookie,
                      !.precom = {cmd.box.body.cn, m.cn}, !.state = "send_initiate"])

curve_process_ready(o, m, cmd) ==
    LET m1 == [m EXCEPT !.peer_nonce = cmd.nonce]
        r == parse_metadata(o, m1, cmd.box.body)
    IN  IF cmd.box.lock # m.precom THEN Eproto(m1)
        ELSE IF r.rc # "ok" THEN r
        ELSE Ok([r.m EXCEPT !.state = "connected"])

curve_process_error(m) ==
    IF m.state \notin {"expect_welcome", "expect_ready"} THEN Eproto(m)
    ELSE Ok([m EXCEPT !.state = "error_received"])

curve_client_process(o, m, cmd) ==
    CASE cmd.c = "WELCOME" -> curve_process_welcome(o, m, cmd)
      [] cmd.c = "READY" -> curve_process_ready(o, m, cmd)
      [] cmd.c = "ERROR" -> curve_process_error(m)
      [] OTHER -> Eproto(m)

\* The cookie holds the two short-term keys, locked with a key of this call.
curve_produce_welcome(o, m) ==
    Produced([m EXCEPT !.state = "expect_initiate", !.cookie = {m.cn, m.cn_client}],
             [c |-> "WELCOME",
              box |-> Box(m.cn_client, o.key,
                          [cn |-> m.cn, cookie |-> {m.cn, m.cn_client}])])

curve_produce_ready(o, m) ==
    Produced([NextNonce(m) EXCEPT !.state = "connected"],
             [c |-> "READY", nonce |-> m.nonce,
              box |-> [lock |-> m.precom, body |-> add_property(o)]])

curve_server_next(o, m) ==
    CASE m.state = "send_welcome" -> curve_produce_welcome(o, m)
      [] m.state = "send_ready" -> curve_produce_ready(o, m)
      [] m.state = "send_error" ->
            Produced([m EXCEPT !.state = "error_sent"], [c |-> "ERROR"])
      [] OTHER -> Again(m)

curve_process_hello(o, m, cmd) ==
    LET m1 == [m EXCEPT !.cn_client = cmd.cn, !.peer_nonce = cmd.nonce]
    IN  IF cmd.c # "HELLO" THEN Eproto(m)
        ELSE IF ~Opens(cmd.box, cmd.cn, o.key) THEN Eproto(m1)
        ELSE Ok([m1 EXCEPT !.state = "send_welcome"])

\* The vouch shows that the holder of the long-term key made the short-term one.
InitiateOpens(m, cmd) ==
    /\ cmd.cookie = m.cookie
    /\ Opens(cmd.box, m.cn_client, m.cn)
    /\ Opens(cmd.box.body.vouch, cmd.box.body.key, m.cn)
    /\ cmd.box.body.vouch.body = m.cn_client

\* The metadata is parsed last: by then the state may already be send_ready.
curve_process_initiate(o, m, cmd, z) ==
    LET m1 == [m EXCEPT !.peer_nonce = cmd.nonce, !.precom = {m.cn_client, m.cn}]
        r == Authenticated(m1, z, curve_receive_zap_reply(m1, z),
                           "send_ready", "send_error", "expect_zap_reply")
    IN  IF cmd.c # "INITIATE" THEN Eproto(m)
        ELSE IF ~InitiateOpens(m, cmd) THEN Eproto(m)
        ELSE IF r.rc # "ok" THEN r
        ELSE parse_metadata(o, r.m, cmd.box.body.p)

curve_server_process(o, m, cmd, z) ==
    CASE m.state = "expect_hello" -> curve_process_hello(o, m, cmd)
      [] m.state = "expect_initiate" -> curve_process_initiate(o, m, cmd, z)
      [] OTHER -> Eproto(m)

curve_zap_msg_available(m, z) ==
    LateReply(m, z, curve_receive_zap_reply(m, z),
              "send_ready", "send_error", "expect_zap_reply")

curve_status(m) ==
    IF m.state = "connected" THEN "ready"
    ELSE IF m.state \in {"error_received", "error_sent"} THEN "error"
    ELSE "handshaking"

Sealed(m, msg) ==
    Produced(NextNonce(m),
             [c |-> "MESSAGE", nonce |-> m.nonce, box |-> [lock |-> m.precom, body |-> msg]])

\* The nonces of a peer must grow: a message decoded twice is refused.
Unsealed(m, msg) ==
    IF msg.c # "MESSAGE" THEN Eproto(m)
    ELSE IF msg.nonce <= m.peer_nonce THEN Eproto(m)
    ELSE IF msg.box.lock # m.precom THEN Eproto([m EXCEPT !.peer_nonce = msg.nonce])
    ELSE Produced([m EXCEPT !.peer_nonce = msg.nonce], msg.box.body)

curve_client_encode(m, msg) == Sealed(m, msg)
curve_client_decode(m, msg) == Unsealed(m, msg)
curve_server_encode(m, msg) == Sealed(m, msg)
curve_server_decode(m, msg) == Unsealed(m, msg)

-----------------------------------------------------------------------------
(* gssapi_client_t and gssapi_server_t.  maj_stat and send_tok are the      *)
(* results of the GSSAPI library.                                          *)

gssapi_client_t ==
    Mechanism("gssapi_client", "call_next_init")
        @@ [maj_stat |-> "COMPLETE", recv_tok |-> FALSE, established |-> FALSE]

gssapi_server_t ==
    Mechanism("gssapi_server", "recv_next_token")
        @@ [maj_stat |-> "CONTINUE_NEEDED", send_tok |-> FALSE, established |-> FALSE]

\* External: gss_init_sec_context asks for a token of the server, then is done.
gss_init_sec_context(o, m) ==
    IF o.principal = "none" THEN "FAILURE"
    ELSE IF m.recv_tok THEN "COMPLETE" ELSE "CONTINUE_NEEDED"

\* External: gss_accept_sec_context answers a principal it knows with a token.
gss_accept_sec_context(o, token) ==
    IF token \in o.principals THEN "COMPLETE" ELSE "FAILURE"

encode_message(msg) == [c |-> "MESSAGE", box |-> [lock |-> {"gss"}, body |-> msg]]

decode_message(m, msg) ==
    IF msg.c # "MESSAGE" THEN Eproto(m) ELSE Produced(m, msg.box.body)

gssapi_produce_ready(o, m, state) ==
    LET ready == [c |-> "READY", p |-> add_property(o)]
    IN  Produced([m EXCEPT !.state = state],
                 IF o.gss_plaintext THEN ready ELSE encode_message(ready))

gssapi_process_ready(o, m, cmd, state) ==
    LET d == IF o.gss_plaintext THEN Produced(m, cmd) ELSE decode_message(m, cmd)
        r == parse_metadata(o, m, d.msg.p)
    IN  IF d.rc # "ok" THEN d
        ELSE IF d.msg.c # "READY" THEN Eproto(m)
        ELSE IF r.rc # "ok" THEN r
        ELSE Ok([r.m EXCEPT !.state = state])

produce_initiate(token) == [c |-> "INITIATE", token |-> token]
process_initiate(cmd) == cmd.c = "INITIATE"

initialize_context(o, m) == [m EXCEPT !.maj_stat = gss_init_sec_context(o, m)]

\* A context that is complete with nothing to send still produces a command,
\* an empty one, which tells the server to go on.
client_produce_next_token(o, m) ==
    CASE m.maj_stat = "FAILURE" -> Eproto(m)
      [] m.maj_stat = "COMPLETE" -> Produced(m, [c |-> "EMPTY"])
      [] OTHER -> Produced(m, produce_initiate(o.principal))

gssapi_client_next(o, m) ==
    LET r == client_produce_next_token(o, initialize_context(o, m))
    IN  CASE m.state = "send_ready" -> gssapi_produce_ready(o, m, "connected")
          [] m.state \notin {"send_ready", "call_next_init"} -> Again(m)
          [] m.state = "call_next_init" /\ r.rc # "ok" -> r
          [] m.state = "call_next_init" /\ r.m.maj_stat = "COMPLETE" ->
                [r EXCEPT !.m.established = TRUE, !.m.state = "recv_ready"]
          [] OTHER -> [r EXCEPT !.m.state = "recv_next_token"]

client_process_next_token(m, cmd) ==
    IF process_initiate(cmd) THEN Ok([m EXCEPT !.recv_tok = TRUE]) ELSE Eproto(m)

gssapi_client_process(o, m, cmd) ==
    LET r == client_process_next_token(m, cmd)
    IN  CASE m.state = "recv_ready" -> gssapi_process_ready(o, m, cmd, "send_ready")
          [] m.state = "recv_next_token" /\ r.rc = "ok" ->
                [r EXCEPT !.m.state = "call_next_init"]
          [] OTHER -> Eproto(m)

server_produce_next_token(o, m) ==
    IF m.maj_stat = "FAILURE" THEN Eproto(m) ELSE Produced(m, produce_initiate(o.principal))

gssapi_server_next(o, m) ==
    LET r == server_produce_next_token(o, m)
    IN  CASE m.state = "send_ready" -> gssapi_produce_ready(o, m, "recv_ready")
          [] m.state \notin {"send_ready", "send_next_token"} -> Again(m)
          [] m.state = "send_next_token" /\ r.rc # "ok" -> r
          [] OTHER -> [r EXCEPT !.m.established = (m.maj_stat = "COMPLETE"),
                                !.m.state = "recv_next_token"]

accept_context(o, m, token) == [m EXCEPT !.maj_stat = gss_accept_sec_context(o, token)]

\* With the context established, the next command only starts the ZAP request.
gssapi_server_process(o, m, cmd, z) ==
    LET r == Authenticated(m, z, gssapi_receive_zap_reply(m, z),
                           "send_ready", "rejected", "expect_zap_reply")
    IN  CASE m.state = "recv_ready" -> gssapi_process_ready(o, m, cmd, "connected")
          [] m.state = "recv_next_token" /\ m.established ->
                IF r.m.state = "rejected" THEN Eproto(m) ELSE r
          [] m.state = "recv_next_token" /\ ~m.established /\ process_initiate(cmd) ->
                Ok([accept_context(o, m, cmd.token) EXCEPT !.state = "send_next_token"])
          [] OTHER -> Eproto(m)

gssapi_zap_msg_available(m, z) ==
    LET r == LateReply(m, z, gssapi_receive_zap_reply(m, z),
                       "send_ready", "rejected", "expect_zap_reply")
    IN  IF r.m.state = "rejected" THEN Eproto(m) ELSE r

gssapi_status(m) == IF m.state = "connected" THEN "ready" ELSE "handshaking"

-----------------------------------------------------------------------------
(* The virtual functions of mechanism_t *)

next_handshake_command(o, m, z) ==
    CASE m.kind = "null" -> null_next(o, m, z)
      [] m.kind = "plain_client" -> plain_client_next(o, m)
      [] m.kind = "plain_server" -> plain_server_next(o, m)
      [] m.kind = "curve_client" -> curve_client_next(o, m)
      [] m.kind = "curve_server" -> curve_server_next(o, m)
      [] m.kind = "gssapi_client" -> gssapi_client_next(o, m)
      [] OTHER -> gssapi_server_next(o, m)

process_handshake_command(o, m, cmd, z) ==
    CASE m.kind = "null" -> null_process(o, m, cmd)
      [] m.kind = "plain_client" -> plain_client_process(o, m, cmd)
      [] m.kind = "plain_server" -> plain_server_process(o, m, cmd, z)
      [] m.kind = "curve_client" -> curve_client_process(o, m, cmd)
      [] m.kind = "curve_server" -> curve_server_process(o, m, cmd, z)
      [] m.kind = "gssapi_client" -> gssapi_client_process(o, m, cmd)
      [] OTHER -> gssapi_server_process(o, m, cmd, z)

zap_msg_available(m, z) ==
    CASE m.kind = "null" -> null_zap_msg_available(m, z)
      [] m.kind = "plain_server" -> plain_zap_msg_available(m, z)
      [] m.kind = "curve_server" -> curve_zap_msg_available(m, z)
      [] m.kind = "gssapi_server" -> gssapi_zap_msg_available(m, z)
      [] OTHER -> Ok(m)

status(m) ==
    CASE m.kind = "null" -> null_status(m)
      [] m.kind \in {"plain_client", "plain_server"} -> plain_status(m)
      [] m.kind \in {"curve_client", "curve_server"} -> curve_status(m)
      [] OTHER -> gssapi_status(m)

encode(o, m, msg) ==
    CASE m.kind = "curve_client" -> curve_client_encode(m, msg)
      [] m.kind = "curve_server" -> curve_server_encode(m, msg)
      [] m.kind \in {"gssapi_client", "gssapi_server"} /\ ~o.gss_plaintext ->
            Produced(m, encode_message(msg))
      [] OTHER -> Produced(m, msg)

decode(o, m, msg) ==
    CASE m.kind = "curve_client" -> curve_client_decode(m, msg)
      [] m.kind = "curve_server" -> curve_server_decode(m, msg)
      [] m.kind \in {"gssapi_client", "gssapi_server"} /\ ~o.gss_plaintext ->
            decode_message(m, msg)
      [] OTHER -> Produced(m, msg)

\* The commands on which a server sends its ZAP request.
plain_send_zap_request(m, cmd) == m.state = "waiting_for_hello" /\ cmd.c = "HELLO"

curve_send_zap_request(m, cmd) ==
    m.state = "expect_initiate" /\ cmd.c = "INITIATE" /\ InitiateOpens(m, cmd)

gssapi_send_zap_request(m) == m.state = "recv_next_token" /\ m.established

AsksZap(m, cmd) ==
    \/ m.kind = "plain_server" /\ plain_send_zap_request(m, cmd)
    \/ m.kind = "curve_server" /\ curve_send_zap_request(m, cmd)
    \/ m.kind = "gssapi_server" /\ gssapi_send_zap_request(m)

\* The mechanism the engine creates once both greetings name the same one.
NewMechanism(o, cn, z) ==
    CASE o.mechanism = "NULL" -> null_mechanism_t(o, z)
      [] o.mechanism = "PLAIN" -> IF o.as_server THEN plain_server_t ELSE plain_client_t
      [] o.mechanism = "CURVE" -> IF o.as_server THEN curve_server_t(cn) ELSE curve_client_t(cn)
      [] OTHER -> IF o.as_server THEN gssapi_server_t ELSE gssapi_client_t

=============================================================================
