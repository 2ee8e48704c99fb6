------------------------------ MODULE Options ------------------------------
(***************************************************************************)
(* options_t and the calls that set it: zmq_ctx_set, which gives new       *)
(* sockets some of their defaults, and zmq_setsockopt, with the options of *)
(* all socket types.  An option is named as in zmq.h, without ZMQ_; its    *)
(* field has the same name unless several options share one.  What a call  *)
(* passes is a size, whether the pointer is NULL, and a number: the value  *)
(* of an int, or the name of a text or of a key.  A number that is zero    *)
(* names a text that begins with NUL, or, where a key in Z85 is asked for, *)
(* one that ends too early.  The build has CURVE, GSSAPI and the           *)
(* credentials of IPC peers.                                               *)
(***************************************************************************)
EXTENDS Integers, Sequences, FiniteSets

CONSTANTS Groups,      \* what one behaviour sets: options, and the sizes and values it passes
          MaxCalls     \* calls of one behaviour that succeed

VARIABLES cx,       \* the options of the context
          made,     \* the socket has been created
          group,    \* the options that are set, the sizes and the values
          o,        \* the options of the socket
          pipes,    \* its pipes: whether one conflates, and its high-water marks
          log       \* the calls of setsockopt that succeeded

ovars == <<cx, made, group, o, pipes, log>>

IntSize == 4
KeySize == 32
Z85Size == 40
MaxTtl == 6553      \* deciseconds that fit into two bytes

Text(size, v) == [size |-> size, v |-> v]
NoText == Text(0, 0)
-----------------------------------------------------------------------------
(* The fields: what options_t () and the constructor of the socket leave. *)

Defaults ==
    [SNDHWM |-> 1000, RCVHWM |-> 1000, AFFINITY |-> 0, RATE |-> 100, RECOVERY_IVL |-> 10000,
     MULTICAST_HOPS |-> 1, MULTICAST_MAXTPDU |-> 1500, SNDBUF |-> -1, RCVBUF |-> -1, TOS |-> 0,
     LINGER |-> -1, CONNECT_TIMEOUT |-> 0, TCP_MAXRT |-> 0, RECONNECT_IVL |-> 100,
     RECONNECT_IVL_MAX |-> 0, BACKLOG |-> 100, MAXMSGSIZE |-> -1, RCVTIMEO |-> -1, SNDTIMEO |-> -1,
     ipv6 |-> 0, IMMEDIATE |-> 0, INVERT_MATCHING |-> 0, TCP_KEEPALIVE |-> -1,
     TCP_KEEPALIVE_CNT |-> -1, TCP_KEEPALIVE_IDLE |-> -1, TCP_KEEPALIVE_INTVL |-> -1,
     mechanism |-> "NULL", as_server |-> 0, GSSAPI_PLAINTEXT |-> 0, CONFLATE |-> 0,
     HANDSHAKE_IVL |-> 30000, heartbeat_ttl |-> 0, HEARTBEAT_IVL |-> 0, HEARTBEAT_TIMEOUT |-> -1,
     USE_FD |-> -1, VMCI_BUFFER_SIZE |-> 0, VMCI_BUFFER_MIN_SIZE |-> 0, VMCI_BUFFER_MAX_SIZE |-> 0,
     VMCI_CONNECT_TIMEOUT |-> -1, IDENTITY |-> NoText, SOCKS_PROXY |-> NoText,
     PLAIN_USERNAME |-> NoText, PLAIN_PASSWORD |-> NoText, ZAP_DOMAIN |-> NoText,
     GSSAPI_PRINCIPAL |-> NoText, GSSAPI_SERVICE_PRINCIPAL |-> NoText,
     CURVE_PUBLICKEY |-> 0, CURVE_SECRETKEY |-> 0, CURVE_SERVERKEY |-> 0,
     TCP_ACCEPT_FILTER |-> {}, IPC_FILTER_UID |-> {}, IPC_FILTER_GID |-> {}, IPC_FILTER_PID |-> {}]

\* The socket takes IPV6 and BLOCKY from its context.
ctx_get(opt) == cx[opt]
Made == [Defaults EXCEPT !.ipv6 = ctx_get("IPV6"), !.LINGER = IF ctx_get("BLOCKY") = 1 THEN -1 ELSE 0]
-----------------------------------------------------------------------------
(* setsockopt: the options a call leaves, an empty set when it fails. *)

is_int(a) == a.len = IntSize
Truth(v) == IF v # 0 THEN 1 ELSE 0
If(cond, x) == IF cond THEN {x} ELSE {}

\* The least value each option takes; there is no greatest.
Least ==
    [SNDHWM |-> 0, RCVHWM |-> 0, RATE |-> 1, RECOVERY_IVL |-> 0, SNDBUF |-> -1, RCVBUF |-> -1,
     TOS |-> 0, LINGER |-> -1, CONNECT_TIMEOUT |-> 0, TCP_MAXRT |-> 0, RECONNECT_IVL |-> -1,
     RECONNECT_IVL_MAX |-> 0, BACKLOG |-> 0, MULTICAST_HOPS |-> 1, MULTICAST_MAXTPDU |-> 1,
     RCVTIMEO |-> -1, SNDTIMEO |-> -1]

Wide == {"AFFINITY", "MAXMSGSIZE"}    \* eight bytes, any value

SetNumber(opt, a) ==
    \/ opt \in DOMAIN Least /\ is_int(a) /\ a.v >= Least[opt]
    \/ opt \in Wide /\ a.len = 8

SetIdentity(opt, a) == opt = "IDENTITY" /\ a.len > 0 /\ a.len < 256

\* Keep-alive and the other options of the transports.
SetTransport(opt, a) ==
    \/ opt = "TCP_KEEPALIVE" /\ is_int(a) /\ a.v \in {-1, 0, 1}
    \/ opt \in {"TCP_KEEPALIVE_CNT", "TCP_KEEPALIVE_IDLE", "TCP_KEEPALIVE_INTVL"} /\ is_int(a) /\ a.v >= -1
    \/ opt = "IMMEDIATE" /\ is_int(a) /\ a.v \in {0, 1}

SetIPv6(opt, a) ==
    IF opt \notin {"IPV4ONLY", "IPV6"} THEN {}
    ELSE If(is_int(a) /\ a.v \in {0, 1},
            [o EXCEPT !.ipv6 = IF opt = "IPV6" THEN a.v ELSE 1 - a.v])

SetProxy(opt, a) ==
    IF opt # "SOCKS_PROXY" THEN {}
    ELSE If(a.null /\ a.len = 0, [o EXCEPT !.SOCKS_PROXY = NoText])
         \cup If(~a.null /\ a.len > 0, [o EXCEPT !.SOCKS_PROXY = Text(a.len, a.v)])

\* A filter is added to those there are; a call without a value removes all.
\* An address that cannot be resolved is named by a number below zero.
SetFilter(opt, a) ==
    LET clears == a.null /\ a.len = 0
        adds == \/ opt = "TCP_ACCEPT_FILTER" /\ a.len > 0 /\ a.len < 256 /\ ~a.null /\ a.v > 0
                \/ opt \in {"IPC_FILTER_UID", "IPC_FILTER_GID", "IPC_FILTER_PID"} /\ is_int(a) /\ ~a.null
    IN  IF opt \notin {"TCP_ACCEPT_FILTER", "IPC_FILTER_UID", "IPC_FILTER_GID", "IPC_FILTER_PID"} THEN {}
        ELSE If(clears, [o EXCEPT ![opt] = {}])
             \cup If(~clears /\ adds, [o EXCEPT ![opt] = @ \cup {a.v}])

Short(a) == a.len > 0 /\ a.len < 256 /\ ~a.null

\* Variant whose name and password leave the role of the socket as it was.
SetPlain_KeepsRole(opt, a) ==
    IF opt = "PLAIN_SERVER"
    THEN If(is_int(a) /\ a.v \in {0, 1},
            [o EXCEPT !.as_server = a.v, !.mechanism = IF a.v = 1 THEN "PLAIN" ELSE "NULL"])
    ELSE IF opt \in {"PLAIN_USERNAME", "PLAIN_PASSWORD"}
    THEN If(a.len = 0 /\ a.null, [o EXCEPT !.mechanism = "NULL"])
         \cup If(Short(a), [o EXCEPT ![opt] = Text(a.len, a.v), !.mechanism = "PLAIN"])
    ELSE IF opt = "ZAP_DOMAIN" THEN If(a.len < 256, [o EXCEPT !.ZAP_DOMAIN = Text(a.len, a.v)])
    ELSE {}

SetPlain(opt, a) ==
    IF opt = "PLAIN_SERVER"
    THEN If(is_int(a) /\ a.v \in {0, 1},
            [o EXCEPT !.as_server = a.v, !.mechanism = IF a.v = 1 THEN "PLAIN" ELSE "NULL"])
    ELSE IF opt \in {"PLAIN_USERNAME", "PLAIN_PASSWORD"}
    THEN If(a.len = 0 /\ a.null, [o EXCEPT !.mechanism = "NULL"])
         \cup If(Short(a), [o EXCEPT ![opt] = Text(a.len, a.v), !.as_server = 0, !.mechanism = "PLAIN"])
    ELSE IF opt = "ZAP_DOMAIN" THEN If(a.len < 256, [o EXCEPT !.ZAP_DOMAIN = Text(a.len, a.v)])
    ELSE {}

\* A key comes in binary, or in Z85 with or without its NUL; zmq_z85_decode
\* refuses a text whose length is not a multiple of five.
SetCurve(opt, a) ==
    LET key == a.len = KeySize \/ (a.len \in {Z85Size, Z85Size + 1} /\ a.v # 0)
    IN  IF opt = "CURVE_SERVER"
        THEN If(is_int(a) /\ a.v \in {0, 1},
                [o EXCEPT !.as_server = a.v, !.mechanism = IF a.v = 1 THEN "CURVE" ELSE "NULL"])
        ELSE IF opt \in {"CURVE_PUBLICKEY", "CURVE_SECRETKEY"}
        THEN If(key, [o EXCEPT ![opt] = a.v, !.mechanism = "CURVE"])
        ELSE IF opt = "CURVE_SERVERKEY"
        THEN If(key, [o EXCEPT ![opt] = a.v, !.mechanism = "CURVE", !.as_server = 0])
        ELSE {}

SetGssapi(opt, a) ==
    IF opt = "GSSAPI_SERVER"
    THEN If(is_int(a) /\ a.v \in {0, 1}, [o EXCEPT !.as_server = a.v, !.mechanism = "GSSAPI"])
    ELSE IF opt = "GSSAPI_PRINCIPAL"
    THEN If(Short(a), [o EXCEPT ![opt] = Text(a.len, a.v), !.mechanism = "GSSAPI"])
    ELSE IF opt = "GSSAPI_SERVICE_PRINCIPAL"
    THEN If(Short(a), [o EXCEPT ![opt] = Text(a.len, a.v), !.mechanism = "GSSAPI", !.as_server = 0])
    ELSE If(opt = "GSSAPI_PLAINTEXT" /\ is_int(a) /\ a.v \in {0, 1},
            [o EXCEPT !.GSSAPI_PLAINTEXT = a.v])

\* C divides towards zero.
InDeciseconds(v) == IF v >= 0 THEN v \div 100 ELSE -((-v) \div 100)

SetTtl(opt, a) ==
    If(opt = "HEARTBEAT_TTL" /\ is_int(a) /\ InDeciseconds(a.v) \in 0..MaxTtl,
       [o EXCEPT !.heartbeat_ttl = InDeciseconds(a.v)])

SetOther(opt, a) ==
    \/ opt \in {"HANDSHAKE_IVL", "HEARTBEAT_IVL", "HEARTBEAT_TIMEOUT"} /\ is_int(a) /\ a.v >= 0
    \/ opt = "USE_FD" /\ is_int(a) /\ a.v >= -1
    \/ opt = "CONFLATE" /\ is_int(a) /\ a.v \in {0, 1}
    \/ opt \in {"VMCI_BUFFER_SIZE", "VMCI_BUFFER_MIN_SIZE", "VMCI_BUFFER_MAX_SIZE"} /\ a.len = 8
    \/ opt = "VMCI_CONNECT_TIMEOUT" /\ is_int(a)

SetInverted(opt, a) ==
    If(opt = "INVERT_MATCHING" /\ is_int(a), [o EXCEPT !.INVERT_MATCHING = Truth(a.v)])

\* The switch: every option is in one place of it.
Set(opt, a) ==
    (IF SetNumber(opt, a) \/ SetTransport(opt, a) \/ SetOther(opt, a) THEN {[o EXCEPT ![opt] = a.v]} ELSE {})
    \cup (IF SetIdentity(opt, a) THEN {[o EXCEPT !.IDENTITY = Text(a.len, a.v)]} ELSE {})
    \cup SetIPv6(opt, a) \cup SetProxy(opt, a) \cup SetFilter(opt, a)
    \cup SetPlain(opt, a) \cup SetCurve(opt, a) \cup SetGssapi(opt, a)
    \cup SetTtl(opt, a) \cup SetInverted(opt, a)
-----------------------------------------------------------------------------
(* getsockopt: what a call with room for len bytes gets, or nothing. *)

\* Options that cannot be read.
WriteOnly == {"TCP_ACCEPT_FILTER", "IPC_FILTER_UID", "IPC_FILTER_GID", "IPC_FILTER_PID", "VMCI_BUFFER_SIZE",
              "VMCI_BUFFER_MIN_SIZE", "VMCI_BUFFER_MAX_SIZE", "VMCI_CONNECT_TIMEOUT"}

Texts == {"SOCKS_PROXY", "PLAIN_USERNAME", "PLAIN_PASSWORD", "ZAP_DOMAIN", "GSSAPI_PRINCIPAL",
          "GSSAPI_SERVICE_PRINCIPAL"}
Keys == {"CURVE_PUBLICKEY", "CURVE_SECRETKEY", "CURVE_SERVERKEY"}
Servers == [PLAIN_SERVER |-> "PLAIN", CURVE_SERVER |-> "CURVE", GSSAPI_SERVER |-> "GSSAPI"]

\* A text is copied with its NUL, an identity without.
GetText(opt, len) ==
    \/ opt \in Texts /\ len >= o[opt].size + 1
    \/ opt = "IDENTITY" /\ len >= o[opt].size

GetKey(opt, len) == opt \in Keys /\ len \in {KeySize, Z85Size + 1}

GetWide(opt, len) == opt \in Wide /\ len = 8

\* Variant that reads the role of the socket, whatever its mechanism.
GetRole_AnyMechanism(opt) == o.as_server

GetRole(opt) == IF o.mechanism = Servers[opt] THEN o.as_server ELSE 0

\* The options whose field is the number that is read.
GetNumber(opt) == o[opt]

GetInt(opt) ==
    CASE opt = "IPV6" -> o.ipv6
      [] opt = "IPV4ONLY" -> 1 - o.ipv6
      [] opt = "HEARTBEAT_TTL" -> o.heartbeat_ttl * 100
      [] opt \in DOMAIN Servers -> GetRole(opt)
      [] OTHER -> GetNumber(opt)

Get(opt, len) ==
    IF opt \in WriteOnly THEN {}
    ELSE IF opt \in Texts \cup {"IDENTITY"} THEN If(GetText(opt, len), o[opt])
    ELSE IF opt \in Keys \cup Wide THEN If(GetKey(opt, len) \/ GetWide(opt, len), o[opt])
    ELSE If(len = IntSize, IF opt = "MECHANISM" THEN o.mechanism ELSE GetInt(opt))
-----------------------------------------------------------------------------
(* The calls. *)

Init == /\ cx = [MAX_SOCKETS |-> 1023, IO_THREADS |-> 1, IPV6 |-> 0, BLOCKY |-> 1,
                 MAX_MSGSZ |-> 2147483647]
        /\ made = FALSE
        /\ group \in Groups
        /\ o = Defaults
        /\ pipes = <<>>
        /\ log = <<>>

\* The most sockets that the poller's descriptors allow.
SocketLimit == 65535

CtxTakes(opt, v) ==
    \/ opt = "MAX_SOCKETS" /\ v >= 1 /\ v <= SocketLimit
    \/ opt # "MAX_SOCKETS" /\ v >= 0

zmq_ctx_set(opt, v) ==
    /\ CtxTakes(opt, v)
    /\ cx' = [cx EXCEPT ![opt] = IF opt \in {"IPV6", "BLOCKY"} THEN Truth(v) ELSE v]
    /\ UNCHANGED <<made, group, o, pipes, log>>

\* The types there are; any other is refused with EINVAL.
create(type) ==
    type \in {"PAIR", "PUB", "SUB", "REQ", "REP", "DEALER", "ROUTER", "PULL", "PUSH", "XPUB", "XSUB", "STREAM",
              "SERVER", "CLIENT", "RADIO", "DISH", "GATHER", "SCATTER", "DGRAM"}

zmq_socket(type) ==
    /\ ~made
    /\ made' = create(type)
    /\ o' = IF create(type) THEN Made ELSE o
    /\ UNCHANGED <<cx, group, pipes, log>>

\* Variant that gives the pipes the marks from before the call.
update_pipe_options_Before(opt) ==
    pipes' = IF opt \notin {"SNDHWM", "RCVHWM"} THEN pipes
             ELSE [i \in DOMAIN pipes |-> [pipes[i] EXCEPT !.hwms = <<o.RCVHWM, o.SNDHWM>>]]

update_pipe_options(opt) ==
    pipes' = IF opt \notin {"SNDHWM", "RCVHWM"} THEN pipes
             ELSE [i \in DOMAIN pipes |-> [pipes[i] EXCEPT !.hwms = <<o'.RCVHWM, o'.SNDHWM>>]]

\* No socket type overloads one of these options: xsetsockopt returns EINVAL.
setsockopt(opt, a) ==
    /\ made
    /\ Len(log) < MaxCalls
    /\ o' \in Set(opt, a)
    /\ update_pipe_options(opt)
    /\ log' = Append(log, [opt |-> opt, a |-> a])
    /\ UNCHANGED <<cx, made, group>>

\* EINVAL: the options have not changed, but the pipes are given their marks again.
setsockopt_fails(opt, a) ==
    /\ made
    /\ Set(opt, a) = {}
    /\ UNCHANGED <<cx, made, group, o, log>>
    /\ update_pipe_options(opt)

\* connect () makes a pipe; one that conflates has no marks.
attach_pipe ==
    /\ made
    /\ group.opts \cap {"SNDHWM", "CONFLATE"} # {} /\ Len(pipes) < 2
    /\ pipes' = Append(pipes, [conflate |-> o.CONFLATE,
                               hwms |-> IF o.CONFLATE = 1 THEN <<-1, -1>> ELSE <<o.RCVHWM, o.SNDHWM>>])
    /\ UNCHANGED <<cx, made, group, o, log>>

Args == {a \in [len : group.sizes, null : BOOLEAN, v : group.values] : a.null => a.len = 0 /\ a.v = 0}

CtxOptions == {"MAX_SOCKETS", "IO_THREADS", "IPV6", "BLOCKY", "MAX_MSGSZ"}

Next ==
    \/ "LINGER" \in group.opts /\ ~made
          /\ \E opt \in CtxOptions, v \in {-1, 0, 1, 2} : zmq_ctx_set(opt, v)
    \/ \E type \in {"DEALER", "none"} : zmq_socket(type)
    \/ \E opt \in group.opts, a \in Args : setsockopt(opt, a) \/ setsockopt_fails(opt, a)
    \/ attach_pipe

Spec == Init /\ [][Next]_ovars
-----------------------------------------------------------------------------
(* What zmq_getsockopt is documented to return, from the calls there were. *)

Latest(hits) == IF hits = {} THEN 0 ELSE CHOOSE i \in hits : \A j \in hits : j <= i

\* Whether and how a call decides the mechanism, and the role of the socket.
Curves == {"CURVE_SERVER"} \cup Keys
Gssapis == {"GSSAPI_SERVER", "GSSAPI_PRINCIPAL", "GSSAPI_SERVICE_PRINCIPAL"}
Plains == {"PLAIN_SERVER", "PLAIN_USERNAME", "PLAIN_PASSWORD"}
Security == Plains \cup Curves \cup Gssapis

AsksFor(c) ==
    IF c.opt \in {"PLAIN_SERVER", "CURVE_SERVER"} /\ c.a.v = 0 THEN "NULL"
    ELSE IF c.opt \in Plains THEN (IF c.a.null THEN "NULL" ELSE "PLAIN")
    ELSE IF c.opt \in Curves THEN "CURVE" ELSE "GSSAPI"

\* The calls that decide on the role.  An empty name or password, and the
\* socket's own keys and principal, say nothing about it.
Decides(c) == \/ c.opt \in DOMAIN Servers \cup {"CURVE_SERVERKEY", "GSSAPI_SERVICE_PRINCIPAL"}
              \/ c.opt \in {"PLAIN_USERNAME", "PLAIN_PASSWORD"} /\ ~c.a.null

IsServer ==
    \E i \in DOMAIN log :
        /\ log[i].opt \in DOMAIN Servers /\ log[i].a.v = 1
        /\ \A j \in i + 1 .. Len(log) : ~Decides(log[j])

\* A mechanism is the one that the latest call about security asks for, and a
\* socket is the server of at most one, and of none after a call that says that it
\* is a client.  (The three server options, the keys and the names share
\* options.mechanism and options.as_server.)
OneRole ==
    LET i == Latest({k \in DOMAIN log : log[k].opt \in Security})
    IN  /\ o.mechanism = IF i = 0 THEN "NULL" ELSE AsksFor(log[i])
        /\ \A s \in DOMAIN Servers :
              Get(s, IntSize) = {IF IsServer /\ o.mechanism = Servers[s] THEN 1 ELSE 0}

\* What was set is what is read, in the units of the manual, until the option or
\* one that shares its field is set again: IPV4ONLY is the opposite of IPV6, a
\* TTL is rounded down to a tenth of a second, and an empty user name leaves the
\* name as it was.  Before that it is the default, or what the context says.
ReadsBack ==
    made => \A opt \in group.opts \ (WriteOnly \cup DOMAIN Servers) :
        LET mine == IF opt \in {"IPV6", "IPV4ONLY"} THEN {"IPV6", "IPV4ONLY"} ELSE {opt}
            i == Latest({k \in DOMAIN log : log[k].opt \in mine /\ ~(opt \in Plains /\ log[k].a.null)})
            a == log[i].a
            was == CASE opt = "IPV6" -> cx.IPV6
                     [] opt = "IPV4ONLY" -> 1 - cx.IPV6
                     [] opt = "LINGER" -> IF cx.BLOCKY = 1 THEN -1 ELSE 0
                     [] opt = "HEARTBEAT_TTL" -> 0
                     [] OTHER -> Defaults[opt]
            want == CASE i = 0 -> was
                      [] i # 0 /\ opt \in Texts \cup {"IDENTITY"} -> IF a.null THEN NoText ELSE Text(a.len, a.v)
                      [] i # 0 /\ opt = "HEARTBEAT_TTL" -> IF a.v < 0 THEN 0 ELSE a.v - (a.v % 100)
                      [] i # 0 /\ opt = "INVERT_MATCHING" -> Truth(a.v)
                      [] OTHER -> IF log[i].opt # opt THEN 1 - a.v ELSE a.v
        IN  \A len \in group.sizes : Get(opt, len) \subseteq {want}

\* A filter that was given is in force until all are removed, and no other is.
FiltersKept ==
    \A f \in group.opts \cap {"TCP_ACCEPT_FILTER", "IPC_FILTER_UID", "IPC_FILTER_GID", "IPC_FILTER_PID"} :
        \A v \in group.values :
            v \in o[f] <=> \E i \in DOMAIN log :
                              /\ log[i].opt = f /\ ~log[i].a.null /\ log[i].a.v = v
                              /\ \A j \in i + 1 .. Len(log) : ~(log[j].opt = f /\ log[j].a.null)

\* A pipe has the marks of the socket as they are now, or none because it was
\* made to conflate and they have not been set since (update_pipe_options).
MarksFollow ==
    \A i \in DOMAIN pipes :
        \/ pipes[i].hwms = <<o.RCVHWM, o.SNDHWM>>
        \/ pipes[i].conflate = 1 /\ pipes[i].hwms = <<-1, -1>>

\* What a call that sets an option leaves, and what a call that reads one gets.
OptionsExact == OneRole /\ ReadsBack /\ FiltersKept /\ MarksFollow
=============================================================================
