------------------------------ MODULE MCEngine ------------------------------
(* Configurations of the two ends for TLC. *)
EXTENDS Engine

Base ==
    [type |-> "DEALER", identity |-> "", recv_identity |-> FALSE,
     mechanism |-> "NULL", as_server |-> FALSE, zap_domain |-> FALSE,
     key |-> "none", server_key |-> "none", principal |-> "none", principals |-> {},
     gss_plaintext |-> FALSE, rcvhwm |-> 0, immediate |-> FALSE,
     zap |-> "none", zap_quick |-> FALSE, raw |-> FALSE, handshake_ivl |-> FALSE,
     heartbeat |-> FALSE, heartbeat_timeout |-> FALSE, ttl |-> 0,
     sends |-> <<>>, closes |-> FALSE, script |-> <<>>]

One(id) == <<Part(id, "body", FALSE)>>
Two(id) == <<Part(id, "first", TRUE), Part(id, "last", FALSE)>>
Case(a, b) == [a |-> a, b |-> b]

Sender == [Base EXCEPT !.type = "PUSH", !.sends = <<Two(1), One(2), One(3)>>]
Receiver == [Base EXCEPT !.type = "PULL", !.rcvhwm = 1]
Router == [Base EXCEPT !.type = "ROUTER", !.recv_identity = TRUE, !.sends = <<One(7)>>]
Dealer == [Base EXCEPT !.identity = "d", !.sends = <<Two(1)>>]

\* NULL: back-pressure, reconnection, a silent ZAP handler and a strict one.
NullCases ==
    {Case(Sender, Receiver), Case(Receiver, Sender), Case(Dealer, Router), Case(Router, Dealer),
     Case([Sender EXCEPT !.sends = <<>>], [Receiver EXCEPT !.closes = TRUE]),
     Case([Sender EXCEPT !.closes = TRUE], Receiver),
     Case([Sender EXCEPT !.immediate = TRUE, !.handshake_ivl = TRUE], Receiver),
     Case(Sender, Router), Case(Sender, [Receiver EXCEPT !.mechanism = "PLAIN"])}
    \cup {Case(Dealer, [Router EXCEPT !.zap_domain = TRUE, !.zap = z, !.zap_quick = quick]) :
              z \in {"none", "200", "400"}, quick \in BOOLEAN}

Secure(o, mechanism, server) ==
    [o EXCEPT !.mechanism = mechanism, !.as_server = server,
              !.key = IF server THEN "ks" ELSE "kc", !.server_key = IF server THEN "none" ELSE "ks"]

PlainCases ==
    {Case(Secure(Dealer, "PLAIN", FALSE),
          [Secure(Router, "PLAIN", TRUE) EXCEPT !.zap = z, !.zap_quick = quick]) :
        z \in {"none", "200", "400", "bad"}, quick \in BOOLEAN}
    \cup {Case(Secure(Sender, "PLAIN", FALSE),
               [Secure(Receiver, "PLAIN", TRUE) EXCEPT !.zap = "200", !.rcvhwm = hwm]) : hwm \in {1, 2}}

CurveCases ==
    {Case([Secure(Dealer, "CURVE", FALSE) EXCEPT !.server_key = k],
          [Secure(Router, "CURVE", TRUE) EXCEPT !.zap = z]) :
        k \in {"ks", "other"}, z \in {"none", "200", "400"}}
    \cup {Case(Secure(Sender, "CURVE", FALSE), Secure(Receiver, "CURVE", TRUE))}

GssapiCases ==
    {Case([Secure(Dealer, "GSSAPI", FALSE) EXCEPT !.principal = "p", !.gss_plaintext = plain],
          [Secure(Router, "GSSAPI", TRUE) EXCEPT !.principals = {"p"}, !.zap = z,
                                                 !.gss_plaintext = plain]) :
        z \in {"none", "200", "400"}, plain \in BOOLEAN}

\* Sessions of their own, heartbeats, and ends that are not this library.
Request(id) == <<Part(id, "delimiter", TRUE), Part(id, "body", FALSE)>>
Beating(o) == [o EXCEPT !.heartbeat = TRUE, !.heartbeat_timeout = TRUE, !.ttl = 10, !.rcvhwm = 0]

PatternCases ==
    {Case([Base EXCEPT !.type = "REQ", !.sends = <<Request(1)>>],
          [Base EXCEPT !.type = "REP", !.sends = <<Request(2)>>]),
     Case([Base EXCEPT !.type = "DISH", !.sends = <<<<Part("g", "JOIN", FALSE)>>>>],
          [Base EXCEPT !.type = "RADIO", !.sends = <<One(1), One(2)>>]),
     Case(Beating([Sender EXCEPT !.sends = <<Two(1)>>]), Beating(Receiver)),
     Case(Secure([Sender EXCEPT !.sends = <<One(1)>>], "CURVE", FALSE),
          Beating(Secure(Receiver, "CURVE", TRUE)))}

Old(n) == <<Sig, Revision(n), SocketType(Base)>>
Identity == <<Part("x", "identity", FALSE)>>
Speaks(script) == [Base EXCEPT !.script = script, !.sends = <<One(1), One(2)>>]
Says == One(1) \o One(2)

ForeignCases ==
    {Case(o, [Speaks(Old(n) \o Identity \o Says) EXCEPT !.type = t]) :
        n \in {0, 1}, o \in {[Receiver EXCEPT !.zap_domain = FALSE]}, t \in {"PUSH"}}
    \cup {Case(Receiver, [Speaks(Identity \o Says) EXCEPT !.type = "PUSH"]),
           Case([Base EXCEPT !.type = "PUB", !.sends = <<One(7)>>],
                [Speaks(Identity) EXCEPT !.type = "SUB", !.sends = <<>>]),
           Case([Secure(Receiver, "PLAIN", FALSE) EXCEPT !.handshake_ivl = TRUE],
                [Speaks(Old(0) \o Identity \o Says) EXCEPT !.type = "PUSH"]),
           Case([Receiver EXCEPT !.handshake_ivl = TRUE],
                [Speaks(<<Sig>>) EXCEPT !.mechanism = "silent"]),
           Case([Base EXCEPT !.type = "DEALER", !.raw = TRUE, !.sends = <<One(7)>>],
                [Speaks(Says) EXCEPT !.closes = TRUE])}

AllCases == NullCases \cup PlainCases \cup CurveCases \cup GssapiCases
                \cup PatternCases \cup ForeignCases

\* A REQ socket with heartbeats.
HeartbeatCases ==
    {Case([Base EXCEPT !.type = "REQ", !.sends = <<Request(1)>>, !.heartbeat = TRUE],
          [Base EXCEPT !.type = "REP", !.sends = <<Request(2)>>])}
=============================================================================
