------------------------------- MODULE PubSub -------------------------------
(***************************************************************************)
(* PUB, XPUB, SUB, XSUB, RADIO and DISH: the socket types that send one    *)
(* message to many peers, and those that tell them what to send.           *)
(*                                                                         *)
(* Two links join publishers with subscribers: one publisher with two      *)
(* subscribers, or one subscriber with two publishers.  On each link the   *)
(* messages travel down and the subscriptions up, each through the pipe of *)
(* the socket that writes them; the steps Down and Up are the sessions and *)
(* engines between the two pipes.  A connection may break: the publisher's *)
(* pipe terminates, the subscriber's pipe gets a hiccup, and a new         *)
(* connection brings the publisher a new pipe, maybe before the old one    *)
(* has gone.                                                               *)
(*                                                                         *)
(* The trie_t of XSUB is the number of subscriptions of each filter, the   *)
(* mtrie_t of XPUB and the multimap of RADIO their number for each filter  *)
(* and pipe; module Trie is about the tries themselves.                    *)
(***************************************************************************)
EXTENDS Balance, FiniteSets

CONSTANTS Links,       \* the links
          First,       \* one of them
          PubPipes,    \* the pipes of the publishers
          Cases,       \* the topologies, socket types, options and bounds
          Prefixes,    \* what SUB and XSUB sockets subscribe to
          Topics,      \* the first parts of messages, and the groups
          Covers,      \* pairs of a prefix and a topic or prefix that begins with it
          ManualTerminates,  \* connections to an XPUB in manual mode may break
          DishReconnects     \* connections of a DISH may break

ASSUME PubSubAssumption ==
    /\ First \in Links /\ NoPipe \notin PubPipes
    /\ Covers \subseteq Prefixes \X (Prefixes \cup Topics)
    /\ \A c \in Cases : /\ c.topo \in {"fanout", "fanin"}
                       /\ c.maxsub \in Nat /\ c.maxsend \in Nat /\ c.maxbreak \in Nat

VARIABLES opt,   \* the case
          x,     \* the publishers
          y,     \* the subscribers
          PP,    \* the pipes of the publishers
          SP,    \* the pipes of the subscribers, one for each link
          peer,  \* link -> the publisher's pipe while it is connected
          hic,   \* links whose hiccup the subscriber has not processed
          n,     \* how many subscriptions, messages and breaks there have been
          sent,  \* whether the message begun last went to the right pipes, and
                 \* the pipes selected for messages that were refused since one ended
          drop   \* links on which a subscription was dropped at SNDHWM

vars == <<opt, x, y, PP, SP, peer, hic, n, sent, drop>>

PubOf(l) == IF opt.topo = "fanout" THEN First ELSE l
SubOf(l) == IF opt.topo = "fanin" THEN First ELSE l
Pubs == {PubOf(l) : l \in Links}
Subs == {SubOf(l) : l \in Links}

\* RADIO and DISH compare whole groups, the others prefixes.
Filters == IF opt.radio THEN Topics ELSE Prefixes
Matches(f, t) == IF opt.radio THEN f = t ELSE <<f, t>> \in Covers

Range1(s) == {s[i] : i \in DOMAIN s}
Attached(u) == Range1(x[u].dist.pipes)
Free == {p \in PubPipes : \A u \in Pubs : p \notin Attached(u)}

Part(t, k, more) == [part |-> t, id |-> k, more |-> more]
Sub(f) == [part |-> f, op |-> "sub", more |-> FALSE]
Unsub(f) == [part |-> f, op |-> "unsub", more |-> FALSE]
User == [part |-> "", op |-> "user", more |-> FALSE]
Welcome == Part("welcome", 0, FALSE)

Publisher ==
    [dist |-> Dist, subs |-> [f \in Filters |-> [p \in PubPipes |-> 0]],
     msubs |-> [f \in Filters |-> {}],
     pending |-> <<>>, ppipes |-> <<>>, last_pipe |-> NoPipe, more |-> FALSE,
     id |-> 0, up |-> {}, ok |-> TRUE]

Subscriber ==
    [dist |-> Dist, fq |-> Fq, subs |-> [f \in Filters |-> 0],
     has_message |-> FALSE, message |-> Delimiter, more |-> FALSE,
     got |-> <<>>, whole |-> TRUE, ok |-> TRUE]

Init ==
    /\ opt \in Cases
    /\ x = [u \in Pubs |-> Publisher]
    /\ y = [v \in Subs |-> Subscriber]
    /\ PP = [p \in PubPipes |-> NewPipe]
    /\ SP = [l \in Links |-> [NewPipe EXCEPT !.state = "none"]]
    /\ peer = [l \in Links |-> NoPipe]
    /\ hic = {} /\ drop = {}
    /\ n = [sub |-> 0, send |-> 0, break |-> 0]
    /\ sent = [exact |-> TRUE, left |-> {}]

Check(s, cond) == [s EXCEPT !.ok = @ /\ cond]

(***************************************************************************)
(* The tries and the multimap: what they do, and what they return.         *)
(***************************************************************************)
Subscribed(s, f) == {p \in PubPipes : s.subs[f][p] > 0}

mtrie_add(s, f, p) ==
    [s |-> [s EXCEPT !.subs[f][p] = IF opt.radio THEN @ + 1 ELSE 1],
     unique |-> Subscribed(s, f) = {}]

\* rm () of a prefix nobody has returns true if the trie has a node for it.
HasNode(s, f) == f = "" \/ \E g \in Filters : <<f, g>> \in Covers /\ Subscribed(s, g) # {}

\* zmq_assert (erased == 1) when somebody else has the prefix.
mtrie_rm(s, f, p) ==
    LET s1 == [s EXCEPT !.subs[f][p] = IF @ > 0 THEN @ - 1 ELSE 0]
    IN  [s |-> Check(s1, opt.radio \/ Subscribed(s, f) = {} \/ p \in Subscribed(s, f)),
         unique |-> HasNode(s, f) /\ Subscribed(s1, f) = {}]

\* All of a pipe; the filters are those reported as unsubscribed.
mtrie_rm_pipe(s, p, uniq) ==
    [s |-> [s EXCEPT !.subs = [f \in Filters |-> [@[f] EXCEPT ![p] = 0]]],
     gone |-> {f \in Filters : p \in Subscribed(s, f) /\ (uniq => Subscribed(s, f) = {p})}]

\* The order in which a trie visits its prefixes.
Order(fs) == CHOOSE s \in [1..Cardinality(fs) -> fs] : Range1(s) = fs

(***************************************************************************)
(* XPUB, PUB and RADIO.                                                    *)
(***************************************************************************)
Pend(s, m) == IF opt.pub THEN s ELSE [s EXCEPT !.pending = Append(@, m)]

\* One message of the loop of xread_activated ().
xpub_process(s, m, p) ==
    LET r == IF m.op = "sub" THEN mtrie_add(s, m.part, p) ELSE mtrie_rm(s, m.part, p)
    IN  CASE m.op = "user" -> IF opt.radio THEN s ELSE [s EXCEPT !.pending = Append(@, m)]
          [] opt.radio -> r.s
          [] opt.manual ->
                [s EXCEPT !.msubs[m.part] = IF m.op = "sub" THEN @ \cup {p} ELSE @ \ {p},
                          !.pending = Append(@, m), !.ppipes = Append(@, p)]
          [] OTHER -> IF r.unique \/ (m.op = "sub" /\ opt.verbose) THEN Pend(r.s, m) ELSE r.s

xpub_xattach_pipe(s, p) == [s EXCEPT !.dist = dist_attach(@, p)]

\* send_unsubscription () for each of the filters.
send_unsubscription(s, fs) ==
    LET o == Order(fs)
    IN  IF opt.pub \/ opt.radio \/ fs = {} THEN s
        ELSE [s EXCEPT !.pending = @ \o [i \in DOMAIN o |-> Unsub(o[i])],
                       !.last_pipe = IF opt.manual THEN NoPipe ELSE @,
                       !.ppipes = IF opt.manual THEN @ \o [i \in DOMAIN o |-> NoPipe] ELSE @]

\* Variant that does not tell the socket who has gone.
xpub_xpipe_terminated_Silent(s, p) ==
    [mtrie_rm_pipe(s, p, TRUE).s EXCEPT !.dist = dist_pipe_terminated(@, p)]

xpub_xpipe_terminated(s, p) ==
    LET r == mtrie_rm_pipe(s, p, TRUE)
        s1 == IF opt.manual
              THEN send_unsubscription([s EXCEPT !.msubs = [f \in Filters |-> @[f] \ {p}]],
                                       {f \in Filters : p \in s.msubs[f]})
              ELSE send_unsubscription(r.s, r.gone)
    IN  [s1 EXCEPT !.dist = dist_pipe_terminated(@, p)]

\* The calls of mark_as_matching (), and of match () in radio_t::xsend.
Matched(d, ps) ==
    LET o == Order(ps)
        t[k \in 0..Len(o)] == IF k = 0 THEN d ELSE dist_match(t[k - 1], o[k])
    IN  t[Len(o)]

Interested(s, t) == UNION {Subscribed(s, f) : f \in {g \in Filters : Matches(g, t)}}

\* Selects the pipes for the part m.
Select(s, m) ==
    LET d == Matched(IF opt.radio THEN dist_unmatch(s.dist) ELSE s.dist, Interested(s, m.part))
    IN  IF opt.invert THEN reverse_match(d) ELSE d

\* Variant that selects the pipes for every part anew.
SelectFirst_EachPart(s, m) == Select(s, m)

\* The pipes that match are found for the first part only.
SelectFirst(s, m) == IF s.more THEN s.dist ELSE Select(s, m)

\* Variant that leaves the pipes matching.
Sent_KeepsMatching(d, m) == d

\* The end of a message: nothing matches any more.
Sent(d, m) == IF m.more \/ opt.radio THEN d ELSE dist_unmatch(d)

PartSent(s, r, m) == [rc |-> 0, P |-> r.P, s |-> [s EXCEPT !.dist = Sent(r.d, m), !.more = m.more]]

SendSelected(s, d, P, m) ==
    IF opt.lossy \/ dist_check_hwm(d, P) THEN PartSent(s, send_to_matching(d, P, m), m)
    ELSE [rc |-> -1, P |-> P, s |-> [s EXCEPT !.dist = d]]

xpub_xsend(s, P, m) == SendSelected(s, SelectFirst(s, m), P, m)

\* xrecv () of XPUB; up is what a socket further upstream would be told.
xpub_xrecv(s) ==
    LET m == Head(s.pending)
    IN  [s EXCEPT !.pending = Tail(@),
                  !.last_pipe = IF opt.manual /\ s.ppipes # <<>> THEN Head(s.ppipes) ELSE @,
                  !.ppipes = IF opt.manual /\ @ # <<>> THEN Tail(@) ELSE @,
                  !.up = IF m.op = "sub" THEN @ \cup {m.part}
                         ELSE IF m.op = "unsub" THEN @ \ {m.part} ELSE @]

\* xsetsockopt () with ZMQ_SUBSCRIBE or ZMQ_UNSUBSCRIBE, in manual mode.
xpub_xsetsockopt(s, f, subscribe) ==
    IF s.last_pipe = NoPipe THEN s
    ELSE IF subscribe THEN mtrie_add(s, f, s.last_pipe).s ELSE mtrie_rm(s, f, s.last_pipe).s

(***************************************************************************)
(* XSUB, SUB and DISH.  r is the socket and its pipes.                     *)
(***************************************************************************)
\* The writes of send_subscription () to one pipe, and the flush.
SendSubscriptions(s, P, l) ==
    LET o == Order({f \in Filters : s.subs[f] > 0})
        t[k \in 0..Len(o)] ==
            IF k = 0 THEN P
            ELSE LET Q == t[k - 1]
                 IN  IF check_write(Q, l) THEN flush(write(Q, l, Sub(o[k])), l) ELSE WriteFailed(Q, l)
    IN  t[Len(o)]

xsub_xattach_pipe(s, l) == [s EXCEPT !.fq = attach(@, l), !.dist = dist_attach(@, l)]

xsub_xpipe_terminated(s, l) ==
    [s EXCEPT !.fq = fq_pipe_terminated(@, l), !.dist = dist_pipe_terminated(@, l)]

AllSent(s, r) == [s |-> [s EXCEPT !.dist = r.d], P |-> r.P]
SendAll(s, P, m) == AllSent(s, send_to_all(s.dist, P, m))

\* Variant that forwards every unsubscription.
xsub_xsend_EveryUnsub(s, P, m) ==
    CASE m.op = "sub" -> SendAll([s EXCEPT !.subs[m.part] = @ + 1], P, m)
      [] m.op = "unsub" -> SendAll([s EXCEPT !.subs[m.part] = IF @ > 0 THEN @ - 1 ELSE 0], P, m)
      [] m.op = "user" -> SendAll(s, P, m)

\* Only the last of the unsubscriptions is sent.
xsub_xsend(s, P, m) ==
    CASE m.op = "sub" -> SendAll([s EXCEPT !.subs[m.part] = @ + 1], P, m)
      [] m.op = "unsub" /\ s.subs[m.part] = 1 -> SendAll([s EXCEPT !.subs[m.part] = 0], P, m)
      [] m.op = "unsub" /\ s.subs[m.part] # 1 ->
            [s |-> [s EXCEPT !.subs[m.part] = IF @ > 0 THEN @ - 1 ELSE 0], P |-> P]
      [] m.op = "user" -> SendAll(s, P, m)

\* DISH refuses to join a group twice, and to leave one it has not joined.
xjoin_xleave(s, P, m) ==
    IF (m.op = "sub") = (s.subs[m.part] > 0) THEN [s |-> s, P |-> P] ELSE xsub_xsend(s, P, m)

match(s, t) == (\E f \in Filters : s.subs[f] > 0 /\ Matches(f, t)) # opt.invert

FqReceived(s, q) == [s |-> Check([s EXCEPT !.fq = q.fq], q.ok), P |-> q.P, rc |-> q.rc, msg |-> q.msg]
fq_recv(r) == FqReceived(r.s, fq_recvpipe(r.s.fq, r.P))

\* The loops of xrecv () and xhas_in (): the parts of messages that do not
\* match are thrown away, which must not fail in the middle of a message.
RECURSIVE Skim(_, _)
Skim(r, rest) ==
    IF r.rc # 0 \/ (~rest /\ (r.s.more \/ ~opt.filter \/ match(r.s, r.msg.part))) THEN r
    ELSE LET r1 == fq_recv(r)
         IN  Skim([r1 EXCEPT !.s = Check(@, r.msg.more => r1.rc = 0)], r.msg.more)

RecvMatching(s, P) == Skim(fq_recv([s |-> s, P |-> P]), FALSE)

xsub_xrecv(s, P) ==
    IF s.has_message
    THEN [s |-> [s EXCEPT !.has_message = FALSE, !.message = Delimiter, !.more = s.message.more],
          P |-> P, rc |-> 0, msg |-> s.message]
    ELSE LET r == RecvMatching(s, P) IN [r EXCEPT !.s.more = IF r.rc # 0 THEN @ ELSE r.msg.more]

Fetched(r) ==
    [s |-> IF r.rc # 0 THEN r.s ELSE [r.s EXCEPT !.has_message = TRUE, !.message = r.msg], P |-> r.P]

xsub_xhas_in(s, P) ==
    IF s.more \/ s.has_message THEN [s |-> s, P |-> P] ELSE Fetched(RecvMatching(s, P))

(***************************************************************************)
(* The application of a publisher.                                         *)
(***************************************************************************)
\* The pipes that a message with the topic t is for.
Wanted(u, t) == {p \in Attached(u) : (p \in Interested(x[u], t)) # opt.invert}

Grown(P, Q) == {p \in DOMAIN P : Q[p].w # P[p].w \/ Q[p].tx # P[p].tx}

\* The message with the topic t was written to the pipes ps, of all that could
\* be written to the right ones; left are those that a refused send selected.
Audience(ps, u, t, left) ==
    LET right == {p \in Wanted(u, t) : check_write(PP, p)}
    IN  /\ ps \ left = right \ left
        /\ opt.invert \/ right \subseteq ps

\* zmq_msg_send: the first part of a message, or what is left of it.
Send(u) ==
    /\ x[u].more \/ n.send < opt.maxsend
    /\ \E m \in IF x[u].more THEN {Part("body", x[u].id, FALSE)}
               ELSE {Part(t, n.send + 1, more) : t \in Topics, more \in IF opt.radio THEN {FALSE} ELSE BOOLEAN} :
         \E r \in {xpub_xsend(x[u], PP, m)} :
             /\ x' = [x EXCEPT ![u] = [r.s EXCEPT !.id = IF r.s.more THEN m.id ELSE 0]]
             /\ PP' = r.P
             /\ n' = IF r.rc = 0 /\ ~x[u].more THEN [n EXCEPT !.send = @ + 1] ELSE n
             /\ sent' = [exact |-> IF r.rc # 0 \/ x[u].more THEN sent.exact
                                   ELSE Audience(Grown(PP, r.P), u, m.part, sent.left),
                         left |-> IF r.rc # 0 THEN sent.left \cup Wanted(u, m.part)
                                  ELSE IF m.more THEN sent.left ELSE sent.left \ Attached(u)]
    /\ UNCHANGED <<opt, y, SP, peer, hic, drop>>

\* zmq_msg_recv of an XPUB
RecvSubscription(u) ==
    /\ ~opt.pub /\ x[u].pending # <<>>
    /\ x' = [x EXCEPT ![u] = xpub_xrecv(@)]
    /\ UNCHANGED <<opt, y, PP, SP, peer, hic, n, sent, drop>>

\* zmq_setsockopt of ZMQ_SUBSCRIBE or ZMQ_UNSUBSCRIBE in manual mode
SetManual(u, f) ==
    /\ opt.manual /\ x[u].last_pipe # NoPipe
    /\ \/ x' = [x EXCEPT ![u] = xpub_xsetsockopt(@, f, TRUE)]
       \/ /\ x[u].last_pipe \in Subscribed(x[u], f)
          /\ x' = [x EXCEPT ![u] = xpub_xsetsockopt(@, f, FALSE)]
    /\ UNCHANGED <<opt, y, PP, SP, peer, hic, n, sent, drop>>

(***************************************************************************)
(* The application of a subscriber.                                        *)
(***************************************************************************)
LinksOf(v) == {l \in Links : SubOf(l) = v}

\* zmq_connect
ZmqConnect(l) ==
    /\ SP[l].state = "none"
    /\ LET P1 == SendSubscriptions(y[SubOf(l)], [SP EXCEPT ![l] = NewPipe], l)
       IN  /\ SP' = P1
           /\ drop' = IF P1[l].out_active THEN drop ELSE drop \cup {l}
    /\ y' = [y EXCEPT ![SubOf(l)] = xsub_xattach_pipe(@, l)]
    /\ UNCHANGED <<opt, x, PP, peer, hic, n, sent>>

\* zmq_setsockopt of SUB, zmq_msg_send of XSUB, zmq_join and zmq_leave of DISH
Subscribe(v, m) ==
    /\ n.sub < opt.maxsub
    /\ \E r \in {IF opt.radio THEN xjoin_xleave(y[v], SP, m) ELSE xsub_xsend(y[v], SP, m)} :
           /\ y' = [y EXCEPT ![v] = r.s]
           /\ SP' = r.P
           /\ drop' = drop \cup IF m.op = "user" \/ r.s.subs = y[v].subs
                                   \/ (m.op = "unsub" /\ r.s.subs[m.part] > 0) THEN {}
                                ELSE {l \in LinksOf(v) : SP[l].state = "active"} \ Grown(SP, r.P)
    /\ n' = [n EXCEPT !.sub = @ + 1]
    /\ UNCHANGED <<opt, x, PP, peer, hic, sent>>

OneMessage(ms) == \A i \in DOMAIN ms :
    /\ ms[i].id = ms[1].id
    /\ ms[i].part = "body" <=> i # 1
    /\ ms[i].more \/ i = Len(ms)

\* The parts of an unfinished message are kept, to compare the next one.
Received(s, m) ==
    [s EXCEPT !.got = IF m.more THEN Append(@, m) ELSE <<>>,
              !.whole = @ /\ OneMessage(Append(s.got, m))]

\* zmq_msg_recv
Recv(v) ==
    /\ \E r \in {xsub_xrecv(y[v], SP)} :
           /\ SP' = r.P
           /\ y' = [y EXCEPT ![v] = IF r.rc # 0 THEN r.s ELSE Received(r.s, r.msg)]
    /\ UNCHANGED <<opt, x, PP, peer, hic, n, sent, drop>>

\* zmq_poll
Poll(v) ==
    /\ \E r \in {xsub_xhas_in(y[v], SP)} : SP' = r.P /\ y' = [y EXCEPT ![v] = r.s]
    /\ UNCHANGED <<opt, x, PP, peer, hic, n, sent, drop>>

(***************************************************************************)
(* Sessions, engines and the network.                                      *)
(***************************************************************************)
\* A connection is made: the publisher gets a pipe.
Attach(l) ==
    /\ SP[l].state = "active" /\ peer[l] = NoPipe /\ Free # {}
    /\ LET p == CHOOSE q \in Free : TRUE
           P1 == [PP EXCEPT ![p] = NewPipe]
       IN  /\ x' = [x EXCEPT ![PubOf(l)] = xpub_xattach_pipe(@, p)]
           /\ PP' = IF opt.welcome THEN flush(write(P1, p, Welcome), p) ELSE P1
           /\ peer' = [peer EXCEPT ![l] = p]
    /\ UNCHANGED <<opt, y, SP, hic, n, sent, drop>>

\* A subscription travels up: the publisher reads it, the subscriber's pipe
\* has room again.
Up(l) ==
    /\ peer[l] # NoPipe /\ l \notin hic /\ SP[l].tx # <<>>
    /\ x' = [x EXCEPT ![PubOf(l)] = xpub_process(@, Head(SP[l].tx)[1], peer[l])]
    /\ SP' = [SP EXCEPT ![l].tx = Tail(@), ![l].out_active = TRUE]
    /\ y' = IF SP[l].out_active THEN y
            ELSE [y EXCEPT ![SubOf(l)].dist = dist_activated(@, l)]
    /\ UNCHANGED <<opt, PP, peer, hic, n, sent, drop>>

\* A message travels down.
Down(l) ==
    /\ peer[l] # NoPipe /\ PP[peer[l]].tx # <<>>
    /\ LET p == peer[l] IN
         /\ SP' = [SP EXCEPT ![l].rx = @ \o Head(PP[p].tx), ![l].in_active = TRUE]
         /\ y' = IF SP[l].in_active THEN y ELSE [y EXCEPT ![SubOf(l)].fq = activated(@, l)]
         /\ PP' = [PP EXCEPT ![p].tx = Tail(@), ![p].out_active = TRUE]
         /\ x' = IF PP[p].out_active THEN x
                 ELSE [x EXCEPT ![PubOf(l)].dist = dist_activated(@, p)]
    /\ UNCHANGED <<opt, peer, hic, n, sent, drop>>

\* engine_error (): the sessions of both sides lose the connection.  What
\* they had taken from the pipes is lost.  reconnect () hiccups the pipe of
\* SUB and XSUB only.
Break(l) ==
    /\ peer[l] # NoPipe /\ n.break < opt.maxbreak
    /\ opt.manual => ManualTerminates
    /\ opt.radio => DishReconnects
    /\ PP' = [PP EXCEPT ![peer[l]].state = "closing", ![peer[l]].tx = <<>>]
    /\ peer' = [peer EXCEPT ![l] = NoPipe]
    /\ hic' = IF opt.radio THEN hic ELSE hic \cup {l}
    /\ n' = [n EXCEPT !.break = @ + 1]
    /\ UNCHANGED <<opt, x, y, SP, sent, drop>>

\* The last step of the termination of a publisher's pipe.
Terminated(u, p) ==
    /\ p \in Attached(u) /\ PP[p].state = "closing"
    /\ x' = [x EXCEPT ![u] = xpub_xpipe_terminated(@, p)]
    /\ PP' = [PP EXCEPT ![p] = NewPipe]
    /\ sent' = [sent EXCEPT !.left = @ \ {p}]
    /\ UNCHANGED <<opt, y, SP, peer, hic, n, drop>>

\* Variant in which the socket does not send its subscriptions again.
Hiccup_NotResent(l) ==
    /\ l \in hic
    /\ SP' = [SP EXCEPT ![l].tx = <<>>, ![l].out_active = TRUE]
    /\ hic' = hic \ {l}
    /\ UNCHANGED <<opt, x, y, PP, peer, n, sent, drop>>

\* process_hiccup () and xhiccuped (): a new, empty outpipe; dist_t is not
\* told that it can be written to.
Hiccup(l) ==
    /\ l \in hic
    /\ LET P1 == [SP EXCEPT ![l].tx = <<>>, ![l].out_active = TRUE]
           P2 == SendSubscriptions(y[SubOf(l)], P1, l)
       IN  /\ SP' = P2
           /\ drop' = IF P2[l].out_active THEN drop \ {l} ELSE drop \cup {l}
    /\ hic' = hic \ {l}
    /\ UNCHANGED <<opt, x, y, PP, peer, n, sent>>

Next ==
    \/ \E u \in Pubs : \/ Send(u) \/ RecvSubscription(u)
                       \/ \E f \in Filters : SetManual(u, f)
                       \/ \E p \in PubPipes : Terminated(u, p)
    \/ \E v \in Subs : \/ Recv(v) \/ Poll(v)
                       \/ \E f \in Filters : Subscribe(v, Sub(f)) \/ Subscribe(v, Unsub(f))
                       \/ ~opt.filter /\ Subscribe(v, User)
    \/ \E l \in Links : ZmqConnect(l) \/ Attach(l) \/ Up(l) \/ Down(l) \/ Break(l) \/ Hiccup(l)

Spec == Init /\ [][Next]_vars

(***************************************************************************)
(* Properties.                                                             *)
(***************************************************************************)
\* No assertion of the sockets or of mtrie_t fails as long as no
\* subscription was dropped because the pipe was full.
AssertionsHold == drop = {} => (\A u \in Pubs : x[u].ok) /\ (\A v \in Subs : y[v].ok)

\* The first part of a message is written to the pipes that have a matching
\* subscription and can be written to, and to no others: whatever came and
\* went, filled up and became active before.  One thing may add pipes: with
\* ZMQ_XPUB_NODROP a send that is refused (EAGAIN) leaves the pipes it has
\* selected behind, and until a message has been sent to its end they get
\* the next ones too, matching or not; inverted matching also takes pipes
\* away (xpub.cpp:235-252).
AudienceExact == sent.exact

\* Peers get whole messages or nothing of them, and the applications of the
\* subscribers get them part by part from the first one.
WholeMessages ==
    /\ \A p \in PubPipes : \A i \in DOMAIN PP[p].tx :
          LET ms == PP[p].tx[i] IN OneMessage(ms) /\ ~ms[Len(ms)].more
    /\ \A v \in Subs : y[v].whole

\* When nothing is under way on a connection, and nothing was dropped, the
\* publisher has exactly the subscriptions of the subscriber, also after
\* the connection has broken and has been made again.
SubscriptionsAgree == \A l \in Links :
    peer[l] # NoPipe /\ l \notin hic \cup drop /\ SP[l].tx = <<>> =>
        LET s == x[PubOf(l)] IN
        {f \in Filters : y[SubOf(l)].subs[f] > 0}
          = {f \in Filters : peer[l] \in IF opt.manual THEN s.msubs[f] ELSE Subscribed(s, f)}

\* What an XPUB has passed on and will pass on tells exactly which prefixes
\* somebody is subscribed to, so that a proxy can forward it.
UpstreamAgrees == \A u \in Pubs : ~opt.pub /\ ~opt.manual /\ ~opt.radio =>
    LET t[k \in 0..Len(x[u].pending)] ==
            IF k = 0 THEN x[u].up
            ELSE LET m == x[u].pending[k]
                 IN  IF m.op = "sub" THEN t[k - 1] \cup {m.part}
                     ELSE IF m.op = "unsub" THEN t[k - 1] \ {m.part} ELSE t[k - 1]
    IN  t[Len(x[u].pending)] = {f \in Filters : Subscribed(x[u], f) # {}}

\* Filters are the same wherever they are kept: in the subscriber, in the
\* publisher (xpub_t::xread_activated) and in what a proxy was told.
FiltersAgree == SubscriptionsAgree /\ UpstreamAgrees
=============================================================================
