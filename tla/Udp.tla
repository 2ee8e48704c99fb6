-------------------------------- MODULE Udp --------------------------------
(***************************************************************************)
(* Datagrams: udp_engine_t with the session of a RADIO, a DISH or a DGRAM  *)
(* socket and the pipe between the two.  A datagram carries two frames, a  *)
(* group or an address and a body.  A DGRAM socket sends and receives them *)
(* as the two parts of a message; the sessions of RADIO and DISH make two  *)
(* frames of a message that knows its group, and back.                     *)
(***************************************************************************)
EXTENDS Integers, Sequences

CONSTANTS Cases,    \* [type, hwm, polite, close, arrive]: the socket, its watermarks,
                    \*   whether the application asks for room first, whether it closes the
                    \*   socket, and which of Datagrams the network brings
          MaxSend,  \* bound on messages sent
          MaxNet    \* bound on datagrams that arrive

VARIABLES opt,
          app,      \* the socket: more_out, messages sent, open
          down, up, \* the pipe, from the socket to the session and back
          sess,     \* state of the session's end of the pipe, and of the session's frames
          eng,      \* plugged, pollin, pollout
          inbox,    \* datagrams the system has for the engine
          arrived,  \* how many there were
          taken,    \* messages the socket has accepted
          sent,     \* datagrams, as pairs of frames
          got,      \* what the application has received
          fine      \* no assertion has failed

vars == <<opt, app, down, up, sess, eng, inbox, arrived, taken, sent, got, fine>>

Raw == opt.type = "dgram"
send_enabled == opt.type \in {"radio", "dgram"}
recv_enabled == opt.type \in {"dish", "dgram"}

\* What arrives has its group and body, ends within its group ("short"), or names a
\* group of more than ZMQ_GROUP_MAX_LENGTH bytes ("long").
Datagrams == {"whole", "short", "long"}

\* A frame: what it is, of which datagram or message, the group it was given
Frame(k, n, more) == [k |-> k, n |-> n, more |-> more, group |-> 0]
Nobody == Frame("none", 0, FALSE)
Delimiter == Frame("delimiter", 0, FALSE)

\* What is in one direction: the unflushed part of a message, what can be read, the
\* counters of both ends, and the commands that are on their way.
NewPipe == [half |-> <<>>, q |-> <<>>, written |-> 0, peers |-> 0, read |-> 0,
            out_active |-> TRUE, asleep |-> FALSE, ar |-> FALSE, aw |-> <<>>]

Init ==
    /\ opt \in Cases
    /\ app = [more_out |-> FALSE, n |-> 0, open |-> TRUE]
    /\ down = NewPipe /\ up = NewPipe
    /\ sess = [pst |-> "active", term |-> FALSE, state |-> "group", held |-> Nobody]
    /\ eng = [plugged |-> FALSE, pollin |-> FALSE, pollout |-> FALSE]
    /\ inbox = <<>> /\ arrived = 0 /\ taken = <<>> /\ sent = <<>> /\ got = <<>> /\ fine = TRUE

-----------------------------------------------------------------------------
(* pipe_t                                                                   *)

compute_lwm == (opt.hwm + 1) \div 2
Full(p) == opt.hwm > 0 /\ p.written - p.peers >= opt.hwm
check_write(p) == p.out_active /\ ~Full(p)
Refused(p) == [p EXCEPT !.out_active = FALSE]

write(p, f) ==
    LET msg == Append(p.half, f)
    IN  IF f.more THEN [p EXCEPT !.half = msg]
        ELSE [p EXCEPT !.half = <<>>, !.q = @ \o msg, !.written = @ + 1, !.ar = @ \/ p.asleep, !.asleep = FALSE]

in_active(p) == ~p.asleep /\ ~p.ar

\* One frame is read: the writer is told when the count of messages is a multiple
\* of the low watermark, frames before the last one included.
Read(p) ==
    LET n == IF Head(p.q).more THEN p.read ELSE p.read + 1
    IN  [p EXCEPT !.q = Tail(@), !.read = n,
                  !.aw = IF compute_lwm > 0 /\ n % compute_lwm = 0 THEN Append(@, n) ELSE @]

-----------------------------------------------------------------------------
(* The sessions.  S is [sess, up, down, rc, msg].                           *)

CanWrite(S) == S.sess.pst = "active" /\ check_write(S.up)
Again(S) == [S EXCEPT !.rc = "EAGAIN"]

base_push_msg(S, f) ==
    IF CanWrite(S) THEN [S EXCEPT !.up = write(@, f), !.rc = "ok"]
    ELSE Again([S EXCEPT !.up = Refused(@)])

dish_push_msg(S, f) ==
    IF S.sess.state = "group"
    THEN IF f.k = "long group" THEN [S EXCEPT !.rc = "EFAULT"]
         ELSE [S EXCEPT !.sess.held = f, !.sess.state = "body", !.rc = "ok"]
    ELSE LET T == base_push_msg(S, [f EXCEPT !.group = S.sess.held.n])
         IN  IF T.rc = "ok" THEN [T EXCEPT !.sess.state = "group"] ELSE T

push_msg(S, f) == IF Raw THEN base_push_msg(S, f) ELSE dish_push_msg(S, f)

\* The end of the pipe that has read the delimiter, or was told to end, reads no more.
base_pull_msg(S) ==
    IF ~in_active(S.down) \/ S.sess.pst \notin {"active", "waiting"} THEN Again(S)
    ELSE IF S.down.q = <<>> THEN Again([S EXCEPT !.down.asleep = TRUE])
    ELSE IF Head(S.down.q) = Delimiter
         THEN Again([S EXCEPT !.down.q = Tail(@), !.sess.pst = IF @ = "active" THEN "delimited" ELSE "ended"])
    ELSE [S EXCEPT !.down = Read(@), !.rc = "ok", !.msg = Head(S.down.q)]

radio_pull_msg(S) ==
    IF S.sess.state = "body"
    THEN [S EXCEPT !.msg = S.sess.held, !.sess.state = "group", !.rc = "ok"]
    ELSE LET T == base_pull_msg(S)
         IN  IF T.rc # "ok" THEN T
             ELSE [T EXCEPT !.sess.held = T.msg, !.sess.state = "body", !.msg = Frame("group", T.msg.n, TRUE)]

pull_msg(S) == IF opt.type = "radio" THEN radio_pull_msg(S) ELSE base_pull_msg(S)

-----------------------------------------------------------------------------
(* udp_engine_t.  E is S with eng, inbox, sent and fine.                    *)

Now == [sess |-> sess, up |-> up, down |-> down, rc |-> "ok", msg |-> Nobody,
        eng |-> eng, inbox |-> inbox, sent |-> sent, fine |-> fine]

Becomes(E) ==
    /\ sess' = E.sess /\ up' = E.up /\ down' = E.down /\ eng' = E.eng
    /\ inbox' = E.inbox /\ sent' = E.sent /\ fine' = E.fine

\* Both frames of a datagram; one to an address that is not one is dropped.
OutEvent(E) ==
    LET G == pull_msg(E)
        B == pull_msg(G)
    IN  IF G.rc # "ok" THEN [G EXCEPT !.eng.pollout = FALSE]
        ELSE IF B.rc # "ok" THEN [B EXCEPT !.fine = FALSE]    \* body_msg was never initialised
        ELSE IF Raw /\ G.msg.k = "bad address" THEN B
        ELSE [B EXCEPT !.sent = Append(@, <<G.msg, B.msg>>)]

\* A datagram whose group does not fit into it is ignored.  One that finds the pipe
\* full is lost, and the engine stops to ask for more.  It takes no other answer.
InEvent(E) ==
    LET d == Head(E.inbox)
        F == [E EXCEPT !.inbox = Tail(@)]
        k == IF Raw THEN "address" ELSE IF d.k = "long" THEN "long group" ELSE "group"
        G == push_msg(F, Frame(k, d.n, TRUE))
        B == push_msg(G, Frame("body", d.n, FALSE))
    IN  IF E.inbox = <<>> THEN E
        ELSE IF ~Raw /\ d.k = "short" THEN F
        ELSE IF G.rc = "EAGAIN" THEN [G EXCEPT !.eng.pollin = FALSE]
        ELSE IF G.rc # "ok" THEN [G EXCEPT !.fine = FALSE]
        ELSE [B EXCEPT !.fine = B.rc = "ok"]

\* An engine that cannot send drops what comes, which is joins and leaves.
RECURSIVE Drained(_)
Drained(E) == LET T == pull_msg(E) IN IF T.rc = "ok" THEN Drained(T) ELSE T

RestartOutput(E) ==
    IF send_enabled THEN OutEvent([E EXCEPT !.eng.pollout = TRUE]) ELSE Drained(E)

RestartInput_Unpolled(E) == IF recv_enabled THEN InEvent(E) ELSE E
RestartInput(E) ==
    IF recv_enabled THEN InEvent([E EXCEPT !.eng.pollin = TRUE]) ELSE E

plug ==
    /\ ~eng.plugged /\ sess.pst # "gone"
    /\ LET E == [Now EXCEPT !.eng = [plugged |-> TRUE, pollin |-> recv_enabled, pollout |-> send_enabled]]
       IN  Becomes(IF recv_enabled THEN RestartOutput(E) ELSE E)
    /\ UNCHANGED <<opt, app, arrived, taken, got>>

\* The poller finds the socket readable or writable.
in_event ==
    /\ eng.plugged /\ eng.pollin /\ inbox # <<>>
    /\ Becomes(InEvent(Now))
    /\ UNCHANGED <<opt, app, arrived, taken, got>>

out_event ==
    /\ eng.plugged /\ eng.pollout
    /\ Becomes(OutEvent(Now))
    /\ UNCHANGED <<opt, app, arrived, taken, got>>

\* The session is deleted once its pipe has ended.
terminate ==
    /\ eng.plugged /\ sess.pst = "ended"
    /\ eng' = [plugged |-> FALSE, pollin |-> FALSE, pollout |-> FALSE]
    /\ inbox' = <<>>
    /\ sess' = [sess EXCEPT !.pst = "gone"]
    /\ UNCHANGED <<opt, app, down, up, arrived, taken, sent, got, fine>>

-----------------------------------------------------------------------------
(* Commands between the ends of the pipe.                                   *)

session_activate_read ==
    LET E == [Now EXCEPT !.down.ar = FALSE]
    IN  /\ down.ar
        /\ Becomes(IF eng.plugged /\ sess.pst \in {"active", "waiting"} THEN RestartOutput(E) ELSE E)
        /\ UNCHANGED <<opt, app, arrived, taken, got>>

\* Only a writer that has failed is told.
session_activate_write ==
    LET E == [Now EXCEPT !.up.peers = Head(up.aw), !.up.aw = Tail(@),
                         !.up.out_active = @ \/ sess.pst = "active"]
    IN  /\ up.aw # <<>>
        /\ Becomes(IF eng.plugged /\ ~up.out_active /\ sess.pst = "active" THEN RestartInput(E) ELSE E)
        /\ UNCHANGED <<opt, app, arrived, taken, got>>

\* The socket reads nothing more from a pipe it has closed.  What it has sent before
\* can be read up to the delimiter.
process_pipe_term ==
    /\ sess.term
    /\ sess' = [sess EXCEPT !.term = FALSE, !.pst = IF @ = "active" THEN "waiting" ELSE "ended"]
    /\ UNCHANGED <<opt, app, down, up, eng, inbox, arrived, taken, sent, got, fine>>

\* process_term () of the session without a linger time, or the end of that time
LingerOver ==
    /\ sess.pst = "waiting"
    /\ sess' = [sess EXCEPT !.pst = "ended"]
    /\ UNCHANGED <<opt, app, down, up, eng, inbox, arrived, taken, sent, got, fine>>

socket_activate_write ==
    /\ down.aw # <<>>
    /\ down' = [down EXCEPT !.peers = Head(down.aw), !.aw = Tail(@), !.out_active = TRUE]
    /\ UNCHANGED <<opt, app, up, sess, eng, inbox, arrived, taken, sent, got, fine>>

-----------------------------------------------------------------------------
(* The sockets.                                                             *)

\* A RADIO drops what the pipe does not take.  The joins of a DISH go the same way.
radio_xsend ==
    /\ opt.type # "dgram" /\ app.open /\ app.n < MaxSend
    /\ app' = [app EXCEPT !.n = @ + 1]
    /\ IF check_write(down)
       THEN /\ down' = write(down, Frame("body", app.n + 1, FALSE))
            /\ taken' = IF send_enabled THEN Append(taken, app.n + 1) ELSE taken
       ELSE down' = Refused(down) /\ UNCHANGED taken
    /\ UNCHANGED <<opt, up, sess, eng, inbox, arrived, sent, got, fine>>

\* Writes a part; a part that is refused may be sent again.
Written(f, more_out) ==
    /\ down' = IF check_write(down) THEN write(down, f) ELSE Refused(down)
    /\ app' = [app EXCEPT !.more_out = more_out,
                          !.n = IF ~more_out /\ check_write(down) THEN @ + 1 ELSE @]
    /\ taken' = IF ~more_out /\ check_write(down) THEN Append(taken, app.n + 1) ELSE taken

\* An address part, good or bad, and a body part.  Which one the socket expects is
\* settled before the part is written.  EINVAL changes nothing.
dgram_xsend(k) ==
    /\ opt.type = "dgram" /\ app.open /\ app.n < MaxSend
    /\ opt.polite /\ k # "body" => check_write(down)
    /\ app.more_out <=> k = "body"
    /\ Written(Frame(k, app.n + 1, k # "body"), ~app.more_out)
    /\ UNCHANGED <<opt, up, sess, eng, inbox, arrived, sent, got, fine>>

xrecv ==
    /\ recv_enabled /\ app.open /\ up.q # <<>>
    /\ up' = [Read(up) EXCEPT !.ar = FALSE]
    /\ got' = Append(got, Head(up.q))
    /\ UNCHANGED <<opt, app, down, sess, eng, inbox, arrived, taken, sent, fine>>

\* zmq_close or zmq_disconnect: an unfinished message is taken back.
zmq_close ==
    /\ opt.close /\ app.open
    /\ app' = [app EXCEPT !.open = FALSE]
    /\ down' = [write([down EXCEPT !.half = <<>>], Delimiter) EXCEPT !.out_active = FALSE]
    /\ sess' = [sess EXCEPT !.term = TRUE]
    /\ UNCHANGED <<opt, up, eng, inbox, arrived, taken, sent, got, fine>>

\* A datagram from the network
Arrives(k) ==
    /\ k \in opt.arrive
    /\ recv_enabled /\ eng.plugged /\ arrived < MaxNet
    /\ arrived' = arrived + 1
    /\ inbox' = Append(inbox, [n |-> arrived + 1, k |-> k])
    /\ UNCHANGED <<opt, app, down, up, sess, eng, taken, sent, got, fine>>

Next ==
    /\ fine
    /\ \/ plug \/ in_event \/ out_event \/ terminate
       \/ session_activate_read \/ session_activate_write \/ process_pipe_term \/ LingerOver
       \/ socket_activate_write \/ radio_xsend \/ xrecv \/ zmq_close
       \/ \E k \in {"address", "bad address", "body"} : dgram_xsend(k)
       \/ \E k \in Datagrams : Arrives(k)

Spec == Init /\ [][Next]_vars

-----------------------------------------------------------------------------
\* Neither frame is ever missing: the first frame of a datagram is accepted or finds
\* the pipe full, and the second of one that was begun can be pushed into the pipe or
\* pulled from it (the assertions of in_event and out_event).
AssertionsHold == fine

Pairs(s) == {<<s[i], s[i + 1]>> : i \in {i \in 1..(Len(s) - 1) : i % 2 = 1}}
Ascending(s) == \A i, j \in 1..Len(s) : i < j => s[i] < s[j]
Numbers(s) == [i \in 1..Len(s) |-> s[i].n]
Bodies(s) == SelectSeq(s, LAMBDA f : ~f.more /\ f # Delimiter)

\* Every datagram that goes out has the address or group and the body of one
\* message that was sent, in the order they were sent, and none is dropped on the
\* way except for its address; every message that comes in has the frames of one
\* datagram (radio_session_t::pull_msg, dish_session_t::push_msg, dgram_t::xsend).
DatagramsWhole ==
    /\ \A i \in 1..Len(sent) : sent[i][1].n = sent[i][2].n /\ sent[i][2].k = "body"
    /\ Ascending([i \in 1..Len(sent) |-> sent[i][1].n])
    /\ \A i \in 1..Len(sent) : \E j \in 1..Len(taken) : taken[j] = sent[i][1].n
    /\ Raw => \A p \in Pairs(got) : p[1].more /\ ~p[2].more /\ p[1].n = p[2].n
    /\ opt.type = "dish" => \A i \in 1..Len(got) : got[i].group = got[i].n
    /\ Ascending(Numbers(Bodies(got)))
    /\ send_enabled /\ sess.pst \in {"active", "waiting"} /\ ~Raw =>
            taken = [i \in 1..Len(sent) |-> sent[i][1].n] \o Numbers(Bodies(down.q))

\* An engine that has stopped looking at its socket will be started again: there is
\* nothing to send, or activate_read is on its way; the pipe is full and its reader
\* will report, or activate_write is on its way (reset_pollin, reset_pollout).
NoStall ==
    eng.plugged /\ sess.pst = "active" =>
        /\ send_enabled /\ ~eng.pollout => down.ar \/ (down.asleep /\ down.q = <<>>)
        /\ recv_enabled /\ ~eng.pollin =>
                /\ ~up.out_active
                /\ up.aw # <<>> \/ \E n \in (up.read + 1)..up.written : n % compute_lwm = 0

=============================================================================
