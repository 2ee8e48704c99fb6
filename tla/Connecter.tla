----------------------------- MODULE Connecter -----------------------------
(***************************************************************************)
(* The connecters of one connecting session: tcp, ipc, tipc, vmci and,     *)
(* through a SOCKS5 proxy, socks.  A connecter opens a socket, waits for   *)
(* the connection, hands it to the session as an engine and asks to be     *)
(* terminated; when something fails it closes the socket and waits for the *)
(* reconnect timer.  The session starts a connecter when it is plugged in  *)
(* and each time its engine breaks.                                        *)
(*                                                                         *)
(* Session and connecters may live in different I/O threads and exchange   *)
(* commands.  The file descriptors are numbers that the system hands out   *)
(* again; the pollers and their timers are seen through what the objects   *)
(* register with them (see Poller for how they keep it).                   *)
(***************************************************************************)
EXTENDS Integers, Sequences, FiniteSets

CONSTANTS Conns,      \* names of connecters, numbers from 1
          Fds,        \* file descriptors, numbers from 1
          Cases,      \* kind, ivl and max (the reconnect intervals), timeout
                      \*   (of connect), sync (connect may succeed at once),
                      \*   cut (the proxy's response may come in pieces)
          MaxTries,   \* bound on attempts to connect
          IntMax      \* the largest int

VARIABLES case,   \* the options of the session
          sess,   \* the session: st, engine (its descriptor), owned, acks, seq, sent,
                  \*   launching (the connecter whose own command is still to be sent)
          conn,   \* the connecters
          sq,     \* the commands on their way to the session
          cq,     \* the commands on their way to each connecter
          open,   \* the descriptors that are open
          reg,    \* what the pollers poll: the object and events of a descriptor
          tm,     \* the timers that are set: pairs of connecter and id
          tries,  \* attempts so far
          ok      \* no assertion has failed and no bad call was made

vars == <<case, sess, conn, sq, cq, open, reg, tm, tries, ok>>

None == 0
Kinds == {"tcp", "ipc", "tipc", "vmci", "socks"}
Unpolled == [obj |-> None, in |-> FALSE, out |-> FALSE]
NoConn ==
    [st |-> "none", s |-> None, valid |-> FALSE, ctimer |-> FALSE, rtimer |-> FALSE,
     ivl |-> 0, wait |-> 0, delayed |-> FALSE, asked |-> FALSE,
     status |-> "unplugged", greeting |-> 0, choice |-> 0, request |-> 0, response |-> 0]

-----------------------------------------------------------------------------
(* A world w holds the variables a handler may change.  i is a connecter.  *)

World == [sess |-> sess, conn |-> conn, sq |-> sq, cq |-> cq, open |-> open, reg |-> reg,
          tm |-> tm, tries |-> tries, ok |-> ok]

Becomes(w) ==
    /\ sess' = w.sess /\ conn' = w.conn /\ sq' = w.sq /\ cq' = w.cq /\ open' = w.open
    /\ reg' = w.reg /\ tm' = w.tm /\ tries' = w.tries /\ ok' = w.ok
    /\ UNCHANGED case

Demand(w, p) == [w EXCEPT !.ok = @ /\ p]
ToSession(w, cmd) == [w EXCEPT !.sq = Append(@, cmd)]
ToConn(w, i, cmd) == [w EXCEPT !.cq[i] = Append(@, cmd)]

\* io_object_t::add_fd, rm_fd: the poller refuses a descriptor it does not know
\* and one that is closed.
add_fd(w, i, fd) ==
    [Demand(w, fd \in w.open /\ w.reg[fd].obj = None) EXCEPT !.reg[fd] = [Unpolled EXCEPT !.obj = i]]

rm_fd(w, i, fd) ==
    LET known == fd # None /\ fd \in w.open /\ w.reg[fd].obj = i
    IN  IF known THEN [w EXCEPT !.reg[fd] = Unpolled] ELSE Demand(w, FALSE)

PollIn(w, fd) == [w EXCEPT !.reg[fd].in = TRUE, !.reg[fd].out = FALSE]
PollOut(w, fd) == [w EXCEPT !.reg[fd].out = TRUE, !.reg[fd].in = FALSE]

add_timer(w, i, id) == [Demand(w, <<i, id>> \notin w.tm) EXCEPT !.tm = @ \cup {<<i, id>>}]
cancel_timer(w, i, id) == [Demand(w, <<i, id>> \in w.tm) EXCEPT !.tm = @ \ {<<i, id>>}]

\* close () of every class
close(w, i) ==
    LET fd == w.conn[i].s
    IN  [Demand(w, fd # None /\ fd \in w.open) EXCEPT !.open = @ \ {fd}, !.conn[i].s = None]

-----------------------------------------------------------------------------
(* The next interval: r is the random number.  An int that overflows is    *)
(* taken modulo its width.                                                 *)

Wrap(n) == IF n > IntMax THEN n - 2 * (IntMax + 1) ELSE n
Least(a, b) == IF a <= b THEN a ELSE b

tcp_get_new_reconnect_ivl_NoLimit(w, i, r) ==
    LET c == w.conn[i]
    IN  [w EXCEPT !.conn[i].wait = c.ivl + r, !.conn[i].ivl = Wrap(c.ivl * 2)]

tcp_get_new_reconnect_ivl(w, i, r) ==
    LET c == w.conn[i]
        next == IF case.max > 0 /\ case.max > case.ivl THEN Least(Wrap(c.ivl * 2), case.max) ELSE c.ivl
    IN  [Demand(w, case.ivl # 0) EXCEPT !.conn[i].wait = Wrap(c.ivl + r), !.conn[i].ivl = next]

ipc_get_new_reconnect_ivl(w, i, r) ==
    LET c == w.conn[i]
        twice == Wrap(c.ivl * 2)
        next == IF case.max > 0 /\ case.max > case.ivl
                THEN (IF twice >= case.max THEN case.max ELSE twice) ELSE c.ivl
    IN  [Demand(w, case.ivl # 0) EXCEPT !.conn[i].wait = Wrap(c.ivl + r), !.conn[i].ivl = next]

tipc_get_new_reconnect_ivl(w, i, r) == ipc_get_new_reconnect_ivl(w, i, r)
vmci_get_new_reconnect_ivl(w, i, r) == ipc_get_new_reconnect_ivl(w, i, r)
socks_get_new_reconnect_ivl(w, i, r) == tcp_get_new_reconnect_ivl(w, i, r)

get_new_reconnect_ivl(w, i, r) ==
    CASE case.kind = "tcp" -> tcp_get_new_reconnect_ivl(w, i, r)
      [] case.kind = "ipc" -> ipc_get_new_reconnect_ivl(w, i, r)
      [] case.kind = "tipc" -> tipc_get_new_reconnect_ivl(w, i, r)
      [] case.kind = "vmci" -> vmci_get_new_reconnect_ivl(w, i, r)
      [] OTHER -> socks_get_new_reconnect_ivl(w, i, r)

Random == 0..(IF case.ivl > 0 THEN case.ivl - 1 ELSE 0)

\* add_reconnect_timer ()
add_reconnect_timer(w, i, r) ==
    LET w1 == add_timer(get_new_reconnect_ivl(w, i, r), i, "reconnect")
    IN  [w1 EXCEPT !.conn[i].rtimer = TRUE]

\* start_timer () of the socks connecter
start_timer(w, i, r) ==
    [add_timer(get_new_reconnect_ivl(w, i, r), i, "reconnect")
        EXCEPT !.conn[i].status = "waiting_for_reconnect_time"]

Retry(w, i, r) == IF case.kind = "socks" THEN start_timer(w, i, r) ELSE add_reconnect_timer(w, i, r)

-----------------------------------------------------------------------------
(* What open () may find: "failed" before there is a socket (the address   *)
(* is not resolved, no descriptor), "refused" with the socket open,        *)
(* "delayed" (EINPROGRESS) or "done".                                      *)

tcp_open == {"failed", "refused", "delayed"} \cup (IF case.sync THEN {"done"} ELSE {})

\* Only a signal makes the connect of a local socket EINPROGRESS.
ipc_open == {"failed", "refused", "delayed", "done"}

tipc_open == {"failed", "refused", "delayed", "done"}

\* The socket is not made non-blocking: its connect is never delayed.
vmci_open == {"failed", "refused", "done"}

socks_connect_to_proxy == {"failed", "refused", "delayed"} \cup (IF case.sync THEN {"done"} ELSE {})

Opens ==
    CASE case.kind = "tcp" -> tcp_open
      [] case.kind = "ipc" -> ipc_open
      [] case.kind = "tipc" -> tipc_open
      [] case.kind = "vmci" -> vmci_open
      [] OTHER -> socks_connect_to_proxy

Opened(w, i, fd) ==
    [Demand(w, w.conn[i].s = None) EXCEPT !.open = @ \cup {fd}, !.conn[i].s = fd, !.tries = @ + 1]

\* own_t::terminate () of a connecter
terminate(w, i) ==
    IF w.conn[i].st = "terminating" THEN w
    ELSE ToSession([w EXCEPT !.conn[i].asked = TRUE], [cmd |-> "term_req", obj |-> i, fd |-> None])

send_attach(w, fd) ==
    [ToSession(w, [cmd |-> "attach", obj |-> None, fd |-> fd]) EXCEPT !.sess.sent = @ + 1]

\* connect (): the descriptor, or None if SO_ERROR reports an error.  The classes
\* differ in the errors they take for a defect of the library and abort on.
tcp_connect(c, good) == IF good THEN c.s ELSE None
ipc_connect(c, good) == IF good THEN c.s ELSE None
tipc_connect(c, good) == IF good THEN c.s ELSE None
vmci_connect(c, good) == IF good THEN c.s ELSE None

connect(c, good) ==
    CASE case.kind = "tcp" -> tcp_connect(c, good)
      [] case.kind = "ipc" -> ipc_connect(c, good)
      [] case.kind = "tipc" -> tipc_connect(c, good)
      [] OTHER -> vmci_connect(c, good)

\* The end of out_event (): an engine for the session, or another attempt.
HandOver(w, i, good, r) ==
    LET fd == connect(w.conn[i], good)
    IN  IF fd # None THEN terminate(send_attach([w EXCEPT !.conn[i].s = None], fd), i)
        ELSE Retry(close(w, i), i, r)

tcp_out_event_KeepsTimer(w, i, good, r) ==
    HandOver([rm_fd(w, i, w.conn[i].s) EXCEPT !.conn[i].valid = FALSE], i, good, r)

tcp_out_event(w, i, good, r) ==
    LET w1 == IF ~w.conn[i].ctimer THEN w
              ELSE [cancel_timer(w, i, "connect") EXCEPT !.conn[i].ctimer = FALSE]
    IN  HandOver([rm_fd(w1, i, w1.conn[i].s) EXCEPT !.conn[i].valid = FALSE], i, good, r)

\* ipc, tipc and vmci have no connect timer, and look at the result first.
ipc_out_event(w, i, good, r) ==
    HandOver([rm_fd(w, i, w.conn[i].s) EXCEPT !.conn[i].valid = FALSE], i, good, r)

tipc_out_event(w, i, good, r) == ipc_out_event(w, i, good, r)
vmci_out_event(w, i, good, r) == ipc_out_event(w, i, good, r)

out_event(w, i, good, r) ==
    CASE case.kind = "tcp" -> tcp_out_event(w, i, good, r)
      [] case.kind = "ipc" -> ipc_out_event(w, i, good, r)
      [] case.kind = "tipc" -> tipc_out_event(w, i, good, r)
      [] OTHER -> vmci_out_event(w, i, good, r)

add_connect_timer(w, i) ==
    IF ~case.timeout THEN w ELSE [add_timer(w, i, "connect") EXCEPT !.conn[i].ctimer = TRUE]

tcp_start_connecting_GivesUp(w, i, how, fd, good, r) ==
    LET w1 == [add_fd(Opened(w, i, fd), i, fd) EXCEPT !.conn[i].valid = TRUE]
    IN  CASE how = "failed" -> [w EXCEPT !.tries = @ + 1]
          [] how = "refused" -> add_reconnect_timer(close(Opened(w, i, fd), i), i, r)
          [] how = "delayed" -> PollOut(w1, fd)
          [] OTHER -> out_event(w1, i, good, r)

\* start_connecting (): how is what open () finds.
OpenSocket(w, i, how, fd) ==
    IF how = "failed" THEN [Demand(w, w.conn[i].s = None) EXCEPT !.tries = @ + 1] ELSE Opened(w, i, fd)

PollSocket(w, i, fd) == [add_fd(w, i, fd) EXCEPT !.conn[i].valid = TRUE]

ipc_start_connecting(w, i, how, fd, good, r) ==
    LET w1 == OpenSocket(w, i, how, fd)
    IN  CASE how = "failed" -> add_reconnect_timer(w1, i, r)
          [] how = "refused" -> add_reconnect_timer(close(w1, i), i, r)
          [] how = "delayed" -> PollOut(PollSocket(w1, i, fd), fd)
          [] OTHER -> out_event(PollSocket(w1, i, fd), i, good, r)

tipc_start_connecting(w, i, how, fd, good, r) == ipc_start_connecting(w, i, how, fd, good, r)

vmci_start_connecting(w, i, how, fd, good, r) ==
    LET w1 == OpenSocket(w, i, how, fd)
    IN  CASE how = "failed" -> add_reconnect_timer(w1, i, r)
          [] how = "refused" -> add_reconnect_timer(close(w1, i), i, r)
          [] OTHER -> out_event(PollSocket(w1, i, fd), i, good, r)

tcp_start_connecting(w, i, how, fd, good, r) ==
    LET w1 == ipc_start_connecting(w, i, how, fd, good, r)
    IN  IF how = "delayed" THEN add_connect_timer(w1, i) ELSE w1

start_connecting(w, i, how, fd, good, r) ==
    CASE case.kind = "tcp" -> tcp_start_connecting(w, i, how, fd, good, r)
      [] case.kind = "ipc" -> ipc_start_connecting(w, i, how, fd, good, r)
      [] case.kind = "tipc" -> tipc_start_connecting(w, i, how, fd, good, r)
      [] OTHER -> vmci_start_connecting(w, i, how, fd, good, r)

-----------------------------------------------------------------------------
(* The SOCKS5 connecter.  The lengths of the messages are those of the     *)
(* protocol: a greeting of 3 bytes, a choice of 2, a request and a         *)
(* response of 10 (an IPv4 address); the peer's data follow the response.  *)

ChoiceLen == 2
ResponseLen == 10
HeadLen == 5

\* A socket connected at once goes straight to sending_greeting.
socks_initiate_connect(w, i, how, fd, r) ==
    LET w1 == OpenSocket(w, i, how, fd)
        w2 == PollOut(add_fd(w1, i, fd), fd)
    IN  CASE how = "failed" -> start_timer(w1, i, r)
          [] how = "refused" -> start_timer(close(w1, i), i, r)
          [] how = "delayed" -> [w2 EXCEPT !.conn[i].status = "waiting_for_proxy_connection"]
          [] OTHER -> [w2 EXCEPT !.conn[i].status = "sending_greeting"]

Begin(w, i, how, fd, good, r) ==
    IF case.kind = "socks" THEN socks_initiate_connect(w, i, how, fd, r)
    ELSE start_connecting(w, i, how, fd, good, r)

\* error (): the encoders and decoders are reset as well.
socks_error(w, i, r) ==
    LET w1 == close(rm_fd(w, i, w.conn[i].s), i)
    IN  start_timer([w1 EXCEPT !.conn[i].greeting = 0, !.conn[i].choice = 0,
                               !.conn[i].request = 0, !.conn[i].response = 0], i, r)

\* out_event (); good says that the connection is there or that bytes were
\* written (a message is written at once: tcp_write takes 3 or 10 bytes).
socks_out_event(w, i, good, r) ==
    LET c == w.conn[i]
        w1 == Demand(w, /\ c.status \in {"waiting_for_proxy_connection", "sending_greeting", "sending_request"}
                        /\ c.status = "sending_greeting" => c.greeting > 0
                        /\ c.status = "sending_request" => c.request > 0)
    IN  CASE ~good -> socks_error(w1, i, r)
          [] c.status = "waiting_for_proxy_connection" /\ good ->
                [w1 EXCEPT !.conn[i].status = "sending_greeting", !.conn[i].greeting = 1]
          [] c.status = "sending_greeting" /\ good ->
                [PollIn(w1, c.s) EXCEPT !.conn[i].status = "waiting_for_choice", !.conn[i].greeting = 0]
          [] OTHER ->
                [PollIn(w1, c.s) EXCEPT !.conn[i].status = "waiting_for_response", !.conn[i].request = 0]

\* socks_response_decoder_t::input: five bytes first, then the rest; what was
\* already read of the rest is not taken off.
ResponseWanted(c) == IF c.response < HeadLen THEN HeadLen - c.response ELSE ResponseLen - HeadLen

\* in_event (): n bytes are read (0 when the connection was closed); the proxy
\* accepts or not.
socks_in_event(w, i, n, accepts, r) ==
    LET c == w.conn[i]
        w1 == Demand(w, c.status \notin {"unplugged", "waiting_for_reconnect_time"})
        read == IF c.status = "waiting_for_choice" THEN c.choice + n ELSE c.response + n
    IN  CASE n = 0 \/ ~accepts \/ c.status \notin {"waiting_for_choice", "waiting_for_response"} ->
                socks_error(w1, i, r)
          [] c.status = "waiting_for_choice" /\ read = ChoiceLen ->
                [PollOut(w1, c.s) EXCEPT !.conn[i].status = "sending_request", !.conn[i].request = 1,
                                         !.conn[i].choice = 0]
          [] c.status = "waiting_for_choice" /\ read # ChoiceLen -> [w1 EXCEPT !.conn[i].choice = read]
          [] c.status = "waiting_for_response" /\ read = ResponseLen ->
                terminate([rm_fd(send_attach(w1, c.s), i, c.s)
                    EXCEPT !.conn[i].s = None, !.conn[i].status = "unplugged", !.conn[i].response = 0], i)
          [] OTHER -> [w1 EXCEPT !.conn[i].response = read]

-----------------------------------------------------------------------------
(* Handlers of a connecter.                                                *)

FreeFd == CHOOSE f \in Fds \ open : \A g \in Fds \ open : f <= g
CanTry == tries < MaxTries /\ Fds \ open # {}

\* process_plug ()
ProcessPlug(i) ==
    /\ cq[i] # <<>> /\ Head(cq[i]) = "plug"
    /\ LET w == [World EXCEPT !.cq[i] = Tail(@), !.conn[i].st = "live"]
       IN  IF conn[i].delayed THEN \E r \in Random : Becomes(Retry(w, i, r))
           ELSE /\ CanTry
                /\ \E how \in Opens, good \in BOOLEAN, r \in Random :
                      Becomes(Begin(w, i, how, FreeFd, good, r))

\* timer_event () of the reconnect timer
ReconnectTimer(i) ==
    /\ <<i, "reconnect">> \in tm
    /\ CanTry
    /\ LET w == [World EXCEPT !.tm = @ \ {<<i, "reconnect">>}, !.conn[i].rtimer = FALSE]
       IN  \E how \in Opens, good \in BOOLEAN, r \in Random :
              Becomes(Begin(Demand(w, case.kind = "socks" => conn[i].status = "waiting_for_reconnect_time"),
                            i, how, FreeFd, good, r))

\* timer_event () of the connect timer
ConnectTimer(i) ==
    /\ <<i, "connect">> \in tm
    /\ LET w == [World EXCEPT !.tm = @ \ {<<i, "connect">>}, !.conn[i].ctimer = FALSE]
           w1 == [rm_fd(w, i, conn[i].s) EXCEPT !.conn[i].valid = FALSE]
       IN  \E r \in Random : Becomes(Retry(close(w1, i), i, r))

Polled(i) == {f \in open : reg[f].obj = i}

\* The poller reports a descriptor: in_event () and out_event () of tcp, ipc,
\* tipc and vmci are the same.
Event(i) ==
    /\ case.kind # "socks" /\ Polled(i) # {}
    /\ \E good \in BOOLEAN, r \in Random : Becomes(out_event(World, i, good, r))

SocksOut(i) ==
    /\ case.kind = "socks"
    /\ \E f \in Polled(i) : reg[f].out
    /\ \E good \in BOOLEAN, r \in Random : Becomes(socks_out_event(World, i, good, r))

\* Readable, or in error whatever is polled for.
SocksIn(i) ==
    /\ case.kind = "socks" /\ Polled(i) # {}
    /\ \E f \in Polled(i), accepts \in BOOLEAN, r \in Random :
          LET c == conn[i]
              want == IF c.status = "waiting_for_choice" THEN ChoiceLen - c.choice ELSE ResponseWanted(c)
          IN  \E n \in (IF ~reg[f].in THEN {0} ELSE IF case.cut THEN 0..want ELSE {0, want}) :
                 Becomes(socks_in_event(World, i, n, accepts, r))

\* process_term (); only tcp has a connect timer.
ipc_process_term(w, i) ==
    LET c == w.conn[i]
        w1 == IF c.rtimer THEN cancel_timer(w, i, "reconnect") ELSE w
        w2 == IF c.valid THEN rm_fd(w1, i, c.s) ELSE w1
        w3 == IF c.s # None THEN close(w2, i) ELSE w2
    IN  [w3 EXCEPT !.conn[i].rtimer = FALSE, !.conn[i].valid = FALSE]

tipc_process_term(w, i) == ipc_process_term(w, i)
vmci_process_term(w, i) == ipc_process_term(w, i)

tcp_process_term(w, i) ==
    ipc_process_term(IF ~w.conn[i].ctimer THEN w
                     ELSE [cancel_timer(w, i, "connect") EXCEPT !.conn[i].ctimer = FALSE], i)

socks_process_term(w, i) ==
    LET c == w.conn[i]
    IN  CASE c.status = "unplugged" -> w
          [] c.status = "waiting_for_reconnect_time" -> cancel_timer(w, i, "reconnect")
          [] OTHER -> close(rm_fd(w, i, c.s), i)

process_term(w, i) ==
    CASE case.kind = "tcp" -> tcp_process_term(w, i)
      [] case.kind = "ipc" -> ipc_process_term(w, i)
      [] case.kind = "tipc" -> tipc_process_term(w, i)
      [] case.kind = "vmci" -> vmci_process_term(w, i)
      [] OTHER -> socks_process_term(w, i)

\* The destructor's assertions; the owner is told by term_ack.
Destroyed(w, i) ==
    LET c == w.conn[i]
        w1 == Demand(w, ~c.ctimer /\ ~c.rtimer /\ ~c.valid /\ c.s = None)
    IN  ToSession([w1 EXCEPT !.conn[i] = NoConn], [cmd |-> "term_ack", obj |-> i, fd |-> None])

\* process_term () and own_t::process_term ().  A connecter owns nothing and
\* goes at once: a term command comes after its plug command.
ProcessTerm(i) ==
    /\ cq[i] # <<>> /\ Head(cq[i]) = "term"
    /\ Becomes(Destroyed(process_term([World EXCEPT !.cq[i] = Tail(@)], i), i))

-----------------------------------------------------------------------------
(* The session.  st: "up", then "pending" (process_term, waiting for its   *)
(* pipe), then "terminating" (own_t::process_term), then "gone".           *)

FreeConn(w) == {i \in Conns : w.conn[i].st = "none"}

\* start_connecting () and the first half of launch_child ()
session_start_connecting(w, wait) ==
    LET i == CHOOSE j \in FreeConn(w) : \A k \in FreeConn(w) : j <= k
    IN  [ToConn(w, i, "plug")
            EXCEPT !.conn[i] = [NoConn EXCEPT !.st = "plugged", !.ivl = case.ivl, !.delayed = wait],
                   !.sess.launching = i]

\* The second half of launch_child (): send_own () to the session itself.
LaunchOwn ==
    /\ sess.launching # None
    /\ Becomes([ToSession(World, [cmd |-> "own", obj |-> sess.launching, fd |-> None])
                   EXCEPT !.sess.launching = None, !.sess.sent = @ + 1])

\* own_t::check_term_acks (), and the destructor that terminates the engine.
CheckTermAcks(w) ==
    IF ~(w.sess.st = "terminating" /\ w.sess.seq = w.sess.sent /\ w.sess.acks = 0) THEN w
    ELSE [w EXCEPT !.sess.st = "gone", !.sess.engine = None, !.open = @ \ {w.sess.engine}]

process_attach(w, fd) ==
    [Demand(w, w.sess.engine = None) EXCEPT !.sess.engine = fd, !.sess.seq = @ + 1]

process_own(w, i) ==
    LET w1 == [w EXCEPT !.sess.seq = @ + 1]
    IN  IF w.sess.st = "terminating" THEN ToConn([w1 EXCEPT !.sess.acks = @ + 1], i, "term")
        ELSE [w1 EXCEPT !.sess.owned = @ \cup {i}]

process_term_req(w, i) ==
    IF w.sess.st = "terminating" \/ i \notin w.sess.owned THEN w
    ELSE ToConn([w EXCEPT !.sess.acks = @ + 1, !.sess.owned = @ \ {i}], i, "term")

\* The session takes its next command.
SessionCommand ==
    /\ sess.launching = None /\ sess.st # "gone" /\ sq # <<>>
    /\ LET m == Head(sq)
           w == [World EXCEPT !.sq = Tail(@)]
       IN  Becomes(CheckTermAcks(
              CASE m.cmd = "attach" -> process_attach(w, m.fd)
                [] m.cmd = "own" -> process_own(w, m.obj)
                [] m.cmd = "term_req" -> process_term_req(w, m.obj)
                [] OTHER -> [Demand(w, w.sess.acks > 0) EXCEPT !.sess.acks = @ - 1]))

\* engine_error () of a connection that broke: reconnect ().
EngineError ==
    /\ sess.launching = None /\ sess.engine # None /\ sess.st # "gone"
    /\ case.ivl # -1 => FreeConn(World) # {}
    /\ LET w == [World EXCEPT !.sess.engine = None, !.open = @ \ {sess.engine}]
       IN  Becomes(IF case.ivl = -1 THEN w ELSE session_start_connecting(w, TRUE))

\* process_term () of the session, which waits for its pipe.
SessionTerm ==
    /\ sess.launching = None /\ sess.st = "up"
    /\ Becomes([World EXCEPT !.sess.st = "pending"])

TermAll(w, S) ==
    [w EXCEPT !.cq = [i \in Conns |-> IF i \in S THEN Append(w.cq[i], "term") ELSE w.cq[i]]]

\* pipe_terminated () of a pending session: own_t::process_term ().
PipeTerminated ==
    /\ sess.launching = None /\ sess.st = "pending"
    /\ Becomes(CheckTermAcks([TermAll(World, sess.owned)
           EXCEPT !.sess.st = "terminating", !.sess.acks = @ + Cardinality(sess.owned), !.sess.owned = {}]))

-----------------------------------------------------------------------------
Init ==
    /\ case \in Cases
    /\ sess = [st |-> "up", engine |-> None, owned |-> {}, acks |-> 0, seq |-> 0, sent |-> 0,
               launching |-> 1]
    /\ conn = [i \in Conns |-> IF i = 1 THEN [NoConn EXCEPT !.st = "plugged", !.ivl = case.ivl] ELSE NoConn]
    /\ cq = [i \in Conns |-> IF i = 1 THEN <<"plug">> ELSE <<>>]
    /\ sq = <<>>
    /\ open = {}
    /\ reg = [f \in Fds |-> Unpolled]
    /\ tm = {}
    /\ tries = 0
    /\ ok = TRUE

Next ==
    \/ \E i \in Conns :
          \/ ProcessPlug(i) \/ ReconnectTimer(i) \/ ConnectTimer(i) \/ Event(i)
          \/ SocksOut(i) \/ SocksIn(i) \/ ProcessTerm(i)
    \/ LaunchOwn
    \/ SessionCommand
    \/ EngineError
    \/ SessionTerm
    \/ PipeTerminated

Spec == Init /\ [][Next]_vars

-----------------------------------------------------------------------------
\* No assertion of the connecters and of the poller fails: a connecter closes no
\* descriptor it does not have, cancels no timer that is not set, removes no
\* descriptor that is closed or not polled, and is destroyed with nothing left.
AssertionsHold == ok

\* Every open descriptor has exactly one holder: a connecter, an engine on its way
\* to the session, or the engine of the session; so none is left when the session
\* is gone, and nothing polls for an object that no longer exists.
OneHolder ==
    LET InFlight(f) == {n \in DOMAIN sq : sq[n].cmd = "attach" /\ sq[n].fd = f}
        Holders(f) == Cardinality({i \in Conns : conn[i].s = f}) + Cardinality(InFlight(f))
                      + (IF sess.engine = f THEN 1 ELSE 0)
    IN  /\ \A f \in Fds : Holders(f) = IF f \in open THEN 1 ELSE 0
        /\ sess.st = "gone" => open = {} /\ tm = {} /\ \A f \in Fds : reg[f] = Unpolled
        /\ \A f \in Fds : reg[f].obj # None => conn[reg[f].obj].s = f

\* A session that is not terminating is never stuck without a connection: it has
\* an engine, one is on its way, or a connecter is about to start, waits for its
\* timer or polls its socket.
KeepsTrying ==
    (sess.st \in {"up", "pending"} /\ case.ivl # -1) =>
        \/ sess.engine # None \/ \E n \in DOMAIN sq : sq[n].cmd = "attach"
        \/ \E i \in Conns :
              \/ conn[i].st = "plugged"
              \/ <<i, "reconnect">> \in tm
              \/ \E f \in open : reg[f].obj = i /\ (reg[f].in \/ reg[f].out)

\* Doubling an interval that has reached the maximum stays in the range of int.
DoublingFits == case.max <= IntMax \div 2

\* The time to wait is ZMQ_RECONNECT_IVL or more, and less than the larger of the
\* two intervals plus ZMQ_RECONNECT_IVL: only the interval that is doubled is held
\* to ZMQ_RECONNECT_IVL_MAX, and the random part comes on top, so that the wait may
\* be longer than what the documentation calls the maximum.
Backoff ==
    DoublingFits =>
        \A i \in Conns : conn[i].wait # 0 =>
            /\ conn[i].wait >= case.ivl
            /\ conn[i].wait < (IF case.max > case.ivl THEN case.max ELSE case.ivl) + case.ivl

=============================================================================
