---------------------------- MODULE MCTransport ----------------------------
(* What waits for descriptors and timers, one at a time: the connecters of a *)
(* session, listeners, and the poller of the I/O thread that calls them; and *)
(* of the API the pollers, the timers, the proxy, the monitor, the options   *)
(* and the addresses of a socket, and the calls that send and receive.       *)
EXTENDS Connecter, TLC

CONSTANTS Objs         \* the objects of the poller, which are interchangeable

VARIABLES which,                                                          \* the part that runs
          cas, lst, cmds, fds, bound, dirs, waiting, fine,        \* of Listener
          kind, q, obj, loop, run, timers, clock, ops,                    \* of Poller
          a_build, a_items, a_poller, a_sock, a_attached,
          a_signals, a_call, a_wait, a_events, a_changes,    \* of SocketPoller
          t_timers, t_cancelled, t_next_id, t_clock, t_exec, t_answer, t_due,    \* of Timers
          x_opt, x_in, x_came, x_room, x_left, x_pc,
          x_rev, x_state, x_hand, x_taken, x_out, x_seen,                        \* of Proxy
          m_mon, m_sync, m_pair, m_reader, m_self, m_pc, m_ctx, m_events, m_cut, \* of Monitor
          o_cx, o_made, o_group, o_opts, o_pipes, o_log,                         \* of Options
          i_side, i_tag, i_pc, i_call, i_rc, i_opened, i_msg, i_inq, i_rcvmore, i_outq, i_taken, i_given, i_lost, i_next,   \* of Api
          e_type, e_ctx, e_endpoints, e_inprocs, e_names, e_owned, e_closing, e_pipes, e_last, e_made, e_told, e_rc, e_dangling   \* of Endpoints

lvars == <<cas, lst, cmds, fds, bound, dirs, waiting, fine>>
pvars == <<kind, q, obj, loop, run, timers, clock, ops>>
avars == <<a_build, a_items, a_poller, a_sock, a_attached, a_signals, a_call, a_wait, a_events, a_changes>>
tvars == <<t_timers, t_cancelled, t_next_id, t_clock, t_exec, t_answer, t_due>>
xvars == <<x_opt, x_in, x_came, x_room, x_left, x_pc, x_rev, x_state, x_hand, x_taken, x_out, x_seen>>
optvars == <<o_cx, o_made, o_group, o_opts, o_pipes, o_log>>
ivars == <<i_side, i_tag, i_pc, i_call, i_rc, i_opened, i_msg, i_inq, i_rcvmore, i_outq, i_taken, i_given, i_lost, i_next>>
epvars == <<e_type, e_ctx, e_endpoints, e_inprocs, e_names, e_owned, e_closing, e_pipes, e_last, e_made, e_told, e_rc, e_dangling>>
mvars == <<m_mon, m_sync, m_pair, m_reader, m_self, m_pc, m_ctx, m_events, m_cut>>

Case(transport, max, sync) ==
    [kind |-> transport, ivl |-> 2, max |-> max, timeout |-> TRUE, sync |-> sync, cut |-> FALSE]

\* The interval of vmci overflows when it is doubled for the second time.
MCCases ==
    {Case("tcp", 5, TRUE), Case("ipc", 3, TRUE), Case("tipc", 0, TRUE),
     [Case("vmci", 11, TRUE) EXCEPT !.ivl = 3], Case("socks", 5, FALSE), [Case("tcp", 0, FALSE) EXCEPT !.timeout = FALSE]}

LCase(transport, first, second, wildcard) ==
    [kind |-> transport, name |-> <<first, second>>, wildcard |-> wildcard, usefd |-> FALSE,
     emfile |-> transport # "ipc"]

MCLCases ==
    {LCase("tcp", "a", "a", FALSE), LCase("ipc", "a", "b", TRUE), LCase("ipc", "a", "a", FALSE), LCase("tipc", "a", "b", FALSE),
     LCase("vmci", "a", "a", FALSE), [LCase("ipc", "a", "b", FALSE) EXCEPT !.usefd = TRUE]}

Pollers == {"epoll", "kqueue", "devpoll", "pollset", "poll", "select", "wselect"}

L == INSTANCE Listener WITH Lists <- {1, 2}, Names <- {"a", "b"}, MaxPeers <- 2, LCases <- MCLCases

P == INSTANCE Poller WITH
        PKinds <- Pollers, MaxEvents <- 2, MaxCalls <- 3, MaxOps <- 4, MaxClock <- 1

\* A descriptor that is above the one of the signaler, so that select () looks at
\* the signaler when the two are polled together, and a socket with one below.
A == INSTANCE SocketPoller WITH
        Plain <- {"s"}, Safe <- {"t"}, Raw <- {"fd"}, Newer <- {"fd"},
        Masks <- {{}, {"in"}, {"out"}}, Builds <- BOOLEAN \X {"poll", "select"},
        MayRepeat <- FALSE, MaxEvents <- 2, MaxChanges <- 2,
        build <- a_build, items <- a_items, poller <- a_poller, sock <- a_sock, attached <- a_attached,
        signals <- a_signals, call <- a_call, wait <- a_wait, events <- a_events, changes <- a_changes

T == INSTANCE Timers WITH
        Intervals <- {1, 2}, MaxTimers <- 2, MaxClock <- 4, MaxCalls <- 2,
        timers <- t_timers, cancelled <- t_cancelled, next_id <- t_next_id, clock <- t_clock,
        exec <- t_exec, answer <- t_answer, due <- t_due

ProxyCases == {[same |-> FALSE, capture |-> TRUE], [same |-> FALSE, capture |-> FALSE], [same |-> TRUE, capture |-> TRUE]}

X == INSTANCE Proxy WITH
        Cases <- ProxyCases, Sizes <- {2}, MaxMsgs <- 1, MaxCmds <- 1, MaxRoom <- 1,
        opt <- x_opt, in <- x_in, came <- x_came, room <- x_room, left <- x_left, pc <- x_pc, rev <- x_rev,
        state <- x_state, hand <- x_hand, taken <- x_taken, out <- x_out, seen <- x_seen

\* Options that have nothing to do with one another are set in different
\* behaviours; the edges of each one's range, and sizes that do not fit, are there.
Group(opts, sizes, values) == [opts |-> opts, sizes |-> sizes, values |-> values]
Edge == {-2, -1, 0, 1, 2}

OptionGroups ==
    {Group({opt}, {0, 4, 8}, Edge) : opt \in
        {"SNDHWM", "RCVHWM", "RATE", "RECOVERY_IVL", "SNDBUF", "RCVBUF", "TOS", "LINGER", "CONNECT_TIMEOUT",
         "TCP_MAXRT", "RECONNECT_IVL", "RECONNECT_IVL_MAX", "BACKLOG", "MULTICAST_HOPS", "MULTICAST_MAXTPDU",
         "RCVTIMEO", "SNDTIMEO", "AFFINITY", "MAXMSGSIZE", "TCP_KEEPALIVE", "TCP_KEEPALIVE_CNT",
         "TCP_KEEPALIVE_IDLE", "TCP_KEEPALIVE_INTVL", "IMMEDIATE", "HANDSHAKE_IVL", "HEARTBEAT_IVL",
         "HEARTBEAT_TIMEOUT", "USE_FD", "VMCI_BUFFER_SIZE", "VMCI_BUFFER_MIN_SIZE", "VMCI_BUFFER_MAX_SIZE",
         "VMCI_CONNECT_TIMEOUT", "INVERT_MATCHING", "GSSAPI_PLAINTEXT"}}
    \cup {Group({opt}, {0, 1, 4, 255, 256}, {-1, 0, 1, 2}) : opt \in
        {"IDENTITY", "SOCKS_PROXY", "ZAP_DOMAIN", "TCP_ACCEPT_FILTER", "IPC_FILTER_UID", "IPC_FILTER_GID",
         "IPC_FILTER_PID"}}
    \cup {Group({"SNDHWM", "RCVHWM", "CONFLATE"}, {4, 8}, {-1, 0, 1, 2}),
          Group({"LINGER", "IPV6", "IPV4ONLY"}, {1, 4}, Edge),
          Group({"HEARTBEAT_TTL"}, {4, 8}, {-100, -99, 0, 99, 100, 199, 655399, 655400}),
          Group({"PLAIN_USERNAME", "PLAIN_PASSWORD", "CURVE_SERVER", "CURVE_PUBLICKEY", "CURVE_SERVERKEY"},
                {0, 4, 32, 41}, {0, 1}),
          Group({"PLAIN_SERVER", "CURVE_SECRETKEY", "GSSAPI_SERVER", "GSSAPI_PRINCIPAL",
                 "GSSAPI_SERVICE_PRINCIPAL"}, {0, 4, 40, 256}, {0, 1})}

O == INSTANCE Options WITH
        Groups <- OptionGroups, MaxCalls <- 2,
        cx <- o_cx, made <- o_made, group <- o_group, o <- o_opts, pipes <- o_pipes, log <- o_log

I == INSTANCE Api WITH
        ApiSizes <- {0, 1, 3}, IntMax <- 2, MaxParts <- 3, MaxVector <- 2,
        side <- i_side, tag <- i_tag, pc <- i_pc, call <- i_call, rc <- i_rc, opened <- i_opened, msg <- i_msg,
        inq <- i_inq, rcvmore <- i_rcvmore, outq <- i_outq, taken <- i_taken, given <- i_given, lost <- i_lost,
        next <- i_next

\* What a type of socket is asked to bind and to connect to, with addresses it has
\* to refuse; for DISH there is no I/O thread.
Asked(name, immediate, io, uris) == [name |-> name, immediate |-> immediate, io |-> io, uris |-> uris]
Uri(proto, addr) == [scheme |-> TRUE, proto |-> proto, addr |-> addr]

Openings ==
    {Asked("SUB", FALSE, TRUE, {Uri("tcp", a) : a \in {"name", "any", "p1"}} \cup {Uri("inproc", "a"), Uri("norm", "p1")}),
     Asked("PUSH", TRUE, TRUE, {Uri("ipc", "p1"), Uri("ipc", "any"), Uri("tipc", "name"), Uri("tcp", "junk"), Uri("norm", "p1")}),
     Asked("XPUB", TRUE, TRUE, {Uri("vmci", "any"), Uri("epgm", "p1"), Uri("epgm", "junk"), Uri("ipc", "")}),
     Asked("RADIO", FALSE, TRUE, {Uri("udp", "p1"), Uri("udp", "junk"), Uri("http", "p1"), Uri("inproc", "a")}),
     Asked("DGRAM", FALSE, TRUE, {Uri("udp", "p1"), Uri("udp", "junk"), [Uri("udp", "p1") EXCEPT !.scheme = FALSE]}),
     Asked("DISH", FALSE, FALSE, {Uri("udp", "p1"), Uri("tcp", "p1")})}

E == INSTANCE Endpoints WITH
        SocketTypes <- Openings, Places <- <<"p1", "p2">>, MaxMade <- 3,
        type <- e_type, ctx <- e_ctx, endpoints <- e_endpoints, inprocs <- e_inprocs, names <- e_names,
        owned <- e_owned, closing <- e_closing, pipes <- e_pipes, last <- e_last, made <- e_made, told <- e_told,
        rc <- e_rc, dangling <- e_dangling

M == INSTANCE Monitor WITH
        IoThreads <- {"io"}, Monitors <- {1, 2}, Readers <- {1, 2}, Hwm <- 1, MaxEvents <- 2,
        mon <- m_mon, sync <- m_sync, pair <- m_pair, reader <- m_reader, self <- m_self, pc <- m_pc,
        ctx <- m_ctx, events <- m_events, cut <- m_cut

\* The parts that are not looked at are not there.
Absent == 0

MCInit ==
    /\ which \in {"connecter", "listener", "poller", "api poller", "api timers", "proxy", "monitor", "options",
                  "api calls", "endpoints"}
    /\ IF which = "connecter" THEN Init
       ELSE /\ case = Absent /\ sess = Absent /\ conn = Absent /\ sq = Absent /\ cq = Absent
            /\ open = Absent /\ reg = Absent /\ tm = Absent /\ tries = Absent /\ ok = Absent
    /\ IF which = "listener" THEN L!LInit
       ELSE /\ cas = Absent /\ lst = Absent /\ cmds = Absent /\ fds = Absent /\ bound = Absent
            /\ dirs = Absent /\ waiting = Absent /\ fine = Absent
    /\ IF which = "poller" THEN P!PInit
       ELSE /\ kind = Absent /\ q = Absent /\ obj = Absent /\ loop = Absent
            /\ run = Absent /\ timers = Absent /\ clock = Absent /\ ops = Absent
    /\ IF which = "api poller" THEN A!Init
       ELSE /\ a_build = Absent /\ a_items = Absent /\ a_poller = Absent /\ a_sock = Absent /\ a_attached = Absent
            /\ a_signals = Absent /\ a_call = Absent /\ a_wait = Absent /\ a_events = Absent /\ a_changes = Absent
    /\ IF which = "api timers" THEN T!Init
       ELSE /\ t_timers = Absent /\ t_cancelled = Absent /\ t_next_id = Absent /\ t_clock = Absent
            /\ t_exec = Absent /\ t_answer = Absent /\ t_due = Absent
    /\ IF which = "proxy" THEN X!Init
       ELSE /\ x_opt = Absent /\ x_in = Absent /\ x_came = Absent /\ x_room = Absent /\ x_left = Absent /\ x_pc = Absent
            /\ x_rev = Absent /\ x_state = Absent /\ x_hand = Absent /\ x_taken = Absent /\ x_out = Absent /\ x_seen = Absent
    /\ IF which = "monitor" THEN M!Init
       ELSE /\ m_mon = Absent /\ m_sync = Absent /\ m_pair = Absent /\ m_reader = Absent /\ m_self = Absent
            /\ m_pc = Absent /\ m_ctx = Absent /\ m_events = Absent /\ m_cut = Absent
    /\ IF which = "options" THEN O!Init
       ELSE /\ o_cx = Absent /\ o_made = Absent /\ o_group = Absent /\ o_opts = Absent /\ o_pipes = Absent /\ o_log = Absent
    /\ IF which = "api calls" THEN I!Init
       ELSE /\ i_side = Absent /\ i_tag = Absent /\ i_pc = Absent /\ i_call = Absent /\ i_rc = Absent
            /\ i_opened = Absent /\ i_msg = Absent /\ i_inq = Absent /\ i_rcvmore = Absent /\ i_outq = Absent
            /\ i_taken = Absent /\ i_given = Absent /\ i_lost = Absent /\ i_next = Absent
    /\ IF which = "endpoints" THEN E!Init
       ELSE /\ e_type = Absent /\ e_ctx = Absent /\ e_endpoints = Absent /\ e_inprocs = Absent /\ e_names = Absent
            /\ e_owned = Absent /\ e_closing = Absent /\ e_pipes = Absent /\ e_last = Absent /\ e_made = Absent
            /\ e_told = Absent /\ e_rc = Absent /\ e_dangling = Absent

MCNext ==
    \/ which = "connecter" /\ Next /\ UNCHANGED <<which, lvars, pvars, avars, tvars, xvars, mvars, optvars, ivars, epvars>>
    \/ which = "listener" /\ L!LNext /\ UNCHANGED <<which, vars, pvars, avars, tvars, xvars, mvars, optvars, ivars, epvars>>
    \/ which = "poller" /\ P!PNext /\ UNCHANGED <<which, vars, lvars, avars, tvars, xvars, mvars, optvars, ivars, epvars>>
    \/ which = "api poller" /\ A!Next /\ UNCHANGED <<which, vars, lvars, pvars, tvars, xvars, mvars, optvars, ivars, epvars>>
    \/ which = "api timers" /\ T!Next /\ UNCHANGED <<which, vars, lvars, pvars, avars, xvars, mvars, optvars, ivars, epvars>>
    \/ which = "proxy" /\ X!Next /\ UNCHANGED <<which, vars, lvars, pvars, avars, tvars, mvars, optvars, ivars, epvars>>
    \/ which = "monitor" /\ M!Next /\ UNCHANGED <<which, vars, lvars, pvars, avars, tvars, xvars, optvars, ivars, epvars>>
    \/ which = "options" /\ O!Next /\ UNCHANGED <<which, vars, lvars, pvars, avars, tvars, xvars, mvars, ivars, epvars>>
    \/ which = "api calls" /\ I!Next /\ UNCHANGED <<which, vars, lvars, pvars, avars, tvars, xvars, mvars, optvars, epvars>>
    \/ which = "endpoints" /\ E!Next /\ UNCHANGED <<which, vars, lvars, pvars, avars, tvars, xvars, mvars, optvars, ivars>>

Symmetry == Permutations(Objs)

MCSpec == MCInit /\ [][MCNext]_<<which, vars, lvars, pvars, avars, tvars, xvars, mvars, optvars, ivars, epvars>>

-----------------------------------------------------------------------------
\* No assertion fails in what the I/O thread runs, whatever the network and the
\* application do: the calls the connecters, the listeners and the pollers make are
\* all in order (in_event, out_event, timer_event, process_term of each).
TransportAsserts ==
    IF which = "connecter" THEN AssertionsHold ELSE IF which = "listener" THEN L!AcceptSurvives
    ELSE which = "poller" => P!PollerAssertions

\* Descriptors have one holder and go with it; the names, files and directories of
\* listeners go with the listener that made them and lead to no other, except for
\* listeners of one ipc name, which unlink each other's file, and for what a failed
\* bind () or listen () leaves (CleanedUp); no socket keeps the signaler of a poller that is gone, and no monitor
\* socket is closed while a thread sends on it: close (), process_term (),
\* ~socket_poller_t (), stop_monitor ().
OneHolderEach ==
    CASE which = "connecter"  -> OneHolder
      [] which = "listener"   -> L!CleanedUp
      [] which = "api poller" -> A!SignalersLive
      [] which = "monitor"    -> M!NotClosedInUse
      [] OTHER                -> TRUE

\* A session that wants a connection is on its way to one, and as long as doubling
\* the interval does not overflow, the time it waits is not shorter than
\* ZMQ_RECONNECT_IVL, nor longer than that on top of ZMQ_RECONNECT_IVL_MAX
\* (add_reconnect_timer, get_new_reconnect_ivl).
KeepsTryingInTime == which = "connecter" => KeepsTrying /\ Backoff

\* A handler of an I/O thread is called only for what is registered and was when
\* the wait returned; what the system looks at and the timers that are set are what
\* the objects have asked for (loop () of each poller, set_pollin, add_timer ...).
PollerAgrees == which = "poller" => P!NoStaleEvent /\ P!InterestAgrees /\ P!TimersAgree

\* No thread sleeps in wait () or zmq_poll () over an event it asked for, the proxy
\* does not wait for one side while it could serve the other, and a thread that waits
\* to send a monitor event is released by the end of the context (wait, proxy,
\* monitor_event).
NobodySleeps ==
    CASE which = "api poller" -> A!NeverSleepsOverEvent
      [] which = "proxy"      -> X!NeverWaitsForOutput
      [] which = "monitor"    -> M!TermReleases
      [] OTHER                -> TRUE

\* Pollers hand out the events there are to the items that asked for them, timers
\* run when they are due, the proxy forwards messages whole, and a monitor gets each
\* event whole (zmq_poll, timers_t::execute and timeout, forward, monitor_event).
AnswersExact ==
    CASE which = "api poller" -> A!EventsExact
      [] which = "api timers" -> T!TimersExact
      [] which = "proxy"      -> X!ForwardedWhole
      [] which = "monitor"    -> M!EventsWhole
      [] OTHER                -> TRUE

\* A socket has one role in one security mechanism and reads back what was set
\* last, whatever was refused on the way (options_t::setsockopt); a call of the
\* API reports every part once, fills no buffer beyond its end and closes every
\* message it opens (zmq_recv, zmq_recviov, zmq_sendiov); and a socket loses no
\* listener, session or pipe, and closes by its name what it has opened (bind,
\* connect, term_endpoint).
CallsExact ==
    CASE which = "options"   -> O!OptionsExact
      [] which = "api calls" -> I!ApiSound
      [] which = "endpoints" -> E!EndpointsSound
      [] OTHER               -> TRUE

=============================================================================
