-------------------------------- MODULE Ctx --------------------------------
(***************************************************************************)
(* ctx_t and reaper_t: the sockets of a context, their inproc connections, *)
(* and zmq_ctx_term.                                                       *)
(*                                                                         *)
(* Every socket is used by an application thread of its own until it is    *)
(* closed, then by the reaper.  Two locks are shared: slot_sync (the list  *)
(* of sockets, 'terminating') and endpoints_sync (the inproc endpoints and *)
(* the connections that wait for one).  An inproc zmq_connect looks for    *)
(* the endpoint and, if it is not there, queues the connection: two        *)
(* critical sections, as are the two of zmq_bind; each call is therefore   *)
(* two or three steps, kept in 'pc'.                                       *)
(*                                                                         *)
(* zmq_ctx_term first binds a ZMQ_PAIR socket of its own to the address of *)
(* every connection still waiting, with slot_sync held.                    *)
(*                                                                         *)
(* A socket is deleted only when the commands announced in its sent_seqnum *)
(* have arrived and its pipes are gone (see Own).  Of a pipe, the life     *)
(* cycle of its two ends is kept (see Pipe for the rest): the delimiter    *)
(* may be read any time after it was written.  An identity message is kept *)
(* only where the code asserts that it could be written.                   *)
(***************************************************************************)
EXTENDS Integers, Sequences, FiniteSets, SequencesExt

CONSTANTS Sock,         \* sockets of the application, none of them ZMQ_PAIR
          Pair,         \* sockets zmq_ctx_term makes for itself
          MaxConns,     \* bound on the inproc connections made
          Addr,         \* inproc addresses
          RecvIdentity, \* sockets that want their peer's identity (ROUTER)
          Binder,       \* sockets that call zmq_bind
          Connecter,    \* sockets that call zmq_connect
          NoDelay,      \* sockets that call set_nodelay () (PUSH, PUB)
          MaxSockets,   \* ZMQ_MAX_SOCKETS
          None

Socket == Sock \cup Pair
Conn == 1..MaxConns        \* numbered in the order they are made

\* The ends of the pipe of a connection k: k is that of the socket that connects,
\* -k that of the socket that is bound.
End == Conn \cup {-k : k \in Conn}

ASSUME CtxAssumption ==
    /\ Sock \cap Pair = {}
    /\ UNION {RecvIdentity, NoDelay, Binder, Connecter} \subseteq Sock
    /\ MaxSockets \in Nat \ {0} /\ MaxConns \in Nat
    /\ None \notin Socket \cup Addr

VARIABLES starting, terminating,   \* ctx_t
          slot_sync,       \* zmq_ctx_term holds it
          endpoints,       \* the socket bound to an address
          pending,         \* pending_connections
          endpoints_sync,  \* the socket in whose call it is held, or None
          sock,            \* the fields of socket_base_t and own_t
          pc,              \* what is left of a socket's zmq_connect or zmq_bind
          conn,            \* who made a connection, where, and is it in 'inprocs'
          pstate,          \* the state of an end of a pipe
          ptid,            \* the socket whose mailbox gets an end's commands
          sink,            \* the socket an end is attached to
          delimiter,       \* ends that can read a delimiter
          mailbox,         \* of the sockets, the reaper and zmq_ctx_term
          reaper,          \* reaper_t
          term,            \* zmq_ctx_term; 'late' are the connections queued since
                           \* it took its copy of pending_connections
          failed           \* the zmq_assert that has aborted the process

cvars == <<starting, terminating, slot_sync>>
evars == <<endpoints, pending, endpoints_sync>>
pvars == <<conn, pstate, ptid, sink, delimiter>>
vars == <<cvars, evars, sock, pc, pvars, mailbox, reaper, term, failed>>

NoSocket == [life |-> "none", ctx_terminated |-> FALSE, terminating |-> FALSE,
             seqnum |-> 0, term_acks |-> 0, destroyed |-> FALSE]
Deleted == [NoSocket EXCEPT !.life = "deleted"]
Idle == [op |-> "idle", addr |-> None, peer |-> None, conn |-> None]
NoConn == [from |-> None, addr |-> None, inproc |-> FALSE]

Init == /\ starting = TRUE /\ terminating = FALSE /\ slot_sync = FALSE
        /\ endpoints = [a \in Addr |-> None] /\ pending = {} /\ endpoints_sync = None
        /\ sock = [s \in Socket |-> NoSocket]
        /\ pc = [s \in Socket |-> Idle]
        /\ conn = [k \in Conn |-> NoConn]
        /\ pstate = [e \in End |-> "none"]
        /\ ptid = [e \in End |-> None] /\ sink = [e \in End |-> None]
        /\ delimiter = {}
        /\ mailbox = [t \in Socket \cup {"reaper", "term"} |-> <<>>]
        /\ reaper = [sockets |-> 0, terminating |-> FALSE]
        /\ term = [pc |-> "no", copy |-> {}, late |-> {}]
        /\ failed = {}
-----------------------------------------------------------------------------
(* Sockets and commands *)

Life(s) == sock[s].life
\* ctx_t::sockets
sockets == {s \in Socket : Life(s) \notin {"none", "deleted"}}
pipes(s) == {e \in End : sink[e] = s}

Cmd(t, type, a) == [to |-> t, type |-> type, arg |-> a]

\* The mailboxes after the commands in the sequence cs were sent.
SentAll(cs) == [t \in DOMAIN mailbox |-> mailbox[t] \o SelectSeq(cs, LAMBDA c : c.to = t)]

zmq_assert(name, condition) ==
    failed' = IF condition THEN failed ELSE failed \cup {name}

\* The process has not aborted.
Running == failed = {}

\* Of sent_seqnum and processed_seqnum the difference is kept: the commands
\* announced and not processed.
inc_seqnum(r) == [r EXCEPT !.seqnum = @ + 1]

\* The reaper is not in the middle of the deletion of a socket.
ReaperFree == \A s \in Socket : ~sock[s].destroyed

\* The thread of s can handle the command 'type' that is next in its mailbox.
Handles(s, type) ==
    /\ Running
    /\ mailbox[s] # <<>> /\ Head(mailbox[s]).type = type
    /\ \/ s \in Sock /\ Life(s) = "open" /\ pc[s] = Idle
       \/ Life(s) = "reaping" /\ ReaperFree

arg(t) == Head(mailbox[t]).arg

\* Take the next command of t, and send the ones in cs.
Handled(t, cs) == mailbox' = [SentAll(cs) EXCEPT ![t] = Tail(@)]

\* An API call on s begins: it has processed all pending commands.
Api(s) == /\ Running /\ s \in Sock /\ Life(s) = "open" /\ pc[s] = Idle
          /\ mailbox[s] = <<>> /\ ~sock[s].ctx_terminated
-----------------------------------------------------------------------------
(* own_t, for an object without owner and children *)

CanGo(r) == r.terminating /\ r.seqnum = 0 /\ r.term_acks = 0

\* check_term_acks () of a socket marks it for check_destroy ().
check_term_acks(r) == [r EXCEPT !.destroyed = @ \/ CanGo(r)]

process_seqnum(r) == check_term_acks([r EXCEPT !.seqnum = @ - 1])
register_term_acks(r, count) == [r EXCEPT !.term_acks = @ + count]

unregister_term_ack_Twice(r) == check_term_acks([r EXCEPT !.term_acks = @ - 2])
unregister_term_ack(r) == check_term_acks([r EXCEPT !.term_acks = @ - 1])
-----------------------------------------------------------------------------
(* Pipes *)

Peer(e) == -e

\* send_command () reads the destination's tid when it sends.
Tell(e, type) == <<Cmd(ptid[e], type, e)>>

\* terminate (delay) of an end in state st: the new state, the command for the
\* peer, and whether a delimiter is written.
PTerminated(st, delay) ==
    CASE st \in {"active", "delimiter_received"} -> "term_req_sent1"
      [] st = "waiting_for_delimiter" /\ ~delay -> "term_ack_sent"
      [] OTHER -> st
TermCommand(st, delay) ==
    CASE st \in {"active", "delimiter_received"} -> {"pipe_term"}
      [] st = "waiting_for_delimiter" /\ ~delay -> {"pipe_term_ack"}
      [] OTHER -> {}
Delimits(st, delay) ==
    st \in {"active", "delimiter_received"} \/ (st = "waiting_for_delimiter" /\ delay)

\* terminate () of all ends in E: the parts of the next state.
Terminated(E, delay) ==
    [e \in End |-> IF e \in E THEN PTerminated(pstate[e], delay) ELSE pstate[e]]
TermCommands(E, delay) ==
    SetToSeq(UNION {{Cmd(ptid[Peer(e)], c, Peer(e)) : c \in TermCommand(pstate[e], delay)} :
                    e \in E})

\* The ends that can read a delimiter once those in E are terminated.
Readable(st) == st \in {"active", "waiting_for_delimiter"}
Delimiters(E, delay) ==
    {e \in delimiter \cup {Peer(f) : f \in {g \in E : Delimits(pstate[g], delay)}} :
       Readable(IF e \in E THEN PTerminated(pstate[e], delay) ELSE pstate[e])}

process_pipe_term(s) ==
    /\ Handles(s, "pipe_term")
    /\ LET e == arg(s)
           st == pstate[e]
           wait == st = "active" /\ sink[e] \notin NoDelay
       IN /\ zmq_assert("pipe_term", st \in {"active", "delimiter_received", "term_req_sent1"})
          /\ pstate' = [pstate EXCEPT ![e] =
                          CASE wait -> "waiting_for_delimiter"
                            [] st = "term_req_sent1" -> "term_req_sent2"
                            [] OTHER -> "term_ack_sent"]
          /\ delimiter' = IF wait THEN delimiter ELSE delimiter \ {e}
          /\ Handled(s, IF wait THEN <<>> ELSE Tell(Peer(e), "pipe_term_ack"))
    /\ UNCHANGED <<cvars, evars, sock, pc, conn, ptid, sink, reaper, term>>

\* The end tells its socket, acknowledges if it has not yet, and is deleted.
process_pipe_term_ack(s) ==
    /\ Handles(s, "pipe_term_ack")
    /\ LET e == arg(s)
           st == pstate[e]
           o == sink[e]
       IN /\ zmq_assert("pipe_term_ack",
               /\ o # None
               /\ st \in {"term_req_sent1", "term_req_sent2", "term_ack_sent"}
               /\ sock[o].terminating => sock[o].term_acks > 0)
          /\ pstate' = [pstate EXCEPT ![e] = "gone"]
          /\ sink' = [sink EXCEPT ![e] = None]
          /\ conn' = IF e \in Conn THEN [conn EXCEPT ![e].inproc = FALSE] ELSE conn
          /\ sock' = IF o # None /\ sock[o].terminating
                     THEN [sock EXCEPT ![o] = unregister_term_ack(@)] ELSE sock
          /\ Handled(s, IF st = "term_req_sent1" THEN Tell(Peer(e), "pipe_term_ack") ELSE <<>>)
    /\ UNCHANGED <<cvars, evars, pc, ptid, delimiter, reaper, term>>

\* The application reads up to the delimiter of an end.
process_delimiter(e) ==
    /\ Running /\ e \in delimiter
    /\ sink[e] \in Sock /\ Life(sink[e]) = "open" /\ pc[sink[e]] = Idle
    /\ delimiter' = delimiter \ {e}
    /\ IF pstate[e] = "active"
       THEN pstate' = [pstate EXCEPT ![e] = "delimiter_received"] /\ mailbox' = mailbox
       ELSE /\ pstate' = [pstate EXCEPT ![e] = "term_ack_sent"]
            /\ mailbox' = SentAll(Tell(Peer(e), "pipe_term_ack"))
    /\ UNCHANGED <<cvars, evars, sock, pc, conn, ptid, sink, reaper, term, failed>>
-----------------------------------------------------------------------------
(* Attaching pipes *)

\* attach_pipe () terminates the pipe at once when the socket is closing, or is
\* a ZMQ_PAIR that has one already.
Rejects(s) == sock[s].terminating \/ (s \in Pair /\ pipes(s) # {})

\* The bind command of an inproc connection arrives.
process_bind(s) ==
    /\ Handles(s, "bind")
    /\ LET e == -arg(s)
           R == IF Rejects(s) THEN {e} ELSE {}
           acks == IF sock[s].terminating THEN 1 ELSE 0
       IN /\ sink' = [sink EXCEPT ![e] = s]
          /\ pstate' = Terminated(R, FALSE)
          /\ delimiter' = Delimiters(R, FALSE)
          /\ sock' = [sock EXCEPT ![s] = process_seqnum(register_term_acks(@, acks))]
          /\ Handled(s, TermCommands(R, FALSE))
    /\ UNCHANGED <<cvars, evars, pc, conn, ptid, reaper, term, failed>>

process_inproc_connected(s) ==
    /\ Handles(s, "inproc_connected")
    /\ sock' = [sock EXCEPT ![s] = process_seqnum(@)]
    /\ Handled(s, <<>>)
    /\ UNCHANGED <<cvars, evars, pc, pvars, reaper, term, failed>>

\* (The flag is not read once the socket is closed.)
process_stop(s) ==
    /\ Handles(s, "stop")
    /\ sock' = [sock EXCEPT ![s].ctx_terminated = (Life(s) = "open")]
    /\ Handled(s, <<>>)
    /\ UNCHANGED <<cvars, evars, pc, pvars, reaper, term, failed>>
-----------------------------------------------------------------------------
(* zmq_connect *)

\* k is the number of the next connection.
IsNext(k) == conn[k] = NoConn /\ \A j \in Conn : j < k => conn[j] # NoConn

\* Variant that does not protect the peer from deletion.
find_endpoint_NoSeqnum(s, a, k) ==
    /\ s \in Connecter /\ Api(s) /\ endpoints_sync = None /\ IsNext(k)
    /\ conn' = [conn EXCEPT ![k] = [from |-> s, addr |-> a, inproc |-> TRUE]]
    /\ pc' = [pc EXCEPT ![s] = [op |-> "connect", addr |-> a, peer |-> endpoints[a], conn |-> k]]
    /\ UNCHANGED <<cvars, evars, sock, pstate, ptid, sink, delimiter, mailbox, reaper, term, failed>>

\* The first critical section of zmq_connect.
find_endpoint(s, a, k) ==
    /\ s \in Connecter /\ Api(s) /\ endpoints_sync = None /\ IsNext(k)
    /\ conn' = [conn EXCEPT ![k] = [from |-> s, addr |-> a, inproc |-> TRUE]]
    /\ pc' = [pc EXCEPT ![s] = [op |-> "connect", addr |-> a, peer |-> endpoints[a], conn |-> k]]
    /\ sock' = IF endpoints[a] = None THEN sock
               ELSE [sock EXCEPT ![endpoints[a]] = inc_seqnum(@)]
    /\ UNCHANGED <<cvars, evars, pstate, ptid, sink, delimiter, mailbox, reaper, term, failed>>

\* pipepair () for the connection k of s, its other end in the thread of t, and
\* attach_pipe () for the end of s.
pipepair(s, t, k) ==
    /\ pstate' = [pstate EXCEPT ![k] = "active", ![-k] = "active"]
    /\ ptid' = [ptid EXCEPT ![k] = s, ![-k] = t]
    /\ sink' = [sink EXCEPT ![k] = s]

\* The peer was found.
connect_found(s) ==
    /\ Running /\ pc[s].op = "connect" /\ pc[s].peer # None
    /\ pipepair(s, pc[s].peer, pc[s].conn)
    /\ mailbox' = SentAll(<<Cmd(pc[s].peer, "bind", pc[s].conn)>>)
    /\ pc' = [pc EXCEPT ![s] = Idle]
    /\ UNCHANGED <<cvars, evars, sock, conn, delimiter, reaper, term, failed>>

\* Variant that does not look again.
pend_connection_NoSecondLook(s) ==
    /\ Running /\ pc[s].op = "connect" /\ pc[s].peer = None /\ endpoints_sync = None
    /\ pipepair(s, s, pc[s].conn)
    /\ sock' = [sock EXCEPT ![s] = inc_seqnum(@)]
    /\ pending' = pending \cup {pc[s].conn}
    /\ pc' = [pc EXCEPT ![s] = Idle]
    /\ UNCHANGED <<cvars, endpoints, endpoints_sync, conn, delimiter, mailbox, reaper, term, failed>>

\* It was not: queue the connection, unless somebody has bound meanwhile.  Then
\* connect_inproc_sockets () runs on the connecting side.
pend_connection(s) ==
    LET b == endpoints[pc[s].addr] IN
    /\ Running /\ pc[s].op = "connect" /\ pc[s].peer = None /\ endpoints_sync = None
    /\ IF b = None
       THEN /\ pipepair(s, s, pc[s].conn)
            /\ sock' = [sock EXCEPT ![s] = inc_seqnum(@)]
            /\ pending' = pending \cup {pc[s].conn}
            /\ pc' = [pc EXCEPT ![s] = Idle]
            /\ term' = [term EXCEPT !.late = IF term.pc = "no" THEN {} ELSE @ \cup {pc[s].conn}]
            /\ UNCHANGED <<endpoints_sync, mailbox>>
       ELSE /\ pipepair(s, b, pc[s].conn)
            /\ sock' = [sock EXCEPT ![b] = inc_seqnum(@)]
            /\ mailbox' = SentAll(<<Cmd(b, "bind", pc[s].conn)>>)
            /\ pc' = [pc EXCEPT ![s] = IF s \in RecvIdentity
                                       THEN [@ EXCEPT !.op = "connect_identity"] ELSE Idle]
            /\ endpoints_sync' = IF s \in RecvIdentity THEN s ELSE None
            /\ UNCHANGED <<pending, term>>
    /\ UNCHANGED <<cvars, endpoints, conn, delimiter, reaper, failed>>

\* The end of connect_inproc_sockets (): the bound socket's identity is written
\* for the connecting one if that is open.  endpoints_sync is still held.
write_identity(s) ==
    /\ Running /\ pc[s].op \in {"connect_identity", "bind_identity"}
    /\ LET k == pc[s].conn
           a == conn[k].from
       IN zmq_assert("written", Life(a) = "open" => pstate[-k] = "active")
    /\ IF pc[s].op = "connect_identity"
       THEN pc' = [pc EXCEPT ![s] = Idle] /\ endpoints_sync' = None
       ELSE pc' = [pc EXCEPT ![s].op = "bind"] /\ UNCHANGED endpoints_sync
    /\ UNCHANGED <<cvars, endpoints, pending, sock, pvars, mailbox, reaper, term>>
-----------------------------------------------------------------------------
(* zmq_bind, zmq_unbind, zmq_disconnect, zmq_close *)

\* The first critical section of zmq_bind; zmq_ctx_term calls it for its own
\* sockets and ignores that the address may be in use.
register_endpoint(s, a) ==
    /\ endpoints_sync = None
    /\ \/ s \in Binder /\ Api(s) /\ endpoints[a] = None
       \/ Running /\ pc[s].op = "register" /\ pc[s].addr = a
    /\ endpoints' = [endpoints EXCEPT ![a] = IF @ = None THEN s ELSE @]
    /\ pc' = [pc EXCEPT ![s] = IF endpoints[a] = None
                               THEN [Idle EXCEPT !.op = "bind", !.addr = a] ELSE Idle]
    /\ UNCHANGED <<cvars, pending, endpoints_sync, sock, pvars, mailbox, reaper, term, failed>>

\* connect_inproc_sockets () on the binding side, up to the identity.  The other
\* end of the pipe moves to the thread of s.
connect_inproc_sockets(s, k) ==
    LET e == -k
        a == conn[k].from
        R == IF Rejects(s) THEN {e} ELSE {}
    IN
    /\ ptid' = [ptid EXCEPT ![e] = s]
    /\ zmq_assert("ok", Readable(pstate[e]))
    /\ sink' = [sink EXCEPT ![e] = s]
    /\ pstate' = Terminated(R, FALSE)
    /\ delimiter' = Delimiters(R, FALSE)
    /\ sock' = [sock EXCEPT ![s] = process_seqnum(inc_seqnum(@))]
    /\ mailbox' = SentAll(TermCommands(R, FALSE) \o <<Cmd(a, "inproc_connected", None)>>)
    /\ pc' = [pc EXCEPT ![s].op = IF a \in RecvIdentity THEN "bind_identity" ELSE "bind",
                        ![s].conn = k]
    /\ UNCHANGED conn

\* The second critical section of zmq_bind.
connect_pending(s) ==
    LET P == {k \in pending : conn[k].addr = pc[s].addr} IN
    /\ Running /\ pc[s].op = "bind" /\ endpoints_sync \in {None, s}
    /\ \/ /\ P = {}
          /\ endpoints_sync' = None
          /\ pc' = [pc EXCEPT ![s] = Idle]
          /\ UNCHANGED <<pending, sock, pvars, mailbox, term, failed>>
       \/ \E k \in P :
            /\ \A j \in P : k <= j
            /\ connect_inproc_sockets(s, k)
            /\ endpoints_sync' = s
            /\ pending' = pending \ {k}
            /\ term' = [term EXCEPT !.late = @ \ {k}]
    /\ UNCHANGED <<cvars, endpoints, reaper>>

unregister_endpoint(s, a) ==
    /\ Api(s) /\ endpoints_sync = None /\ endpoints[a] = s
    /\ endpoints' = [endpoints EXCEPT ![a] = None]
    /\ UNCHANGED <<cvars, pending, endpoints_sync, sock, pc, pvars, mailbox, reaper, term, failed>>

\* zmq_disconnect: unregister_endpoint () has failed.
term_endpoint(s, a) ==
    LET E == {k \in Conn \cap pipes(s) : conn[k].inproc /\ conn[k].addr = a} IN
    /\ Api(s) /\ endpoints_sync = None /\ endpoints[a] # s
    /\ E # {}
    /\ pstate' = Terminated(E, TRUE)
    /\ delimiter' = Delimiters(E, TRUE)
    /\ mailbox' = SentAll(TermCommands(E, TRUE))
    /\ conn' = [k \in Conn |-> IF k \in E THEN [conn[k] EXCEPT !.inproc = FALSE]
                               ELSE conn[k]]
    /\ UNCHANGED <<cvars, evars, sock, pc, ptid, sink, reaper, term, failed>>

close(s) ==
    /\ sock' = [sock EXCEPT ![s].life = "closed"]
    /\ mailbox' = SentAll(<<Cmd("reaper", "reap", s)>>)
    /\ UNCHANGED <<cvars, evars, pc, pvars, reaper, term, failed>>

zmq_close(s) == Running /\ s \in Sock /\ Life(s) = "open" /\ pc[s] = Idle /\ close(s)
-----------------------------------------------------------------------------
(* reaper_t *)

ReaperHandles(type) ==
    Running /\ mailbox["reaper"] # <<>> /\ Head(mailbox["reaper"]).type = type /\ ReaperFree

Done == <<Cmd("term", "done", None)>>

\* start_reaping () and with it process_term () of the socket.
process_reap ==
    /\ ReaperHandles("reap") /\ endpoints_sync = None
    /\ LET s == arg("reaper")
           E == pipes(s)
       IN /\ endpoints' = [a \in Addr |-> IF endpoints[a] = s THEN None ELSE endpoints[a]]
          /\ pstate' = Terminated(E, FALSE)
          /\ delimiter' = Delimiters(E, FALSE)
          /\ sock' = [sock EXCEPT ![s] = check_term_acks(
                        [register_term_acks(@, Cardinality(E)) EXCEPT
                           !.life = "reaping", !.terminating = TRUE,
                           !.ctx_terminated = FALSE])]
          /\ Handled("reaper", TermCommands(E, FALSE))
    /\ reaper' = [reaper EXCEPT !.sockets = @ + 1]
    /\ UNCHANGED <<cvars, pending, endpoints_sync, pc, conn, ptid, sink, term, failed>>

process_reaped ==
    /\ ReaperHandles("reaped")
    /\ reaper' = [reaper EXCEPT !.sockets = @ - 1]
    /\ Handled("reaper", IF reaper.sockets = 1 /\ reaper.terminating THEN Done ELSE <<>>)
    /\ UNCHANGED <<cvars, evars, sock, pc, pvars, term, failed>>

process_reaper_stop ==
    /\ ReaperHandles("stop")
    /\ reaper' = [reaper EXCEPT !.terminating = TRUE]
    /\ Handled("reaper", IF reaper.sockets = 0 THEN Done ELSE <<>>)
    /\ UNCHANGED <<cvars, evars, sock, pc, pvars, term, failed>>

\* The mailbox of s goes with it, and the stop command it may hold.
WithoutMailbox(s, m) == [m EXCEPT ![s] = SelectSeq(@, LAMBDA c : c.type # "stop")]

\* Variant that stops the reaper when any socket goes.
destroy_socket_StopsEarly(s) ==
    /\ Running /\ Life(s) = "reaping" /\ sock[s].destroyed /\ ~slot_sync
    /\ sock' = [sock EXCEPT ![s] = Deleted]
    /\ mailbox' = WithoutMailbox(s, SentAll(
         (IF terminating THEN <<Cmd("reaper", "stop", None)>> ELSE <<>>)
         \o <<Cmd("reaper", "reaped", None)>>))
    /\ UNCHANGED <<cvars, evars, pc, pvars, reaper, term, failed>>

\* check_destroy () of a socket in the reaper.
destroy_socket(s) ==
    /\ Running /\ Life(s) = "reaping" /\ sock[s].destroyed /\ ~slot_sync
    /\ sock' = [sock EXCEPT ![s] = Deleted]
    /\ mailbox' = WithoutMailbox(s, SentAll(
         (IF terminating /\ sockets = {s} THEN <<Cmd("reaper", "stop", None)>> ELSE <<>>)
         \o <<Cmd("reaper", "reaped", None)>>))
    /\ UNCHANGED <<cvars, evars, pc, pvars, reaper, term, failed>>
-----------------------------------------------------------------------------
(* zmq_socket, zmq_ctx_shutdown, zmq_ctx_term *)

CtxAlive == term.pc # "freed"

create_socket(s) ==
    /\ Running /\ s \in Sock /\ Life(s) = "none" /\ CtxAlive /\ ~slot_sync
    /\ ~terminating /\ Cardinality(sockets) < MaxSockets
    /\ starting' = FALSE
    /\ sock' = [sock EXCEPT ![s].life = "open"]
    /\ UNCHANGED <<terminating, slot_sync, evars, pc, pvars, mailbox, reaper, term, failed>>

\* Every socket is told to stop, or else the reaper.
Stops == IF sockets = {} THEN <<Cmd("reaper", "stop", None)>>
         ELSE SetToSeq({Cmd(s, "stop", None) : s \in sockets})

shutdown ==
    /\ Running /\ CtxAlive /\ ~slot_sync /\ ~starting /\ ~terminating
    /\ terminating' = TRUE
    /\ mailbox' = SentAll(Stops)
    /\ UNCHANGED <<starting, slot_sync, evars, sock, pc, pvars, reaper, term, failed>>

\* zmq_ctx_term is called for the first time, or again after a signal has
\* interrupted it: what others do between the two calls they can also do before
\* the signal.
Calls == Running /\ (term.pc = "no" \/ (term.pc = "waiting" /\ mailbox["term"] = <<>>))

\* Its second part: the sockets are stopped, the first time; a context that
\* never had a socket goes.
terminate_stop ==
    /\ slot_sync' = FALSE
    /\ term' = [term EXCEPT !.pc = IF starting THEN "freed" ELSE "waiting"]
    /\ terminating' = (terminating \/ ~starting)
    /\ mailbox' = IF starting \/ terminating THEN mailbox ELSE SentAll(Stops)
    /\ UNCHANGED <<starting, evars, sock, pc, pvars, reaper, failed>>

\* Variant that leaves the connections pending.
terminate_NoCopy == Calls /\ ~slot_sync /\ terminate_stop

\* zmq_ctx_term copies pending_connections, without endpoints_sync.  The flag
\* 'terminating', which it clears for its own calls of create_socket (), nobody
\* else can read before it is set again.
terminate ==
    /\ Calls /\ ~slot_sync
    /\ IF pending = {} THEN terminate_stop
       ELSE /\ slot_sync' = TRUE
            /\ term' = [term EXCEPT !.pc = "pairs", !.copy = pending, !.late = {}]
            /\ UNCHANGED <<starting, terminating, evars, sock, pc, pvars, mailbox, reaper, failed>>

\* One iteration of its loop begins, ...
NoPairOpen == \A p \in Pair : Life(p) # "open"
terminate_pair ==
    LET p == CHOOSE q \in Pair : Life(q) = "none" IN
    /\ Running /\ term.pc = "pairs" /\ NoPairOpen
    /\ \E q \in Pair : Life(q) = "none"
    /\ \E k \in term.copy :
         /\ \A j \in term.copy : k <= j
         /\ term' = [term EXCEPT !.copy = @ \ {k}]
         /\ pc' = [pc EXCEPT ![p] = [Idle EXCEPT !.op = "register", !.addr = conn[k].addr]]
    /\ zmq_assert("s", Cardinality(sockets) < MaxSockets)
    /\ sock' = [sock EXCEPT ![p].life = "open"]
    /\ UNCHANGED <<cvars, evars, pvars, mailbox, reaper>>

\* ... and ends.
terminate_close(p) == Running /\ p \in Pair /\ Life(p) = "open" /\ pc[p] = Idle /\ close(p)

terminate_loop_ends ==
    Running /\ term.pc = "pairs" /\ term.copy = {} /\ NoPairOpen /\ terminate_stop

terminate_done ==
    /\ Running /\ term.pc = "waiting" /\ mailbox["term"] # <<>> /\ ~slot_sync
    /\ zmq_assert("sockets.empty", sockets = {})
    /\ term' = [term EXCEPT !.pc = "freed"]
    /\ Handled("term", <<>>)
    /\ UNCHANGED <<cvars, evars, sock, pc, pvars, reaper>>
-----------------------------------------------------------------------------
Process(s) == \/ process_bind(s) \/ process_inproc_connected(s) \/ process_stop(s)
              \/ process_pipe_term(s) \/ process_pipe_term_ack(s)

Call(s) == \/ create_socket(s) \/ zmq_close(s)
           \/ connect_found(s) \/ pend_connection(s) \/ write_identity(s)
           \/ connect_pending(s)
           \/ \E a \in Addr : \/ register_endpoint(s, a) \/ unregister_endpoint(s, a)
                              \/ term_endpoint(s, a)
                              \/ \E k \in Conn : find_endpoint(s, a, k)

Reaper == \/ process_reap \/ process_reaped \/ process_reaper_stop
          \/ \E s \in Socket : destroy_socket(s)

CtxTerm == \/ terminate \/ terminate_loop_ends \/ terminate_done
           \/ terminate_pair \/ \E p \in Pair : terminate_close(p)

Next == \/ \E s \in Socket : Process(s) \/ Call(s)
        \/ \E e \in End : process_delimiter(e)
        \/ Reaper \/ CtxTerm \/ shutdown

Spec == Init /\ [][Next]_vars
-----------------------------------------------------------------------------
PState == {"none", "active", "delimiter_received", "waiting_for_delimiter", "term_ack_sent",
           "term_req_sent1", "term_req_sent2", "gone"}

TypeOK ==
    /\ {starting, terminating, slot_sync} \subseteq BOOLEAN
    /\ endpoints \in [Addr -> Socket \cup {None}]
    /\ pending \subseteq Conn /\ endpoints_sync \in Socket \cup {None}
    /\ sock \in [Socket -> [life: {"none", "open", "closed", "reaping", "deleted"},
                            ctx_terminated: BOOLEAN, terminating: BOOLEAN, seqnum: Nat,
                            term_acks: Nat, destroyed: BOOLEAN]]
    /\ pc \in [Socket -> [op: {"idle", "connect", "connect_identity", "register", "bind",
                               "bind_identity"},
                          addr: Addr \cup {None}, peer: Socket \cup {None},
                          conn: Conn \cup {None}]]
    /\ conn \in [Conn -> [from: Sock \cup {None}, addr: Addr \cup {None}, inproc: BOOLEAN]]
    /\ pstate \in [End -> PState]
    /\ ptid \in [End -> Socket \cup {None}] /\ sink \in [End -> Socket \cup {None}]
    /\ delimiter \subseteq End
    /\ reaper \in [sockets: Nat, terminating: BOOLEAN]
    /\ term \in [pc: {"no", "pairs", "waiting", "freed"}, copy: SUBSET Conn, late: SUBSET Conn]

\* No zmq_assert of the shutdown fails: pipes get their termination commands in
\* the right states and their acknowledgements are counted, a waiting
\* connection still has a pipe to read, there is a slot for every socket
\* zmq_ctx_term makes, and no socket is left when the reaper reports that it
\* is done.  (The identity that connect_inproc_sockets asserts it has written
\* is left out: an open socket that disconnected a waiting connection makes it
\* fail.)
AssertionsHold == failed \subseteq {"written"}

Commands(s, types) == {mailbox[s][i] : i \in {j \in DOMAIN mailbox[s] : mailbox[s][j].type \in types}}

\* A deleted socket is nobody's business: it is not bound to an address, no
\* connection waits in its name, no pipe is attached to it or sends its commands
\* there, no thread has found it and is about to send it a bind command, and there
\* is no command for it or for a pipe of its in its mailbox.  Nor is a command on
\* its way to a pipe that is gone.
NoUseAfterDelete ==
    \A s \in Socket :
      /\ Life(s) = "deleted" =>
           /\ \A a \in Addr : endpoints[a] # s
           /\ \A k \in pending : conn[k].from # s
           /\ \A e \in End : /\ sink[e] # s
                             /\ ptid[e] = s => pstate[e] = "gone"
           /\ \A t \in Socket : pc[t].op = "connect" => pc[t].peer # s
           /\ mailbox[s] = <<>>
      /\ \A c \in Commands(s, {"pipe_term", "pipe_term_ack"}) : pstate[c.arg] # "gone"

\* The context is taken apart in the right order: what zmq_ctx_term, the reaper
\* and the sockets assert of each other holds, and nobody uses a socket that
\* destroy_socket has deleted.
ContextSound == TypeOK /\ AssertionsHold /\ NoUseAfterDelete

\* zmq_connect and zmq_bind do not miss each other: when an address is bound and
\* the zmq_bind has returned, no connection to that address is left waiting.
NoMissedBind ==
    \A k \in pending : LET b == endpoints[conn[k].addr] IN
      b # None => pc[b].op \in {"bind", "bind_identity"} /\ pc[b].addr = conn[k].addr

\* zmq_ctx_term waits, the application has closed its sockets, and no thread has
\* anything left to do.
Stuck ==
    /\ term.pc = "waiting" /\ mailbox["term"] = <<>>
    /\ \A s \in Socket : /\ Life(s) \in {"none", "reaping", "deleted"} /\ pc[s] = Idle
                         /\ Life(s) = "reaping" => mailbox[s] = <<>> /\ ~sock[s].destroyed
    /\ mailbox["reaper"] = <<>>

\* zmq_ctx_term returns once all sockets are closed, unless a connection was
\* queued after it had looked for them.
TermReturns == Stuck => term.late # {}
=============================================================================
