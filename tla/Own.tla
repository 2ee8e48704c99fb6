-------------------------------- MODULE Own --------------------------------
(***************************************************************************)
(* own_t: the tree of objects below one socket, and how it is taken down.  *)
(*                                                                         *)
(* A socket owns the listeners and the connecting sessions its application *)
(* asked for, a listener owns the sessions of the connections it accepted, *)
(* a session owns the connecter that tries to (re)establish it.  Objects   *)
(* live in threads and talk by commands in the threads' mailboxes.  An     *)
(* object may be deleted only when no command for it can be on its way:    *)
(*   - a child asks its owner before it goes, and acknowledges its end;    *)
(*   - commands that come from elsewhere (plug, own, attach, bind) are     *)
(*     announced in the destination's sent_seqnum, which any thread may    *)
(*     increment, before they are sent.                                    *)
(* An increment, a send, the test in check_term_acks () and a deletion are *)
(* separate steps of a thread, so that the threads interleave there: a     *)
(* handler changes its own object at once and leaves what it does to the   *)
(* others in 'todo', in the order of the code.  Only in launch_child (),   *)
(* where no other thread knows or looks at the counter, is the increment   *)
(* one step with the send that follows it.                                 *)
(*                                                                         *)
(* Of the pipes between sessions and socket only the life cycle is kept    *)
(* (Pipe has the rest): reading the delimiter is a step that may take any  *)
(* time.  The pipe to a ZAP handler is left out, and so are sessions of    *)
(* raw sockets (STREAM, raw ROUTER), which terminate themselves and their  *)
(* engine when the pipe ends (session_base.cpp:255-261).                   *)
(***************************************************************************)
EXTENDS Integers, Sequences, FiniteSets, SequencesExt

CONSTANTS Socket,      \* the root of the tree
          Listener,    \* listeners, owned by the socket
          Connected,   \* sessions of zmq_connect, owned by the socket
          Accepted,    \* sessions of accepted connections, owned by a listener
          Connecter,   \* connecters, owned by a session of Connected
          Pipe,        \* pipes between a session and the socket
          Tid,         \* the thread each object runs in
          Affinity,    \* the I/O threads a session may start its connecter in
          Immediate,   \* the values of ZMQ_IMMEDIATE considered
          Linger,      \* ZMQ_LINGER of the socket: 0, or something else
          MaxEndpoints,  \* bound on the endpoints the application asks for
          None

Session == Connected \cup Accepted
Object == {Socket} \cup Listener \cup Session \cup Connecter
Thread == {Tid[o] : o \in Object}

ASSUME OwnAssumption ==
    /\ Immediate \subseteq BOOLEAN
    /\ Linger \in Nat /\ MaxEndpoints \in Nat
    /\ IsFiniteSet(Object) /\ IsFiniteSet(Pipe)
    /\ None \notin Object \cup Pipe
    /\ Socket \notin Listener \cup Session \cup Connecter
    /\ Listener \cap (Session \cup Connecter) = {} /\ Connecter \cap Session = {}
    /\ Connected \cap Accepted = {}
    /\ Cardinality(Pipe) >= Cardinality(Accepted) + Cardinality(Connecter)
    /\ Cardinality(Connecter) >= Cardinality(Connected)
    /\ \A o \in Object \ {Socket} : Tid[o] # Tid[Socket]

VARIABLES own,         \* the fields of own_t of every object
          polled,      \* listeners and connecters that wait for an event
          engine,      \* sessions that have an engine
          pending,     \* sessions that wait for their pipes before they go
          pipe,        \* the current pipe of a session, or None
          pstate,      \* the state of the two ends of every pipe
          psession,    \* the session a pipe was made for, or None
          endpoints,   \* what term_endpoint () of the socket can find: an
                       \* object, and the pipe zmq_connect made for it or None
          closed,      \* zmq_close () has been called
          immediate,   \* the socket's ZMQ_IMMEDIATE
          mailbox,     \* the commands waiting for each thread
          todo,        \* what a thread still has to do in its handler
          failed       \* the zmq_asserts that have failed

lvars == <<polled, engine, pending>>
evars == <<pipe, pstate, psession>>
svars == <<endpoints, closed, immediate>>
vars == <<own, lvars, evars, svars, mailbox, todo, failed>>

\* The states of one end of a pipe; delimiter_received is folded into active.
PState == {"none", "unbound", "active", "waiting_for_delimiter", "term_ack_sent",
           "term_req_sent1", "term_req_sent2", "gone"}

\* own_t's constructor.
own_t == [life |-> "live", owner |-> None, terminating |-> FALSE, sent_seqnum |-> 0,
          processed_seqnum |-> 0, owned |-> {}, term_acks |-> 0]

Init == /\ own = [o \in Object |-> [own_t EXCEPT !.life = IF o = Socket THEN "live" ELSE "none"]]
        /\ polled = {} /\ engine = {} /\ pending = {}
        /\ pipe = [s \in Session |-> None]
        /\ pstate = [e \in Pipe \X {"socket", "session"} |-> "none"]
        /\ psession = [p \in Pipe |-> None]
        /\ endpoints = {} /\ closed = FALSE /\ immediate \in Immediate
        /\ mailbox = [t \in Thread |-> <<>>]
        /\ todo = [t \in Thread |-> <<>>]
        /\ failed = {}
-----------------------------------------------------------------------------
(* What a handler does to other objects *)

inc_seqnum(o) == [op |-> "inc", to |-> o]
send_command(o, type, a) == [op |-> "send", to |-> o, type |-> type, arg |-> a, inc |-> 0]
send_announced(o, type, a) == [send_command(o, type, a) EXCEPT !.inc = 1]
check_acks(o) == [op |-> "check", to |-> o]
delete(o) == [op |-> "delete", to |-> o]

\* The commands that process_seqnum () follows.
SeqCommand == {"plug", "own", "attach", "bind"}
CommandType == SeqCommand \cup {"term_req", "term", "term_ack", "hiccup", "pipe_term", "pipe_term_ack"}

Idle(t) == todo[t] = <<>>

\* The object o handles the command 'type' at the head of its thread's mailbox.
Handles(o, type) ==
    /\ Idle(Tid[o]) /\ mailbox[Tid[o]] # <<>>
    /\ Head(mailbox[Tid[o]]).to = o /\ Head(mailbox[Tid[o]]).type = type

arg(o) == Head(mailbox[Tid[o]]).arg

\* Take the command; what is left to do to the others are 'steps'.
Handled(o, steps) ==
    /\ mailbox' = [mailbox EXCEPT ![Tid[o]] = Tail(@)]
    /\ todo' = [todo EXCEPT ![Tid[o]] = steps]

\* The object o acts on an event that is not a command.
Acts(o, steps) ==
    /\ todo' = [todo EXCEPT ![Tid[o]] = steps]
    /\ UNCHANGED mailbox

zmq_assert(name, condition) ==
    failed' = IF condition THEN failed ELSE failed \cup {name}
-----------------------------------------------------------------------------
(* own_t *)

process_seqnum(r) == [r EXCEPT !.processed_seqnum = @ + 1]
register_term_acks(r, count) == [r EXCEPT !.term_acks = @ + count]

unregister_term_ack_Twice(r) == [r EXCEPT !.term_acks = @ - 2]
unregister_term_ack(r) == [r EXCEPT !.term_acks = @ - 1]

\* o launches c: the steps, and (Born) the new object.
launch_child(o, c) ==
    <<send_announced(c, "plug", None), send_announced(o, "own", c)>>

Born(o, c) == [own EXCEPT ![c] = [own_t EXCEPT !.owner = o]]
Unborn(c) == own[c].life = "none"

\* own_t::process_term: what it changes, and the steps.
Terminated(r) == [register_term_acks(r, Cardinality(r.owned)) EXCEPT
                    !.owned = {}, !.terminating = TRUE]
process_term(o, r, linger) ==
    SetToSeq({send_command(c, "term", linger) : c \in r.owned}) \o <<check_acks(o)>>

Adopted(r, c) == [r EXCEPT !.owned = @ \cup {c}]

\* Variant that stores a late child even when the owner is going.
process_own_Keeps(o) ==
    /\ Handles(o, "own")
    /\ own' = [own EXCEPT ![o] = process_seqnum(Adopted(@, arg(o)))]
    /\ Handled(o, <<check_acks(o)>>)
    /\ UNCHANGED <<lvars, evars, svars, failed>>

process_own(o) ==
    /\ Handles(o, "own")
    /\ IF own[o].terminating
       THEN /\ own' = [own EXCEPT ![o] = process_seqnum(register_term_acks(@, 1))]
            /\ Handled(o, <<send_command(arg(o), "term", 0), check_acks(o)>>)
       ELSE /\ own' = [own EXCEPT ![o] = process_seqnum(Adopted(@, arg(o)))]
            /\ Handled(o, <<check_acks(o)>>)
    /\ UNCHANGED <<lvars, evars, svars, failed>>

\* Variant that does not take the child out of the owned ones.
TermChild_Keeps(r, c) == register_term_acks(r, 1)

TermChild(r, c) == register_term_acks([r EXCEPT !.owned = @ \ {c}], 1)

process_term_req(o) ==
    /\ Handles(o, "term_req")
    /\ IF own[o].terminating \/ arg(o) \notin own[o].owned
       THEN own' = own /\ Handled(o, <<>>)
       ELSE /\ own' = [own EXCEPT ![o] = TermChild(@, arg(o))]
            /\ Handled(o, <<send_command(arg(o), "term", Linger)>>)
    /\ UNCHANGED <<lvars, evars, svars, failed>>

process_term_ack(o) ==
    /\ Handles(o, "term_ack")
    /\ zmq_assert("term_acks > 0", own[o].term_acks > 0)
    /\ own' = [own EXCEPT ![o] = unregister_term_ack(@)]
    /\ Handled(o, <<check_acks(o)>>)
    /\ UNCHANGED <<lvars, evars, svars>>

\* terminate () of an object that has an owner.
terminate(o) ==
    IF own[o].terminating THEN <<>> ELSE <<send_command(own[o].owner, "term_req", o)>>

\* The steps a thread makes one by one.
do_inc(t) ==
    /\ ~Idle(t) /\ Head(todo[t]).op = "inc"
    /\ own' = [own EXCEPT ![Head(todo[t]).to].sent_seqnum = @ + 1]
    /\ todo' = [todo EXCEPT ![t] = Tail(@)]
    /\ UNCHANGED <<lvars, evars, svars, mailbox, failed>>

do_send(t) ==
    /\ ~Idle(t) /\ Head(todo[t]).op = "send"
    /\ LET c == Head(todo[t]) IN
         /\ own' = [own EXCEPT ![c.to].sent_seqnum = @ + c.inc]
         /\ mailbox' = [mailbox EXCEPT ![Tid[c.to]] =
                         Append(@, [to |-> c.to, type |-> c.type, arg |-> c.arg])]
    /\ todo' = [todo EXCEPT ![t] = Tail(@)]
    /\ UNCHANGED <<lvars, evars, svars, failed>>

\* Variant that forgets the commands on their way.
CanGo_NoSeqnum(r) == r.terminating /\ r.term_acks = 0

CanGo(r) == r.terminating /\ r.processed_seqnum = r.sent_seqnum /\ r.term_acks = 0

check_term_acks(t) ==
    /\ ~Idle(t) /\ Head(todo[t]).op = "check"
    /\ LET o == Head(todo[t]).to
           r == own[o]
       IN IF CanGo(r)
          THEN /\ zmq_assert("owned.empty", r.owned = {})
               /\ todo' = [todo EXCEPT ![t] =
                    (IF r.owner = None THEN <<>> ELSE <<send_command(r.owner, "term_ack", None)>>)
                    \o <<delete(o)>> \o Tail(@)]
          ELSE todo' = [todo EXCEPT ![t] = Tail(@)] /\ UNCHANGED failed
    /\ UNCHANGED <<own, lvars, evars, svars, mailbox>>

\* delete this; a session asserts that it has no pipe and closes its engine.
process_destroy(t) ==
    /\ ~Idle(t) /\ Head(todo[t]).op = "delete"
    /\ LET o == Head(todo[t]).to IN
         /\ own' = [own EXCEPT ![o].life = "deleted"]
         /\ engine' = engine \ {o}
         /\ zmq_assert("!pipe", o \in Session => pipe[o] = None)
    /\ todo' = [todo EXCEPT ![t] = Tail(@)]
    /\ UNCHANGED <<polled, pending, evars, svars, mailbox>>
-----------------------------------------------------------------------------
(* One end x of the pipe p: the life cycle only *)

Peer(x) == IF x = "socket" THEN "session" ELSE "socket"
Sink(p, x) == IF x = "socket" THEN Socket ELSE psession[p]
Side(o) == IF o = Socket THEN "socket" ELSE "session"
Tell(p, x, type) == <<send_command(Sink(p, Peer(x)), type, p)>>

\* pipe_t::terminate: the new state of an end, and the steps.
PTerminated(st, delay) ==
    CASE st = "active" -> "term_req_sent1"
      [] st = "waiting_for_delimiter" /\ ~delay -> "term_ack_sent"
      [] OTHER -> st
pipe_terminate(p, x, delay) ==
    CASE pstate[<<p, x>>] = "active" -> Tell(p, x, "pipe_term")
      [] pstate[<<p, x>>] = "waiting_for_delimiter" /\ ~delay -> Tell(p, x, "pipe_term_ack")
      [] OTHER -> <<>>

\* The end either has read the delimiter already or waits for it.
process_pipe_term(o) ==
    /\ Handles(o, "pipe_term")
    /\ LET p == arg(o)
           x == Side(o)
       IN /\ zmq_assert("pipe_term", pstate[<<p, x>>] \in {"active", "term_req_sent1"})
          /\ IF pstate[<<p, x>>] = "term_req_sent1"
             THEN /\ pstate' = [pstate EXCEPT ![<<p, x>>] = "term_req_sent2"]
                  /\ Handled(o, Tell(p, x, "pipe_term_ack"))
             ELSE \/ /\ pstate' = [pstate EXCEPT ![<<p, x>>] = "term_ack_sent"]
                     /\ Handled(o, Tell(p, x, "pipe_term_ack"))
                  \/ /\ pstate' = [pstate EXCEPT ![<<p, x>>] = "waiting_for_delimiter"]
                     /\ Handled(o, <<>>)
    /\ UNCHANGED <<own, lvars, svars, pipe, psession>>

\* The delimiter is read, or the session's linger timer stops the waiting.
process_delimiter(p, x) ==
    /\ pstate[<<p, x>>] = "waiting_for_delimiter"
    /\ Idle(Tid[Sink(p, x)])
    /\ pstate' = [pstate EXCEPT ![<<p, x>>] = "term_ack_sent"]
    /\ Acts(Sink(p, x), Tell(p, x, "pipe_term_ack"))
    /\ UNCHANGED <<own, lvars, svars, pipe, psession, failed>>

\* With ZMQ_IMMEDIATE a hiccup makes the socket terminate its end.
process_hiccup ==
    /\ Handles(Socket, "hiccup")
    /\ LET p == arg(Socket) IN
         /\ pstate' = [pstate EXCEPT ![<<p, "socket">>] =
                         IF @ = "active" THEN PTerminated(@, FALSE) ELSE @]
         /\ Handled(Socket, IF pstate[<<p, "socket">>] = "active"
                            THEN pipe_terminate(p, "socket", FALSE) ELSE <<>>)
    /\ UNCHANGED <<own, lvars, svars, pipe, psession, failed>>

\* The sink is told that the pipe is gone before the last answer to the peer.
LastAnswer(p, x) ==
    IF pstate[<<p, x>>] = "term_req_sent1" THEN Tell(p, x, "pipe_term_ack") ELSE <<>>
AckExpected(p, x) ==
    pstate[<<p, x>>] \in {"term_req_sent1", "term_ack_sent", "term_req_sent2"}

\* The pipes of session s that are not gone, apart from the ones in P.
OtherPipes(s, P) ==
    {q \in Pipe \ P : psession[q] = s /\ pstate[<<q, "session">>] \notin {"none", "gone"}}

\* The session of a socket that is not raw.
pipe_terminated_session(s) ==
    /\ s \in Session /\ Handles(s, "pipe_term_ack")
    /\ LET p == arg(s)
           last == s \in pending /\ OtherPipes(s, {p}) = {}
       IN /\ zmq_assert("pipe_term_ack", AckExpected(p, "session"))
          /\ pstate' = [pstate EXCEPT ![<<p, "session">>] = "gone"]
          /\ pipe' = [pipe EXCEPT ![s] = IF @ = p THEN None ELSE @]
          /\ pending' = IF last THEN pending \ {s} ELSE pending
          /\ own' = IF last THEN [own EXCEPT ![s] = Terminated(@)] ELSE own
          /\ Handled(s, (IF last THEN process_term(s, own[s], 0) ELSE <<>>)
                        \o LastAnswer(p, "session"))
    /\ UNCHANGED <<polled, engine, svars, psession>>

pipe_terminated_socket ==
    /\ Handles(Socket, "pipe_term_ack")
    /\ LET p == arg(Socket) IN
         /\ zmq_assert("pipe_term_ack",
              /\ AckExpected(p, "socket")
              /\ own[Socket].terminating => own[Socket].term_acks > 0)
         /\ pstate' = [pstate EXCEPT ![<<p, "socket">>] = "gone"]
         /\ IF own[Socket].terminating
            THEN /\ own' = [own EXCEPT ![Socket] = unregister_term_ack(@)]
                 /\ Handled(Socket, <<check_acks(Socket)>> \o LastAnswer(p, "socket"))
            ELSE own' = own /\ Handled(Socket, LastAnswer(p, "socket"))
    /\ UNCHANGED <<lvars, svars, pipe, psession>>
-----------------------------------------------------------------------------
(* tcp_listener_t and its relatives *)

process_plug_listener(l) ==
    /\ l \in Listener /\ Handles(l, "plug")
    /\ polled' = polled \cup {l}
    /\ own' = [own EXCEPT ![l] = process_seqnum(@)]
    /\ Handled(l, <<check_acks(l)>>)
    /\ UNCHANGED <<engine, pending, evars, svars, failed>>

\* Variant that does not announce the engine to the session.
in_event_Unannounced(l, a) ==
    /\ l \in polled /\ Idle(Tid[l]) /\ Unborn(a)
    /\ own' = Born(l, a)
    /\ Acts(l, launch_child(l, a) \o <<send_command(a, "attach", None)>>)
    /\ UNCHANGED <<lvars, evars, svars, failed>>

\* A connection is accepted.
in_event(l, a) ==
    /\ l \in polled /\ Idle(Tid[l]) /\ Unborn(a)
    /\ own' = Born(l, a)
    /\ Acts(l, <<inc_seqnum(a)>> \o launch_child(l, a) \o <<send_command(a, "attach", None)>>)
    /\ UNCHANGED <<lvars, evars, svars, failed>>

process_term_listener(l) ==
    /\ l \in Listener /\ Handles(l, "term")
    /\ zmq_assert("!terminating", ~own[l].terminating)
    /\ polled' = polled \ {l}
    /\ own' = [own EXCEPT ![l] = Terminated(@)]
    /\ Handled(l, process_term(l, own[l], arg(l)))
    /\ UNCHANGED <<engine, pending, evars, svars>>
-----------------------------------------------------------------------------
(* tcp_connecter_t and its relatives: retries change nothing here *)

process_plug_connecter(c) ==
    /\ c \in Connecter /\ Handles(c, "plug")
    /\ polled' = polled \cup {c}
    /\ own' = [own EXCEPT ![c] = process_seqnum(@)]
    /\ Handled(c, <<check_acks(c)>>)
    /\ UNCHANGED <<engine, pending, evars, svars, failed>>

\* The connection is there: hand the engine over and ask to be terminated.
out_event(c) ==
    /\ c \in Connecter \cap polled /\ Idle(Tid[c])
    /\ polled' = polled \ {c}
    /\ Acts(c, <<inc_seqnum(own[c].owner), send_command(own[c].owner, "attach", None)>>
               \o terminate(c))
    /\ UNCHANGED <<own, engine, pending, evars, svars, failed>>

process_term_connecter(c) ==
    /\ c \in Connecter /\ Handles(c, "term")
    /\ zmq_assert("!terminating", ~own[c].terminating)
    /\ polled' = polled \ {c}
    /\ own' = [own EXCEPT ![c] = Terminated(@)]
    /\ Handled(c, process_term(c, own[c], arg(c)))
    /\ UNCHANGED <<engine, pending, evars, svars>>
-----------------------------------------------------------------------------
(* session_base_t *)

process_plug_accepted(s) ==
    /\ s \in Accepted /\ Handles(s, "plug")
    /\ own' = [own EXCEPT ![s] = process_seqnum(@)]
    /\ Handled(s, <<check_acks(s)>>)
    /\ UNCHANGED <<lvars, evars, svars, failed>>

\* start_connecting () makes a connecter, in an I/O thread it may choose.
CanConnect(s) == \E c \in Connecter : Unborn(c) /\ Tid[c] \in Affinity[s]
NewConnecter(s) == CHOOSE c \in Connecter : Unborn(c) /\ Tid[c] \in Affinity[s]

\* An active session starts connecting.
process_plug_connected(s) ==
    /\ s \in Connected /\ Handles(s, "plug")
    /\ CanConnect(s)
    /\ own' = [Born(s, NewConnecter(s)) EXCEPT ![s] = process_seqnum(@)]
    /\ Handled(s, launch_child(s, NewConnecter(s)) \o <<check_acks(s)>>)
    /\ UNCHANGED <<lvars, evars, svars, failed>>

\* A pipe that is still to be made.
FreePipe == {p \in Pipe : psession[p] = None}
NewPipe == CHOOSE p \in FreePipe : TRUE

\* The pipe is made here when there is none yet.
process_attach(s) ==
    /\ Handles(s, "attach")
    /\ zmq_assert("!engine", s \notin engine)
    /\ engine' = engine \cup {s}
    /\ own' = [own EXCEPT ![s] = process_seqnum(@)]
    /\ IF pipe[s] = None /\ ~own[s].terminating
       THEN LET p == NewPipe
            IN /\ FreePipe # {}
               /\ pipe' = [pipe EXCEPT ![s] = p]
               /\ psession' = [psession EXCEPT ![p] = s]
               /\ pstate' = [pstate EXCEPT ![<<p, "session">>] = "active", ![<<p, "socket">>] = "unbound"]
               /\ Handled(s, <<inc_seqnum(Socket), send_command(Socket, "bind", p), check_acks(s)>>)
       ELSE Handled(s, <<check_acks(s)>>) /\ UNCHANGED evars
    /\ UNCHANGED <<polled, pending, svars>>

\* A protocol error, or an accepted connection that is lost: the session goes.
engine_error_terminates(s) ==
    /\ s \in engine /\ Idle(Tid[s])
    /\ engine' = engine \ {s}
    /\ Acts(s, terminate(s))
    /\ UNCHANGED <<own, polled, pending, evars, svars, failed>>

\* A connection is lost: with ZMQ_IMMEDIATE the session gives up its pipe, and
\* unless the reconnect interval is -1 (or no connecter is left to the model)
\* it starts connecting again.
reconnect(s, again) ==
    /\ s \in engine \cap Connected /\ Idle(Tid[s])
    /\ engine' = engine \ {s}
    /\ LET p == pipe[s]
           drop == p # None /\ immediate
           hiccup == IF drop /\ pstate[<<p, "session">>] = "active"
                     THEN <<send_command(Socket, "hiccup", p)>> ELSE <<>>
           leave == IF drop THEN hiccup \o pipe_terminate(p, "session", FALSE) ELSE <<>>
       IN /\ pipe' = [pipe EXCEPT ![s] = IF drop THEN None ELSE @]
          /\ pstate' = IF drop THEN [pstate EXCEPT ![<<p, "session">>] = PTerminated(@, FALSE)]
                       ELSE pstate
          /\ IF again
             THEN /\ own' = Born(s, NewConnecter(s))
                  /\ Acts(s, leave \o launch_child(s, NewConnecter(s)))
             ELSE own' = own /\ Acts(s, leave)
    /\ UNCHANGED <<polled, pending, svars, psession, failed>>

process_term_session(s) ==
    /\ s \in Session /\ Handles(s, "term")
    /\ IF OtherPipes(s, {}) = {}
       THEN /\ zmq_assert("!terminating", s \notin pending /\ ~own[s].terminating)
            /\ own' = [own EXCEPT ![s] = Terminated(@)]
            /\ Handled(s, process_term(s, own[s], 0))
            /\ UNCHANGED <<pending, pstate>>
       ELSE /\ zmq_assert("!pending", s \notin pending)
            /\ pending' = pending \cup {s}
            /\ IF pipe[s] = None
               THEN pstate' = pstate /\ Handled(s, <<>>)
               ELSE /\ pstate' = [pstate EXCEPT ![<<pipe[s], "session">>] =
                                    PTerminated(@, arg(s) # 0)]
                    /\ Handled(s, pipe_terminate(pipe[s], "session", arg(s) # 0))
            /\ UNCHANGED own
    /\ UNCHANGED <<polled, engine, pipe, psession, svars>>
-----------------------------------------------------------------------------
(* socket_base_t *)

\* zmq_bind, and zmq_connect, which makes the pipe at once unless ZMQ_IMMEDIATE.
add_endpoint(o) ==
    /\ o \in Listener \cup Connected /\ Unborn(o)
    /\ Cardinality({e \in Listener \cup Connected : ~Unborn(e)}) < MaxEndpoints
    /\ ~closed /\ Idle(Tid[Socket])
    /\ own' = Born(Socket, o)
    /\ Acts(Socket, launch_child(Socket, o))
    /\ IF o \in Connected /\ ~immediate
       THEN LET p == NewPipe
            IN /\ FreePipe # {}
               /\ endpoints' = endpoints \cup {<<o, p>>}
               /\ pipe' = [pipe EXCEPT ![o] = p]
               /\ psession' = [psession EXCEPT ![p] = o]
               /\ pstate' = [pstate EXCEPT ![<<p, "session">>] = "active", ![<<p, "socket">>] = "active"]
       ELSE endpoints' = endpoints \cup {<<o, None>>} /\ UNCHANGED evars
    /\ UNCHANGED <<lvars, closed, immediate, mailbox, failed>>

\* zmq_disconnect and zmq_unbind, after all pending commands are processed.
\* 'endpoints' keeps the pointer of a pipe that is gone when the session went by
\* itself; a call that would use it is left out.
term_endpoint(o, p) ==
    /\ <<o, p>> \in endpoints /\ ~closed
    /\ Idle(Tid[Socket]) /\ mailbox[Tid[Socket]] = <<>>
    /\ endpoints' = endpoints \ {<<o, p>>}
    /\ p # None => pstate[<<p, "socket">>] # "gone"
    /\ pstate' = IF p = None THEN pstate ELSE [pstate EXCEPT ![<<p, "socket">>] = PTerminated(@, FALSE)]
    /\ LET first == IF p = None THEN <<>> ELSE pipe_terminate(p, "socket", FALSE)
       IN IF o \in own[Socket].owned
          THEN /\ own' = [own EXCEPT ![Socket] = TermChild(@, o)]
               /\ Acts(Socket, first \o <<send_command(o, "term", Linger)>>)
          ELSE own' = own /\ Acts(Socket, first)
    /\ UNCHANGED <<lvars, pipe, psession, closed, immediate, failed>>

process_bind ==
    /\ Handles(Socket, "bind")
    /\ LET p == arg(Socket)
           last == own[Socket].terminating
       IN /\ pstate' = [pstate EXCEPT ![<<p, "socket">>] =
                          IF last THEN PTerminated("active", FALSE) ELSE "active"]
          /\ own' = [own EXCEPT ![Socket] =
                       process_seqnum(IF last THEN register_term_acks(@, 1) ELSE @)]
          /\ Handled(Socket, (IF last THEN Tell(p, "socket", "pipe_term") ELSE <<>>)
                             \o <<check_acks(Socket)>>)
    /\ UNCHANGED <<lvars, svars, pipe, psession, failed>>

\* The pipes that are attached to the socket.
pipes == {p \in Pipe : pstate[<<p, "socket">>] \notin {"none", "unbound", "gone"}}

\* zmq_close hands the socket to the reaper, which terminates the root.
start_reaping ==
    /\ ~closed /\ Idle(Tid[Socket])
    /\ closed' = TRUE
    /\ pstate' = [e \in DOMAIN pstate |->
                    IF e[1] \in pipes /\ e[2] = "socket" THEN PTerminated(pstate[e], FALSE)
                    ELSE pstate[e]]
    /\ own' = [own EXCEPT ![Socket] = Terminated(register_term_acks(@, Cardinality(pipes)))]
    /\ Acts(Socket, SetToSeq(UNION {Range(pipe_terminate(p, "socket", FALSE)) : p \in pipes})
                    \o process_term(Socket, own[Socket], Linger))
    /\ UNCHANGED <<lvars, pipe, psession, endpoints, immediate, failed>>
-----------------------------------------------------------------------------
\* What goes on by itself once an object has something to do.
Command(o) ==
    \/ process_own(o) \/ process_term_req(o) \/ process_term_ack(o)
    \/ process_pipe_term(o) \/ pipe_terminated_session(o)
    \/ process_plug_listener(o) \/ process_term_listener(o)
    \/ process_plug_connecter(o) \/ process_term_connecter(o)
    \/ process_plug_accepted(o)
    \/ process_plug_connected(o)
    \/ process_attach(o) \/ process_term_session(o)

SocketCommand == process_hiccup \/ pipe_terminated_socket \/ process_bind

Step(t) == do_inc(t) \/ do_send(t) \/ check_term_acks(t) \/ process_destroy(t)

Runs(t) == \/ Step(t)
           \/ \E o \in Object : Tid[o] = t /\ Command(o)
           \/ t = Tid[Socket] /\ SocketCommand

Api == \/ start_reaping
       \/ \E o \in Listener \cup Connected :
             add_endpoint(o) \/ \E p \in Pipe \cup {None} : term_endpoint(o, p)

Network ==
    \/ \E l \in Listener, a \in Accepted : in_event(l, a)
    \/ \E c \in Connecter : out_event(c)
    \/ \E s \in Session : engine_error_terminates(s) \/ reconnect(s, FALSE)
    \/ \E s \in Session : CanConnect(s) /\ reconnect(s, TRUE)

Next == \/ \E t \in Thread : Runs(t)
        \/ \E p \in Pipe, x \in {"socket", "session"} : process_delimiter(p, x)
        \/ Api
        \/ Network

Spec == Init /\ [][Next]_vars

-----------------------------------------------------------------------------
TypeOK ==
    /\ own \in [Object -> [life: {"none", "live", "deleted"}, owner: Object \cup {None},
                           terminating: BOOLEAN, sent_seqnum: Nat, processed_seqnum: Nat,
                           owned: SUBSET Object, term_acks: Nat]]
    /\ polled \subseteq Listener \cup Connecter
    /\ engine \subseteq Session /\ pending \subseteq Session
    /\ pipe \in [Session -> Pipe \cup {None}]
    /\ pstate \in [Pipe \X {"socket", "session"} -> PState]
    /\ psession \in [Pipe -> Session \cup {None}]
    /\ endpoints \subseteq (Listener \cup Connected) \X (Pipe \cup {None})
    /\ closed \in BOOLEAN /\ immediate \in Immediate

\* None of the assertions of the termination protocol fails: no object is
\* terminated twice, no acknowledgement comes that nobody waits for, an object
\* that goes has no child and no pipe left, a session never has two engines,
\* and a pipe gets its termination commands in the right states.
AssertionsHold == failed = {}

\* The commands for o with a type in T that wait in o's mailbox, ...
Queued(o, T) ==
    {i \in DOMAIN mailbox[Tid[o]] : mailbox[Tid[o]][i].to = o /\ mailbox[Tid[o]][i].type \in T}

\* ... those that a thread is about to send, and the announcements it is about
\* to make.
Steps == UNION {{t} \X DOMAIN todo[t] : t \in Thread}
StepAt(x) == todo[x[1]][x[2]]
Planned(o, T) ==
    {x \in Steps : StepAt(x).to = o /\ StepAt(x).op = "send" /\ StepAt(x).type \in T}
Announced(o) ==
    {x \in Steps : StepAt(x).to = o /\ (StepAt(x).op = "inc"
                             \/ (StepAt(x).op = "send" /\ StepAt(x).inc = 1))}

\* The two counters of a living object always account for the commands on
\* their way to it: what is announced and not processed is in its thread's
\* mailbox, or is still to be sent by whoever announced it.  In particular a
\* command never overtakes its announcement.
SeqnumsMatch ==
    \A o \in Object : own[o].life = "live" =>
      own[o].sent_seqnum + Cardinality(Announced(o))
        = own[o].processed_seqnum + Cardinality(Queued(o, SeqCommand))
                                  + Cardinality(Planned(o, SeqCommand))

\* The parts of the termination protocol that concern living objects: the
\* assertions of its handlers, and the counters that decide when an object may
\* be deleted (own_t::check_term_acks).
OwnershipSound == TypeOK /\ AssertionsHold /\ SeqnumsMatch

\* Deleted objects are left alone: no command is on its way to one, no thread
\* is about to send it one or to increment its counter, none of its children
\* is alive (though one may be in the middle of its deletion), and no pipe has
\* an end in it.
NoUseAfterDelete ==
    \A o \in Object : own[o].life = "deleted" =>
      /\ Queued(o, CommandType) = {} /\ Planned(o, CommandType) = {} /\ Announced(o) = {}
      /\ \A c \in Object : own[c].owner = o =>
           own[c].life = "deleted" \/ delete(c) \in Range(todo[Tid[c]])
      /\ o # Socket => OtherPipes(o, {}) = {}
      /\ o = Socket => \A p \in Pipe : pstate[<<p, "socket">>] \in {"none", "gone"}

\* Closing never hangs: when the application has closed the socket and no
\* thread has a command or a step left and no session waits for a delimiter,
\* nothing that was created is left.  (The objects, and so the steps, of a
\* behaviour are bounded: the tree is always taken down.)
NoHang ==
    /\ closed
    /\ \A t \in Thread : mailbox[t] = <<>> /\ todo[t] = <<>>
    /\ \A p \in Pipe : pstate[<<p, "session">>] # "waiting_for_delimiter"
    => \A o \in Object : own[o].life # "live"
=============================================================================
