----------------------------- MODULE Endpoints -----------------------------
(***************************************************************************)
(* The addresses of one socket: socket_base_t::bind, connect and           *)
(* term_endpoint, and the maps 'endpoints' (listeners and sessions with    *)
(* the pipe that leads to them) and 'inprocs' (pipes to sockets of the     *)
(* same context).  The build has every transport.                          *)
(*                                                                         *)
(* An address is [scheme, proto, addr]: whether it has "://", and what is  *)
(* before and after it.  What comes after is "" or "junk" (no transport    *)
(* takes it), "any" (the system is to choose), "name" (a host that         *)
(* resolves to the first of Places), or one of Places, as it is once       *)
(* resolved.                                                               *)
(***************************************************************************)
EXTENDS Integers, Sequences, FiniteSets

CONSTANTS SocketTypes,   \* types of socket, each with the addresses it is asked to use
          Places,        \* what addresses resolve to, in the order of choice
          MaxMade        \* children and pipes of one behaviour

VARIABLES type,        \* of the socket, its option 'immediate', whether there is an I/O thread for
                       \*   it, and what the application passes
          ctx,         \* "runs", "stopping" (the command is on its way), "terminated", or "closed"
          endpoints,   \* entries [key, obj, pipe]: pipe is FALSE for a child without one
          inprocs,     \* entries [key, obj]
          names,       \* inproc names in the context and whose they are
          owned,       \* the children that run: [obj, place], and no place for a session
          closing,     \* children told to end
          pipes,       \* the pipes of the socket that are not told to end
          last,        \* last_endpoint
          made,        \* children and pipes there have been
          told,        \* what a successful bind or connect has told the application to be open
          rc,          \* what the latest call returned
          dangling     \* a pipe that is gone has been used: nothing is known from here on

evars == <<type, ctx, endpoints, inprocs, names, owned, closing, pipes, last, made, told, rc, dangling>>

Uri(proto, addr) == [scheme |-> TRUE, proto |-> proto, addr |-> addr]
None == Uri("", "")
Nowhere == None          \* the place of a session

Init ==
    /\ type \in SocketTypes
    /\ ctx = "runs"
    /\ endpoints = {} /\ inprocs = {}
    /\ names \in [{u.addr : u \in {x \in type.uris : x.proto = "inproc"}} -> {"nobody", "another"}]
    /\ owned = {} /\ closing = {} /\ pipes = {}
    /\ last = None /\ made = 0 /\ told = {} /\ rc = "ok" /\ dangling = FALSE
-----------------------------------------------------------------------------
(* What every call looks at first. *)

Multicast == {"pgm", "epgm", "norm"}
Listening == {"tcp", "ipc", "tipc", "vmci"}
Protocols == Multicast \cup Listening \cup {"inproc", "udp"}

parse_uri(u) == u.scheme /\ u.proto # "" /\ u.addr # ""

check_protocol(u) ==
    CASE u.proto \notin Protocols -> "EPROTONOSUPPORT"
      [] u.proto \in Multicast /\ type.name \notin {"PUB", "SUB", "XPUB", "XSUB"} -> "ENOCOMPATPROTO"
      [] u.proto = "udp" /\ type.name \notin {"DISH", "RADIO", "DGRAM"} -> "ENOCOMPATPROTO"
      [] OTHER -> "ok"

Refusal(u) == CASE ctx # "runs" -> "ETERM"
                [] ctx = "runs" /\ ~parse_uri(u) -> "EINVAL"
                [] OTHER -> check_protocol(u)

\* A call that fails may have processed the command that stops the socket.
Fails(errno) ==
    /\ rc' = errno
    /\ ctx' = IF ctx = "stopping" THEN "terminated" ELSE ctx
    /\ UNCHANGED <<type, endpoints, inprocs, names, owned, closing, pipes, last, made, told, dangling>>

\* No thread for the socket's affinity.
choose_io_thread_fails == ~type.io

\* launch_child () and the entry by which the child can be found again.
add_endpoint(key, place, withPipe) ==
    /\ made' = made + 1
    /\ owned' = owned \cup {[obj |-> made', place |-> place]}
    /\ endpoints' = endpoints \cup {[key |-> key, obj |-> made', pipe |-> withPipe]}
    /\ pipes' = IF withPipe THEN pipes \cup {made'} ELSE pipes
-----------------------------------------------------------------------------
(* connect () *)

\* A pipe to the socket that is bound to the name, or one that waits for it.
connect_inproc(u) ==
    /\ made' = made + 1
    /\ pipes' = pipes \cup {made'}
    /\ inprocs' = inprocs \cup {[key |-> u, obj |-> made']}
    /\ last' = u /\ rc' = "ok"
    /\ UNCHANGED <<type, ctx, endpoints, names, owned, closing, told, dangling>>

is_single_connect == type.name \in {"DEALER", "SUB", "REQ"}
Found(u) == \E e \in endpoints : e.key = u

\* The address can be told to be wrong before anything is made.
SyntaxOk(u) == CASE u.proto = "tcp"  -> u.addr \notin {"any", "junk"}
                 [] u.proto = "norm" -> TRUE
                 [] OTHER            -> u.addr # "junk"

SessionErrno(u) == CASE choose_io_thread_fails -> "EMTHREAD"
                     [] u.proto = "udp" /\ type.name # "RADIO" /\ ~choose_io_thread_fails -> "ENOCOMPATPROTO"
                     [] OTHER -> IF SyntaxOk(u) THEN "ok" ELSE "EINVAL"

subscribe_to_all(u) == u.proto \in Multicast \cup {"udp"}

\* to_string () of a UDP address leaves the protocol out.
Name(u) == IF u.proto = "udp" THEN [u EXCEPT !.scheme = FALSE] ELSE u

connect_session(u) ==
    /\ add_endpoint(u, Nowhere, ~type.immediate \/ subscribe_to_all(u))
    /\ last' = Name(u) /\ rc' = "ok"
    /\ told' = told \cup {u}
    /\ UNCHANGED <<type, ctx, inprocs, names, closing, dangling>>

\* A type that may not connect twice to an address does nothing the second time.
connect_transport(u) ==
    IF is_single_connect /\ Found(u)
    THEN /\ rc' = "ok"
         /\ UNCHANGED <<type, ctx, endpoints, inprocs, names, owned, closing, pipes, last, made, told, dangling>>
    ELSE IF SessionErrno(u) # "ok" THEN Fails(SessionErrno(u))
    ELSE connect_session(u)

connect(u) ==
    IF Refusal(u) # "ok" THEN Fails(Refusal(u))
    ELSE IF u.proto = "inproc" THEN connect_inproc(u) ELSE connect_transport(u)
-----------------------------------------------------------------------------
(* bind () *)

bind_inproc(u) ==
    IF names[u.addr] # "nobody" THEN Fails("EADDRINUSE")
    ELSE /\ names' = [names EXCEPT ![u.addr] = "self"]
         /\ last' = u /\ rc' = "ok"
         /\ told' = told \cup {u}
         /\ UNCHANGED <<type, ctx, endpoints, inprocs, owned, closing, pipes, made, dangling>>

\* The session is made at once: the socket is bound when the engine is plugged in.
bind_udp(u) ==
    IF type.name \notin {"DGRAM", "DISH"} THEN Fails("ENOCOMPATPROTO")
    ELSE IF choose_io_thread_fails THEN Fails("EMTHREAD")
    ELSE IF u.addr = "junk" THEN Fails("EINVAL")
    ELSE /\ add_endpoint(u, Nowhere, TRUE)
         /\ last' = Name(u) /\ rc' = "ok"
         /\ told' = told \cup {u}
         /\ UNCHANGED <<type, ctx, inprocs, names, closing, dangling>>

Taken(proto) == {c.place : c \in {x \in owned \cup closing : x.place # Nowhere /\ x.place.proto = proto}}

\* Where a listener can be: nowhere when the place is taken or there is none.
Local(u) == {p \in {Uri(u.proto, Places[i]) : i \in DOMAIN Places} :
                /\ p \notin Taken(u.proto)
                /\ CASE u.addr = "any"  -> TRUE
                     [] u.addr = "name" -> p.addr = Places[1]
                     [] OTHER           -> p.addr = u.addr}

\* Variant that enters every listener under the address it was given.
bind_listener_AsGiven(u) ==
    IF choose_io_thread_fails THEN Fails("EMTHREAD")
    ELSE IF Local(u) = {} THEN Fails("EADDRINUSE")
    ELSE \E p \in Local(u) :
         /\ add_endpoint(u, p, FALSE)
         /\ last' = p /\ rc' = "ok"
         /\ told' = told \cup {IF u.proto = "tipc" THEN u ELSE p}
         /\ UNCHANGED <<type, ctx, inprocs, names, closing, dangling>>

\* set_address () of the listener, and the address it reports.  The entry of a
\* TIPC listener has the address that was given, every other the one reported.
bind_listener(u) ==
    IF choose_io_thread_fails THEN Fails("EMTHREAD")
    ELSE IF Local(u) = {} THEN Fails("EADDRINUSE")
    ELSE \E p \in Local(u) :
         /\ add_endpoint(IF u.proto = "tipc" THEN u ELSE p, p, FALSE)
         /\ last' = p /\ rc' = "ok"
         /\ told' = told \cup {IF u.proto = "tipc" THEN u ELSE p}
         /\ UNCHANGED <<type, ctx, inprocs, names, closing, dangling>>

\* For the multicast transports bind () is connect ().
bind(u) ==
    IF Refusal(u) # "ok" THEN Fails(Refusal(u))
    ELSE CASE u.proto = "inproc"     -> bind_inproc(u)
           [] u.proto \in Multicast  -> connect_transport(u)
           [] u.proto = "udp"        -> bind_udp(u)
           [] OTHER                  -> bind_listener(u)
-----------------------------------------------------------------------------
(* term_endpoint (): zmq_unbind and zmq_disconnect. *)

\* A name that is bound goes first, and only then the pipes to it.
term_inproc(u) ==
    IF names[u.addr] = "self"
    THEN /\ names' = [names EXCEPT ![u.addr] = "nobody"]
         /\ rc' = "ok" /\ told' = told \ {u}
         /\ UNCHANGED <<type, ctx, endpoints, inprocs, owned, closing, pipes, last, made, dangling>>
    ELSE LET range == {e \in inprocs : e.key = u}
         IN  IF range = {} THEN Fails("ENOENT")
             ELSE /\ pipes' = pipes \ {e.obj : e \in range}
                  /\ inprocs' = inprocs \ range
                  /\ rc' = "ok"
                  /\ UNCHANGED <<type, ctx, endpoints, names, owned, closing, last, made, told, dangling>>

\* A TCP address that is no key is resolved, first as one of a peer.
Resolved(u) ==
    IF u.proto = "tcp" /\ ~Found(u) /\ u.addr = "name" THEN Uri("tcp", Places[1]) ELSE u

term_session(u) ==
    LET range == {e \in endpoints : e.key = Resolved(u)}
        gone == {e.obj : e \in range}
    IN  IF range = {} THEN Fails("ENOENT")
        ELSE /\ dangling' = \E e \in range : e.pipe /\ e.obj \notin pipes
             /\ pipes' = pipes \ gone
             /\ closing' = closing \cup {c \in owned : c.obj \in gone}
             /\ owned' = {c \in owned : c.obj \notin gone}
             /\ endpoints' = endpoints \ range
             /\ rc' = "ok"
             /\ told' = told \ {Resolved(u)}
             /\ UNCHANGED <<type, ctx, inprocs, names, last, made>>

term_endpoint(u) ==
    IF Refusal(u) # "ok" THEN Fails(Refusal(u))
    ELSE IF u.proto = "inproc" THEN term_inproc(u) ELSE term_session(u)
-----------------------------------------------------------------------------
(* What the rest of the system does. *)

\* zmq_ctx_term sends the command that stops the socket.
stop == ctx = "runs" /\ ctx' = "stopping"
        /\ UNCHANGED <<type, endpoints, inprocs, names, owned, closing, pipes, last, made, told, rc, dangling>>

unregister_endpoints ==
    names' = [a \in DOMAIN names |-> IF names[a] = "self" THEN "nobody" ELSE names[a]]

\* The socket is closed and its reaper ends it: its names go first, so that nobody
\* makes a pipe to it any more, then its pipes, then its children.
process_term ==
    /\ ctx # "closed" /\ ctx' = "closed"
    /\ unregister_endpoints
    /\ pipes' = {}
    /\ closing' = closing \cup owned /\ owned' = {}
    /\ told' = {}
    /\ UNCHANGED <<type, endpoints, inprocs, last, made, rc, dangling>>

\* A child has closed its descriptor and is gone.
child_gone(c) ==
    /\ c \in closing
    /\ closing' = closing \ {c}
    /\ UNCHANGED <<type, ctx, endpoints, inprocs, names, owned, pipes, last, made, told, rc, dangling>>

\* The other end of a pipe of 'inprocs' has ended it.
pipe_terminated(p) ==
    /\ \E e \in inprocs : e.obj = p
    /\ pipes' = pipes \ {p}
    /\ inprocs' = {e \in inprocs : e.obj # p}
    /\ UNCHANGED <<type, ctx, endpoints, names, owned, closing, last, made, told, rc, dangling>>

\* A session ends by itself after an error of the protocol, and its pipe with it.
\* Its entry stays, and so does the pointer to the pipe.
session_ends(c) ==
    /\ c \in owned /\ c.place = Nowhere
    /\ owned' = owned \ {c}
    /\ pipes' = pipes \ {c.obj}
    /\ UNCHANGED <<type, ctx, endpoints, inprocs, names, closing, last, made, told, rc, dangling>>

Next ==
    /\ ~dangling
    /\ \/ made < MaxMade /\ \E u \in type.uris : bind(u) \/ connect(u)
       \/ ctx # "closed" /\ \E u \in type.uris \cup {last} : term_endpoint(u)
       \/ stop \/ process_term
       \/ \E c \in closing : child_gone(c)
       \/ \E p \in pipes : pipe_terminated(p)
       \/ \E c \in owned : session_ends(c)

Spec == Init /\ [][Next]_evars
-----------------------------------------------------------------------------
\* Nothing that runs is out of reach: every listener and every session of the
\* socket has one entry, no child under two keys, and the pipe of a session that
\* runs and was given one is the socket's.
NothingLost ==
    /\ \A c \in owned : Cardinality({e \in endpoints : e.obj = c.obj}) = 1
    /\ \A e \in endpoints : (\E c \in owned : c.obj = e.obj) /\ e.pipe => e.obj \in pipes
    /\ ctx # "closed" => {e.obj : e \in inprocs} \subseteq pipes
    /\ ctx = "closed" => owned = {} /\ pipes = {} /\ \A a \in DOMAIN names : names[a] # "self"
    /\ \A p \in pipes : \E e \in endpoints \cup inprocs : e.obj = p

\* What the application was told to be open it can close: term_endpoint () does
\* not say ENOENT to a name that bind () or connect () left in ZMQ_LAST_ENDPOINT
\* (TCP, IPC and VMCI) or was given (the others), until it has been closed.
WhatIsOpenCloses ==
    \A u \in told : IF u.proto = "inproc" THEN names[u.addr] = "self" ELSE Found(Resolved(u))

\* Two listeners are never at one place, and a type that may not connect twice
\* to an address has no two sessions for one.
OneEach ==
    /\ \A c, d \in owned \cup closing : c # d /\ c.place # Nowhere => c.place # d.place
    /\ is_single_connect /\ ctx # "closed" =>
          \A e, f \in endpoints : e.key = f.key /\ e # f =>
              \E c \in owned : c.obj \in {e.obj, f.obj} /\ c.place # Nowhere

EndpointsSound == NothingLost /\ WhatIsOpenCloses /\ OneEach
=============================================================================
