------------------------------ MODULE Listener ------------------------------
(***************************************************************************)
(* The listeners of a socket: tcp, ipc, tipc and vmci.  zmq_bind creates a *)
(* listener in the application's thread, which opens, binds and listens;   *)
(* the I/O thread plugs it in, accepts connections and, after zmq_unbind   *)
(* or zmq_close, closes it and the sessions it launched.                   *)
(*                                                                         *)
(* Names are what descriptors are bound to: ports and TIPC names, which    *)
(* the system binds once, and the files of UNIX domain sockets, which a    *)
(* listener unlinks before it binds and after it closes.                   *)
(***************************************************************************)
EXTENDS Integers, Sequences, FiniteSets

CONSTANTS Lists,       \* the listeners
          Fds,         \* file descriptors, numbers from 1
          Names,       \* what may be bound
          LCases,      \* kind, name (of each listener), wildcard, usefd (the descriptor
                       \*   is given by the application), emfile (accept may run out)
          MaxPeers     \* bound on peers that wait to be accepted

VARIABLES cas,      \* the case chosen
          lst,      \* the listeners
          cmds,     \* the commands on their way to each of them
          fds,      \* the open descriptors, with who holds them
          bound,    \* the descriptor each name leads to, or a file that leads nowhere
          dirs,     \* listeners whose temporary directory exists
          waiting,  \* peers that wait at each descriptor
          fine      \* no assertion has failed

lvars == <<cas, lst, cmds, fds, bound, dirs, waiting, fine>>

Free == "free"
Nothing == 0      \* of a name: not bound, no file
Stale == -1       \* of a name: a file behind which nobody listens
NoListener == [st |-> "none", s |-> 0, has_file |-> FALSE, dir |-> FALSE, polled |-> FALSE, sessions |-> {}]

FreeFd == CHOOSE f \in Fds : fds[f] = Free /\ \A g \in Fds : fds[g] = Free => f <= g
HasFd == \E f \in Fds : fds[f] = Free

Local == cas.kind = "ipc"

-----------------------------------------------------------------------------
(* set_address (): how far it gets.  "wildcard": no temporary directory    *)
(* can be made; "resolve": the address is not good; "socket": there is no  *)
(* descriptor; "bind", "listen": refused; "ok".  The directory that was    *)
(* made is removed when the address or the descriptor fails, and stays     *)
(* when bind () or listen () does; so does the file of a failed listen (). *)

\* The file a listener of an earlier run left, or another's, is unlinked first.
Unlinked(b, l) == IF cas.usefd THEN b ELSE [b EXCEPT ![cas.name[l]] = Nothing]

Failed(b, dir) == [st |-> "failed", fd |-> 0, bound |-> b, dir |-> dir, file |-> FALSE]

ipc_set_address(l, how, fd) ==
    LET b == Unlinked(bound, l)
    IN  CASE how = "wildcard" -> Failed(bound, FALSE)
          [] how \in {"resolve", "socket"} -> Failed(b, FALSE)
          [] how = "bind" -> Failed(b, cas.wildcard)
          [] how = "listen" -> Failed([b EXCEPT ![cas.name[l]] = Stale], cas.wildcard)
          [] OTHER -> [st |-> "set", fd |-> fd, bound |-> [b EXCEPT ![cas.name[l]] = fd],
                       dir |-> cas.wildcard, file |-> TRUE]

tcp_set_address(l, how, fd) ==
    IF how # "ok" THEN Failed(bound, FALSE)
    ELSE [st |-> "set", fd |-> fd, bound |-> [bound EXCEPT ![cas.name[l]] = fd], dir |-> FALSE, file |-> FALSE]

tipc_set_address(l, how, fd) == tcp_set_address(l, how, fd)
vmci_set_address(l, how, fd) == tcp_set_address(l, how, fd)

SetAddress(l, how, fd) ==
    CASE cas.kind = "tcp" -> tcp_set_address(l, how, fd)
      [] cas.kind = "ipc" -> ipc_set_address(l, how, fd)
      [] cas.kind = "tipc" -> tipc_set_address(l, how, fd)
      [] OTHER -> vmci_set_address(l, how, fd)

\* The system refuses a name that is taken; a descriptor of the application is
\* neither bound nor refused here.
Outcomes(l) ==
    LET taken == ~Local /\ bound[cas.name[l]] # Nothing
    IN  IF cas.usefd THEN {"ok"} ELSE IF taken THEN {"bind"}
        ELSE {"resolve", "socket", "bind", "listen", "ok"} \cup (IF cas.wildcard THEN {"wildcard"} ELSE {})

\* zmq_bind (): socket_base_t::bind and add_endpoint (), which launches the
\* listener.  One that failed is deleted with its descriptor closed.
Bind(l) ==
    /\ lst[l].st = "none" /\ HasFd
    /\ \E how \in Outcomes(l) :
          LET r == SetAddress(l, how, FreeFd)
              good == r.st = "set"
          IN  /\ lst' = [lst EXCEPT ![l] = [@ EXCEPT !.st = IF good THEN "set" ELSE how,
                                                     !.s = r.fd, !.has_file = r.file, !.dir = r.dir]]
              /\ cmds' = IF good THEN [cmds EXCEPT ![l] = Append(@, "plug")] ELSE cmds
              /\ fds' = IF good THEN [fds EXCEPT ![r.fd] = "listener"] ELSE fds
              /\ bound' = r.bound
              /\ dirs' = IF r.dir THEN dirs \cup {l} ELSE dirs
    /\ UNCHANGED <<cas, waiting, fine>>

\* zmq_unbind () and zmq_close (): term_child () sends a term command.
Unbind(l) ==
    /\ lst[l].st \in {"set", "live"} /\ "term" \notin {cmds[l][n] : n \in DOMAIN cmds[l]}
    /\ cmds' = [cmds EXCEPT ![l] = Append(@, "term")]
    /\ UNCHANGED <<cas, lst, fds, bound, dirs, waiting, fine>>

-----------------------------------------------------------------------------
(* In the I/O thread.                                                      *)

ProcessPlug(l) ==
    /\ cmds[l] # <<>> /\ Head(cmds[l]) = "plug"
    /\ lst' = [lst EXCEPT ![l].st = "live", ![l].polled = TRUE]
    /\ cmds' = [cmds EXCEPT ![l] = Tail(@)]
    /\ UNCHANGED <<cas, fds, bound, dirs, waiting, fine>>

\* Running out of descriptors is taken for a defect.
tcp_accept_Strict(errno) == errno \in {"ECONNABORTED"}

\* accept (): which failures each class takes for granted
tcp_accept(errno) == errno \in {"ECONNABORTED", "EMFILE"}
ipc_accept(errno) == errno \in {"ECONNABORTED"}
tipc_accept(errno) == errno \in {"ECONNABORTED", "EMFILE"}
vmci_accept(errno) == errno \in {"ECONNABORTED", "EMFILE"}

Ignores(errno) ==
    CASE cas.kind = "tcp" -> tcp_accept(errno)
      [] cas.kind = "ipc" -> ipc_accept(errno)
      [] cas.kind = "tipc" -> tipc_accept(errno)
      [] OTHER -> vmci_accept(errno)

\* in_event () when accept fails: event_accept_failed only.
AcceptFails(l, errno) ==
    /\ lst[l].polled /\ waiting[lst[l].s] > 0
    /\ errno = "EMFILE" => cas.emfile
    /\ waiting' = IF errno = "EMFILE" THEN waiting ELSE [waiting EXCEPT ![lst[l].s] = @ - 1]
    /\ fine' = (fine /\ Ignores(errno))
    /\ UNCHANGED <<cas, lst, cmds, fds, bound, dirs>>

\* The filters of tcp (tcp_accept_filters) and of ipc (the peer's credentials)
\* close the connection again.
Filtered(l) ==
    /\ lst[l].polled /\ waiting[lst[l].s] > 0 /\ HasFd
    /\ cas.kind \in {"tcp", "ipc"}
    /\ waiting' = [waiting EXCEPT ![lst[l].s] = @ - 1]
    /\ UNCHANGED <<cas, lst, cmds, fds, bound, dirs, fine>>

\* in_event (): an engine for the connection in a session the listener owns.
InEvent(l) ==
    /\ lst[l].polled /\ waiting[lst[l].s] > 0 /\ HasFd
    /\ waiting' = [waiting EXCEPT ![lst[l].s] = @ - 1]
    /\ fds' = [fds EXCEPT ![FreeFd] = "session"]
    /\ lst' = [lst EXCEPT ![l].sessions = @ \cup {FreeFd}]
    /\ UNCHANGED <<cas, cmds, bound, dirs, fine>>

\* The connection of a session breaks: the session goes, with its descriptor.
SessionEnds(l, f) ==
    /\ f \in lst[l].sessions
    /\ fds' = [fds EXCEPT ![f] = Free]
    /\ lst' = [lst EXCEPT ![l].sessions = @ \ {f}]
    /\ UNCHANGED <<cas, cmds, bound, dirs, waiting, fine>>

\* The file is forgotten, and the directory with it.
ipc_close_KeepsFile(l) ==
    [bound |-> [bound EXCEPT ![cas.name[l]] = IF @ = lst[l].s THEN Stale ELSE @],
     dirs |-> dirs \ {l}]

\* close (): a name of the system is free with the descriptor; the file of a
\* UNIX domain socket is unlinked by its name, whatever it leads to by now, and
\* the directory goes only if there was a file to unlink.  The file of a
\* descriptor that the application gave stays.
ipc_close(l) ==
    LET mine == lst[l].has_file /\ ~cas.usefd
    IN  [bound |-> [bound EXCEPT ![cas.name[l]] =
                        IF mine THEN Nothing ELSE IF @ = lst[l].s THEN Stale ELSE @],
         dirs |-> IF mine /\ bound[cas.name[l]] # Nothing THEN dirs \ {l} ELSE dirs]

tcp_close(l) ==
    [bound |-> [n \in Names |-> IF bound[n] = lst[l].s THEN Nothing ELSE bound[n]], dirs |-> dirs]

tipc_close(l) == tcp_close(l)
vmci_close(l) == tcp_close(l)

Close(l) ==
    CASE cas.kind = "tcp" -> tcp_close(l)
      [] cas.kind = "ipc" -> ipc_close(l)
      [] cas.kind = "tipc" -> tipc_close(l)
      [] OTHER -> vmci_close(l)

\* process_term (): rm_fd (), close (), and own_t::process_term () takes the
\* sessions along.
ProcessTerm(l) ==
    LET r == Close(l)
        mine == {lst[l].s} \cup lst[l].sessions
    IN  /\ cmds[l] # <<>> /\ Head(cmds[l]) = "term"
        /\ fine' = (fine /\ lst[l].polled /\ lst[l].s # 0)
        /\ lst' = [lst EXCEPT ![l] = [NoListener EXCEPT !.st = "gone"]]
        /\ cmds' = [cmds EXCEPT ![l] = Tail(@)]
        /\ fds' = [f \in Fds |-> IF f \in mine THEN Free ELSE fds[f]]
        /\ waiting' = [waiting EXCEPT ![lst[l].s] = 0]
        /\ bound' = r.bound
        /\ dirs' = r.dirs
        /\ UNCHANGED cas

\* External: a peer connects to a name.
PeerConnects(n) ==
    /\ bound[n] \notin {Nothing, Stale} /\ fds[bound[n]] = "listener"
    /\ waiting[bound[n]] < MaxPeers
    /\ waiting' = [waiting EXCEPT ![bound[n]] = @ + 1]
    /\ UNCHANGED <<cas, lst, cmds, fds, bound, dirs, fine>>

-----------------------------------------------------------------------------
LInit ==
    /\ cas \in LCases
    /\ lst = [l \in Lists |-> NoListener]
    /\ cmds = [l \in Lists |-> <<>>]
    /\ fds = [f \in Fds |-> Free]
    /\ bound = [n \in Names |-> Nothing]
    /\ dirs = {}
    /\ waiting = [f \in Fds |-> 0]
    /\ fine = TRUE

LNext ==
    \/ \E l \in Lists :
          \/ Bind(l) \/ Unbind(l) \/ ProcessPlug(l) \/ InEvent(l) \/ Filtered(l) \/ ProcessTerm(l)
          \/ \E errno \in {"ECONNABORTED", "EMFILE"} : AcceptFails(l, errno)
          \/ \E f \in Fds : SessionEnds(l, f)
    \/ \E n \in Names : PeerConnects(n)

LSpec == LInit /\ [][LNext]_lvars

-----------------------------------------------------------------------------
\* No assertion of a listener fails: running out of descriptors in accept is
\* ignored, and a listener that is closed was plugged in with a descriptor.
AcceptSurvives == fine

\* UNIX domain sockets are unlinked by their names, so two listeners that were
\* given one name take the file from each other: both when the second one binds
\* and when either of them closes.
SharesName(l) ==
    Local /\ \E m \in Lists \ {l} : cas.name[m] = cas.name[l] /\ lst[m].st # "none"

Listening(l) == lst[l].st \in {"set", "live"}

\* Descriptors, files and directories go with the listener that made them.  A
\* descriptor in use belongs to a listener or to a session of one; a name leads to
\* the listener that was given it, never to one that is gone; a file that leads
\* nowhere was left by a failed listen () or belongs to the application; a
\* listener is found under its name, unless another was given the same file; and
\* a directory belongs to a listener, or to one whose bind () or listen () failed.
CleanedUp ==
    /\ \A f \in Fds : (fds[f] # Free) = (\E l \in Lists : f = lst[l].s \/ f \in lst[l].sessions)
    /\ \A n \in Names :
          \/ bound[n] = Nothing
          \/ bound[n] = Stale /\ Local
                /\ (cas.usefd \/ \E l \in Lists : cas.name[l] = n /\ lst[l].st = "listen")
          \/ \E l \in Lists : Listening(l) /\ cas.name[l] = n /\ bound[n] = lst[l].s
    /\ \A l \in Lists : Listening(l) => bound[cas.name[l]] = lst[l].s \/ SharesName(l)
    /\ \A l \in dirs : Listening(l) \/ lst[l].st \in {"bind", "listen"}

=============================================================================
