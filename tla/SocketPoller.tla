---------------------------- MODULE SocketPoller ----------------------------
(***************************************************************************)
(* Waiting for sockets and descriptors: socket_poller_t, and zmq_poll ()   *)
(* on top of it or, in a build without it, on its own.  Each is built on   *)
(* poll () or on select ().                                                *)
(*                                                                         *)
(* A socket is readable or writable only once its commands were processed, *)
(* and its descriptor only says that there are commands; a thread-safe     *)
(* socket has no descriptor but sends to the signaler of the poller.  Its  *)
(* commands may be processed by another thread while this one waits.       *)
(***************************************************************************)
EXTENDS Integers, Sequences, FiniteSets

CONSTANTS Plain,     \* sockets of the thread that polls
          Safe,      \* thread-safe sockets
          Raw,       \* file descriptors
          Newer,     \* those of them whose descriptor is above the signaler's
          Masks,     \* what may be polled for
          Builds,    \* pairs: is there socket_poller_t, and "poll" or "select"
          MayRepeat, \* may an object be repeated in zmq_poll () without socket_poller_t
          MaxEvents, \* bound on what happens to the sockets
          MaxChanges \* bound on changes of the items

VARIABLES build,
          items,     \* of socket_poller_t: object, events, pollfd_index
          poller,    \* need_rebuild, use_signaler, pollset, and whether it exists
          sock,      \* each object: commands that wait, events, context terminated
          attached,  \* sockets that send to the signaler
          signals,   \* in the signaler
          call,      \* the items of zmq_poll (), or none
          wait,      \* where the call is
          events,    \* how often something happened to a socket
          changes    \* how often the items of this poller were changed

vars == <<build, items, poller, sock, attached, signals, call, wait, events, changes>>

Objects == Plain \cup Safe \cup Raw
Signaler == "signaler"
HavePoller == build[1]
OnPoll == build[2] = "poll"

\* A raw descriptor is polled for something: pollfd_index of one that is not
\* would be left from an earlier rebuild ().
MasksOf(o) == IF o \in Raw THEN Masks \ {{}} ELSE Masks

Idle == [ph |-> "idle", first |-> TRUE, n |-> 0, at |-> 0,
         revents |-> <<>>, found |-> <<>>]
NewPoller == [exists |-> TRUE, need_rebuild |-> TRUE, use_signaler |-> FALSE, pollset |-> <<>>]

Init ==
    /\ build \in Builds
    /\ items = <<>> /\ poller = [NewPoller EXCEPT !.exists = FALSE]
    /\ sock = [o \in Objects |-> [cmds |-> {}, ev |-> {}, told |-> TRUE, term |-> FALSE]]
    /\ attached = {} /\ signals = 0 /\ call = <<>> /\ wait = Idle /\ events = 0 /\ changes = 0

ItemOf(o) == {i \in 1..Len(items) : items[i].obj = o}
Processed(s) == [s EXCEPT !.ev = @ \cup (s.cmds \ {"stop"}), !.term = @ \/ "stop" \in s.cmds,
                          !.cmds = {}]

-----------------------------------------------------------------------------
(* What happens to the sockets.                                             *)

\* A command arrives: an activated pipe, or the end of the context.  A mailbox
\* that was empty says so: mailbox_t by its descriptor, mailbox_safe_t to every
\* signaler it knows.
Command(o, e) ==
    /\ events < MaxEvents /\ e \notin sock[o].cmds \cup sock[o].ev /\ ~sock[o].term
    /\ events' = events + 1
    /\ sock' = [sock EXCEPT ![o].cmds = @ \cup {e}]
    /\ signals' = IF o \in attached /\ sock[o].cmds = {} THEN signals + 1 ELSE signals
    /\ UNCHANGED <<build, items, poller, attached, call, wait, changes>>

Readiness(r, e) ==
    /\ events < MaxEvents /\ e \notin sock[r].ev
    /\ events' = events + 1
    /\ sock' = [sock EXCEPT ![r].ev = @ \cup {e}]
    /\ UNCHANGED <<build, items, poller, attached, signals, call, wait, changes>>

\* A thread sends or receives: that processes commands and may use up an event.
\* Sockets that are not thread-safe are used by the thread that polls only.
Use(o, E) ==
    /\ events < MaxEvents /\ (o \in Safe \/ wait.ph = "idle")
    /\ E \subseteq Processed(sock[o]).ev
    /\ events' = events + 1
    /\ sock' = [sock EXCEPT ![o] = [Processed(@) EXCEPT !.ev = @ \ E]]
    /\ UNCHANGED <<build, items, poller, attached, signals, call, wait, changes>>

\* Another thread connects a thread-safe socket: the pipe is attached at once,
\* no command is sent, and no signaler is told.
Connected(o) ==
    /\ events < MaxEvents /\ "out" \notin Processed(sock[o]).ev /\ ~Processed(sock[o]).term
    /\ events' = events + 1
    /\ sock' = [sock EXCEPT ![o] = [Processed(@) EXCEPT !.ev = @ \cup {"out"}, !.told = FALSE]]
    /\ UNCHANGED <<build, items, poller, attached, signals, call, wait, changes>>

-----------------------------------------------------------------------------
(* The items of a poller.                                                   *)

Free == wait.ph = "idle"
MayChange == Free /\ poller.exists /\ changes < MaxChanges
Unbuilt == [poller EXCEPT !.need_rebuild = TRUE]

zmq_poller_new ==
    /\ Free /\ HavePoller /\ ~poller.exists
    /\ poller' = NewPoller
    /\ UNCHANGED <<build, items, sock, attached, signals, call, wait, events, changes>>

add(o, E) ==
    /\ MayChange /\ ItemOf(o) = {} /\ (o \in Raw \/ ~sock[o].term)
    /\ items' = Append(items, [obj |-> o, events |-> E, index |-> 0])
    /\ attached' = attached \cup ({o} \cap Safe)
    /\ poller' = Unbuilt
    /\ changes' = changes + 1
    /\ UNCHANGED <<build, sock, signals, call, wait, events>>

modify(o, E) ==
    /\ MayChange
    /\ \E i \in ItemOf(o) : items' = [items EXCEPT ![i].events = E]
    /\ poller' = Unbuilt
    /\ changes' = changes + 1
    /\ UNCHANGED <<build, sock, attached, signals, call, wait, events>>

\* The sockets that take the signaler back: getsockopt () fails on one whose
\* context was terminated, which keeps the signaler.
TakesBack(O) == {o \in O \cap Safe : ~sock[o].term}

remove(o) ==
    /\ MayChange /\ ItemOf(o) # {}
    /\ items' = SelectSeq(items, LAMBDA i : i.obj # o)
    /\ attached' = attached \ TakesBack({o})
    /\ poller' = Unbuilt
    /\ changes' = changes + 1
    /\ UNCHANGED <<build, sock, signals, call, wait, events>>

Polled(I) == {I[i].obj : i \in 1..Len(I)}
Destroyed == attached \ TakesBack(Polled(items))

zmq_poller_destroy ==
    /\ wait.ph = "idle" /\ poller.exists
    /\ items' = <<>> /\ attached' = Destroyed /\ signals' = 0
    /\ poller' = [NewPoller EXCEPT !.exists = FALSE] /\ changes' = 0
    /\ UNCHANGED <<build, sock, call, wait, events>>

-----------------------------------------------------------------------------
(* rebuild (): the entries of a pollset, each for a descriptor.             *)

Entry(o, E) == [obj |-> o, events |-> E]
Wanted(I) == SelectSeq(I, LAMBDA i : i.events # {})
UsesSignaler(I) == \E i \in 1..Len(I) : I[i].obj \in Safe /\ I[i].events # {}
EntryOf(i) == Entry(i.obj, IF i.obj \in Raw THEN i.events ELSE {"in"})

rebuild_poll(I) ==
    LET own == SelectSeq(Wanted(I), LAMBDA i : i.obj \notin Safe)
    IN  (IF UsesSignaler(I) THEN <<Entry(Signaler, {"in"})>> ELSE <<>>)
        \o [k \in 1..Len(own) |-> EntryOf(own[k])]

\* select () looks at descriptors up to maxfd, which leaves out the signaler's.
Seen(set) == SelectSeq(set, LAMBDA e : e.obj # Signaler \/ \E k \in 1..Len(set) : set[k].obj \in Newer)
rebuild_select(I) == Seen(rebuild_poll(I))

\* pollfd_index of a raw descriptor
Indexed(I, set) ==
    [k \in 1..Len(I) |->
        IF \E p \in 1..Len(set) : I[k].obj \in Raw /\ set[p].obj = I[k].obj
        THEN [I[k] EXCEPT !.index = CHOOSE p \in 1..Len(set) : set[p].obj = I[k].obj]
        ELSE I[k]]

\* zmq_poll () on its own has an entry for each item, in their order.
poll_set(I) == [k \in 1..Len(I) |-> Entry(I[k].obj, IF I[k].obj \in Raw \/ I[k].events = {} THEN I[k].events ELSE {"in"})]
select_set(I) == poll_set(I)

\* getsockopt () fails in rebuild () once the context was terminated.
Terminated(I) == \E i \in 1..Len(I) : I[i].obj \notin Raw /\ I[i].events # {} /\ sock[I[i].obj].term

Rebuilt ==
    LET set == IF OnPoll THEN rebuild_poll(items) ELSE rebuild_select(items)
    IN  /\ items' = Indexed(items, set)
        /\ poller' = [poller EXCEPT !.need_rebuild = Wanted(items) = <<>>, !.pollset = set,
                                    !.use_signaler = UsesSignaler(items)]

-----------------------------------------------------------------------------
(* wait () and zmq_poll ().                                                 *)

Started(n) == [Idle EXCEPT !.ph = "poll", !.n = n]

\* A poller without a wanted event reports a timeout, one of a terminated
\* context the error, at once.
Wait(n) ==
    /\ Free /\ poller.exists /\ call = <<>>
    /\ IF poller.need_rebuild /\ ~Terminated(items) THEN Rebuilt ELSE UNCHANGED <<items, poller>>
    /\ wait' = IF (poller.need_rebuild /\ Terminated(items)) \/ Wanted(items) = <<>>
               THEN Idle ELSE Started(n)
    /\ UNCHANGED <<build, sock, attached, signals, call, events, changes>>

\* The items of the poller that zmq_poll () makes: a repeated object is one item
\* with the events of all its entries.
RECURSIVE Merged(_)
Merged(c) ==
    IF c = <<>> THEN <<>>
    ELSE LET k == Len(c)
             I == Merged(SubSeq(c, 1, k - 1))
             E == UNION {c[j].events : j \in {j \in 1..k : c[j].obj = c[k].obj}}
         IN  IF \E i \in 1..Len(I) : I[i].obj = c[k].obj
             THEN [i \in 1..Len(I) |-> IF I[i].obj = c[k].obj THEN [I[i] EXCEPT !.events = E] ELSE I[i]]
             ELSE Append(I, [obj |-> c[k].obj, events |-> c[k].events, index |-> 0])

zmq_poller_poll(c) ==
    LET I == Merged(c)
        set == IF OnPoll THEN rebuild_poll(I) ELSE rebuild_select(I)
    IN  /\ Free /\ HavePoller /\ ~poller.exists
        /\ \A i \in 1..Len(c) : c[i].obj \in Raw \/ ~sock[c[i].obj].term
        /\ call' = c
        /\ items' = Indexed(I, set)
        /\ poller' = [NewPoller EXCEPT !.need_rebuild = FALSE, !.pollset = set, !.use_signaler = UsesSignaler(I)]
        /\ attached' = attached \cup (Polled(I) \cap Safe)
        /\ wait' = Started(Len(c))
            /\ UNCHANGED <<build, sock, signals, events, changes>>

Repeats(c) == \E i, j \in 1..Len(c) : i # j /\ c[i].obj = c[j].obj

\* A thread-safe socket has no ZMQ_FD: the call fails.
zmq_poll(c) ==
    /\ Free /\ ~HavePoller /\ (Repeats(c) => MayRepeat)
    /\ \A i \in 1..Len(c) : c[i].obj \in Raw \/ (c[i].obj \in Plain /\ ~sock[c[i].obj].term)
    /\ call' = c
    /\ items' = [i \in 1..Len(c) |-> [obj |-> c[i].obj, events |-> c[i].events, index |-> i]]
    /\ poller' = [poller EXCEPT !.pollset = IF OnPoll THEN poll_set(c) ELSE select_set(c)]
    /\ wait' = Started(Len(c))
    /\ UNCHANGED <<build, sock, attached, signals, events, changes>>

\* What the system would say of an entry now.
Report(e) ==
    CASE e.obj = Signaler -> IF signals > 0 THEN {"in"} ELSE {}
      [] e.obj \in Raw    -> sock[e.obj].ev \cap e.events
      [] OTHER            -> IF sock[e.obj].cmds # {} THEN {"in"} \cap e.events ELSE {}

Reports == [k \in 1..Len(poller.pollset) |-> Report(poller.pollset[k])]
Nothing(r) == \A k \in 1..Len(r) : r[k] = {}

\* A signal is received when the descriptor of the signaler was reported.
Received(set, r) == poller.use_signaler /\ \E k \in 1..Len(r) : set[k].obj = Signaler /\ r[k] # {}

\* The first pass does not wait.  Later ones end with a report or when the time is
\* over: a timeout of zero, or one that never ends, is a choice of when.
Poll ==
    /\ wait.ph = "poll"
    /\ signals' = IF Received(poller.pollset, Reports) THEN signals - 1 ELSE signals
    /\ wait' = [wait EXCEPT !.ph = "check", !.at = 1, !.revents = Reports, !.found = <<>>]
    /\ UNCHANGED <<build, items, poller, sock, attached, call, events, changes>>

\* Give up: an interrupted system call, or a context that is terminated.
Fails == IF call = <<>> THEN UNCHANGED <<items, poller, attached, signals>>
         ELSE /\ items' = <<>> /\ poller' = [NewPoller EXCEPT !.exists = FALSE]
              /\ attached' = Destroyed
              /\ signals' = IF HavePoller THEN 0 ELSE signals

Interrupted ==
    /\ wait.ph = "poll"
    /\ Fails /\ wait' = Idle /\ call' = <<>>
    /\ UNCHANGED <<build, sock, events, changes>>

\* The events of a raw descriptor: what was reported at its index, or for it.
RawEvents(i) ==
    IF OnPoll THEN wait.revents[i.index]
    ELSE UNION {wait.revents[k] : k \in {k \in 1..Len(wait.revents) : poller.pollset[k].obj = i.obj}}
SocketEvents_Reported(i, s) ==
    IF \E k \in 1..Len(wait.revents) : poller.pollset[k].obj = i.obj /\ wait.revents[k] # {}
    THEN i.events \cap s.ev ELSE {}
SocketEvents(i, s) == i.events \cap s.ev

\* One item is looked at, whether or not its descriptor was reported.
Check ==
    LET i == items[wait.at]
        s == IF i.obj \in Raw THEN sock[i.obj] ELSE [Processed(sock[i.obj]) EXCEPT !.told = TRUE]
        E == IF i.obj \in Raw THEN RawEvents(i) ELSE SocketEvents(i, s)
    IN  /\ wait.ph = "check" /\ wait.at <= Len(items) /\ Len(wait.found) < wait.n
        /\ sock' = [sock EXCEPT ![i.obj] = s]
        /\ IF s.term THEN Fails /\ wait' = Idle /\ call' = <<>>
           ELSE /\ wait' = [wait EXCEPT !.at = @ + 1,
                                !.found = IF E = {} THEN @ ELSE Append(@, [obj |-> i.obj, events |-> E, index |-> wait.at])]
                /\ UNCHANGED <<items, poller, attached, signals, call>>
        /\ UNCHANGED <<build, events, changes>>

AllChecked == wait.ph = "check" /\ (wait.at > Len(items) \/ Len(wait.found) = wait.n)

\* No event: a call that may wait polls again, now as long as there is time.
Again ==
    /\ AllChecked /\ wait.found = <<>>
    /\ wait' = [Started(wait.n) EXCEPT !.first = FALSE]
    /\ UNCHANGED <<build, items, poller, sock, attached, signals, call, events, changes>>

TimedOut ==
    /\ AllChecked /\ wait.found = <<>>
    /\ Fails /\ wait' = Idle /\ call' = <<>>
    /\ UNCHANGED <<build, sock, events, changes>>

Found ==
    /\ AllChecked /\ wait.found # <<>>
    /\ wait' = [wait EXCEPT !.ph = "found", !.revents = <<>>]
    /\ UNCHANGED <<build, items, poller, sock, attached, signals, call, events, changes>>

\* The caller has looked at what it was given.
Return ==
    /\ wait.ph = "found"
    /\ Fails /\ wait' = Idle /\ call' = <<>>
    /\ UNCHANGED <<build, sock, events, changes>>

-----------------------------------------------------------------------------
(* How zmq_poll () hands events to the items of the caller: the two are in  *)
(* the same order unless an object is repeated, so one pass over both does. *)

Skip_Always(c) == TRUE
Skip(c) == ~Repeats(c)

RECURSIVE HandOut(_, _, _)
HandOut(c, i, j) ==
    IF i > Len(c) THEN <<>>
    ELSE LET fits == {k \in j..Len(wait.found) : wait.found[k].obj = c[i].obj /\ (Skip(c) => k = j)}
         IN  IF fits = {} THEN <<{}>> \o HandOut(c, i + 1, j)
             ELSE <<wait.found[CHOOSE k \in fits : TRUE].events \cap c[i].events>>
                  \o HandOut(c, i + 1, IF Skip(c) THEN j + 1 ELSE j)

Revents ==
    IF HavePoller THEN HandOut(call, 1, 1)
    ELSE [i \in 1..Len(call) |-> UNION {wait.found[k].events : k \in {k \in 1..Len(wait.found) : wait.found[k].index = i}}]

-----------------------------------------------------------------------------
\* One or two items, each of which asks for something.
Asked == {[obj |-> o, events |-> E] : o \in Objects, E \in Masks \ {{}}}
Calls == {<<a>> : a \in Asked} \cup {<<a, b>> : a, b \in Asked}

Next ==
    \/ \E o \in Plain \cup Safe, e \in {"in", "out", "stop"} : Command(o, e)
    \/ \E r \in Raw, e \in {"in", "out"} : Readiness(r, e)
    \/ \E o \in Objects, E \in {{"in"}, {"out"}} : Use(o, E)
    \/ \E o \in Safe : Connected(o)
    \/ zmq_poller_new \/ zmq_poller_destroy
    \/ \E o \in Objects : (\E E \in MasksOf(o) : add(o, E) \/ modify(o, E)) \/ remove(o)
    \/ \E n \in 1..2 : Wait(n)
    \/ \E c \in Calls : zmq_poller_poll(c) \/ zmq_poll(c)
    \/ Poll \/ Interrupted \/ Check \/ Again \/ TimedOut \/ Found \/ Return

Spec == Init /\ [][Next]_vars

-----------------------------------------------------------------------------
\* A thread that sleeps in wait () or zmq_poll () has no event to report: every
\* wanted event, and the end of the context, would have been reported or makes a
\* descriptor readable.  What another thread attaches to a thread-safe socket is
\* not announced, and select () may not look at the signaler.
NeverSleepsOverEvent ==
    wait.ph = "poll" /\ ~wait.first /\ Nothing(Reports) =>
        \A i \in 1..Len(items) :
            LET s == Processed(sock[items[i].obj])
                watched == items[i].obj \in Safe => \E k \in 1..Len(poller.pollset) : poller.pollset[k].obj = Signaler
            IN  items[i].events # {} /\ s.told /\ watched => items[i].events \cap s.ev = {} /\ ~s.term

\* What is handed out is exact: for a socket of this thread the wanted events it
\* has, all of them unless there was no room, for a descriptor some that it has,
\* and each to the item that asked for it, also when items repeat an object.
EventsExact ==
    wait.ph = "found" =>
        IF call = <<>>
        THEN \A i \in 1..Len(items) :
                LET mine == {k \in 1..Len(wait.found) : wait.found[k].obj = items[i].obj}
                    has == items[i].events \cap sock[items[i].obj].ev
                IN  /\ \A k \in mine : wait.found[k].events \subseteq items[i].events
                    /\ items[i].obj \in Plain => \A k \in mine : wait.found[k].events = has
                    /\ items[i].obj \in Plain /\ Len(wait.found) < wait.n /\ has # {} => mine # {}
                    /\ items[i].obj \in Raw => \A k \in mine : wait.found[k].events \subseteq has
        ELSE /\ \E i \in 1..Len(call) : Revents[i] # {}
             /\ \A i \in 1..Len(call) :
                    LET has == call[i].events \cap sock[call[i].obj].ev
                    IN  /\ Revents[i] \subseteq (IF call[i].obj \in Safe THEN call[i].events ELSE has)
                        /\ call[i].obj \in Plain => Revents[i] = has

\* No socket sends to the signaler of a poller that is gone, or that it was
\* removed from, as long as its context was not terminated.
SignalersLive == \A o \in attached : sock[o].term \/ (poller.exists /\ ItemOf(o) # {})

=============================================================================
