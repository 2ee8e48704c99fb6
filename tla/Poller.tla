------------------------------ MODULE Poller ------------------------------
(***************************************************************************)
(* The loop of an I/O thread: due timers first, then the events of the     *)
(* descriptors, by epoll, kqueue, /dev/poll, pollset, poll or select.  The *)
(* handlers it calls add and remove descriptors and timers, their own and, *)
(* in the io_thread_t that takes commands from its mailbox, those of any   *)
(* other object, while reports of the same wait are still to be looked at. *)
(*                                                                         *)
(* A descriptor that is closed is handed out again by the system; one that *)
(* a connecter hands to an engine is removed and added again.  What the    *)
(* system reports is a choice among what is polled for.                    *)
(***************************************************************************)
EXTENDS Integers, Sequences, FiniteSets

CONSTANTS Objs,       \* the objects of the thread besides the io_thread_t
          Fds,        \* file descriptors: 1 is the mailbox's
          PKinds,     \* the pollers to look at
          MaxEvents,  \* max_io_events
          MaxCalls,   \* bound on calls of one handler
          MaxOps,     \* bound on calls of all handlers
          MaxClock    \* bound on the clock

VARIABLES kind,    \* the poller
          q,       \* its memory, and what the system keeps for it
          obj,     \* the objects: descriptor, handle, what they poll for, has_timer
          loop,    \* where the loop is: ph, item and stage, the reports
          run,     \* the handler that runs: object, why, calls made
          timers,  \* pairs of expiration and sink
          clock,
          ops      \* calls made so far

pvars == <<kind, q, obj, loop, run, timers, clock, ops>>

Io == "io_thread"
All == Objs \cup {Io}
Nobody == "nobody"
Flags == {"in", "out"}
Families == {1, 2}

\* retired_fd, and the descriptor of an entry whose memory was freed
Retired == -1
Unused == -2

Pes == 1..(2 * Cardinality(Fds))
Entry(fd, o) == [fd |-> fd, obj |-> o, in |-> FALSE, out |-> FALSE]
Off == [on |-> FALSE, in |-> FALSE, out |-> FALSE, data |-> 0]
Quiet == [fd |-> 0, h |-> 0, in |-> FALSE, out |-> FALSE, timer |-> FALSE]
Idle == [obj |-> Nobody, why |-> "none", n |-> 0]

Heap == kind \in {"epoll", "kqueue", "pollset"}
Listed == kind \in {"poll", "select", "wselect"}

Least(S) == CHOOSE n \in S : \A m \in S : n <= m
Most(S) == IF S = {} THEN Retired ELSE CHOOSE n \in S : \A m \in S : n >= m
Check(u, p) == [u EXCEPT !.ok = @ /\ p]

-----------------------------------------------------------------------------
(* add_fd (), rm_fd () and set_pollin () ... reset_pollout () of each       *)
(* class, on its memory u.  h is a handle: an entry, or the descriptor.    *)

NewPe(u) == Least({e \in Pes : u.heap[e].fd = Unused})

epoll_add_fd(u, fd, o) ==
    LET pe == NewPe(u)
    IN  [Check(u, fd \in u.open /\ ~u.kern[fd].on) EXCEPT
            !.heap[pe] = Entry(fd, o), !.kern[fd] = [Off EXCEPT !.on = TRUE, !.data = pe]]

epoll_rm_fd(u, pe) ==
    LET fd == u.heap[pe].fd
    IN  [Check(u, fd \in u.open /\ u.kern[fd].on) EXCEPT
            !.kern[fd] = Off, !.heap[pe].fd = Retired, !.retired = @ \cup {pe}]

epoll_poll(u, pe, d, v) ==
    LET fd == u.heap[pe].fd
    IN  [Check(u, u.kern[fd].on) EXCEPT !.heap[pe][d] = v, !.kern[fd][d] = v]

\* kqueue knows a descriptor by its filters only.
kqueue_add_fd(u, fd, o) == [u EXCEPT !.heap[NewPe(u)] = Entry(fd, o)]

kevent_add(u, pe, d) ==
    LET fd == u.heap[pe].fd
    IN  [Check(u, fd \in u.open) EXCEPT !.kern[fd][d] = TRUE, !.kern[fd].on = TRUE, !.kern[fd].data = pe]

kevent_delete(u, pe, d) ==
    LET fd == u.heap[pe].fd
        other == CHOOSE f \in Flags : f # d
    IN  [Check(u, fd \in u.open /\ u.kern[fd][d]) EXCEPT !.kern[fd][d] = FALSE, !.kern[fd].on = u.kern[fd][other]]

kqueue_rm_fd(u, pe) ==
    LET u1 == IF u.heap[pe].in THEN kevent_delete(u, pe, "in") ELSE u
        u2 == IF u.heap[pe].out THEN kevent_delete(u1, pe, "out") ELSE u1
    IN  [u2 EXCEPT !.heap[pe].fd = Retired, !.retired = @ \cup {pe}]

kqueue_poll(u, pe, d, v) ==
    LET u1 == [u EXCEPT !.heap[pe][d] = v]
    IN  IF u.heap[pe][d] = v THEN u ELSE IF v THEN kevent_add(u1, pe, d) ELSE kevent_delete(u1, pe, d)

\* A descriptor that was added is looked at from the next turn of the loop on.
devpoll_add_fd_Accepted(u, fd, o) ==
    [u EXCEPT !.table[fd] = [valid |-> TRUE, accepted |-> TRUE, index |-> 0, obj |-> o, in |-> FALSE, out |-> FALSE],
              !.kern[fd] = [Off EXCEPT !.on = TRUE]]

devpoll_add_fd(u, fd, o) ==
    [Check(u, ~u.table[fd].valid) EXCEPT
        !.table[fd] = [valid |-> TRUE, accepted |-> FALSE, index |-> 0, obj |-> o, in |-> FALSE, out |-> FALSE],
        !.kern[fd] = [Off EXCEPT !.on = TRUE], !.pending = @ \cup {fd}]

devpoll_rm_fd(u, fd) ==
    [Check(u, u.table[fd].valid) EXCEPT !.kern[fd] = Off, !.table[fd].valid = FALSE]

devpoll_poll(u, fd, d, v) == [u EXCEPT !.table[fd][d] = v, !.kern[fd][d] = v]

\* pollset: the table leads from the descriptor to its entry.  rm_fd () clears
\* the place of retired_fd, so that the descriptor's own place stays.
pollset_add_fd(u, fd, o) ==
    LET pe == NewPe(u)
    IN  [Check(u, fd \in u.open /\ ~u.kern[fd].on) EXCEPT
            !.heap[pe] = Entry(fd, o), !.kern[fd] = [Off EXCEPT !.on = TRUE], !.table[fd].index = pe]

pollset_rm_fd(u, pe) ==
    [u EXCEPT !.kern[u.heap[pe].fd] = Off, !.heap[pe].fd = Retired, !.retired = @ \cup {pe}]

\* Events can be added but not taken away: the descriptor is deleted and added
\* again with the other event.
pollset_poll(u, pe, d, v) ==
    LET fd == u.heap[pe].fd
        other == CHOOSE f \in Flags : f # d
        u1 == [u EXCEPT !.heap[pe][d] = v]
    IN  CASE u.heap[pe][d] = v -> u
          [] v /\ ~u.heap[pe][d] -> [u1 EXCEPT !.kern[fd][d] = TRUE, !.kern[fd].on = TRUE]
          [] OTHER -> [u1 EXCEPT !.kern[fd] = IF ~u.heap[pe][other] THEN Off
                                              ELSE [Off EXCEPT !.on = TRUE, ![other] = TRUE]]

poll_add_fd(u, fd, o) ==
    LET l == Append(u.list[1], Entry(fd, o))
    IN  [Check(u, u.table[fd].index = Retired) EXCEPT
            !.list[1] = l, !.table[fd].index = Len(l), !.table[fd].obj = o]

poll_rm_fd(u, fd) ==
    LET i == u.table[fd].index
    IN  [Check(u, i # Retired) EXCEPT !.list[1][i].fd = Retired, !.table[fd].index = Retired, !.dirty[1] = TRUE]

poll_poll(u, fd, d, v) == [u EXCEPT !.list[1][u.table[fd].index][d] = v]

\* select: on Windows the descriptors are kept by their family.
Family(fd) == IF kind = "wselect" /\ fd = 3 THEN 2 ELSE 1

select_add_fd(u, fd, o) ==
    [u EXCEPT !.list[Family(fd)] = Append(@, Entry(fd, o)), !.sets.error = @ \cup {fd},
              !.maxfd = IF fd > @ THEN fd ELSE @]

\* The sets are left as they are.
select_rm_fd_KeepsSets(u, fd) ==
    LET i == Least({j \in DOMAIN u.list[Family(fd)] : u.list[Family(fd)][j].fd = fd})
    IN  [u EXCEPT !.list[Family(fd)][i].fd = Retired, !.dirty[Family(fd)] = TRUE]

\* Entries of a family that is not looked at are erased, others retired.
select_rm_fd(u, fd) ==
    LET f == Family(fd)
        at == {i \in DOMAIN u.list[f] : u.list[f][i].fd = fd}
        i == Least(at)
        here == kind = "select" \/ u.fam = f
        l == IF here THEN [u.list[f] EXCEPT ![i].fd = Retired]
             ELSE SubSeq(u.list[f], 1, i - 1) \o SubSeq(u.list[f], i + 1, Len(u.list[f]))
    IN  IF at = {} THEN Check(u, FALSE)
        ELSE [u EXCEPT !.list[f] = l, !.dirty[f] = @ \/ here,
                       !.sets = [s \in DOMAIN u.sets |-> u.sets[s] \ {fd}],
                       !.maxfd = IF fd # @ THEN @ ELSE Most({l[j].fd : j \in DOMAIN l})]

select_poll(u, fd, d, v) ==
    [u EXCEPT !.sets[IF d = "in" THEN "read" ELSE "write"] = IF v THEN @ \cup {fd} ELSE @ \ {fd}]

add_fd(u, fd, o) ==
    CASE kind = "epoll" -> epoll_add_fd(u, fd, o)
      [] kind = "kqueue" -> kqueue_add_fd(u, fd, o)
      [] kind = "devpoll" -> devpoll_add_fd(u, fd, o)
      [] kind = "pollset" -> pollset_add_fd(u, fd, o)
      [] kind = "poll" -> poll_add_fd(u, fd, o)
      [] OTHER -> select_add_fd(u, fd, o)

rm_fd(u, h) ==
    CASE kind = "epoll" -> epoll_rm_fd(u, h)
      [] kind = "kqueue" -> kqueue_rm_fd(u, h)
      [] kind = "devpoll" -> devpoll_rm_fd(u, h)
      [] kind = "pollset" -> pollset_rm_fd(u, h)
      [] kind = "poll" -> poll_rm_fd(u, h)
      [] OTHER -> select_rm_fd(u, h)

set_poll(u, h, d, v) ==
    CASE kind = "epoll" -> epoll_poll(u, h, d, v)
      [] kind = "kqueue" -> kqueue_poll(u, h, d, v)
      [] kind = "devpoll" -> devpoll_poll(u, h, d, v)
      [] kind = "pollset" -> pollset_poll(u, h, d, v)
      [] kind = "poll" -> poll_poll(u, h, d, v)
      [] OTHER -> select_poll(u, h, d, v)

\* poller_base_t::adjust_load
adjust_load(u, n) == [u EXCEPT !.load = @ + n]

HandleOf(u, fd, o) == IF Heap THEN CHOOSE e \in Pes : u.heap[e].fd = fd /\ u.heap[e].obj = o ELSE fd

-----------------------------------------------------------------------------
(* What the system looks at, and may report: "in", "out" and "err".        *)

Looked(fd) ==
    CASE kind = "poll" ->
            {d \in Flags : \E i \in DOMAIN q.list[1] : q.list[1][i].fd = fd /\ q.list[1][i][d]}
      [] kind \in {"select", "wselect"} ->
            IF kind = "select" /\ fd > q.maxfd THEN {}
            ELSE (IF fd \in q.sets.read THEN {"in"} ELSE {}) \cup (IF fd \in q.sets.write THEN {"out"} ELSE {})
      [] OTHER -> {d \in Flags : q.kern[fd][d]}

Known(fd) ==
    CASE kind = "poll" -> \E i \in DOMAIN q.list[1] : q.list[1][i].fd = fd
      [] kind \in {"select", "wselect"} -> fd \in q.sets.error
      [] OTHER -> q.kern[fd].on

\* Nothing goes wrong with the mailbox's descriptor.
Events(fd) == {s \in SUBSET (Looked(fd) \cup {"err"}) : Known(fd) /\ (fd = 1 => s \subseteq {"in"})}

\* The reports epoll_wait and its like may return, one or more for a descriptor.
Reports(fd) ==
    {[fd |-> fd, e |-> q.kern[fd].data, ev |-> s] :
        s \in {t \in Events(fd) \ {{}} : kind = "kqueue" => Cardinality(t \cap Flags) = 1}}

Batches ==
    LET R == UNION {Reports(fd) : fd \in Fds}
    IN  {<<r>> : r \in R} \cup
        {b \in R \X R : /\ MaxEvents > 1
                        /\ b[1].fd = b[2].fd => kind = "kqueue" /\ b[1].ev \cap b[2].ev \cap Flags = {}}

\* revents of poll, or the sets select has changed
Revents(S) == {r \in [Fds -> SUBSET {"in", "out", "err"}] :
                  \A fd \in Fds : r[fd] = {} \/ (fd \in S /\ r[fd] \in Events(fd))}

-----------------------------------------------------------------------------
(* The loop.  An item is a report, or a place of the list; its stages are  *)
(* the calls it may lead to.                                               *)

Order == IF kind \in {"select", "wselect"} THEN <<"in", "out", "err">> ELSE <<"err", "out", "in">>

Items == IF Listed THEN 1..loop.size ELSE DOMAIN loop.batch
ListItem(k) == q.list[loop.fam][k]

\* The entry of a report: by its data, or by the table when its turn comes.
PeOf(k) == IF kind # "pollset" THEN loop.batch[k].e
           ELSE IF k = loop.pos THEN loop.held ELSE q.table[loop.batch[k].fd].index

Ev(k) ==
    CASE kind = "poll" -> loop.rev[k]
      [] kind \in {"select", "wselect"} -> IF ListItem(k).fd = Retired THEN {} ELSE loop.rep[ListItem(k).fd]
      [] OTHER -> loop.batch[k].ev

Valid(k) ==
    CASE Listed -> ListItem(k).fd # Retired
      [] kind = "devpoll" -> q.table[loop.batch[k].fd].valid /\ q.table[loop.batch[k].fd].accepted
      [] OTHER -> q.heap[PeOf(k)].fd # Retired

Target(k) ==
    CASE kind = "poll" -> q.table[ListItem(k).fd].obj
      [] kind \in {"select", "wselect"} -> ListItem(k).obj
      [] kind = "devpoll" -> q.table[loop.batch[k].fd].obj
      [] OTHER -> q.heap[PeOf(k)].obj

\* The calls that are still to be made, as the memory is now; select counts them.
Due ==
    {c \in Items \X (1..3) :
        /\ c[1] > loop.pos \/ (c[1] = loop.pos /\ c[2] > loop.st)
        /\ Valid(c[1]) /\ Order[c[2]] \in Ev(c[1])
        /\ kind \in {"select", "wselect"} => loop.rc > 0}

First(C) == CHOOSE c \in C : \A d \in C : c[1] < d[1] \/ (c[1] = d[1] /\ c[2] <= d[2])

Start(l) == [l EXCEPT !.ph = "timers", !.cur = clock]

\* The top of the loop; devpoll accepts what was added.
Turn ==
    /\ loop.ph = "top" /\ run = Idle
    /\ loop' = IF q.stopping THEN [loop EXCEPT !.ph = "stopped"] ELSE Start(loop)
    /\ q' = [Check(q, q.stopping => q.load = 0) EXCEPT
                !.table = IF kind # "devpoll" THEN @
                          ELSE [f \in Fds |-> [@[f] EXCEPT !.accepted = @ \/ f \in q.pending]],
                !.pending = {}]
    /\ UNCHANGED <<kind, obj, run, timers, clock, ops>>

Expired == {t \in timers : t[1] <= loop.cur}

\* execute_timers (): the first that is due; it is erased after its event.
ExecuteTimer ==
    /\ loop.ph = "timers" /\ run = Idle /\ Expired # {}
    /\ \E t \in Expired :
          /\ \A s \in Expired : t[1] <= s[1]
          /\ loop' = [loop EXCEPT !.it = {t}]
          /\ run' = [obj |-> t[2], why |-> "timer", n |-> 0]
          /\ obj' = [obj EXCEPT ![t[2]].timer = FALSE]
    /\ UNCHANGED <<kind, q, timers, clock, ops>>

TimersDone ==
    /\ loop.ph = "timers" /\ run = Idle /\ Expired = {}
    /\ loop' = [loop EXCEPT !.ph = "wait"]
    /\ UNCHANGED <<kind, q, obj, run, timers, clock, ops>>

Registered == {fd \in Fds : \E x \in All : obj[x].fd = fd}

Begin(fam) == [loop EXCEPT !.ph = "events", !.pos = 0, !.st = 3, !.fam = fam, !.fresh = Registered]

Bits(r) == Cardinality({c \in Fds \X {"in", "out", "err"} : c[2] \in r[c[1]]})

FdsOf(fam) == {q.list[fam][k].fd : k \in DOMAIN q.list[fam]} \ {Retired}

\* select () of a family; rc is the number of bits that are set.
Selected(fam) ==
    \E r \in Revents(FdsOf(fam)) :
        /\ fam = 1 /\ kind # "wselect" => Bits(r) > 0
        /\ loop' = [Begin(fam) EXCEPT !.size = Len(q.list[fam]), !.rep = r, !.rc = Bits(r)]

\* The wait returns events.
Wait ==
    /\ loop.ph = "wait"
    /\ CASE kind = "poll" ->
              \E r \in Revents(FdsOf(1)) :
                  /\ Bits(r) > 0
                  /\ loop' = [Begin(1) EXCEPT !.size = Len(q.list[1]),
                                 !.rev = [k \in DOMAIN q.list[1] |->
                                             IF q.list[1][k].fd = Retired THEN {} ELSE r[q.list[1][k].fd]]]
         [] kind \in {"select", "wselect"} -> Selected(1)
         [] OTHER -> \E b \in Batches : loop' = [Begin(1) EXCEPT !.batch = b, !.held = 0]
    /\ q' = IF kind = "wselect" THEN [q EXCEPT !.fam = 1] ELSE q
    /\ UNCHANGED <<kind, obj, run, timers, clock, ops>>

\* The wait is interrupted, or ends when the next timer is due.
WaitNothing ==
    /\ loop.ph = "wait"
    /\ clock' \in IF clock < MaxClock THEN {clock, clock + 1} ELSE {clock}
    /\ loop' = [loop EXCEPT !.ph = "top"]
    /\ UNCHANGED <<kind, q, obj, run, timers, ops>>

\* The next call: in_event () for "in" and "err", out_event () for "out".
Deliver ==
    /\ loop.ph = "events" /\ run = Idle /\ Due # {}
    /\ LET c == First(Due)
           why == Order[c[2]]
       IN  /\ run' = [obj |-> Target(c[1]), why |-> why, n |-> 0]
           /\ loop' = [loop EXCEPT !.pos = c[1], !.st = c[2], !.rc = @ - 1,
                                   !.held = IF kind = "pollset" THEN PeOf(c[1]) ELSE @]
           /\ q' = Check(q, ~(Target(c[1]) = Io /\ why = "out"))
    /\ UNCHANGED <<kind, obj, timers, clock, ops>>

NotRetired(e) == e.fd # Retired

\* The end of a turn: retired entries are freed, or erased from the lists.
epoll_clean(u) == [u EXCEPT !.heap = [e \in Pes |-> IF e \in u.retired THEN Entry(Unused, Nobody) ELSE u.heap[e]],
                            !.retired = {}]

poll_clean(u) ==
    LET l == SelectSeq(u.list[1], NotRetired)
        at(fd) == {i \in DOMAIN l : l[i].fd = fd}
    IN  IF ~u.dirty[1] THEN u
        ELSE [u EXCEPT !.list[1] = l, !.dirty[1] = FALSE,
                       !.table = [fd \in Fds |-> IF at(fd) = {} THEN u.table[fd]
                                                 ELSE [u.table[fd] EXCEPT !.index = Least(at(fd))]]]

select_clean(u, f) ==
    IF ~u.dirty[f] THEN u
    ELSE [u EXCEPT !.list[f] = SelectSeq(u.list[f], NotRetired), !.dirty[f] = FALSE]

EndTurn ==
    /\ loop.ph = "events" /\ run = Idle /\ Due = {}
    /\ IF kind = "wselect" /\ loop.fam = 1 /\ q.list[2] # <<>>
       THEN Selected(2) /\ q' = [select_clean(q, 1) EXCEPT !.fam = 2]
       ELSE /\ loop' = [loop EXCEPT !.ph = "top", !.batch = <<>>, !.rev = <<>>, !.rep = [f \in Fds |-> {}],
                                    !.size = 0, !.pos = 0, !.st = 3, !.rc = 0, !.held = 0, !.fresh = {}]
            /\ q' = CASE Heap -> epoll_clean(q)
                      [] kind = "poll" -> poll_clean(q)
                      [] kind = "devpoll" -> q
                      [] OTHER -> [select_clean(q, loop.fam) EXCEPT !.fam = 0]
    /\ UNCHANGED <<kind, obj, run, timers, clock, ops>>

-----------------------------------------------------------------------------
(* What a handler does.  That of the io_thread_t runs the commands of the  *)
(* mailbox and with them any object's handlers; the others see to their    *)
(* own object.                                                             *)

\* The stop command is the last one the thread gets.
May(x) == run # Idle /\ ~q.stopping /\ (x = run.obj \/ run.obj = Io) /\ run.n < MaxCalls /\ ops < MaxOps

Called ==
    /\ run' = [run EXCEPT !.n = @ + 1]
    /\ ops' = ops + 1
    /\ UNCHANGED <<kind, clock>>

\* The system hands out the lowest descriptor.
FreeFd == {f \in Fds \ q.open : \A g \in Fds \ q.open : f <= g}

\* Descriptors without an owner: handed over by a connecter
HandedOver == q.open \ (Registered \cup {1})

\* io_object_t::add_fd of a plugged object with a new or a handed over descriptor,
\* and the first set_pollin () or set_pollout ().
Plug(x, d) ==
    /\ May(x) /\ run.obj = Io /\ obj[x].fd = 0
    /\ \E fd \in FreeFd \cup HandedOver :
          LET u == adjust_load(add_fd([q EXCEPT !.open = @ \cup {fd}], fd, x), 1)
              h == HandleOf(u, fd, x)
          IN  /\ q' = set_poll(u, h, d, TRUE)
              /\ obj' = [obj EXCEPT ![x] = [@ EXCEPT !.fd = fd, !.h = h, ![d] = TRUE]]
    /\ Called
    /\ UNCHANGED <<loop, timers>>

\* io_object_t::rm_fd, after which the descriptor is closed or handed over.
Unplug(x, closes) ==
    /\ May(x) /\ obj[x].fd # 0
    /\ LET u == adjust_load(rm_fd(q, obj[x].h), -1)
       IN  q' = IF closes THEN [u EXCEPT !.open = @ \ {obj[x].fd}] ELSE u
    /\ loop' = [loop EXCEPT !.fresh = @ \ {obj[x].fd}]
    /\ obj' = [obj EXCEPT ![x] = [Quiet EXCEPT !.timer = obj[x].timer]]
    /\ Called
    /\ UNCHANGED timers

\* io_object_t::set_pollin, reset_pollin, set_pollout, reset_pollout
SetPoll(x, d) ==
    /\ May(x) /\ obj[x].fd # 0
    /\ q' = set_poll(q, obj[x].h, d, ~obj[x][d])
    /\ obj' = [obj EXCEPT ![x][d] = ~@]
    /\ Called
    /\ UNCHANGED <<loop, timers>>

\* poller_base_t::add_timer
add_timer(x) ==
    /\ May(x) /\ ~obj[x].timer /\ clock < MaxClock
    /\ timers' = timers \cup {<<clock + 1, x>>}
    /\ obj' = [obj EXCEPT ![x].timer = TRUE]
    /\ Called
    /\ UNCHANGED <<q, loop>>

\* The first timer in the list goes, whoever set it.
cancel_timer_First(x) ==
    /\ May(x) /\ obj[x].timer /\ ~(run.why = "timer" /\ run.obj = x)
    /\ timers' = timers \ {CHOOSE t \in timers : \A s \in timers : t[1] <= s[1]}
    /\ obj' = [obj EXCEPT ![x].timer = FALSE]
    /\ Called
    /\ UNCHANGED <<q, loop>>

\* poller_base_t::cancel_timer: the first one of the sink, with an assertion
\* that there is one.  No handler cancels the timer it is called for, which is
\* still in the list.
cancel_timer(x) ==
    /\ May(x) /\ obj[x].timer /\ ~(run.why = "timer" /\ run.obj = x)
    /\ LET T == {t \in timers : t[2] = x}
       IN  /\ timers' = IF T = {} THEN timers ELSE timers \ {CHOOSE t \in T : \A s \in T : t[1] <= s[1]}
           /\ q' = Check(q, T # {})
    /\ obj' = [obj EXCEPT ![x].timer = FALSE]
    /\ Called
    /\ UNCHANGED loop

\* io_thread_t::process_stop, when nothing is left in the thread
process_stop ==
    /\ May(Io) /\ obj[Io].fd # 0
    /\ \A x \in Objs : obj[x] = Quiet
    /\ q' = [adjust_load(rm_fd(q, obj[Io].h), -1) EXCEPT !.stopping = TRUE]
    /\ obj' = [obj EXCEPT ![Io] = Quiet]
    /\ loop' = [loop EXCEPT !.fresh = @ \ {1}]
    /\ Called
    /\ UNCHANGED timers

\* The handler returns; execute_timers () erases the timer.
Return ==
    /\ run # Idle
    /\ run' = Idle
    /\ timers' = timers \ loop.it
    /\ loop' = [loop EXCEPT !.it = {}]
    /\ UNCHANGED <<kind, q, obj, clock, ops>>

-----------------------------------------------------------------------------
Blank ==
    [heap |-> [e \in Pes |-> Entry(Unused, Nobody)], retired |-> {},
     list |-> [f \in Families |-> <<>>], dirty |-> [f \in Families |-> FALSE],
     table |-> [f \in Fds |-> [valid |-> FALSE, accepted |-> FALSE, index |-> Retired, obj |-> Nobody,
                               in |-> FALSE, out |-> FALSE]],
     pending |-> {}, sets |-> [read |-> {}, write |-> {}, error |-> {}], maxfd |-> Retired,
     kern |-> [f \in Fds |-> Off], fam |-> 0, open |-> {1}, load |-> 0, stopping |-> FALSE, ok |-> TRUE]

\* The io_thread_t's constructor adds the mailbox's descriptor.
io_thread_t == set_poll(adjust_load(add_fd(Blank, 1, Io), 1), HandleOf(add_fd(Blank, 1, Io), 1, Io), "in", TRUE)

PInit ==
    /\ kind \in PKinds
    /\ q = io_thread_t
    /\ obj = [x \in All |-> IF x = Io THEN [Quiet EXCEPT !.fd = 1, !.h = 1, !.in = TRUE] ELSE Quiet]
    /\ loop = [ph |-> "top", pos |-> 0, st |-> 3, held |-> 0, batch |-> <<>>, rev |-> <<>>,
               rep |-> [f \in Fds |-> {}], size |-> 0, rc |-> 0, fam |-> 1, fresh |-> {}, cur |-> 0, it |-> {}]
    /\ run = Idle
    /\ timers = {}
    /\ clock = 0
    /\ ops = 0

PNext ==
    \/ Turn \/ ExecuteTimer \/ TimersDone \/ Wait \/ WaitNothing \/ Deliver \/ EndTurn \/ Return
    \/ process_stop
    \/ \E x \in Objs :
          \/ \E d \in Flags : Plug(x, d) \/ SetPoll(x, d)
          \/ \E closes \in BOOLEAN : Unplug(x, closes)
          \/ add_timer(x) \/ cancel_timer(x)

PSpec == PInit /\ [][PNext]_pvars

-----------------------------------------------------------------------------
\* No assertion of the pollers fails, whatever the handlers do in the middle of
\* a turn: handles are known, the system takes every change, a timer that is
\* cancelled is found, and nothing is registered when the thread ends.
PollerAssertions == q.ok

\* A handler is called only for a registration that was there when the wait
\* returned: never for an object that has removed its descriptor since and may be
\* gone, nor for one that got the same descriptor since (Deliver).  pollset_t,
\* whose table is indexed by descriptors, does not keep to the second half.
NoStaleEvent ==
    /\ (run # Idle /\ run.n = 0 /\ run.why # "timer") =>
          /\ obj[run.obj].fd # 0
          /\ kind # "pollset" => obj[run.obj].fd \in loop.fresh
    /\ (Heap /\ kind # "pollset") => \A k \in DOMAIN loop.batch : k >= loop.pos => q.heap[loop.batch[k].e].fd # Unused

\* What the system looks at is what the objects have asked for, in every state
\* between two calls, and nothing that is closed or removed.
InterestAgrees ==
    \A fd \in Fds : Looked(fd) = {d \in Flags : \E x \in All : obj[x].fd = fd /\ obj[x][d]}

\* An object has a timer in the list exactly if it believes so, the one that is
\* being executed apart; none is cancelled twice or fires after it was cancelled
\* (execute_timers, cancel_timer).
TimersAgree ==
    \A x \in Objs : Cardinality({t \in timers \ loop.it : t[2] = x}) = IF obj[x].timer THEN 1 ELSE 0

=============================================================================
