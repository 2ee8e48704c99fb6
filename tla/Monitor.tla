------------------------------ MODULE Monitor ------------------------------
(***************************************************************************)
(* The events of a socket: its I/O threads and the application's send them *)
(* as two frames each on a PAIR socket of its own, which they share under  *)
(* monitor_sync.  A thread that cannot send waits, and keeps the mutex.    *)
(*                                                                         *)
(* The PAIR never reads.  When its reader closes, its pipe waits for a     *)
(* delimiter that nobody takes: it can not be written to any more, and no  *)
(* other reader is accepted.                                               *)
(***************************************************************************)
EXTENDS Integers, Sequences

CONSTANTS IoThreads,
          Monitors,     \* numbers of the PAIR sockets that are made
          Readers,
          Hwm,          \* events that fit into the pipe
          MaxEvents     \* bound on events

VARIABLES mon,      \* monitor_socket, 0 if none; monitor_events
          sync,     \* holder of monitor_sync
          pair,     \* the PAIR sockets
          reader,   \* the sockets that read
          self,     \* the monitored socket: ctx_terminated, its stop command, its life
          pc,       \* where each thread is
          ctx,      \* is the context terminating
          events,   \* how many events there were
          cut       \* has a signal interrupted a wait

vars == <<mon, sync, pair, reader, self, pc, ctx, events, cut>>

App == "app"
Reaper == "reaper"
Threads == IoThreads \cup {App, Reaper}
Nobody == "nobody"
Stopped == "stopped"
Idle == [at |-> "idle", op |-> "none", ev |-> "none", frame |-> 0]
Frame(n, ev, id) == [frame |-> n, ev |-> ev, id |-> id]

Init ==
    /\ mon = [socket |-> 0, events |-> {}]
    /\ sync = Nobody
    /\ pair = [k \in Monitors |-> [st |-> "unmade", pipe |-> 0, credit |-> 0, half |-> <<>>, cmds |-> <<>>, ended |-> FALSE]]
    /\ reader = [r \in Readers |-> [st |-> "unmade", q |-> <<>>, last |-> Frame(2, "none", "none"), of |-> 0]]
    /\ self = [term |-> FALSE, stop |-> FALSE, st |-> "open"]
    /\ pc = [t \in Threads |-> Idle]
    /\ ctx = FALSE /\ events = 0 /\ cut = FALSE

-----------------------------------------------------------------------------
(* The PAIR socket: P is [pair, reader] with the commands of k processed.   *)

Bound(P, k, r) ==
    IF P.pair[k].pipe = 0
    THEN [P EXCEPT !.pair[k].pipe = r, !.pair[k].credit = Hwm]
    ELSE [P EXCEPT !.reader[r].st = "rejected"]

Processed1(P, k, c) ==
    CASE c[1] = "bind"   -> Bound(P, k, c[2])
      [] c[1] = "room"   -> [P EXCEPT !.pair[k].credit = @ + 1]
      [] c[1] = "term"   -> IF P.pair[k].pipe = c[2] THEN [P EXCEPT !.pair[k].credit = 0] ELSE P
      [] c[1] = "stop"   -> [P EXCEPT !.pair[k].ended = TRUE]

RECURSIVE process_commands(_, _)
process_commands(P, k) ==
    IF P.pair[k].cmds = <<>> THEN P
    ELSE process_commands(Processed1([P EXCEPT !.pair[k].cmds = Tail(@)], k, Head(P.pair[k].cmds)), k)

CanSend(P, k) == P.pair[k].pipe # 0 /\ P.pair[k].credit > 0

xsend(P, k, f) ==
    LET r == P.pair[k].pipe
        msg == Append(P.pair[k].half, f)
    IN  IF f.frame = 1 THEN [P EXCEPT !.pair[k].half = msg]
        ELSE [P EXCEPT !.pair[k].half = <<>>, !.pair[k].credit = @ - 1, !.reader[r].q = @ \o msg]

Now == [pair |-> pair, reader |-> reader]
Becomes(P) == pair' = P.pair /\ reader' = P.reader

-----------------------------------------------------------------------------
(* Threads.  An operation takes the mutex, may send an event, and ends.     *)

Begins(t, op, ev) ==
    /\ pc[t] = Idle
    /\ pc' = [pc EXCEPT ![t] = [at |-> "lock", op |-> op, ev |-> ev, frame |-> 1]]

\* An event of a listener, a connecter or an engine, in an I/O thread, or in the
\* application's for one that is bound.
Happens(t) ==
    /\ events < MaxEvents /\ t # Reaper /\ self.st # "gone" /\ (t = App => self.st = "open")
    /\ events' = events + 1
    /\ Begins(t, "event", "e")
    /\ UNCHANGED <<mon, sync, pair, reader, self, ctx, cut>>

\* zmq_socket_monitor with an address or NULL, and a call that finds the stop command
Called(op) ==
    /\ self.st = "open" /\ (op = "process_stop" => self.stop)
    /\ Begins(App, op, Stopped)
    /\ UNCHANGED <<mon, sync, pair, reader, self, ctx, events, cut>>

\* The reaper deletes the socket when all that belongs to it is gone.
Deleted ==
    /\ self.st = "closed" /\ \A t \in Threads : pc[t] = Idle
    /\ self' = [self EXCEPT !.st = "gone"]
    /\ Begins(Reaper, "delete", Stopped)
    /\ UNCHANGED <<mon, sync, pair, reader, ctx, events, cut>>

\* The mutex is held, or given back.
Goes(t, at) == sync' = t /\ pc' = [pc EXCEPT ![t].at = at]
Ends(t) == sync' = Nobody /\ pc' = [pc EXCEPT ![t] = Idle]

Sends(op) ==
    /\ mon.socket # 0
    /\ op = "event" => "e" \in mon.events
    /\ op # "event" => Stopped \in mon.events

Locked(t) ==
    /\ pc[t].at = "lock"
    /\ IF pc[t].op \in {"start", "stop"} /\ self.term THEN Ends(t)
       ELSE IF Sends(pc[t].op) THEN Goes(t, "send")
       ELSE IF pc[t].op = "event" THEN Ends(t) ELSE Goes(t, "close")
    /\ UNCHANGED <<mon, pair, reader, self, ctx, events, cut>>
lock_Free(t) == Locked(t)
lock(t) == sync = Nobody /\ Locked(t)

\* The next frame, whether or not this one could be sent: the result is not looked at.
AfterFrame(t) ==
    IF pc[t].frame = 1 THEN sync' = t /\ pc' = [pc EXCEPT ![t].at = "send", ![t].frame = 2]
    ELSE IF pc[t].op = "event" THEN Ends(t) ELSE Goes(t, "close")

Tried_Again(t, P, k) ==
    IF CanSend(P, k)
    THEN Becomes(xsend(P, k, Frame(pc[t].frame, pc[t].ev, t))) /\ AfterFrame(t)
    ELSE Becomes(P) /\ Goes(t, "wait")
Tried(t, P, k) ==
    IF P.pair[k].ended THEN Becomes(P) /\ AfterFrame(t)
    ELSE IF CanSend(P, k)
    THEN Becomes(xsend(P, k, Frame(pc[t].frame, pc[t].ev, t))) /\ AfterFrame(t)
    ELSE Becomes(P) /\ Goes(t, "wait")

\* zmq_sendmsg: commands may not be looked at when that was done just before.
send(t, throttled) ==
    LET k == mon.socket
    IN  /\ pc[t].at = "send"
        /\ Tried(t, IF throttled \/ pair[k].ended THEN Now ELSE process_commands(Now, k), k)
        /\ UNCHANGED <<mon, self, ctx, events, cut>>

wait(t) ==
    LET k == mon.socket
    IN  /\ pc[t].at = "wait" /\ pair[k].cmds # <<>>
        /\ Tried(t, process_commands(Now, k), k)
        /\ UNCHANGED <<mon, self, ctx, events, cut>>

\* I/O threads and the reaper block all signals.
Interrupted ==
    /\ ~cut /\ pc[App].at = "wait"
    /\ cut' = TRUE
    /\ AfterFrame(App)
    /\ UNCHANGED <<mon, pair, reader, self, ctx, events>>

\* The rest of stop_monitor: what was sent can still be read.  Then the new monitor
\* socket of monitor (), unless the context is terminating.
Closed == IF mon.socket = 0 THEN pair ELSE [pair EXCEPT ![mon.socket].st = "closed", ![mon.socket].half = <<>>]
Unmade == {k \in Monitors : pair[k].st = "unmade"}

close(t) ==
    /\ pc[t].at = "close"
    /\ self' = [self EXCEPT !.term = @ \/ pc[t].op = "process_stop", !.stop = @ /\ pc[t].op # "process_stop"]
    /\ \/ /\ pc[t].op # "start" \/ ctx
          /\ mon' = [socket |-> 0, events |-> {}] /\ pair' = Closed
       \/ /\ pc[t].op = "start" /\ ~ctx
          /\ \E k \in Unmade :
                /\ \A j \in Unmade : k <= j
                /\ mon' = [socket |-> k, events |-> {"e", Stopped}]
                /\ pair' = [Closed EXCEPT ![k].st = "open"]
    /\ Ends(t)
    /\ UNCHANGED <<reader, ctx, events, cut>>

\* The address of the new monitor socket is in use: it is closed at once.
bind_fails ==
    /\ pc[App].at = "close" /\ pc[App].op = "start" /\ ~ctx
    /\ mon' = [socket |-> 0, events |-> {}] /\ pair' = Closed
    /\ Ends(App)
    /\ UNCHANGED <<reader, self, ctx, events, cut>>

zmq_close ==
    /\ self.st = "open" /\ pc[App] = Idle
    /\ self' = [self EXCEPT !.st = "closed"]
    /\ UNCHANGED <<mon, sync, pair, reader, pc, ctx, events, cut>>

-----------------------------------------------------------------------------
(* The readers, and the end of the context.                                 *)

Told(k, c) == [pair EXCEPT ![k].cmds = Append(@, c)]

reader_connect(r, k) ==
    /\ reader[r].st = "unmade" /\ pair[k].st = "open"
    /\ \A s \in Readers : reader[s].st = "unmade" => r <= s    \* they are all alike
    /\ reader' = [reader EXCEPT ![r].st = "open", ![r].of = k]
    /\ pair' = Told(k, <<"bind", r>>)
    /\ UNCHANGED <<mon, sync, self, pc, ctx, events, cut>>

reader_recv(r) ==
    /\ reader[r].st \in {"open", "rejected"} /\ reader[r].q # <<>>
    /\ reader' = [reader EXCEPT ![r].q = Tail(@), ![r].last = Head(reader[r].q)]
    /\ pair' = IF Head(reader[r].q).frame = 2 THEN Told(reader[r].of, <<"room", r>>) ELSE pair
    /\ UNCHANGED <<mon, sync, self, pc, ctx, events, cut>>

reader_close(r) ==
    /\ reader[r].st = "open"
    /\ reader' = [reader EXCEPT ![r].st = "gone", ![r].q = <<>>]
    /\ pair' = Told(reader[r].of, <<"term", r>>)
    /\ UNCHANGED <<mon, sync, self, pc, ctx, events, cut>>

\* zmq_ctx_term tells every socket.
zmq_ctx_term ==
    /\ ~ctx
    /\ ctx' = TRUE
    /\ pair' = [k \in Monitors |-> IF pair[k].st = "open" THEN Told(k, <<"stop">>)[k] ELSE pair[k]]
    /\ self' = [self EXCEPT !.stop = TRUE]
    /\ UNCHANGED <<mon, sync, reader, pc, events, cut>>

Next ==
    \/ \E t \in Threads :
          Happens(t) \/ lock(t) \/ wait(t) \/ close(t) \/ \E b \in BOOLEAN : send(t, b)
    \/ \E op \in {"start", "stop", "process_stop"} : Called(op)
    \/ Deleted \/ Interrupted \/ bind_fails \/ zmq_close \/ zmq_ctx_term
    \/ \E r \in Readers : reader_recv(r) \/ reader_close(r) \/ \E k \in Monitors : reader_connect(r, k)

Spec == Init /\ [][Next]_vars

-----------------------------------------------------------------------------
\* A reader gets each event as its two frames, of the same event, one event after
\* the other, although several threads send them (monitor_event under monitor_sync).
\* A signal that interrupts the application in between costs a frame.
EventsWhole ==
    ~cut => \A r \in {r \in Readers : reader[r].st # "gone"} :
        LET s == <<reader[r].last>> \o reader[r].q
        IN  /\ s[Len(s)].frame = 2
            /\ \A i \in 2..Len(s) : s[i].frame = 3 - s[i - 1].frame
            /\ \A i \in 2..Len(s) : s[i].frame = 2 => s[i].id = s[i - 1].id /\ s[i].ev = s[i - 1].ev

\* Waits for somebody else than the reader
Stuck(t) == pc[t].at = "wait" /\ pair[mon.socket].cmds = <<>>

\* A thread that waits to send an event is released by the end of the context, and
\* with it those that wait for monitor_sync (process_stop, process_commands).
TermReleases == ctx => \A t \in Threads : ~Stuck(t)

\* The socket that a thread waits on is the one it began with, and open: nobody
\* replaces or closes a monitor socket that is in use (stop_monitor, monitor).
NotClosedInUse ==
    \A t \in Threads : pc[t].at \in {"send", "wait"} => sync = t /\ mon.socket # 0 /\ pair[mon.socket].st = "open"

=============================================================================
