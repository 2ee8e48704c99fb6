------------------------------- MODULE Timers -------------------------------
(***************************************************************************)
(* The timers of the API, timers_t: a multimap ordered by the time a timer *)
(* is due, in which a cancelled timer stays until it comes to the front.   *)
(* Handlers call back while execute () holds an iterator into the map.     *)
(***************************************************************************)
EXTENDS Integers, Sequences

CONSTANTS Intervals,   \* of timers, positive
          MaxTimers,   \* bound on timers
          MaxClock,    \* bound on the clock
          MaxCalls     \* bound on calls of one handler

VARIABLES timers,      \* entries [when, id, interval] in the order of the map
          cancelled,   \* cancelled_timers
          next_id,     \* next_timer_id
          clock,       \* milliseconds
          exec,        \* execute (): its now, its iterator, the handler that runs
          answer,      \* what timeout () returned last
          due          \* for each timer that was not cancelled, when it has to run and
                       \*   its interval, as the caller knows them

vars == <<timers, cancelled, next_id, clock, exec, answer, due>>

None == 0
Away == [on |-> FALSE, now |-> 0, it |-> None, running |-> FALSE, n |-> 0]
Unknown == -2

Init ==
    /\ timers = <<>> /\ cancelled = {} /\ next_id = 0 /\ clock = 0
    /\ exec = Away /\ answer = Unknown /\ due = <<>>

Timer(when, id, interval) == [when |-> when, id |-> id, interval |-> interval]

\* insert () of the multimap: after the entries of the same time
Inserted(s, e) == SelectSeq(s, LAMBDA t : t.when <= e.when) \o <<e>> \o SelectSeq(s, LAMBDA t : t.when > e.when)
Erased(s, id) == SelectSeq(s, LAMBDA t : t.id # id)
Ids(s) == {s[i].id : i \in 1..Len(s)}
At(s, id) == CHOOSE i \in 1..Len(s) : s[i].id = id
After(s, id) == IF At(s, id) = Len(s) THEN None ELSE s[At(s, id) + 1].id
Without(f, id) == [i \in DOMAIN f \ {id} |-> f[i]]
With(f, id, v) == [i \in DOMAIN f \cup {id} |-> IF i = id THEN v ELSE f[i]]

\* Calls come from the caller of execute (), or from a handler, which leaves its
\* own entry in the map.
Called(id) ==
    IF ~exec.on THEN UNCHANGED exec
    ELSE exec.running /\ exec.n < MaxCalls /\ id # exec.it /\ exec' = [exec EXCEPT !.n = @ + 1]

Tick ==
    /\ clock < MaxClock
    /\ clock' = clock + 1 /\ answer' = Unknown
    /\ UNCHANGED <<timers, cancelled, next_id, exec, due>>

add(interval) ==
    LET id == next_id + 1
    IN  /\ next_id < MaxTimers /\ Called(None)
        /\ timers' = Inserted(timers, Timer(clock + interval, id, interval))
        /\ next_id' = id
        /\ due' = With(due, id, [when |-> clock + interval, interval |-> interval])
        /\ answer' = Unknown
        /\ UNCHANGED <<cancelled, clock>>

\* A handler may cancel its own timer.
cancel(id) ==
    /\ id \notin cancelled
    /\ Called(None)
    /\ cancelled' = cancelled \cup {id}
    /\ due' = Without(due, id)
    /\ answer' = Unknown
    /\ UNCHANGED <<timers, next_id, clock>>

Moved(id, interval) ==
    /\ timers' = Inserted(Erased(timers, id), Timer(clock + interval, id, interval))
    /\ due' = IF id \in DOMAIN due THEN With(due, id, [when |-> clock + interval, interval |-> interval]) ELSE due
    /\ answer' = Unknown
    /\ UNCHANGED <<cancelled, next_id, clock>>

set_interval(id, interval) == id \in Ids(timers) /\ Called(id) /\ Moved(id, interval)

reset(id) == id \in Ids(timers) /\ Called(id) /\ Moved(id, timers[At(timers, id)].interval)

\* timeout (): cancelled entries leave from the front until one is live.
Gone_Never(s) == {}
Gone(s) == {s[i].id : i \in {i \in 1..Len(s) : \A j \in 1..i : s[j].id \in cancelled}}

Remaining(s) == IF s = <<>> THEN -1 ELSE IF s[1].when > clock THEN s[1].when - clock ELSE 0

timeout ==
    LET rest == SelectSeq(timers, LAMBDA t : t.id \notin Gone(timers))
    IN  /\ ~exec.on
        /\ timers' = rest
        /\ cancelled' = cancelled \ Gone(timers)
        /\ answer' = Remaining(rest)
        /\ UNCHANGED <<next_id, clock, exec, due>>

First(s) == IF s = <<>> THEN None ELSE s[1].id

execute ==
    /\ ~exec.on
    /\ exec' = [Away EXCEPT !.on = TRUE, !.now = clock, !.it = First(timers)]
    /\ answer' = Unknown
    /\ UNCHANGED <<timers, cancelled, next_id, clock, due>>

AtEntry == exec.on /\ ~exec.running /\ exec.it # None
Entry == timers[At(timers, exec.it)]

RemoveCancelled ==
    /\ AtEntry /\ exec.it \in cancelled
    /\ timers' = Erased(timers, exec.it)
    /\ cancelled' = cancelled \ {exec.it}
    /\ exec' = [exec EXCEPT !.it = After(timers, exec.it)]
    /\ UNCHANGED <<next_id, clock, answer, due>>

CallHandler ==
    /\ AtEntry /\ exec.it \notin cancelled /\ Entry.when <= exec.now
    /\ exec' = [exec EXCEPT !.running = TRUE, !.n = 0]
    /\ UNCHANGED <<timers, cancelled, next_id, clock, answer, due>>

\* The timer is due again an interval after execute () began.
HandlerReturns ==
    LET id == exec.it
    IN  /\ exec.running
        /\ timers' = Inserted(Erased(timers, id), Timer(exec.now + Entry.interval, id, Entry.interval))
        /\ due' = IF id \in DOMAIN due THEN With(due, id, [due[id] EXCEPT !.when = exec.now + due[id].interval]) ELSE due
        /\ exec' = [exec EXCEPT !.running = FALSE, !.it = After(timers, id)]
        /\ UNCHANGED <<cancelled, next_id, clock, answer>>

\* The map is ordered: an entry that is not due ends the loop.
Ended == AtEntry => exec.it \notin cancelled /\ Entry.when > exec.now

execute_Done ==
    /\ exec.on /\ ~exec.running /\ Ended
    /\ exec' = Away
    /\ UNCHANGED <<timers, cancelled, next_id, clock, answer, due>>

Next ==
    \/ Tick \/ timeout \/ execute \/ RemoveCancelled \/ CallHandler \/ HandlerReturns \/ execute_Done
    \/ \E i \in Intervals : add(i) \/ \E id \in 1..next_id : set_interval(id, i)
    \/ \E id \in 1..next_id : cancel(id) \/ reset(id)

Spec == Init /\ [][Next]_vars

-----------------------------------------------------------------------------
\* What the caller knows is what the map does: a timer runs only while it was not
\* cancelled and not before it is due, execute () leaves none behind that was due
\* when it began, and timeout () answers with the first of those that are left.
TimersExact ==
    /\ \A id \in DOMAIN due :
          \E i \in 1..Len(timers) : timers[i] = Timer(due[id].when, id, due[id].interval)
    /\ exec.running => exec.it \in Ids(timers)
    /\ exec.on /\ ~exec.running /\ Ended => \A id \in DOMAIN due : due[id].when > exec.now
    /\ answer # Unknown =>
          LET left == {due[id].when : id \in DOMAIN due}
          IN  IF left = {} THEN answer = -1
              ELSE \E w \in left : (\A v \in left : w <= v) /\ answer = (IF w > clock THEN w - clock ELSE 0)

=============================================================================
