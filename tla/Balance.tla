------------------------------ MODULE Balance ------------------------------
(***************************************************************************)
(* lb_t, fq_t and dist_t: how a socket spreads the messages it sends over  *)
(* its pipes, how it collects the ones it receives, and how it sends one   *)
(* message to many.                                                        *)
(*                                                                         *)
(* The first two keep their pipes in an array whose first 'active' items   *)
(* can be used; 'current' is the one in turn.  A pipe that turns out to be *)
(* full (or empty) is swapped behind the active ones, from where only a    *)
(* call of activated () brings it back.  Indices start at 1 here.          *)
(*                                                                         *)
(* A pipe is what its socket sees of it (Pipe has both ends): its state,   *)
(* the flags in_active and out_active, the parts it can read (rx), the     *)
(* messages its peer has not read (tx) and the parts not yet flushed (w).  *)
(* The operators map the record of an object, and the function P from      *)
(* pipes to their records, to new ones; the modules of the sockets use     *)
(* them in their actions.                                                  *)
(***************************************************************************)
EXTENDS Integers, Sequences

CONSTANTS Hwm,     \* high watermark of what the socket writes
          NoPipe   \* the null pointer

ASSUME HwmAssumption == Hwm \in Nat \ {0}

Delimiter == [part |-> "delimiter", more |-> FALSE]

NewPipe == [state |-> "active", in_active |-> TRUE, out_active |-> TRUE,
            rx |-> <<>>, tx |-> <<>>, w |-> <<>>]

(***************************************************************************)
(* The calls of pipe_t.  "waiting" is waiting_for_delimiter; "closing"     *)
(* stands for every later state, in which nothing is read or written.      *)
(***************************************************************************)
CanRead(P, p) == P[p].in_active /\ P[p].state \in {"active", "waiting"}

check_read(P, p) == CanRead(P, p) /\ P[p].rx # <<>> /\ Head(P[p].rx) # Delimiter

\* What a call that returns false leaves behind: a delimiter is consumed.
ReadFailed(P, p) ==
    IF ~CanRead(P, p) THEN P
    ELSE IF P[p].rx = <<>> THEN [P EXCEPT ![p].in_active = FALSE]
    ELSE [P EXCEPT ![p].rx = Tail(@), ![p].state = "closing"]

read(P, p) == [P EXCEPT ![p].rx = Tail(@)]

check_write(P, p) ==
    P[p].out_active /\ P[p].state = "active" /\ Len(P[p].tx) < Hwm

WriteFailed(P, p) ==
    IF P[p].state = "active" THEN [P EXCEPT ![p].out_active = FALSE] ELSE P

write(P, p, m) == [P EXCEPT ![p].w = Append(@, m)]

\* A message whose last part was written becomes visible to the peer.
flush(P, p) == [P EXCEPT ![p].tx = Append(@, P[p].w), ![p].w = <<>>]

rollback(P, p) == [P EXCEPT ![p].w = <<>>]

\* terminate (): the incomplete message is rolled back; a pipe that waits for
\* its delimiter goes on waiting unless the caller does not want it to.
terminate(P, p, delay) ==
    IF P[p].state = "active" \/ (P[p].state = "waiting" /\ ~delay)
    THEN [P EXCEPT ![p].state = "closing", ![p].out_active = FALSE, ![p].w = <<>>]
    ELSE P

(***************************************************************************)
(* array_t and what the two classes have in common.                        *)
(***************************************************************************)
swap(s, i, j) == [s EXCEPT ![i] = s[j], ![j] = s[i]]
index(s, p) == CHOOSE i \in DOMAIN s : s[i] = p
erase(s, i) == SubSeq([s EXCEPT ![i] = s[Len(s)]], 1, Len(s) - 1)

Current(b) == b.pipes[b.current]

\* The pipe in turn is of no use: it goes behind the active ones.
Deactivate(b) ==
    [b EXCEPT !.active = @ - 1,
              !.pipes = swap(@, b.current, b.active),
              !.current = IF @ = b.active THEN 1 ELSE @]

\* The loops over the active pipes: all up to the first usable one, or all
\* of them, are deactivated.  Usable is tested before the pipe is changed.
Tries(b) ==
    LET t[k \in 0..b.active] == IF k = 0 THEN b ELSE Deactivate(t[k - 1]) IN t

FirstTry(t, Usable) ==
    CHOOSE k \in DOMAIN t :
        /\ t[k].active = 0 \/ Current(t[k]) \in Usable
        /\ \A j \in 0..k - 1 : Current(t[j]) \notin Usable

\* b after k tries, and the pipes that were skipped
AfterTries(t, k) == [b |-> t[k], skipped |-> {Current(t[j]) : j \in 0..k - 1}]

Search(b, Usable) == LET t == Tries(b) IN AfterTries(t, FirstTry(t, Usable))

\* Variant that forgets to count the pipe.
activated_NotCounted(b, p) ==
    [b EXCEPT !.pipes = swap(@, index(@, p), b.active + 1)]

activated(b, p) ==
    [b EXCEPT !.pipes = swap(@, index(@, p), b.active + 1), !.active = @ + 1]

\* lb_t pushes the pipe back and activates it; fq_t swaps it at once.
attach(b, p) ==
    [b EXCEPT !.pipes = swap(Append(@, p), b.active + 1, Len(@) + 1),
              !.active = @ + 1]

Remove(b, p) ==
    LET i == index(b.pipes, p)
        active == IF i <= b.active
                  THEN [b EXCEPT !.active = @ - 1, !.pipes = swap(@, i, b.active),
                                 !.current = IF @ = b.active THEN 1 ELSE @]
                  ELSE b
    IN  [active EXCEPT !.pipes = erase(@, index(@, p))]

\* A part went through; at the end of the message it is the next one's turn.
Turn(b, m) == [b EXCEPT !.more = m.more,
                        !.current = IF m.more THEN @ ELSE (@ % b.active) + 1]

(***************************************************************************)
(* lb_t.                                                                   *)
(***************************************************************************)
Lb == [pipes |-> <<>>, active |-> 0, current |-> 1, more |-> FALSE, dropping |-> FALSE]

\* Variant that does not drop the rest of a message whose pipe has ended.
lb_pipe_terminated_NoDrop(l, p) == Remove(l, p)

lb_pipe_terminated(l, p) ==
    [Remove(l, p) EXCEPT !.dropping = @ \/ (index(l.pipes, p) = l.current /\ l.more)]

Writable(P) == {p \in DOMAIN P : check_write(P, p)}

\* What the pipes look like after the calls of check_write () that failed.
AfterSkips(P, ps) == [p \in DOMAIN P |-> IF p \in ps THEN WriteFailed(P, p)[p] ELSE P[p]]

LbWrite(l, P, m) ==
    IF l.active = 0 THEN [rc |-> -1, to |-> NoPipe, lb |-> l, P |-> P]
    ELSE [rc |-> 0, to |-> Current(l), lb |-> Turn(l, m),
          P |-> IF m.more THEN write(P, Current(l), m) ELSE flush(write(P, Current(l), m), Current(l))]

LbFound(found, P, m) == LbWrite(found.b, AfterSkips(P, found.skipped), m)

\* sendpipe (): rc is 0 or -1 (EAGAIN), to the pipe written to, if any.
lb_sendpipe(l, P, m) ==
    IF l.dropping
    THEN [rc |-> 0, to |-> NoPipe, P |-> P, lb |-> [l EXCEPT !.more = m.more, !.dropping = m.more]]
    ELSE IF l.more /\ l.active > 0 /\ ~check_write(P, Current(l))
    THEN [rc |-> -1, to |-> NoPipe, lb |-> [l EXCEPT !.more = FALSE],
          P |-> rollback(WriteFailed(P, Current(l)), Current(l))]
    ELSE LbFound(Search(l, Writable(P)), P, m)

lb_has_out(l, P) ==
    LET found == Search(l, Writable(P))
    IN  IF l.more THEN [lb |-> l, P |-> P]
        ELSE [lb |-> found.b, P |-> AfterSkips(P, found.skipped)]

(***************************************************************************)
(* fq_t.                                                                   *)
(***************************************************************************)
Fq == [pipes |-> <<>>, active |-> 0, current |-> 1, more |-> FALSE]

fq_pipe_terminated(f, p) == Remove(f, p)

Readable(P) == {p \in DOMAIN P : check_read(P, p)}

AfterLooks(P, ps) == [p \in DOMAIN P |-> IF p \in ps THEN ReadFailed(P, p)[p] ELSE P[p]]

FqMsg(f, P, m, ok) ==
    [rc |-> 0, from |-> Current(f), msg |-> m, P |-> read(P, Current(f)), fq |-> Turn(f, m), ok |-> ok]

FqRead(f, P, ok) ==
    IF f.active = 0
    THEN [rc |-> -1, from |-> NoPipe, msg |-> Delimiter, fq |-> f, P |-> P, ok |-> ok]
    ELSE FqMsg(f, P, Head(P[Current(f)].rx), ok)

FqFound(found, P, more) ==
    FqRead(found.b, AfterLooks(P, found.skipped), found.skipped = {} \/ ~more)

\* recvpipe (): ok is the zmq_assert (!more) when a read fails.
fq_recvpipe(f, P) == FqFound(Search(f, Readable(P)), P, f.more)

fq_has_in(f, P) ==
    LET found == Search(f, Readable(P))
    IN  IF f.more THEN [rc |-> 0, fq |-> f, P |-> P]
        ELSE [rc |-> IF found.b.active > 0 THEN 0 ELSE -1,
              fq |-> found.b, P |-> AfterLooks(P, found.skipped)]

(***************************************************************************)
(* dist_t.  The array of the pipes begins with the ones that match the     *)
(* message being sent, then the active ones, then the eligible ones, which *)
(* become active when the message ends; the rest are full or going.        *)
(***************************************************************************)
Dist == [pipes |-> <<>>, matching |-> 0, active |-> 0, eligible |-> 0, more |-> FALSE]

dist_attach(d, p) ==
    LET at == IF d.more THEN d.eligible + 1 ELSE d.active + 1
    IN  [d EXCEPT !.pipes = swap(Append(@, p), at, Len(@) + 1),
                  !.active = IF d.more THEN @ ELSE @ + 1,
                  !.eligible = @ + 1]

dist_match(d, p) ==
    LET i == index(d.pipes, p)
    IN  IF i <= d.matching \/ i > d.eligible THEN d
        ELSE [d EXCEPT !.pipes = swap(@, i, d.matching + 1), !.matching = @ + 1]

dist_unmatch(d) == [d EXCEPT !.matching = 0]

\* The eligible pipes that do not match are swapped to the front, one by one.
reverse_match(d) ==
    LET n == d.eligible - d.matching
        t[k \in 0..n] == IF k = 0 THEN d.pipes ELSE swap(t[k - 1], d.matching + k, k)
    IN  [d EXCEPT !.pipes = t[n], !.matching = n]

\* Swaps the pipe to the end of one of the three parts, if it is in it.
LeavePart(d, p, n) ==
    IF index(d.pipes, p) <= n THEN swap(d.pipes, index(d.pipes, p), n) ELSE d.pipes

Without(d, p, n) == IF index(d.pipes, p) <= n THEN n - 1 ELSE n
LeaveMatching(d, p) == [d EXCEPT !.pipes = LeavePart(d, p, d.matching), !.matching = Without(d, p, @)]
LeaveActive(d, p) == [d EXCEPT !.pipes = LeavePart(d, p, d.active), !.active = Without(d, p, @)]
LeaveEligible(d, p) == [d EXCEPT !.pipes = LeavePart(d, p, d.eligible), !.eligible = Without(d, p, @)]

dist_pipe_terminated(d, p) ==
    [LeaveEligible(LeaveActive(LeaveMatching(d, p), p), p) EXCEPT !.pipes = erase(@, index(@, p))]

dist_activated(d, p) ==
    LET d1 == IF d.eligible < Len(d.pipes)
              THEN [d EXCEPT !.pipes = swap(@, index(@, p), d.eligible + 1), !.eligible = @ + 1]
              ELSE d
    IN  IF ~d.more /\ d1.active < Len(d1.pipes)
        THEN [d1 EXCEPT !.pipes = swap(@, d1.eligible, d1.active + 1), !.active = @ + 1]
        ELSE d1

\* A write failed: the pipe leaves all three parts.
WriteFailedMove(d, p) ==
    LET s1 == swap(d.pipes, index(d.pipes, p), d.matching)
        s2 == swap(s1, index(s1, p), d.active)
    IN  [d EXCEPT !.pipes = swap(s2, d.active, d.eligible),
                  !.matching = @ - 1, !.active = @ - 1, !.eligible = @ - 1]

\* write () of the part m to the pipe at place i; ok counts the successes.
dist_write(r, m) ==
    LET p == r.d.pipes[r.ok + 1]
        P1 == write(r.P, p, m)
    IN  IF check_write(r.P, p)
        THEN [d |-> r.d, ok |-> r.ok + 1, P |-> IF m.more THEN P1 ELSE flush(P1, p)]
        ELSE [d |-> WriteFailedMove(r.d, p), ok |-> r.ok, P |-> WriteFailed(r.P, p)]

distribute(d, P, m) ==
    LET t[k \in 0..d.matching] ==
            IF k = 0 THEN [d |-> d, ok |-> 0, P |-> P] ELSE dist_write(t[k - 1], m)
    IN  t[d.matching]

Distributed(r, m) ==
    [P |-> r.P, d |-> [r.d EXCEPT !.active = IF m.more THEN @ ELSE r.d.eligible, !.more = m.more]]

send_to_matching(d, P, m) == Distributed(distribute(d, P, m), m)

send_to_all(d, P, m) == send_to_matching([d EXCEPT !.matching = d.active], P, m)

dist_check_hwm(d, P) == \A i \in 1..d.matching : Len(P[d.pipes[i]].tx) < Hwm
=============================================================================
