------------------------------- MODULE Proxy -------------------------------
(***************************************************************************)
(* zmq_proxy () and zmq_proxy_steerable (): a thread that moves messages   *)
(* between a frontend and a backend, copies them to a capture socket, and  *)
(* takes commands from a control socket.  Whether a socket can be read or  *)
(* written is asked once per round, of all of them, and used afterwards.   *)
(* A socket is what arrives at it, and how many messages it can take.      *)
(***************************************************************************)
EXTENDS Integers, Sequences

CONSTANTS Cases,     \* [same, capture]: is the frontend the backend; is there a capture
                     \*   socket, of a type that waits (one that drops is like none)
          Sizes,     \* parts of a message
          MaxMsgs,   \* bound on messages that arrive at each side
          MaxCmds,   \* bound on commands that arrive
          MaxRoom    \* what a socket can take at most

VARIABLES opt,
          in,        \* parts that wait at "front", "back" and "control"
          came,      \* how many messages have arrived at each
          room,      \* how many messages each output can take
          left,      \* outputs whose peers have left since they were asked
          pc,        \* where the proxy is
          rev,       \* sockets that were readable, and writable, when asked
          state,
          hand,      \* the part that was received
          taken,     \* parts received, as they came
          out,       \* parts accepted by "front" and "back"
          seen       \* parts accepted by the capture socket

vars == <<opt, in, came, room, left, pc, rev, state, hand, taken, out, seen>>

Sides == {"front", "back"}
Outputs == Sides \cup {"capture"}
Other(s) == IF opt.same THEN s ELSE IF s = "front" THEN "back" ELSE "front"
Sources == (IF opt.same THEN {"front"} ELSE Sides) \cup {"control"}
None == [from |-> "none", m |-> 0, part |-> 0, of |-> 0, more |-> FALSE, text |-> ""]
Away == [at |-> "poll", from |-> "none"]
At(p, s) == [at |-> p, from |-> s]

Init ==
    /\ opt \in Cases
    /\ in = [s \in Sides \cup {"control"} |-> <<>>]
    /\ came = [s \in Sides \cup {"control"} |-> 0]
    /\ room = [s \in Outputs |-> 1] /\ left = {}
    /\ pc = Away /\ rev = [in |-> {}, out |-> {}]
    /\ state = "active" /\ hand = None
    /\ taken = <<>> /\ out = [s \in Sides |-> <<>>] /\ seen = <<>>

-----------------------------------------------------------------------------
(* The peers.                                                               *)

Parts(s, m, n, text) ==
    [i \in 1..n |-> [from |-> s, m |-> m, part |-> i, of |-> n, more |-> i < n, text |-> text]]

Arrives(s, n) ==
    /\ s \in Sources \ {"control"} /\ came[s] < MaxMsgs
    /\ came' = [came EXCEPT ![s] = @ + 1]
    /\ in' = [in EXCEPT ![s] = @ \o Parts(s, came[s] + 1, n, "")]
    /\ UNCHANGED <<opt, room, left, pc, rev, state, hand, taken, out, seen>>

Commanded(text, n) ==
    /\ came["control"] < MaxCmds
    /\ came' = [came EXCEPT !["control"] = @ + 1]
    /\ in' = [in EXCEPT !["control"] = @ \o Parts("control", came["control"] + 1, n, text)]
    /\ UNCHANGED <<opt, room, left, pc, rev, state, hand, taken, out, seen>>

Room(s) ==
    /\ room[s] < MaxRoom
    /\ room' = [room EXCEPT ![s] = @ + 1]
    /\ UNCHANGED <<opt, in, came, left, pc, rev, state, hand, taken, out, seen>>

\* The peers of an output leave.  What the socket does to a message of which it has
\* sent a part is not the proxy's.
Leaves(s) ==
    /\ room[s] > 0 /\ s # "capture" /\ (hand = None \/ hand.part = 1)
    /\ room' = [room EXCEPT ![s] = 0]
    /\ left' = left \cup {s}
    /\ UNCHANGED <<opt, in, came, pc, rev, state, hand, taken, out, seen>>

-----------------------------------------------------------------------------
(* The proxy.                                                               *)

Readable == {s \in Sources : in[s] # <<>>}

\* zmq_poll () over the inputs returns when there is one.
poll ==
    /\ pc.at = "poll" /\ Readable # {}
    /\ rev' = [rev EXCEPT !.in = Readable]
    /\ pc' = At(IF opt.same THEN "control" ELSE "pollout", "none")
    /\ UNCHANGED <<opt, in, came, room, left, state, hand, taken, out, seen>>

\* zmq_poll () over the outputs does not wait.
poll_out ==
    /\ pc.at = "pollout"
    /\ rev' = [rev EXCEPT !.out = {s \in Sides : room[s] > 0}]
    /\ left' = {}
    /\ pc' = At("control", "none")
    /\ UNCHANGED <<opt, in, came, room, state, hand, taken, out, seen>>

Takes(s, p) ==
    /\ hand' = Head(in[s]) /\ in' = [in EXCEPT ![s] = Tail(@)]
    /\ taken' = Append(taken, Head(in[s]))
    /\ pc' = At(p, s)

\* A command of several parts makes the proxy return.
control ==
    /\ pc.at = "control"
    /\ IF "control" \notin rev.in THEN pc' = At("request", "none") /\ UNCHANGED <<in, hand, taken>>
       ELSE Takes("control", IF Head(in["control"]).more THEN "returned" ELSE "capture")
    /\ UNCHANGED <<opt, came, room, left, rev, state, out, seen>>

\* The texts other than these are refused by an assertion.
Steered(text) == CASE text = "PAUSE" -> "paused" [] text = "RESUME" -> "active" [] text = "TERMINATE" -> "terminated"

Forwards_Blindly(s) == state = "active" /\ s \in rev.in
Forwards(s) == state = "active" /\ s \in rev.in /\ (opt.same \/ Other(s) \in rev.out)

request ==
    /\ pc.at = "request"
    /\ pc' = IF Forwards("front") THEN At("recv", "front") ELSE At("reply", "none")
    /\ UNCHANGED <<opt, in, came, room, left, rev, state, hand, taken, out, seen>>

NextRound == IF state = "terminated" THEN At("returned", "none") ELSE Away

reply ==
    /\ pc.at = "reply"
    /\ pc' = IF ~opt.same /\ Forwards("back") THEN At("recv", "back") ELSE NextRound
    /\ UNCHANGED <<opt, in, came, room, left, rev, state, hand, taken, out, seen>>

recv ==
    /\ pc.at = "recv" /\ in[pc.from] # <<>>
    /\ Takes(pc.from, "capture")
    /\ UNCHANGED <<opt, came, room, left, rev, state, out, seen>>

\* The watermark is in messages: the last part uses up a place.
Used(s, more) == IF more THEN room ELSE [room EXCEPT ![s] = @ - 1]
After(from) == IF from = "front" THEN At("reply", "none") ELSE NextRound

\* A copy goes to the capture socket first, which may have to wait.
Captured_Ended(p) == [p EXCEPT !.more = FALSE]
Captured(p) == p

capture ==
    /\ pc.at = "capture"
    /\ LET more == Captured(hand).more
       IN  \/ ~opt.capture /\ UNCHANGED <<room, seen>>
           \/ /\ opt.capture /\ room["capture"] > 0
              /\ seen' = Append(seen, Captured(hand))
              /\ room' = Used("capture", more)
    /\ IF pc.from = "control"
       THEN /\ state' = Steered(hand.text) /\ hand' = None
            /\ pc' = At("request", "none")
       ELSE pc' = At("send", pc.from) /\ UNCHANGED <<state, hand>>
    /\ UNCHANGED <<opt, in, came, left, rev, taken, out>>

send ==
    LET to == Other(pc.from)
    IN  /\ pc.at = "send" /\ room[to] > 0
        /\ out' = [out EXCEPT ![to] = Append(@, hand)]
        /\ room' = Used(to, hand.more)
        /\ hand' = None
        /\ pc' = IF hand.more THEN At("recv", pc.from) ELSE After(pc.from)
        /\ UNCHANGED <<opt, in, came, left, rev, state, taken, seen>>

\* A call fails: the context is terminated, or a signal interrupts a wait.
Fails ==
    /\ pc.at \in {"poll", "pollout", "recv", "capture", "send"}
    /\ pc' = At("returned", pc.from)
    /\ UNCHANGED <<opt, in, came, room, left, rev, state, hand, taken, out, seen>>

Next ==
    \/ \E s \in Sides, n \in Sizes : Arrives(s, n)
    \/ \E t \in {"PAUSE", "RESUME", "TERMINATE"}, n \in {1, 2} : Commanded(t, n)
    \/ \E s \in Outputs : Room(s) \/ Leaves(s)
    \/ poll \/ poll_out \/ control \/ request \/ reply \/ recv \/ capture \/ send \/ Fails

Spec == Init /\ [][Next]_vars

-----------------------------------------------------------------------------
From(log, s) == SelectSeq(log, LAMBDA p : p.from = s)
Prefix(s, t) == Len(s) <= Len(t) /\ s = SubSeq(t, 1, Len(s))
Continues(log) == \A i \in 1..Len(log) :
    /\ log[i].more <=> log[i].part < log[i].of
    /\ log[i].part > 1 => i > 1 /\ log[i - 1].m = log[i].m /\ log[i - 1].from = log[i].from /\ log[i - 1].part = log[i].part - 1

\* What one side receives the other one gets, all of it, whole and in order, but for
\* the part that is in hand; a capture socket that waits gets every part
\* first, the two directions never mixed within a message (forward, capture).
ForwardedWhole ==
    LET held(s) == IF hand.from = s THEN <<hand>> ELSE <<>>
    IN  /\ \A s \in Sources \ {"control"} : From(taken, s) = From(out[Other(s)], s) \o held(s)
        /\ \A s \in Sides : Continues(out[s])
        /\ opt.capture =>
                /\ Continues(seen) /\ Prefix(seen, taken) /\ Len(taken) <= Len(seen) + 1
                /\ pc.at = "send" => seen = taken

\* The proxy never waits for a full output, which would hold up the other direction:
\* it was asked before, and only a peer that leaves in between makes it wait (proxy).
NeverWaitsForOutput ==
    pc.at = "send" /\ ~opt.same /\ room[Other(pc.from)] = 0 => Other(pc.from) \in left

=============================================================================
