-------------------------------- MODULE Norm --------------------------------
(***************************************************************************)
(* norm_engine_t: frames over NORM, a reliable multicast that gives the    *)
(* receiver one byte stream per sender.  The NORM library (external) calls *)
(* nothing: it posts events, and its thread adds to the streams while the  *)
(* engine reads them.  A byte that can be told apart is a cell: cell 0 of  *)
(* a frame says whether the frame begins a message, cells 1..FrameLen are  *)
(* the frame as the v2 encoder makes it.  The first half is an engine that *)
(* sends, the second one an engine that receives from several senders.     *)
(***************************************************************************)
EXTENDS Integers, Sequences, SequencesExt

CONSTANTS Stream,     \* the remote senders
          MoreFlags,  \* the 'more' flag of each frame that a sender sends
          Sends,      \* how many of them each remote sender sends
          FrameLen,   \* cells of a frame
          Buffers,    \* how many cells may fit into a buffer
          Window,     \* cells that NORM takes before its queue is full
          Room        \* frames that the session's pipe takes

VARIABLES role,          \* "sender" or "receiver"
          buffer,        \* BUFFER_SIZE
          plugged,
          \* the sender
          output_ready, tx_ready,    \* zmq_output_ready, norm_tx_ready
          tx, tx_index,  \* the first tx_len cells of tx_buffer, and how many are written
          enc,           \* cells the encoder still holds
          first_msg, more_bit,       \* tx_first_msg, tx_more_bit
          queue, handed, \* frames the session can give, and how many it was handed
          wire, flushed, acked,   \* cells written to the stream, flushed, and gone out of NORM's queue
          vacancy,       \* the event NORM_TX_QUEUE_VACANCY is pending
          \* the receiver
          input_ready, rx_pending, rx_ready, msg_ready,
          rx,            \* the NormRxStreamState of each stream
          iter, at,      \* the streams the loop has still to visit, and the loop
          avail, pos,    \* of NORM: cells received, and the place of the reader
          broken,        \* of NORM: the next read fails
          updated,       \* streams with the event NORM_RX_OBJECT_UPDATED
          pipe, up       \* frames in the session's pipe, and all that were pushed

txvars == <<output_ready, tx_ready, tx, tx_index, enc, first_msg, more_bit, queue, handed, wire, flushed, acked, vacancy>>
rxvars == <<input_ready, rx_pending, rx_ready, msg_ready, rx, iter, at, avail, pos, broken, updated, pipe, up>>
normvars == <<role, buffer, plugged, txvars, rxvars>>

Frames == Len(MoreFlags)
First(f) == f = 1 \/ ~MoreFlags[f - 1]
Cells(f) == [i \in 1..FrameLen |-> <<f, i>>]

\* What a sender writes: every frame after the cell that says whether it is the
\* first one of its message.
Encoded == FlattenSeq([f \in 1..Frames |-> <<<<f, 0, First(f)>>>> \o Cells(f)])

\* The state before a stream is known; Fresh is what Init () makes of one that is.
NoState == [known |-> FALSE, ready |-> FALSE, sync |-> FALSE, skip |-> FALSE, buf |-> <<>>, dec |-> <<>>]

Fresh == [NoState EXCEPT !.known = TRUE, !.ready = TRUE]

Init == /\ role \in {"sender", "receiver"} /\ buffer \in Buffers /\ plugged = FALSE
        /\ output_ready = FALSE /\ tx_ready = FALSE
        /\ tx = <<>> /\ tx_index = 0 /\ enc = <<>> /\ first_msg = TRUE /\ more_bit = FALSE
        /\ queue = <<>> /\ handed = 0 /\ wire = <<>> /\ flushed = 0 /\ acked = 0 /\ vacancy = FALSE
        /\ input_ready = FALSE
        /\ rx_pending = <<>> /\ rx_ready = <<>> /\ msg_ready = <<>>
        /\ rx = [s \in Stream |-> NoState]
        /\ iter = <<>> /\ at = "idle"
        /\ avail = [s \in Stream |-> 0] /\ pos = [s \in Stream |-> 0]
        /\ broken = [s \in Stream |-> FALSE] /\ updated = {}
        /\ pipe = 0 /\ up = [s \in Stream |-> <<>>]

\* init (), then plug (): a sender starts to send.
plug ==
    /\ ~plugged /\ plugged' = TRUE
    /\ IF role = "sender"
       THEN /\ output_ready' = TRUE /\ tx_ready' = TRUE /\ at' = "send" /\ UNCHANGED input_ready
       ELSE input_ready' = TRUE /\ UNCHANGED <<output_ready, tx_ready, at>>
    /\ UNCHANGED <<role, buffer, tx, tx_index, enc, first_msg, more_bit, queue, handed, wire, flushed, acked, vacancy,
                   rx_pending, rx_ready, msg_ready, rx, iter, avail, pos, broken, updated, pipe, up>>
-----------------------------------------------------------------------------
(* The sender: one action is one turn of the loop in send_data (). *)

Idle == plugged /\ at = "idle"
Sent(s) == Len(s) - acked

\* Variant that forgets that the frame before was not the last of its message.
FlagOf_AlwaysFirst(f) == <<f, 0, TRUE>>

FlagOf(f) == <<f, 0, ~more_bit>>

\* Variant that takes the first message for sent when it is asked for.
Flush_Skips == /\ first_msg' = (wire = <<>>)
               /\ flushed' = IF first_msg THEN flushed ELSE Len(wire)

\* There is nothing to flush before the first message.
Flush == /\ first_msg' = FALSE
         /\ flushed' = IF first_msg THEN flushed ELSE Len(wire)

Min2(a, b) == IF a < b THEN a ELSE b

\* The buffer is empty: more of the frame, or the next frame, or nothing to send.
\* The end of a frame is flushed before the session is asked for the next.  Only a
\* new frame starts at the beginning of the buffer: tx_index stays what it was when
\* the rest of a frame is put there.
Fill ==
    /\ tx = <<>>
    /\ IF enc # <<>>
       THEN /\ tx' = SubSeq(enc, 1, Min2(buffer, Len(enc)))
            /\ enc' = SubSeq(enc, Min2(buffer, Len(enc)) + 1, Len(enc))
            /\ UNCHANGED <<tx_index, first_msg, more_bit, queue, output_ready, flushed>>
       ELSE IF queue # <<>>
       THEN LET f == Head(queue)
            IN  /\ tx' = <<FlagOf(f)>> \o SubSeq(Cells(f), 1, Min2(buffer - 1, FrameLen))
                /\ tx_index' = 0
                /\ enc' = SubSeq(Cells(f), Min2(buffer - 1, FrameLen) + 1, FrameLen)
                /\ more_bit' = MoreFlags[f]
                /\ queue' = Tail(queue)
                /\ Flush
                /\ UNCHANGED output_ready
       ELSE /\ output_ready' = FALSE
            /\ Flush
            /\ UNCHANGED <<tx, tx_index, enc, more_bit, queue>>
    /\ UNCHANGED <<tx_ready, wire>>

\* NORM takes what fits; a rest waits for the event that says there is room.
Write ==
    /\ tx_index < Len(tx)
    /\ LET n == Min2(Len(tx) - tx_index, Window - Sent(wire))
       IN  /\ wire' = wire \o SubSeq(tx, tx_index + 1, tx_index + n)
           /\ tx_index' = tx_index + n
           /\ tx_ready' = (tx_index' = Len(tx))
           /\ tx' = IF tx_ready' THEN <<>> ELSE tx
    /\ UNCHANGED <<output_ready, enc, first_msg, more_bit, queue, flushed>>

\* The loop turns round without doing anything, for ever: the buffer is neither
\* empty nor is there anything of it left to write.
Spins == at = "send" /\ output_ready /\ tx_ready /\ tx # <<>> /\ tx_index >= Len(tx)

send_data ==
    /\ at = "send"
    /\ IF output_ready /\ tx_ready
       THEN (Fill \/ Write) /\ UNCHANGED at
       ELSE at' = "idle" /\ UNCHANGED <<output_ready, tx_ready, tx, tx_index, enc, first_msg, more_bit, queue, wire, flushed>>
    /\ UNCHANGED <<role, buffer, plugged, handed, acked, vacancy, input_ready, rx_pending, rx_ready, msg_ready, rx, iter,
                   avail, pos, broken, updated, pipe, up>>

\* The application sends; the session tells an engine that ran dry.
restart_output ==
    /\ role = "sender" /\ Idle /\ handed < Frames
    /\ handed' = handed + 1
    /\ queue' = Append(queue, handed + 1)
    /\ output_ready' = TRUE
    /\ at' = IF tx_ready THEN "send" ELSE "idle"
    /\ UNCHANGED <<role, buffer, plugged, tx_ready, tx, tx_index, enc, first_msg, more_bit, wire, flushed, acked, vacancy, input_ready,
                   rx_pending, rx_ready, msg_ready, rx, iter, avail, pos, broken, updated, pipe, up>>

\* NORM's own thread sends what it was given.
transmits ==
    /\ Sent(wire) > 0
    /\ acked' = acked + 1
    /\ vacancy' = TRUE
    /\ UNCHANGED <<role, buffer, plugged, output_ready, tx_ready, tx, tx_index, enc, first_msg, more_bit, queue, handed, wire, flushed, rxvars>>

\* Variant that takes the event for news only when there is a frame to send.
in_event_vacancy_Output ==
    /\ Idle /\ vacancy
    /\ vacancy' = FALSE
    /\ IF ~tx_ready /\ queue # <<>> THEN tx_ready' = TRUE /\ at' = "send" ELSE UNCHANGED <<tx_ready, at>>
    /\ UNCHANGED <<role, buffer, plugged, output_ready, tx, tx_index, enc, first_msg, more_bit, queue, handed, wire, flushed, acked, input_ready,
                   rx_pending, rx_ready, msg_ready, rx, iter, avail, pos, broken, updated, pipe, up>>

in_event_vacancy ==
    /\ Idle /\ vacancy
    /\ vacancy' = FALSE
    /\ IF ~tx_ready THEN tx_ready' = TRUE /\ at' = "send" ELSE UNCHANGED <<tx_ready, at>>
    /\ UNCHANGED <<role, buffer, plugged, output_ready, tx, tx_index, enc, first_msg, more_bit, queue, handed, wire, flushed, acked, input_ready,
                   rx_pending, rx_ready, msg_ready, rx, iter, avail, pos, broken, updated, pipe, up>>
-----------------------------------------------------------------------------
(* NORM at the receiver: external. *)

\* The cells that a sender sends.
Total(s) == Sends[s] * (FrameLen + 1)

arrives(s) ==
    /\ role = "receiver" /\ plugged
    /\ avail[s] < Total(s)
    /\ \E n \in {1, FrameLen + 1} :
          avail' = [avail EXCEPT ![s] = Min2(@ + n, Total(s))]
    /\ updated' = updated \cup {s}
    /\ UNCHANGED <<role, buffer, plugged, txvars, input_ready, rx_pending, rx_ready, msg_ready, rx, iter, at, pos,
                   broken, pipe, up>>

\* What the reader has not read is overwritten: it goes on at a later place.
breaks(s) ==
    /\ role = "receiver" /\ pos[s] < avail[s] /\ ~broken[s] /\ avail[s] = Total(s)
    /\ \E p \in pos[s] + 1 .. avail[s] : pos' = [pos EXCEPT ![s] = p]
    /\ broken' = [broken EXCEPT ![s] = TRUE]
    /\ UNCHANGED <<role, buffer, plugged, txvars, input_ready, rx_pending, rx_ready, msg_ready, rx, iter, at, avail,
                   updated, pipe, up>>

\* NormStreamSeekMsgStart: the next place where a frame begins, or none.
Starts(s) == {p \in pos[s] .. avail[s] - 1 : Encoded[p + 1][2] = 0}
-----------------------------------------------------------------------------
(* The receiver *)

InList(s, list) == s \in ToSet(list)
Enlist(list, s) == Append(list, s)
Drop(list, s) == SelectSeq(list, LAMBDA x : x # s)

\* The loop goes on while there is something to read, or to push.
Loop(ready, msgs, input) ==
    IF ready # <<>> \/ (input /\ msgs # <<>>)
    THEN at' = "rx" /\ iter' = ready
    ELSE at' = "idle" /\ iter' = <<>>

\* recv_data (stream): the stream becomes ready to be read.
in_event_updated(s) ==
    /\ Idle /\ s \in updated
    /\ updated' = updated \ {s}
    /\ rx_pending' = IF rx[s].known /\ ~rx[s].ready THEN Drop(rx_pending, s) ELSE rx_pending
    /\ rx_ready' = IF rx[s].ready THEN rx_ready ELSE Enlist(rx_ready, s)
    /\ rx' = [rx EXCEPT ![s].known = TRUE, ![s].ready = TRUE]
    /\ Loop(rx_ready', msg_ready, input_ready)
    /\ UNCHANGED <<role, buffer, plugged, txvars, input_ready, msg_ready, avail, pos, broken, pipe, up>>

\* The sender is gone: its state is deleted, from whatever list it is in.
Deleted(s) ==
    /\ rx_pending' = Drop(rx_pending, s) /\ rx_ready' = Drop(rx_ready, s) /\ msg_ready' = Drop(msg_ready, s)
    /\ rx' = [rx EXCEPT ![s] = NoState]

in_event_aborted(s) ==
    /\ Idle /\ role = "receiver" /\ rx[s].known /\ avail[s] = Total(s) /\ s \notin updated
    /\ Deleted(s)
    /\ UNCHANGED <<role, buffer, plugged, txvars, input_ready, iter, at, avail, pos, broken, updated, pipe, up>>

\* Decode () on what is in the buffer: the frame that is complete, if there is
\* one, and the state it leaves.  A cell that the decoder did not expect is an
\* error, after which the stream has to be synchronised again.
Decode(r) ==
    LET cells == IF r.skip /\ r.buf # <<>> THEN Tail(r.buf) ELSE r.buf
        ends == {i \in DOMAIN cells : cells[i][2] = FrameLen}
        n == IF ends = {} THEN Len(cells) ELSE CHOOSE i \in ends : \A j \in ends : i <= j
        dec == r.dec \o SubSeq(cells, 1, n)
        good == \A i \in DOMAIN dec : dec[i] = <<dec[1][1], i>>
    IN  IF r.buf = <<>> THEN <<0, r>>
        ELSE IF ~good THEN <<0, [r EXCEPT !.buf = <<>>, !.dec = <<>>, !.skip = FALSE, !.sync = FALSE]>>
        ELSE IF ends = {} THEN <<0, [r EXCEPT !.buf = <<>>, !.dec = dec, !.skip = FALSE]>>
        ELSE <<1, [r EXCEPT !.buf = SubSeq(cells, n + 1, Len(cells)), !.dec = dec, !.skip = TRUE]>>

\* What follows a Decode () that needs more data, in stream s whose state is r:
\* the outcomes are the new state, the place of the reader, and whether the
\* stream has to wait for more.
Synced(s, r) ==
    IF r.sync THEN [r |-> r, pos |-> pos[s]]
    ELSE LET firsts == {p \in Starts(s) : Encoded[p + 1][3]}
         IN  IF firsts = {}
             THEN [r |-> r, pos |-> IF Starts(s) = {} THEN pos[s]
                                    ELSE (CHOOSE p \in Starts(s) : \A q \in Starts(s) : q <= p) + 1]
             ELSE [r |-> [r EXCEPT !.sync = TRUE], pos |-> (CHOOSE p \in firsts : \A q \in firsts : p <= q) + 1]

Needed(r) == buffer - Len(r.buf)

Waits(s, r, p) ==
    /\ rx' = [rx EXCEPT ![s] = [r EXCEPT !.ready = FALSE]]
    /\ pos' = [pos EXCEPT ![s] = p]
    /\ rx_ready' = Drop(rx_ready, s) /\ rx_pending' = Enlist(rx_pending, s)
    /\ UNCHANGED <<msg_ready, broken>>

\* One stream of the inner loop over rx_ready.
rx_stream ==
    /\ at = "rx" /\ iter # <<>>
    /\ LET s == Head(iter)
           d == Decode(rx[s])
           y == Synced(s, d[2])
           n == Min2(Needed(y.r), avail[s] - y.pos)
       IN  \/ \* a frame is complete
              /\ d[1] = 1
              /\ rx' = [rx EXCEPT ![s] = d[2]]
              /\ rx_ready' = Drop(rx_ready, s) /\ msg_ready' = Enlist(msg_ready, s)
              /\ UNCHANGED <<rx_pending, pos, broken>>
           \/ d[1] = 0 /\ ~y.r.sync /\ Waits(s, y.r, y.pos)
           \/ \* the read fails: Init ()
              /\ d[1] = 0 /\ y.r.sync /\ broken[s]
              /\ rx' = [rx EXCEPT ![s] = Fresh]
              /\ pos' = [pos EXCEPT ![s] = y.pos]
              /\ broken' = [broken EXCEPT ![s] = FALSE]
              /\ UNCHANGED <<rx_pending, rx_ready, msg_ready>>
           \/ /\ d[1] = 0 /\ y.r.sync /\ ~broken[s] /\ n = 0
              /\ Waits(s, y.r, y.pos)
           \/ /\ d[1] = 0 /\ y.r.sync /\ ~broken[s] /\ n > 0
              /\ rx' = [rx EXCEPT ![s] = [y.r EXCEPT !.buf = @ \o SubSeq(Encoded, y.pos + 1, y.pos + n)]]
              /\ pos' = [pos EXCEPT ![s] = y.pos + n]
              /\ UNCHANGED <<rx_pending, rx_ready, msg_ready, broken>>
    /\ iter' = Tail(iter)
    /\ UNCHANGED <<role, buffer, plugged, txvars, input_ready, at, avail, updated, pipe, up>>

\* The end of the pass: push what there is, if the session takes it.
rx_pass_ends ==
    /\ at = "rx" /\ iter = <<>>
    /\ IF input_ready THEN at' = "push" /\ iter' = msg_ready
       ELSE Loop(rx_ready, msg_ready, input_ready)
    /\ UNCHANGED <<role, buffer, plugged, txvars, input_ready, rx_pending, rx_ready, msg_ready, rx, avail, pos, broken,
                   updated, pipe, up>>

\* Variant that goes on with the next stream when the pipe is full.
push_Drops ==
    /\ at = "push" /\ iter # <<>>
    /\ LET s == Head(iter)
       IN  /\ pipe' = IF pipe < Room THEN pipe + 1 ELSE pipe
           /\ up' = IF pipe < Room THEN [up EXCEPT ![s] = Append(@, rx[s].dec[1][1])] ELSE up
           /\ msg_ready' = Drop(msg_ready, s) /\ rx_ready' = Enlist(rx_ready, s)
           /\ rx' = [rx EXCEPT ![s].dec = <<>>]
           /\ iter' = Tail(iter) /\ UNCHANGED <<input_ready, at>>
    /\ UNCHANGED <<role, buffer, plugged, txvars, rx_pending, avail, pos, broken, updated>>

\* push_msg: the frame goes up and its stream can be read again, or the pipe is
\* full and everything waits for restart_input ().  A stream with a frame is
\* ready, so it never goes back to msg_ready.
push ==
    /\ at = "push" /\ iter # <<>>
    /\ LET s == Head(iter)
       IN  IF pipe < Room
           THEN /\ pipe' = pipe + 1
                /\ up' = [up EXCEPT ![s] = Append(@, rx[s].dec[1][1])]
                /\ rx' = [rx EXCEPT ![s].dec = <<>>]
                /\ IF rx[s].ready
                   THEN msg_ready' = Drop(msg_ready, s) /\ rx_ready' = Enlist(rx_ready, s)
                   ELSE msg_ready' = Enlist(Drop(msg_ready, s), s) /\ UNCHANGED rx_ready
                /\ iter' = Tail(iter) /\ UNCHANGED <<input_ready, at>>
           ELSE /\ input_ready' = FALSE
                /\ Loop(rx_ready, msg_ready, FALSE)
                /\ UNCHANGED <<pipe, up, rx, msg_ready, rx_ready>>
    /\ UNCHANGED <<role, buffer, plugged, txvars, rx_pending, avail, pos, broken, updated>>

push_pass_ends ==
    /\ at = "push" /\ iter = <<>>
    /\ Loop(rx_ready, msg_ready, input_ready)
    /\ UNCHANGED <<role, buffer, plugged, txvars, input_ready, rx_pending, rx_ready, msg_ready, rx, avail, pos, broken,
                   updated, pipe, up>>

\* The application reads; a session whose pipe was full tells the engine.
restart_input ==
    /\ role = "receiver" /\ Idle /\ pipe > 0
    /\ pipe' = pipe - 1
    /\ input_ready' = TRUE
    /\ IF ~input_ready /\ msg_ready # <<>> THEN Loop(rx_ready, msg_ready, TRUE) ELSE UNCHANGED <<at, iter>>
    /\ UNCHANGED <<role, buffer, plugged, txvars, rx_pending, rx_ready, msg_ready, rx, avail, pos, broken, updated, up>>

\* terminate (): unplug () and shutdown (), which deletes the streams in all lists.
terminate ==
    /\ Idle
    /\ plugged' = FALSE /\ at' = "gone"
    /\ rx_pending' = <<>> /\ rx_ready' = <<>> /\ msg_ready' = <<>>
    /\ rx' = [s \in Stream |-> IF InList(s, rx_pending \o rx_ready \o msg_ready) THEN NoState ELSE rx[s]]
    /\ UNCHANGED <<role, buffer, txvars, input_ready, iter, avail, pos, broken, updated, pipe, up>>

Next ==
    \/ at # "gone" /\ plug
    \/ send_data \/ restart_output \/ transmits \/ in_event_vacancy
    \/ \E s \in Stream : arrives(s) \/ breaks(s) \/ in_event_updated(s) \/ in_event_aborted(s)
    \/ rx_stream \/ rx_pass_ends \/ push \/ push_pass_ends \/ restart_input
    \/ terminate

Spec == Init /\ [][Next]_normvars
-----------------------------------------------------------------------------
\* A stream's state is in one list, the one its flag and its decoder say, and
\* none is left behind when the engine is deleted.
ListsExact ==
    \A s \in Stream :
        LET n == Len(SelectSeq(rx_pending \o rx_ready \o msg_ready, LAMBDA x : x = s))
        IN  /\ n = (IF rx[s].known THEN 1 ELSE 0)
            /\ rx[s].known => (rx[s].ready <=> ~InList(s, rx_pending))
            /\ InList(s, msg_ready) => Len(rx[s].dec) = FrameLen

\* A frame fits into the buffer behind the cell that says where it belongs.
Fits == FrameLen < buffer

\* An engine that is at rest has nothing left to do: no stream waits to be read,
\* no frame waits for a session that takes it, no cell it could read or write is
\* left unless an event will come for it.  And it comes to rest: it does not spin in
\* send_data (), provided that its frames fit into the buffer; one that does not
\* is never written to its end.
NothingForgotten ==
    /\ Fits => ~Spins
    /\ plugged /\ at = "idle" =>
            /\ rx_ready = <<>>
            /\ role = "receiver" => IF input_ready THEN msg_ready = <<>> ELSE pipe > 0
            /\ \A s \in Stream :
                  rx[s].known /\ rx[s].sync /\ InList(s, rx_pending) /\ s \notin updated /\ ~broken[s]
                      => pos[s] = avail[s]
            /\ role = "sender" =>
                  /\ ~(output_ready /\ tx_ready)
                  /\ ~tx_ready => vacancy \/ Sent(wire) > 0
                  /\ ~output_ready => queue = <<>> /\ tx = <<>> /\ flushed = Len(wire)

\* A receiver pushes whole frames, in the order of their sender; it starts, and
\* after a break starts again, with the first frame of a message.
FramesInOrder ==
    \A s \in Stream : \A i \in DOMAIN up[s] :
        \/ i > 1 /\ up[s][i] = up[s][i - 1] + 1
        \/ First(up[s][i]) /\ \A j \in 1..i - 1 : up[s][j] < up[s][i]

\* What a sender has written and is going to write is what a receiver expects of it.
WireExact == IsPrefix(wire \o SubSeq(tx, tx_index + 1, Len(tx)), Encoded)
=============================================================================
