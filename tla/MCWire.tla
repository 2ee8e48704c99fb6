------------------------------- MODULE MCWire -------------------------------
(* What goes between the session and the wire, one at a time: the engines of *)
(* a connection, the encoder and the decoder with the messages they share    *)
(* with the application, and the engines for datagrams and for NORM.         *)
EXTENDS MCEngine

CONSTANTS Parts,       \* what is looked at
          UdpCases     \* of Udp

VARIABLES which,                                         \* the part that runs
          heap, case, unsent, enc, out, bytes, dec, in,  \* of Codec
          hand, received, err,
          u_opt, u_app, u_down, u_up, u_sess, u_eng,     \* of Udp
          u_inbox, u_arrived, u_taken, u_sent, u_got, u_fine,
          n_role, n_buffer, n_plugged, n_output_ready, n_tx_ready, n_tx, n_tx_index, n_enc, n_first_msg, n_more_bit, n_queue,
          n_handed, n_wire, n_flushed, n_acked, n_vacancy, n_input_ready, n_rx_pending, n_rx_ready,
          n_msg_ready, n_rx, n_iter, n_at, n_avail, n_pos, n_broken, n_updated, n_pipe, n_up    \* of Norm

uvars == <<u_opt, u_app, u_down, u_up, u_sess, u_eng, u_inbox, u_arrived, u_taken, u_sent, u_got, u_fine>>

nvars == <<n_role, n_buffer, n_plugged, n_output_ready, n_tx_ready, n_tx, n_tx_index, n_enc, n_first_msg, n_more_bit, n_queue,
           n_handed, n_wire, n_flushed, n_acked, n_vacancy, n_input_ready, n_rx_pending, n_rx_ready,
           n_msg_ready, n_rx, n_iter, n_at, n_avail, n_pos, n_broken, n_updated, n_pipe, n_up>>

cvars == <<heap, case, unsent, enc, out, bytes, dec, in, hand, received, err>>

M(n, flags, how) == [size |-> n, flags |-> flags, how |-> how]

CodecCases ==
    {[ver |-> "v2", max |-> -1, msgs |-> <<M(2, {"more"}, "size"), M(3, {}, "data"), M(0, {}, "size")>>],
     [ver |-> "v2", max |-> 9, msgs |-> <<M(9, {"command"}, "size"), M(10, {}, "data")>>],
     [ver |-> "v1", max |-> -1, msgs |-> <<M(0, {"more"}, "size"), M(3, {}, "data")>>],
     [ver |-> "v1", max |-> 2, msgs |-> <<M(1, {"more"}, "const"), M(3, {}, "data")>>],
     [ver |-> "raw", max |-> -1, msgs |-> <<M(3, {}, "size"), M(2, {}, "data")>>]}

C == INSTANCE Codec WITH
        MaxVsm <- 2, Buffers <- 1..4, Contents <- 1..6, Small <- 3, Long <- 2, BufSize <- 8, Addresses <- 64,
        OutBatch <- 6, Writes <- {4, 99}, MaxHandles <- 2, Cases <- CodecCases,
        wire <- bytes, got <- received

\* No datagram comes with a group that is too long for a message to have.
UdpCase(type, hwm, close) ==
    [type |-> type, hwm |-> hwm, polite |-> TRUE, close |-> close, arrive |-> {"whole", "short"}]
MCUdpCases == {UdpCase("radio", 1, TRUE), UdpCase("dish", 0, FALSE), UdpCase("dgram", 1, TRUE)}
FullDish == {UdpCase("dish", 1, FALSE)}

U == INSTANCE Udp WITH
        Cases <- UdpCases, MaxSend <- 2, MaxNet <- 3,
        opt <- u_opt, app <- u_app, down <- u_down, up <- u_up, sess <- u_sess, eng <- u_eng, inbox <- u_inbox,
        arrived <- u_arrived, taken <- u_taken, sent <- u_sent, got <- u_got, fine <- u_fine

N == INSTANCE Norm WITH
        Stream <- {"a", "b"}, MoreFlags <- <<TRUE, FALSE, FALSE>>, Sends <- [s \in {"a", "b"} |-> IF s = "a" THEN 3 ELSE 1],
        FrameLen <- 2, Buffers <- {2, 3}, Window <- 3, Room <- 1,
        role <- n_role, buffer <- n_buffer, plugged <- n_plugged, output_ready <- n_output_ready, tx_ready <- n_tx_ready,
        tx <- n_tx, tx_index <- n_tx_index, enc <- n_enc, first_msg <- n_first_msg, more_bit <- n_more_bit, queue <- n_queue,
        handed <- n_handed, wire <- n_wire, flushed <- n_flushed, acked <- n_acked, vacancy <- n_vacancy,
        input_ready <- n_input_ready, rx_pending <- n_rx_pending, rx_ready <- n_rx_ready,
        msg_ready <- n_msg_ready, rx <- n_rx, iter <- n_iter, at <- n_at, avail <- n_avail, pos <- n_pos,
        broken <- n_broken, updated <- n_updated, pipe <- n_pipe, up <- n_up

\* Of the parts that are not looked at, the connection stays as it was made, and the
\* others are not there.
Absent == 0

MCInit ==
    /\ which \in Parts
    /\ Init
    /\ which # "engine" => opt = CHOOSE o \in Cases : TRUE
    /\ IF which = "codec" THEN C!Init
       ELSE /\ heap = Absent /\ case = Absent /\ unsent = Absent /\ enc = Absent /\ out = Absent /\ bytes = Absent
            /\ dec = Absent /\ in = Absent /\ hand = Absent /\ received = Absent /\ err = Absent
    /\ IF which = "udp" THEN U!Init
       ELSE /\ u_opt = Absent /\ u_app = Absent /\ u_down = Absent /\ u_up = Absent /\ u_sess = Absent /\ u_eng = Absent
            /\ u_inbox = Absent /\ u_arrived = Absent /\ u_taken = Absent /\ u_sent = Absent /\ u_got = Absent /\ u_fine = Absent
    /\ IF which = "norm" THEN N!Init
       ELSE /\ n_buffer = Absent /\ n_tx_index = Absent /\ n_role = Absent
            /\ n_plugged = Absent /\ n_output_ready = Absent /\ n_tx_ready = Absent /\ n_tx = Absent
            /\ n_enc = Absent /\ n_first_msg = Absent /\ n_more_bit = Absent /\ n_queue = Absent /\ n_handed = Absent
            /\ n_wire = Absent /\ n_flushed = Absent /\ n_acked = Absent /\ n_vacancy = Absent /\ n_input_ready = Absent
            /\ n_rx_pending = Absent /\ n_rx_ready = Absent /\ n_msg_ready = Absent /\ n_rx = Absent /\ n_iter = Absent
            /\ n_at = Absent /\ n_avail = Absent /\ n_pos = Absent /\ n_broken = Absent /\ n_updated = Absent
            /\ n_pipe = Absent /\ n_up = Absent

MCNext ==
    \/ which = "engine" /\ Next /\ UNCHANGED <<which, cvars, uvars, nvars>>
    \/ which = "codec" /\ C!Next /\ UNCHANGED <<which, vars, uvars, nvars>>
    \/ which = "udp" /\ U!Next /\ UNCHANGED <<which, vars, cvars, nvars>>
    \/ which = "norm" /\ N!Next /\ UNCHANGED <<which, vars, cvars, uvars>>

MCSpec == MCInit /\ [][MCNext]_<<which, vars, cvars, uvars, nvars>>

-----------------------------------------------------------------------------
\* The first frame of a datagram is accepted or finds the pipe full, and the second
\* of one that was begun is never missing: it can be pulled from the pipe, and pushed
\* into it (udp_engine_t::in_event and out_event).  It is asked of what Datagrams the
\* cases let arrive: a group of more than ZMQ_GROUP_MAX_LENGTH bytes is refused by
\* dish_session_t::push_msg with an error that the engine does not expect.
DatagramAsserts == U!AssertionsHold

\* No assertion of an engine or its session fails, whatever the network, the
\* application and the timers do and in which order (Engine, Udp), for datagrams
\* with groups of a legal length and a DISH without a watermark.
WireAsserts ==
    CASE which = "engine" -> AssertionsHold
      [] which = "udp"    -> DatagramAsserts
      [] OTHER            -> TRUE

\* A connection carries messages as the sessions gave them: whole, whatever
\* breaks and reconnects (session_base_t::clean_pipes), and none is taken for an
\* error of the protocol.
\* A NORM engine has the state of each sender in one list, the one that it will
\* look for it in (norm_engine_t::recv_data).
SessionSound ==
    CASE which = "engine" -> WholeMessages /\ NoProtocolError
      [] which = "norm"   -> N!ListsExact
      [] OTHER            -> TRUE

\* Whatever the application, the decoder and a distributing socket do with them,
\* messages keep their contents as long as somebody has them, and no longer
\* (msg_t's reference counts, the decoder's shared buffer).
MessageMemory == C!Intact /\ C!NoLeak

\* Messages arrive intact: what the encoder writes the decoder reads, across every
\* cut of the stream, or refuses for its size (encoder_base_t::encode,
\* decoder_base_t::decode), nobody's memory is taken or left over, and each datagram
\* has the two frames of one message (udp_engine_t::in_event and out_event).
\* NORM's frames come in the order of their sender and start with a message, after
\* every break, and what an engine writes is a beginning of what it was given
\* (norm_engine_t::send_data and recv_data).
MessagesIntact ==
    CASE which = "codec" -> MessageMemory /\ C!RoundTrip
      [] which = "udp"   -> U!DatagramsWhole
      [] which = "norm"  -> N!FramesInOrder /\ N!WireExact
      [] OTHER           -> TRUE

\* An engine that has stopped looking at its socket will be started again: nobody
\* waits for a message, a place in a pipe, a timer or a command that does not come
\* (restart_input, restart_output).  A NORM engine at rest has nothing to do, and it
\* comes to rest if the frames it sends fit into its buffer (send_data).  A pipe
\* whose watermark the credentials of its connections have used up is left out.
EnginesGoOn ==
    CASE which = "engine" -> NoHang
      [] which = "udp"    -> U!NoStall
      [] which = "norm"   -> N!NothingForgotten
      [] OTHER            -> TRUE
=============================================================================
