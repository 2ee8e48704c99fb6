------------------------------- MODULE Codec -------------------------------
(***************************************************************************)
(* The framing of messages on a stream: the encoder of one engine, the     *)
(* bytes on their way, and the decoder of the other with the memory its    *)
(* messages share.  Versions: "v1" (ZMTP 1.0), "v2" (ZMTP 2.0 and later)   *)
(* and "raw" (no framing).                                                 *)
(*                                                                         *)
(* The sender loads the messages of a case one after another into          *)
(* batches and writes any part of a batch.  The receiver reads any part of *)
(* what is on its way, and decodes it in place where it can: the           *)
(* application holds messages that lie in receive buffers, copies them,    *)
(* sends them on to several pipes and closes them in any order, also after *)
(* the engine with its decoder is gone.                                    *)
(*                                                                         *)
(* Bytes are numbers: those of sizes and flags as on the wire (to the base *)
(* Small + 1), those of bodies are told apart by message and position.     *)
(***************************************************************************)
EXTENDS Msg

CONSTANTS Small,        \* the largest size of one byte, 255 in the code
          Long,         \* the bytes of a long size, 8 in the code
          BufSize,      \* in_batch_size
          Addresses,    \* what addresses are counted modulo, 2^64 in the code
          OutBatch,     \* out_batch_size
          Writes,       \* how much tcp_write may take at once
          MaxHandles,   \* messages the application holds before it is full
          Cases         \* what may be sent: version, maxmsgsize, messages

VARIABLES heap,     \* the memory of messages (see Msg)
          case,     \* the case chosen
          unsent,   \* the messages not loaded yet, by number
          enc,      \* the encoder
          out,      \* outpos and outsize of the sending engine
          wire,     \* bytes on their way
          dec,      \* the decoder; its messages, allocator and parser
          in,       \* inpos and insize of the receiving engine
          hand,     \* the messages the application holds, each with its number
          got,      \* the messages delivered so far
          err       \* the error the decoder reported, or ""

vars == <<heap, case, unsent, enc, out, wire, dec, in, hand, got, err>>

Least(a, b) == IF a <= b THEN a ELSE b
Part(s, from, n) == SubSeq(s, from + 1, from + n)
Body(k) == [i \in 1..case.msgs[k].size |-> 100 * k + i]

\* put_uint64, get_uint64
put_uint64(n) == [i \in 1..Long |-> (n \div (Small + 1)^(Long - i)) % (Small + 1)]

get_uint64(bytes) ==
    LET RECURSIVE Value(_)
        Value(i) == IF i = 0 THEN 0 ELSE Value(i - 1) * (Small + 1) + bytes[i]
    IN  Value(Long)

-----------------------------------------------------------------------------
(* encoder_base_t: from is where write_pos points, the encoder's tmpbuf or *)
(* the message, off and left what is still to be written there.            *)

NoMessage == Closed

NewEncoder ==
    [msg |-> NoMessage, from |-> "msg", tmp |-> <<>>, off |-> 0, left |-> 0,
     next |-> "message_ready", last |-> TRUE]

WriteTmp(e, bytes) ==
    [e EXCEPT !.from = "tmp", !.tmp = bytes, !.off = 0, !.left = Len(bytes),
              !.next = "size_ready", !.last = FALSE]

\* size_ready () of v1 and v2, raw_message_ready (): the body follows.
size_ready(h, e) ==
    [e EXCEPT !.from = "msg", !.tmp = <<>>, !.off = 0, !.left = size(h, e.msg),
              !.next = "message_ready", !.last = TRUE]

MORE == 1
LARGE == 2
COMMAND == 4

v1_message_ready(h, e) ==
    LET n == size(h, e.msg) + 1
        flags == IF "more" \in e.msg.flags THEN MORE ELSE 0
    IN  WriteTmp(e, IF n < Small THEN <<n, flags>> ELSE <<Small>> \o put_uint64(n) \o <<flags>>)

v2_message_ready(h, e) ==
    LET n == size(h, e.msg)
        flags == (IF "more" \in e.msg.flags THEN MORE ELSE 0)
                 + (IF n > Small THEN LARGE ELSE 0)
                 + (IF "command" \in e.msg.flags THEN COMMAND ELSE 0)
    IN  WriteTmp(e, IF n > Small THEN <<flags>> \o put_uint64(n) ELSE <<flags, n>>)

EncoderNext(h, e) ==
    IF e.next = "size_ready" \/ case.ver = "raw" THEN size_ready(h, e)
    ELSE IF case.ver = "v1" THEN v1_message_ready(h, e) ELSE v2_message_ready(h, e)

load_msg(h, e, m) == EncoderNext(h, [e EXCEPT !.msg = m])

Source(h, e) == IF e.from = "tmp" THEN e.tmp ELSE data(h, e.msg)

\* encode () into a buffer with room bytes; own says that it is the encoder's,
\* and then a long body is not copied: the batch is the rest of the message.
\* The message is closed by the encode () after the one that gave its last byte.
RECURSIVE encode(_, _, _, _, _)
encode(h, e, bytes, room, own) ==
    IF e.msg = NoMessage \/ Len(bytes) = room THEN [h |-> h, e |-> e, bytes |-> bytes, zc |-> FALSE]
    ELSE IF e.left = 0 /\ e.last
    THEN [h |-> close(h, e.msg), e |-> NewEncoder, bytes |-> bytes, zc |-> FALSE]
    ELSE IF e.left = 0 THEN encode(h, EncoderNext(h, e), bytes, room, own)
    ELSE IF bytes = <<>> /\ own /\ e.left >= room /\ e.from = "msg"
    THEN [h |-> h, e |-> [e EXCEPT !.left = 0], bytes |-> <<>>, zc |-> TRUE]
    ELSE LET n == Least(e.left, room - Len(bytes))
         IN  encode(Use(h, e.from = "msg" => Backed(h, e.msg)), [e EXCEPT !.off = @ + n, !.left = @ - n],
                    bytes \o Part(Source(h, e), e.off, n), room, own)

\* The messages of a case are made in the ways zmq_msg_init_* offers.
Made(h, k) ==
    LET spec == case.msgs[k]
        blank == init_size(h, spec.size)
        r == CASE spec.how = "data" -> init_data(h, Body(k), TRUE)
               [] spec.how = "const" -> init_data(h, Body(k), FALSE)
               [] blank.m.type = "vsm" -> [blank EXCEPT !.m.data = Body(k)]
               [] OTHER -> [blank EXCEPT !.h.con[blank.m.at].data = Body(k)]
    IN  [r EXCEPT !.m.flags = spec.flags]

\* The loop of out_event () that fills a batch.  r is what was encoded last, bytes
\* what was before it, and k the next message.
EncodeMade(m, e, bytes) ==
    encode(m.h, load_msg(m.h, e, m.m), <<>>, OutBatch - Len(bytes), bytes = <<>>)

RECURSIVE FillBatch(_, _, _)
FillBatch(r, bytes, k) ==
    LET all == bytes \o r.bytes
    IN  IF r.zc \/ k > Len(case.msgs) \/ Len(all) >= OutBatch
        THEN [h |-> r.h, e |-> r.e, bytes |-> all, zc |-> r.zc, k |-> k]
        ELSE FillBatch(EncodeMade(Made(r.h, k), r.e, all), all, k + 1)

NoBatch == [zc |-> FALSE, bytes |-> <<>>, off |-> 0, size |-> 0]

Filled(f) ==
    [h |-> f.h, e |-> f.e, k |-> f.k,
     out |-> IF f.zc THEN [zc |-> TRUE, bytes |-> <<>>, off |-> f.e.off, size |-> size(f.h, f.e.msg) - f.e.off]
             ELSE [zc |-> FALSE, bytes |-> f.bytes, off |-> 0, size |-> Len(f.bytes)]]

NextBatch == Filled(FillBatch(encode(heap, enc, <<>>, OutBatch, TRUE), <<>>, unsent))

\* out_event () of the sending engine: an empty batch is filled, and tcp_write
\* takes at most so many bytes of it.
OutEvent(most) ==
    /\ enc.next # "gone"
    /\ enc.msg # NoMessage \/ out.size > 0 \/ unsent <= Len(case.msgs)
    /\ \E b \in {IF out.size > 0 THEN [h |-> heap, e |-> enc, k |-> unsent, out |-> out] ELSE NextBatch} :
       \E n \in {Least(most, b.out.size)} :
        /\ heap' = Use(b.h, b.out.zc => Backed(b.h, b.e.msg))
        /\ enc' = b.e
        /\ unsent' = b.k
        /\ out' = IF n = b.out.size THEN NoBatch
                  ELSE [b.out EXCEPT !.off = @ + n, !.size = @ - n]
        /\ wire' = wire \o Part(IF b.out.zc THEN data(b.h, b.e.msg) ELSE b.out.bytes, b.out.off, n)
    /\ UNCHANGED <<case, dec, in, hand, got, err>>

-----------------------------------------------------------------------------
(* The allocators.  The buffer of v2 and raw decoders is shared with the   *)
(* messages built on it; slot is msg_content and cap is bufsize.           *)

CeilDiv(a, b) == (a + b - 1) \div b
maxCounters == IF case.ver = "raw" THEN 1 ELSE CeilDiv(BufSize, MaxVsm)
Blank(n) == [i \in 1..n |-> 0]
NewBuffer ==
    [live |-> TRUE, ref |-> 1, cells |-> Blank(BufSize),
     slots |-> [i \in 1..maxCounters |-> [off |-> 0, size |-> 0, ref |-> 0]]]

release(d) == [d EXCEPT !.buf = None, !.cap = 0, !.slot = None]

\* allocate () that does not look whether messages use the buffer
allocate_Reuses(h, d) ==
    LET b == IF d.buf = None THEN FreeBuffer(h) ELSE d.buf
    IN  [h |-> [h EXCEPT !.buf[b] = NewBuffer], d |-> [d EXCEPT !.buf = b, !.cap = BufSize, !.slot = 1]]

\* shared_message_memory_allocator::allocate
allocate(h, d) ==
    LET used == d.buf # None /\ h.buf[d.buf].ref > 1
        h1 == IF used THEN [h EXCEPT !.buf[d.buf].ref = @ - 1] ELSE h
        fresh == d.buf = None \/ used
        b == IF fresh THEN FreeBuffer(h) ELSE d.buf
    IN  [h |-> IF fresh THEN [h1 EXCEPT !.buf[b] = NewBuffer] ELSE [h1 EXCEPT !.buf[b].ref = 1],
         d |-> [d EXCEPT !.buf = b, !.cap = BufSize, !.slot = 1]]

\* c_single_allocator::allocate: always the same buffer, with the size resize () left
SingleAllocate(h, d) ==
    IF d.buf # None THEN [h |-> h, d |-> d]
    ELSE LET b == FreeBuffer(h)
         IN  [h |-> [h EXCEPT !.buf[b] = NewBuffer], d |-> [d EXCEPT !.buf = b, !.cap = BufSize]]

Allocate(h, d) == IF case.ver = "v1" THEN SingleAllocate(h, d) ELSE allocate(h, d)

deallocate(h, d) ==
    [h |-> IF d.buf = None THEN h ELSE call_dec_ref(h, d.buf), d |-> release(d)]

inc_ref(h, d) == [h EXCEPT !.buf[d.buf].ref = @ + 1]

-----------------------------------------------------------------------------
(* decoder_base_t: to is where read_pos points, the decoder's tmpbuf, the  *)
(* message or the buffer itself, pos and left what is still to be filled.  *)

Step(d, to, n, next) == [d EXCEPT !.to = to, !.tmp = Blank(Long), !.pos = 0, !.left = n, !.next = next]

First == IF case.ver = "v1" THEN "one_byte_size_ready" ELSE "flags_ready"

NewDecoder ==
    [live |-> TRUE, next |-> First, to |-> "tmp", pos |-> 0, left |-> 1, tmp |-> Blank(Long),
     flags |-> 0, msg |-> init, buf |-> None, cap |-> 0, slot |-> None]

Continue(h, d) == [h |-> h, d |-> d, rc |-> "more"]
Failed(h, d, errno) == [h |-> h, d |-> d, rc |-> errno]
TooLong_Inclusive(n) == case.max >= 0 /\ n >= case.max
TooLong(n) == case.max >= 0 /\ n > case.max

v1_init_size(h, d, n) ==
    LET r == init_size(close(h, d.msg), n)
    IN  Continue(r.h, Step([d EXCEPT !.msg = r.m], "tmp", 1, "flags_ready"))

v1_one_byte_size_ready(h, d) ==
    LET n == d.tmp[1]
    IN  IF n = Small THEN Continue(h, Step(d, "tmp", Long, "eight_byte_size_ready"))
        ELSE IF n = 0 THEN Failed(h, d, "EPROTO")
        ELSE IF TooLong(n - 1) THEN Failed(h, d, "EMSGSIZE")
        ELSE v1_init_size(h, d, n - 1)

v1_eight_byte_size_ready(h, d) ==
    LET n == get_uint64(d.tmp)
    IN  IF n = 0 THEN Failed(h, d, "EPROTO")
        ELSE IF TooLong(n - 1) THEN Failed(h, d, "EMSGSIZE")
        ELSE v1_init_size(h, d, n - 1)

v1_flags_ready(h, d) ==
    LET m == [d.msg EXCEPT !.flags = IF d.tmp[1] = MORE THEN {"more"} ELSE {}]
    IN  Continue(h, Step([d EXCEPT !.msg = m], "msg", size(h, m), "message_ready"))

v2_flags_ready(h, d) ==
    LET f == d.tmp[1]
        d1 == [d EXCEPT !.flags = f]
    IN  Continue(h, IF (f \div LARGE) % 2 = 1 THEN Step(d1, "tmp", Long, "eight_byte_size_ready")
                    ELSE Step(d1, "tmp", 1, "one_byte_size_ready"))

FlagsOf(f) ==
    (IF f % 2 = 1 THEN {"more"} ELSE {}) \cup (IF (f \div COMMAND) % 2 = 1 THEN {"command"} ELSE {})

\* The message is built on the buffer if all of it is there (cap is what was read).
\* Its end is an address: a size of nearly Addresses would wrap and seem to fit, but
\* no encoder is given a message that long.
v2_size_ready(h, d, n, at) ==
    LET h1 == close(h, d.msg)
        fits == (at + n) % Addresses <= d.cap
        r == IF fits THEN init_from(h1, d.buf, d.slot, at, n) ELSE init_size(h1, n)
        m == [r.m EXCEPT !.flags = FlagsOf(d.flags)]
        d1 == [d EXCEPT !.msg = m, !.slot = IF is_zcmsg(m) THEN @ + 1 ELSE @]
        to == IF is_zcmsg(m) THEN "buf" ELSE "msg"
    IN  IF TooLong(n) THEN Failed(h, d, "EMSGSIZE")
        ELSE Continue(IF is_zcmsg(m) THEN inc_ref(r.h, d) ELSE r.h, Step(d1, to, n, "message_ready"))

\* message_ready () of v1 and v2
message_ready(h, d) == [h |-> h, d |-> Step(d, "tmp", 1, First), rc |-> "message"]

DecoderNext(h, d, at) ==
    IF d.next = "message_ready" THEN message_ready(h, d)
    ELSE IF case.ver = "v1"
    THEN CASE d.next = "one_byte_size_ready" -> v1_one_byte_size_ready(h, d)
           [] d.next = "eight_byte_size_ready" -> v1_eight_byte_size_ready(h, d)
           [] OTHER -> v1_flags_ready(h, d)
    ELSE CASE d.next = "flags_ready" -> v2_flags_ready(h, d)
           [] d.next = "one_byte_size_ready" -> v2_size_ready(h, d, d.tmp[1], at)
           [] OTHER -> v2_size_ready(h, d, get_uint64(d.tmp), at)

\* Bytes copied to read_pos; in the buffer they are where they should be.
Put(s, pos, bytes) ==
    [i \in DOMAIN s |-> IF pos < i /\ i <= pos + Len(bytes) THEN bytes[i - pos] ELSE s[i]]

Store(h, d, bytes) ==
    LET d1 == [d EXCEPT !.pos = @ + Len(bytes), !.left = @ - Len(bytes)]
    IN  CASE d.to = "tmp" -> [h |-> h, d |-> [d1 EXCEPT !.tmp = Put(@, d.pos, bytes)]]
          [] d.to = "msg" /\ d.msg.type = "lmsg" ->
                [h |-> [h EXCEPT !.con[d.msg.at].data = Put(@, d.pos, bytes)], d |-> d1]
          [] d.to = "msg" /\ d.msg.type # "lmsg" ->
                [h |-> h, d |-> [d1 EXCEPT !.msg.data = Put(@, d.pos, bytes)]]
          [] OTHER -> [h |-> h, d |-> d1]

\* The state machine runs until it wants bytes, has a message or fails.
RECURSIVE RunMachine(_, _)
RunMachine(r, at) ==
    IF r.rc # "more" THEN r
    ELSE IF r.d.left > 0 THEN Continue(r.h, r.d)
    ELSE RunMachine(DecoderNext(r.h, r.d, at), at)

Stored(s, at) == RunMachine(Continue(s.h, s.d), at)

\* decode () of bytes at..end of the buffer; at is returned past what was used.
DecodeSome(h, d, at, n) == Stored(Store(h, d, Part(h.buf[d.buf].cells, at, n)), at + n)

RECURSIVE Decoded(_, _, _)
Decoded(r, at, end) ==
    IF r.rc # "more" \/ at = end THEN [h |-> r.h, d |-> r.d, rc |-> r.rc, at |-> at]
    ELSE LET n == Least(r.d.left, end - at) IN Decoded(DecodeSome(r.h, r.d, at, n), at + n, end)

decode(h, d, at, end) == Decoded(Continue(h, d), at, end)

\* raw_decoder_t::decode: what was read is a message.
raw_decode(h, d, at, end) ==
    LET r == init_from(h, d.buf, d.slot, at, end - at)
        d1 == [d EXCEPT !.msg = r.m]
    IN  [h |-> r.h, d |-> IF is_zcmsg(r.m) THEN release(d1) ELSE d1, rc |-> "message", at |-> end]

Decode(h, d, at, end) ==
    IF case.ver = "raw" THEN raw_decode(h, d, at, end) ELSE decode(h, d, at, end)

-----------------------------------------------------------------------------
(* The receiving engine.  s is its state with that of the application:     *)
(* h, d, in, hand, got and err.                                            *)

State == [h |-> heap, d |-> dec, in |-> in, hand |-> hand, got |-> got, err |-> err]

Becomes(s) ==
    /\ heap' = s.h /\ dec' = s.d /\ in' = s.in
    /\ hand' = s.hand /\ got' = s.got /\ err' = s.err
    /\ UNCHANGED <<case, unsent, enc, out>>

Stream ==
    LET RECURSIVE Bytes(_)
        Bytes(k) == IF k = 0 THEN <<>> ELSE Bytes(k - 1) \o Body(k)
    IN  Bytes(Len(case.msgs))

CanHold(s) == Len(s.hand) < MaxHandles

\* push_msg_to_session () with room: the application gets the message, whose
\* contents should be want, and the decoder an empty one.
Delivered(s) ==
    LET m == s.d.msg
        raw == case.ver = "raw"
        n == size(s.h, m)
        want == IF raw THEN [data |-> Part(Stream, s.got, n), flags |-> {}]
                ELSE [data |-> Body(s.got + 1), flags |-> case.msgs[s.got + 1].flags]
    IN  [s EXCEPT !.hand = Append(@, [m |-> m, want |-> want]), !.got = @ + (IF raw THEN n ELSE 1),
                  !.d.msg = init]

\* ~v1_decoder_t, ~v2_decoder_t, ~raw_decoder_t
DecoderGone(h, d) ==
    LET r == deallocate(close(h, d.msg), d)
    IN  [h |-> r.h, d |-> [r.d EXCEPT !.live = FALSE, !.msg = NoMessage]]

\* error (): the engine and its decoder are destroyed.
Error(s, errno) ==
    LET r == DecoderGone(s.h, s.d)
    IN  [s EXCEPT !.h = r.h, !.d = r.d, !.err = errno, !.in = [at |-> 0, end |-> 0, stopped |-> FALSE]]

\* What becomes of the message that was decoded, if one was.
Pushed(s, rc) ==
    CASE rc = "more" -> s
      [] rc = "message" /\ CanHold(s) -> Delivered(s)
      [] rc = "message" /\ ~CanHold(s) -> [s EXCEPT !.in.stopped = TRUE]
      [] OTHER -> Error(s, rc)

DecodedIn(s, r) == Pushed([s EXCEPT !.h = r.h, !.d = r.d, !.in.at = r.at], r.rc)

\* The rest of in_event () and of restart_input () once there are bytes.
RECURSIVE Process(_)
Process(s) ==
    IF s.in.stopped \/ s.in.at = s.in.end THEN s
    ELSE Process(DecodedIn(s, Decode(s.h, s.d, s.in.at, s.in.end)))

\* in_event () with no bytes left from before: get_buffer (), tcp_read () of n
\* bytes and resize_buffer ().  If at least a buffer is missing the bytes go to
\* the message itself, which decode () then only counts.
InEvent(n) ==
    /\ dec.live /\ ~in.stopped /\ in.at = in.end
    /\ \E a \in {Allocate(heap, dec)} : \E bytes \in {Part(wire, 0, n)} :
        LET direct == case.ver # "raw" /\ dec.left >= a.d.cap
            d1 == [a.d EXCEPT !.cap = n]
        IN  /\ n \in 1..Least(Len(wire), IF direct THEN dec.left ELSE a.d.cap)
            /\ IF direct
               THEN \E r \in {Stored(Store(a.h, d1, bytes), 0)} :
                        Becomes(Pushed([State EXCEPT !.h = r.h, !.d = r.d], r.rc))
               ELSE Becomes(Process([State EXCEPT !.h = [a.h EXCEPT !.buf[a.d.buf].cells = Put(@, 0, bytes)],
                                                  !.d = d1, !.in.at = 0, !.in.end = n]))
    /\ wire' = Part(wire, n, Len(wire) - n)

\* restart_input (): the message that found no room goes first.
RestartInput ==
    /\ dec.live /\ in.stopped /\ CanHold(State)
    /\ Becomes(Process(Delivered([State EXCEPT !.in.stopped = FALSE])))
    /\ UNCHANGED wire

-----------------------------------------------------------------------------
(* The application, which uses the messages in its own threads, and the    *)
(* ends of the engines.                                                    *)

Without(s, i) == SubSeq(s, 1, i - 1) \o SubSeq(s, i + 1, Len(s))

\* zmq_msg_close ()
CloseMsg(i) ==
    /\ heap' = close(heap, hand[i].m)
    /\ hand' = Without(hand, i)
    /\ UNCHANGED <<case, unsent, enc, out, wire, dec, in, got, err>>

\* zmq_msg_copy ()
CopyMsg(i) ==
    LET r == copy(heap, hand[i].m)
    IN  /\ Len(hand) < MaxHandles
        /\ heap' = r.h
        /\ hand' = Append([hand EXCEPT ![i].m = r.src], [hand[i] EXCEPT !.m = r.dst])
        /\ UNCHANGED <<case, unsent, enc, out, wire, dec, in, got, err>>

\* dist_t::distribute (): the message goes to n pipes, of which f refuse it.
Distribute(i, n, f) ==
    LET r == add_refs(heap, hand[i].m, n - 1)
        sent == [j \in 1..(n - f) |-> [hand[i] EXCEPT !.m = r.m]]
    IN  /\ Len(hand) - 1 + n - f <= MaxHandles
        /\ heap' = rm_refs(r.h, r.m, f)
        /\ hand' = Without(hand, i) \o sent
        /\ UNCHANGED <<case, unsent, enc, out, wire, dec, in, got, err>>

\* The receiving engine is destroyed, with a message in its decoder or not.
DestroyReceiver ==
    LET r == DecoderGone(heap, dec)
    IN  /\ dec.live
        /\ heap' = r.h /\ dec' = r.d
        /\ in' = [at |-> 0, end |-> 0, stopped |-> FALSE]
        /\ UNCHANGED <<case, unsent, enc, out, wire, hand, got, err>>

\* The sending engine is destroyed, and tx_msg with it.
DestroySender ==
    /\ enc.next # "gone"
    /\ heap' = IF enc.msg = NoMessage THEN heap ELSE close(heap, enc.msg)
    /\ enc' = [NewEncoder EXCEPT !.next = "gone"]
    /\ out' = NoBatch
    /\ UNCHANGED <<case, unsent, wire, dec, in, hand, got, err>>

-----------------------------------------------------------------------------
Init ==
    /\ case \in Cases
    /\ LET r == IF case.ver = "raw" THEN [h |-> EmptyHeap, d |-> NewDecoder]
                ELSE Allocate(EmptyHeap, NewDecoder)
       IN  heap = r.h /\ dec = r.d
    /\ unsent = 1
    /\ enc = NewEncoder
    /\ out = NoBatch
    /\ wire = <<>>
    /\ in = [at |-> 0, end |-> 0, stopped |-> FALSE]
    /\ hand = <<>>
    /\ got = 0
    /\ err = ""

Next ==
    \/ \E n \in Writes : OutEvent(n)
    \/ \E n \in 1..Len(wire) : InEvent(n)
    \/ RestartInput
    \/ \E i \in DOMAIN hand : CloseMsg(i) \/ CopyMsg(i)
    \/ \E i \in DOMAIN hand, n \in 1..3 : \E f \in 0..n : Distribute(i, n, f)
    \/ DestroyReceiver
    \/ DestroySender

Spec == Init /\ [][Next]_vars

-----------------------------------------------------------------------------
Messages == {hand[i].m : i \in DOMAIN hand} \cup {enc.msg, dec.msg}

\* No memory is used after it was freed, the slots of a buffer suffice, and what
\* the application holds keeps the data and the flags that were sent, however the
\* stream was cut and whatever was decoded, copied or closed since.
Intact ==
    /\ ~heap.bad
    /\ \A i \in DOMAIN hand :
          /\ Backed(heap, hand[i].m)
          /\ data(heap, hand[i].m) = hand[i].want.data
          /\ hand[i].m.flags \ {"shared"} = hand[i].want.flags

\* Memory that no message and no decoder refers to has been freed.
NoLeak ==
    /\ \A c \in Contents : heap.con[c].live =>
          \E m \in Messages : m.type = "lmsg" /\ m.at = c
    /\ \A b \in Buffers : heap.buf[b].live =>
          dec.buf = b \/ \E m \in Messages : m.type = "zclmsg" /\ m.at = b

\* When all bytes have been written and read every message was delivered, and
\* the decoder refuses only what exceeds ZMQ_MAXMSGSIZE.
RoundTrip ==
    /\ (/\ unsent > Len(case.msgs) /\ enc.msg = NoMessage /\ enc.next # "gone" /\ out.size = 0
        /\ wire = <<>> /\ dec.live /\ ~in.stopped) =>
          got = Len(IF case.ver = "raw" THEN Stream ELSE case.msgs)
    /\ err # "" => err = "EMSGSIZE" /\ case.max >= 0 /\ case.msgs[got + 1].size > case.max

=============================================================================
