-------------------------------- MODULE Api --------------------------------
(***************************************************************************)
(* The C API's calls that send and receive: buffers, vectors of buffers    *)
(* and zmq_msg_t, over a socket whose send () and recv () (modelled in     *)
(* Sockets) take or refuse one part at a time.  One thread makes the       *)
(* calls; between two parts of a vector the socket's state may change, so  *)
(* each part is a step.  A part is a number, its size and its 'more' flag. *)
(* The history variables say which parts left the socket and which ones    *)
(* the application was given.                                              *)
(***************************************************************************)
EXTENDS Integers, Sequences, SequencesExt

CONSTANTS ApiSizes,    \* the sizes of parts and buffers
          IntMax,      \* INT_MAX
          MaxParts,    \* parts that are sent, and parts that are received
          MaxVector    \* entries of a vector

VARIABLES side,      \* "send" or "recv": the calls of this behaviour
          tag,       \* "good", or "bad" once the socket is closed
          pc,        \* "idle", or the call that is in its loop
          call,      \* the last call: its arguments and what it still has to do
          rc,        \* what it returned; why it failed is left out
          opened,    \* messages of the library's own that are not closed
          msg,       \* the application's zmq_msg_t: a part, or NoPart when empty
          inq,       \* parts that can be received
          rcvmore,   \* more parts of this message follow
          outq,      \* parts that the socket took
          taken, given, lost,   \* parts received, handed over, and dropped for want of memory
          next       \* the number of the next part

apivars == <<side, tag, pc, call, rc, opened, msg, inq, rcvmore, outq, taken, given, lost, next>>

NoPart == [n |-> 0, size |-> 0, more |-> FALSE]
Part(size, more) == [n |-> next, size |-> size, more |-> more]
Call(op) == [op |-> op]

Init == /\ side \in {"send", "recv"}
        /\ tag = "good" /\ pc = "idle" /\ call = Call("none")
        /\ rc = 0
        /\ opened = 0
        /\ msg = NoPart
        /\ inq = <<>> /\ rcvmore = FALSE
        /\ outq = <<>>
        /\ taken = <<>> /\ given = <<>> /\ lost = 0
        /\ next = 1

\* A return with an error.
Fails == rc' = -1

\* The peer's parts arrive.
Arrives ==
    /\ Len(inq) + Len(taken) < MaxParts
    /\ \E size \in ApiSizes, more \in BOOLEAN :
          inq' = Append(inq, [n |-> Len(inq) + Len(taken) + 1, size |-> size, more |-> more])
    /\ UNCHANGED <<tag, pc, call, rc, opened, msg, rcvmore, outq, taken, given, lost, next>>

\* Every call asks whether it was given a socket.
NotSocket ==
    /\ pc = "idle" /\ tag = "bad"
    /\ Fails /\ call' = Call("none")
    /\ UNCHANGED <<tag, pc, opened, msg, inq, rcvmore, outq, taken, given, lost, next>>

zmq_close ==
    /\ pc = "idle" /\ tag = "good"
    /\ tag' = "bad" /\ rc' = 0 /\ call' = Call("none")
    /\ UNCHANGED <<pc, opened, msg, inq, rcvmore, outq, taken, given, lost, next>>
-----------------------------------------------------------------------------
(* Sending *)

Truncated(size) == IF size < IntMax THEN size ELSE IntMax

\* The socket takes the part and leaves the message empty, or refuses it.
s_sendmsg(p) ==
    \/ outq' = Append(outq, p) /\ next' = next + 1 /\ rc' = Truncated(p.size)
    \/ Fails /\ UNCHANGED <<outq, next>>

\* Variant that does not close the message that was refused.
CloseRefused_Forgets == opened' = opened + (IF rc' = -1 THEN 1 ELSE 0)

\* A message that was made and refused is closed; one that was taken is empty.
CloseRefused == opened' = opened

\* zmq_send copies the buffer, zmq_send_const refers to it.
zmq_send(size, more) ==
    /\ pc = "idle" /\ tag = "good" /\ next <= MaxParts
    /\ \/ s_sendmsg(Part(size, more)) /\ CloseRefused
       \/ Fails /\ UNCHANGED <<outq, next, opened>>
    /\ call' = Call("none")
    /\ UNCHANGED <<tag, pc, msg, inq, rcvmore, taken, given, lost>>

zmq_send_const(size, more) == zmq_send(size, more)

zmq_sendiov(sizes, more) ==
    /\ pc = "idle" /\ tag = "good" /\ next + Len(sizes) <= MaxParts + 1
    /\ IF sizes = <<>>
       THEN Fails /\ call' = Call("none") /\ UNCHANGED pc
       ELSE /\ pc' = "sendiov"
            /\ call' = [op |-> "sendiov", sizes |-> sizes, more |-> more, first |-> next]
            /\ UNCHANGED rc
    /\ UNCHANGED <<tag, opened, msg, inq, rcvmore, outq, taken, given, lost, next>>

\* Variant that marks all parts alike.
PartMore_Always(more, left) == more

\* The last part of a vector has ZMQ_SNDMORE switched off.
PartMore(more, left) == more /\ Len(left) > 1

\* One turn of the loop.
sendiov_part ==
    /\ pc = "sendiov"
    /\ \/ /\ s_sendmsg(Part(Head(call.sizes), PartMore(call.more, call.sizes)))
          /\ CloseRefused
       \/ Fails /\ UNCHANGED <<outq, next, opened>>
    /\ IF rc' = -1 \/ Len(call.sizes) = 1
       THEN pc' = "idle" /\ UNCHANGED call
       ELSE call' = [call EXCEPT !.sizes = Tail(@)] /\ UNCHANGED pc
    /\ UNCHANGED <<tag, msg, inq, rcvmore, taken, given, lost>>
-----------------------------------------------------------------------------
(* Receiving *)

\* recv () of the socket: a part, or an error.
s_recvmsg ==
    \/ /\ inq # <<>>
       /\ taken' = Append(taken, Head(inq)) /\ inq' = Tail(inq)
       /\ rcvmore' = Head(inq).more
       /\ rc' = Truncated(Head(inq).size)
    \/ Fails /\ UNCHANGED <<taken, inq, rcvmore>>

\* Variant that copies the whole part.
Copied_All(size, len) == size

\* An oversized part is silently truncated.
Copied(size, len) == IF Truncated(size) < len THEN Truncated(size) ELSE len

Given(p, n) == given' = Append(given, [p EXCEPT !.size = n])

zmq_recv(len) ==
    /\ pc = "idle" /\ tag = "good"
    /\ s_recvmsg
    /\ IF rc' = -1 THEN UNCHANGED given ELSE Given(Head(inq), Copied(Head(inq).size, len))
    /\ call' = [op |-> "recv", room |-> len]
    /\ UNCHANGED <<tag, pc, opened, msg, outq, lost, next>>

\* count_ is where the call tells how many parts it read.
zmq_recviov(count) ==
    /\ pc = "idle" /\ tag = "good"
    /\ IF count = 0
       THEN Fails /\ call' = Call("none") /\ UNCHANGED pc
       ELSE pc' = "recviov" /\ call' = [op |-> "recviov", left |-> count, read |-> 0] /\ UNCHANGED rc
    /\ UNCHANGED <<tag, opened, msg, inq, rcvmore, outq, taken, given, lost, next>>

\* One turn of the loop.  A part for which there is no memory is gone, and the
\* message that held it is not closed.
recviov_part ==
    /\ pc = "recviov"
    /\ \/ /\ s_recvmsg /\ rc' # -1
          /\ given' = Append(given, Head(inq))
          /\ call' = [call EXCEPT !.left = @ - 1, !.read = @ + 1]
          /\ pc' = IF rcvmore' /\ call.left > 1 THEN pc ELSE "idle"
          /\ UNCHANGED <<lost, opened>>
       \/ /\ s_recvmsg /\ rc' = -1
          /\ pc' = "idle"
          /\ UNCHANGED <<given, lost, opened, call>>
       \/ /\ inq # <<>>
          /\ taken' = Append(taken, Head(inq)) /\ inq' = Tail(inq) /\ rcvmore' = Head(inq).more
          /\ Fails
          /\ lost' = lost + 1 /\ opened' = opened + 1
          /\ pc' = "idle"
          /\ UNCHANGED <<given, call>>
    /\ UNCHANGED <<tag, msg, outq, next>>
-----------------------------------------------------------------------------
(* zmq_msg_t *)

zmq_msg_init_size(size, more) ==
    /\ pc = "idle" /\ msg = NoPart /\ next <= MaxParts
    /\ \/ msg' = Part(size, more) /\ rc' = 0
       \/ Fails /\ UNCHANGED msg
    /\ call' = Call("none")
    /\ UNCHANGED <<tag, pc, opened, inq, rcvmore, outq, taken, given, lost, next>>

zmq_msg_close ==
    /\ pc = "idle" /\ msg # NoPart
    /\ msg' = NoPart /\ rc' = 0
    /\ call' = Call("none")
    /\ UNCHANGED <<tag, pc, opened, inq, rcvmore, outq, taken, given, lost, next>>

\* The message stays with the application when the socket refuses it.
zmq_msg_send ==
    /\ pc = "idle" /\ tag = "good" /\ next <= MaxParts /\ msg # NoPart
    /\ s_sendmsg([msg EXCEPT !.n = next])
    /\ msg' = IF rc' = -1 THEN msg ELSE NoPart
    /\ call' = Call("none")
    /\ UNCHANGED <<tag, pc, opened, inq, rcvmore, taken, given, lost>>

zmq_msg_recv ==
    /\ pc = "idle" /\ tag = "good"
    /\ s_recvmsg
    /\ IF rc' = -1 THEN UNCHANGED <<msg, given>>
       ELSE msg' = Head(inq) /\ Given(Head(inq), Head(inq).size)
    /\ call' = Call("none")
    /\ UNCHANGED <<tag, pc, opened, outq, lost, next>>
-----------------------------------------------------------------------------
Vectors == UNION {[1..k -> ApiSizes] : k \in 0..MaxVector}

Sending ==
    \/ \E size \in ApiSizes, more \in BOOLEAN :
          zmq_send(size, more) \/ zmq_send_const(size, more) \/ zmq_msg_init_size(size, more)
    \/ \E sizes \in Vectors, more \in BOOLEAN : zmq_sendiov(sizes, more)
    \/ sendiov_part \/ zmq_msg_send

Receiving ==
    \/ Arrives
    \/ \E len \in ApiSizes : zmq_recv(len)
    \/ \E count \in 0..MaxVector : zmq_recviov(count)
    \/ recviov_part \/ zmq_msg_recv

Next ==
    /\ UNCHANGED side
    /\ \/ NotSocket \/ zmq_close \/ zmq_msg_close
       \/ side = "send" /\ Sending
       \/ side = "recv" /\ Receiving

Spec == Init /\ [][Next]_apivars
-----------------------------------------------------------------------------
\* Every part that left the socket was given to the application, in order,
\* except those for which zmq_recviov found no memory; the messages that held
\* them are the only ones nobody closes.
PartsReported ==
    /\ Len(given) + lost = Len(taken)
    /\ \A i \in 1..Len(given) - 1 : given[i].n < given[i + 1].n
    /\ opened = lost

\* zmq_recv never writes past the buffer and never more than the part had, and no
\* call that succeeded returns a negative number, whatever the size of the part.
BufferRespected ==
    /\ \A i \in DOMAIN given : given[i].size <= taken[given[i].n].size
    /\ call.op = "recv" /\ rc # -1 => Last(given).size <= call.room
    /\ rc = -1 \/ rc \in 0..IntMax

\* A vector sent with ZMQ_SNDMORE is one message, and one sent without it is as many
\* messages as it has parts: when zmq_sendiov has succeeded all parts are marked
\* accordingly and the last one ends a message.
VectorIsMessage ==
    call.op = "sendiov" =>
        /\ \A i \in call.first .. next - 2 : outq[i].more = call.more
        /\ pc = "idle" /\ rc # -1 => ~outq[next - 1].more

\* zmq_recviov gives parts of one message only, and when it has succeeded it has
\* filled the vector or reached the end of the message.
MessageInVector ==
    call.op = "recviov" =>
        LET parts == {Len(given) - k : k \in 0 .. call.read - 1}
        IN  /\ \A i \in parts : i < Len(given) => given[i].more
            /\ pc = "idle" /\ rc # -1 => call.left = 0 \/ ~Last(given).more

ApiSound == PartsReported /\ BufferRespected /\ VectorIsMessage /\ MessageInVector
=============================================================================
