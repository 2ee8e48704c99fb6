-------------------------------- MODULE Msg --------------------------------
(***************************************************************************)
(* msg_t, and the memory its messages share.  A heap holds the contents    *)
(* that malloc gave to long messages, and the receive buffers of the       *)
(* decoders, each with a reference count and the content_t slots that lie  *)
(* behind its bytes.  A message is a record; operators take a heap and     *)
(* messages and return them changed.                                       *)
(*                                                                         *)
(* vsm messages hold their data, lmsg messages point to a content, cmsg    *)
(* messages to constant data, zclmsg messages to a slot of a buffer.  A    *)
(* field bad of the heap says that memory was used after it was freed.     *)
(***************************************************************************)
EXTENDS Integers, Sequences, FiniteSets

CONSTANTS MaxVsm,     \* max_vsm_size
          Buffers,    \* the addresses of receive buffers
          Contents    \* the addresses of contents

None == 0
NoContent == [live |-> FALSE, data |-> <<>>, ref |-> 0]
NoBuffer == [live |-> FALSE, ref |-> 0, cells |-> <<>>, slots |-> <<>>]

EmptyHeap ==
    [buf |-> [b \in Buffers |-> NoBuffer], con |-> [c \in Contents |-> NoContent],
     bad |-> FALSE]

Lowest(S) == CHOOSE i \in S : \A j \in S : i <= j
FreeContent(h) == Lowest({c \in Contents : ~h.con[c].live})
FreeBuffer(h) == Lowest({b \in Buffers : ~h.buf[b].live})
Use(h, ok) == [h EXCEPT !.bad = @ \/ ~ok]

Closed == [type |-> "none"]
Message(type) == [type |-> type, flags |-> {}, data |-> <<>>, at |-> None, slot |-> None]

\* init ()
init == Message("vsm")

\* init_size () of a message whose data is not there yet
init_size(h, size) ==
    LET c == FreeContent(h)
        blank == [i \in 1..size |-> 0]
    IN  IF size <= MaxVsm THEN [h |-> h, m |-> [Message("vsm") EXCEPT !.data = blank]]
        ELSE [h |-> [h EXCEPT !.con[c] = [live |-> TRUE, data |-> blank, ref |-> 0]],
              m |-> [Message("lmsg") EXCEPT !.at = c]]

\* init_data (): with no function to free it the data is constant.
init_data(h, data, ffn) ==
    LET c == FreeContent(h)
    IN  IF ~ffn THEN [h |-> h, m |-> [Message("cmsg") EXCEPT !.data = data]]
        ELSE [h |-> [h EXCEPT !.con[c] = [live |-> TRUE, data |-> data, ref |-> 0]],
              m |-> [Message("lmsg") EXCEPT !.at = c]]

\* init_external_storage (): the content lies in a slot of the buffer.
init_external_storage(h, b, slot, off, size) ==
    [h |-> [h EXCEPT !.buf[b].slots[slot] = [off |-> off, size |-> size, ref |-> 0]],
     m |-> [Message("zclmsg") EXCEPT !.at = b, !.slot = slot]]

\* init () with data of a buffer
init_from(h, b, slot, off, size) ==
    LET r == init_size(h, size)
    IN  IF size < MaxVsm
        THEN [r EXCEPT !.m.data = SubSeq(h.buf[b].cells, off + 1, off + size)]
        ELSE init_external_storage(h, b, slot, off, size)

is_zcmsg(m) == m.type = "zclmsg"
Shared(m) == "shared" \in m.flags

data(h, m) ==
    CASE m.type \in {"vsm", "cmsg"} -> m.data
      [] m.type = "lmsg" -> h.con[m.at].data
      [] OTHER -> LET s == h.buf[m.at].slots[m.slot]
                  IN  SubSeq(h.buf[m.at].cells, s.off + 1, s.off + s.size)

size(h, m) == Len(data(h, m))

\* Whether the memory of a message is there.
Backed(h, m) ==
    /\ m.type = "lmsg" => h.con[m.at].live
    /\ is_zcmsg(m) => h.buf[m.at].live

refcnt(h, m) == IF m.type = "lmsg" THEN h.con[m.at].ref ELSE h.buf[m.at].slots[m.slot].ref

SetRefs(h, m, n) ==
    IF m.type = "lmsg" THEN [h EXCEPT !.con[m.at].ref = n]
    ELSE [h EXCEPT !.buf[m.at].slots[m.slot].ref = n]

\* The atomic operations on a count
add(h, m, n) == SetRefs(h, m, refcnt(h, m) + n)
sub(h, m, n) == SetRefs(h, m, refcnt(h, m) - n)

\* shared_message_memory_allocator::call_dec_ref
call_dec_ref(h, b) ==
    LET h1 == Use(h, h.buf[b].live)
    IN  IF h.buf[b].ref > 1 THEN [h1 EXCEPT !.buf[b].ref = @ - 1]
        ELSE [h1 EXCEPT !.buf[b] = NoBuffer]

\* The last reference of a content is gone.
Freed(h, m) ==
    LET h1 == Use(h, Backed(h, m))
    IN  IF is_zcmsg(m) THEN call_dec_ref(h1, m.at)
        ELSE [h1 EXCEPT !.con[m.at] = NoContent]

close(h, m) ==
    IF m.type \notin {"lmsg", "zclmsg"} THEN h
    ELSE IF ~Shared(m) THEN Freed(h, m)
    ELSE LET h1 == sub(h, m, 1)
         IN  IF refcnt(h1, m) = 0 THEN Freed(h1, m) ELSE h1

\* Both messages say afterwards that the content is shared.
copy(h, src) ==
    LET m == [src EXCEPT !.flags = @ \cup {"shared"}]
    IN  IF src.type \notin {"lmsg", "zclmsg"} THEN [h |-> h, src |-> src, dst |-> src]
        ELSE [h |-> IF Shared(src) THEN add(h, src, 1) ELSE SetRefs(h, src, 2),
              src |-> m, dst |-> m]

add_refs(h, m, n) ==
    IF n = 0 \/ m.type \notin {"lmsg", "zclmsg"} THEN [h |-> h, m |-> m]
    ELSE [h |-> IF Shared(m) THEN add(h, m, n) ELSE SetRefs(h, m, n + 1),
          m |-> [m EXCEPT !.flags = @ \cup {"shared"}]]

rm_refs_Closes(h, m, n) == IF n = 0 THEN h ELSE close(h, m)

rm_refs(h, m, n) ==
    IF n = 0 THEN h
    ELSE IF m.type \notin {"lmsg", "zclmsg"} \/ ~Shared(m) THEN close(h, m)
    ELSE LET h1 == sub(h, m, n)
         IN  IF refcnt(h1, m) = 0 THEN Freed(h1, m) ELSE h1

=============================================================================
