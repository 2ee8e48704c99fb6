----------------------------- MODULE PipeProofs -----------------------------
(***************************************************************************)
(* Proofs about pipe_t, for any watermarks, any bounds, any number of      *)
(* hiccups and any users of the two ends.                                  *)
(***************************************************************************)
EXTENDS Pipe, FiniteSetTheorems, SequenceTheorems, TLAPS

-----------------------------------------------------------------------------
(* Queues of commands *)

Has(q, t) == \E n \in 1..Len(q) : q[n].type = t

\* The lock-free pipes that hiccup commands in the queue bring.
HArgs(q) == {q[n].arg : n \in {m \in 1..Len(q) : q[m].type = "hiccup"}}

\* The order in which one end sends: hiccups, each with a newer pipe, before its
\* only request to terminate, and nothing after its acknowledgement.
QueueOK(q) ==
    /\ \A m, n \in 1..Len(q) : q[m].type = "pipe_term" /\ q[n].type = "pipe_term" => m = n
    /\ \A m, n \in 1..Len(q) : q[m].type = "hiccup" /\ q[n].type = "pipe_term" => m < n
    /\ \A m, n \in 1..Len(q) : q[m].type = "hiccup" /\ q[n].type = "hiccup" /\ m < n => q[m].arg < q[n].arg
    /\ \A n \in 1..Len(q) : q[n].type = "pipe_term_ack" => n = Len(q)

\* The hiccups on their way when one more command is sent.
LEMMA HArgsAppend ==
    ASSUME NEW q \in Seq(Command), NEW c \in Command
    PROVE  HArgs(Append(q, c)) = HArgs(q) \cup IF c.type = "hiccup" THEN {c.arg} ELSE {}
<1> DEFINE r == Append(q, c)
           n == Len(q)
<1>1. /\ r \in Seq(Command) /\ Len(r) = n + 1 /\ n \in Nat
      /\ \A i \in 1..n : r[i] = q[i]
      /\ r[n + 1] = c
  BY AppendProperties, LenProperties
<1>2. \A i \in 1..Len(r) : i = n + 1 \/ i \in 1..n
  BY <1>1
<1>3. \A i \in 1..n : q[i].type = "hiccup" => q[i].arg \in HArgs(q)
  BY DEF HArgs
<1>4. ASSUME NEW a \in HArgs(r) PROVE a \in HArgs(q) \/ (c.type = "hiccup" /\ a = c.arg)
  <2>1. PICK i \in 1..Len(r) : r[i].type = "hiccup" /\ a = r[i].arg
    BY DEF HArgs
  <2> QED
    BY <1>1, <1>2, <1>3, <2>1
<1>5. ASSUME NEW a \in HArgs(q) PROVE a \in HArgs(r)
  <2>1. PICK i \in 1..n : q[i].type = "hiccup" /\ a = q[i].arg
    BY DEF HArgs
  <2>2. i \in 1..Len(r) /\ r[i].type = "hiccup" /\ a = r[i].arg
    BY <1>1, <2>1
  <2> QED
    BY <2>2 DEF HArgs
<1>6. ASSUME c.type = "hiccup" PROVE c.arg \in HArgs(r)
  <2>1. n + 1 \in 1..Len(r) /\ r[n + 1].type = "hiccup" /\ c.arg = r[n + 1].arg
    BY <1>1, <1>6
  <2> QED
    BY <2>1 DEF HArgs
<1> QED
  BY <1>4, <1>5, <1>6

\* A queue of commands stays in order with one more, that may follow.
LEMMA QAppend ==
    ASSUME NEW q \in Seq(Command), QueueOK(q), NEW c \in Command,
           ~Has(q, "pipe_term_ack"),
           c.type = "pipe_term" => ~Has(q, "pipe_term"),
           c.type = "hiccup" => ~Has(q, "pipe_term") /\ \A a \in HArgs(q) : a < c.arg
    PROVE  /\ Append(q, c) \in Seq(Command) /\ QueueOK(Append(q, c)) /\ Append(q, c) # <<>>
           /\ \A t : Has(Append(q, c), t) <=> Has(q, t) \/ c.type = t
           /\ HArgs(Append(q, c)) = HArgs(q) \cup IF c.type = "hiccup" THEN {c.arg} ELSE {}
<1> DEFINE r == Append(q, c)
           n == Len(q)
<1>1. /\ r \in Seq(Command) /\ Len(r) = n + 1 /\ n \in Nat /\ r # <<>>
      /\ \A i \in 1..n : r[i] = q[i]
      /\ r[n + 1] = c
  BY AppendProperties, LenProperties
<1>2. \A i \in 1..Len(r) : i = n + 1 \/ i \in 1..n
  BY <1>1
<1>3. \A t : Has(r, t) <=> Has(q, t) \/ c.type = t
  <2> TAKE t
  <2>1. ASSUME Has(q, t) PROVE Has(r, t)
    <3>1. PICK i \in 1..n : q[i].type = t
      BY <2>1 DEF Has
    <3>2. i \in 1..Len(r) /\ r[i].type = t
      BY <1>1, <3>1
    <3> QED
      BY <3>2 DEF Has
  <2>2. ASSUME c.type = t PROVE Has(r, t)
    <3>1. n + 1 \in 1..Len(r)
      BY <1>1
    <3> QED
      BY <1>1, <2>2, <3>1 DEF Has
  <2>3. ASSUME Has(r, t), c.type # t PROVE Has(q, t)
    BY <1>1, <1>2, <2>3 DEF Has
  <2> QED
    BY <2>1, <2>2, <2>3
<1>4. \A i \in 1..n : q[i].type = "hiccup" => q[i].arg \in HArgs(q)
  BY DEF HArgs
<1>5. QueueOK(r)
  <2>1. \A i \in 1..n : q[i].type # "pipe_term_ack"
    BY DEF Has
  <2>2. c.type \in {"pipe_term", "hiccup"} => \A i \in 1..n : q[i].type # "pipe_term"
    BY DEF Has
  <2>3. \A i, j \in 1..Len(r) : r[i].type = "pipe_term" /\ r[j].type = "pipe_term" => i = j
    BY <1>1, <1>2, <2>2 DEF QueueOK
  <2>4. \A i, j \in 1..Len(r) : r[i].type = "hiccup" /\ r[j].type = "pipe_term" => i < j
    BY <1>1, <1>2, <2>2 DEF QueueOK
  <2>5. \A i, j \in 1..Len(r) : r[i].type = "hiccup" /\ r[j].type = "hiccup" /\ i < j => r[i].arg < r[j].arg
    BY <1>1, <1>2, <1>4 DEF QueueOK
  <2>6. \A i \in 1..Len(r) : r[i].type = "pipe_term_ack" => i = Len(r)
    BY <1>1, <1>2, <2>1
  <2> HIDE DEF r
  <2> QED
    BY <2>3, <2>4, <2>5, <2>6 DEF QueueOK
<1>6. HArgs(r) = HArgs(q) \cup IF c.type = "hiccup" THEN {c.arg} ELSE {}
  BY HArgsAppend
<1> QED
  BY <1>1, <1>3, <1>5, <1>6

\* A queue of commands stays in order when its head is processed.
LEMMA QTail ==
    ASSUME NEW q \in Seq(Command), QueueOK(q), q # <<>>
    PROVE  /\ Head(q) \in Command /\ Tail(q) \in Seq(Command) /\ QueueOK(Tail(q))
           /\ \A t : Has(q, t) <=> Has(Tail(q), t) \/ Head(q).type = t
           /\ Head(q).type = "pipe_term" => ~Has(Tail(q), "pipe_term") /\ ~Has(q, "hiccup")
           /\ Head(q).type = "pipe_term_ack" => Tail(q) = <<>>
           /\ HArgs(q) = HArgs(Tail(q)) \cup IF Head(q).type = "hiccup" THEN {Head(q).arg} ELSE {}
           /\ Head(q).type = "hiccup" => \A a \in HArgs(Tail(q)) : Head(q).arg < a
<1> DEFINE r == Tail(q)
           n == Len(q)
<1>1. /\ Head(q) \in Command /\ r \in Seq(Command) /\ Len(r) = n - 1 /\ n \in Nat /\ n >= 1
      /\ \A i \in 1..(n - 1) : r[i] = q[i + 1] /\ i + 1 \in 1..n
      /\ Head(q) = q[1] /\ 1 \in 1..n
  <2>1. n \in Nat /\ n >= 1
    BY EmptySeq, LenProperties
  <2>2. Head(q) \in Command /\ r \in Seq(Command) /\ Len(r) = n - 1 /\ \A i \in 1..Len(r) : r[i] = q[i + 1]
    BY HeadTailProperties
  <2>3. Head(q) = q[1]
    BY DEF Head
  <2> QED
    BY <2>1, <2>2, <2>3
<1>2. \A i \in 1..n : i = 1 \/ (i - 1 \in 1..(n - 1) /\ r[i - 1] = q[i])
  BY <1>1
<1>3. \A t : Has(q, t) <=> Has(r, t) \/ Head(q).type = t
  <2> TAKE t
  <2>1. ASSUME Has(q, t), Head(q).type # t PROVE Has(r, t)
    <3>1. PICK i \in 1..n : q[i].type = t
      BY <2>1 DEF Has
    <3>2. i - 1 \in 1..Len(r) /\ r[i - 1].type = t
      BY <1>1, <1>2, <2>1, <3>1
    <3> QED
      BY <3>2 DEF Has
  <2>2. ASSUME Has(r, t) PROVE Has(q, t)
    <3>1. PICK i \in 1..(n - 1) : r[i].type = t
      BY <1>1, <2>2 DEF Has
    <3>2. i + 1 \in 1..n /\ q[i + 1].type = t
      BY <1>1, <3>1
    <3> QED
      BY <3>2 DEF Has
  <2>3. ASSUME Head(q).type = t PROVE Has(q, t)
    BY <1>1, <2>3 DEF Has
  <2> QED
    BY <2>1, <2>2, <2>3
<1>4. QueueOK(r)
  <2>1. \A i, j \in 1..Len(r) : r[i].type = "pipe_term" /\ r[j].type = "pipe_term" => i = j
    <3> SUFFICES ASSUME NEW i \in 1..(n - 1), NEW j \in 1..(n - 1),
                        r[i].type = "pipe_term" /\ r[j].type = "pipe_term"
                 PROVE  i = j
      BY <1>1
    <3>1. i + 1 \in 1..n /\ j + 1 \in 1..n /\ r[i] = q[i + 1] /\ r[j] = q[j + 1]
      BY <1>1
    <3>2. i + 1 = j + 1
      BY <3>1 DEF QueueOK
    <3> QED
      BY <3>1, <3>2
  <2>2. \A i, j \in 1..Len(r) : r[i].type = "hiccup" /\ r[j].type = "pipe_term" => i < j
    <3> SUFFICES ASSUME NEW i \in 1..(n - 1), NEW j \in 1..(n - 1),
                        r[i].type = "hiccup" /\ r[j].type = "pipe_term"
                 PROVE  i < j
      BY <1>1
    <3>1. i + 1 \in 1..n /\ j + 1 \in 1..n /\ r[i] = q[i + 1] /\ r[j] = q[j + 1]
      BY <1>1
    <3>2. i + 1 < j + 1
      BY <3>1 DEF QueueOK
    <3> QED
      BY <3>1, <3>2
  <2>3. \A i, j \in 1..Len(r) : r[i].type = "hiccup" /\ r[j].type = "hiccup" /\ i < j => r[i].arg < r[j].arg
    <3> SUFFICES ASSUME NEW i \in 1..(n - 1), NEW j \in 1..(n - 1),
                        r[i].type = "hiccup" /\ r[j].type = "hiccup" /\ i < j
                 PROVE  r[i].arg < r[j].arg
      BY <1>1
    <3>1. i + 1 \in 1..n /\ j + 1 \in 1..n /\ r[i] = q[i + 1] /\ r[j] = q[j + 1]
      BY <1>1
    <3>2. q[i + 1].arg < q[j + 1].arg
      BY <3>1 DEF QueueOK
    <3> QED
      BY <3>1, <3>2
  <2>4. \A i \in 1..Len(r) : r[i].type = "pipe_term_ack" => i = Len(r)
    <3> SUFFICES ASSUME NEW i \in 1..(n - 1), r[i].type = "pipe_term_ack" PROVE i = n - 1
      BY <1>1
    <3>1. i + 1 \in 1..n /\ r[i] = q[i + 1]
      BY <1>1
    <3>2. i + 1 = n
      BY <3>1 DEF QueueOK
    <3>3. n \in Nat
      BY <1>1
    <3> QED
      BY <3>2, <3>3
  <2> HIDE DEF r
  <2> QED
    BY <2>1, <2>2, <2>3, <2>4 DEF QueueOK
<1>5. ASSUME Head(q).type = "pipe_term" PROVE ~Has(r, "pipe_term") /\ ~Has(q, "hiccup")
  <2>1. \A i \in 1..(n - 1) : r[i].type # "pipe_term"
    <3> SUFFICES ASSUME NEW i \in 1..(n - 1), r[i].type = "pipe_term" PROVE FALSE
      OBVIOUS
    <3>1. i + 1 = 1
      BY <1>1, <1>5 DEF QueueOK
    <3> QED
      BY <3>1
  <2>2. \A i \in 1..n : q[i].type # "hiccup"
    <3> SUFFICES ASSUME NEW i \in 1..n, q[i].type = "hiccup" PROVE FALSE
      OBVIOUS
    <3>1. i < 1
      BY <1>1, <1>5 DEF QueueOK
    <3> QED
      BY <3>1
  <2> QED
    BY <1>1, <2>1, <2>2 DEF Has
<1>6. ASSUME Head(q).type = "pipe_term_ack" PROVE r = <<>>
  <2>1. n = 1
    BY <1>1, <1>6 DEF QueueOK
  <2>2. r \in Seq(Command) /\ Len(r) = 0
    BY <1>1, <2>1
  <2> HIDE DEF r
  <2> QED
    BY <2>2, EmptySeq
<1>7. HArgs(q) = HArgs(r) \cup IF Head(q).type = "hiccup" THEN {Head(q).arg} ELSE {}
  <2>1. ASSUME NEW a \in HArgs(q) PROVE a \in HArgs(r) \/ (Head(q).type = "hiccup" /\ a = Head(q).arg)
    <3>1. PICK i \in 1..n : q[i].type = "hiccup" /\ a = q[i].arg
      BY DEF HArgs
    <3>2. CASE i = 1
      BY <1>1, <3>1, <3>2
    <3>3. CASE i # 1
      <4>1. i - 1 \in 1..Len(r) /\ r[i - 1].type = "hiccup" /\ a = r[i - 1].arg
        BY <1>1, <1>2, <3>1, <3>3
      <4> QED
        BY <4>1 DEF HArgs
    <3> QED
      BY <3>2, <3>3
  <2>2. ASSUME NEW a \in HArgs(r) PROVE a \in HArgs(q)
    <3>1. PICK i \in 1..(n - 1) : r[i].type = "hiccup" /\ a = r[i].arg
      BY <1>1 DEF HArgs
    <3>2. i + 1 \in 1..n /\ q[i + 1].type = "hiccup" /\ a = q[i + 1].arg
      BY <1>1, <3>1
    <3> QED
      BY <3>2 DEF HArgs
  <2>3. ASSUME Head(q).type = "hiccup" PROVE Head(q).arg \in HArgs(q)
    BY <1>1, <2>3 DEF HArgs
  <2> QED
    BY <2>1, <2>2, <2>3
<1>8. ASSUME Head(q).type = "hiccup", NEW a \in HArgs(r) PROVE Head(q).arg < a
  <2>1. PICK i \in 1..(n - 1) : r[i].type = "hiccup" /\ a = r[i].arg
    BY <1>1 DEF HArgs
  <2>2. i + 1 \in 1..n /\ 1 < i + 1 /\ q[i + 1].type = "hiccup" /\ a = q[i + 1].arg
    BY <1>1, <2>1
  <2> QED
    BY <1>1, <1>8, <2>2 DEF QueueOK
<1> QED
  BY <1>1, <1>3, <1>4, <1>5, <1>6, <1>7, <1>8
-----------------------------------------------------------------------------
(* The inductive invariant *)

Acked == {"term_ack_sent", "term_req_sent2", "gone"}
Begun == {"active", "delimiter_received", "term_req_sent1"}

\* Which states the two ends can be in together, and what is then on its way: a
\* request until the receiver has processed it, an acknowledgement until the
\* receiver is gone, a hiccup only before either.
TermOK(s, t, q) ==
    /\ QueueOK(q)
    /\ s \in {"active", "delimiter_received"} => t \in Begun
    /\ s = "waiting_for_delimiter" => t = "term_req_sent1"
    /\ s = "term_ack_sent" => t \in {"term_req_sent1", "gone"}
    /\ s = "term_req_sent2" => t \in {"term_req_sent1", "term_req_sent2", "gone"}
    /\ s = "gone" => t \in Acked /\ q = <<>>
    /\ Has(q, "pipe_term") <=> s \in Begun /\ t \in {"term_req_sent1", "term_req_sent2"}
    /\ Has(q, "pipe_term_ack") <=> t \in Acked /\ s # "gone"
    /\ Has(q, "hiccup") => s \in Begun

TermInv == \A e \in End : TermOK(State(e), State(peer(e)), cmds[e])

\* The lock-free pipes that e reads, or will when its peer has been told.
Dir(e) == ({pipe[e].inpipe, pipe[peer(e)].outpipe} \cup HArgs(cmds[peer(e)])) \ {NULL}

Made == 2 + calls[1].hiccups + calls[2].hiccups

\* One end reads i, the other writes o, and hiccups on their way to it bring H.
ChainOK(i, o, H) == /\ \A a \in H : o < a /\ a <= i
                    /\ o \in {NULL, i} \/ i \in H

\* The lock-free pipes of each direction: what the peer of e writes, then what it
\* will write after each hiccup, up to what e reads.  Exactly those are alive.
QueuesInv ==
    /\ \A e \in End :
         /\ pipe[e].inpipe = NULL <=> State(e) = "gone"
         /\ pipe[e].outpipe = NULL <=> State(e) \in Acked
         /\ pipe[e].inpipe <= Made /\ pipe[e].outpipe <= Made
         /\ ChainOK(pipe[peer(e)].inpipe, pipe[e].outpipe, HArgs(cmds[e]))
         /\ Dir(e) \cap Dir(peer(e)) = {}
    /\ \A i \in UpipeId : upipe[i].live <=> \E e \in End : i \in Dir(e)

\* A reader that gave up is woken by the next flush, or an activation is on its
\* way already.
SleepInv ==
    /\ \A i \in UpipeId : upipe[i].asleep => upipe[i].flushed = <<>>
    /\ \A e \in End : Readable(e) /\ ~pipe[e].in_active =>
          upipe[pipe[e].inpipe].asleep \/ Has(cmds[e], "activate_read")

IInv == TypeOK /\ TermInv /\ QueuesInv /\ SleepInv
-----------------------------------------------------------------------------
\* Each end is the peer of its peer.
LEMMA Peers == \A e \in End : /\ peer(e) \in End /\ peer(e) # e /\ peer(peer(e)) = e
                              /\ \A d \in End : d = e \/ d = peer(e)
<1> QED
  BY DEF End, peer

\* What is sent: nothing, one command or two.
LEMMA Sends ==
    ASSUME NEW q \in Seq(Command), NEW c \in Command, NEW d \in Command
    PROVE  /\ q \o <<>> = q /\ q \o <<c>> = Append(q, c)
           /\ <<c>> \o <<>> = <<c>> /\ <<>> \o <<c>> = <<c>> /\ <<>> \o <<>> = <<>>
           /\ q \o (<<c>> \o <<d>>) = Append(Append(q, c), d)
<1>1. <<c>> \in Seq(Command) /\ <<d>> \in Seq(Command) /\ <<>> \in Seq(Command)
  OBVIOUS
<1>2. q \o (<<c>> \o <<d>>) = (q \o <<c>>) \o <<d>>
  BY <1>1, ConcatAssociative
<1>3. Append(q, c) \in Seq(Command)
  BY AppendProperties
<1>4. \A r \in Seq(Command) : r \o <<>> = r /\ <<>> \o r = r
  BY ConcatEmptySeq
<1>5. Append(q, c) = q \o <<c>> /\ Append(Append(q, c), d) = Append(q, c) \o <<d>>
  BY <1>3, AppendIsConcat
<1> QED
  BY <1>1, <1>2, <1>4, <1>5

\* Writing and flushing keep the types; neither revives or deletes a pipe.
LEMMA UpipeOps ==
    ASSUME NEW u \in Upipe, NEW m \in Part
    PROVE  /\ Written(u, m) \in Upipe /\ Written(u, m).live = u.live
           /\ Written(u, m).asleep = u.asleep /\ Written(u, m).flushed = u.flushed
           /\ FlushedUpipe(u) \in Upipe /\ FlushedUpipe(u).live = u.live
           /\ FlushedUpipe(u).asleep => u.asleep /\ FlushedUpipe(u).flushed = u.flushed
           /\ u.asleep /\ ~FlushFails(u) => FlushedUpipe(u).asleep
           /\ WithDelimiter(u) \in Upipe /\ WithDelimiter(u).live = u.live /\ ~WithDelimiter(u).asleep
<1>1. /\ u.partial \in Seq(Part) /\ u.complete \in Seq(Part) /\ u.flushed \in Seq(Part)
      /\ <<>> \in Seq(Part) /\ Delimiter \in Part
  BY DEF Upipe, Part, Delimiter
<1>2. /\ Append(u.partial, m) \in Seq(Part) /\ u.complete \o Append(u.partial, m) \in Seq(Part)
      /\ Append(u.complete, Delimiter) \in Seq(Part) /\ u.flushed \o u.complete \in Seq(Part)
      /\ u.flushed \o Append(u.complete, Delimiter) \in Seq(Part)
      /\ Append(u.complete, Delimiter) # <<>>
  BY <1>1, AppendProperties, ConcatProperties
<1>3. /\ Written(u, m) \in Upipe /\ Written(u, m).live = u.live
      /\ Written(u, m).asleep = u.asleep /\ Written(u, m).flushed = u.flushed
  BY <1>1, <1>2 DEF Written, Upipe
<1>4. /\ FlushedUpipe(u) \in Upipe /\ FlushedUpipe(u).live = u.live
      /\ FlushedUpipe(u).asleep => u.asleep /\ FlushedUpipe(u).flushed = u.flushed
      /\ u.asleep /\ ~FlushFails(u) => FlushedUpipe(u).asleep
  BY <1>1, <1>2 DEF FlushedUpipe, FlushFails, Upipe
<1>5. WithDelimiter(u) \in Upipe /\ WithDelimiter(u).live = u.live /\ ~WithDelimiter(u).asleep
  BY <1>1, <1>2 DEF WithDelimiter, FlushedUpipe, Upipe
<1> QED
  BY <1>3, <1>4, <1>5

\* The invariant holds for a new pair.
LEMMA InitInv == Init => IInv
<1> SUFFICES ASSUME Init PROVE IInv
  OBVIOUS
<1> USE PipeAssumption
<1>1. <<>> \in Seq(Part) /\ <<>> \in Seq(Command) /\ Len(<<>>) = 0 /\ 1..0 = {}
  OBVIOUS
<1>2. \A e \in End : peer(e) \in End /\ peer(e) \in UpipeId /\ e \in UpipeId /\ e \in Nat /\ peer(e) \in Nat
  BY DEF End, peer, UpipeId
<1>3. NewUpipe \in Upipe /\ NoUpipe \in Upipe
  BY <1>1 DEF NewUpipe, NoUpipe, Upipe
<1>4. \A h \in Nat : compute_lwm(h) \in Nat
  BY DEF compute_lwm
<1>5. \A e \in End : Hwm[e] \in Nat /\ Hwm[peer(e)] \in Nat
  BY <1>2 DEF End
<1>6. TypeOK
  <2>1. upipe \in [UpipeId -> Upipe]
    BY <1>3 DEF Init
  <2>2. pipe \in [End -> PipeObject]
    <3> DEFINE New(e, b) ==
          [state |-> "active", inpipe |-> e, outpipe |-> peer(e),
           in_active |-> TRUE, out_active |-> TRUE,
           hwm |-> Hwm[e], lwm |-> compute_lwm(Hwm[peer(e)]),
           msgs_read |-> 0, msgs_written |-> 0, peers_msgs_read |-> 0, delay |-> b]
    <3>1. \A e \in End, b \in BOOLEAN : New(e, b) \in PipeObject
      BY <1>2, <1>4, <1>5 DEF PipeObject, States
    <3>2. \A e \in End : (e \notin NoDelay) \in BOOLEAN
      OBVIOUS
    <3>3. pipe = [e \in End |-> New(e, e \notin NoDelay)]
      BY DEF Init
    <3> HIDE DEF New
    <3> QED
      BY <3>1, <3>2, <3>3
  <2>3. cmds \in [End -> Seq(Command)]
    BY <1>1 DEF Init
  <2>4. /\ sent \in [End -> Said] /\ got \in [End -> [num : Int, more : BOOLEAN]]
        /\ calls \in [End -> [terms : Nat, hiccups : Nat, hwms : Nat]]
    BY DEF Init, Said
  <2> QED
    BY <2>1, <2>2, <2>3, <2>4 DEF TypeOK
<1>7. \A t : ~Has(<<>>, t)
  BY <1>1 DEF Has
<1>8. HArgs(<<>>) = {}
  BY <1>1 DEF HArgs
<1>9. QueueOK(<<>>)
  BY <1>1 DEF QueueOK
<1>10. \A e \in End : /\ State(e) = "active" /\ cmds[e] = <<>> /\ pipe[e].inpipe = e /\ pipe[e].outpipe = peer(e)
                      /\ pipe[e].in_active = TRUE /\ calls[e].hiccups = 0
  BY DEF Init, State
<1>11. TermInv
  BY <1>2, <1>7, <1>9, <1>10 DEF TermInv, TermOK, Acked, Begun
<1>12. \A e \in End : Dir(e) = {e}
  BY <1>2, <1>8, <1>10, Peers DEF Dir, NULL, End
<1>13. QueuesInv
  <2>1. \A i \in UpipeId : upipe[i].live <=> i <= 2
    BY DEF Init, NewUpipe, NoUpipe
  <2>2. \A i \in UpipeId : i <= 2 <=> \E e \in End : i \in Dir(e)
    BY <1>12 DEF End, UpipeId
  <2>3. Made = 2
    BY <1>10 DEF Made, End
  <2>4. ASSUME NEW e \in End
        PROVE  /\ pipe[e].inpipe = NULL <=> State(e) = "gone"
               /\ pipe[e].outpipe = NULL <=> State(e) \in Acked
               /\ pipe[e].inpipe <= Made /\ pipe[e].outpipe <= Made
               /\ ChainOK(pipe[peer(e)].inpipe, pipe[e].outpipe, HArgs(cmds[e]))
               /\ Dir(e) \cap Dir(peer(e)) = {}
    BY <1>2, <1>8, <1>10, <1>12, <2>3, Peers DEF ChainOK, NULL, Acked, End, peer
  <2> QED
    BY <2>1, <2>2, <2>4 DEF QueuesInv
<1>14. SleepInv
  BY <1>10 DEF SleepInv, Init, NewUpipe, NoUpipe
<1> QED
  BY <1>6, <1>11, <1>13, <1>14 DEF IInv

\* A step that changes neither the states nor the pipes in use, and of the queues
\* of commands only what does not matter to them.
LEMMA Frame ==
    ASSUME IInv,
           \A e \in End : /\ State(e)' = State(e)
                          /\ pipe'[e].inpipe = pipe[e].inpipe /\ pipe'[e].outpipe = pipe[e].outpipe
                          /\ calls'[e].hiccups = calls[e].hiccups
                          /\ QueueOK(cmds'[e]) /\ HArgs(cmds'[e]) = HArgs(cmds[e])
                          /\ State(e) = "gone" => cmds'[e] = <<>>
                          /\ \A t \in {"pipe_term", "pipe_term_ack", "hiccup"} : Has(cmds'[e], t) <=> Has(cmds[e], t),
           \A i \in UpipeId : upipe'[i].live = upipe[i].live
    PROVE  TermInv' /\ QueuesInv'
<1>1. TermInv'
  <2> SUFFICES ASSUME NEW e \in End PROVE TermOK(State(e)', State(peer(e))', cmds'[e])
    BY DEF TermInv
  <2>1. TermOK(State(e), State(peer(e)), cmds[e])
    BY DEF IInv, TermInv
  <2>2. State(e)' = State(e) /\ State(peer(e))' = State(peer(e))
    BY Peers
  <2> QED
    BY <2>1, <2>2 DEF TermOK
<1>2. QueuesInv'
  <2>1. \A e \in End : Dir(e)' = Dir(e)
    BY Peers DEF Dir
  <2>2. Made' = Made
    BY DEF Made, End
  <2>3. \A e \in End : pipe'[peer(e)].inpipe = pipe[peer(e)].inpipe /\ Dir(peer(e))' = Dir(peer(e))
    BY <2>1, Peers
  <2> QED
    BY <2>1, <2>2, <2>3 DEF IInv, QueuesInv
<1> QED
  BY <1>1, <1>2
-----------------------------------------------------------------------------
(* Steps of the users *)

\* What a user writes is a part of a message.
LEMMA NextPartsType ==
    ASSUME TypeOK, NEW e \in End, NEW m \in NextParts(e)
    PROVE  m \in Part /\ m.kind # "delimiter"
<1>1. sent[e].num \in Int /\ sent[e].more \in BOOLEAN
  BY DEF TypeOK, Said
<1>2. CASE sent[e].more
  <2>1. m = [kind |-> "data", num |-> sent[e].num, more |-> FALSE]
    BY <1>2 DEF NextParts
  <2> QED
    BY <1>1, <2>1 DEF Part
<1>3. CASE ~sent[e].more
  <2>1. m \in [kind : {"data", "credential"}, num : {sent[e].num, sent[e].num + 1}, more : BOOLEAN]
    BY <1>3 DEF NextParts
  <2>2. sent[e].num + 1 \in Int
    BY <1>1
  <2> QED
    BY <1>1, <2>1, <2>2 DEF Part
<1> QED
  BY <1>2, <1>3

\* What the user of an end has written, after one more part and after a withdrawal.
LEMMA SaidOps ==
    ASSUME NEW s \in Said
    PROVE  /\ Withdrawn(s) \in Said
           /\ \A m \in Part : SentAfter(s, m) \in Said
<1>1. Withdrawn(s) \in Said
  <2> DEFINE n == s.num - 1
  <2>1. n \in Int
    BY DEF Said
  <2>2. Withdrawn(s) = [s EXCEPT !.num = n, !.more = FALSE]
    BY DEF Withdrawn
  <2> HIDE DEF n
  <2> QED
    BY <2>1, <2>2 DEF Said
<1>2. ASSUME NEW m \in Part PROVE SentAfter(s, m) \in Said
  <2> DEFINE c == IF m.kind = "credential" THEN s.credentials + 1 ELSE s.credentials
  <2>1. c \in Nat /\ m.num \in Int /\ m.more \in BOOLEAN
    BY DEF Said, Part
  <2>2. SentAfter(s, m) = [s EXCEPT !.num = m.num, !.more = m.more, !.credentials = c]
    BY DEF SentAfter
  <2> HIDE DEF c
  <2> QED
    BY <2>1, <2>2 DEF Said
<1> QED
  BY <1>1, <1>2

\* An end writes, or withdraws what it has written, or finds that it cannot; the
\* watermarks change.
LEMMA WriteStep ==
    ASSUME IInv, NEW e \in End, check_write(e) \/ write(e) \/ rollback(e) \/ set_hwms(e)
    PROVE  IInv'
<1>1. /\ upipe \in [UpipeId -> Upipe] /\ pipe \in [End -> PipeObject]
      /\ sent \in [End -> Said]
      /\ calls \in [End -> [terms : Nat, hiccups : Nat, hwms : Nat]]
  BY DEF IInv, TypeOK
<1>2. pipe[e] \in PipeObject /\ sent[e] \in Said
  BY <1>1
<1>3. ASSUME check_write(e) \/ write(e) PROVE pipe[e].outpipe \in UpipeId
  <2>1. State(e) = "active" /\ pipe[e].outpipe \in UpipeId \cup {NULL}
    BY <1>2, <1>3 DEF check_write, write, PipeObject
  <2> QED
    BY <2>1 DEF IInv, QueuesInv, Acked
<1>4. /\ upipe' \in [UpipeId -> Upipe]
      /\ \A i \in UpipeId : /\ upipe'[i].live = upipe[i].live
                            /\ upipe'[i].asleep = upipe[i].asleep /\ upipe'[i].flushed = upipe[i].flushed
  <2>1. CASE write(e)
    <3>1. PICK m \in NextParts(e) : upipe' = [upipe EXCEPT ![pipe[e].outpipe] = Written(@, m)]
      BY <2>1 DEF write
    <3>2. m \in Part
      BY NextPartsType DEF IInv
    <3>3. \A u \in Upipe : /\ Written(u, m) \in Upipe /\ Written(u, m).live = u.live
                            /\ Written(u, m).asleep = u.asleep /\ Written(u, m).flushed = u.flushed
      BY <3>2, UpipeOps
    <3> QED
      BY <1>1, <1>3, <2>1, <3>1, <3>3
  <2>2. CASE rollback(e)
    <3>1. \A u \in Upipe : /\ [u EXCEPT !.partial = <<>>] \in Upipe /\ [u EXCEPT !.partial = <<>>].live = u.live
                            /\ [u EXCEPT !.partial = <<>>].asleep = u.asleep
                            /\ [u EXCEPT !.partial = <<>>].flushed = u.flushed
      <4>1. <<>> \in Seq(Part)
        OBVIOUS
      <4> QED
        BY <4>1 DEF Upipe
    <3>2. pipe[e].outpipe \in UpipeId
      BY <1>2, <2>2 DEF rollback, PipeObject
    <3>3. upipe' = [upipe EXCEPT ![pipe[e].outpipe] = [@ EXCEPT !.partial = <<>>]]
      BY <2>2 DEF rollback
    <3> QED
      BY <1>1, <3>1, <3>2, <3>3
  <2>3. CASE check_write(e) \/ set_hwms(e)
    BY <1>1, <2>3 DEF check_write, set_hwms
  <2> QED
    BY <2>1, <2>2, <2>3
<1>5. /\ pipe' \in [End -> PipeObject]
      /\ \A d \in End : /\ State(d)' = State(d) /\ pipe'[d].inpipe = pipe[d].inpipe
                         /\ pipe'[d].outpipe = pipe[d].outpipe /\ pipe'[d].in_active = pipe[d].in_active
  <2>1. CASE check_write(e)
    <3> DEFINE q == [pipe[e] EXCEPT !.out_active = FALSE]
    <3>1. pipe' = [pipe EXCEPT ![e] = q]
      BY <1>1, <2>1 DEF check_write
    <3>2. /\ q \in PipeObject /\ q.state = pipe[e].state /\ q.inpipe = pipe[e].inpipe
          /\ q.outpipe = pipe[e].outpipe /\ q.in_active = pipe[e].in_active
      BY <1>2 DEF PipeObject
    <3> HIDE DEF q
    <3> QED
      BY <1>1, <3>1, <3>2 DEF State
  <2>2. CASE write(e)
    <3>1. PICK m \in NextParts(e) : pipe' = [pipe EXCEPT ![e].msgs_written = IF m.more THEN @ ELSE @ + 1]
      BY <2>2 DEF write
    <3> DEFINE q == [pipe[e] EXCEPT !.msgs_written = IF m.more THEN @ ELSE @ + 1]
    <3>2. pipe' = [pipe EXCEPT ![e] = q]
      BY <1>1, <3>1
    <3>3. /\ q \in PipeObject /\ q.state = pipe[e].state /\ q.inpipe = pipe[e].inpipe
          /\ q.outpipe = pipe[e].outpipe /\ q.in_active = pipe[e].in_active
      BY <1>2 DEF PipeObject
    <3> HIDE DEF q
    <3> QED
      BY <1>1, <3>2, <3>3 DEF State
  <2>3. CASE rollback(e)
    BY <1>1, <2>3 DEF rollback, State
  <2>4. CASE set_hwms(e)
    <3>1. PICK v \in NewHwm : pipe' = [pipe EXCEPT ![e].lwm = compute_lwm(HwmOf(v)), ![e].hwm = HwmOf(v)]
      BY <2>4 DEF set_hwms
    <3>2. HwmOf(v) \in Nat /\ compute_lwm(HwmOf(v)) \in Nat
      BY PipeAssumption DEF HwmOf, compute_lwm
    <3> DEFINE q == [pipe[e] EXCEPT !.lwm = compute_lwm(HwmOf(v)), !.hwm = HwmOf(v)]
    <3>3. pipe' = [pipe EXCEPT ![e] = q]
      BY <1>1, <3>1
    <3>4. /\ q \in PipeObject /\ q.state = pipe[e].state /\ q.inpipe = pipe[e].inpipe
          /\ q.outpipe = pipe[e].outpipe /\ q.in_active = pipe[e].in_active
      BY <1>2, <3>2 DEF PipeObject
    <3> HIDE DEF q
    <3> QED
      BY <1>1, <3>3, <3>4 DEF State
  <2> QED
    BY <2>1, <2>2, <2>3, <2>4
<1>6. /\ UNCHANGED <<cmds, got>>
      /\ sent' \in [End -> Said]
      /\ calls' \in [End -> [terms : Nat, hiccups : Nat, hwms : Nat]]
      /\ \A d \in End : calls'[d].hiccups = calls[d].hiccups
  <2>1. CASE check_write(e)
    BY <1>1, <2>1 DEF check_write
  <2>2. CASE write(e)
    <3>1. PICK m \in NextParts(e) : sent' = [sent EXCEPT ![e] = SentAfter(@, m)]
      BY <2>2 DEF write
    <3>2. m \in Part
      BY NextPartsType DEF IInv
    <3>3. SentAfter(sent[e], m) \in Said
      BY <1>2, <3>2, SaidOps
    <3> QED
      BY <1>1, <2>2, <3>1, <3>3 DEF write
  <2>3. CASE rollback(e)
    <3>1. Withdrawn(sent[e]) \in Said
      BY <1>2, SaidOps
    <3> QED
      BY <1>1, <2>3, <3>1 DEF rollback
  <2>4. CASE set_hwms(e)
    <3>1. calls' = [calls EXCEPT ![e] = [calls[e] EXCEPT !.hwms = 1]] /\ UNCHANGED <<cmds, got, sent>>
      BY <1>1, <2>4 DEF set_hwms
    <3>2. /\ [calls[e] EXCEPT !.hwms = 1] \in [terms : Nat, hiccups : Nat, hwms : Nat]
          /\ [calls[e] EXCEPT !.hwms = 1].hiccups = calls[e].hiccups
      BY <1>1
    <3> QED
      BY <1>1, <3>1, <3>2
  <2> QED
    BY <2>1, <2>2, <2>3, <2>4
<1>7. TypeOK'
  BY <1>4, <1>5, <1>6 DEF IInv, TypeOK
<1>8. TermInv' /\ QueuesInv'
  <2>1. \A d \in End : QueueOK(cmds[d]) /\ (State(d) = "gone" => cmds[d] = <<>>)
    BY DEF IInv, TermInv, TermOK
  <2> QED
    BY <1>4, <1>5, <1>6, <2>1, Frame
<1>9. SleepInv'
  <2>1. \A d \in End : pipe[d].inpipe \in UpipeId \cup {NULL} /\ (Readable(d) => pipe[d].inpipe # NULL)
    BY <1>1 DEF PipeObject, IInv, QueuesInv, Readable
  <2>2. \A d \in End : Readable(d)' <=> Readable(d)
    BY <1>5 DEF Readable
  <2> QED
    BY <1>4, <1>5, <1>6, <2>1, <2>2 DEF IInv, SleepInv
<1> QED
  BY <1>7, <1>8, <1>9 DEF IInv
-----------------------------------------------------------------------------
(* Pieces of the steps of one end *)

\* What the types and the invariant say of one end.
LEMMA EndFacts ==
    ASSUME IInv, NEW e \in End
    PROVE  /\ pipe[e] \in PipeObject /\ cmds[e] \in Seq(Command) /\ QueueOK(cmds[e])
           /\ State(e) \in States
           /\ State(e) # "gone" => pipe[e].inpipe \in UpipeId /\ upipe[pipe[e].inpipe] \in Upipe
           /\ State(e) \notin Acked => pipe[e].outpipe \in UpipeId /\ upipe[pipe[e].outpipe] \in Upipe
           /\ State(e) # "gone" => pipe[e].inpipe # pipe[e].outpipe
           /\ State(e) = "gone" => cmds[e] = <<>>
<1>1. pipe[e] \in PipeObject /\ cmds[e] \in Seq(Command) /\ upipe \in [UpipeId -> Upipe]
  BY DEF IInv, TypeOK
<1>2. QueueOK(cmds[e]) /\ (State(e) = "gone" => cmds[e] = <<>>)
  BY DEF IInv, TermInv, TermOK
<1>3. State(e) \in States /\ pipe[e].inpipe \in UpipeId \cup {NULL} /\ pipe[e].outpipe \in UpipeId \cup {NULL}
  BY <1>1 DEF PipeObject, State
<1>4. /\ pipe[e].inpipe = NULL <=> State(e) = "gone"
      /\ pipe[e].outpipe = NULL <=> State(e) \in Acked
      /\ Dir(e) \cap Dir(peer(e)) = {}
  BY DEF IInv, QueuesInv
<1>5. ASSUME pipe[e].inpipe # NULL PROVE pipe[e].inpipe # pipe[e].outpipe
  <2>1. pipe[e].inpipe \in Dir(e)
    BY <1>5 DEF Dir
  <2>2. pipe[e].outpipe # NULL => pipe[e].outpipe \in Dir(peer(e))
    BY Peers DEF Dir
  <2> QED
    BY <1>4, <1>5, <2>1, <2>2
<1> QED
  BY <1>1, <1>2, <1>3, <1>4, <1>5

\* Without a hiccup on its way there is no new pipe to learn of.
LEMMA NoHArgs == \A q : ~Has(q, "hiccup") => HArgs(q) = {}
<1> QED
  BY DEF Has, HArgs

\* Sending an activation, or nothing, while not having acknowledged.
LEMMA SendActivation ==
    ASSUME IInv, NEW e \in End, State(e) \notin Acked,
           NEW c \in Command, c.type \in {"activate_read", "activate_write"},
           NEW cs \in {<<>>, <<c>>}, Send(e, cs)
    PROVE  /\ cmds' \in [End -> Seq(Command)]
           /\ \A d \in End :
                /\ QueueOK(cmds'[d]) /\ HArgs(cmds'[d]) = HArgs(cmds[d])
                /\ State(d) = "gone" => cmds'[d] = <<>>
                /\ \A t \in {"pipe_term", "pipe_term_ack", "hiccup"} : Has(cmds'[d], t) <=> Has(cmds[d], t)
                /\ \A t : Has(cmds[d], t) => Has(cmds'[d], t)
           /\ cs = <<c>> => Has(cmds'[peer(e)], c.type)
<1> DEFINE p == peer(e)
           q == cmds[p]
<1>1. /\ p \in End /\ p # e /\ \A d \in End : d = e \/ d = p
  BY Peers
<1>2. cmds \in [End -> Seq(Command)] /\ cmds' = [cmds EXCEPT ![p] = q \o cs]
  BY DEF Send, IInv, TypeOK
<1>3. q \in Seq(Command) /\ QueueOK(q) /\ ~Has(q, "pipe_term_ack") /\ State(p) # "gone"
  <2>1. TermOK(State(p), State(e), cmds[p])
    BY Peers DEF IInv, TermInv
  <2> QED
    BY <1>1, <1>2, <2>1 DEF TermOK
<1>4. /\ Append(q, c) \in Seq(Command) /\ QueueOK(Append(q, c))
      /\ \A t : Has(Append(q, c), t) <=> Has(q, t) \/ c.type = t
      /\ HArgs(Append(q, c)) = HArgs(q)
  <2>1. c.type # "pipe_term" /\ c.type # "hiccup"
    OBVIOUS
  <2> HIDE DEF q
  <2>2. /\ Append(q, c) \in Seq(Command) /\ QueueOK(Append(q, c))
        /\ \A t : Has(Append(q, c), t) <=> Has(q, t) \/ c.type = t
        /\ HArgs(Append(q, c)) = HArgs(q) \cup IF c.type = "hiccup" THEN {c.arg} ELSE {}
    BY <1>3, <2>1, QAppend, ZenonT(40)
  <2> QED
    BY <2>1, <2>2
<1>6. q \o <<c>> = Append(q, c) /\ q \o <<>> = q
  <2> HIDE DEF q
  <2> QED
    BY <1>3, Sends
<1>5. q \o cs = q \/ (q \o cs = Append(q, c) /\ cs = <<c>>)
  BY <1>6
<1>7. QueueOK(cmds[e]) /\ (State(e) = "gone" => cmds[e] = <<>>)
  BY EndFacts
<1>8. cmds'[e] = cmds[e] /\ cmds'[p] = q \o cs
  BY <1>1, <1>2
<1>9. cmds' \in [End -> Seq(Command)]
  BY <1>1, <1>2, <1>3, <1>4, <1>5
<1>10. /\ QueueOK(cmds'[p]) /\ HArgs(cmds'[p]) = HArgs(cmds[p])
       /\ \A t \in {"pipe_term", "pipe_term_ack", "hiccup"} : Has(cmds'[p], t) <=> Has(cmds[p], t)
       /\ \A t : Has(cmds[p], t) => Has(cmds'[p], t)
  BY <1>3, <1>4, <1>5, <1>8
<1>11. cs = <<c>> => Has(cmds'[p], c.type)
  BY <1>4, <1>6, <1>8
<1> HIDE DEF p, q
<1>12. ASSUME NEW d \in End
       PROVE  /\ QueueOK(cmds'[d]) /\ HArgs(cmds'[d]) = HArgs(cmds[d])
              /\ State(d) = "gone" => cmds'[d] = <<>>
              /\ \A t \in {"pipe_term", "pipe_term_ack", "hiccup"} : Has(cmds'[d], t) <=> Has(cmds[d], t)
              /\ \A t : Has(cmds[d], t) => Has(cmds'[d], t)
  <2>1. CASE d = e
    BY <1>7, <1>8, <2>1
  <2>2. CASE d = p
    BY <1>3, <1>10, <2>2
  <2> QED
    BY <1>1, <2>1, <2>2
<1> QED
  BY <1>9, <1>11, <1>12 DEF p

\* The number of lock-free pipes made so far.
LEMMA MadeType == TypeOK => Made \in Nat /\ Made >= 2
<1> SUFFICES ASSUME TypeOK PROVE Made \in Nat /\ Made >= 2
  OBVIOUS
<1>1. calls[1].hiccups \in Nat /\ calls[2].hiccups \in Nat
  BY DEF TypeOK, End
<1> QED
  BY <1>1 DEF Made

\* A step that changes states, but neither the pipes in use nor which ends have
\* acknowledged.
LEMMA QueuesFrame ==
    ASSUME IInv,
           \A e \in End : /\ (State(e)' \in Acked) <=> (State(e) \in Acked)
                          /\ (State(e)' = "gone") <=> (State(e) = "gone")
                          /\ pipe'[e].inpipe = pipe[e].inpipe /\ pipe'[e].outpipe = pipe[e].outpipe
                          /\ calls'[e].hiccups = calls[e].hiccups
                          /\ HArgs(cmds'[e]) = HArgs(cmds[e]),
           \A i \in UpipeId : upipe'[i].live = upipe[i].live
    PROVE  QueuesInv'
<1>1. \A e \in End : Dir(e)' = Dir(e)
  BY Peers DEF Dir
<1>2. Made' = Made
  BY DEF Made, End
<1>3. \A e \in End : pipe'[peer(e)].inpipe = pipe[peer(e)].inpipe /\ Dir(peer(e))' = Dir(peer(e))
  BY <1>1, Peers
<1> QED
  BY <1>1, <1>2, <1>3 DEF IInv, QueuesInv

\* e acknowledges and forgets its outpipe, which is then its peer's inpipe.
LEMMA AckQueues ==
    ASSUME IInv, NEW e \in End, ~Has(cmds[e], "hiccup"),
           State(e) \notin Acked, State(e)' \in Acked \ {"gone"}, State(peer(e))' = State(peer(e)),
           pipe'[e].outpipe = NULL, pipe'[peer(e)].outpipe = pipe[peer(e)].outpipe,
           \A d \in End : /\ pipe'[d].inpipe = pipe[d].inpipe
                          /\ calls'[d].hiccups = calls[d].hiccups
                          /\ HArgs(cmds'[d]) = HArgs(cmds[d]),
           \A i \in UpipeId : upipe'[i].live = upipe[i].live
    PROVE  QueuesInv'
<1> DEFINE p == peer(e)
<1>1. p \in End /\ p # e /\ peer(p) = e /\ \A d \in End : d = e \/ d = p
  BY Peers
<1>2. HArgs(cmds[e]) = {}
  BY NoHArgs
<1>3. pipe[e].outpipe # NULL /\ pipe[e].outpipe = pipe[p].inpipe
  BY <1>2 DEF IInv, QueuesInv, ChainOK
<1>4. Dir(e)' = Dir(e)
  BY <1>1 DEF Dir
<1>5. Dir(p)' = Dir(p)
  BY <1>1, <1>2, <1>3 DEF Dir
<1>6. Made' = Made
  BY DEF Made, End
<1>7. Made \in Nat
  BY MadeType DEF IInv
<1>8. /\ pipe'[e].inpipe = NULL <=> State(e)' = "gone"
      /\ pipe'[e].outpipe = NULL <=> State(e)' \in Acked
      /\ pipe'[e].inpipe <= Made' /\ pipe'[e].outpipe <= Made'
      /\ ChainOK(pipe'[p].inpipe, pipe'[e].outpipe, HArgs(cmds'[e]))
      /\ Dir(e)' \cap Dir(p)' = {}
  <2>1. pipe[e].inpipe # NULL /\ pipe[e].inpipe <= Made
    BY DEF IInv, QueuesInv, Acked
  <2>2. ChainOK(pipe'[p].inpipe, pipe'[e].outpipe, HArgs(cmds'[e]))
    BY <1>2 DEF ChainOK
  <2>3. Dir(e) \cap Dir(p) = {}
    BY DEF IInv, QueuesInv
  <2>4. NULL <= Made
    BY <1>7 DEF NULL
  <2> QED
    BY <1>4, <1>5, <1>6, <2>1, <2>2, <2>3, <2>4
<1>9. /\ pipe'[p].inpipe = NULL <=> State(p)' = "gone"
      /\ pipe'[p].outpipe = NULL <=> State(p)' \in Acked
      /\ pipe'[p].inpipe <= Made' /\ pipe'[p].outpipe <= Made'
      /\ ChainOK(pipe'[e].inpipe, pipe'[p].outpipe, HArgs(cmds'[p]))
      /\ Dir(p)' \cap Dir(e)' = {}
  <2>1. /\ pipe[p].inpipe = NULL <=> State(p) = "gone"
        /\ pipe[p].outpipe = NULL <=> State(p) \in Acked
        /\ pipe[p].inpipe <= Made /\ pipe[p].outpipe <= Made
        /\ ChainOK(pipe[e].inpipe, pipe[p].outpipe, HArgs(cmds[p]))
        /\ Dir(p) \cap Dir(e) = {}
    BY <1>1 DEF IInv, QueuesInv
  <2> QED
    BY <1>1, <1>4, <1>5, <1>6, <2>1
<1>10. \A i \in UpipeId : upipe'[i].live <=> \E d \in End : i \in Dir(d)'
  BY <1>1, <1>4, <1>5 DEF IInv, QueuesInv
<1> QED
  BY <1>1, <1>8, <1>9, <1>10 DEF QueuesInv
-----------------------------------------------------------------------------
\* flush () by either end.
LEMMA FlushStep == ASSUME IInv, NEW e \in End, flush(e) PROVE IInv'
<1> DEFINE o == pipe[e].outpipe
           p == peer(e)
           c == Cmd("activate_read")
<1>1. State(e) \notin Acked /\ o \in UpipeId /\ upipe[o] \in Upipe /\ pipe[e].inpipe # o
  <2>1. State(e) \notin Acked
    BY DEF flush, Alive, IInv, QueuesInv
  <2> QED
    BY <2>1, EndFacts DEF Acked
<1>2. /\ upipe' = [upipe EXCEPT ![o] = FlushedUpipe(@)]
      /\ Send(e, IF FlushFails(upipe[o]) THEN <<c>> ELSE <<>>)
      /\ UNCHANGED <<pipe, sent, got, calls>>
  BY DEF flush
<1>3. c \in Command /\ c.type = "activate_read"
  BY DEF Cmd, Command
<1>4. /\ cmds' \in [End -> Seq(Command)]
      /\ \A d \in End :
           /\ QueueOK(cmds'[d]) /\ HArgs(cmds'[d]) = HArgs(cmds[d])
           /\ State(d) = "gone" => cmds'[d] = <<>>
           /\ \A t \in {"pipe_term", "pipe_term_ack", "hiccup"} : Has(cmds'[d], t) <=> Has(cmds[d], t)
           /\ \A t : Has(cmds[d], t) => Has(cmds'[d], t)
      /\ FlushFails(upipe[o]) => Has(cmds'[p], "activate_read")
  <2> DEFINE cs == IF FlushFails(upipe[o]) THEN <<c>> ELSE <<>>
  <2>1. cs \in {<<>>, <<c>>} /\ Send(e, cs) /\ (FlushFails(upipe[o]) => cs = <<c>>)
    BY <1>2
  <2> HIDE DEF cs, c
  <2> QED
    BY <1>1, <1>3, <2>1, SendActivation
<1>5. /\ FlushedUpipe(upipe[o]) \in Upipe /\ FlushedUpipe(upipe[o]).live = upipe[o].live
      /\ FlushedUpipe(upipe[o]).asleep => upipe[o].asleep /\ FlushedUpipe(upipe[o]).flushed = upipe[o].flushed
      /\ upipe[o].asleep /\ ~FlushFails(upipe[o]) => FlushedUpipe(upipe[o]).asleep
  <2>1. Delimiter \in Part
    BY DEF Delimiter, Part
  <2> QED
    BY <1>1, <2>1, UpipeOps
<1>6. upipe \in [UpipeId -> Upipe]
  BY DEF IInv, TypeOK
<1>7. TypeOK'
  BY <1>1, <1>2, <1>4, <1>5, <1>6 DEF IInv, TypeOK
<1>8. TermInv' /\ QueuesInv'
  <2>1. \A i \in UpipeId : upipe'[i].live = upipe[i].live
    BY <1>1, <1>2, <1>5, <1>6
  <2>2. \A d \in End : State(d)' = State(d)
    BY <1>2 DEF State
  <2> QED
    BY <1>2, <1>4, <2>1, <2>2, Frame
<1>9. SleepInv'
  <2>1. \A i \in UpipeId : upipe'[i] = IF i = o THEN FlushedUpipe(upipe[o]) ELSE upipe[i]
    BY <1>1, <1>2, <1>6
  <2>2. \A i \in UpipeId : upipe'[i].asleep => upipe'[i].flushed = <<>>
    BY <1>1, <1>5, <2>1 DEF IInv, SleepInv
  <2>3. ASSUME NEW d \in End, Readable(d), ~pipe[d].in_active
        PROVE  upipe'[pipe[d].inpipe].asleep \/ Has(cmds'[d], "activate_read")
    <3>1. pipe[d].inpipe \in UpipeId
      BY <2>3, EndFacts DEF Readable
    <3>2. upipe[pipe[d].inpipe].asleep \/ Has(cmds[d], "activate_read")
      BY <2>3 DEF IInv, SleepInv
    <3>3. CASE d = e
      BY <1>1, <1>4, <2>1, <3>1, <3>2, <3>3
    <3>4. CASE d = p
      BY <1>4, <1>5, <2>1, <3>1, <3>2, <3>4
    <3> QED
      BY <3>3, <3>4, Peers
  <2> QED
    BY <1>2, <2>2, <2>3 DEF SleepInv, Readable, State
<1> QED
  BY <1>7, <1>8, <1>9 DEF IInv
-----------------------------------------------------------------------------
(* Reading *)

\* A read that finds the pipe empty puts the reader to sleep.
LEMMA ReadFailsStep == ASSUME IInv, NEW e \in End, Readable(e), ReadFails(e) PROVE IInv'
<1> DEFINE i == pipe[e].inpipe
           u == [upipe[i] EXCEPT !.flushed = <<>>, !.asleep = TRUE]
           q == [pipe[e] EXCEPT !.in_active = FALSE]
<1>1. /\ upipe \in [UpipeId -> Upipe] /\ pipe \in [End -> PipeObject]
      /\ i \in UpipeId /\ upipe[i] \in Upipe /\ pipe[e] \in PipeObject
  BY EndFacts DEF IInv, TypeOK, Readable
<1>2. /\ upipe' = [upipe EXCEPT ![i] = u] /\ pipe' = [pipe EXCEPT ![e] = q]
      /\ UNCHANGED <<cmds, sent, got, calls>>
  BY <1>1 DEF ReadFails
<1>3. u \in Upipe /\ u.live = upipe[i].live /\ u.asleep = TRUE /\ u.flushed = <<>>
  <2>1. <<>> \in Seq(Part)
    OBVIOUS
  <2> QED
    BY <1>1, <2>1 DEF Upipe
<1>4. /\ q \in PipeObject /\ q.state = pipe[e].state /\ q.inpipe = pipe[e].inpipe
      /\ q.outpipe = pipe[e].outpipe
  BY <1>1 DEF PipeObject
<1> HIDE DEF u, q
<1>5. TypeOK'
  BY <1>1, <1>2, <1>3, <1>4 DEF IInv, TypeOK
<1>6. \A d \in End : State(d)' = State(d) /\ pipe'[d].inpipe = pipe[d].inpipe /\ pipe'[d].outpipe = pipe[d].outpipe
  BY <1>1, <1>2, <1>4 DEF State
<1>7. TermInv' /\ QueuesInv'
  <2>1. \A d \in End : QueueOK(cmds[d]) /\ (State(d) = "gone" => cmds[d] = <<>>)
    BY EndFacts
  <2>2. \A j \in UpipeId : upipe'[j].live = upipe[j].live
    BY <1>1, <1>2, <1>3
  <2> QED
    BY <1>2, <1>6, <2>1, <2>2, Frame
<1>8. SleepInv'
  <2>1. \A j \in UpipeId : upipe'[j] = IF j = i THEN u ELSE upipe[j]
    BY <1>1, <1>2
  <2>2. \A j \in UpipeId : upipe'[j].asleep => upipe'[j].flushed = <<>>
    BY <1>3, <2>1 DEF IInv, SleepInv
  <2>3. ASSUME NEW d \in End, Readable(d)', ~pipe'[d].in_active
        PROVE  upipe'[pipe'[d].inpipe].asleep \/ Has(cmds'[d], "activate_read")
    <3>1. Readable(d)
      BY <1>6, <2>3 DEF Readable
    <3>2. pipe[d].inpipe \in UpipeId
      BY <3>1, EndFacts DEF Readable
    <3>3. CASE d = e
      BY <1>3, <1>6, <2>1, <3>2, <3>3
    <3>4. CASE d # e
      <4>1. ~pipe[d].in_active
        BY <1>1, <1>2, <2>3, <3>4
      <4>2. upipe[pipe[d].inpipe].asleep \/ Has(cmds[d], "activate_read")
        BY <3>1, <4>1 DEF IInv, SleepInv
      <4> QED
        BY <1>2, <1>3, <1>6, <2>1, <3>2, <4>2
    <3> QED
      BY <3>3, <3>4
  <2> QED
    BY <2>2, <2>3 DEF SleepInv
<1> QED
  BY <1>5, <1>7, <1>8 DEF IInv

\* Something is taken out of the inpipe of e.
LEMMA TakeUpipe ==
    ASSUME IInv, NEW e \in End, State(e) # "gone", upipe[pipe[e].inpipe].flushed # <<>>,
           NEW f \in Seq(Part), upipe' = [upipe EXCEPT ![pipe[e].inpipe].flushed = f]
    PROVE  /\ upipe' \in [UpipeId -> Upipe]
           /\ \A j \in UpipeId : /\ upipe'[j].live = upipe[j].live /\ upipe'[j].asleep = upipe[j].asleep
                                 /\ upipe'[j].asleep => upipe'[j].flushed = <<>>
<1> DEFINE i == pipe[e].inpipe
           u == [upipe[i] EXCEPT !.flushed = f]
<1>1. upipe \in [UpipeId -> Upipe] /\ i \in UpipeId /\ upipe[i] \in Upipe
  BY EndFacts DEF IInv, TypeOK
<1>2. upipe' = [upipe EXCEPT ![i] = u]
  BY <1>1
<1>3. u \in Upipe /\ u.live = upipe[i].live /\ u.asleep = upipe[i].asleep
  BY <1>1 DEF Upipe
<1>4. \A j \in UpipeId : upipe[j].asleep => upipe[j].flushed = <<>>
  BY DEF IInv, SleepInv
<1>5. ~upipe[i].asleep
  BY <1>1, <1>4
<1> HIDE DEF u
<1> QED
  BY <1>1, <1>2, <1>3, <1>4, <1>5

\* Activity of the readers that a step leaves as it was.
LEMMA SleepFrame ==
    ASSUME IInv,
           \A j \in UpipeId : /\ upipe[j].asleep => upipe'[j].asleep
                              /\ upipe'[j].asleep => upipe'[j].flushed = <<>>,
           \A d \in End : Readable(d)' /\ ~pipe'[d].in_active =>
                             /\ Readable(d) /\ ~pipe[d].in_active /\ pipe'[d].inpipe = pipe[d].inpipe
                             /\ Has(cmds[d], "activate_read") => Has(cmds'[d], "activate_read")
    PROVE  SleepInv'
<1>1. ASSUME NEW d \in End, Readable(d)', ~pipe'[d].in_active
      PROVE  upipe'[pipe'[d].inpipe].asleep \/ Has(cmds'[d], "activate_read")
  <2>1. /\ Readable(d) /\ ~pipe[d].in_active /\ pipe'[d].inpipe = pipe[d].inpipe
        /\ Has(cmds[d], "activate_read") => Has(cmds'[d], "activate_read")
    BY <1>1
  <2>2. pipe[d].inpipe \in UpipeId
    BY <2>1, EndFacts DEF Readable
  <2>3. upipe[pipe[d].inpipe].asleep \/ Has(cmds[d], "activate_read")
    BY <2>1 DEF IInv, SleepInv
  <2> QED
    BY <2>1, <2>2, <2>3
<1> QED
  BY <1>1 DEF SleepInv

\* A part is read, counted, and perhaps reported.
LEMMA ReadPartStep ==
    ASSUME IInv, NEW e \in End, Readable(e), upipe[pipe[e].inpipe].flushed # <<>>,
           NEW f \in Seq(Part), upipe' = [upipe EXCEPT ![pipe[e].inpipe].flushed = f],
           NEW m \in Part, ReadPart(e, m), UNCHANGED <<sent, calls>>
    PROVE  IInv'
<1> DEFINE q == [pipe[e] EXCEPT !.msgs_read = IF m.more THEN @ ELSE @ + 1]
           c == [type |-> "activate_write", arg |-> q.msgs_read]
<1>1. /\ pipe \in [End -> PipeObject] /\ pipe[e] \in PipeObject
      /\ State(e) \notin Acked /\ State(e) # "gone"
  BY EndFacts DEF IInv, TypeOK, Readable, Acked
<1>2. /\ upipe' \in [UpipeId -> Upipe]
      /\ \A j \in UpipeId : /\ upipe'[j].live = upipe[j].live /\ upipe'[j].asleep = upipe[j].asleep
                            /\ upipe'[j].asleep => upipe'[j].flushed = <<>>
  BY <1>1, TakeUpipe
<1>3. /\ q \in PipeObject /\ q.state = pipe[e].state /\ q.inpipe = pipe[e].inpipe
      /\ q.outpipe = pipe[e].outpipe /\ q.in_active = pipe[e].in_active
      /\ q.msgs_read \in Nat
  <2> DEFINE n == IF m.more THEN pipe[e].msgs_read ELSE pipe[e].msgs_read + 1
  <2>1. n \in Nat
    BY <1>1 DEF PipeObject
  <2>2. q = [pipe[e] EXCEPT !.msgs_read = n]
    OBVIOUS
  <2> HIDE DEF n
  <2> QED
    BY <1>1, <2>1, <2>2 DEF PipeObject
<1>4. /\ pipe' = [pipe EXCEPT ![e] = q]
      /\ Send(e, IF ActivateWrite(q) THEN <<c>> ELSE <<>>)
      /\ got' = [got EXCEPT ![e] = [num |-> m.num, more |-> m.more]]
  BY DEF ReadPart
<1>5. c \in Command /\ c.type = "activate_write"
  BY <1>3 DEF Command
<1> HIDE DEF q, c
<1>6. /\ cmds' \in [End -> Seq(Command)]
      /\ \A d \in End :
           /\ QueueOK(cmds'[d]) /\ HArgs(cmds'[d]) = HArgs(cmds[d])
           /\ State(d) = "gone" => cmds'[d] = <<>>
           /\ \A t \in {"pipe_term", "pipe_term_ack", "hiccup"} : Has(cmds'[d], t) <=> Has(cmds[d], t)
           /\ \A t : Has(cmds[d], t) => Has(cmds'[d], t)
  <2> DEFINE cs == IF ActivateWrite(q) THEN <<c>> ELSE <<>>
  <2>1. cs \in {<<>>, <<c>>} /\ Send(e, cs)
    BY <1>4
  <2> HIDE DEF cs
  <2> QED
    BY <1>1, <1>5, <2>1, SendActivation
<1>7. got' \in [End -> [num : Int, more : BOOLEAN]]
  BY <1>4 DEF IInv, TypeOK, Part
<1>8. TypeOK'
  BY <1>1, <1>2, <1>3, <1>4, <1>6, <1>7 DEF IInv, TypeOK
<1>9. \A d \in End : /\ State(d)' = State(d) /\ pipe'[d].inpipe = pipe[d].inpipe
                      /\ pipe'[d].outpipe = pipe[d].outpipe /\ pipe'[d].in_active = pipe[d].in_active
  BY <1>1, <1>3, <1>4 DEF State
<1>10. TermInv' /\ QueuesInv'
  BY <1>2, <1>6, <1>9, Frame
<1>11. SleepInv'
  <2>1. \A d \in End : Readable(d)' <=> Readable(d)
    BY <1>9 DEF Readable
  <2> QED
    BY <1>2, <1>6, <1>9, <2>1, SleepFrame
<1> QED
  BY <1>8, <1>10, <1>11 DEF IInv

\* An acknowledgement is sent.
LEMMA SendAck ==
    ASSUME IInv, NEW e \in End, State(e) \notin Acked,
           cmds'[peer(e)] = cmds[peer(e)] \o <<Cmd("pipe_term_ack")>>
    PROVE  /\ cmds'[peer(e)] \in Seq(Command) /\ QueueOK(cmds'[peer(e)])
           /\ HArgs(cmds'[peer(e)]) = HArgs(cmds[peer(e)])
           /\ Has(cmds'[peer(e)], "pipe_term_ack")
           /\ \A t \in {"activate_read", "pipe_term", "hiccup"} : Has(cmds'[peer(e)], t) <=> Has(cmds[peer(e)], t)
<1> DEFINE p == peer(e)
           q == cmds[p]
           c == Cmd("pipe_term_ack")
<1>1. c \in Command /\ c.type = "pipe_term_ack"
  BY DEF Cmd, Command
<1>2. p \in End /\ q \in Seq(Command) /\ QueueOK(q) /\ ~Has(q, "pipe_term_ack")
  <2>1. TermOK(State(p), State(e), cmds[p]) /\ p \in End
    BY Peers DEF IInv, TermInv
  <2> QED
    BY <2>1 DEF TermOK, IInv, TypeOK
<1>3. cmds'[p] = Append(q, c)
  BY <1>1, <1>2, Sends
<1> HIDE DEF c, q
<1>4. /\ Append(q, c) \in Seq(Command) /\ QueueOK(Append(q, c))
      /\ \A t : Has(Append(q, c), t) <=> Has(q, t) \/ c.type = t
      /\ HArgs(Append(q, c)) = HArgs(q)
  BY <1>1, <1>2, QAppend
<1> QED
  BY <1>1, <1>3, <1>4 DEF q

\* An end that waits for the delimiter acknowledges, and may have taken something
\* out of its inpipe.
LEMMA AckStep ==
    ASSUME IInv, NEW e \in End, State(e) = "waiting_for_delimiter",
           NEW q \in PipeObject, q.state = "term_ack_sent", q.inpipe = pipe[e].inpipe, q.outpipe = NULL,
           pipe' = [pipe EXCEPT ![e] = q], Send(e, <<Cmd("pipe_term_ack")>>),
           upipe' \in [UpipeId -> Upipe],
           \A j \in UpipeId : /\ upipe'[j].live = upipe[j].live /\ upipe'[j].asleep = upipe[j].asleep
                              /\ upipe'[j].asleep => upipe'[j].flushed = <<>>,
           UNCHANGED <<sent, got, calls>>
    PROVE  IInv'
<1> DEFINE p == peer(e)
<1>1. /\ pipe \in [End -> PipeObject] /\ State(e) \notin Acked /\ cmds \in [End -> Seq(Command)]
  BY EndFacts DEF IInv, TypeOK, Acked
<1>2. p \in End /\ p # e /\ peer(p) = e /\ \A d \in End : d = e \/ d = p
  BY Peers
<1>3. TermOK(State(e), State(p), cmds[e]) /\ TermOK(State(p), State(e), cmds[p])
  BY <1>2 DEF IInv, TermInv
<1>4. cmds'[e] = cmds[e] /\ cmds'[p] = cmds[p] \o <<Cmd("pipe_term_ack")>>
  BY <1>1, <1>2 DEF Send
<1>5. /\ cmds'[p] \in Seq(Command) /\ QueueOK(cmds'[p]) /\ HArgs(cmds'[p]) = HArgs(cmds[p])
      /\ Has(cmds'[p], "pipe_term_ack")
      /\ \A t \in {"activate_read", "pipe_term", "hiccup"} : Has(cmds'[p], t) <=> Has(cmds[p], t)
  BY <1>1, <1>4, SendAck
<1>6. TypeOK'
  <2>1. cmds' \in [End -> Seq(Command)]
    BY <1>1, <1>2, <1>4, <1>5 DEF Send
  <2> QED
    BY <1>1, <2>1 DEF IInv, TypeOK
<1>7. /\ State(e)' = "term_ack_sent" /\ State(p)' = State(p) /\ pipe'[p] = pipe[p]
      /\ pipe'[e].inpipe = pipe[e].inpipe /\ pipe'[e].outpipe = NULL
  BY <1>1, <1>2 DEF State
<1>8. State(p) = "term_req_sent1"
  BY <1>3 DEF TermOK
<1>9. TermInv'
  <2>1. TermOK(State(e)', State(p)', cmds'[e])
    BY <1>3, <1>4, <1>7, <1>8 DEF TermOK, Begun, Acked
  <2>2. TermOK(State(p)', State(e)', cmds'[p])
    BY <1>3, <1>5, <1>7, <1>8 DEF TermOK, Begun, Acked
  <2> QED
    BY <1>2, <2>1, <2>2 DEF TermInv
<1>10. QueuesInv'
  <2>1. ~Has(cmds[e], "hiccup")
    BY <1>3 DEF TermOK, Begun
  <2>2. \A d \in End : pipe'[d].inpipe = pipe[d].inpipe /\ HArgs(cmds'[d]) = HArgs(cmds[d])
    BY <1>2, <1>4, <1>5, <1>7
  <2>3. State(e)' \in Acked \ {"gone"}
    BY <1>7 DEF Acked
  <2> QED
    BY <1>1, <1>7, <2>1, <2>2, <2>3, AckQueues
<1>11. SleepInv'
  <2>1. ~Readable(e)' /\ (Readable(p)' <=> Readable(p))
    BY <1>7 DEF Readable
  <2> QED
    BY <1>2, <1>5, <1>7, <2>1, SleepFrame
<1> QED
  BY <1>6, <1>9, <1>10, <1>11 DEF IInv

\* The delimiter is read.
LEMMA DelimiterStep ==
    ASSUME IInv, NEW e \in End, Readable(e), upipe[pipe[e].inpipe].flushed # <<>>,
           NEW f \in Seq(Part), upipe' = [upipe EXCEPT ![pipe[e].inpipe].flushed = f],
           process_delimiter(e, pipe[e]), UNCHANGED <<sent, got, calls>>
    PROVE  IInv'
<1> DEFINE p == peer(e)
<1>1. /\ pipe \in [End -> PipeObject] /\ pipe[e] \in PipeObject
      /\ State(e) \in {"active", "waiting_for_delimiter"} /\ State(e) \notin Acked /\ State(e) # "gone"
      /\ cmds \in [End -> Seq(Command)]
  BY EndFacts DEF IInv, TypeOK, Readable, Acked
<1>2. /\ upipe' \in [UpipeId -> Upipe]
      /\ \A j \in UpipeId : /\ upipe'[j].live = upipe[j].live /\ upipe'[j].asleep = upipe[j].asleep
                            /\ upipe'[j].asleep => upipe'[j].flushed = <<>>
  BY <1>1, TakeUpipe
<1>3. p \in End /\ p # e /\ peer(p) = e /\ \A d \in End : d = e \/ d = p
  BY Peers
<1>4. TermOK(State(e), State(p), cmds[e]) /\ TermOK(State(p), State(e), cmds[p])
  BY <1>3 DEF IInv, TermInv
<1>5. CASE State(e) = "active"
  <2> DEFINE q == [pipe[e] EXCEPT !.state = "delimiter_received"]
  <2>1. pipe' = [pipe EXCEPT ![e] = q] /\ UNCHANGED cmds
    BY <1>5 DEF process_delimiter, State
  <2>2. /\ q \in PipeObject /\ q.state = "delimiter_received" /\ q.inpipe = pipe[e].inpipe
        /\ q.outpipe = pipe[e].outpipe
    BY <1>1 DEF PipeObject, States
  <2> HIDE DEF q
  <2>3. TypeOK'
    BY <1>1, <1>2, <2>1, <2>2 DEF IInv, TypeOK
  <2>4. /\ State(e)' = "delimiter_received" /\ State(p)' = State(p) /\ pipe'[p] = pipe[p]
        /\ pipe'[e].inpipe = pipe[e].inpipe /\ pipe'[e].outpipe = pipe[e].outpipe
    BY <1>1, <1>3, <2>1, <2>2 DEF State
  <2>5. TermInv'
    <3>1. TermOK(State(e)', State(p)', cmds'[e])
      BY <1>4, <1>5, <2>1, <2>4 DEF TermOK, Begun
    <3>2. TermOK(State(p)', State(e)', cmds'[p])
      BY <1>4, <1>5, <2>1, <2>4 DEF TermOK, Begun, Acked
    <3> QED
      BY <1>3, <3>1, <3>2 DEF TermInv
  <2>6. QueuesInv'
    <3>1. \A d \in End : /\ (State(d)' \in Acked) <=> (State(d) \in Acked)
                         /\ (State(d)' = "gone") <=> (State(d) = "gone")
                         /\ pipe'[d].inpipe = pipe[d].inpipe /\ pipe'[d].outpipe = pipe[d].outpipe
      BY <1>3, <1>5, <2>4 DEF Acked
    <3> QED
      BY <1>2, <2>1, <3>1, QueuesFrame
  <2>7. SleepInv'
    <3>1. ~Readable(e)' /\ (Readable(p)' <=> Readable(p))
      BY <2>4 DEF Readable
    <3> QED
      BY <1>2, <1>3, <2>1, <2>4, <3>1, SleepFrame
  <2> QED
    BY <2>3, <2>5, <2>6, <2>7 DEF IInv
<1>6. CASE State(e) = "waiting_for_delimiter"
  <2> DEFINE q == [pipe[e] EXCEPT !.state = "term_ack_sent", !.outpipe = NULL]
  <2>1. pipe' = [pipe EXCEPT ![e] = q] /\ Send(e, <<Cmd("pipe_term_ack")>>)
    BY <1>6 DEF process_delimiter, State
  <2>2. /\ q \in PipeObject /\ q.state = "term_ack_sent" /\ q.inpipe = pipe[e].inpipe
        /\ q.outpipe = NULL
    BY <1>1 DEF PipeObject, States
  <2> HIDE DEF q
  <2> QED
    BY <1>2, <1>6, <2>1, <2>2, AckStep
<1> QED
  BY <1>1, <1>5, <1>6

\* check_read () and read ().
LEMMA ReadStep == ASSUME IInv, NEW e \in End, check_read(e) \/ read(e) PROVE IInv'
<1> DEFINE q == upipe[pipe[e].inpipe].flushed
<1>1. Readable(e) /\ State(e) # "gone"
  BY DEF check_read, read, Readable
<1>2. q \in Seq(Part)
  BY <1>1, EndFacts DEF Upipe
<1>3. CASE ReadFails(e)
  BY <1>1, <1>3, ReadFailsStep
<1>4. CASE check_read(e) /\ ~ReadFails(e)
  <2>1. /\ q # <<>> /\ upipe' = [upipe EXCEPT ![pipe[e].inpipe].flushed = Tail(q)]
        /\ process_delimiter(e, pipe[e]) /\ UNCHANGED <<sent, got, calls>>
    BY <1>4 DEF check_read
  <2>2. Tail(q) \in Seq(Part)
    BY <1>2, <2>1, HeadTailProperties
  <2> QED
    BY <1>1, <2>1, <2>2, DelimiterStep
<1>5. CASE read(e) /\ ~ReadFails(e)
  <2>1. PICK k \in 0..Len(q) :
           /\ k < Len(q)
           /\ upipe' = [upipe EXCEPT ![pipe[e].inpipe].flushed = SubSeq(q, k + 2, Len(q))]
           /\ IF q[k + 1].kind = "delimiter"
              THEN process_delimiter(e, pipe[e]) /\ UNCHANGED got
              ELSE ReadPart(e, q[k + 1])
           /\ UNCHANGED <<sent, calls>>
    BY <1>5 DEF read
  <2>2. Len(q) \in Nat /\ k + 1 \in 1..Len(q) /\ q # <<>>
    BY <1>2, <2>1, LenProperties, EmptySeq
  <2>3. q[k + 1] \in Part
    BY <1>2, <2>2, ElementOfSeq
  <2>4. SubSeq(q, k + 2, Len(q)) \in Seq(Part)
    <3>1. \A i \in (k + 2)..Len(q) : q[i] \in Part
      BY <1>2, <2>2, ElementOfSeq
    <3> QED
      BY <1>2, <2>2, <3>1
  <2>5. CASE q[k + 1].kind = "delimiter"
    BY <1>1, <2>1, <2>2, <2>4, <2>5, DelimiterStep
  <2>6. CASE q[k + 1].kind # "delimiter"
    BY <1>1, <2>1, <2>2, <2>3, <2>4, <2>6, ReadPartStep
  <2> QED
    BY <2>5, <2>6
<1> QED
  BY <1>3, <1>4, <1>5
-----------------------------------------------------------------------------
(* Termination and hiccup *)

\* The reader of what e writes is told when it has given up reading.
LEMMA SleepWrite ==
    ASSUME IInv, NEW e \in End, State(e) \notin Acked,
           \A j \in UpipeId : j # pipe[e].outpipe => upipe'[j] = upipe[j],
           upipe'[pipe[e].outpipe].asleep => upipe'[pipe[e].outpipe].flushed = <<>>,
           upipe[pipe[e].outpipe].asleep => Has(cmds'[peer(e)], "activate_read"),
           \A d \in End : /\ Has(cmds[d], "activate_read") => Has(cmds'[d], "activate_read")
                          /\ Readable(d)' /\ ~pipe'[d].in_active =>
                               Readable(d) /\ ~pipe[d].in_active /\ pipe'[d].inpipe = pipe[d].inpipe
    PROVE  SleepInv'
<1>1. \A j \in UpipeId : upipe'[j].asleep => upipe'[j].flushed = <<>>
  BY DEF IInv, SleepInv
<1>2. ASSUME NEW d \in End, Readable(d)', ~pipe'[d].in_active
      PROVE  upipe'[pipe'[d].inpipe].asleep \/ Has(cmds'[d], "activate_read")
  <2>1. Readable(d) /\ ~pipe[d].in_active /\ pipe'[d].inpipe = pipe[d].inpipe
    BY <1>2
  <2>2. pipe[d].inpipe \in UpipeId
    BY <2>1, EndFacts DEF Readable
  <2>3. upipe[pipe[d].inpipe].asleep \/ Has(cmds[d], "activate_read")
    BY <2>1 DEF IInv, SleepInv
  <2>4. CASE d = e
    <3>1. pipe[d].inpipe # pipe[e].outpipe
      BY <2>1, <2>4, EndFacts DEF Readable
    <3> QED
      BY <2>1, <2>2, <2>3, <3>1
  <2>5. CASE d = peer(e)
    BY <2>1, <2>2, <2>3, <2>5
  <2> QED
    BY <2>4, <2>5, Peers
<1> QED
  BY <1>1, <1>2 DEF SleepInv

\* terminate () of an end that has not been asked to: the request, the delimiter.
LEMMA TerminateRequest ==
    ASSUME IInv, NEW e \in End, NEW delay \in BOOLEAN, terminate(e, delay),
           State(e) \in {"active", "delimiter_received"}
    PROVE  IInv'
<1> DEFINE p == peer(e)
           o == pipe[e].outpipe
           q == [pipe[e] EXCEPT !.state = "term_req_sent1", !.out_active = FALSE]
           c == Cmd("pipe_term")
           a == Cmd("activate_read")
<1>1. /\ pipe \in [End -> PipeObject] /\ cmds \in [End -> Seq(Command)] /\ upipe \in [UpipeId -> Upipe]
      /\ sent \in [End -> Said]
      /\ calls \in [End -> [terms : Nat, hiccups : Nat, hwms : Nat]]
  BY DEF IInv, TypeOK
<1>2. /\ pipe[e] \in PipeObject /\ State(e) \notin Acked /\ o \in UpipeId /\ upipe[o] \in Upipe /\ o # NULL
  BY EndFacts, PipeAssumption DEF Acked, UpipeId, NULL
<1>3. p \in End /\ p # e /\ peer(p) = e /\ \A d \in End : d = e \/ d = p
  BY Peers
<1>4. TermOK(State(e), State(p), cmds[e]) /\ TermOK(State(p), State(e), cmds[p])
  BY <1>3 DEF IInv, TermInv
<1>5. /\ q \in PipeObject /\ q.state = "term_req_sent1" /\ q.inpipe = pipe[e].inpipe /\ q.outpipe = o
  BY <1>2 DEF PipeObject, States
<1>6. /\ pipe' = [pipe EXCEPT ![e] = q]
      /\ upipe' = [upipe EXCEPT ![o] = WithDelimiter(@)]
      /\ sent' = [sent EXCEPT ![e] = IF @.more THEN Withdrawn(@) ELSE @]
      /\ Send(e, <<c>> \o IF upipe[o].asleep THEN <<a>> ELSE <<>>)
      /\ UNCHANGED <<got, calls>>
  BY <1>2, <1>5 DEF terminate, State, BoundedTerms
<1> HIDE DEF q
<1>7. c \in Command /\ c.type = "pipe_term" /\ a \in Command /\ a.type = "activate_read"
  BY DEF Cmd, Command
<1> HIDE DEF c, a
<1>8. /\ cmds'[e] = cmds[e] /\ cmds'[p] \in Seq(Command) /\ QueueOK(cmds'[p])
      /\ HArgs(cmds'[p]) = HArgs(cmds[p]) /\ Has(cmds'[p], "pipe_term")
      /\ \A t \in {"pipe_term_ack", "hiccup"} : Has(cmds'[p], t) <=> Has(cmds[p], t)
      /\ Has(cmds[p], "activate_read") \/ upipe[o].asleep => Has(cmds'[p], "activate_read")
      /\ cmds' \in [End -> Seq(Command)]
  <2> DEFINE r == cmds[p]
             s == Append(r, c)
  <2>1. r \in Seq(Command) /\ QueueOK(r) /\ ~Has(r, "pipe_term_ack") /\ ~Has(r, "pipe_term")
    BY <1>1, <1>3, <1>4 DEF TermOK, Acked
  <2> HIDE DEF r
  <2>2. /\ s \in Seq(Command) /\ QueueOK(s) /\ HArgs(s) = HArgs(r)
        /\ \A t : Has(s, t) <=> Has(r, t) \/ c.type = t
    BY <1>7, <2>1, QAppend, ZenonT(40)
  <2>3. ~Has(s, "pipe_term_ack")
    BY <1>7, <2>1, <2>2
  <2>4. /\ Append(s, a) \in Seq(Command) /\ QueueOK(Append(s, a)) /\ HArgs(Append(s, a)) = HArgs(s)
        /\ \A t : Has(Append(s, a), t) <=> Has(s, t) \/ a.type = t
    <3>1. /\ s \in Seq(Command) /\ QueueOK(s) /\ ~Has(s, "pipe_term_ack")
          /\ a \in Command /\ a.type = "activate_read"
      BY <1>7, <2>2, <2>3
    <3> HIDE DEF s
    <3> QED
      BY <3>1, QAppend
  <2>5. /\ cmds' = [cmds EXCEPT ![p] = r \o (<<c>> \o IF upipe[o].asleep THEN <<a>> ELSE <<>>)]
    BY <1>6 DEF Send, r
  <2>6. /\ r \o (<<c>> \o <<>>) = s /\ r \o (<<c>> \o <<a>>) = Append(s, a)
    BY <1>7, <2>1, Sends
  <2>7. cmds'[e] = cmds[e] /\ cmds'[p] = IF upipe[o].asleep THEN Append(s, a) ELSE s
    BY <1>1, <1>3, <2>5, <2>6
  <2>8. cmds' \in [End -> Seq(Command)]
    BY <1>1, <1>3, <2>2, <2>4, <2>5, <2>6
  <2> HIDE DEF s
  <2>9. /\ cmds'[p] \in Seq(Command) /\ QueueOK(cmds'[p]) /\ HArgs(cmds'[p]) = HArgs(r)
        /\ Has(cmds'[p], "pipe_term")
        /\ \A t \in {"pipe_term_ack", "hiccup"} : Has(cmds'[p], t) <=> Has(r, t)
        /\ Has(r, "activate_read") \/ upipe[o].asleep => Has(cmds'[p], "activate_read")
    BY <1>7, <2>2, <2>4, <2>7
  <2> QED
    BY <2>7, <2>8, <2>9 DEF r
<1>9. WithDelimiter(upipe[o]) \in Upipe /\ WithDelimiter(upipe[o]).live = upipe[o].live /\ ~WithDelimiter(upipe[o]).asleep
  <2>1. Delimiter \in Part
    BY DEF Delimiter, Part
  <2> QED
    BY <1>2, <2>1, UpipeOps
<1>10. \A j \in UpipeId : upipe'[j] = IF j = o THEN WithDelimiter(upipe[o]) ELSE upipe[j]
  BY <1>1, <1>2, <1>6
<1>11. TypeOK'
  <2>1. upipe' \in [UpipeId -> Upipe]
    BY <1>1, <1>2, <1>6, <1>9
  <2>2. sent' \in [End -> Said]
    BY <1>1, <1>6, SaidOps
  <2> QED
    BY <1>1, <1>5, <1>6, <1>8, <2>1, <2>2 DEF IInv, TypeOK
<1>12. /\ State(e)' = "term_req_sent1" /\ State(p)' = State(p) /\ pipe'[p] = pipe[p]
       /\ pipe'[e].inpipe = pipe[e].inpipe /\ pipe'[e].outpipe = pipe[e].outpipe
  BY <1>1, <1>3, <1>5, <1>6 DEF State
<1>13. TermInv'
  <2>1. TermOK(State(e)', State(p)', cmds'[e])
    BY <1>4, <1>8, <1>12 DEF TermOK, Begun
  <2>2. TermOK(State(p)', State(e)', cmds'[p])
    BY <1>4, <1>8, <1>12 DEF TermOK, Begun, Acked
  <2> QED
    BY <1>3, <2>1, <2>2 DEF TermInv
<1>14. QueuesInv'
  <2>1. \A d \in End : /\ (State(d)' \in Acked) <=> (State(d) \in Acked)
                       /\ (State(d)' = "gone") <=> (State(d) = "gone")
                       /\ pipe'[d].inpipe = pipe[d].inpipe /\ pipe'[d].outpipe = pipe[d].outpipe
                       /\ HArgs(cmds'[d]) = HArgs(cmds[d])
    BY <1>3, <1>8, <1>12 DEF Acked
  <2>2. \A j \in UpipeId : upipe'[j].live = upipe[j].live
    BY <1>9, <1>10
  <2> QED
    BY <1>6, <2>1, <2>2, QueuesFrame
<1>15. SleepInv'
  <2>1. ~Readable(e)' /\ (Readable(p)' <=> Readable(p))
    BY <1>12 DEF Readable
  <2>2. \A d \in End : /\ Has(cmds[d], "activate_read") => Has(cmds'[d], "activate_read")
                       /\ Readable(d)' /\ ~pipe'[d].in_active =>
                            Readable(d) /\ ~pipe[d].in_active /\ pipe'[d].inpipe = pipe[d].inpipe
    BY <1>3, <1>8, <1>12, <2>1
  <2> QED
    BY <1>2, <1>8, <1>9, <1>10, <2>2, SleepWrite
<1> QED
  BY <1>11, <1>13, <1>14, <1>15 DEF IInv

\* terminate () without a delay of an end that waits for the delimiter.
LEMMA TerminateGivesUp ==
    ASSUME IInv, NEW e \in End, terminate(e, FALSE), State(e) = "waiting_for_delimiter"
    PROVE  IInv'
<1> DEFINE q == [pipe[e] EXCEPT !.state = "term_ack_sent", !.outpipe = NULL, !.out_active = FALSE]
<1>1. pipe[e] \in PipeObject /\ upipe \in [UpipeId -> Upipe]
  BY DEF IInv, TypeOK
<1>2. /\ q \in PipeObject /\ q.state = "term_ack_sent" /\ q.inpipe = pipe[e].inpipe /\ q.outpipe = NULL
  BY <1>1 DEF PipeObject, States
<1>3. /\ pipe' = [pipe EXCEPT ![e] = q] /\ Send(e, <<Cmd("pipe_term_ack")>>)
      /\ UNCHANGED <<upipe, sent, got, calls>>
  BY <1>2 DEF terminate, State, BoundedTerms
<1> HIDE DEF q
<1>4. \A j \in UpipeId : upipe[j].asleep => upipe[j].flushed = <<>>
  BY DEF IInv, SleepInv
<1> QED
  BY <1>1, <1>2, <1>3, <1>4, AckStep

\* terminate () with a delay of an end that waits for the delimiter: another
\* delimiter is written.
LEMMA TerminateAgain ==
    ASSUME IInv, NEW e \in End, terminate(e, TRUE), State(e) = "waiting_for_delimiter"
    PROVE  IInv'
<1> DEFINE p == peer(e)
           o == pipe[e].outpipe
           q == [pipe[e] EXCEPT !.out_active = FALSE]
           a == Cmd("activate_read")
           k == [calls[e] EXCEPT !.terms = @ + 1]
<1>1. /\ pipe \in [End -> PipeObject] /\ cmds \in [End -> Seq(Command)] /\ upipe \in [UpipeId -> Upipe]
      /\ sent \in [End -> Said]
      /\ calls \in [End -> [terms : Nat, hiccups : Nat, hwms : Nat]]
  BY DEF IInv, TypeOK
<1>2. /\ pipe[e] \in PipeObject /\ State(e) \notin Acked /\ o \in UpipeId /\ upipe[o] \in Upipe /\ o # NULL
  BY EndFacts, PipeAssumption DEF Acked, UpipeId, NULL
<1>3. p \in End /\ p # e /\ peer(p) = e /\ \A d \in End : d = e \/ d = p
  BY Peers
<1>4. /\ q \in PipeObject /\ q.state = pipe[e].state /\ q.inpipe = pipe[e].inpipe /\ q.outpipe = o
      /\ q.in_active = pipe[e].in_active
      /\ k \in [terms : Nat, hiccups : Nat, hwms : Nat] /\ k.hiccups = calls[e].hiccups
  <2> DEFINE n == calls[e].terms + 1
  <2>1. calls[e] \in [terms : Nat, hiccups : Nat, hwms : Nat] /\ n \in Nat
    BY <1>1
  <2>2. k = [calls[e] EXCEPT !.terms = n]
    OBVIOUS
  <2> HIDE DEF n
  <2>3. k \in [terms : Nat, hiccups : Nat, hwms : Nat] /\ k.hiccups = calls[e].hiccups
    BY <2>1, <2>2
  <2> HIDE DEF k
  <2> QED
    BY <1>2, <2>3 DEF PipeObject
<1>5. a \in Command /\ a.type = "activate_read"
  BY DEF Cmd, Command
<1>6. /\ pipe' = [pipe EXCEPT ![e] = q]
      /\ upipe' = [upipe EXCEPT ![o] = WithDelimiter(@)]
      /\ sent' = [sent EXCEPT ![e] = IF @.more THEN Withdrawn(@) ELSE @]
      /\ Send(e, <<>> \o IF upipe[o].asleep THEN <<a>> ELSE <<>>)
      /\ UNCHANGED got
  BY <1>2, <1>4 DEF terminate, State
<1>7. calls' = [calls EXCEPT ![e] = k]
  BY <1>1 DEF terminate, BoundedTerms
<1> DEFINE cs == IF upipe[o].asleep THEN <<a>> ELSE <<>>
<1>8. Send(e, cs) /\ cs \in {<<>>, <<a>>} /\ (upipe[o].asleep => cs = <<a>>)
  <2>1. <<>> \o cs = cs
    BY <1>5, Sends
  <2> QED
    BY <1>6, <2>1
<1> HIDE DEF q, a, k, cs
<1>9. /\ cmds' \in [End -> Seq(Command)]
      /\ \A d \in End :
           /\ QueueOK(cmds'[d]) /\ HArgs(cmds'[d]) = HArgs(cmds[d])
           /\ State(d) = "gone" => cmds'[d] = <<>>
           /\ \A t \in {"pipe_term", "pipe_term_ack", "hiccup"} : Has(cmds'[d], t) <=> Has(cmds[d], t)
           /\ \A t : Has(cmds[d], t) => Has(cmds'[d], t)
      /\ upipe[o].asleep => Has(cmds'[p], "activate_read")
  BY <1>2, <1>5, <1>8, SendActivation
<1>10. WithDelimiter(upipe[o]) \in Upipe /\ WithDelimiter(upipe[o]).live = upipe[o].live /\ ~WithDelimiter(upipe[o]).asleep
  <2>1. Delimiter \in Part
    BY DEF Delimiter, Part
  <2> QED
    BY <1>2, <2>1, UpipeOps
<1>11. \A j \in UpipeId : upipe'[j] = IF j = o THEN WithDelimiter(upipe[o]) ELSE upipe[j]
  BY <1>1, <1>2, <1>6
<1>12. TypeOK'
  <2>1. upipe' \in [UpipeId -> Upipe]
    BY <1>1, <1>2, <1>6, <1>10
  <2>2. sent' \in [End -> Said]
    BY <1>1, <1>6, SaidOps
  <2> QED
    BY <1>1, <1>4, <1>6, <1>7, <1>9, <2>1, <2>2 DEF IInv, TypeOK
<1>13. \A d \in End : /\ State(d)' = State(d) /\ pipe'[d].inpipe = pipe[d].inpipe
                      /\ pipe'[d].outpipe = pipe[d].outpipe /\ pipe'[d].in_active = pipe[d].in_active
                      /\ calls'[d].hiccups = calls[d].hiccups
  BY <1>1, <1>4, <1>6, <1>7 DEF State
<1>14. TermInv' /\ QueuesInv'
  <2>1. \A j \in UpipeId : upipe'[j].live = upipe[j].live
    BY <1>10, <1>11
  <2> QED
    BY <1>9, <1>13, <2>1, Frame
<1>15. SleepInv'
  <2>1. \A d \in End : Readable(d)' <=> Readable(d)
    BY <1>13 DEF Readable
  <2> QED
    BY <1>2, <1>9, <1>10, <1>11, <1>13, <2>1, SleepWrite
<1> QED
  BY <1>12, <1>14, <1>15 DEF IInv

\* terminate () in every state.
LEMMA TerminateStep ==
    ASSUME IInv, NEW e \in End, NEW delay \in BOOLEAN, terminate(e, delay)
    PROVE  IInv'
<1>1. CASE State(e) \in {"active", "delimiter_received"}
  BY <1>1, TerminateRequest
<1>2. CASE State(e) = "waiting_for_delimiter"
  BY <1>2, TerminateGivesUp, TerminateAgain
<1>3. CASE State(e) \notin {"active", "delimiter_received", "waiting_for_delimiter"}
  <2>1. pipe' = [pipe EXCEPT ![e] = pipe[e]] /\ Send(e, <<>>) /\ UNCHANGED <<upipe, sent, got, calls>>
    BY <1>3 DEF terminate, State, BoundedTerms
  <2>2. cmds \in [End -> Seq(Command)] /\ pipe \in [End -> PipeObject] /\ peer(e) \in End
    BY Peers DEF IInv, TypeOK
  <2>3. cmds[peer(e)] \o <<>> = cmds[peer(e)]
    BY <2>2, ConcatEmptySeq
  <2>4. cmds' = cmds /\ pipe' = pipe
    BY <2>1, <2>2, <2>3 DEF Send
  <2> QED
    BY <2>1, <2>4 DEF IInv, TypeOK, TermInv, QueuesInv, SleepInv, Dir, Made, State, Readable
<1> QED
  BY <1>1, <1>2, <1>3

\* Hiccups carry numbers of pipes.
LEMMA HArgsNat == ASSUME NEW q \in Seq(Command) PROVE HArgs(q) \subseteq Nat
<1>1. ASSUME NEW n \in 1..Len(q) PROVE q[n].arg \in Nat
  <2>1. q[n] \in Command
    BY ElementOfSeq
  <2> QED
    BY <2>1 DEF Command
<1> QED
  BY <1>1 DEF HArgs

\* Pipes are numbered.
LEMMA PipeIds == ASSUME IInv, NEW e \in End PROVE pipe[e].inpipe \in Nat /\ pipe[e].outpipe \in Nat
<1>1. pipe[e] \in PipeObject
  BY DEF IInv, TypeOK
<1>2. pipe[e].inpipe \in UpipeId \cup {NULL} /\ pipe[e].outpipe \in UpipeId \cup {NULL}
  BY <1>1 DEF PipeObject
<1>3. UpipeId \subseteq Nat /\ NULL \in Nat
  BY PipeAssumption DEF UpipeId, NULL
<1> QED
  BY <1>2, <1>3

\* Every lock-free pipe in use has been made.
LEMMA DirMade == ASSUME IInv, NEW e \in End PROVE \A i \in Dir(e) : i \in Int /\ i <= Made
<1> DEFINE p == peer(e)
<1>1. p \in End /\ peer(p) = e
  BY Peers
<1>2. /\ pipe[e].inpipe <= Made /\ pipe[p].outpipe <= Made
      /\ \A a \in HArgs(cmds[p]) : a <= pipe[e].inpipe
  BY <1>1 DEF IInv, QueuesInv, ChainOK
<1>3. Made \in Int /\ pipe[e].inpipe \in Int /\ pipe[p].outpipe \in Int
  BY <1>1, MadeType, PipeIds DEF IInv
<1>4. HArgs(cmds[p]) \subseteq Int
  <2>1. cmds[p] \in Seq(Command)
    BY <1>1 DEF IInv, TypeOK
  <2> QED
    BY <2>1, HArgsNat
<1> QED
  BY <1>2, <1>3, <1>4 DEF Dir

\* hiccup (): the reader replaces its inpipe.
LEMMA HiccupStep == ASSUME IInv, NEW e \in End, hiccup(e) PROVE IInv'
<1> DEFINE p == peer(e)
           n == Made + 1
           q == [pipe[e] EXCEPT !.inpipe = n, !.in_active = TRUE]
           c == [type |-> "hiccup", arg |-> n]
           k == [calls[e] EXCEPT !.hiccups = @ + 1]
           H == HArgs(cmds[p])
<1>1. /\ pipe \in [End -> PipeObject] /\ cmds \in [End -> Seq(Command)] /\ upipe \in [UpipeId -> Upipe]
      /\ calls \in [End -> [terms : Nat, hiccups : Nat, hwms : Nat]]
      /\ pipe[e] \in PipeObject /\ Made \in Nat /\ Made >= 2
  BY MadeType DEF IInv, TypeOK
<1>2. p \in End /\ p # e /\ peer(p) = e /\ \A d \in End : d = e \/ d = p
  BY Peers
<1>3. TermOK(State(e), State(p), cmds[e]) /\ TermOK(State(p), State(e), cmds[p])
  BY <1>2 DEF IInv, TermInv
<1>4. State(e) = "active" /\ n \in UpipeId
  BY DEF hiccup, Made
<1>5. /\ calls' = [calls EXCEPT ![e] = k] /\ upipe' = [upipe EXCEPT ![n] = NewUpipe]
      /\ pipe' = [pipe EXCEPT ![e] = q] /\ Send(e, <<c>>) /\ UNCHANGED <<sent, got>>
  BY <1>1 DEF hiccup, Made
<1>6. /\ q \in PipeObject /\ q.state = pipe[e].state /\ q.inpipe = n /\ q.outpipe = pipe[e].outpipe
      /\ q.in_active = TRUE
  BY <1>1, <1>4 DEF PipeObject
<1>7. c \in Command /\ c.type = "hiccup" /\ c.arg = n /\ n \in Nat /\ n # NULL
  BY <1>1 DEF Command, NULL
<1>8. /\ k \in [terms : Nat, hiccups : Nat, hwms : Nat] /\ k.hiccups = calls[e].hiccups + 1
  <2> DEFINE h == calls[e].hiccups + 1
  <2>1. calls[e] \in [terms : Nat, hiccups : Nat, hwms : Nat] /\ h \in Nat
    BY <1>1
  <2>2. k = [calls[e] EXCEPT !.hiccups = h]
    OBVIOUS
  <2> HIDE DEF h
  <2>3. k \in [terms : Nat, hiccups : Nat, hwms : Nat] /\ k.hiccups = h
    BY <2>1, <2>2
  <2> QED
    BY <2>3 DEF h
<1>9. Made' = n
  <2>1. k.hiccups \in Nat /\ calls'[e] = k /\ calls'[p] = calls[p] /\ calls[e].hiccups \in Nat /\ calls[p].hiccups \in Nat
    BY <1>1, <1>2, <1>5, <1>8
  <2>2. (e = 1 /\ p = 2) \/ (e = 2 /\ p = 1)
    BY DEF End, peer
  <2> HIDE DEF k
  <2> QED
    BY <1>8, <2>1, <2>2 DEF Made
<1> HIDE DEF q, c, k
<1>10. /\ cmds'[e] = cmds[e] /\ cmds'[p] \in Seq(Command) /\ QueueOK(cmds'[p]) /\ cmds' \in [End -> Seq(Command)]
       /\ \A t : Has(cmds'[p], t) <=> Has(cmds[p], t) \/ t = "hiccup"
       /\ HArgs(cmds'[p]) = H \cup {n}
  <2> DEFINE r == cmds[p]
  <2>1. r \in Seq(Command) /\ QueueOK(r) /\ ~Has(r, "pipe_term_ack") /\ ~Has(r, "pipe_term")
    BY <1>1, <1>2, <1>3, <1>4 DEF TermOK, Acked
  <2>2. \A a \in HArgs(r) : a < n
    <3>1. \A a \in HArgs(r) : a <= pipe[e].inpipe /\ NULL < a
      <4>1. \A a \in HArgs(r) : pipe[p].outpipe < a /\ a <= pipe[e].inpipe
        BY <1>2 DEF IInv, QueuesInv, ChainOK
      <4>2. pipe[p].outpipe >= NULL /\ pipe[p].outpipe \in Int
        BY <1>2, PipeIds DEF NULL
      <4>3. HArgs(r) \subseteq Int
        BY <2>1, HArgsNat
      <4> HIDE DEF r
      <4> QED
        BY <4>1, <4>2, <4>3 DEF NULL
    <3>2. \A a \in HArgs(r) : a \in Dir(e)
      BY <3>1 DEF Dir, NULL
    <3>3. \A a \in HArgs(r) : a \in Int /\ a <= Made
      BY <3>2, DirMade
    <3> QED
      BY <1>1, <3>3
  <2>3. cmds' = [cmds EXCEPT ![p] = Append(r, c)]
    <3>1. cmds' = [cmds EXCEPT ![p] = r \o <<c>>]
      BY <1>5 DEF Send
    <3>2. r \o <<c>> = Append(r, c)
      BY <1>7, <2>1, Sends
    <3> QED
      BY <3>1, <3>2
  <2>4. cmds'[e] = cmds[e] /\ cmds'[p] = Append(r, c)
    BY <1>1, <1>2, <2>3
  <2> HIDE DEF r
  <2>5. /\ Append(r, c) \in Seq(Command) /\ QueueOK(Append(r, c))
        /\ \A t : Has(Append(r, c), t) <=> Has(r, t) \/ c.type = t
        /\ HArgs(Append(r, c)) = HArgs(r) \cup {n}
    BY <1>7, <2>1, <2>2, QAppend
  <2>6. cmds' \in [End -> Seq(Command)]
    BY <1>1, <1>2, <2>3, <2>5
  <2> QED
    BY <1>7, <2>4, <2>5, <2>6 DEF r
<1>11. /\ State(e)' = State(e) /\ State(p)' = State(p) /\ pipe'[p] = pipe[p]
       /\ pipe'[e].inpipe = n /\ pipe'[e].outpipe = pipe[e].outpipe /\ pipe'[e].in_active = TRUE
  BY <1>1, <1>2, <1>5, <1>6 DEF State
<1>12. NewUpipe \in Upipe /\ NewUpipe.live = TRUE /\ NewUpipe.asleep = FALSE
  <2>1. <<>> \in Seq(Part)
    OBVIOUS
  <2> QED
    BY <2>1 DEF NewUpipe, Upipe
<1>13. \A j \in UpipeId : upipe'[j] = IF j = n THEN NewUpipe ELSE upipe[j]
  BY <1>1, <1>4, <1>5
<1>14. TypeOK'
  BY <1>1, <1>4, <1>5, <1>6, <1>8, <1>10, <1>12 DEF IInv, TypeOK
<1>15. TermInv'
  <2>1. TermOK(State(e)', State(p)', cmds'[e])
    BY <1>3, <1>10, <1>11
  <2>2. TermOK(State(p)', State(e)', cmds'[p])
    BY <1>3, <1>4, <1>10, <1>11 DEF TermOK, Begun, Acked
  <2> QED
    BY <1>2, <2>1, <2>2 DEF TermInv
<1>16. State(p) \notin Acked /\ State(e) \notin Acked /\ State(e) # "gone" /\ State(p) # "gone"
  BY <1>3, <1>4 DEF TermOK, Begun, Acked
<1> DEFINE i == pipe[e].inpipe
           o == pipe[p].outpipe
<1>17. /\ i # NULL /\ o # NULL /\ i <= Made /\ o <= Made /\ i \in Int /\ o \in Int
       /\ pipe[p].inpipe # NULL /\ pipe[e].outpipe # NULL /\ pipe[p].inpipe <= Made /\ pipe[e].outpipe <= Made
       /\ pipe[p].inpipe \in Int /\ pipe[e].outpipe \in Int
       /\ ChainOK(i, o, H) /\ ChainOK(pipe[p].inpipe, pipe[e].outpipe, HArgs(cmds[e]))
       /\ Dir(e) \cap Dir(p) = {}
  BY <1>2, <1>16, PipeIds DEF IInv, QueuesInv
<1>18. Dir(e)' = Dir(e) \cup {n}
  <2>1. i \in H \cup {o}
    BY <1>17 DEF ChainOK
  <2>2. Dir(e)' = ({n, o} \cup H \cup {n}) \ {NULL}
    BY <1>10, <1>11 DEF Dir
  <2>3. Dir(e) = ({i, o} \cup H) \ {NULL}
    BY DEF Dir
  <2> QED
    BY <1>7, <1>17, <2>1, <2>2, <2>3
<1>19. Dir(p)' = Dir(p)
  BY <1>2, <1>10, <1>11 DEF Dir
<1>20. \A a \in Dir(e) \cup Dir(p) : a \in Int /\ a <= Made
  BY <1>2, DirMade
<1>21. n \notin Dir(e) /\ n \notin Dir(p)
  BY <1>1, <1>20
<1>22. QueuesInv'
  <2>1. ChainOK(n, o, H \cup {n})
    <3>1. H \subseteq Int
      <4>1. cmds[p] \in Seq(Command)
        BY <1>1, <1>2
      <4> QED
        BY <4>1, HArgsNat
    <3> HIDE DEF H
    <3> QED
      BY <1>1, <1>17, <3>1, SMTT(40) DEF ChainOK
  <2>2. /\ pipe'[e].inpipe = NULL <=> State(e)' = "gone"
        /\ pipe'[e].outpipe = NULL <=> State(e)' \in Acked
        /\ pipe'[e].inpipe <= Made' /\ pipe'[e].outpipe <= Made'
        /\ ChainOK(pipe'[p].inpipe, pipe'[e].outpipe, HArgs(cmds'[e]))
        /\ Dir(e)' \cap Dir(p)' = {}
    BY <1>1, <1>7, <1>9, <1>10, <1>11, <1>16, <1>17, <1>18, <1>19, <1>21
  <2>3. /\ pipe'[p].inpipe = NULL <=> State(p)' = "gone"
        /\ pipe'[p].outpipe = NULL <=> State(p)' \in Acked
        /\ pipe'[p].inpipe <= Made' /\ pipe'[p].outpipe <= Made'
        /\ ChainOK(pipe'[e].inpipe, pipe'[p].outpipe, HArgs(cmds'[p]))
        /\ Dir(p)' \cap Dir(e)' = {}
    BY <1>1, <1>7, <1>9, <1>10, <1>11, <1>16, <1>17, <1>18, <1>19, <1>21, <2>1, SMTT(40)
  <2>4. \A j \in UpipeId : upipe[j].live <=> j \in Dir(e) \/ j \in Dir(p)
    BY <1>2 DEF IInv, QueuesInv
  <2>5. \A j \in UpipeId : upipe'[j].live <=> \E d \in End : j \in Dir(d)'
    BY <1>2, <1>12, <1>13, <1>18, <1>19, <1>21, <2>4
  <2> QED
    BY <1>2, <2>2, <2>3, <2>5 DEF QueuesInv
<1>23. SleepInv'
  <2>1. \A j \in UpipeId : upipe'[j].asleep => upipe'[j].flushed = <<>>
    BY <1>12, <1>13 DEF IInv, SleepInv
  <2>2. ASSUME Readable(p)', ~pipe'[p].in_active
        PROVE  upipe'[pipe'[p].inpipe].asleep \/ Has(cmds'[p], "activate_read")
    <3>1. Readable(p) /\ ~pipe[p].in_active
      BY <1>11, <2>2 DEF Readable
    <3>2. pipe[p].inpipe \in UpipeId /\ pipe[p].inpipe # n
      BY <1>1, <1>2, <1>16, <1>17, EndFacts
    <3>3. upipe[pipe[p].inpipe].asleep \/ Has(cmds[p], "activate_read")
      BY <1>2, <3>1 DEF IInv, SleepInv
    <3> QED
      BY <1>10, <1>11, <1>13, <3>2, <3>3
  <2> QED
    BY <1>2, <1>11, <2>1, <2>2 DEF SleepInv
<1> QED
  BY <1>14, <1>15, <1>22, <1>23 DEF IInv
-----------------------------------------------------------------------------
(* Commands from the peer *)

\* A command is consumed, and nothing is sent.
LEMMA Consumed ==
    ASSUME IInv, NEW e \in End, cmds[e] # <<>>, Reply(e, <<>>)
    PROVE  /\ cmds' \in [End -> Seq(Command)]
           /\ cmds'[e] = Tail(cmds[e]) /\ cmds'[peer(e)] = cmds[peer(e)]
           /\ Head(cmds[e]) \in Command /\ QueueOK(cmds'[e])
<1> DEFINE p == peer(e)
<1>1. p \in End /\ p # e
  BY Peers
<1>2. cmds \in [End -> Seq(Command)]
  BY DEF IInv, TypeOK
<1>3. cmds[e] \in Seq(Command) /\ QueueOK(cmds[e]) /\ cmds[p] \in Seq(Command)
  BY <1>1, <1>2, EndFacts
<1>4. cmds[p] \o <<>> = cmds[p]
  BY <1>3, ConcatEmptySeq
<1>5. Head(cmds[e]) \in Command /\ Tail(cmds[e]) \in Seq(Command) /\ QueueOK(Tail(cmds[e]))
  <2> DEFINE q == cmds[e]
  <2>1. q \in Seq(Command) /\ QueueOK(q) /\ q # <<>>
    BY <1>3
  <2> HIDE DEF q
  <2>2. Head(q) \in Command /\ Tail(q) \in Seq(Command) /\ QueueOK(Tail(q))
    BY <2>1, QTail
  <2> QED
    BY <2>2 DEF q
<1>6. cmds' = [cmds EXCEPT ![e] = Tail(cmds[e])]
  <2>1. cmds' = [cmds EXCEPT ![e] = Tail(cmds[e]), ![p] = cmds[p]]
    BY <1>1, <1>2, <1>4 DEF Reply
  <2> QED
    BY <1>1, <1>2, <2>1
<1> QED
  BY <1>1, <1>2, <1>5, <1>6

\* An activation is consumed: nothing else that is on its way changes.
LEMMA ConsumedActivation ==
    ASSUME IInv, NEW e \in End, cmds[e] # <<>>, Reply(e, <<>>),
           Head(cmds[e]).type \in {"activate_read", "activate_write"}
    PROVE  /\ cmds' \in [End -> Seq(Command)]
           /\ \A d \in End :
                /\ QueueOK(cmds'[d]) /\ HArgs(cmds'[d]) = HArgs(cmds[d])
                /\ State(d) = "gone" => cmds'[d] = <<>>
                /\ \A t \in {"pipe_term", "pipe_term_ack", "hiccup"} : Has(cmds'[d], t) <=> Has(cmds[d], t)
           /\ \A t : t # Head(cmds[e]).type /\ Has(cmds[e], t) => Has(cmds'[e], t)
           /\ cmds'[peer(e)] = cmds[peer(e)]
<1> DEFINE p == peer(e)
           q == cmds[e]
<1>1. p \in End /\ p # e /\ \A d \in End : d = e \/ d = p
  BY Peers
<1>2. /\ cmds' \in [End -> Seq(Command)] /\ cmds'[e] = Tail(q) /\ cmds'[p] = cmds[p]
      /\ q \in Seq(Command) /\ QueueOK(q) /\ q # <<>>
  BY Consumed, EndFacts
<1>3. QueueOK(cmds[p]) /\ (State(p) = "gone" => cmds[p] = <<>>) /\ State(e) # "gone"
  BY <1>1, EndFacts
<1>4. Head(q).type \in {"activate_read", "activate_write"}
  OBVIOUS
<1> HIDE DEF q
<1>5. /\ QueueOK(Tail(q)) /\ HArgs(Tail(q)) = HArgs(q)
      /\ \A t : Has(q, t) <=> Has(Tail(q), t) \/ Head(q).type = t
  BY <1>2, <1>4, QTail
<1>6. \A t \in {"pipe_term", "pipe_term_ack", "hiccup"} : Has(Tail(q), t) <=> Has(q, t)
  BY <1>4, <1>5
<1> QED
  BY <1>1, <1>2, <1>3, <1>5, <1>6 DEF q

\* process_activate_read () and process_activate_write ().
LEMMA ActivateStep ==
    ASSUME IInv, NEW e \in End, process_activate_read(e) \/ process_activate_write(e)
    PROVE  IInv'
<1> DEFINE p == peer(e)
<1>1. p \in End /\ p # e /\ peer(p) = e /\ \A d \in End : d = e \/ d = p
  BY Peers
<1>2. /\ cmds[e] # <<>> /\ Head(cmds[e]).type \in {"activate_read", "activate_write"} /\ Reply(e, <<>>)
      /\ UNCHANGED <<upipe, sent, got, calls>>
  BY DEF process_activate_read, process_activate_write, Receive
<1>3. pipe \in [End -> PipeObject] /\ pipe[e] \in PipeObject
  BY DEF IInv, TypeOK
<1>4. Head(cmds[e]) \in Command /\ Head(cmds[e]).arg \in Nat
  BY <1>2, Consumed DEF Command
<1>5. PICK q \in PipeObject :
         /\ pipe' = [pipe EXCEPT ![e] = q]
         /\ q.state = pipe[e].state /\ q.inpipe = pipe[e].inpipe /\ q.outpipe = pipe[e].outpipe
         /\ Readable(e) /\ ~q.in_active => Head(cmds[e]).type = "activate_write" /\ ~pipe[e].in_active
  <2>1. CASE process_activate_read(e)
    <3> DEFINE q == [pipe[e] EXCEPT !.in_active = @ \/ Readable(e)]
    <3>1. pipe' = [pipe EXCEPT ![e] = q]
      BY <1>3, <2>1 DEF process_activate_read
    <3>2. /\ q \in PipeObject /\ q.state = pipe[e].state /\ q.inpipe = pipe[e].inpipe /\ q.outpipe = pipe[e].outpipe
          /\ q.in_active <=> pipe[e].in_active \/ Readable(e)
      <4> DEFINE b == pipe[e].in_active \/ Readable(e)
      <4>1. b \in BOOLEAN /\ q = [pipe[e] EXCEPT !.in_active = b]
        BY DEF Readable
      <4> HIDE DEF b
      <4>2. /\ q \in PipeObject /\ q.state = pipe[e].state /\ q.inpipe = pipe[e].inpipe /\ q.outpipe = pipe[e].outpipe
            /\ q.in_active = b
        BY <1>3, <4>1 DEF PipeObject
      <4> QED
        BY <4>2 DEF b
    <3> HIDE DEF q
    <3> QED
      BY <3>1, <3>2
  <2>2. CASE process_activate_write(e)
    <3> DEFINE b == pipe[e].out_active \/ State(e) = "active"
               q == [pipe[e] EXCEPT !.peers_msgs_read = Head(cmds[e]).arg, !.out_active = b]
    <3>1. pipe' = [pipe EXCEPT ![e] = q] /\ Head(cmds[e]).type = "activate_write"
      BY <1>3, <2>2 DEF process_activate_write, Receive
    <3>2. b \in BOOLEAN
      OBVIOUS
    <3> HIDE DEF b
    <3>3. /\ q \in PipeObject /\ q.state = pipe[e].state /\ q.inpipe = pipe[e].inpipe /\ q.outpipe = pipe[e].outpipe
          /\ q.in_active = pipe[e].in_active
      BY <1>3, <1>4, <3>2 DEF PipeObject
    <3> HIDE DEF q
    <3> QED
      BY <3>1, <3>3
  <2> QED
    BY <2>1, <2>2
<1>6. /\ cmds' \in [End -> Seq(Command)]
      /\ \A d \in End :
           /\ QueueOK(cmds'[d]) /\ HArgs(cmds'[d]) = HArgs(cmds[d])
           /\ State(d) = "gone" => cmds'[d] = <<>>
           /\ \A t \in {"pipe_term", "pipe_term_ack", "hiccup"} : Has(cmds'[d], t) <=> Has(cmds[d], t)
      /\ \A t : t # Head(cmds[e]).type /\ Has(cmds[e], t) => Has(cmds'[e], t)
      /\ cmds'[p] = cmds[p]
  BY <1>2, ConsumedActivation
<1>7. TypeOK'
  BY <1>2, <1>3, <1>5, <1>6 DEF IInv, TypeOK
<1>8. /\ \A d \in End : /\ State(d)' = State(d) /\ pipe'[d].inpipe = pipe[d].inpipe
                        /\ pipe'[d].outpipe = pipe[d].outpipe
      /\ pipe'[p] = pipe[p] /\ pipe'[e] = q
  BY <1>1, <1>3, <1>5 DEF State
<1>9. TermInv' /\ QueuesInv'
  BY <1>2, <1>6, <1>8, Frame
<1>10. SleepInv'
  <2>1. \A d \in End : Readable(d)' <=> Readable(d)
    BY <1>8 DEF Readable
  <2>2. \A j \in UpipeId : upipe[j].asleep => upipe[j].flushed = <<>>
    BY DEF IInv, SleepInv
  <2>3. Head(cmds[e]).type = "activate_write" => (Has(cmds[e], "activate_read") => Has(cmds'[e], "activate_read"))
    BY <1>6
  <2> QED
    BY <1>1, <1>2, <1>5, <1>6, <1>8, <2>1, <2>2, <2>3, SleepFrame
<1> QED
  BY <1>7, <1>9, <1>10 DEF IInv

\* The messages that a hiccup drops can be counted.
LEMMA DroppedCount == ASSUME NEW u \in Upipe PROVE Dropped(u) \in Nat
<1> DEFINE q == u.flushed \o u.complete
           S == {n \in DOMAIN q : ~q[n].more}
<1>1. q \in Seq(Part)
  BY ConcatProperties DEF Upipe
<1> HIDE DEF q
<1>2. DOMAIN q = 1..Len(q) /\ Len(q) \in Nat
  BY <1>1, LenProperties
<1>3. IsFiniteSet(1..Len(q))
  BY <1>2, FS_Interval
<1>4. S \subseteq 1..Len(q)
  BY <1>2
<1>5. IsFiniteSet(S)
  BY <1>3, <1>4, FS_Subset
<1>6. Cardinality(S) \in Nat
  BY <1>5, FS_CardinalityType
<1> QED
  BY <1>6 DEF q, Dropped

\* process_hiccup (): the writer drops its old outpipe.
LEMMA ProcessHiccup == ASSUME IInv, NEW e \in End, process_hiccup(e) PROVE IInv'
<1> DEFINE p == peer(e)
           o == pipe[e].outpipe
           i == pipe[p].inpipe
           r == cmds[e]
           a == Head(r).arg
           H == HArgs(r)
           K == HArgs(Tail(r))
           w == pipe[e].msgs_written - Dropped(upipe[o])
           q == [pipe[e] EXCEPT !.msgs_written = w, !.outpipe = a, !.out_active = TRUE]
<1>1. p \in End /\ p # e /\ peer(p) = e /\ \A d \in End : d = e \/ d = p
  BY Peers
<1>2. /\ r # <<>> /\ Head(r).type = "hiccup" /\ Reply(e, <<>>)
      /\ upipe' = [upipe EXCEPT ![o] = NoUpipe] /\ UNCHANGED <<got, calls>> /\ sent' \in [End -> Said]
  <2>1. sent \in [End -> Said]
    BY DEF IInv, TypeOK
  <2> DEFINE C == IF sent[e].more THEN sent[e].cut \cup {sent[e].num} ELSE sent[e].cut
  <2>2. sent[e] \in Said /\ C \in SUBSET Int
    BY <2>1 DEF Said
  <2>3. [sent[e] EXCEPT !.cut = C] \in Said
    <3> HIDE DEF C
    <3> QED
      BY <2>2 DEF Said
  <2>4. sent' = [sent EXCEPT ![e] = [sent[e] EXCEPT !.cut = C]]
    BY <2>1 DEF process_hiccup
  <2> HIDE DEF C
  <2>5. sent' \in [End -> Said]
    BY <2>1, <2>3, <2>4
  <2> QED
    BY <2>5 DEF process_hiccup, Receive
<1>3. /\ pipe \in [End -> PipeObject] /\ pipe[e] \in PipeObject /\ upipe \in [UpipeId -> Upipe]
      /\ r \in Seq(Command) /\ QueueOK(r)
  BY EndFacts DEF IInv, TypeOK
<1>4. /\ cmds' \in [End -> Seq(Command)] /\ cmds'[e] = Tail(r) /\ cmds'[p] = cmds[p]
      /\ Head(r) \in Command /\ a \in Nat
  BY <1>2, Consumed DEF Command
<1>5. /\ QueueOK(Tail(r)) /\ \A t : Has(r, t) <=> Has(Tail(r), t) \/ "hiccup" = t
      /\ H = K \cup {a} /\ \A b \in K : a < b
      /\ K \subseteq Nat
  <2> HIDE DEF r
  <2>1. /\ Tail(r) \in Seq(Command) /\ QueueOK(Tail(r))
        /\ \A t : Has(r, t) <=> Has(Tail(r), t) \/ Head(r).type = t
        /\ H = K \cup {a} /\ \A b \in K : a < b
    BY <1>2, <1>3, QTail
  <2> QED
    BY <1>2, <2>1, HArgsNat
<1>6. TermOK(State(e), State(p), cmds[e]) /\ TermOK(State(p), State(e), cmds[p])
  BY <1>1 DEF IInv, TermInv
<1>7. State(e) \in Begun /\ State(e) \notin Acked /\ State(e) # "gone"
  BY <1>5, <1>6 DEF TermOK, Begun, Acked
<1>8. o \in UpipeId /\ upipe[o] \in Upipe /\ o # NULL /\ pipe[e].inpipe # o
  BY <1>7, EndFacts, PipeAssumption DEF UpipeId, NULL
<1>9. /\ o < a /\ a <= i /\ i \in H /\ o \in Nat /\ i \in Nat /\ \A b \in K : b <= i
      /\ i <= Made /\ Made \in Nat
  <2>1. ChainOK(i, o, H) /\ i <= Made /\ o \in Nat /\ i \in Nat /\ Made \in Nat
    BY <1>1, PipeIds, MadeType DEF IInv, QueuesInv
  <2>2. o < a /\ a <= i /\ \A b \in K : b <= i
    BY <1>5, <2>1 DEF ChainOK
  <2>3. i \in H
    BY <1>4, <1>8, <2>1, <2>2 DEF ChainOK
  <2> QED
    BY <2>1, <2>2, <2>3
<1>10. a \in UpipeId
  <2>1. i \in UpipeId
    <3>1. i \in UpipeId \cup {NULL}
      BY <1>1, <1>3 DEF PipeObject
    <3>2. i # NULL
      BY <1>4, <1>9 DEF NULL
    <3> QED
      BY <3>1, <3>2
  <2>2. \A x, y, z, b \in Int : 0 <= x /\ x < y /\ y <= z /\ z \in 1..(2 + b) => y \in 1..(2 + b)
    OBVIOUS
  <2>3. o \in Int /\ 0 <= o /\ a \in Int /\ i \in Int /\ MaxHiccups \in Int
    BY <1>4, <1>9, PipeAssumption
  <2>4. o < a /\ a <= i /\ i \in 1..(2 + MaxHiccups)
    BY <1>9, <2>1 DEF UpipeId
  <2> HIDE DEF o, a, i
  <2> QED
    BY <2>2, <2>3, <2>4 DEF UpipeId
<1>11. /\ pipe' = [pipe EXCEPT ![e] = q] /\ w \in Int
  <2>1. pipe' = [pipe EXCEPT ![e] = q]
    BY <1>3 DEF process_hiccup
  <2>2. w \in Int
    BY <1>3, <1>8, DroppedCount DEF PipeObject
  <2> QED
    BY <2>1, <2>2
<1> HIDE DEF w
<1>12. /\ q \in PipeObject /\ q.state = pipe[e].state /\ q.inpipe = pipe[e].inpipe /\ q.outpipe = a
       /\ q.in_active = pipe[e].in_active
  BY <1>3, <1>10, <1>11 DEF PipeObject
<1> HIDE DEF q
<1>13. /\ State(e)' = State(e) /\ State(p)' = State(p) /\ pipe'[p] = pipe[p]
       /\ pipe'[e].inpipe = pipe[e].inpipe /\ pipe'[e].outpipe = a /\ pipe'[e].in_active = pipe[e].in_active
  BY <1>1, <1>3, <1>11, <1>12 DEF State
<1>14. NoUpipe \in Upipe /\ NoUpipe.live = FALSE /\ NoUpipe.asleep = FALSE
  <2>1. <<>> \in Seq(Part)
    OBVIOUS
  <2> QED
    BY <2>1 DEF NoUpipe, NewUpipe, Upipe
<1>15. \A j \in UpipeId : upipe'[j] = IF j = o THEN NoUpipe ELSE upipe[j]
  BY <1>2, <1>3, <1>8
<1>16. TypeOK'
  BY <1>2, <1>3, <1>4, <1>8, <1>11, <1>12, <1>14 DEF IInv, TypeOK
<1>17. TermInv'
  <2>1. TermOK(State(e)', State(p)', cmds'[e])
    <3>1. \A t \in {"pipe_term", "pipe_term_ack"} : Has(Tail(r), t) <=> Has(r, t)
      BY <1>5
    <3> QED
      BY <1>4, <1>5, <1>6, <1>7, <1>13, <3>1 DEF TermOK, Begun
  <2>2. TermOK(State(p)', State(e)', cmds'[p])
    BY <1>4, <1>6, <1>13
  <2> QED
    BY <1>1, <2>1, <2>2 DEF TermInv
<1>18. Dir(p)' = Dir(p) \ {o}
  <2>1. Dir(p) = ({i, o} \cup H) \ {NULL}
    BY <1>1 DEF Dir
  <2>2. Dir(p)' = ({i, a} \cup K) \ {NULL}
    BY <1>1, <1>4, <1>13 DEF Dir
  <2>3. o # i /\ o # a /\ o \notin K
    BY <1>4, <1>5, <1>9
  <2> HIDE DEF H, K
  <2> QED
    BY <1>5, <1>8, <1>9, <2>1, <2>2, <2>3
<1>19. Dir(e)' = Dir(e)
  BY <1>4, <1>13 DEF Dir
<1>20. o \notin Dir(e) /\ o \in Dir(p)
  <2>1. o \in Dir(p)
    BY <1>1, <1>8 DEF Dir
  <2> QED
    BY <2>1 DEF IInv, QueuesInv
<1>21. Made' = Made
  BY <1>2 DEF Made
<1>22. QueuesInv'
  <2>1. ChainOK(i, a, K)
    <3> HIDE DEF H, K
    <3> QED
      BY <1>5, <1>9 DEF ChainOK
  <2>2. /\ pipe[e].inpipe = NULL <=> State(e) = "gone"
        /\ pipe[e].inpipe <= Made /\ Dir(e) \cap Dir(p) = {}
        /\ pipe[p].inpipe = NULL <=> State(p) = "gone"
        /\ pipe[p].outpipe = NULL <=> State(p) \in Acked
        /\ pipe[p].inpipe <= Made /\ pipe[p].outpipe <= Made
        /\ ChainOK(pipe[e].inpipe, pipe[p].outpipe, HArgs(cmds[p]))
    BY <1>1 DEF IInv, QueuesInv
  <2>3. /\ pipe'[e].inpipe = NULL <=> State(e)' = "gone"
        /\ pipe'[e].outpipe = NULL <=> State(e)' \in Acked
        /\ pipe'[e].inpipe <= Made' /\ pipe'[e].outpipe <= Made'
        /\ ChainOK(pipe'[p].inpipe, pipe'[e].outpipe, HArgs(cmds'[e]))
        /\ Dir(e)' \cap Dir(p)' = {}
    <3>1. a # NULL /\ a <= Made
      BY <1>4, <1>9 DEF NULL
    <3>2. Dir(e)' \cap Dir(p)' = {}
      BY <1>18, <1>19, <2>2
    <3> QED
      BY <1>4, <1>7, <1>13, <1>21, <2>1, <2>2, <3>1, <3>2
  <2>4. /\ pipe'[p].inpipe = NULL <=> State(p)' = "gone"
        /\ pipe'[p].outpipe = NULL <=> State(p)' \in Acked
        /\ pipe'[p].inpipe <= Made' /\ pipe'[p].outpipe <= Made'
        /\ ChainOK(pipe'[e].inpipe, pipe'[p].outpipe, HArgs(cmds'[p]))
        /\ Dir(p)' \cap Dir(e)' = {}
    BY <1>4, <1>13, <1>21, <2>2, <2>3
  <2>5. \A j \in UpipeId : upipe[j].live <=> j \in Dir(e) \/ j \in Dir(p)
    BY <1>1 DEF IInv, QueuesInv
  <2>6. \A j \in UpipeId : upipe'[j].live <=> \E d \in End : j \in Dir(d)'
    BY <1>1, <1>14, <1>15, <1>18, <1>19, <1>20, <2>5
  <2> QED
    BY <1>1, <2>3, <2>4, <2>6 DEF QueuesInv
<1>23. SleepInv'
  <2>1. \A j \in UpipeId : upipe'[j].asleep => upipe'[j].flushed = <<>>
    BY <1>14, <1>15 DEF IInv, SleepInv
  <2>2. Has(cmds[e], "activate_read") => Has(cmds'[e], "activate_read")
    BY <1>4, <1>5
  <2>3. ASSUME NEW d \in End, Readable(d)', ~pipe'[d].in_active
        PROVE  upipe'[pipe'[d].inpipe].asleep \/ Has(cmds'[d], "activate_read")
    <3>1. Readable(d) /\ ~pipe[d].in_active /\ pipe'[d].inpipe = pipe[d].inpipe
      BY <1>1, <1>13, <2>3 DEF Readable
    <3>2. pipe[d].inpipe \in UpipeId /\ pipe[d].inpipe # o
      <4>1. pipe[d].inpipe \in UpipeId
        BY <3>1, EndFacts DEF Readable
      <4>2. i # o
        BY <1>4, <1>9
      <4> QED
        BY <1>1, <1>8, <4>1, <4>2
    <3>3. upipe[pipe[d].inpipe].asleep \/ Has(cmds[d], "activate_read")
      BY <3>1 DEF IInv, SleepInv
    <3> QED
      BY <1>1, <1>4, <1>15, <2>2, <3>1, <3>2, <3>3
  <2> QED
    BY <2>1, <2>3 DEF SleepInv
<1> QED
  BY <1>16, <1>17, <1>22, <1>23 DEF IInv

\* process_pipe_term () in every state it accepts.
LEMMA ProcessPipeTerm == ASSUME IInv, NEW e \in End, process_pipe_term(e) PROVE IInv'
<1> DEFINE p == peer(e)
           r == cmds[e]
<1>1. p \in End /\ p # e /\ peer(p) = e /\ \A d \in End : d = e \/ d = p
  BY Peers
<1>2. r # <<>> /\ Head(r).type = "pipe_term" /\ UNCHANGED <<upipe, sent, got, calls>>
  BY DEF process_pipe_term, Receive
<1>3. /\ pipe \in [End -> PipeObject] /\ pipe[e] \in PipeObject /\ cmds \in [End -> Seq(Command)]
      /\ r \in Seq(Command) /\ QueueOK(r)
  BY EndFacts DEF IInv, TypeOK
<1>4. /\ Tail(r) \in Seq(Command) /\ QueueOK(Tail(r))
      /\ ~Has(Tail(r), "pipe_term") /\ ~Has(r, "hiccup") /\ ~Has(Tail(r), "hiccup") /\ Has(r, "pipe_term")
      /\ \A t \in {"pipe_term_ack", "activate_read"} : Has(r, t) <=> Has(Tail(r), t)
      /\ HArgs(Tail(r)) = HArgs(r)
  <2> HIDE DEF r
  <2>1. /\ Tail(r) \in Seq(Command) /\ QueueOK(Tail(r))
        /\ \A t : Has(r, t) <=> Has(Tail(r), t) \/ Head(r).type = t
        /\ ~Has(Tail(r), "pipe_term") /\ ~Has(r, "hiccup") /\ HArgs(Tail(r)) = HArgs(r)
    BY <1>2, <1>3, QTail
  <2> QED
    BY <1>2, <2>1
<1>5. TermOK(State(e), State(p), cmds[e]) /\ TermOK(State(p), State(e), cmds[p])
  BY <1>1 DEF IInv, TermInv
<1>6. /\ State(e) \in Begun /\ State(p) \in {"term_req_sent1", "term_req_sent2"} /\ State(e) \notin Acked
      /\ State(e) # "term_req_sent1" => State(p) = "term_req_sent1"
  <2>1. State(e) \in Begun /\ State(p) \in {"term_req_sent1", "term_req_sent2"}
    BY <1>4, <1>5 DEF TermOK
  <2> QED
    BY <1>5, <2>1 DEF TermOK, Begun, Acked
<1>7. \A j \in UpipeId : upipe[j].asleep => upipe[j].flushed = <<>>
  BY DEF IInv, SleepInv
<1>8. CASE pipe[e].state = "active" /\ pipe[e].delay
  <2> DEFINE q == [pipe[e] EXCEPT !.state = "waiting_for_delimiter"]
  <2>1. pipe' = [pipe EXCEPT ![e] = q] /\ Reply(e, <<>>)
    BY <1>8 DEF process_pipe_term
  <2>2. /\ q \in PipeObject /\ q.state = "waiting_for_delimiter" /\ q.inpipe = pipe[e].inpipe
        /\ q.outpipe = pipe[e].outpipe /\ q.in_active = pipe[e].in_active
    BY <1>3 DEF PipeObject, States
  <2> HIDE DEF q
  <2>3. cmds' \in [End -> Seq(Command)] /\ cmds'[e] = Tail(r) /\ cmds'[p] = cmds[p]
    BY <1>2, <2>1, Consumed
  <2>4. TypeOK'
    BY <1>2, <1>3, <2>1, <2>2, <2>3 DEF IInv, TypeOK
  <2>5. /\ State(e)' = "waiting_for_delimiter" /\ State(p)' = State(p) /\ pipe'[p] = pipe[p]
        /\ pipe'[e].inpipe = pipe[e].inpipe /\ pipe'[e].outpipe = pipe[e].outpipe
        /\ pipe'[e].in_active = pipe[e].in_active
    BY <1>1, <1>3, <2>1, <2>2 DEF State
  <2>6. State(e) = "active" /\ State(p) = "term_req_sent1"
    BY <1>6, <1>8 DEF State
  <2>7. TermInv'
    <3>1. TermOK(State(e)', State(p)', cmds'[e])
      BY <1>4, <1>5, <2>3, <2>5, <2>6 DEF TermOK, Begun, Acked
    <3>2. TermOK(State(p)', State(e)', cmds'[p])
      BY <1>5, <2>3, <2>5, <2>6 DEF TermOK, Begun, Acked
    <3> QED
      BY <1>1, <3>1, <3>2 DEF TermInv
  <2>8. QueuesInv'
    <3>1. \A d \in End : /\ (State(d)' \in Acked) <=> (State(d) \in Acked)
                         /\ (State(d)' = "gone") <=> (State(d) = "gone")
                         /\ pipe'[d].inpipe = pipe[d].inpipe /\ pipe'[d].outpipe = pipe[d].outpipe
                         /\ HArgs(cmds'[d]) = HArgs(cmds[d])
      BY <1>1, <1>4, <2>3, <2>5, <2>6 DEF Acked
    <3> QED
      BY <1>2, <3>1, QueuesFrame
  <2>9. SleepInv'
    <3>1. Readable(e) /\ (Readable(p)' <=> Readable(p))
      BY <2>5, <2>6 DEF Readable
    <3> QED
      BY <1>1, <1>2, <1>4, <1>7, <2>3, <2>5, <3>1, SleepFrame
  <2> QED
    BY <2>4, <2>7, <2>8, <2>9 DEF IInv
<1>9. CASE ~(pipe[e].state = "active" /\ pipe[e].delay)
  <2> DEFINE s == IF pipe[e].state = "term_req_sent1" THEN "term_req_sent2" ELSE "term_ack_sent"
             q == [pipe[e] EXCEPT !.outpipe = NULL, !.state = s]
             c == Cmd("pipe_term_ack")
  <2>1. pipe' = [pipe EXCEPT ![e] = q] /\ Reply(e, <<c>>)
    BY <1>9 DEF process_pipe_term
  <2>2. s \in States /\ s \in {"term_req_sent2", "term_ack_sent"} /\ (s = "term_req_sent2" <=> State(e) = "term_req_sent1")
    BY DEF States, State
  <2> HIDE DEF s
  <2>3. q \in PipeObject /\ q.state = s /\ q.inpipe = pipe[e].inpipe /\ q.outpipe = NULL
    BY <1>3, <2>2 DEF PipeObject
  <2> HIDE DEF q
  <2>4. cmds' = [cmds EXCEPT ![e] = Tail(r), ![p] = cmds[p] \o <<c>>]
    BY <1>1, <1>3, <2>1 DEF Reply
  <2>5. cmds'[e] = Tail(r) /\ cmds'[p] = cmds[p] \o <<c>>
    BY <1>1, <1>3, <2>4
  <2>6. /\ cmds'[p] \in Seq(Command) /\ QueueOK(cmds'[p]) /\ HArgs(cmds'[p]) = HArgs(cmds[p])
        /\ Has(cmds'[p], "pipe_term_ack")
        /\ \A t \in {"activate_read", "pipe_term", "hiccup"} : Has(cmds'[p], t) <=> Has(cmds[p], t)
    BY <1>6, <2>5, SendAck
  <2>7. TypeOK'
    <3>1. cmds' \in [End -> Seq(Command)]
      BY <1>1, <1>3, <1>4, <2>4, <2>5, <2>6
    <3> QED
      BY <1>2, <1>3, <2>1, <2>3, <3>1 DEF IInv, TypeOK
  <2>8. /\ State(e)' = s /\ State(p)' = State(p) /\ pipe'[p] = pipe[p]
        /\ pipe'[e].inpipe = pipe[e].inpipe /\ pipe'[e].outpipe = NULL
    BY <1>1, <1>3, <2>1, <2>3 DEF State
  <2>9. TermInv'
    <3>1. TermOK(State(e)', State(p)', cmds'[e])
      BY <1>4, <1>5, <1>6, <2>2, <2>5, <2>8 DEF TermOK, Begun, Acked
    <3>2. TermOK(State(p)', State(e)', cmds'[p])
      BY <1>5, <1>6, <2>2, <2>6, <2>8 DEF TermOK, Begun, Acked
    <3> QED
      BY <1>1, <3>1, <3>2 DEF TermInv
  <2>10. QueuesInv'
    <3>1. \A d \in End : pipe'[d].inpipe = pipe[d].inpipe /\ HArgs(cmds'[d]) = HArgs(cmds[d])
      BY <1>1, <1>4, <2>5, <2>6, <2>8
    <3>2. State(e)' \in Acked \ {"gone"}
      BY <2>2, <2>8 DEF Acked
    <3> QED
      BY <1>2, <1>4, <1>6, <2>8, <3>1, <3>2, AckQueues
  <2>11. SleepInv'
    <3>1. ~Readable(e)' /\ (Readable(p)' <=> Readable(p))
      BY <2>2, <2>8 DEF Readable
    <3> QED
      BY <1>1, <1>2, <1>7, <2>6, <2>8, <3>1, SleepFrame
  <2> QED
    BY <2>7, <2>9, <2>10, <2>11 DEF IInv
<1> QED
  BY <1>8, <1>9

\* process_pipe_term_ack (): the end deletes its inpipe and itself.
LEMMA ProcessPipeTermAck == ASSUME IInv, NEW e \in End, process_pipe_term_ack(e) PROVE IInv'
<1> DEFINE p == peer(e)
           r == cmds[e]
           i == pipe[e].inpipe
           c == Cmd("pipe_term_ack")
           cs == IF State(e) = "term_req_sent1" THEN <<c>> ELSE <<>>
<1>1. p \in End /\ p # e /\ peer(p) = e /\ \A d \in End : d = e \/ d = p
  BY Peers
<1>2. /\ r # <<>> /\ Head(r).type = "pipe_term_ack" /\ UNCHANGED <<sent, got, calls>>
      /\ upipe' = [upipe EXCEPT ![i] = NoUpipe] /\ pipe' = [pipe EXCEPT ![e] = Gone] /\ Reply(e, cs)
  BY DEF process_pipe_term_ack, Receive
<1>3. /\ pipe \in [End -> PipeObject] /\ pipe[e] \in PipeObject /\ cmds \in [End -> Seq(Command)]
      /\ upipe \in [UpipeId -> Upipe] /\ r \in Seq(Command) /\ QueueOK(r) /\ cmds[p] \in Seq(Command)
  BY <1>1, EndFacts DEF IInv, TypeOK
<1>4. /\ Tail(r) = <<>> /\ Has(r, "pipe_term_ack") /\ ~Has(r, "pipe_term") /\ ~Has(r, "hiccup")
  <2> HIDE DEF r
  <2>1. Tail(r) = <<>> /\ \A t : Has(r, t) <=> Has(Tail(r), t) \/ Head(r).type = t
    BY <1>2, <1>3, QTail
  <2>2. \A t : ~Has(<<>>, t)
    BY DEF Has
  <2> QED
    BY <1>2, <2>1, <2>2
<1>5. TermOK(State(e), State(p), cmds[e]) /\ TermOK(State(p), State(e), cmds[p])
  BY <1>1 DEF IInv, TermInv
<1>6. /\ State(e) \in {"term_req_sent1", "term_req_sent2", "term_ack_sent"}
      /\ State(p) \in Acked
      /\ State(e) = "term_req_sent1" => State(p) = "term_ack_sent"
  <2>1. State(p) \in Acked /\ State(e) # "gone" /\ State(e) \in States
    BY <1>4, <1>5, EndFacts DEF TermOK
  <2>2. State(e) \in {"term_req_sent1", "term_req_sent2", "term_ack_sent"}
    BY <1>5, <2>1 DEF TermOK, Begun, Acked, States
  <2> QED
    BY <1>4, <1>5, <2>1, <2>2 DEF TermOK, Begun, Acked
<1>7. i \in UpipeId /\ i # NULL
  BY <1>6, EndFacts, PipeAssumption DEF UpipeId, NULL
<1>8. cmds' = [cmds EXCEPT ![e] = <<>>, ![p] = cmds[p] \o cs]
  BY <1>1, <1>2, <1>3, <1>4 DEF Reply
<1>9. cmds'[e] = <<>> /\ cmds'[p] = cmds[p] \o cs
  BY <1>1, <1>3, <1>8
<1>10. /\ cmds'[p] \in Seq(Command) /\ QueueOK(cmds'[p]) /\ HArgs(cmds'[p]) = HArgs(cmds[p])
       /\ State(e) = "term_req_sent1" => Has(cmds'[p], "pipe_term_ack")
       /\ State(e) # "term_req_sent1" => cmds'[p] = cmds[p]
       /\ \A t \in {"activate_read", "pipe_term", "hiccup"} : Has(cmds'[p], t) <=> Has(cmds[p], t)
  <2>1. CASE State(e) = "term_req_sent1"
    <3>1. cmds'[p] = cmds[p] \o <<c>> /\ State(e) \notin Acked
      BY <1>9, <2>1 DEF Acked
    <3> QED
      BY <2>1, <3>1, SendAck
  <2>2. CASE State(e) # "term_req_sent1"
    <3>1. cmds'[p] = cmds[p]
      BY <1>3, <1>9, <2>2, ConcatEmptySeq
    <3> QED
      BY <1>1, <1>3, <2>2, <3>1, EndFacts
  <2> QED
    BY <2>1, <2>2
<1> HIDE DEF cs
<1>11. Gone \in PipeObject /\ Gone.state = "gone" /\ Gone.inpipe = NULL /\ Gone.outpipe = NULL
  BY DEF Gone, PipeObject, States, NULL
<1>12. NoUpipe \in Upipe /\ NoUpipe.live = FALSE /\ NoUpipe.asleep = FALSE
  <2>1. <<>> \in Seq(Part)
    OBVIOUS
  <2> QED
    BY <2>1 DEF NoUpipe, NewUpipe, Upipe
<1>13. \A j \in UpipeId : upipe'[j] = IF j = i THEN NoUpipe ELSE upipe[j]
  BY <1>2, <1>3, <1>7
<1>14. TypeOK'
  <2>1. cmds' \in [End -> Seq(Command)]
    <3>1. <<>> \in Seq(Command)
      OBVIOUS
    <3> QED
      BY <1>1, <1>3, <1>8, <1>9, <1>10, <3>1
  <2> QED
    BY <1>2, <1>3, <1>7, <1>11, <1>12, <2>1 DEF IInv, TypeOK
<1>15. /\ State(e)' = "gone" /\ State(p)' = State(p) /\ pipe'[p] = pipe[p]
       /\ pipe'[e].inpipe = NULL /\ pipe'[e].outpipe = NULL
  BY <1>1, <1>2, <1>3, <1>11 DEF State
<1>16. \A t : ~Has(<<>>, t)
  BY DEF Has
<1>17. QueueOK(<<>>)
  BY DEF QueueOK
<1>18. TermInv'
  <2>1. TermOK(State(e)', State(p)', cmds'[e])
    BY <1>6, <1>9, <1>15, <1>16, <1>17 DEF TermOK, Begun, Acked
  <2>2. TermOK(State(p)', State(e)', cmds'[p])
    <3>1. CASE State(e) = "term_req_sent1"
      BY <1>5, <1>6, <1>10, <1>15, <3>1 DEF TermOK, Begun, Acked
    <3>2. CASE State(e) # "term_req_sent1"
      BY <1>5, <1>6, <1>10, <1>15, <3>2 DEF TermOK, Begun, Acked
    <3> QED
      BY <3>1, <3>2
  <2> QED
    BY <1>1, <2>1, <2>2 DEF TermInv
<1>19. HArgs(<<>>) = {} /\ HArgs(r) = {} /\ HArgs(cmds[p]) = {}
  <2>1. ~Has(cmds[p], "hiccup")
    BY <1>5, <1>6 DEF TermOK, Begun, Acked
  <2> QED
    BY <1>4, <1>16, <2>1, NoHArgs
<1>20. /\ i # NULL /\ pipe[p].outpipe = NULL /\ pipe[e].outpipe \in {NULL, pipe[p].inpipe}
       /\ pipe[p].inpipe = NULL <=> State(p) = "gone"
       /\ pipe[p].inpipe <= Made /\ pipe[p].outpipe <= Made
       /\ Dir(e) \cap Dir(p) = {}
  <2>1. pipe[e].outpipe \in {NULL, pipe[p].inpipe}
    BY <1>1, <1>19 DEF IInv, QueuesInv, ChainOK
  <2> QED
    BY <1>1, <1>6, <1>7, <2>1 DEF IInv, QueuesInv
<1>21. Dir(e) = {i} /\ Dir(e)' = {}
  BY <1>10, <1>15, <1>19, <1>20 DEF Dir
<1>22. Dir(p)' = Dir(p)
  BY <1>1, <1>9, <1>15, <1>19, <1>20 DEF Dir
<1>23. Made' = Made /\ Made \in Nat
  BY <1>2, MadeType DEF Made, IInv
<1>24. QueuesInv'
  <2>1. /\ pipe'[e].inpipe = NULL <=> State(e)' = "gone"
        /\ pipe'[e].outpipe = NULL <=> State(e)' \in Acked
        /\ pipe'[e].inpipe <= Made' /\ pipe'[e].outpipe <= Made'
        /\ ChainOK(pipe'[p].inpipe, pipe'[e].outpipe, HArgs(cmds'[e]))
        /\ Dir(e)' \cap Dir(p)' = {}
    BY <1>9, <1>15, <1>19, <1>21, <1>23 DEF ChainOK, Acked, NULL
  <2>2. /\ pipe'[p].inpipe = NULL <=> State(p)' = "gone"
        /\ pipe'[p].outpipe = NULL <=> State(p)' \in Acked
        /\ pipe'[p].inpipe <= Made' /\ pipe'[p].outpipe <= Made'
        /\ ChainOK(pipe'[e].inpipe, pipe'[p].outpipe, HArgs(cmds'[p]))
        /\ Dir(p)' \cap Dir(e)' = {}
    BY <1>6, <1>10, <1>15, <1>19, <1>20, <1>21, <1>23 DEF ChainOK, NULL
  <2>3. \A j \in UpipeId : upipe[j].live <=> j \in Dir(e) \/ j \in Dir(p)
    BY <1>1 DEF IInv, QueuesInv
  <2>4. \A j \in UpipeId : upipe'[j].live <=> \E d \in End : j \in Dir(d)'
    BY <1>1, <1>12, <1>13, <1>20, <1>21, <1>22, <2>3
  <2> QED
    BY <1>1, <2>1, <2>2, <2>4 DEF QueuesInv
<1>25. SleepInv'
  <2>1. ~Readable(e)' /\ ~Readable(p)'
    BY <1>6, <1>15 DEF Readable, Acked
  <2>2. \A j \in UpipeId : upipe'[j].asleep => upipe'[j].flushed = <<>>
    BY <1>12, <1>13 DEF IInv, SleepInv
  <2> QED
    BY <1>1, <2>1, <2>2 DEF SleepInv
<1> QED
  BY <1>14, <1>18, <1>24, <1>25 DEF IInv
-----------------------------------------------------------------------------
(* The theorems *)

\* Every step of the pipe preserves the invariant.
LEMMA StepInv == IInv /\ [Next]_vars => IInv'
<1> SUFFICES ASSUME IInv, [Next]_vars PROVE IInv'
  OBVIOUS
<1>1. CASE UNCHANGED vars
  BY <1>1 DEF vars, IInv, TypeOK, TermInv, QueuesInv, SleepInv, Dir, Made, State, Readable
<1>2. ASSUME NEW e \in End, check_write(e) \/ write(e) \/ rollback(e) \/ set_hwms(e) PROVE IInv'
  BY <1>2, WriteStep
<1>3. ASSUME NEW e \in End, flush(e) PROVE IInv'
  BY <1>3, FlushStep
<1>4. ASSUME NEW e \in End, check_read(e) \/ read(e) PROVE IInv'
  BY <1>4, ReadStep
<1>5. ASSUME NEW e \in End, NEW delay \in Delays, terminate(e, delay) PROVE IInv'
  <2>1. delay \in BOOLEAN
    BY PipeAssumption
  <2> QED
    BY <1>5, <2>1, TerminateStep
<1>6. ASSUME NEW e \in End, hiccup(e) PROVE IInv'
  BY <1>6, HiccupStep
<1>7. ASSUME NEW e \in End, process_command(e) PROVE IInv'
  BY <1>7, ActivateStep, ProcessHiccup, ProcessPipeTerm, ProcessPipeTermAck DEF process_command
<1> QED
  BY <1>1, <1>2, <1>3, <1>4, <1>5, <1>6, <1>7 DEF Next

\* The invariant holds of the pair of pipe_t objects whatever the users of the two
\* ends do and however their commands are delayed.
THEOREM PipeInvariance == Spec => []IInv
<1> QED
  BY InitInv, StepInv, PTL DEF Spec

\* The handlers of pipe_t find their end in a state they accept, nothing deleted
\* is used and no lock-free pipe is leaked: for any watermarks, any messages, and
\* any number of hiccups and terminations.
THEOREM PipeNothingDangles == Spec => []NothingDangles
<1>1. IInv => NothingDangles
  <2> SUFFICES ASSUME IInv PROVE NothingDangles
    OBVIOUS
  <2>1. ValidCommands
    <3> SUFFICES ASSUME NEW e \in End, cmds[e] # <<>>
                 PROVE  /\ Head(cmds[e]).type = "pipe_term" =>
                             State(e) \in {"active", "delimiter_received", "term_req_sent1"}
                        /\ Head(cmds[e]).type = "pipe_term_ack" =>
                             State(e) \in {"term_req_sent1", "term_ack_sent", "term_req_sent2"}
                        /\ Head(cmds[e]).type = "hiccup" => pipe[e].outpipe # NULL
                        /\ Alive(e)
      BY DEF ValidCommands
    <3> DEFINE r == cmds[e]
    <3>1. r \in Seq(Command) /\ QueueOK(r) /\ r # <<>> /\ State(e) # "gone" /\ State(e) \in States
      BY EndFacts
    <3>2. \A t : Head(r).type = t => Has(r, t)
      <4> HIDE DEF r
      <4> QED
        BY <3>1, QTail
    <3>3. TermOK(State(e), State(peer(e)), r)
      BY DEF IInv, TermInv
    <3>4. Head(r).type = "hiccup" => pipe[e].outpipe # NULL
      <4>1. Head(r).type = "hiccup" => State(e) \notin Acked
        BY <3>2, <3>3 DEF TermOK, Begun, Acked
      <4> QED
        BY <4>1 DEF IInv, QueuesInv
    <3>5. Head(r).type = "pipe_term" => State(e) \in Begun
      BY <3>2, <3>3 DEF TermOK
    <3>6. Head(r).type = "pipe_term_ack" => State(e) \in {"term_req_sent1", "term_ack_sent", "term_req_sent2"}
      BY <3>1, <3>2, <3>3 DEF TermOK, Begun, Acked, States
    <3> QED
      BY <3>1, <3>4, <3>5, <3>6 DEF Alive, Begun
  <2>2. NoDangling
    <3>1. \A e \in End : ~Alive(e) => cmds[e] = <<>>
      BY EndFacts DEF Alive
    <3>2. \A e \in End : DOMAIN cmds[e] = 1..Len(cmds[e])
      BY EndFacts, LenProperties
    <3>3. \A e \in End, i \in UpipeId :
             (\E n \in DOMAIN cmds[e] : cmds[e][n].type = "hiccup" /\ cmds[e][n].arg = i) <=> i \in HArgs(cmds[e])
      BY <3>2 DEF HArgs
    <3>4. \A i \in UpipeId : i # NULL
      BY PipeAssumption DEF UpipeId, NULL
    <3>5. \A i \in UpipeId : upipe[i].live <=> \E e \in End : i \in Dir(e)
      BY DEF IInv, QueuesInv
    <3>6. \A i \in UpipeId, e \in End : i \in Dir(e) <=>
             pipe[e].inpipe = i \/ pipe[peer(e)].outpipe = i \/ i \in HArgs(cmds[peer(e)])
      BY <3>4 DEF Dir
    <3>7. \A i \in UpipeId : upipe[i].live <=>
             \E e \in End : pipe[e].inpipe = i \/ pipe[e].outpipe = i \/ i \in HArgs(cmds[e])
      BY <3>5, <3>6, Peers
    <3> QED
      BY <3>1, <3>3, <3>7 DEF NoDangling
  <2> QED
    BY <2>1, <2>2 DEF IInv, NothingDangles
<1> QED
  BY <1>1, PipeInvariance, PTL

\* A reader that found its inpipe empty and stopped reading, and whose inpipe now
\* holds something, has an activate_read on its way: the flush that returns false
\* and process_activate_read () never miss each other.
THEOREM PipeNoLostActivation == Spec => []NoLostActivation
<1>1. IInv => NoLostActivation
  <2> SUFFICES ASSUME IInv, NEW e \in End, Readable(e), ~pipe[e].in_active,
                      upipe[pipe[e].inpipe].flushed # <<>>
               PROVE  \E n \in DOMAIN cmds[e] : cmds[e][n].type = "activate_read"
    BY DEF NoLostActivation
  <2>1. pipe[e].inpipe \in UpipeId
    BY EndFacts DEF Readable
  <2>2. Has(cmds[e], "activate_read")
    BY <2>1 DEF IInv, SleepInv
  <2>3. DOMAIN cmds[e] = 1..Len(cmds[e])
    BY EndFacts, LenProperties
  <2> QED
    BY <2>2, <2>3 DEF Has
<1> QED
  BY <1>1, PipeInvariance, PTL
=============================================================================
