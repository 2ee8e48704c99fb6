--------------------------- MODULE PipeFlowProofs --------------------------
(***************************************************************************)
(* What passes through a pipe_t.                                           *)
(*                                                                         *)
(* The high watermark is a hard limit, for any watermarks, any bounds and  *)
(* any number of hiccups, as long as setsockopt () never lowers it below   *)
(* what is already in the queue.                                           *)
(*                                                                         *)
(* Messages come out whole and in the order in which they were written,    *)
(* for any watermarks, bounds and users.  Only a hiccup drops some, and    *)
(* the beginning of one that its writer has not finished.                  *)
(***************************************************************************)
EXTENDS PipeProofs
-----------------------------------------------------------------------------
(* The high watermark *)

\* set_hwms () lifts the limit or raises it.
NeverLowered == \A e \in Tuner \cap End, v \in NewHwm :
    HwmOf(v) = 0 \/ (Hwm[e] > 0 /\ Hwm[e] <= HwmOf(v))

Content(u) == u.flushed \o u.complete
Whole(q) == {n \in 1..Len(q) : IsWhole(q[n])}
Count(q) == Cardinality(Whole(q))

\* The reports of its progress that a reader sends grow, from what the writer has
\* been told to what the reader has read.
Reports(q, lo, hi) ==
    /\ \A n \in 1..Len(q) : q[n].type = "activate_write" => lo <= q[n].arg /\ q[n].arg <= hi
    /\ \A m, n \in 1..Len(q) : q[m].type = "activate_write" /\ q[n].type = "activate_write" /\ m < n
                                 => q[m].arg <= q[n].arg

\* Of the w messages written, r have been read and the others are in the pipe u,
\* or were taken out with it.
FilledOK(u, w, r) ==
    /\ \A n \in 1..Len(Content(u)) : Content(u)[n].kind # "delimiter"
    /\ r + Count(Content(u)) <= w

\* A writer that was told s of the r messages read has not written more than its
\* watermark h beyond them, when the watermark was not lowered.
CountersOK(w, s, h, r, q) == /\ s <= r /\ Reports(q, s, r)
                             /\ NeverLowered /\ h > 0 => w - s <= h

HwmEnd(e) ==
    /\ FilledOK(upipe[pipe[e].outpipe], pipe[e].msgs_written, pipe[peer(e)].msgs_read)
    /\ \A j \in HArgs(cmds[e]) : Content(upipe[j]) = <<>>
    /\ CountersOK(pipe[e].msgs_written, pipe[e].peers_msgs_read, pipe[e].hwm,
                  pipe[peer(e)].msgs_read, cmds[e])
    /\ calls[e].hwms = 0 => pipe[e].hwm = Hwm[e]

\* The parts of a message begun are not counted: they announce more.
Begins(q) == \A n \in 1..Len(q) : q[n].more /\ q[n].kind # "delimiter"

PartialInv == \A i \in UpipeId : Begins(upipe[i].partial)

HwmInv == PartialInv /\ \A e \in End : State(e) = "active" => HwmEnd(e)
-----------------------------------------------------------------------------
(* Counting the messages in a queue *)

\* The messages in a queue can be counted.
LEMMA WholeFinite == ASSUME NEW q \in Seq(Part) PROVE IsFiniteSet(Whole(q)) /\ Count(q) \in Nat
<1>1. Len(q) \in Nat
  BY LenProperties
<1>2. IsFiniteSet(1..Len(q))
  BY <1>1, FS_Interval
<1>3. Whole(q) \subseteq 1..Len(q)
  BY DEF Whole
<1>4. IsFiniteSet(Whole(q))
  BY <1>2, <1>3, FS_Subset
<1> QED
  BY <1>4, FS_CardinalityType DEF Count

\* One more part at the end, which counts if it is the last of a message.
LEMMA CountAppend ==
    ASSUME NEW q \in Seq(Part), NEW m \in Part
    PROVE  Count(Append(q, m)) = IF IsWhole(m) THEN Count(q) + 1 ELSE Count(q)
<1> DEFINE r == Append(q, m)
           n == Len(q)
<1>1. /\ Len(r) = n + 1 /\ n \in Nat /\ (\A i \in 1..n : r[i] = q[i]) /\ r[n + 1] = m
  BY AppendProperties, LenProperties
<1>2. IsFiniteSet(Whole(q)) /\ n + 1 \notin Whole(q)
  <2>1. IsFiniteSet(Whole(q))
    BY WholeFinite
  <2>2. n + 1 \notin 1..n
    BY <1>1
  <2> QED
    BY <2>1, <2>2 DEF Whole
<1> HIDE DEF r
<1>3. Whole(r) = IF IsWhole(m) THEN Whole(q) \cup {n + 1} ELSE Whole(q)
  <2>1. \A i \in 1..(n + 1) : i = n + 1 \/ i \in 1..n
    BY <1>1
  <2>2. Whole(r) = {i \in 1..n : IsWhole(q[i])} \cup {i \in {n + 1} : IsWhole(m)}
    BY <1>1, <2>1 DEF Whole
  <2> QED
    BY <2>2 DEF Whole
<1>4. Cardinality(Whole(q) \cup {n + 1}) = Cardinality(Whole(q)) + 1
  BY <1>2, FS_AddElement
<1> QED
  BY <1>3, <1>4 DEF Count, r

\* Parts of a message begun do not count.
LEMMA CountPartial ==
    ASSUME NEW q \in Seq(Part), NEW s \in Seq(Part), Begins(s)
    PROVE  Count(q \o s) = Count(q)
<1> DEFINE r == q \o s
<1>1. /\ r \in Seq(Part) /\ Len(r) = Len(q) + Len(s) /\ Len(q) \in Nat /\ Len(s) \in Nat
      /\ \A i \in 1..Len(q) : r[i] = q[i]
      /\ \A i \in (Len(q) + 1)..(Len(q) + Len(s)) : r[i] = s[i - Len(q)] /\ i - Len(q) \in 1..Len(s)
  <2>1. /\ r \in Seq(Part) /\ Len(r) = Len(q) + Len(s)
        /\ \A i \in 1..(Len(q) + Len(s)) : r[i] = IF i <= Len(q) THEN q[i] ELSE s[i - Len(q)]
    BY ConcatProperties
  <2>2. Len(q) \in Nat /\ Len(s) \in Nat
    BY LenProperties
  <2> HIDE DEF r
  <2> QED
    BY <2>1, <2>2
<1>2. \A i \in 1..Len(r) : i \in 1..Len(q) \/ (i \in (Len(q) + 1)..(Len(q) + Len(s)) /\ ~IsWhole(r[i]))
  <2> SUFFICES ASSUME NEW i \in 1..Len(r), i \notin 1..Len(q)
               PROVE  i \in (Len(q) + 1)..(Len(q) + Len(s)) /\ ~IsWhole(r[i])
    OBVIOUS
  <2>1. i \in (Len(q) + 1)..(Len(q) + Len(s))
    BY <1>1
  <2> QED
    BY <1>1, <2>1 DEF IsWhole, Begins
<1> HIDE DEF r
<1>3. \A i \in 1..Len(q) : i \in 1..Len(r)
  BY <1>1
<1>4. Whole(r) = Whole(q)
  BY <1>1, <1>2, <1>3 DEF Whole
<1> QED
  BY <1>4 DEF Count, r

\* What is left when the first d parts are taken out; one of them, at k, may count.
LEMMA CountSuffix ==
    ASSUME NEW q \in Seq(Part), NEW r \in Seq(Part), NEW d \in Nat,
           \A n \in 1..Len(r) : n + d \in 1..Len(q) /\ r[n] = q[n + d]
    PROVE  /\ Count(r) <= Count(q)
           /\ \A k \in 1..Len(q) : k <= d /\ IsWhole(q[k]) => Count(r) + 1 <= Count(q)
<1> DEFINE f == [n \in Whole(r) |-> n + d]
<1>1. ASSUME NEW T, IsFiniteSet(T), \A n \in Whole(r) : n + d \in T
      PROVE  Cardinality(Whole(r)) <= Cardinality(T)
  <2>1. Whole(r) \subseteq Nat
    <3>1. Len(r) \in Nat
      BY LenProperties
    <3> QED
      BY <3>1 DEF Whole
  <2>2. f \in [Whole(r) -> T]
    BY <1>1
  <2>3. \A a, b \in Whole(r) : f[a] = f[b] => a = b
    BY <2>1
  <2>4. f \in Injection(Whole(r), T)
    BY <2>2, <2>3 DEF Injection, IsInjective
  <2> HIDE DEF f
  <2> QED
    BY <1>1, <2>4, FS_Injection
<1>2. \A n \in Whole(r) : n + d \in Whole(q)
  BY DEF Whole
<1>3. IsFiniteSet(Whole(q)) /\ Count(q) \in Nat /\ Count(r) \in Nat
  BY WholeFinite
<1>4. Count(r) <= Count(q)
  BY <1>1, <1>2, <1>3 DEF Count
<1>5. ASSUME NEW k \in 1..Len(q), k <= d /\ IsWhole(q[k]) PROVE Count(r) + 1 <= Count(q)
  <2>1. k \in Whole(q) /\ k \in Nat
    <3>1. Len(q) \in Nat
      BY LenProperties
    <3> QED
      BY <1>5, <3>1 DEF Whole
  <2>2. IsFiniteSet(Whole(q) \ {k}) /\ Cardinality(Whole(q) \ {k}) = Count(q) - 1
    BY <1>3, <2>1, FS_RemoveElement DEF Count
  <2>3. \A n \in Whole(r) : n + d # k
    <3>1. Len(r) \in Nat
      BY LenProperties
    <3> QED
      BY <1>5, <2>1, <3>1 DEF Whole
  <2>4. \A n \in Whole(r) : n + d \in Whole(q) \ {k}
    BY <1>2, <2>3
  <2>5. Count(r) <= Count(q) - 1
    BY <1>1, <2>2, <2>4 DEF Count
  <2> QED
    BY <1>3, <2>5
<1> QED
  BY <1>4, <1>5
-----------------------------------------------------------------------------
(* Reports *)

\* One more report, with the newest count.
LEMMA ReportsAppend ==
    ASSUME NEW q \in Seq(Command), NEW c \in Command, NEW lo \in Int, NEW hi \in Int, NEW up \in Int,
           lo <= hi, hi <= up, Reports(q, lo, hi), c.type = "activate_write" => c.arg = up
    PROVE  Reports(Append(q, c), lo, up)
<1> DEFINE r == Append(q, c)
           n == Len(q)
<1>1. /\ Len(r) = n + 1 /\ n \in Nat /\ (\A i \in 1..n : r[i] = q[i]) /\ r[n + 1] = c
  BY AppendProperties, LenProperties
<1>2. \A i \in 1..Len(r) : i = n + 1 \/ i \in 1..n
  BY <1>1
<1>3. \A i \in 1..n : q[i].arg \in Int
  <2>1. \A i \in 1..n : q[i] \in Command
    BY ElementOfSeq
  <2> QED
    BY <2>1 DEF Command
<1> HIDE DEF r
<1>4. \A i \in 1..Len(r) : r[i].type = "activate_write" => lo <= r[i].arg /\ r[i].arg <= up
  BY <1>1, <1>2, <1>3 DEF Reports
<1>5. \A i, j \in 1..Len(r) : r[i].type = "activate_write" /\ r[j].type = "activate_write" /\ i < j
                                => r[i].arg <= r[j].arg
  <2> SUFFICES ASSUME NEW i \in 1..Len(r), NEW j \in 1..Len(r),
                      r[i].type = "activate_write" /\ r[j].type = "activate_write" /\ i < j
               PROVE  r[i].arg <= r[j].arg
    OBVIOUS
  <2>1. i \in 1..n
    BY <1>1
  <2>2. CASE j = n + 1
    BY <1>1, <1>3, <2>1, <2>2 DEF Reports
  <2>3. CASE j \in 1..n
    BY <1>1, <2>1, <2>3 DEF Reports
  <2> QED
    BY <1>2, <2>2, <2>3
<1> QED
  BY <1>4, <1>5 DEF Reports, r

\* The first report is taken.
LEMMA ReportsTail ==
    ASSUME NEW q \in Seq(Command), q # <<>>, NEW lo \in Int, NEW hi \in Int, Reports(q, lo, hi)
    PROVE  /\ Reports(Tail(q), lo, hi)
           /\ Head(q).type = "activate_write" =>
                lo <= Head(q).arg /\ Head(q).arg <= hi /\ Reports(Tail(q), Head(q).arg, hi)
<1> DEFINE r == Tail(q)
           n == Len(q)
<1>1. /\ n \in Nat /\ n >= 1 /\ Len(r) = n - 1 /\ Head(q) = q[1] /\ 1 \in 1..n
      /\ \A i \in 1..(n - 1) : r[i] = q[i + 1] /\ i + 1 \in 1..n
  <2>1. n \in Nat /\ n >= 1
    BY EmptySeq, LenProperties
  <2>2. Len(r) = n - 1 /\ \A i \in 1..Len(r) : r[i] = q[i + 1]
    BY HeadTailProperties
  <2>3. Head(q) = q[1]
    BY DEF Head
  <2> QED
    BY <2>1, <2>2, <2>3
<1>2. \A i \in 1..(n - 1) : r[i].type = "activate_write" => lo <= r[i].arg /\ r[i].arg <= hi
  BY <1>1 DEF Reports
<1>3. ASSUME NEW i \in 1..(n - 1), NEW j \in 1..(n - 1),
             r[i].type = "activate_write" /\ r[j].type = "activate_write" /\ i < j
      PROVE  r[i].arg <= r[j].arg
  <2>1. i + 1 \in 1..n /\ j + 1 \in 1..n /\ i + 1 < j + 1 /\ r[i] = q[i + 1] /\ r[j] = q[j + 1]
    BY <1>1, <1>3
  <2> QED
    BY <1>3, <2>1 DEF Reports
<1>4. ASSUME Head(q).type = "activate_write", NEW i \in 1..(n - 1), r[i].type = "activate_write"
      PROVE  Head(q).arg <= r[i].arg
  <2>1. i + 1 \in 1..n /\ 1 < i + 1 /\ r[i] = q[i + 1]
    BY <1>1
  <2> QED
    BY <1>1, <1>4, <2>1 DEF Reports
<1>5. Head(q).type = "activate_write" => lo <= Head(q).arg /\ Head(q).arg <= hi
  BY <1>1 DEF Reports
<1> HIDE DEF r
<1> QED
  BY <1>1, <1>2, <1>3, <1>4, <1>5 DEF Reports, r
-----------------------------------------------------------------------------
(* One direction of the pair *)

\* What an active end writes, now and after the hiccups on their way to it, is what
\* its peer reads, and apart from what it reads itself.
LEMMA OwnPipes ==
    ASSUME IInv, NEW d \in End, State(d) = "active"
    PROVE  /\ pipe[d].outpipe \in UpipeId /\ pipe[d].outpipe \in Dir(peer(d))
           /\ HArgs(cmds[d]) \subseteq UpipeId /\ HArgs(cmds[d]) \subseteq Dir(peer(d))
           /\ pipe[d].outpipe \notin HArgs(cmds[d])
           /\ Dir(d) \cap Dir(peer(d)) = {}
           /\ State(peer(d)) \in Begun /\ State(peer(d)) # "gone"
           /\ pipe[peer(d)].inpipe = pipe[d].outpipe \/ pipe[peer(d)].inpipe \in HArgs(cmds[d])
<1> DEFINE p == peer(d)
           o == pipe[d].outpipe
           i == pipe[p].inpipe
           H == HArgs(cmds[d])
<1>1. p \in End /\ peer(p) = d
  BY Peers
<1>2. TermOK(State(d), State(p), cmds[d])
  BY DEF IInv, TermInv
<1>3. State(p) \in Begun /\ State(p) # "gone" /\ State(d) \notin Acked
  BY <1>2 DEF TermOK, Begun, Acked
<1>4. o \in UpipeId /\ i \in UpipeId /\ cmds[d] \in Seq(Command)
  BY <1>1, <1>3, EndFacts
<1>5. ChainOK(i, o, H) /\ Dir(d) \cap Dir(p) = {}
  BY DEF IInv, QueuesInv
<1>6. H \subseteq Nat /\ UpipeId \subseteq Nat /\ NULL \notin UpipeId
  BY <1>4, HArgsNat, PipeAssumption DEF UpipeId, NULL
<1>7. \A a \in H : a \in UpipeId /\ a # o
  <2> HIDE DEF H
  <2>1. \A a \in H : a \in Nat /\ o < a /\ a <= i
    BY <1>5, <1>6 DEF ChainOK
  <2>2. \A x \in UpipeId, y \in UpipeId : \A z \in Nat : x < z /\ z <= y => z \in UpipeId /\ z # x
    BY PipeAssumption DEF UpipeId
  <2> HIDE DEF o, i
  <2> QED
    BY <1>4, <2>1, <2>2
<1>8. o \in Dir(p) /\ H \subseteq Dir(p)
  BY <1>1, <1>4, <1>6, <1>7 DEF Dir
<1>9. i = o \/ i \in H
  BY <1>4, <1>5, <1>6 DEF ChainOK
<1> QED
  BY <1>3, <1>4, <1>5, <1>7, <1>8, <1>9

\* What is in a pipe is a sequence of parts.
LEMMA ContentType == ASSUME NEW u \in Upipe
                     PROVE  Content(u) \in Seq(Part) /\ (Content(u) = <<>> <=> u.flushed = <<>> /\ u.complete = <<>>)
<1>1. u.flushed \in Seq(Part) /\ u.complete \in Seq(Part)
  BY DEF Upipe
<1>2. Content(u) \in Seq(Part) /\ Len(Content(u)) = Len(u.flushed) + Len(u.complete)
  BY <1>1, ConcatProperties DEF Content
<1>3. Len(u.flushed) \in Nat /\ Len(u.complete) \in Nat
  BY <1>1, LenProperties
<1>4. /\ Content(u) = <<>> <=> Len(Content(u)) = 0
      /\ u.flushed = <<>> <=> Len(u.flushed) = 0
      /\ u.complete = <<>> <=> Len(u.complete) = 0
  BY <1>1, <1>2, EmptySeq
<1>5. Len(Content(u)) = 0 <=> Len(u.flushed) = 0 /\ Len(u.complete) = 0
  <2>1. \A a, b \in Nat : a + b = 0 <=> a = 0 /\ b = 0
    OBVIOUS
  <2> QED
    BY <1>2, <1>3, <2>1, Zenon
<1> QED
  BY <1>2, <1>4, <1>5, Zenon

\* The counters of an active end are numbers.
LEMMA Counters ==
    ASSUME IInv, NEW d \in End
    PROVE  /\ pipe[d].msgs_written \in Int /\ pipe[d].peers_msgs_read \in Nat /\ pipe[d].hwm \in Nat
           /\ pipe[d].msgs_read \in Nat /\ pipe[peer(d)].msgs_read \in Nat
<1>1. pipe[d] \in PipeObject /\ pipe[peer(d)] \in PipeObject
  BY Peers DEF IInv, TypeOK
<1> QED
  BY <1>1 DEF PipeObject

\* A step that leaves the writer, what it wrote and what it will be told alone.
LEMMA HwmFrame ==
    ASSUME IInv, NEW d \in End, State(d) = "active", HwmEnd(d),
           pipe'[d].outpipe = pipe[d].outpipe, pipe'[d].msgs_written = pipe[d].msgs_written,
           pipe'[d].peers_msgs_read = pipe[d].peers_msgs_read, pipe'[d].hwm = pipe[d].hwm,
           pipe'[peer(d)].msgs_read = pipe[peer(d)].msgs_read, calls'[d].hwms = calls[d].hwms,
           \A j \in UpipeId : j \in Dir(peer(d)) => Content(upipe'[j]) = Content(upipe[j]),
           HArgs(cmds'[d]) \subseteq HArgs(cmds[d]),
           \A lo, hi \in Int : lo <= hi /\ Reports(cmds[d], lo, hi) => Reports(cmds'[d], lo, hi)
    PROVE  HwmEnd(d)'
<1>1. /\ pipe[d].outpipe \in UpipeId /\ pipe[d].outpipe \in Dir(peer(d))
      /\ HArgs(cmds[d]) \subseteq UpipeId /\ HArgs(cmds[d]) \subseteq Dir(peer(d))
  BY OwnPipes
<1>2. FilledOK(upipe[pipe[d].outpipe], pipe[d].msgs_written, pipe[peer(d)].msgs_read)'
  BY <1>1 DEF HwmEnd, FilledOK
<1>3. \A j \in HArgs(cmds'[d]) : Content(upipe'[j]) = <<>>
  BY <1>1 DEF HwmEnd
<1>4. pipe[d].peers_msgs_read \in Int /\ pipe[peer(d)].msgs_read \in Int
  BY Counters
<1>5. CountersOK(pipe[d].msgs_written, pipe[d].peers_msgs_read, pipe[d].hwm,
                 pipe[peer(d)].msgs_read, cmds[d])'
  BY <1>4 DEF HwmEnd, CountersOK
<1> QED
  BY <1>2, <1>3, <1>5 DEF HwmEnd

\* The writer looks at the watermark, withdraws what it has begun, or is given
\* another watermark.
LEMMA HwmWriterStep ==
    ASSUME IInv, HwmInv, NEW e \in End, check_write(e) \/ rollback(e) \/ set_hwms(e)
    PROVE  HwmInv'
<1>1. /\ upipe \in [UpipeId -> Upipe] /\ pipe \in [End -> PipeObject] /\ pipe[e] \in PipeObject
      /\ calls \in [End -> [terms : Nat, hiccups : Nat, hwms : Nat]]
  BY DEF IInv, TypeOK
<1>2. UNCHANGED cmds
  BY DEF check_write, rollback, set_hwms
<1>3. /\ \A j \in UpipeId : upipe'[j].flushed = upipe[j].flushed /\ upipe'[j].complete = upipe[j].complete
      /\ PartialInv'
  <2>1. CASE rollback(e)
    <3>1. /\ upipe' = [upipe EXCEPT ![pipe[e].outpipe] = [@ EXCEPT !.partial = <<>>]]
      BY <2>1 DEF rollback
    <3>2. \A u \in Upipe : /\ [u EXCEPT !.partial = <<>>].flushed = u.flushed
                           /\ [u EXCEPT !.partial = <<>>].complete = u.complete
                           /\ [u EXCEPT !.partial = <<>>].partial = <<>>
      BY DEF Upipe
    <3>3. \A j \in UpipeId : /\ upipe'[j].flushed = upipe[j].flushed /\ upipe'[j].complete = upipe[j].complete
                             /\ upipe'[j].partial \in {<<>>, upipe[j].partial}
      BY <1>1, <3>1, <3>2
    <3>4. Begins(<<>>)
      BY DEF Begins
    <3> QED
      BY <3>3, <3>4 DEF HwmInv, PartialInv
  <2>2. CASE check_write(e) \/ set_hwms(e)
    <3>1. upipe' = upipe
      BY <2>2 DEF check_write, set_hwms
    <3> QED
      BY <3>1 DEF HwmInv, PartialInv
  <2> QED
    BY <2>1, <2>2
<1>4. \A j \in UpipeId : Content(upipe'[j]) = Content(upipe[j])
  BY <1>3 DEF Content
<1>5. \A d \in End : /\ State(d)' = State(d) /\ pipe'[d].outpipe = pipe[d].outpipe
                      /\ pipe'[d].msgs_written = pipe[d].msgs_written /\ pipe'[d].msgs_read = pipe[d].msgs_read
                      /\ pipe'[d].peers_msgs_read = pipe[d].peers_msgs_read
  <2>1. CASE check_write(e)
    BY <1>1, <2>1 DEF check_write, State, PipeObject
  <2>2. CASE rollback(e)
    BY <2>2 DEF rollback, State
  <2>3. CASE set_hwms(e)
    <3>1. PICK v \in NewHwm : pipe' = [pipe EXCEPT ![e].lwm = compute_lwm(HwmOf(v)), ![e].hwm = HwmOf(v)]
      BY <2>3 DEF set_hwms
    <3> DEFINE q == [pipe[e] EXCEPT !.lwm = compute_lwm(HwmOf(v)), !.hwm = HwmOf(v)]
    <3>2. pipe' = [pipe EXCEPT ![e] = q]
      BY <1>1, <3>1
    <3>3. /\ q.state = pipe[e].state /\ q.outpipe = pipe[e].outpipe /\ q.msgs_written = pipe[e].msgs_written
          /\ q.msgs_read = pipe[e].msgs_read /\ q.peers_msgs_read = pipe[e].peers_msgs_read
      BY <1>1 DEF PipeObject
    <3> HIDE DEF q
    <3> QED
      BY <1>1, <3>2, <3>3 DEF State
  <2> QED
    BY <2>1, <2>2, <2>3
<1>6. ASSUME NEW d \in End, State(d) = "active",
             pipe'[d].hwm = pipe[d].hwm, calls'[d].hwms = calls[d].hwms
      PROVE  HwmEnd(d)'
  <2>1. HwmEnd(d) /\ peer(d) \in End
    BY <1>6, Peers DEF HwmInv
  <2> QED
    BY <1>2, <1>4, <1>5, <1>6, <2>1, HwmFrame
<1>7. ASSUME NEW d \in End, State(d)' = "active" PROVE HwmEnd(d)'
  <2>1. State(d) = "active"
    BY <1>5, <1>7
  <2>2. CASE d # e \/ ~set_hwms(e)
    <3>1. pipe'[d].hwm = pipe[d].hwm /\ calls'[d].hwms = calls[d].hwms
      <4>1. CASE check_write(e)
        BY <1>1, <4>1 DEF check_write, PipeObject
      <4>2. CASE rollback(e)
        BY <4>2 DEF rollback
      <4>3. CASE d # e /\ set_hwms(e)
        BY <1>1, <4>3 DEF set_hwms
      <4> QED
        BY <2>2, <4>1, <4>2, <4>3
    <3> QED
      BY <1>6, <2>1, <3>1
  <2>3. CASE d = e /\ set_hwms(e)
    <3>1. PICK v \in NewHwm : pipe' = [pipe EXCEPT ![e].lwm = compute_lwm(HwmOf(v)), ![e].hwm = HwmOf(v)]
      BY <2>3 DEF set_hwms
    <3>2. e \in Tuner /\ calls[e].hwms = 0 /\ calls' = [calls EXCEPT ![e].hwms = 1]
      BY <2>3 DEF set_hwms
    <3>3. pipe'[e].hwm = HwmOf(v)
      BY <1>1, <3>1 DEF PipeObject
    <3>4. calls'[e].hwms = 1
      BY <1>1, <3>2
    <3>5. HwmEnd(e) /\ pipe[e].hwm = Hwm[e]
      BY <2>1, <2>3, <3>2 DEF HwmInv, HwmEnd
    <3>6. NeverLowered => HwmOf(v) = 0 \/ (Hwm[e] > 0 /\ Hwm[e] <= HwmOf(v))
      BY <3>2 DEF NeverLowered
    <3>7. HwmOf(v) \in Int
      BY PipeAssumption DEF HwmOf
    <3>8. pipe[e].msgs_written \in Int /\ pipe[e].peers_msgs_read \in Int /\ Hwm[e] \in Int
      BY <3>5, Counters
    <3>9. NeverLowered /\ HwmOf(v) > 0 => pipe[e].msgs_written - pipe[e].peers_msgs_read <= HwmOf(v)
      BY <3>5, <3>6, <3>7, <3>8 DEF HwmEnd, CountersOK
    <3>10. pipe[e].outpipe \in UpipeId /\ HArgs(cmds[e]) \subseteq UpipeId /\ peer(e) \in End
      BY <2>1, <2>3, OwnPipes, Peers
    <3>11. FilledOK(upipe[pipe[e].outpipe], pipe[e].msgs_written, pipe[peer(e)].msgs_read)'
      BY <1>4, <1>5, <3>5, <3>10 DEF HwmEnd, FilledOK
    <3>12. \A j \in HArgs(cmds'[e]) : Content(upipe'[j]) = <<>>
      BY <1>2, <1>4, <3>5, <3>10 DEF HwmEnd
    <3>13. CountersOK(pipe[e].msgs_written, pipe[e].peers_msgs_read, pipe[e].hwm,
                      pipe[peer(e)].msgs_read, cmds[e])'
      BY <1>2, <1>5, <3>3, <3>5, <3>9, <3>10 DEF HwmEnd, CountersOK
    <3> QED
      BY <2>3, <3>4, <3>11, <3>12, <3>13 DEF HwmEnd
  <2> QED
    BY <2>2, <2>3
<1> QED
  BY <1>3, <1>7 DEF HwmInv
-----------------------------------------------------------------------------
(* Writing and flushing *)

\* Appending to the second of two sequences appends to both.
LEMMA AppendToConcat ==
    ASSUME NEW f \in Seq(Part), NEW c \in Seq(Part), NEW s \in Seq(Part), NEW m \in Part
    PROVE  f \o (c \o Append(s, m)) = Append((f \o c) \o s, m)
<1>1. <<m>> \in Seq(Part)
  OBVIOUS
<1>2. c \o s \in Seq(Part) /\ f \o c \in Seq(Part) /\ (f \o c) \o s \in Seq(Part)
  BY ConcatProperties
<1>3. Append(s, m) = s \o <<m>> /\ Append((f \o c) \o s, m) = ((f \o c) \o s) \o <<m>>
  BY <1>2, AppendIsConcat
<1>4. c \o (s \o <<m>>) = (c \o s) \o <<m>>
  BY <1>1, ConcatAssociative
<1>5. f \o ((c \o s) \o <<m>>) = (f \o (c \o s)) \o <<m>>
  BY <1>1, <1>2, ConcatAssociative
<1>6. f \o (c \o s) = (f \o c) \o s
  BY ConcatAssociative, SMTT(40)
<1> QED
  BY <1>3, <1>4, <1>5, <1>6

\* The part that is written last comes behind all that is in the pipe.
Behind(f, c, z, m) == f \o (c \o Append(z, m)) = Append((f \o c) \o z, m)
LEMMA WrittenBehind == \A f, c, z \in Seq(Part), m \in Part : Behind(f, c, z, m)
<1> QED
  BY AppendToConcat DEF Behind

\* A sequence without a delimiter stays so when a message is written behind it.
LEMMA NoDelimiter ==
    ASSUME NEW q \in Seq(Part), NEW s \in Seq(Part), Begins(s),
           \A n \in 1..Len(q) : q[n].kind # "delimiter"
    PROVE  \A n \in 1..Len(q \o s) : (q \o s)[n].kind # "delimiter"
<1> DEFINE r == q \o s
<1>1. /\ Len(r) = Len(q) + Len(s)
      /\ \A i \in 1..(Len(q) + Len(s)) : r[i] = IF i <= Len(q) THEN q[i] ELSE s[i - Len(q)]
  BY ConcatProperties
<1>2. Len(q) \in Nat /\ Len(s) \in Nat
  BY LenProperties
<1> HIDE DEF r
<1>3. ASSUME NEW n \in 1..Len(r) PROVE r[n].kind # "delimiter"
  <2>1. CASE n <= Len(q)
    BY <1>1, <1>2, <2>1
  <2>2. CASE n > Len(q)
    <3>1. n - Len(q) \in 1..Len(s) /\ r[n] = s[n - Len(q)]
      BY <1>1, <1>2, <2>2
    <3> QED
      BY <3>1 DEF Begins
  <2> QED
    BY <1>1, <1>2, <2>1, <2>2
<1> QED
  BY <1>3 DEF r

\* What a write adds: nothing as long as the message goes on, then one message.
LEMMA ContentWritten ==
    ASSUME NEW u \in Upipe, NEW m \in Part, Begins(u.partial), m.kind # "delimiter",
           \A n \in 1..Len(Content(u)) : Content(u)[n].kind # "delimiter"
    PROVE  /\ Begins(Written(u, m).partial)
           /\ Count(Content(Written(u, m))) = IF m.more THEN Count(Content(u)) ELSE Count(Content(u)) + 1
           /\ \A n \in 1..Len(Content(Written(u, m))) : Content(Written(u, m))[n].kind # "delimiter"
<1>1. u.flushed \in Seq(Part) /\ u.complete \in Seq(Part) /\ u.partial \in Seq(Part) /\ <<>> \in Seq(Part)
  BY DEF Upipe
<1>2. CASE m.more
  <2>1. /\ Written(u, m).partial = Append(u.partial, m)
        /\ Content(Written(u, m)) = Content(u)
    BY <1>2 DEF Written, Content, Upipe
  <2> DEFINE r == Append(u.partial, m)
             l == Len(u.partial)
  <2>2. Len(r) = l + 1 /\ l \in Nat /\ (\A i \in 1..l : r[i] = u.partial[i]) /\ r[l + 1] = m
    BY <1>1, AppendProperties, LenProperties
  <2>3. \A i \in 1..Len(r) : i = l + 1 \/ i \in 1..l
    BY <2>2
  <2> HIDE DEF r
  <2>4. Begins(r)
    BY <1>2, <2>2, <2>3 DEF Begins
  <2> QED
    BY <1>2, <2>1, <2>4 DEF r
<1>3. CASE ~m.more
  <2> DEFINE q == Content(u)
             s == q \o u.partial
             r == Append(s, m)
  <2>1. q \in Seq(Part) /\ s \in Seq(Part) /\ q = u.flushed \o u.complete
    BY <1>1, ContentType, ConcatProperties DEF Content
  <2>2. Content(Written(u, m)) = r
    <3>1. Content(Written(u, m)) = u.flushed \o (u.complete \o Append(u.partial, m))
      <4> DEFINE x == u.complete \o Append(u.partial, m)
      <4>1. Written(u, m) = [u EXCEPT !.complete = x, !.partial = <<>>]
        BY <1>3 DEF Written
      <4> HIDE DEF x
      <4>2. Written(u, m).flushed = u.flushed /\ Written(u, m).complete = x
        BY <4>1 DEF Upipe
      <4> QED
        BY <4>2 DEF Content, x
    <3>2. Behind(u.flushed, u.complete, u.partial, m)
      BY <1>1, WrittenBehind
    <3> QED
      BY <3>1, <3>2 DEF Behind, Content
  <2>3. Written(u, m).partial = <<>>
    BY <1>3 DEF Written, Upipe
  <2>4. Begins(<<>>)
    BY DEF Begins
  <2> HIDE DEF q
  <2>5. Count(s) = Count(q)
    BY <1>1, <2>1, CountPartial
  <2>6. IsWhole(m)
    BY <1>3 DEF IsWhole
  <2>7. Count(r) = Count(q) + 1
    <3> HIDE DEF s
    <3> QED
      BY <2>1, <2>5, <2>6, CountAppend
  <2>8. \A n \in 1..Len(s) : s[n].kind # "delimiter"
    <3>1. \A n \in 1..Len(q) : q[n].kind # "delimiter"
      BY DEF q
    <3> QED
      BY <1>1, <2>1, <3>1, NoDelimiter
  <2>9. \A n \in 1..Len(r) : r[n].kind # "delimiter"
    <3> HIDE DEF s
    <3>1. Len(r) = Len(s) + 1 /\ Len(s) \in Nat /\ (\A i \in 1..Len(s) : r[i] = s[i]) /\ r[Len(s) + 1] = m
      BY <2>1, AppendProperties, LenProperties
    <3>2. \A i \in 1..Len(r) : i = Len(s) + 1 \/ i \in 1..Len(s)
      BY <3>1
    <3> HIDE DEF r
    <3> QED
      BY <2>8, <3>1, <3>2
  <2> HIDE DEF r
  <2> QED
    BY <1>3, <2>2, <2>3, <2>4, <2>7, <2>9 DEF q
<1> QED
  BY <1>2, <1>3

\* write () fills at most the room that check_hwm () found.
LEMMA HwmWrite == ASSUME IInv, HwmInv, NEW e \in End, write(e) PROVE HwmInv'
<1> DEFINE p == peer(e)
           o == pipe[e].outpipe
           u == upipe[o]
<1>1. /\ upipe \in [UpipeId -> Upipe] /\ pipe \in [End -> PipeObject] /\ pipe[e] \in PipeObject
  BY DEF IInv, TypeOK
<1>2. p \in End /\ p # e /\ peer(p) = e /\ \A d \in End : d = e \/ d = p
  BY Peers
<1>3. State(e) = "active" /\ check_hwm(pipe[e]) /\ UNCHANGED <<cmds, calls>>
  BY DEF write
<1>4. PICK m \in NextParts(e) :
         /\ upipe' = [upipe EXCEPT ![o] = Written(@, m)]
         /\ pipe' = [pipe EXCEPT ![e].msgs_written = IF m.more THEN @ ELSE @ + 1]
  BY DEF write
<1>5. m \in Part /\ m.kind # "delimiter"
  BY NextPartsType DEF IInv
<1>6. /\ o \in UpipeId /\ u \in Upipe /\ o \notin HArgs(cmds[e]) /\ HArgs(cmds[e]) \subseteq UpipeId
      /\ o \notin Dir(e)
  BY <1>1, <1>3, OwnPipes
<1>7. HwmEnd(e) /\ Begins(u.partial)
  BY <1>3, <1>6 DEF HwmInv, PartialInv
<1>8. /\ Begins(Written(u, m).partial)
      /\ Count(Content(Written(u, m))) = IF m.more THEN Count(Content(u)) ELSE Count(Content(u)) + 1
      /\ \A n \in 1..Len(Content(Written(u, m))) : Content(Written(u, m))[n].kind # "delimiter"
  <2>1. \A n \in 1..Len(Content(u)) : Content(u)[n].kind # "delimiter"
    BY <1>7 DEF HwmEnd, FilledOK
  <2> HIDE DEF u
  <2> QED
    BY <1>5, <1>6, <1>7, <2>1, ContentWritten
<1>9. \A j \in UpipeId : upipe'[j] = IF j = o THEN Written(u, m) ELSE upipe[j]
  BY <1>1, <1>4, <1>6
<1>10. PartialInv'
  BY <1>8, <1>9 DEF HwmInv, PartialInv
<1> DEFINE w == IF m.more THEN pipe[e].msgs_written ELSE pipe[e].msgs_written + 1
           q == [pipe[e] EXCEPT !.msgs_written = w]
<1>11. pipe' = [pipe EXCEPT ![e] = q]
  BY <1>1, <1>4
<1>12. /\ q.state = pipe[e].state /\ q.outpipe = o /\ q.msgs_written = w
       /\ q.msgs_read = pipe[e].msgs_read /\ q.peers_msgs_read = pipe[e].peers_msgs_read
       /\ q.hwm = pipe[e].hwm
  BY <1>1 DEF PipeObject
<1> HIDE DEF q
<1>13. /\ pipe'[p] = pipe[p] /\ State(p)' = State(p) /\ pipe'[e] = q /\ State(e)' = State(e)
  BY <1>1, <1>2, <1>11, <1>12 DEF State
<1>14. /\ pipe[e].msgs_written \in Int /\ pipe[e].peers_msgs_read \in Nat /\ pipe[e].hwm \in Nat
       /\ pipe[p].msgs_read \in Nat
  BY <1>3, Counters
<1>15. Count(Content(u)) \in Nat
  BY <1>6, ContentType, WholeFinite
<1>16. HwmEnd(e)'
  <2>1. FilledOK(upipe[pipe[e].outpipe], pipe[e].msgs_written, pipe[p].msgs_read)'
    <3>1. pipe[p].msgs_read + Count(Content(u)) <= pipe[e].msgs_written
      BY <1>7 DEF HwmEnd, FilledOK
    <3>2. pipe[p].msgs_read + Count(Content(Written(u, m))) <= w
      BY <1>8, <1>14, <1>15, <3>1
    <3> HIDE DEF w, u
    <3>3. FilledOK(Written(u, m), w, pipe[p].msgs_read)
      BY <1>8, <3>2 DEF FilledOK
    <3>4. upipe'[pipe'[e].outpipe] = Written(u, m) /\ pipe'[e].msgs_written = w
      BY <1>6, <1>9, <1>12, <1>13
    <3> QED
      BY <1>13, <3>3, <3>4
  <2>2. \A j \in HArgs(cmds'[e]) : Content(upipe'[j]) = <<>>
    BY <1>3, <1>6, <1>7, <1>9 DEF HwmEnd
  <2>3. NeverLowered /\ pipe[e].hwm > 0 => w - pipe[e].peers_msgs_read <= pipe[e].hwm
    BY <1>3, <1>7, <1>14 DEF HwmEnd, CountersOK, check_hwm
  <2> HIDE DEF w
  <2>4. CountersOK(pipe[e].msgs_written, pipe[e].peers_msgs_read, pipe[e].hwm, pipe[p].msgs_read, cmds[e])'
    BY <1>3, <1>7, <1>12, <1>13, <2>3 DEF HwmEnd, CountersOK
  <2>5. calls'[e].hwms = 0 => pipe'[e].hwm = Hwm[e]
    BY <1>3, <1>7, <1>12, <1>13 DEF HwmEnd
  <2> QED
    BY <2>1, <2>2, <2>4, <2>5 DEF HwmEnd
<1>17. ASSUME State(p)' = "active" PROVE HwmEnd(p)'
  <2>1. HwmEnd(p) /\ State(p) = "active"
    BY <1>2, <1>13, <1>17 DEF HwmInv
  <2>2. \A j \in UpipeId : j \in Dir(e) => Content(upipe'[j]) = Content(upipe[j])
    BY <1>6, <1>9
  <2> QED
    BY <1>2, <1>3, <1>12, <1>13, <2>1, <2>2, HwmFrame
<1> QED
  BY <1>2, <1>10, <1>16, <1>17 DEF HwmInv

\* An appended command that is no report leaves the reports as they are.
LEMMA QuietAppend ==
    ASSUME NEW q \in Seq(Command), NEW c \in Command, c.type # "activate_write"
    PROVE  \A lo, hi \in Int : lo <= hi /\ Reports(q, lo, hi) => Reports(Append(q, c), lo, hi)
<1> SUFFICES ASSUME NEW lo \in Int, NEW hi \in Int, lo <= hi, Reports(q, lo, hi) PROVE Reports(Append(q, c), lo, hi)
  OBVIOUS
<1>1. hi <= hi
  OBVIOUS
<1> QED
  BY <1>1, ReportsAppend

\* flush () moves messages within the pipe.
LEMMA HwmFlush == ASSUME IInv, HwmInv, NEW e \in End, flush(e) PROVE HwmInv'
<1> DEFINE p == peer(e)
           o == pipe[e].outpipe
           c == Cmd("activate_read")
           cs == IF FlushFails(upipe[o]) THEN <<c>> ELSE <<>>
<1>1. /\ upipe \in [UpipeId -> Upipe] /\ cmds \in [End -> Seq(Command)] /\ pipe[e] \in PipeObject
  BY DEF IInv, TypeOK
<1>2. p \in End /\ p # e /\ peer(p) = e /\ \A d \in End : d = e \/ d = p
  BY Peers
<1>3. /\ upipe' = [upipe EXCEPT ![o] = FlushedUpipe(@)] /\ Send(e, cs) /\ o # NULL
      /\ UNCHANGED <<pipe, calls>>
  BY DEF flush
<1>4. o \in UpipeId
  BY <1>1, <1>3 DEF PipeObject
<1>5. ASSUME NEW u \in Upipe PROVE Content(FlushedUpipe(u)) = Content(u) /\ FlushedUpipe(u).partial = u.partial
  <2>1. u.flushed \o u.complete \in Seq(Part)
    BY ConcatProperties DEF Upipe
  <2>2. (u.flushed \o u.complete) \o <<>> = u.flushed \o u.complete
    BY <2>1, ConcatEmptySeq
  <2> QED
    BY <2>2 DEF FlushedUpipe, Content, Upipe
<1>6. \A j \in UpipeId : Content(upipe'[j]) = Content(upipe[j]) /\ upipe'[j].partial = upipe[j].partial
  BY <1>1, <1>3, <1>4, <1>5
<1>7. PartialInv'
  BY <1>6 DEF HwmInv, PartialInv
<1>8. c \in Command /\ c.type = "activate_read"
  BY DEF Cmd, Command
<1>9. cmds'[e] = cmds[e] /\ cmds'[p] \in {cmds[p], Append(cmds[p], c)}
  <2>1. cmds[p] \in Seq(Command) /\ cmds'[e] = cmds[e] /\ cmds'[p] = cmds[p] \o cs
    BY <1>1, <1>2, <1>3 DEF Send
  <2>2. cmds[p] \o <<>> = cmds[p] /\ cmds[p] \o <<c>> = Append(cmds[p], c)
    BY <1>8, <2>1, Sends
  <2> QED
    BY <2>1, <2>2
<1> HIDE DEF c, cs
<1>10. /\ HArgs(cmds'[p]) \subseteq HArgs(cmds[p])
       /\ \A lo, hi \in Int : lo <= hi /\ Reports(cmds[p], lo, hi) => Reports(cmds'[p], lo, hi)
  <2> DEFINE q == cmds[p]
  <2>1. q \in Seq(Command) /\ cmds'[p] \in {q, Append(q, c)}
    BY <1>1, <1>2, <1>9
  <2> HIDE DEF q
  <2>2. HArgs(Append(q, c)) = HArgs(q)
    BY <1>8, <2>1, HArgsAppend
  <2>3. \A lo, hi \in Int : lo <= hi /\ Reports(q, lo, hi) => Reports(Append(q, c), lo, hi)
    BY <1>8, <2>1, QuietAppend
  <2> QED
    BY <2>1, <2>2, <2>3 DEF q
<1>11. ASSUME NEW d \in End, State(d)' = "active" PROVE HwmEnd(d)'
  <2>1. State(d) = "active" /\ HwmEnd(d)
    BY <1>3, <1>11 DEF HwmInv, State
  <2>2. /\ HArgs(cmds'[d]) \subseteq HArgs(cmds[d])
        /\ \A lo, hi \in Int : lo <= hi /\ Reports(cmds[d], lo, hi) => Reports(cmds'[d], lo, hi)
    BY <1>2, <1>9, <1>10
  <2> QED
    BY <1>3, <1>6, <2>1, <2>2, HwmFrame
<1> QED
  BY <1>7, <1>11 DEF HwmInv
-----------------------------------------------------------------------------
(* Reading *)

\* What is left of two sequences when part of the first is taken.
LEMMA SuffixConcat ==
    ASSUME NEW s \in Seq(Part), NEW c \in Seq(Part), NEW f \in Seq(Part), NEW k \in 0..Len(s),
           Len(f) = Len(s) - k, \A n \in 1..Len(f) : f[n] = s[n + k]
    PROVE  /\ \A n \in 1..Len(f \o c) : n + k \in 1..Len(s \o c) /\ (f \o c)[n] = (s \o c)[n + k]
           /\ \A n \in 1..Len(s) : n \in 1..Len(s \o c) /\ (s \o c)[n] = s[n]
<1> DEFINE g == f \o c
           q == s \o c
<1>1. /\ Len(g) = Len(f) + Len(c)
      /\ \A i \in 1..(Len(f) + Len(c)) : g[i] = IF i <= Len(f) THEN f[i] ELSE c[i - Len(f)]
      /\ Len(q) = Len(s) + Len(c)
      /\ \A i \in 1..(Len(s) + Len(c)) : q[i] = IF i <= Len(s) THEN s[i] ELSE c[i - Len(s)]
  BY ConcatProperties
<1>2. Len(s) \in Nat /\ Len(c) \in Nat /\ Len(f) \in Nat /\ k \in Nat
  BY LenProperties
<1> HIDE DEF g, q
<1>3. ASSUME NEW n \in 1..Len(g) PROVE n + k \in 1..Len(q) /\ g[n] = q[n + k]
  <2>1. n + k \in 1..Len(q)
    BY <1>1, <1>2
  <2>2. CASE n <= Len(f)
    BY <1>1, <1>2, <2>2, SMTT(40)
  <2>3. CASE n > Len(f)
    <3>1. g[n] = c[n - Len(f)] /\ q[n + k] = c[n + k - Len(s)] /\ n - Len(f) = n + k - Len(s)
      BY <1>1, <1>2, <2>3
    <3> QED
      BY <2>1, <3>1
  <2> QED
    BY <1>1, <1>2, <2>1, <2>2, <2>3
<1>4. \A n \in 1..Len(s) : n \in 1..Len(q) /\ q[n] = s[n]
  BY <1>1, <1>2
<1> QED
  BY <1>3, <1>4 DEF g, q

\* The reader takes k parts out of its inpipe, and counts at most one message.
LEMMA HwmTaken ==
    ASSUME IInv, HwmInv, NEW e \in End, State(peer(e)) = "active",
           NEW f \in Seq(Part), NEW k \in 0..Len(upipe[pipe[e].inpipe].flushed),
           Len(f) = Len(upipe[pipe[e].inpipe].flushed) - k,
           \A n \in 1..Len(f) : f[n] = upipe[pipe[e].inpipe].flushed[n + k],
           \A j \in UpipeId : Content(upipe'[j]) = IF j = pipe[e].inpipe
                                                   THEN f \o upipe[j].complete ELSE Content(upipe[j]),
           NEW r \in Nat,
           \/ r = pipe[e].msgs_read
           \/ /\ r = pipe[e].msgs_read + 1
              /\ \E x \in 1..k : IsWhole(upipe[pipe[e].inpipe].flushed[x])
    PROVE  /\ FilledOK(upipe'[pipe[peer(e)].outpipe], pipe[peer(e)].msgs_written, r)
           /\ \A j \in HArgs(cmds[peer(e)]) : Content(upipe'[j]) = <<>>
<1> DEFINE p == peer(e)
           i == pipe[e].inpipe
           o == pipe[p].outpipe
           H == HArgs(cmds[p])
           s == upipe[i].flushed
           c == upipe[i].complete
<1>1. p \in End /\ peer(p) = e
  BY Peers
<1>2. /\ o \in UpipeId /\ H \subseteq UpipeId /\ o \notin H /\ (i = o \/ i \in H) /\ i \in UpipeId
  BY <1>1, OwnPipes
<1>3. HwmEnd(p)
  BY <1>1 DEF HwmInv
<1>4. upipe[i] \in Upipe /\ s \in Seq(Part) /\ c \in Seq(Part) /\ Content(upipe[i]) = s \o c
  BY <1>2 DEF IInv, TypeOK, Upipe, Content
<1>5. pipe[p].msgs_written \in Int /\ pipe[e].msgs_read \in Nat
  BY <1>1, Counters
<1>6. CASE i = o
  <2> DEFINE q == s \o c
             g == f \o c
  <2>1. /\ \A n \in 1..Len(g) : n + k \in 1..Len(q) /\ g[n] = q[n + k]
        /\ \A n \in 1..Len(s) : n \in 1..Len(q) /\ q[n] = s[n]
    <3> HIDE DEF s, c
    <3>1. k \in 0..Len(s) /\ Len(f) = Len(s) - k /\ \A n \in 1..Len(f) : f[n] = s[n + k]
      BY DEF s
    <3> QED
      BY <1>4, <3>1, SuffixConcat
  <2>2. q \in Seq(Part) /\ g \in Seq(Part) /\ k \in Nat /\ Len(s) \in Nat
    <3>1. q \in Seq(Part) /\ g \in Seq(Part)
      BY <1>4, ConcatProperties
    <3>2. Len(s) \in Nat
      BY <1>4, LenProperties
    <3> QED
      BY <3>1, <3>2
  <2>3. Content(upipe'[o]) = g /\ Content(upipe[o]) = q
    BY <1>2, <1>4, <1>6
  <2>4. /\ \A n \in 1..Len(q) : q[n].kind # "delimiter"
        /\ pipe[e].msgs_read + Count(q) <= pipe[p].msgs_written
    BY <1>1, <1>3, <2>3 DEF HwmEnd, FilledOK
  <2>6. r = pipe[e].msgs_read \/ (r = pipe[e].msgs_read + 1 /\ \E x \in 1..Len(q) : x <= k /\ IsWhole(q[x]))
    <3>1. ASSUME NEW x \in 1..k, IsWhole(s[x]) PROVE x \in 1..Len(q) /\ x <= k /\ IsWhole(q[x])
      <4>1. x \in 1..Len(s) /\ x <= k
        BY <2>2
      <4>2. x \in 1..Len(q) /\ q[x] = s[x]
        BY <2>1, <4>1
      <4> HIDE DEF q, s
      <4> QED
        BY <3>1, <4>1, <4>2
    <3> QED
      BY <3>1
  <2> HIDE DEF q, g
  <2>7. /\ Count(g) <= Count(q)
        /\ \A x \in 1..Len(q) : x <= k /\ IsWhole(q[x]) => Count(g) + 1 <= Count(q)
    BY <2>1, <2>2, CountSuffix
  <2>8. Count(g) \in Nat /\ Count(q) \in Nat
    BY <2>2, WholeFinite
  <2>9. r + Count(g) <= pipe[p].msgs_written
    <3>1. CASE r = pipe[e].msgs_read
      BY <1>5, <2>4, <2>7, <2>8, <3>1, SMTT(40)
    <3>2. CASE r = pipe[e].msgs_read + 1 /\ \E x \in 1..Len(q) : x <= k /\ IsWhole(q[x])
      <4>1. Count(g) + 1 <= Count(q)
        BY <2>7, <3>2
      <4>2. r = pipe[e].msgs_read + 1 /\ r \in Nat
        BY <3>2
      <4>3. pipe[e].msgs_read + Count(q) <= pipe[p].msgs_written
        BY <2>4
      <4>4. \A a, x, y, w \in Int : x + 1 <= y /\ a + y <= w => (a + 1) + x <= w
        OBVIOUS
      <4>5. pipe[e].msgs_read \in Int /\ Count(g) \in Int /\ Count(q) \in Int
        BY <1>5, <2>8
      <4> QED
        BY <1>5, <4>1, <4>2, <4>3, <4>4, <4>5, Zenon
    <3> QED
      BY <2>6, <3>1, <3>2
  <2>10. \A n \in 1..Len(g) : g[n].kind # "delimiter"
    BY <2>1, <2>4
  <2>11. FilledOK(upipe'[o], pipe[p].msgs_written, r)
    BY <2>3, <2>9, <2>10 DEF FilledOK
  <2>12. \A j \in H : Content(upipe'[j]) = <<>>
    BY <1>2, <1>3, <1>6 DEF HwmEnd
  <2> QED
    BY <2>11, <2>12
<1>7. CASE i \in H
  <2>1. s = <<>> /\ c = <<>>
    <3>1. Content(upipe[i]) = <<>>
      BY <1>3, <1>7 DEF HwmEnd
    <3> QED
      BY <1>4, <3>1, ContentType
  <2>2. Len(s) = 0 /\ k = 0 /\ Len(f) = 0
    <3>1. Len(s) = 0
      BY <2>1
    <3>2. k \in 0..0 /\ Len(f) = 0 - k
      BY <3>1
    <3>3. k = 0
      BY <3>2
    <3> QED
      BY <3>1, <3>2, <3>3
  <2>3. f = <<>> /\ r = pipe[e].msgs_read
    BY <2>2, EmptySeq
  <2>4. f \o c = <<>>
    BY <2>1, <2>3
  <2>5. i # o
    BY <1>2, <1>7
  <2>6. Content(upipe'[o]) = Content(upipe[o]) /\ Content(upipe'[i]) = <<>>
    BY <1>2, <2>4, <2>5
  <2>7. FilledOK(upipe'[o], pipe[p].msgs_written, r)
    BY <1>1, <1>3, <2>3, <2>6 DEF HwmEnd, FilledOK
  <2>8. \A j \in H : Content(upipe'[j]) = <<>>
    BY <1>2, <1>3, <2>6 DEF HwmEnd
  <2> QED
    BY <2>7, <2>8
<1> QED
  BY <1>2, <1>6, <1>7

\* What the reader does to its inpipe does not touch what it writes.
LEMMA ReaderApart ==
    ASSUME IInv, NEW e \in End, State(e) = "active",
           \A j \in UpipeId : j # pipe[e].inpipe => Content(upipe'[j]) = Content(upipe[j])
    PROVE  \A j \in UpipeId : j \in Dir(peer(e)) => Content(upipe'[j]) = Content(upipe[j])
<1>1. pipe[e].inpipe \in Dir(e) /\ Dir(e) \cap Dir(peer(e)) = {}
  BY DEF IInv, QueuesInv, Dir
<1> QED
  BY <1>1

\* A read that finds nothing takes credentials at most.
LEMMA HwmReadFails == ASSUME IInv, HwmInv, NEW e \in End, Readable(e), ReadFails(e) PROVE HwmInv'
<1> DEFINE p == peer(e)
           i == pipe[e].inpipe
           u == [upipe[i] EXCEPT !.flushed = <<>>, !.asleep = TRUE]
           q == [pipe[e] EXCEPT !.in_active = FALSE]
<1>1. /\ upipe \in [UpipeId -> Upipe] /\ pipe \in [End -> PipeObject]
      /\ i \in UpipeId /\ upipe[i] \in Upipe /\ pipe[e] \in PipeObject
  BY EndFacts DEF IInv, TypeOK, Readable
<1>2. p \in End /\ p # e /\ peer(p) = e /\ \A d \in End : d = e \/ d = p
  BY Peers
<1>3. /\ upipe' = [upipe EXCEPT ![i] = u] /\ pipe' = [pipe EXCEPT ![e] = q] /\ UNCHANGED <<cmds, calls>>
  BY <1>1 DEF ReadFails
<1>4. u.flushed = <<>> /\ u.complete = upipe[i].complete /\ u.partial = upipe[i].partial
  BY <1>1 DEF Upipe
<1>5. /\ q.state = pipe[e].state /\ q.outpipe = pipe[e].outpipe /\ q.msgs_written = pipe[e].msgs_written
      /\ q.msgs_read = pipe[e].msgs_read /\ q.peers_msgs_read = pipe[e].peers_msgs_read
      /\ q.hwm = pipe[e].hwm
  BY <1>1 DEF PipeObject
<1> HIDE DEF u, q
<1>6. \A j \in UpipeId : /\ Content(upipe'[j]) = IF j = i THEN <<>> \o upipe[j].complete ELSE Content(upipe[j])
                         /\ upipe'[j].partial = upipe[j].partial
  BY <1>1, <1>3, <1>4 DEF Content
<1>7. PartialInv'
  BY <1>6 DEF HwmInv, PartialInv
<1>8. pipe'[p] = pipe[p] /\ pipe'[e] = q /\ State(p)' = State(p) /\ State(e)' = State(e)
  BY <1>1, <1>2, <1>3, <1>5 DEF State
<1>9. ASSUME State(e) = "active" PROVE HwmEnd(e)'
  <2>1. \A j \in UpipeId : j \in Dir(p) => Content(upipe'[j]) = Content(upipe[j])
    BY <1>6, <1>9, ReaderApart
  <2> QED
    BY <1>3, <1>5, <1>8, <1>9, <2>1, HwmFrame DEF HwmInv
<1>10. ASSUME State(p) = "active" PROVE HwmEnd(p)'
  <2> DEFINE s == upipe[i].flushed
             k == Len(s)
             f == <<>>
  <2>1. /\ k \in 0..Len(s) /\ f \in Seq(Part) /\ Len(f) = Len(s) - k /\ \A n \in 1..Len(f) : f[n] = s[n + k]
    <3>1. s \in Seq(Part)
      BY <1>1 DEF Upipe
    <3>2. Len(s) \in Nat
      BY <3>1, LenProperties
    <3> QED
      BY <3>2
  <2>2. pipe[e].msgs_read \in Nat
    BY Counters
  <2>3. /\ FilledOK(upipe'[pipe[p].outpipe], pipe[p].msgs_written, pipe[e].msgs_read)
        /\ \A j \in HArgs(cmds[p]) : Content(upipe'[j]) = <<>>
    <3> HIDE DEF k, f
    <3>1. \A j \in UpipeId : Content(upipe'[j]) = IF j = i THEN f \o upipe[j].complete ELSE Content(upipe[j])
      BY <1>6 DEF f
    <3> QED
      BY <1>10, <2>1, <2>2, <3>1, HwmTaken
  <2>4. HwmEnd(p)
    BY <1>2, <1>10 DEF HwmInv
  <2> QED
    BY <1>2, <1>3, <1>5, <1>8, <2>3, <2>4 DEF HwmEnd
<1> QED
  BY <1>2, <1>7, <1>8, <1>9, <1>10 DEF HwmInv

\* A delimiter in the inpipe was written by an end that is no longer active.
LEMMA HwmDelimiter ==
    ASSUME IInv, HwmInv, NEW e \in End, Readable(e),
           NEW x \in 1..Len(upipe[pipe[e].inpipe].flushed),
           upipe[pipe[e].inpipe].flushed[x].kind = "delimiter",
           NEW f \in Seq(Part), upipe' = [upipe EXCEPT ![pipe[e].inpipe].flushed = f],
           process_delimiter(e, pipe[e])
    PROVE  HwmInv'
<1> DEFINE p == peer(e)
           i == pipe[e].inpipe
           o == pipe[p].outpipe
           s == upipe[i].flushed
           c == upipe[i].complete
<1>1. p \in End /\ p # e /\ peer(p) = e /\ \A d \in End : d = e \/ d = p
  BY Peers
<1>2. /\ upipe \in [UpipeId -> Upipe] /\ pipe \in [End -> PipeObject] /\ i \in UpipeId /\ upipe[i] \in Upipe
      /\ s \in Seq(Part) /\ c \in Seq(Part) /\ pipe[e] \in PipeObject
  BY EndFacts DEF IInv, TypeOK, Readable, Upipe
<1>3. State(p) # "active"
  <2> SUFFICES ASSUME State(p) = "active" PROVE FALSE
    OBVIOUS
  <2>1. (i = o \/ i \in HArgs(cmds[p])) /\ HwmEnd(p)
    BY <1>1, OwnPipes DEF HwmInv
  <2>2. Content(upipe[i])[x] = s[x] /\ x \in 1..Len(Content(upipe[i]))
    <3> DEFINE q == s \o c
    <3>1. Len(s) \in Nat /\ Len(c) \in Nat
      BY <1>2, LenProperties
    <3>2. /\ Len(q) = Len(s) + Len(c)
          /\ \A n \in 1..(Len(s) + Len(c)) : q[n] = IF n <= Len(s) THEN s[n] ELSE c[n - Len(s)]
      <4> HIDE DEF s, c
      <4> QED
        BY <1>2, ConcatProperties
    <3>3. x \in 1..Len(s)
      OBVIOUS
    <3> HIDE DEF s, c, q
    <3>4. q[x] = s[x] /\ x \in 1..Len(q)
      BY <3>1, <3>2, <3>3
    <3> QED
      BY <3>4 DEF q, s, c, Content
  <2>3. CASE i = o
    BY <2>1, <2>2, <2>3 DEF HwmEnd, FilledOK
  <2>4. CASE i \in HArgs(cmds[p])
    <3>1. Content(upipe[i]) = <<>>
      BY <2>1, <2>4 DEF HwmEnd
    <3>2. Len(Content(upipe[i])) = 0
      BY <3>1
    <3> QED
      BY <2>2, <3>2
  <2> QED
    BY <2>1, <2>3, <2>4
<1>4. State(p)' = State(p) /\ State(e)' # "active"
  <2>1. CASE pipe[e].state = "active"
    BY <1>1, <1>2, <2>1 DEF process_delimiter, State, PipeObject
  <2>2. CASE pipe[e].state # "active"
    BY <1>1, <1>2, <2>2 DEF process_delimiter, State, PipeObject
  <2> QED
    BY <2>1, <2>2
<1>5. PartialInv'
  <2>1. upipe' = [upipe EXCEPT ![i] = [upipe[i] EXCEPT !.flushed = f]]
    BY <1>2
  <2>2. [upipe[i] EXCEPT !.flushed = f].partial = upipe[i].partial
    BY <1>2 DEF Upipe
  <2>3. \A j \in UpipeId : upipe'[j].partial = upipe[j].partial
    BY <1>2, <2>1, <2>2
  <2> QED
    BY <2>3 DEF HwmInv, PartialInv
<1> QED
  BY <1>1, <1>3, <1>4, <1>5 DEF HwmInv

\* Reports stay within bounds when the reader counts one more.
LEMMA ReportsUp ==
    ASSUME NEW q \in Seq(Command), NEW lo \in Int, NEW hi \in Int, NEW up \in Int, hi <= up, Reports(q, lo, hi)
    PROVE  Reports(q, lo, up)
<1>1. \A n \in 1..Len(q) : q[n].arg \in Int
  <2>1. \A n \in 1..Len(q) : q[n] \in Command
    BY ElementOfSeq
  <2> QED
    BY <2>1 DEF Command
<1> QED
  BY <1>1 DEF Reports

\* A part is read: the k-th of the inpipe, behind credentials.
LEMMA HwmReadPart ==
    ASSUME IInv, HwmInv, NEW e \in End, Readable(e),
           NEW k \in 1..Len(upipe[pipe[e].inpipe].flushed),
           upipe[pipe[e].inpipe].flushed[k].kind # "delimiter",
           NEW f \in Seq(Part), Len(f) = Len(upipe[pipe[e].inpipe].flushed) - k,
           \A n \in 1..Len(f) : f[n] = upipe[pipe[e].inpipe].flushed[n + k],
           upipe' = [upipe EXCEPT ![pipe[e].inpipe].flushed = f],
           ReadPart(e, upipe[pipe[e].inpipe].flushed[k]), UNCHANGED calls
    PROVE  HwmInv'
<1> DEFINE p == peer(e)
           i == pipe[e].inpipe
           s == upipe[i].flushed
           m == s[k]
           r == IF m.more THEN pipe[e].msgs_read ELSE pipe[e].msgs_read + 1
           q == [pipe[e] EXCEPT !.msgs_read = r]
           c == [type |-> "activate_write", arg |-> r]
<1>1. p \in End /\ p # e /\ peer(p) = e /\ \A d \in End : d = e \/ d = p
  BY Peers
<1>2. /\ upipe \in [UpipeId -> Upipe] /\ pipe \in [End -> PipeObject] /\ i \in UpipeId /\ upipe[i] \in Upipe
      /\ s \in Seq(Part) /\ pipe[e] \in PipeObject /\ cmds \in [End -> Seq(Command)]
  BY EndFacts DEF IInv, TypeOK, Readable, Upipe
<1>3. r \in Nat /\ pipe[e].msgs_read \in Nat /\ pipe[e].msgs_read <= r
  <2> DEFINE n == pipe[e].msgs_read
  <2>1. n \in Nat
    BY Counters
  <2>2. \A x \in Nat : x + 1 \in Nat /\ x <= x /\ x <= x + 1
    OBVIOUS
  <2>3. r = n \/ r = n + 1
    OBVIOUS
  <2> HIDE DEF n, r
  <2>4. r \in Nat /\ n <= r
    BY <2>1, <2>2, <2>3
  <2> QED
    BY <2>1, <2>4 DEF n
<1>4. /\ q.state = pipe[e].state /\ q.outpipe = pipe[e].outpipe /\ q.msgs_written = pipe[e].msgs_written
      /\ q.msgs_read = r /\ q.peers_msgs_read = pipe[e].peers_msgs_read /\ q.hwm = pipe[e].hwm
  <2> HIDE DEF r
  <2> QED
    BY <1>2 DEF PipeObject
<1>5. /\ pipe' = [pipe EXCEPT ![e] = q] /\ Send(e, IF ActivateWrite(q) THEN <<c>> ELSE <<>>)
  <2>1. q = [pipe[e] EXCEPT !.msgs_read = IF m.more THEN @ ELSE @ + 1]
    OBVIOUS
  <2> QED
    BY <1>4, <2>1 DEF ReadPart
<1>6. c \in Command /\ c.type = "activate_write" /\ c.arg = r
  BY <1>3 DEF Command
<1>7. r = pipe[e].msgs_read \/ (r = pipe[e].msgs_read + 1 /\ IsWhole(m))
  BY DEF IsWhole
<1> HIDE DEF r, q, c
<1>8. cmds'[e] = cmds[e] /\ cmds'[p] \in {cmds[p], Append(cmds[p], c)}
  <2>1. cmds[p] \in Seq(Command) /\ cmds'[e] = cmds[e]
        /\ cmds'[p] = cmds[p] \o IF ActivateWrite(q) THEN <<c>> ELSE <<>>
    BY <1>1, <1>2, <1>5 DEF Send
  <2>2. cmds[p] \o <<>> = cmds[p] /\ cmds[p] \o <<c>> = Append(cmds[p], c)
    BY <1>6, <2>1, Sends
  <2> QED
    BY <2>1, <2>2
<1> DEFINE u == [upipe[i] EXCEPT !.flushed = f]
<1>9. upipe' = [upipe EXCEPT ![i] = u] /\ u.flushed = f /\ u.complete = upipe[i].complete /\ u.partial = upipe[i].partial
  BY <1>2 DEF Upipe
<1> HIDE DEF u
<1>10. \A j \in UpipeId : /\ Content(upipe'[j]) = IF j = i THEN f \o upipe[j].complete ELSE Content(upipe[j])
                          /\ upipe'[j].partial = upipe[j].partial
  BY <1>2, <1>9 DEF Content
<1>11. PartialInv'
  BY <1>10 DEF HwmInv, PartialInv
<1>12. pipe'[p] = pipe[p] /\ pipe'[e] = q /\ State(p)' = State(p) /\ State(e)' = State(e)
  BY <1>1, <1>2, <1>4, <1>5 DEF State
<1>13. ASSUME State(e) = "active" PROVE HwmEnd(e)'
  <2>1. \A j \in UpipeId : j \in Dir(p) => Content(upipe'[j]) = Content(upipe[j])
    BY <1>10, <1>13, ReaderApart
  <2> QED
    BY <1>4, <1>8, <1>12, <1>13, <2>1, HwmFrame DEF HwmInv
<1>14. ASSUME State(p) = "active" PROVE HwmEnd(p)'
  <2>1. /\ FilledOK(upipe'[pipe[p].outpipe], pipe[p].msgs_written, r)
        /\ \A j \in HArgs(cmds[p]) : Content(upipe'[j]) = <<>>
    <3>1. Len(s) \in Nat
      BY <1>2, LenProperties
    <3>2. k \in 0..Len(s) /\ k \in 1..k
      BY <3>1, SMTT(40)
    <3>3. \/ r = pipe[e].msgs_read
          \/ r = pipe[e].msgs_read + 1 /\ \E x \in 1..k : IsWhole(s[x])
      BY <1>7, <3>2
    <3> QED
      BY <1>3, <1>10, <1>14, <3>2, <3>3, HwmTaken, ZenonT(40)
  <2>2. HwmEnd(p)
    BY <1>1, <1>14 DEF HwmInv
  <2>3. HArgs(cmds'[p]) = HArgs(cmds[p])
    <3> DEFINE z == cmds[p]
    <3>1. z \in Seq(Command) /\ cmds'[p] \in {z, Append(z, c)}
      BY <1>1, <1>2, <1>8
    <3> HIDE DEF z
    <3>2. HArgs(Append(z, c)) = HArgs(z)
      BY <1>6, <3>1, HArgsAppend
    <3> QED
      BY <3>1, <3>2 DEF z
  <2>4. /\ pipe[p].peers_msgs_read <= pipe[e].msgs_read
        /\ Reports(cmds[p], pipe[p].peers_msgs_read, pipe[e].msgs_read)
        /\ NeverLowered /\ pipe[p].hwm > 0 => pipe[p].msgs_written - pipe[p].peers_msgs_read <= pipe[p].hwm
    BY <1>1, <2>2 DEF HwmEnd, CountersOK
  <2>5. pipe[p].peers_msgs_read \in Nat
    BY <1>1, Counters
  <2>6. Reports(cmds'[p], pipe[p].peers_msgs_read, r)
    <3> DEFINE z == cmds[p]
               lo == pipe[p].peers_msgs_read
               hi == pipe[e].msgs_read
    <3>1. /\ z \in Seq(Command) /\ cmds'[p] \in {z, Append(z, c)}
          /\ lo \in Int /\ hi \in Int /\ r \in Int /\ lo <= hi /\ hi <= r /\ Reports(z, lo, hi)
      BY <1>1, <1>2, <1>3, <1>8, <2>4, <2>5
    <3> HIDE DEF z, lo, hi
    <3>2. Reports(z, lo, r)
      BY <3>1, ReportsUp
    <3>3. Reports(Append(z, c), lo, r)
      BY <1>6, <3>1, ReportsAppend
    <3> QED
      BY <3>1, <3>2, <3>3 DEF lo, z
  <2>7. CountersOK(pipe[p].msgs_written, pipe[p].peers_msgs_read, pipe[p].hwm, r, cmds'[p])
    <3> DEFINE lo == pipe[p].peers_msgs_read
               hi == pipe[e].msgs_read
    <3>1. lo <= r
      <4>1. \A x, y, z \in Nat : x <= y /\ y <= z => x <= z
        OBVIOUS
      <4>2. lo \in Nat /\ lo <= hi
        BY <2>4, <2>5, Zenon
      <4>3. hi \in Nat /\ r \in Nat /\ hi <= r
        BY <1>3, Zenon
      <4> HIDE DEF lo, hi
      <4> QED
        BY <4>1, <4>2, <4>3
    <3> QED
      BY <2>4, <2>6, <3>1 DEF CountersOK
  <2> QED
    BY <1>1, <1>4, <1>12, <2>1, <2>2, <2>3, <2>7 DEF HwmEnd
<1> QED
  BY <1>1, <1>11, <1>12, <1>13, <1>14 DEF HwmInv

\* check_read () and read ().
LEMMA HwmReadStep == ASSUME IInv, HwmInv, NEW e \in End, check_read(e) \/ read(e) PROVE HwmInv'
<1> DEFINE q == upipe[pipe[e].inpipe].flushed
<1>1. Readable(e) /\ State(e) # "gone"
  BY DEF check_read, read, Readable
<1>2. q \in Seq(Part)
  BY <1>1, EndFacts DEF Upipe
<1>3. CASE ReadFails(e)
  BY <1>1, <1>3, HwmReadFails
<1>4. CASE check_read(e) /\ ~ReadFails(e)
  <2>1. /\ q # <<>> /\ upipe' = [upipe EXCEPT ![pipe[e].inpipe].flushed = Tail(q)]
        /\ process_delimiter(e, pipe[e]) /\ Head(q).kind = "delimiter"
    BY <1>4 DEF check_read
  <2>2. Tail(q) \in Seq(Part) /\ Head(q) = q[1]
    BY <1>2, <2>1, HeadTailProperties
  <2>3. 1 \in 1..Len(q)
    <3>1. Len(q) \in Nat /\ Len(q) # 0
      BY <1>2, <2>1, LenProperties, EmptySeq
    <3> QED
      BY <3>1
  <2> QED
    BY <1>1, <2>1, <2>2, <2>3, HwmDelimiter
<1>5. CASE read(e) /\ ~ReadFails(e)
  <2>1. PICK k \in 0..Len(q) :
           /\ k < Len(q)
           /\ upipe' = [upipe EXCEPT ![pipe[e].inpipe].flushed = SubSeq(q, k + 2, Len(q))]
           /\ IF q[k + 1].kind = "delimiter"
              THEN process_delimiter(e, pipe[e]) /\ UNCHANGED got
              ELSE ReadPart(e, q[k + 1])
           /\ UNCHANGED <<sent, calls>>
    BY <1>5 DEF read
  <2> DEFINE f == SubSeq(q, k + 2, Len(q))
             x == k + 1
  <2>2. Len(q) \in Nat /\ x \in 1..Len(q)
    BY <1>2, <2>1, LenProperties
  <2>3. f \in Seq(Part) /\ Len(f) = Len(q) - x /\ \A n \in 1..Len(f) : f[n] = q[n + x]
    <3>1. \A n \in (k + 2)..Len(q) : q[n] \in Part
      BY <1>2, <2>2, ElementOfSeq
    <3>2. f \in Seq(Part)
      BY <1>2, <2>2, <3>1
    <3>3. Len(f) = Len(q) - x /\ \A n \in 1..(Len(q) - x) : f[n] = q[n + x]
      <4> HIDE DEF q
      <4> QED
        BY <1>2, <2>1, <2>2, SMTT(40)
    <3> HIDE DEF f
    <3> QED
      BY <3>2, <3>3
  <2> HIDE DEF f, x
  <2>4. CASE q[x].kind = "delimiter"
    BY <1>1, <2>1, <2>2, <2>3, <2>4, HwmDelimiter DEF f, x
  <2>5. CASE q[x].kind # "delimiter"
    <3>1. ReadPart(e, q[x]) /\ UNCHANGED calls /\ upipe' = [upipe EXCEPT ![pipe[e].inpipe].flushed = f]
      BY <2>1, <2>5 DEF x, f
    <3> QED
      BY <1>1, <2>2, <2>3, <2>5, <3>1, HwmReadPart
  <2> QED
    BY <2>4, <2>5
<1> QED
  BY <1>3, <1>4, <1>5
-----------------------------------------------------------------------------
(* Termination, hiccup and commands *)

\* terminate () ends the writing of its end.
LEMMA HwmTerminate ==
    ASSUME IInv, HwmInv, NEW e \in End, NEW delay \in BOOLEAN, terminate(e, delay)
    PROVE  HwmInv'
<1> DEFINE p == peer(e)
           o == pipe[e].outpipe
           c == Cmd("pipe_term")
           a == Cmd("activate_read")
<1>1. p \in End /\ p # e /\ peer(p) = e /\ \A d \in End : d = e \/ d = p
  BY Peers
<1>2. /\ upipe \in [UpipeId -> Upipe] /\ pipe \in [End -> PipeObject] /\ pipe[e] \in PipeObject
      /\ cmds \in [End -> Seq(Command)] /\ cmds[p] \in Seq(Command)
  BY <1>1 DEF IInv, TypeOK
<1>3. /\ pipe'[p] = pipe[p] /\ State(p)' = State(p) /\ State(e)' # "active"
      /\ pipe'[e].msgs_read = pipe[e].msgs_read
  <2>1. CASE pipe[e].state \in {"active", "delimiter_received"}
    <3>1. pipe' = [pipe EXCEPT ![e] = [pipe[e] EXCEPT !.state = "term_req_sent1", !.out_active = FALSE]]
      BY <2>1 DEF terminate
    <3> QED
      BY <1>1, <1>2, <3>1 DEF State, PipeObject
  <2>2. CASE pipe[e].state = "waiting_for_delimiter" /\ ~delay
    <3>1. pipe' = [pipe EXCEPT ![e] = [pipe[e] EXCEPT !.state = "term_ack_sent", !.outpipe = NULL,
                                                      !.out_active = FALSE]]
      BY <2>2 DEF terminate
    <3> QED
      BY <1>1, <1>2, <3>1 DEF State, PipeObject
  <2>3. CASE pipe[e].state = "waiting_for_delimiter" /\ delay
    <3>1. pipe' = [pipe EXCEPT ![e] = [pipe[e] EXCEPT !.out_active = FALSE]]
      BY <2>3 DEF terminate
    <3> QED
      BY <1>1, <1>2, <2>3, <3>1 DEF State, PipeObject
  <2>4. CASE pipe[e].state \notin {"active", "delimiter_received", "waiting_for_delimiter"}
    <3>1. pipe' = [pipe EXCEPT ![e] = pipe[e]]
      BY <2>4 DEF terminate
    <3> QED
      BY <1>1, <1>2, <2>4, <3>1 DEF State
  <2> QED
    BY <2>1, <2>2, <2>3, <2>4
<1>4. \/ UNCHANGED upipe
      \/ o \in UpipeId /\ upipe' = [upipe EXCEPT ![o] = WithDelimiter(@)]
  <2>1. CASE pipe[e].state \in {"active", "delimiter_received"}
    <3> DEFINE q == [pipe[e] EXCEPT !.state = "term_req_sent1", !.out_active = FALSE]
    <3>1. q.outpipe = o
      BY <1>2 DEF PipeObject
    <3>2. IF q.outpipe # NULL THEN upipe' = [upipe EXCEPT ![q.outpipe] = WithDelimiter(@)] ELSE UNCHANGED upipe
      BY <2>1 DEF terminate
    <3> QED
      BY <1>2, <3>1, <3>2 DEF PipeObject
  <2>2. CASE pipe[e].state = "waiting_for_delimiter" /\ ~delay
    <3> DEFINE q == [pipe[e] EXCEPT !.state = "term_ack_sent", !.outpipe = NULL, !.out_active = FALSE]
    <3>1. q.outpipe = NULL
      BY <1>2 DEF PipeObject
    <3> QED
      BY <2>2, <3>1 DEF terminate
  <2>3. CASE pipe[e].state = "waiting_for_delimiter" /\ delay
    <3> DEFINE q == [pipe[e] EXCEPT !.out_active = FALSE]
    <3>1. q.outpipe = o
      BY <1>2 DEF PipeObject
    <3>2. IF q.outpipe # NULL THEN upipe' = [upipe EXCEPT ![q.outpipe] = WithDelimiter(@)] ELSE UNCHANGED upipe
      BY <2>3 DEF terminate
    <3> QED
      BY <1>2, <3>1, <3>2 DEF PipeObject
  <2>4. CASE pipe[e].state \notin {"active", "delimiter_received", "waiting_for_delimiter"}
    BY <2>4 DEF terminate
  <2> QED
    BY <2>1, <2>2, <2>3, <2>4
<1>5. ASSUME NEW u \in Upipe PROVE WithDelimiter(u).partial = <<>>
  BY DEF WithDelimiter, FlushedUpipe, Upipe
<1>6. /\ \A j \in UpipeId : /\ upipe'[j].partial \in {<<>>, upipe[j].partial}
                            /\ j # o => upipe'[j] = upipe[j]
  BY <1>2, <1>4, <1>5
<1>7. PartialInv'
  <2>1. Begins(<<>>)
    BY DEF Begins
  <2> QED
    BY <1>6, <2>1 DEF HwmInv, PartialInv
<1>8. ASSUME State(p) = "active" PROVE HwmEnd(p)'
  <2>1. HwmEnd(p) /\ State(e) \in Begun
    BY <1>1, <1>8, OwnPipes DEF HwmInv
  <2>2. o \notin Dir(e)
    <3>1. o \in Dir(p)
      <4>1. o # NULL
        BY <2>1 DEF IInv, QueuesInv, Begun, Acked
      <4> QED
        BY <1>1, <4>1 DEF Dir
    <3> QED
      BY <3>1 DEF IInv, QueuesInv
  <2>3. \A j \in UpipeId : j \in Dir(e) => Content(upipe'[j]) = Content(upipe[j])
    BY <1>6, <2>2
  <2>4. calls' = calls
    BY <2>1 DEF terminate, BoundedTerms, Begun
  <2>5. c \in Command /\ c.type = "pipe_term" /\ a \in Command /\ a.type = "activate_read"
    BY DEF Cmd, Command
  <2> DEFINE z == cmds[p]
  <2>6. cmds'[p] \in {z, Append(z, c), Append(Append(z, c), a)}
    <3> HIDE DEF c, a
    <3>1. z \o <<>> = z /\ z \o <<c>> = Append(z, c) /\ z \o (<<c>> \o <<>>) = Append(z, c)
          /\ z \o (<<c>> \o <<a>>) = Append(Append(z, c), a)
      BY <1>2, <2>5, Sends
    <3>2. CASE pipe[e].state \in {"active", "delimiter_received"}
      <4>1. \E cs \in {<<c>>, <<c>> \o <<a>>, <<c>> \o <<>>} : Send(e, cs)
        BY <3>2 DEF terminate, c, a
      <4>2. \E cs \in {<<c>>, <<c>> \o <<a>>, <<c>> \o <<>>} : cmds' = [cmds EXCEPT ![p] = z \o cs]
        BY <4>1 DEF Send
      <4> QED
        BY <1>1, <1>2, <3>1, <4>2
    <3>3. CASE pipe[e].state = "term_req_sent1"
      <4>1. Send(e, <<>>)
        BY <3>3 DEF terminate
      <4>2. cmds' = [cmds EXCEPT ![p] = z \o <<>>]
        BY <4>1 DEF Send
      <4> QED
        BY <1>1, <1>2, <3>1, <4>2
    <3> QED
      BY <2>1, <3>2, <3>3 DEF Begun, State
  <2> HIDE DEF c, a
  <2>7. /\ HArgs(cmds'[p]) \subseteq HArgs(z)
        /\ \A lo, hi \in Int : lo <= hi /\ Reports(z, lo, hi) => Reports(cmds'[p], lo, hi)
    <3>1. z \in Seq(Command)
      BY <1>2
    <3> HIDE DEF z
    <3> DEFINE y == Append(z, c)
    <3>2. y \in Seq(Command) /\ HArgs(y) = HArgs(z)
      <4>1. y \in Seq(Command)
        BY <2>5, <3>1, AppendProperties
      <4>2. HArgs(y) = HArgs(z) \cup IF c.type = "hiccup" THEN {c.arg} ELSE {}
        BY <2>5, <3>1, HArgsAppend
      <4> QED
        BY <2>5, <4>1, <4>2
    <3>3. \A lo, hi \in Int : lo <= hi /\ Reports(z, lo, hi) => Reports(y, lo, hi)
      BY <2>5, <3>1, QuietAppend
    <3>4. cmds'[p] \in {z, y, Append(y, a)}
      BY <2>6
    <3> HIDE DEF y
    <3>5. HArgs(Append(y, a)) = HArgs(y)
      BY <2>5, <3>2, HArgsAppend
    <3>6. \A lo, hi \in Int : lo <= hi /\ Reports(y, lo, hi) => Reports(Append(y, a), lo, hi)
      BY <2>5, <3>2, QuietAppend
    <3> QED
      BY <3>2, <3>3, <3>4, <3>5, <3>6
  <2> QED
    BY <1>1, <1>3, <1>8, <2>1, <2>3, <2>4, <2>7, HwmFrame
<1> QED
  BY <1>1, <1>3, <1>7, <1>8 DEF HwmInv

\* hiccup () gives the writer an empty pipe.
LEMMA HwmHiccup == ASSUME IInv, HwmInv, NEW e \in End, hiccup(e) PROVE HwmInv'
<1> DEFINE p == peer(e)
           n == Made + 1
           q == [pipe[e] EXCEPT !.inpipe = n, !.in_active = TRUE]
           c == [type |-> "hiccup", arg |-> n]
           k == [calls[e] EXCEPT !.hiccups = @ + 1]
<1>1. p \in End /\ p # e /\ peer(p) = e /\ \A d \in End : d = e \/ d = p
  BY Peers
<1>2. /\ pipe \in [End -> PipeObject] /\ cmds \in [End -> Seq(Command)] /\ upipe \in [UpipeId -> Upipe]
      /\ calls \in [End -> [terms : Nat, hiccups : Nat, hwms : Nat]]
      /\ pipe[e] \in PipeObject /\ Made \in Nat
  BY MadeType DEF IInv, TypeOK
<1>3. /\ n \in UpipeId
      /\ calls' = [calls EXCEPT ![e] = k] /\ upipe' = [upipe EXCEPT ![n] = NewUpipe]
      /\ pipe' = [pipe EXCEPT ![e] = q] /\ Send(e, <<c>>)
  BY <1>2 DEF hiccup, Made
<1>4. /\ q.state = pipe[e].state /\ q.outpipe = pipe[e].outpipe /\ q.msgs_written = pipe[e].msgs_written
      /\ q.msgs_read = pipe[e].msgs_read /\ q.peers_msgs_read = pipe[e].peers_msgs_read
      /\ q.hwm = pipe[e].hwm
  BY <1>2 DEF PipeObject
<1>5. k.hwms = calls[e].hwms
  BY <1>2
<1>6. c \in Command /\ c.type = "hiccup" /\ c.arg = n
  BY <1>2 DEF Command
<1> HIDE DEF q, c, k
<1>7. NewUpipe.partial = <<>> /\ Content(NewUpipe) = <<>>
  BY DEF NewUpipe, Content
<1>8. \A j \in UpipeId : upipe'[j] = IF j = n THEN NewUpipe ELSE upipe[j]
  BY <1>2, <1>3
<1>9. PartialInv'
  <2>1. Begins(<<>>)
    BY DEF Begins
  <2> QED
    BY <1>7, <1>8, <2>1 DEF HwmInv, PartialInv
<1>10. \A d \in End : n \notin Dir(d)
  <2>1. \A d \in End : \A j \in Dir(d) : j \in Int /\ j <= Made
    BY DirMade
  <2> QED
    BY <1>2, <2>1
<1>11. \A d \in End, j \in UpipeId : j \in Dir(d) => Content(upipe'[j]) = Content(upipe[j])
  BY <1>8, <1>10
<1>12. /\ pipe'[p] = pipe[p] /\ pipe'[e] = q /\ State(p)' = State(p) /\ State(e)' = State(e)
       /\ calls'[p] = calls[p] /\ calls'[e] = k
  BY <1>1, <1>2, <1>3, <1>4 DEF State
<1> DEFINE z == cmds[p]
<1>13. cmds'[e] = cmds[e] /\ cmds'[p] = Append(z, c) /\ z \in Seq(Command)
  <2>1. z \in Seq(Command) /\ cmds' = [cmds EXCEPT ![p] = z \o <<c>>]
    BY <1>1, <1>2, <1>3 DEF Send
  <2>2. z \o <<c>> = Append(z, c)
    BY <1>6, <2>1, Sends
  <2> QED
    BY <1>1, <1>2, <2>1, <2>2
<1>14. ASSUME State(e) = "active" PROVE HwmEnd(e)'
  BY <1>1, <1>4, <1>5, <1>11, <1>12, <1>13, <1>14, HwmFrame DEF HwmInv
<1>15. ASSUME State(p) = "active" PROVE HwmEnd(p)'
  <2>1. HwmEnd(p)
    BY <1>1, <1>15 DEF HwmInv
  <2>2. /\ pipe[p].outpipe \in UpipeId /\ pipe[p].outpipe \in Dir(e)
        /\ HArgs(z) \subseteq UpipeId /\ HArgs(z) \subseteq Dir(e)
    BY <1>1, <1>15, OwnPipes
  <2>3. HArgs(cmds'[p]) = HArgs(z) \cup {n}
    <3> HIDE DEF z
    <3>1. HArgs(Append(z, c)) = HArgs(z) \cup {n}
      BY <1>6, <1>13, HArgsAppend
    <3> QED
      BY <1>13, <3>1
  <2>4. FilledOK(upipe[pipe[p].outpipe], pipe[p].msgs_written, pipe[e].msgs_read)'
    BY <1>1, <1>4, <1>11, <1>12, <2>1, <2>2 DEF HwmEnd, FilledOK
  <2>5. \A j \in HArgs(cmds'[p]) : Content(upipe'[j]) = <<>>
    BY <1>1, <1>3, <1>7, <1>8, <1>11, <2>1, <2>2, <2>3 DEF HwmEnd
  <2>6. pipe[p].peers_msgs_read \in Int /\ pipe[e].msgs_read \in Int
    BY <1>1, Counters
  <2>7. /\ pipe[p].peers_msgs_read <= pipe[e].msgs_read
        /\ Reports(z, pipe[p].peers_msgs_read, pipe[e].msgs_read)
        /\ NeverLowered /\ pipe[p].hwm > 0 => pipe[p].msgs_written - pipe[p].peers_msgs_read <= pipe[p].hwm
    BY <1>1, <2>1 DEF HwmEnd, CountersOK
  <2>8. Reports(cmds'[p], pipe[p].peers_msgs_read, pipe[e].msgs_read)
    <3> HIDE DEF z
    <3> QED
      BY <1>6, <1>13, <2>6, <2>7, QuietAppend
  <2>9. CountersOK(pipe[p].msgs_written, pipe[p].peers_msgs_read, pipe[p].hwm, pipe[e].msgs_read, cmds[p])'
    BY <1>4, <1>12, <2>7, <2>8 DEF CountersOK
  <2>10. calls'[p].hwms = 0 => pipe'[p].hwm = Hwm[p]
    BY <1>12, <2>1 DEF HwmEnd
  <2> QED
    BY <1>1, <2>4, <2>5, <2>9, <2>10 DEF HwmEnd
<1> QED
  BY <1>1, <1>9, <1>12, <1>14, <1>15 DEF HwmInv

\* process_activate_read () and process_activate_write ().
LEMMA HwmActivate ==
    ASSUME IInv, HwmInv, NEW e \in End, process_activate_read(e) \/ process_activate_write(e)
    PROVE  HwmInv'
<1> DEFINE p == peer(e)
           z == cmds[e]
           h == Head(z)
<1>1. p \in End /\ p # e /\ peer(p) = e /\ \A d \in End : d = e \/ d = p
  BY Peers
<1>2. /\ z # <<>> /\ h.type \in {"activate_read", "activate_write"} /\ Reply(e, <<>>)
      /\ UNCHANGED <<upipe, calls>>
  BY DEF process_activate_read, process_activate_write, Receive
<1>3. /\ pipe \in [End -> PipeObject] /\ pipe[e] \in PipeObject /\ z \in Seq(Command)
      /\ cmds'[e] = Tail(z) /\ cmds'[p] = cmds[p] /\ h \in Command /\ HArgs(cmds'[e]) = HArgs(cmds[e])
  BY <1>2, Consumed, ConsumedActivation DEF IInv, TypeOK
<1>4. h.arg \in Nat
  BY <1>3 DEF Command
<1>5. PICK q \in PipeObject :
         /\ pipe' = [pipe EXCEPT ![e] = q]
         /\ q.state = pipe[e].state /\ q.outpipe = pipe[e].outpipe /\ q.msgs_written = pipe[e].msgs_written
         /\ q.msgs_read = pipe[e].msgs_read /\ q.hwm = pipe[e].hwm
         /\ q.peers_msgs_read = IF h.type = "activate_write" THEN h.arg ELSE pipe[e].peers_msgs_read
  <2>1. CASE process_activate_read(e)
    <3> DEFINE b == pipe[e].in_active \/ Readable(e)
               q == [pipe[e] EXCEPT !.in_active = b]
    <3>1. pipe' = [pipe EXCEPT ![e] = q] /\ h.type = "activate_read" /\ b \in BOOLEAN
      BY <1>3, <2>1 DEF process_activate_read, Receive, Readable
    <3> HIDE DEF b
    <3>2. /\ q \in PipeObject
          /\ q.state = pipe[e].state /\ q.outpipe = pipe[e].outpipe /\ q.msgs_written = pipe[e].msgs_written
          /\ q.msgs_read = pipe[e].msgs_read /\ q.hwm = pipe[e].hwm
          /\ q.peers_msgs_read = pipe[e].peers_msgs_read
      BY <1>3, <3>1 DEF PipeObject
    <3> HIDE DEF q
    <3> QED
      BY <3>1, <3>2
  <2>2. CASE process_activate_write(e)
    <3> DEFINE b == pipe[e].out_active \/ State(e) = "active"
               q == [pipe[e] EXCEPT !.peers_msgs_read = h.arg, !.out_active = b]
    <3>1. pipe' = [pipe EXCEPT ![e] = q] /\ h.type = "activate_write" /\ b \in BOOLEAN
      BY <1>3, <2>2 DEF process_activate_write, Receive
    <3> HIDE DEF b
    <3>2. /\ q \in PipeObject
          /\ q.state = pipe[e].state /\ q.outpipe = pipe[e].outpipe /\ q.msgs_written = pipe[e].msgs_written
          /\ q.msgs_read = pipe[e].msgs_read /\ q.hwm = pipe[e].hwm
          /\ q.peers_msgs_read = h.arg
      BY <1>3, <1>4, <3>1 DEF PipeObject
    <3> HIDE DEF q
    <3> QED
      BY <3>1, <3>2
  <2> QED
    BY <2>1, <2>2
<1>6. PartialInv'
  BY <1>2 DEF HwmInv, PartialInv
<1>7. pipe'[p] = pipe[p] /\ pipe'[e] = q /\ State(p)' = State(p) /\ State(e)' = State(e)
  BY <1>1, <1>3, <1>5 DEF State
<1>8. ASSUME State(p) = "active" PROVE HwmEnd(p)'
  BY <1>1, <1>2, <1>3, <1>5, <1>7, <1>8, HwmFrame DEF HwmInv
<1>9. ASSUME State(e) = "active" PROVE HwmEnd(e)'
  <2>1. HwmEnd(e)
    BY <1>9 DEF HwmInv
  <2>2. /\ pipe[e].msgs_written \in Int /\ pipe[e].peers_msgs_read \in Int /\ pipe[e].hwm \in Int
        /\ pipe[p].msgs_read \in Int /\ h.arg \in Int
    BY <1>4, Counters
  <2>3. /\ pipe[e].peers_msgs_read <= pipe[p].msgs_read
        /\ Reports(z, pipe[e].peers_msgs_read, pipe[p].msgs_read)
        /\ NeverLowered /\ pipe[e].hwm > 0 => pipe[e].msgs_written - pipe[e].peers_msgs_read <= pipe[e].hwm
    BY <2>1 DEF HwmEnd, CountersOK
  <2> DEFINE lo == pipe[e].peers_msgs_read
             hi == pipe[p].msgs_read
             s == q.peers_msgs_read
  <2>4. /\ Reports(Tail(z), lo, hi)
        /\ h.type = "activate_write" => lo <= h.arg /\ h.arg <= hi /\ Reports(Tail(z), h.arg, hi)
    <3>1. z \in Seq(Command) /\ z # <<>> /\ lo \in Int /\ hi \in Int /\ Reports(z, lo, hi)
      BY <1>2, <1>3, <2>2, <2>3
    <3> HIDE DEF z, lo, hi
    <3> QED
      BY <3>1, ReportsTail
  <2>5. lo <= s /\ s <= hi /\ Reports(Tail(z), s, hi) /\ s \in Int
    BY <1>5, <2>2, <2>3, <2>4
  <2>6. NeverLowered /\ pipe[e].hwm > 0 => pipe[e].msgs_written - s <= pipe[e].hwm
    BY <2>2, <2>3, <2>5
  <2>7. CountersOK(pipe[e].msgs_written, s, pipe[e].hwm, hi, Tail(z))
    BY <2>5, <2>6 DEF CountersOK
  <2>8. CountersOK(pipe[e].msgs_written, pipe[e].peers_msgs_read, pipe[e].hwm, pipe[p].msgs_read, cmds[e])'
    BY <1>3, <1>5, <1>7, <2>7
  <2>9. FilledOK(upipe[pipe[e].outpipe], pipe[e].msgs_written, pipe[p].msgs_read)'
    BY <1>2, <1>5, <1>7, <2>1 DEF HwmEnd
  <2>10. \A j \in HArgs(cmds'[e]) : Content(upipe'[j]) = <<>>
    BY <1>2, <1>3, <2>1 DEF HwmEnd
  <2>11. calls'[e].hwms = 0 => pipe'[e].hwm = Hwm[e]
    BY <1>2, <1>5, <1>7, <2>1 DEF HwmEnd
  <2> QED
    BY <2>8, <2>9, <2>10, <2>11 DEF HwmEnd
<1> QED
  BY <1>1, <1>6, <1>7, <1>8, <1>9 DEF HwmInv

\* What a hiccup takes back is what was counted, when no delimiter is among it.
LEMMA DroppedIsCount ==
    ASSUME NEW u \in Upipe, \A n \in 1..Len(Content(u)) : Content(u)[n].kind # "delimiter"
    PROVE  Dropped(u) = Count(Content(u))
<1> DEFINE q == Content(u)
<1>1. q \in Seq(Part)
  BY ContentType
<1>2. Dropped(u) = Cardinality({n \in DOMAIN q : ~q[n].more})
  BY DEF Dropped, Content
<1>3. \A n \in 1..Len(q) : q[n].kind # "delimiter"
  OBVIOUS
<1> HIDE DEF q
<1>4. DOMAIN q = 1..Len(q)
  BY <1>1, LenProperties
<1>5. {n \in DOMAIN q : ~q[n].more} = Whole(q)
  BY <1>3, <1>4 DEF Whole, IsWhole
<1> QED
  BY <1>2, <1>5 DEF Count, q

\* process_hiccup () takes back exactly what it drops.
LEMMA HwmProcessHiccup == ASSUME IInv, HwmInv, NEW e \in End, process_hiccup(e) PROVE HwmInv'
<1> DEFINE p == peer(e)
           o == pipe[e].outpipe
           r == cmds[e]
           a == Head(r).arg
           D == Dropped(upipe[o])
           w == pipe[e].msgs_written - D
           q == [pipe[e] EXCEPT !.msgs_written = w, !.outpipe = a, !.out_active = TRUE]
<1>1. p \in End /\ p # e /\ peer(p) = e /\ \A d \in End : d = e \/ d = p
  BY Peers
<1>2. /\ r # <<>> /\ Head(r).type = "hiccup" /\ Reply(e, <<>>)
      /\ upipe' = [upipe EXCEPT ![o] = NoUpipe] /\ calls' = calls
  BY DEF process_hiccup, Receive
<1>3. /\ pipe \in [End -> PipeObject] /\ pipe[e] \in PipeObject /\ upipe \in [UpipeId -> Upipe]
      /\ r \in Seq(Command) /\ QueueOK(r)
  BY EndFacts DEF IInv, TypeOK
<1>4. cmds'[e] = Tail(r) /\ cmds'[p] = cmds[p]
  BY <1>2, Consumed
<1>5. a \in HArgs(r) /\ HArgs(Tail(r)) \subseteq HArgs(r) /\ Has(r, "hiccup")
  <2> HIDE DEF r
  <2>1. /\ HArgs(r) = HArgs(Tail(r)) \cup IF Head(r).type = "hiccup" THEN {Head(r).arg} ELSE {}
        /\ \A t : Has(r, t) <=> Has(Tail(r), t) \/ Head(r).type = t
    BY <1>2, <1>3, QTail
  <2> QED
    BY <1>2, <2>1
<1>6. /\ pipe' = [pipe EXCEPT ![e] = q]
  BY <1>3 DEF process_hiccup
<1>7. /\ q.state = pipe[e].state /\ q.outpipe = a /\ q.msgs_written = w /\ q.msgs_read = pipe[e].msgs_read
      /\ q.peers_msgs_read = pipe[e].peers_msgs_read /\ q.hwm = pipe[e].hwm
  <2> HIDE DEF w, a
  <2> QED
    BY <1>3 DEF PipeObject
<1> HIDE DEF q
<1>8. pipe'[e] = q /\ pipe'[p] = pipe[p] /\ State(e)' = State(e) /\ State(p)' = State(p)
  BY <1>1, <1>3, <1>6, <1>7 DEF State
<1>9. State(e) \in Begun /\ State(e) \notin Acked
  <2>1. TermOK(State(e), State(p), cmds[e])
    BY DEF IInv, TermInv
  <2> QED
    BY <1>5, <2>1 DEF TermOK, Begun, Acked
<1>10. o \in UpipeId /\ upipe[o] \in Upipe
  BY <1>3, <1>9, EndFacts
<1>11. \A j \in UpipeId : upipe'[j] = IF j = o THEN NoUpipe ELSE upipe[j]
  BY <1>3, <1>10, <1>2
<1>12. NoUpipe.partial = <<>>
  BY DEF NoUpipe, NewUpipe
<1>13. PartialInv'
  <2>1. Begins(<<>>)
    BY DEF Begins
  <2> QED
    BY <1>11, <1>12, <2>1 DEF HwmInv, PartialInv
<1>14. ASSUME State(p) = "active" PROVE HwmEnd(p)'
  <2>1. o \notin Dir(e)
    <3>1. o \in Dir(p)
      <4>1. o # NULL
        BY <1>9 DEF IInv, QueuesInv
      <4> QED
        BY <1>1, <4>1 DEF Dir
    <3> QED
      BY <3>1 DEF IInv, QueuesInv
  <2>2. \A j \in UpipeId : j \in Dir(e) => Content(upipe'[j]) = Content(upipe[j])
    BY <1>11, <2>1
  <2>3. HwmEnd(p)
    BY <1>1, <1>14 DEF HwmInv
  <2> QED
    BY <1>1, <1>2, <1>4, <1>7, <1>8, <1>14, <2>2, <2>3, HwmFrame
<1>15. ASSUME State(e) = "active" PROVE HwmEnd(e)'
  <2>1. HwmEnd(e)
    BY <1>15 DEF HwmInv
  <2>2. HArgs(r) \subseteq UpipeId /\ o \notin HArgs(r)
    BY <1>15, OwnPipes
  <2>3. \A j \in HArgs(r) : Content(upipe'[j]) = <<>>
    BY <1>11, <2>1, <2>2 DEF HwmEnd
  <2>4. Content(upipe'[a]) = <<>> /\ \A j \in HArgs(Tail(r)) : Content(upipe'[j]) = <<>>
    BY <1>5, <2>3
  <2>5. D = Count(Content(upipe[o])) /\ D \in Nat
    <3>1. D \in Nat
      BY <1>10, DroppedCount
    <3>2. \A n \in 1..Len(Content(upipe[o])) : Content(upipe[o])[n].kind # "delimiter"
      BY <2>1 DEF HwmEnd, FilledOK
    <3> QED
      BY <1>10, <3>1, <3>2, DroppedIsCount
  <2>6. /\ pipe[e].msgs_written \in Int /\ pipe[e].peers_msgs_read \in Int /\ pipe[e].hwm \in Int
        /\ pipe[p].msgs_read \in Int
    BY Counters
  <2>7. pipe[p].msgs_read + D <= pipe[e].msgs_written
    BY <2>1, <2>5 DEF HwmEnd, FilledOK
  <2>8. Count(<<>>) = 0 /\ Len(<<>>) = 0
    <3>1. Len(<<>>) = 0
      OBVIOUS
    <3>2. Whole(<<>>) = {}
      BY <3>1 DEF Whole
    <3> QED
      BY <3>1, <3>2, FS_EmptySet DEF Count
  <2> HIDE DEF D
  <2>9. w \in Int /\ pipe[p].msgs_read + 0 <= w /\ w <= pipe[e].msgs_written
    BY <2>5, <2>6, <2>7
  <2>10. FilledOK(upipe'[a], w, pipe[p].msgs_read)
    <3>1. \A n \in 1..0 : FALSE
      OBVIOUS
    <3> HIDE DEF w
    <3> QED
      BY <2>4, <2>8, <2>9, <3>1 DEF FilledOK
  <2> HIDE DEF w
  <2>11. CountersOK(w, pipe[e].peers_msgs_read, pipe[e].hwm, pipe[p].msgs_read, Tail(r))
    <3>1. /\ pipe[e].peers_msgs_read <= pipe[p].msgs_read
          /\ Reports(r, pipe[e].peers_msgs_read, pipe[p].msgs_read)
          /\ NeverLowered /\ pipe[e].hwm > 0 => pipe[e].msgs_written - pipe[e].peers_msgs_read <= pipe[e].hwm
      BY <2>1 DEF HwmEnd, CountersOK
    <3> DEFINE lo == pipe[e].peers_msgs_read
               hi == pipe[p].msgs_read
    <3>2. Reports(Tail(r), lo, hi)
      <4>1. r \in Seq(Command) /\ r # <<>> /\ lo \in Int /\ hi \in Int /\ Reports(r, lo, hi)
        BY <1>2, <1>3, <2>6, <3>1
      <4> HIDE DEF r, lo, hi
      <4> QED
        BY <4>1, ReportsTail
    <3>3. NeverLowered /\ pipe[e].hwm > 0 => w - pipe[e].peers_msgs_read <= pipe[e].hwm
      BY <2>6, <2>9, <3>1
    <3> QED
      BY <3>1, <3>2, <3>3 DEF CountersOK
  <2>12. calls'[e].hwms = 0 => pipe'[e].hwm = Hwm[e]
    BY <1>2, <1>7, <1>8, <2>1 DEF HwmEnd
  <2> QED
    BY <1>4, <1>7, <1>8, <2>4, <2>10, <2>11, <2>12 DEF HwmEnd
<1> QED
  BY <1>1, <1>8, <1>13, <1>14, <1>15 DEF HwmInv

\* Once a request or an acknowledgement is processed no end writes any more.
LEMMA HwmTermCommands ==
    ASSUME IInv, HwmInv, NEW e \in End, process_pipe_term(e) \/ process_pipe_term_ack(e)
    PROVE  HwmInv'
<1> DEFINE p == peer(e)
           r == cmds[e]
<1>1. p \in End /\ p # e /\ peer(p) = e /\ \A d \in End : d = e \/ d = p
  BY Peers
<1>2. /\ pipe \in [End -> PipeObject] /\ pipe[e] \in PipeObject /\ upipe \in [UpipeId -> Upipe]
      /\ r \in Seq(Command) /\ QueueOK(r)
  BY EndFacts DEF IInv, TypeOK
<1>3. r # <<>> /\ Head(r).type \in {"pipe_term", "pipe_term_ack"}
  BY DEF process_pipe_term, process_pipe_term_ack, Receive
<1>4. Has(r, Head(r).type)
  <2> HIDE DEF r
  <2> QED
    BY <1>2, <1>3, QTail
<1>5. TermOK(State(e), State(p), cmds[e])
  BY DEF IInv, TermInv
<1>6. State(p) # "active"
  BY <1>3, <1>4, <1>5 DEF TermOK, Begun, Acked
<1>7. CASE process_pipe_term(e)
  <2> DEFINE q == IF pipe[e].state = "active" /\ pipe[e].delay
                  THEN [pipe[e] EXCEPT !.state = "waiting_for_delimiter"]
                  ELSE [pipe[e] EXCEPT !.outpipe = NULL,
                                       !.state = IF pipe[e].state = "term_req_sent1"
                                                 THEN "term_req_sent2" ELSE "term_ack_sent"]
  <2>1. pipe' = [pipe EXCEPT ![e] = q] /\ UNCHANGED upipe
    BY <1>7 DEF process_pipe_term
  <2>2. q.state # "active"
    BY <1>2 DEF PipeObject
  <2> HIDE DEF q
  <2>3. State(e)' # "active" /\ State(p)' # "active"
    BY <1>1, <1>2, <1>6, <2>1, <2>2 DEF State
  <2>4. PartialInv'
    BY <2>1 DEF HwmInv, PartialInv
  <2> QED
    BY <1>1, <2>3, <2>4 DEF HwmInv
<1>8. CASE process_pipe_term_ack(e)
  <2>1. pipe' = [pipe EXCEPT ![e] = Gone] /\ upipe' = [upipe EXCEPT ![pipe[e].inpipe] = NoUpipe]
    BY <1>8 DEF process_pipe_term_ack
  <2>2. State(e)' # "active" /\ State(p)' # "active"
    BY <1>1, <1>2, <1>6, <2>1 DEF State, Gone
  <2>3. NoUpipe.partial = <<>> /\ Begins(<<>>)
    BY DEF NoUpipe, NewUpipe, Begins
  <2>4. \A j \in UpipeId : upipe'[j] = NoUpipe \/ upipe'[j] = upipe[j]
    BY <1>2, <2>1
  <2>5. PartialInv'
    BY <2>3, <2>4 DEF HwmInv, PartialInv
  <2> QED
    BY <1>1, <2>2, <2>5 DEF HwmInv
<1> QED
  BY <1>7, <1>8
-----------------------------------------------------------------------------
\* The counters agree at first.
LEMMA HwmInit == ASSUME Init PROVE HwmInv
<1>1. \A e \in End : peer(e) \in End /\ peer(peer(e)) = e
  BY Peers
<1>2. /\ NewUpipe.partial = <<>> /\ NoUpipe.partial = <<>> /\ Content(NewUpipe) = <<>>
  BY DEF NewUpipe, NoUpipe, Content
<1>3. PartialInv
  <2>1. Begins(<<>>)
    BY DEF Begins
  <2>2. \A j \in UpipeId : upipe[j] = NewUpipe \/ upipe[j] = NoUpipe
    BY DEF Init
  <2> QED
    BY <1>2, <2>1, <2>2 DEF PartialInv
<1>4. ASSUME NEW e \in End PROVE HwmEnd(e)
  <2>1. /\ pipe[e].outpipe = peer(e) /\ pipe[e].msgs_written = 0 /\ pipe[e].peers_msgs_read = 0
        /\ pipe[e].hwm = Hwm[e] /\ pipe[peer(e)].msgs_read = 0 /\ cmds[e] = <<>>
    BY <1>1 DEF Init
  <2>2. upipe[peer(e)] = NewUpipe
    <3>1. peer(e) \in {1, 2}
      BY <1>1 DEF End
    <3>2. peer(e) \in UpipeId /\ peer(e) <= 2
      BY <3>1, PipeAssumption DEF UpipeId
    <3> QED
      BY <3>2 DEF Init
  <2>3. Count(<<>>) = 0 /\ Len(<<>>) = 0 /\ 1..0 = {}
    <3>1. Len(<<>>) = 0
      OBVIOUS
    <3>2. Whole(<<>>) = {}
      BY <3>1 DEF Whole
    <3> QED
      BY <3>1, <3>2, FS_EmptySet DEF Count
  <2>4. FilledOK(NewUpipe, 0, 0)
    BY <1>2, <2>3 DEF FilledOK
  <2>5. HArgs(<<>>) = {} /\ Reports(<<>>, 0, 0)
    BY <2>3 DEF HArgs, Reports
  <2>6. Hwm[e] \in Nat
    BY PipeAssumption DEF End
  <2>7. CountersOK(0, 0, Hwm[e], 0, <<>>)
    BY <2>5, <2>6 DEF CountersOK
  <2> QED
    BY <2>1, <2>2, <2>4, <2>5, <2>7 DEF HwmEnd
<1> QED
  BY <1>3, <1>4 DEF HwmInv

\* Every step of the pipe preserves the invariant of the counters.
LEMMA HwmStep == ASSUME IInv, HwmInv, [Next]_vars PROVE HwmInv'
<1>1. CASE UNCHANGED vars
  BY <1>1 DEF vars, HwmInv, PartialInv, HwmEnd, State, FilledOK, CountersOK
<1>2. CASE Next
  <2>1. PICK e \in End :
          \/ check_write(e) \/ write(e) \/ rollback(e) \/ flush(e)
          \/ check_read(e) \/ read(e)
          \/ \E delay \in Delays : terminate(e, delay)
          \/ hiccup(e) \/ set_hwms(e)
          \/ process_command(e)
    BY <1>2 DEF Next
  <2>2. CASE check_write(e) \/ rollback(e) \/ set_hwms(e)
    BY <2>2, HwmWriterStep
  <2>3. CASE write(e)
    BY <2>3, HwmWrite
  <2>4. CASE flush(e)
    BY <2>4, HwmFlush
  <2>5. CASE check_read(e) \/ read(e)
    BY <2>5, HwmReadStep
  <2>6. CASE \E delay \in Delays : terminate(e, delay)
    <3>1. PICK delay \in BOOLEAN : terminate(e, delay)
      BY <2>6, PipeAssumption
    <3> QED
      BY <3>1, HwmTerminate
  <2>7. CASE hiccup(e)
    BY <2>7, HwmHiccup
  <2>8. CASE process_command(e)
    <3>1. CASE process_activate_read(e) \/ process_activate_write(e)
      BY <3>1, HwmActivate
    <3>2. CASE process_hiccup(e)
      BY <3>2, HwmProcessHiccup
    <3>3. CASE process_pipe_term(e) \/ process_pipe_term_ack(e)
      BY <3>3, HwmTermCommands
    <3> QED
      BY <2>8, <3>1, <3>2, <3>3 DEF process_command
  <2> QED
    BY <2>1, <2>2, <2>3, <2>4, <2>5, <2>6, <2>7, <2>8
<1> QED
  BY <1>1, <1>2

\* The counters check_hwm () subtracts do not wrap around.
CountersNeverWrap == \A e \in End : State(e) = "active" =>
    pipe[e].peers_msgs_read <= pipe[e].msgs_written

\* The counters bound what is in the queue.
LEMMA HwmInvImplies == ASSUME IInv, HwmInv PROVE CountersNeverWrap /\ (NeverLowered => HwmRespected)
<1> SUFFICES ASSUME NEW e \in End, State(e) = "active"
             PROVE  /\ NeverLowered /\ pipe[e].hwm > 0 =>
                         Cardinality(Unread(pipe[e].outpipe)) <= pipe[e].hwm
                    /\ pipe[e].peers_msgs_read <= pipe[e].msgs_written
  BY DEF HwmRespected, CountersNeverWrap
<1> DEFINE q == Content(upipe[pipe[e].outpipe])
<1>1. HwmEnd(e)
  BY DEF HwmInv
<1>2. pipe[e].outpipe \in UpipeId /\ upipe \in [UpipeId -> Upipe]
  BY OwnPipes DEF IInv, TypeOK
<1>3. q \in Seq(Part)
  BY <1>2, ContentType
<1>4. Count(q) \in Nat
  BY <1>3, WholeFinite
<1>5. Cardinality(Unread(pipe[e].outpipe)) = Count(q)
  <2>1. Unread(pipe[e].outpipe) = {n \in DOMAIN q : IsWhole(q[n])}
    BY DEF Unread, Content
  <2> HIDE DEF q
  <2>2. DOMAIN q = 1..Len(q)
    BY <1>3, LenProperties
  <2> QED
    BY <2>1, <2>2 DEF Whole, Count
<1>6. /\ pipe[peer(e)].msgs_read + Count(q) <= pipe[e].msgs_written
      /\ pipe[e].peers_msgs_read <= pipe[peer(e)].msgs_read
      /\ NeverLowered /\ pipe[e].hwm > 0 => pipe[e].msgs_written - pipe[e].peers_msgs_read <= pipe[e].hwm
  BY <1>1 DEF HwmEnd, FilledOK, CountersOK
<1>7. /\ pipe[e].msgs_written \in Int /\ pipe[e].peers_msgs_read \in Int /\ pipe[e].hwm \in Int
      /\ pipe[peer(e)].msgs_read \in Int
  BY Counters
<1> HIDE DEF q
<1>8. \A w, s, h, m, k \in Int : m + k <= w /\ s <= m /\ k >= 0
                                   => s <= w /\ (w - s <= h => k <= h)
  OBVIOUS
<1>9. Count(q) \in Int /\ Count(q) >= 0
  BY <1>4
<1> QED
  BY <1>5, <1>6, <1>7, <1>8, <1>9

\* The invariant behind the next two theorems.
THEOREM PipeHwmInvariance == Spec => [](IInv /\ HwmInv)
<1>1. Init => HwmInv
  BY HwmInit
<1>2. IInv /\ HwmInv /\ [Next]_vars => HwmInv'
  BY HwmStep
<1>3. Spec => []IInv
  BY PipeInvariance
<1> QED
  BY <1>1, <1>2, <1>3, PTL DEF Spec

\* Whatever hiccups take back and setsockopt () sets, the counters check_hwm ()
\* subtracts never wrap around: an active end is never told of more messages read
\* than it has written.
THEOREM PipeCountersNeverWrap == Spec => []CountersNeverWrap
<1>1. IInv /\ HwmInv => CountersNeverWrap
  BY HwmInvImplies
<1> QED
  BY <1>1, PipeHwmInvariance, PTL

\* As long as setsockopt () does not lower it, the watermark is a hard limit on what
\* an end has written and its peer has not read.
THEOREM PipeHwmRespected == ASSUME NeverLowered PROVE Spec => []HwmRespected
<1>1. IInv /\ HwmInv => HwmRespected
  BY HwmInvImplies
<1> QED
  BY <1>1, PipeHwmInvariance, PTL

-----------------------------------------------------------------------------
(* The order of messages *)

\* What the user of an end has read last, as a part, and the n-th part after it.
LastGot(p) == [kind |-> "data", num |-> got[p].num, more |-> got[p].more]
At(q, g, n) == IF n = 0 THEN g ELSE q[n]

\* What may come behind a part a on the way to end p: the rest of the message, the
\* next message (a later one where a hiccup drops some, or the rest of one of those
\* in C), or between two messages a delimiter or a credential, which has the number
\* of the last message written.
Follows(p, C, a, m) ==
    /\ m.kind = "data" =>
         IF a.more THEN m.num = a.num /\ ~m.more
         ELSE /\ \/ m.more <=> peer(p) \in MultiPart
                 \/ ~m.more /\ p \in Hiccuper /\ m.num \in C
              /\ m.num = a.num + 1 \/ (p \in Hiccuper /\ m.num > a.num)
    /\ m.kind = "credential" =>
         ~a.more /\ ~m.more /\ (m.num = a.num \/ (p \in Hiccuper /\ m.num >= a.num))
    /\ m.kind = "delimiter" => ~a.more /\ ~m.more

\* Between the i-th part and the j-th there are credentials only: once they are taken
\* out, the one comes behind the other.
Clear(q, i, j) == \A l \in (i + 1)..(j - 1) : q[l].kind = "credential"
Chain(p, C, q, g) ==
    \A j \in 1..Len(q) : \A i \in 0..(j - 1) : Clear(q, i, j) => Follows(p, C, At(q, g, i), q[j])

\* What p will read after g: f can be read now, q when all is flushed.  Both end with
\* a whole message.
Stream(p, C, f, q, g) ==
    Chain(p, C, q, g) /\ ~At(f, g, Len(f)).more /\ ~At(q, g, Len(q)).more

\* The number of the last whole message written, from the writer's point of view.
Base(s) == IF s.more THEN s.num - 1 ELSE s.num

\* The message that the writer has begun is in its outpipe, or has been cut.
WriterOK(p, s, r) ==
    IF s.more THEN /\ s.num >= 1 /\ peer(p) \in MultiPart
                   /\ \/ r = <<[kind |-> "data", num |-> s.num, more |-> TRUE]>>
                      \/ r = <<>> /\ p \in Hiccuper /\ s.num \in s.cut
    ELSE s.num >= 0 /\ r = <<>>

\* What the writer writes next comes behind all that is on its way, and directly
\* behind it unless a hiccup has dropped some.
Linked(p, q, g, s) ==
    /\ \A n \in 0..Len(q) : 0 <= At(q, g, n).num /\ At(q, g, n).num <= Base(s)
    /\ p \in Hiccuper \/ At(q, g, Len(q)).num = Base(s)

\* The messages on their way to p that a hiccup has cut.
Cut(p) == sent[peer(p)].cut
InU(p) == upipe[pipe[p].inpipe]

\* The direction in which p reads.
OrderEnd(p) ==
    /\ p \notin Hiccuper => HArgs(cmds[peer(p)]) = {}
    /\ Readable(p) => Stream(p, Cut(p), InU(p).flushed, Content(InU(p)), LastGot(p))
    /\ State(peer(p)) = "active" =>
         /\ WriterOK(p, sent[peer(p)], upipe[pipe[peer(p)].outpipe].partial)
         /\ \A j \in HArgs(cmds[peer(p)]) : upipe[j].partial = <<>>
    /\ State(peer(p)) = "active" /\ Readable(p)
         => Linked(p, Content(InU(p)), LastGot(p), sent[peer(p)])

OrderInv == \A p \in End : OrderEnd(p)
-----------------------------------------------------------------------------
(* Streams of parts *)

\* The parts that a stream has are parts.
LEMMA AtType ==
    ASSUME NEW q \in Seq(Part), NEW g \in Part, NEW n \in 0..Len(q)
    PROVE  At(q, g, n) \in Part
<1>1. CASE n = 0
  BY <1>1 DEF At
<1>2. CASE n # 0
  <2>1. Len(q) \in Nat
    BY LenProperties
  <2>2. n \in 1..Len(q)
    BY <1>2, <2>1
  <2>3. q[n] \in Part
    BY <2>2, ElementOfSeq
  <2> QED
    BY <1>2, <2>3 DEF At
<1> QED
  BY <1>1, <1>2

\* What comes behind a credential comes behind what the credential comes behind.
LEMMA Through ==
    ASSUME NEW p, NEW C, NEW a \in Part, NEW c \in Part, NEW m \in Part, c.kind = "credential",
           Follows(p, C, a, c), Follows(p, C, c, m)
    PROVE  Follows(p, C, a, m)
<1>1. a.num \in Int /\ c.num \in Int /\ m.num \in Int
  BY DEF Part
<1>2. ~a.more /\ ~c.more /\ (c.num = a.num \/ (p \in Hiccuper /\ c.num >= a.num))
  BY DEF Follows
<1>3. CASE m.kind = "data"
  <2>1. /\ \/ m.more <=> peer(p) \in MultiPart
           \/ ~m.more /\ p \in Hiccuper /\ m.num \in C
        /\ m.num = c.num + 1 \/ (p \in Hiccuper /\ m.num > c.num)
    BY <1>2, <1>3 DEF Follows
  <2>2. m.num = a.num + 1 \/ (p \in Hiccuper /\ m.num > a.num)
    BY <1>1, <1>2, <2>1
  <2> QED
    BY <1>2, <1>3, <2>1, <2>2 DEF Follows
<1>4. CASE m.kind = "credential"
  <2>1. ~m.more /\ (m.num = c.num \/ (p \in Hiccuper /\ m.num >= c.num))
    BY <1>4 DEF Follows
  <2>2. m.num = a.num \/ (p \in Hiccuper /\ m.num >= a.num)
    BY <1>1, <1>2, <2>1
  <2> QED
    BY <1>2, <1>4, <2>1, <2>2 DEF Follows
<1>5. CASE m.kind = "delimiter"
  BY <1>2, <1>5 DEF Follows
<1> QED
  BY <1>3, <1>4, <1>5 DEF Part

\* The chain q is one longer with m.
Grown(p, C, q, g, m) ==
    /\ Append(q, m) \in Seq(Part) /\ Len(Append(q, m)) = Len(q) + 1 /\ Len(q) \in Nat
    /\ Chain(p, C, Append(q, m), g)
    /\ At(Append(q, m), g, Len(q) + 1) = m
    /\ \A n \in 0..Len(q) : At(Append(q, m), g, n) = At(q, g, n)

\* A part written behind the last one.
LEMMA ChainAppend ==
    ASSUME NEW p, NEW C, NEW g \in Part, NEW q \in Seq(Part), NEW m \in Part,
           Chain(p, C, q, g), Follows(p, C, At(q, g, Len(q)), m)
    PROVE  Grown(p, C, q, g, m)
<1> DEFINE r == Append(q, m)
           l == Len(q)
<1>1. /\ r \in Seq(Part) /\ Len(r) = l + 1 /\ l \in Nat /\ (\A i \in 1..l : r[i] = q[i]) /\ r[l + 1] = m
  BY AppendProperties, LenProperties
<1> HIDE DEF r
<1>2. \A n \in 0..l : At(r, g, n) = At(q, g, n)
  BY <1>1 DEF At
<1>3. At(r, g, l + 1) = m
  BY <1>1 DEF At
<1>4. ASSUME NEW j \in 1..Len(r), NEW i \in 0..(j - 1), Clear(r, i, j)
      PROVE  Follows(p, C, At(r, g, i), r[j])
  <2>1. i \in 0..l /\ At(r, g, i) = At(q, g, i) /\ i \in Int /\ j \in Int
    BY <1>1, <1>2
  <2>2. CASE j # l + 1
    <3>1. j \in 1..l /\ \A n \in (i + 1)..(j - 1) : n \in 1..l
      BY <1>1, <2>1, <2>2
    <3>2. Clear(q, i, j)
      BY <1>1, <1>4, <3>1 DEF Clear
    <3>3. Follows(p, C, At(q, g, i), q[j])
      BY <3>1, <3>2 DEF Chain
    <3> QED
      BY <1>1, <2>1, <3>1, <3>3
  <2>3. CASE j = l + 1 /\ i = l
    BY <1>1, <2>1, <2>3
  <2>4. CASE j = l + 1 /\ i # l
    <3>1. /\ l \in 1..l /\ i \in 0..(l - 1) /\ l \in (i + 1)..(j - 1)
          /\ \A n \in (i + 1)..(l - 1) : n \in (i + 1)..(j - 1) /\ n \in 1..l
      BY <1>1, <2>1, <2>4
    <3>2. Clear(q, i, l) /\ q[l].kind = "credential"
      BY <1>1, <1>4, <3>1 DEF Clear
    <3>3. Follows(p, C, At(q, g, i), q[l])
      BY <3>1, <3>2 DEF Chain
    <3>4. At(q, g, l) = q[l] /\ q[l] \in Part /\ At(q, g, i) \in Part
      <4>1. At(q, g, l) = q[l]
        BY <1>1, <3>1 DEF At
      <4>2. q[l] \in Part
        BY <3>1, ElementOfSeq
      <4>3. At(q, g, i) \in Part
        BY <2>1, AtType
      <4> QED
        BY <4>1, <4>2, <4>3
    <3>5. Follows(p, C, At(q, g, i), m)
      BY <3>2, <3>3, <3>4, Through
    <3> QED
      BY <1>1, <2>1, <2>4, <3>5
  <2> QED
    BY <2>2, <2>3, <2>4
<1> QED
  BY <1>1, <1>2, <1>3, <1>4 DEF Chain, Grown, r

\* The first k parts of a stream are taken, of which those behind the z-th are
\* credentials, and h was the z-th, or one that is as good.
Taken(s, f, g, h, k, z) ==
    /\ k \in 0..Len(s) /\ Len(f) = Len(s) - k /\ \A n \in 1..Len(f) : f[n] = s[n + k]
    /\ z \in 0..k /\ Clear(s, z, k + 1)
    /\ h.num = At(s, g, z).num /\ h.more = At(s, g, z).more

\* Where the n-th part that is left was.
Was(n, k, z) == IF n = 0 THEN z ELSE n + k

\* The parts that are left have the numbers that they had.
Left(q, r, g, h, k, z) ==
    \A n \in 0..Len(r) : /\ Was(n, k, z) \in 0..Len(q)
                         /\ At(r, h, n).num = At(q, g, Was(n, k, z)).num
                         /\ At(r, h, n).more = At(q, g, Was(n, k, z)).more

\* What is left is still in order.
LEMMA ChainTake ==
    ASSUME NEW p, NEW C, NEW g, NEW h, NEW q \in Seq(Part), NEW r \in Seq(Part), NEW k, NEW z,
           Taken(q, r, g, h, k, z), Chain(p, C, q, g)
    PROVE  Chain(p, C, r, h) /\ Left(q, r, g, h, k, z)
<1> DEFINE lr == Len(r)
           lq == Len(q)
<1>1. /\ k \in 0..lq /\ lr = lq - k /\ (\A n \in 1..lr : r[n] = q[n + k])
      /\ z \in 0..k /\ (\A n \in (z + 1)..((k + 1) - 1) : q[n].kind = "credential")
      /\ h.num = At(q, g, z).num /\ h.more = At(q, g, z).more
  BY DEF Taken, Clear
<1>2. lq \in Nat /\ lr \in Nat /\ k \in Nat /\ z \in Nat /\ z <= k
  BY <1>1, LenProperties
<1> HIDE DEF lr, lq
<1>3. ASSUME NEW n \in 0..lr
      PROVE  /\ Was(n, k, z) \in 0..lq
             /\ At(r, h, n).num = At(q, g, Was(n, k, z)).num
             /\ At(r, h, n).more = At(q, g, Was(n, k, z)).more
  <2>1. CASE n = 0
    <3>1. Was(n, k, z) = z /\ z \in 0..lq /\ At(r, h, n) = h
      BY <1>1, <1>2, <2>1 DEF Was, At
    <3> QED
      BY <1>1, <3>1
  <2>2. CASE n # 0
    <3>1. n \in 1..lr /\ n + k # 0 /\ n + k \in 0..lq /\ Was(n, k, z) = n + k
      BY <1>1, <1>2, <2>2 DEF Was
    <3>2. At(r, h, n) = r[n] /\ At(q, g, n + k) = q[n + k]
      BY <2>2, <3>1 DEF At
    <3> QED
      BY <1>1, <3>1, <3>2
  <2> QED
    BY <2>1, <2>2
<1>4. ASSUME NEW j \in 1..lr, NEW i \in 0..(j - 1), Clear(r, i, j)
      PROVE  Follows(p, C, At(r, h, i), r[j])
  <2> DEFINE w == Was(i, k, z)
  <2>1. /\ i \in 0..lr /\ j + k \in 1..lq /\ w \in 0..((j + k) - 1) /\ r[j] = q[j + k]
        /\ w = (IF i = 0 THEN z ELSE i + k)
    BY <1>1, <1>2 DEF Was
  <2> HIDE DEF w
  <2>2. Clear(q, w, j + k)
    <3> SUFFICES ASSUME NEW n \in (w + 1)..((j + k) - 1) PROVE q[n].kind = "credential"
      BY DEF Clear
    <3>1. CASE n <= k
      <4>1. n \in (z + 1)..((k + 1) - 1)
        BY <1>2, <2>1, <3>1
      <4> QED
        BY <1>1, <4>1
    <3>2. CASE n > k
      <4> DEFINE y == n - k
      <4>1. y \in (i + 1)..(j - 1) /\ y \in 1..lr /\ y + k = n
        BY <1>2, <2>1, <3>2
      <4> HIDE DEF y
      <4>2. r[y].kind = "credential" /\ r[y] = q[y + k]
        BY <1>1, <1>4, <4>1 DEF Clear
      <4> QED
        BY <4>1, <4>2
    <3>3. n \in Int /\ k \in Int
      BY <1>2, <2>1
    <3> QED
      BY <3>1, <3>2, <3>3
  <2>3. Follows(p, C, At(q, g, w), q[j + k])
    BY <2>1, <2>2 DEF Chain, lq
  <2>4. At(r, h, i).num = At(q, g, w).num /\ At(r, h, i).more = At(q, g, w).more
    BY <1>3, <2>1 DEF w
  <2> QED
    BY <2>1, <2>3, <2>4 DEF Follows
<1> QED
  BY <1>3, <1>4 DEF Chain, Left, lr, lq

\* A stream without its last parts.
LEMMA ChainPrefix ==
    ASSUME NEW p, NEW C, NEW g, NEW s \in Seq(Part), NEW c \in Seq(Part), Chain(p, C, s \o c, g)
    PROVE  Chain(p, C, s, g)
<1> DEFINE q == s \o c
           l == Len(s)
<1>1. /\ l \in Nat /\ Len(c) \in Nat /\ Len(q) = l + Len(c)
      /\ \A i \in 1..(l + Len(c)) : q[i] = IF i <= l THEN s[i] ELSE c[i - l]
  BY ConcatProperties, LenProperties
<1> HIDE DEF q, l
<1>2. \A n \in 1..l : n \in 1..Len(q) /\ q[n] = s[n]
  BY <1>1
<1>3. ASSUME NEW j \in 1..l, NEW i \in 0..(j - 1), Clear(s, i, j) PROVE Follows(p, C, At(s, g, i), s[j])
  <2>1. \A n \in (i + 1)..(j - 1) : n \in 1..l
    BY <1>1
  <2>2. Clear(q, i, j)
    BY <1>2, <1>3, <2>1 DEF Clear
  <2>3. Follows(p, C, At(q, g, i), q[j]) /\ q[j] = s[j]
    BY <1>2, <2>2 DEF Chain, q
  <2>4. At(q, g, i) = At(s, g, i)
    <3>1. i = 0 \/ i \in 1..l
      BY <1>1
    <3> QED
      BY <1>2, <3>1 DEF At
  <2> QED
    BY <2>3, <2>4
<1> QED
  BY <1>3 DEF Chain, l

\* One more message may be cut.
LEMMA StreamCut ==
    ASSUME NEW p, NEW C, NEW D, C \subseteq D, NEW f, NEW q, NEW g, Stream(p, C, f, q, g)
    PROVE  Stream(p, D, f, q, g)
<1>1. ASSUME NEW a, NEW m, Follows(p, C, a, m) PROVE Follows(p, D, a, m)
  BY <1>1 DEF Follows
<1>2. Chain(p, D, q, g)
  BY <1>1 DEF Stream, Chain
<1> QED
  BY <1>2 DEF Stream

-----------------------------------------------------------------------------
(* Steps that leave a direction alone *)

\* An end writes and reads apart from the other direction.
LEMMA Apart ==
    ASSUME IInv, NEW e \in End
    PROVE  /\ pipe[e].outpipe # NULL => /\ pipe[e].outpipe \in UpipeId
                                        /\ pipe[e].outpipe \in Dir(peer(e)) /\ pipe[e].outpipe \notin Dir(e)
           /\ State(e) # "gone" => /\ pipe[e].inpipe \in UpipeId
                                   /\ pipe[e].inpipe \in Dir(e) /\ pipe[e].inpipe \notin Dir(peer(e))
<1>1. peer(e) \in End /\ peer(peer(e)) = e
  BY Peers
<1>2. Dir(e) \cap Dir(peer(e)) = {} /\ (pipe[e].inpipe = NULL <=> State(e) = "gone")
  BY DEF IInv, QueuesInv
<1>3. pipe[e].inpipe \in UpipeId \cup {NULL} /\ pipe[e].outpipe \in UpipeId \cup {NULL}
  BY DEF IInv, TypeOK, PipeObject
<1>4. pipe[e].outpipe # NULL => pipe[e].outpipe \in Dir(peer(e))
  BY <1>1 DEF Dir
<1>5. pipe[e].inpipe # NULL => pipe[e].inpipe \in Dir(e)
  BY DEF Dir
<1> QED
  BY <1>2, <1>3, <1>4, <1>5

\* A step that neither adds to what p reads nor takes from it.
LEMMA OrderFrame ==
    ASSUME IInv, NEW p \in End, OrderEnd(p),
           Readable(p)' => /\ Readable(p) /\ pipe'[p].inpipe = pipe[p].inpipe
                           /\ upipe'[pipe[p].inpipe].flushed = upipe[pipe[p].inpipe].flushed
                           /\ upipe'[pipe[p].inpipe].complete = upipe[pipe[p].inpipe].complete,
           State(peer(p))' = "active" =>
                           /\ State(peer(p)) = "active" /\ sent'[peer(p)] = sent[peer(p)]
                           /\ pipe'[peer(p)].outpipe = pipe[peer(p)].outpipe
                           /\ \A j \in UpipeId : j \in Dir(p) => upipe'[j].partial = upipe[j].partial,
           got'[p] = got[p], HArgs(cmds'[peer(p)]) \subseteq HArgs(cmds[peer(p)]), Cut(p)' = Cut(p)
    PROVE  OrderEnd(p)'
<1> DEFINE e == peer(p)
<1>1. e \in End /\ peer(e) = p
  BY Peers
<1>2. LastGot(p)' = LastGot(p)
  BY DEF LastGot
<1>3. (p \notin Hiccuper => HArgs(cmds[e]) = {})'
  BY DEF OrderEnd
<1>4. ASSUME Readable(p)'
      PROVE  /\ Stream(p, Cut(p), InU(p).flushed, Content(InU(p)), LastGot(p))'
             /\ Content(InU(p))' = Content(InU(p)) /\ Readable(p)
  <2>1. /\ upipe'[pipe'[p].inpipe].flushed = InU(p).flushed
        /\ upipe'[pipe'[p].inpipe].complete = InU(p).complete /\ Readable(p)
    BY <1>4 DEF InU
  <2>2. Content(InU(p))' = Content(InU(p)) /\ InU(p)'.flushed = InU(p).flushed
    BY <2>1 DEF Content, InU
  <2>3. Stream(p, Cut(p), InU(p).flushed, Content(InU(p)), LastGot(p))
    BY <2>1 DEF OrderEnd
  <2> QED
    BY <1>2, <2>1, <2>2, <2>3
<1>5. ASSUME State(e)' = "active"
      PROVE  /\ WriterOK(p, sent[e], upipe[pipe[e].outpipe].partial)'
             /\ \A j \in HArgs(cmds'[e]) : upipe'[j].partial = <<>>
             /\ State(e) = "active" /\ sent'[e] = sent[e]
  <2>1. State(e) = "active"
    BY <1>5
  <2>2. /\ pipe[e].outpipe \in UpipeId /\ pipe[e].outpipe \in Dir(p)
        /\ HArgs(cmds[e]) \subseteq UpipeId /\ HArgs(cmds[e]) \subseteq Dir(p)
    BY <1>1, <2>1, OwnPipes
  <2>3. /\ WriterOK(p, sent[e], upipe[pipe[e].outpipe].partial)
        /\ \A j \in HArgs(cmds[e]) : upipe[j].partial = <<>>
    BY <2>1 DEF OrderEnd
  <2>4. /\ sent'[e] = sent[e] /\ upipe'[pipe'[e].outpipe].partial = upipe[pipe[e].outpipe].partial
    BY <1>5, <2>2
  <2>5. \A j \in HArgs(cmds'[e]) : upipe'[j].partial = <<>>
    BY <1>5, <2>2, <2>3
  <2> QED
    BY <2>1, <2>3, <2>4, <2>5
<1>6. ASSUME State(e)' = "active", Readable(p)'
      PROVE  Linked(p, Content(InU(p)), LastGot(p), sent[e])'
  <2>1. Linked(p, Content(InU(p)), LastGot(p), sent[e])
    BY <1>4, <1>5, <1>6 DEF OrderEnd
  <2>2. Content(InU(p))' = Content(InU(p)) /\ sent'[e] = sent[e]
    BY <1>4, <1>5, <1>6
  <2> QED
    BY <1>2, <2>1, <2>2
<1> QED
  BY <1>3, <1>4, <1>5, <1>6 DEF OrderEnd

\* A step that leaves all queues alone.
LEMMA OrderStill ==
    ASSUME IInv, OrderInv, upipe' = upipe, sent' = sent, got' = got,
           \A d \in End : /\ Readable(d)' => Readable(d) /\ pipe'[d].inpipe = pipe[d].inpipe
                          /\ State(d)' = "active" => State(d) = "active" /\ pipe'[d].outpipe = pipe[d].outpipe
                          /\ HArgs(cmds'[d]) \subseteq HArgs(cmds[d])
    PROVE  OrderInv'
<1> SUFFICES ASSUME NEW p \in End PROVE OrderEnd(p)'
  BY DEF OrderInv
<1>1. peer(p) \in End /\ OrderEnd(p) /\ Cut(p)' = Cut(p)
  BY Peers DEF OrderInv, Cut
<1> QED
  BY <1>1, OrderFrame

\* Commands other than a hiccup bring no new pipe.
LEMMA QuietConcat ==
    ASSUME NEW q \in Seq(Command), NEW cs \in Seq(Command), ~Has(cs, "hiccup")
    PROVE  HArgs(q \o cs) = HArgs(q)
<1> DEFINE r == q \o cs
           a == Len(q)
           b == Len(cs)
<1>1. /\ Len(r) = a + b /\ a \in Nat /\ b \in Nat
      /\ \A i \in 1..(a + b) : r[i] = IF i <= a THEN q[i] ELSE cs[i - a]
  BY ConcatProperties, LenProperties
<1>2. \A i \in 1..b : cs[i].type # "hiccup"
  BY DEF Has
<1> HIDE DEF r, a, b
<1>3. /\ \A i \in 1..a : i \in 1..(a + b) /\ r[i] = q[i]
      /\ \A i \in 1..(a + b) : i \in 1..a \/ (i - a \in 1..b /\ r[i] = cs[i - a])
  BY <1>1
<1>4. {m \in 1..Len(r) : r[m].type = "hiccup"} = {m \in 1..a : q[m].type = "hiccup"}
  <2>1. ASSUME NEW m \in 1..(a + b), r[m].type = "hiccup" PROVE m \in 1..a /\ q[m].type = "hiccup"
    BY <1>2, <1>3, <2>1
  <2>2. ASSUME NEW m \in 1..a, q[m].type = "hiccup" PROVE m \in 1..(a + b) /\ r[m].type = "hiccup"
    BY <1>3, <2>2
  <2>3. Len(r) = a + b
    BY <1>1
  <2> QED
    BY <2>1, <2>2, <2>3
<1>5. \A m \in {m \in 1..a : q[m].type = "hiccup"} : r[m] = q[m]
  BY <1>3
<1> QED
  BY <1>4, <1>5 DEF HArgs, r, a

\* Sending them.
LEMMA QuietSend ==
    ASSUME IInv, NEW e \in End, NEW cs \in Seq(Command), ~Has(cs, "hiccup"), Send(e, cs)
    PROVE  \A d \in End : HArgs(cmds'[d]) = HArgs(cmds[d])
<1>1. peer(e) \in End /\ cmds \in [End -> Seq(Command)]
  BY Peers DEF IInv, TypeOK
<1>2. HArgs(cmds[peer(e)] \o cs) = HArgs(cmds[peer(e)])
  BY <1>1, QuietConcat
<1> QED
  BY <1>1, <1>2 DEF Send

\* Answering with them.
LEMMA QuietReply ==
    ASSUME IInv, NEW e \in End, cmds[e] # <<>>, NEW cs \in Seq(Command), ~Has(cs, "hiccup"), Reply(e, cs)
    PROVE  \A d \in End : HArgs(cmds'[d]) \subseteq HArgs(cmds[d])
<1> DEFINE p == peer(e)
<1>1. p \in End /\ p # e /\ (\A d \in End : d = e \/ d = p) /\ cmds \in [End -> Seq(Command)]
  BY Peers DEF IInv, TypeOK
<1>2. HArgs(cmds[p] \o cs) = HArgs(cmds[p])
  BY <1>1, QuietConcat
<1>3. HArgs(Tail(cmds[e])) \subseteq HArgs(cmds[e])
  <2>1. cmds[e] \in Seq(Command) /\ QueueOK(cmds[e])
    BY EndFacts
  <2> QED
    BY <2>1, QTail
<1>4. cmds'[e] = Tail(cmds[e]) /\ cmds'[p] = cmds[p] \o cs
  BY <1>1 DEF Reply
<1> QED
  BY <1>1, <1>2, <1>3, <1>4

\* The commands that are sent one at a time and bring no new pipe.
LEMMA QuietCommands ==
    ASSUME NEW c \in Command, c.type # "hiccup"
    PROVE  /\ <<>> \in Seq(Command) /\ ~Has(<<>>, "hiccup")
           /\ <<c>> \in Seq(Command) /\ ~Has(<<c>>, "hiccup")
<1>1. Len(<<>>) = 0 /\ Len(<<c>>) = 1 /\ <<c>>[1] = c
  OBVIOUS
<1>2. ~Has(<<>>, "hiccup")
  BY <1>1 DEF Has
<1>3. ~Has(<<c>>, "hiccup")
  <2>1. \A n \in 1..1 : n = 1
    OBVIOUS
  <2> DEFINE s == <<c>>
  <2>2. Len(s) = 1 /\ s[1] = c
    BY <1>1
  <2> HIDE DEF s
  <2>3. ~Has(s, "hiccup")
    BY <2>1, <2>2 DEF Has
  <2> QED
    BY <2>3 DEF s
<1> QED
  BY <1>2, <1>3

\* The steps that change the state of an end only, or its watermarks.
LEMMA OrderQuiet ==
    ASSUME IInv, OrderInv, NEW e \in End,
           \/ check_write(e) \/ set_hwms(e) \/ process_activate_read(e)
           \/ process_activate_write(e) \/ process_pipe_term(e)
    PROVE  OrderInv'
<1>1. pipe \in [End -> PipeObject] /\ pipe[e] \in PipeObject
  BY DEF IInv, TypeOK
<1>2. upipe' = upipe /\ sent' = sent /\ got' = got
  BY DEF check_write, set_hwms, process_activate_read, process_activate_write, process_pipe_term
<1>3. \A d \in End : HArgs(cmds'[d]) \subseteq HArgs(cmds[d])
  <2>1. CASE check_write(e) \/ set_hwms(e)
    BY <2>1 DEF check_write, set_hwms
  <2>2. CASE process_activate_read(e) \/ process_activate_write(e) \/ process_pipe_term(e)
    <3> DEFINE c == Cmd("pipe_term_ack")
    <3>1. c \in Command /\ c.type # "hiccup"
      BY DEF Cmd, Command
    <3>2. cmds[e] # <<>> /\ (Reply(e, <<>>) \/ Reply(e, <<c>>))
      BY <2>2 DEF process_activate_read, process_activate_write, process_pipe_term, Receive
    <3> HIDE DEF c
    <3> QED
      BY <3>1, <3>2, QuietCommands, QuietReply
  <2> QED
    BY <2>1, <2>2
<1>4. PICK q : /\ pipe' = [pipe EXCEPT ![e] = q] /\ q.inpipe = pipe[e].inpipe
               /\ q.state = "active" => pipe[e].state = "active" /\ q.outpipe = pipe[e].outpipe
               /\ q.state \in {"active", "waiting_for_delimiter"}
                    => pipe[e].state \in {"active", "waiting_for_delimiter"}
  <2>1. CASE check_write(e)
    <3> DEFINE q == [pipe[e] EXCEPT !.out_active = FALSE]
    <3>1. pipe' = [pipe EXCEPT ![e] = q]
      BY <1>1, <2>1 DEF check_write
    <3>2. q.inpipe = pipe[e].inpipe /\ q.outpipe = pipe[e].outpipe /\ q.state = pipe[e].state
      BY <1>1 DEF PipeObject
    <3> HIDE DEF q
    <3> QED
      BY <3>1, <3>2
  <2>2. CASE set_hwms(e)
    <3>1. PICK v \in NewHwm : pipe' = [pipe EXCEPT ![e].lwm = compute_lwm(HwmOf(v)), ![e].hwm = HwmOf(v)]
      BY <2>2 DEF set_hwms
    <3> DEFINE q == [pipe[e] EXCEPT !.lwm = compute_lwm(HwmOf(v)), !.hwm = HwmOf(v)]
    <3>2. pipe' = [pipe EXCEPT ![e] = q]
      BY <1>1, <3>1
    <3>3. q.inpipe = pipe[e].inpipe /\ q.outpipe = pipe[e].outpipe /\ q.state = pipe[e].state
      BY <1>1 DEF PipeObject
    <3> HIDE DEF q
    <3> QED
      BY <3>2, <3>3
  <2>3. CASE process_activate_read(e)
    <3> DEFINE b == pipe[e].in_active \/ Readable(e)
               q == [pipe[e] EXCEPT !.in_active = b]
    <3>1. pipe' = [pipe EXCEPT ![e] = q]
      BY <1>1, <2>3 DEF process_activate_read
    <3> HIDE DEF b
    <3>2. q.inpipe = pipe[e].inpipe /\ q.outpipe = pipe[e].outpipe /\ q.state = pipe[e].state
      BY <1>1 DEF PipeObject
    <3> HIDE DEF q
    <3> QED
      BY <3>1, <3>2
  <2>4. CASE process_activate_write(e)
    <3> DEFINE b == pipe[e].out_active \/ State(e) = "active"
               a == Head(cmds[e]).arg
               q == [pipe[e] EXCEPT !.peers_msgs_read = a, !.out_active = b]
    <3>1. pipe' = [pipe EXCEPT ![e] = q]
      BY <1>1, <2>4 DEF process_activate_write
    <3> HIDE DEF a, b
    <3>2. q.inpipe = pipe[e].inpipe /\ q.outpipe = pipe[e].outpipe /\ q.state = pipe[e].state
      BY <1>1 DEF PipeObject
    <3> HIDE DEF q
    <3> QED
      BY <3>1, <3>2
  <2>5. CASE process_pipe_term(e)
    <3> DEFINE q == IF pipe[e].state = "active" /\ pipe[e].delay
                    THEN [pipe[e] EXCEPT !.state = "waiting_for_delimiter"]
                    ELSE [pipe[e] EXCEPT !.outpipe = NULL,
                                         !.state = IF pipe[e].state = "term_req_sent1"
                                                   THEN "term_req_sent2" ELSE "term_ack_sent"]
    <3>1. pipe' = [pipe EXCEPT ![e] = q]
      BY <2>5 DEF process_pipe_term
    <3>2. /\ q.inpipe = pipe[e].inpipe /\ q.state # "active"
          /\ q.state = "waiting_for_delimiter" => pipe[e].state = "active"
      BY <1>1 DEF PipeObject
    <3> HIDE DEF q
    <3> QED
      BY <3>1, <3>2
  <2> QED
    BY <2>1, <2>2, <2>3, <2>4, <2>5
<1>5. \A d \in End : pipe'[d] = IF d = e THEN q ELSE pipe[d]
  BY <1>1, <1>4
<1>6. \A d \in End : /\ Readable(d)' => Readable(d) /\ pipe'[d].inpipe = pipe[d].inpipe
                     /\ State(d)' = "active" => State(d) = "active" /\ pipe'[d].outpipe = pipe[d].outpipe
  BY <1>4, <1>5 DEF Readable, State
<1> QED
  BY <1>2, <1>3, <1>6, OrderStill

\* process_pipe_term_ack (): nobody reads or writes that direction any more.
LEMMA OrderTermAck ==
    ASSUME IInv, OrderInv, NEW e \in End, process_pipe_term_ack(e) PROVE OrderInv'
<1> DEFINE p == peer(e)
           i == pipe[e].inpipe
           r == cmds[e]
           c == Cmd("pipe_term_ack")
<1>1. p \in End /\ p # e /\ peer(p) = e /\ \A d \in End : d = e \/ d = p
  BY Peers
<1>2. /\ pipe \in [End -> PipeObject] /\ upipe \in [UpipeId -> Upipe]
      /\ r \in Seq(Command) /\ QueueOK(r)
  BY EndFacts DEF IInv, TypeOK
<1>3. /\ r # <<>> /\ Head(r).type = "pipe_term_ack" /\ State(e) # "gone"
      /\ pipe' = [pipe EXCEPT ![e] = Gone] /\ upipe' = [upipe EXCEPT ![i] = NoUpipe]
      /\ Reply(e, <<>>) \/ Reply(e, <<c>>)
      /\ sent' = sent /\ got' = got
  BY DEF process_pipe_term_ack, Receive, Alive
<1>4. c \in Command /\ c.type # "hiccup"
  BY DEF Cmd, Command
<1> HIDE DEF c
<1>5. \A d \in End : HArgs(cmds'[d]) \subseteq HArgs(cmds[d])
  BY <1>3, <1>4, QuietCommands, QuietReply
<1>6. Has(r, "pipe_term_ack")
  <2> HIDE DEF r
  <2> QED
    BY <1>2, <1>3, QTail
<1>7. State(p) # "active"
  <2>1. TermOK(State(e), State(p), cmds[e])
    BY DEF IInv, TermInv
  <2> QED
    BY <1>6, <2>1 DEF TermOK, Acked
<1>8. pipe'[e] = Gone /\ pipe'[p] = pipe[p] /\ State(e)' = "gone" /\ State(p)' = State(p)
  BY <1>1, <1>2, <1>3 DEF State, Gone
<1>9. i \in UpipeId /\ i \notin Dir(p) /\ \A j \in UpipeId : j # i => upipe'[j] = upipe[j]
  BY <1>2, <1>3, Apart
<1>10. OrderEnd(e)'
  BY <1>1, <1>3, <1>5, <1>7, <1>8, OrderFrame DEF Readable, OrderInv, Cut
<1>11. OrderEnd(p)'
  <2>1. Readable(p) => pipe[p].inpipe \in UpipeId /\ pipe[p].inpipe # i
    BY <1>1, <1>9, Apart DEF Readable
  <2>2. Readable(p)' => /\ Readable(p) /\ pipe'[p].inpipe = pipe[p].inpipe
                        /\ upipe'[pipe[p].inpipe] = upipe[pipe[p].inpipe]
    BY <1>8, <1>9, <2>1 DEF Readable
  <2>3. State(e)' # "active" /\ OrderEnd(p) /\ Cut(p)' = Cut(p)
    BY <1>1, <1>3, <1>8 DEF OrderInv, Cut
  <2> QED
    BY <1>1, <1>3, <1>5, <2>2, <2>3, OrderFrame
<1> QED
  BY <1>1, <1>10, <1>11 DEF OrderInv
-----------------------------------------------------------------------------
(* Writing *)

\* What one end writes is apart from what it reads.
LEMMA OrderOther ==
    ASSUME IInv, OrderInv, NEW e \in End, NEW o, o \notin Dir(e),
           \A j \in UpipeId : j # o => upipe'[j] = upipe[j],
           Readable(e)' => Readable(e) /\ pipe'[e].inpipe = pipe[e].inpipe,
           pipe'[peer(e)] = pipe[peer(e)], sent'[peer(e)] = sent[peer(e)], got'[e] = got[e],
           HArgs(cmds'[peer(e)]) \subseteq HArgs(cmds[peer(e)])
    PROVE  OrderEnd(e)'
<1>1. OrderEnd(e)
  BY DEF OrderInv
<1>2. Readable(e) => pipe[e].inpipe \in UpipeId /\ pipe[e].inpipe # o
  BY Apart DEF Readable
<1>3. \A j \in UpipeId : j \in Dir(e) => upipe'[j] = upipe[j]
  OBVIOUS
<1>4. State(peer(e))' = State(peer(e)) /\ Cut(e)' = Cut(e)
  BY DEF State, Cut
<1> QED
  BY <1>1, <1>2, <1>3, <1>4, OrderFrame

\* What the writer of p is about to write.
NextPart(p, s, m) ==
    IF s.more THEN m = [kind |-> "data", num |-> s.num, more |-> FALSE]
    ELSE /\ m.kind \in {"data", "credential"}
         /\ m.kind = "data" => m.num = s.num + 1 /\ (m.more <=> peer(p) \in MultiPart)
         /\ m.kind = "credential" => m.num = s.num /\ ~m.more

\* What a writer has written, after one more part and after a withdrawal.
LEMMA SaidFields ==
    ASSUME NEW s \in Said
    PROVE  /\ s.num \in Int /\ s.more \in BOOLEAN
           /\ \A m \in Part : /\ SentAfter(s, m).num = m.num /\ SentAfter(s, m).more = m.more
                              /\ SentAfter(s, m).cut = s.cut
           /\ Withdrawn(s).num = s.num - 1 /\ Withdrawn(s).more = FALSE /\ Withdrawn(s).cut = s.cut
<1>1. s.num \in Int /\ s.more \in BOOLEAN
  BY DEF Said
<1>2. ASSUME NEW m \in Part
      PROVE  /\ SentAfter(s, m).num = m.num /\ SentAfter(s, m).more = m.more
             /\ SentAfter(s, m).cut = s.cut
  <2> DEFINE c == IF m.kind = "credential" THEN s.credentials + 1 ELSE s.credentials
  <2>1. SentAfter(s, m) = [s EXCEPT !.num = m.num, !.more = m.more, !.credentials = c]
    BY DEF SentAfter
  <2> HIDE DEF c
  <2> QED
    BY <2>1 DEF Said
<1>3. Withdrawn(s).num = s.num - 1 /\ Withdrawn(s).more = FALSE /\ Withdrawn(s).cut = s.cut
  <2> DEFINE n == s.num - 1
  <2>1. Withdrawn(s) = [s EXCEPT !.num = n, !.more = FALSE]
    BY DEF Withdrawn
  <2> HIDE DEF n
  <2>2. Withdrawn(s).num = n /\ Withdrawn(s).more = FALSE /\ Withdrawn(s).cut = s.cut
    BY <2>1 DEF Said
  <2> QED
    BY <2>2 DEF n
<1> QED
  BY <1>1, <1>2, <1>3

\* write () keeps what it has begun in the pipe, and counts on.
LEMMA WriterWritten ==
    ASSUME NEW p, NEW u \in Upipe, NEW m \in Part, NEW s \in Said,
           NextPart(p, s, m), WriterOK(p, s, u.partial)
    PROVE  /\ WriterOK(p, SentAfter(s, m), Written(u, m).partial)
           /\ Base(s) \in Nat /\ Base(SentAfter(s, m)) \in Nat /\ Base(s) <= Base(SentAfter(s, m))
           /\ m.more => Base(s) = Base(SentAfter(s, m))
<1> DEFINE t == SentAfter(s, m)
           z == Written(u, m).partial
<1>1. /\ s.num \in Int /\ s.more \in BOOLEAN /\ m.num \in Int /\ m.more \in BOOLEAN
      /\ t.num = m.num /\ t.more = m.more
  BY SaidFields DEF Part
<1>2. z = IF m.more THEN Append(u.partial, m) ELSE <<>>
  BY DEF Written, Upipe
<1> HIDE DEF t, z
<1>3. CASE s.more
  <2>1. m.num = s.num /\ m.more = FALSE /\ s.num >= 1
    BY <1>3 DEF NextPart, WriterOK
  <2>2. z = <<>> /\ t.more = FALSE /\ t.num = s.num
    BY <1>1, <1>2, <2>1
  <2>3. WriterOK(p, t, z)
    BY <1>1, <2>1, <2>2 DEF WriterOK
  <2>4. Base(s) = s.num - 1 /\ Base(t) = s.num
    BY <1>1, <1>3, <2>1, <2>2 DEF Base
  <2> QED
    BY <1>1, <2>1, <2>3, <2>4 DEF t, z
<1>4. CASE ~s.more /\ m.more
  <2>1. /\ m.num = s.num + 1 /\ m.kind = "data" /\ peer(p) \in MultiPart
        /\ u.partial = <<>> /\ s.num >= 0
    BY <1>4 DEF NextPart, WriterOK
  <2>2. m = [kind |-> "data", num |-> m.num, more |-> TRUE]
    BY <1>1, <1>4, <2>1 DEF Part
  <2>3. Append(<<>>, m) = <<m>>
    OBVIOUS
  <2>4. z = <<[kind |-> "data", num |-> t.num, more |-> TRUE]>> /\ t.more
    BY <1>1, <1>2, <1>4, <2>1, <2>2, <2>3
  <2>5. t.num >= 1 /\ t.num - 1 = s.num
    BY <1>1, <2>1
  <2>6. WriterOK(p, t, z)
    BY <2>1, <2>4, <2>5 DEF WriterOK
  <2>7. Base(s) = s.num /\ Base(t) = s.num
    BY <1>1, <1>4, <2>4, <2>5 DEF Base
  <2> QED
    BY <1>1, <2>1, <2>5, <2>6, <2>7 DEF t, z
<1>5. CASE ~s.more /\ ~m.more
  <2>1. m.num \in {s.num, s.num + 1} /\ s.num >= 0
    BY <1>5 DEF NextPart, WriterOK
  <2>2. z = <<>> /\ ~t.more /\ t.num >= 0
    BY <1>1, <1>2, <1>5, <2>1
  <2>3. WriterOK(p, t, z)
    BY <1>1, <2>1, <2>2 DEF WriterOK
  <2>4. Base(t) = m.num /\ Base(s) = s.num
    BY <1>1, <1>5, <2>1, <2>2 DEF Base
  <2> QED
    BY <1>1, <1>5, <2>1, <2>3, <2>4 DEF t, z
<1> QED
  BY <1>3, <1>4, <1>5

\* What g and the parts of q are numbered with.
Within(q, g, b) == \A n \in 0..Len(q) : 0 <= At(q, g, n).num /\ At(q, g, n).num <= b

\* m, whose number c allows, may come behind q, which is numbered up to b.
Comes(p, C, q, g, m, b, c) ==
    /\ Chain(p, C, q, g) /\ Within(q, g, b) /\ Follows(p, C, At(q, g, Len(q)), m)
    /\ b \in Int /\ c \in Int /\ b <= c /\ m.num >= 0 /\ m.num <= c

\* A stream with one more part behind it.
LEMMA StreamAppend ==
    ASSUME NEW p, NEW C, NEW q \in Seq(Part), NEW g \in Part, NEW m \in Part, NEW b, NEW c,
           Comes(p, C, q, g, m, b, c)
    PROVE  /\ Append(q, m) \in Seq(Part) /\ Chain(p, C, Append(q, m), g)
           /\ At(Append(q, m), g, Len(Append(q, m))) = m
           /\ Within(Append(q, m), g, c)
<1> DEFINE r == Append(q, m)
           l == Len(q)
<1>0. /\ Chain(p, C, q, g) /\ Within(q, g, b) /\ Follows(p, C, At(q, g, l), m)
      /\ b \in Int /\ c \in Int /\ b <= c /\ m.num >= 0 /\ m.num <= c
  BY DEF Comes
<1>1. /\ r \in Seq(Part) /\ Len(r) = l + 1 /\ l \in Nat
      /\ Chain(p, C, r, g) /\ At(r, g, l + 1) = m /\ \A n \in 0..l : At(r, g, n) = At(q, g, n)
  <2>1. Grown(p, C, q, g, m)
    BY <1>0, ChainAppend
  <2> QED
    BY <2>1 DEF Grown
<1> HIDE DEF r
<1>2. ASSUME NEW n \in 0..(l + 1) PROVE 0 <= At(r, g, n).num /\ At(r, g, n).num <= c
  <2>1. CASE n = l + 1
    BY <1>0, <1>1, <2>1
  <2>2. CASE n # l + 1
    <3>1. n \in 0..l
      BY <1>1, <2>2
    <3>2. At(r, g, n) = At(q, g, n) /\ At(q, g, n) \in Part
      BY <1>1, <3>1, AtType
    <3>3. At(q, g, n).num \in Int /\ 0 <= At(q, g, n).num /\ At(q, g, n).num <= b
      BY <1>0, <3>1, <3>2 DEF Part, Within
    <3> DEFINE x == At(q, g, n).num
    <3>4. x \in Int /\ 0 <= x /\ x <= b
      BY <3>3
    <3> HIDE DEF x
    <3>5. 0 <= x /\ x <= c
      BY <1>0, <3>4
    <3> QED
      BY <3>2, <3>5 DEF x
  <2> QED
    BY <2>1, <2>2
<1>3. Within(r, g, c)
  BY <1>1, <1>2 DEF Within
<1> QED
  BY <1>1, <1>3 DEF r

\* write () puts the next message behind all that is on its way.
LEMMA StreamWritten ==
    ASSUME NEW p, NEW u \in Upipe, NEW m \in Part, NEW s \in Said,
           NextPart(p, s, m), WriterOK(p, s, u.partial), NEW g \in Part, NEW q \in Seq(Part), q = Content(u),
           NEW r, r = Content(Written(u, m)), NEW C, C = s.cut,
           Chain(p, C, q, g), ~At(q, g, Len(q)).more, Linked(p, q, g, s)
    PROVE  Chain(p, C, r, g) /\ ~At(r, g, Len(r)).more /\ Linked(p, r, g, SentAfter(s, m))
<1> DEFINE l == At(q, g, Len(q))
           t == SentAfter(s, m)
<1>1. /\ s.num \in Int /\ s.more \in BOOLEAN /\ t.num \in Int /\ t.more \in BOOLEAN /\ m.num \in Int
      /\ t.num = m.num /\ (t.more <=> m.more)
  BY SaidFields DEF Part
<1>2. /\ Base(s) \in Nat /\ Base(t) \in Nat /\ Base(s) <= Base(t) /\ (m.more => Base(s) = Base(t))
  BY WriterWritten
<1> HIDE DEF t
<1>3. Len(q) \in Nat /\ Len(q) \in 0..Len(q)
  BY LenProperties
<1>4. l \in Part /\ l.num \in Int
  BY <1>3, AtType DEF Part
<1>5. /\ Within(q, g, Base(s))
      /\ p \in Hiccuper \/ l.num = Base(s)
  BY DEF Linked, Within
<1>6. 0 <= l.num /\ l.num <= Base(s) /\ ~l.more
  BY <1>3, <1>5 DEF Within
<1>7. u.flushed \in Seq(Part) /\ u.complete \in Seq(Part) /\ u.partial \in Seq(Part)
  BY DEF Upipe
<1>8. CASE m.more
  <2>1. r = q
    BY <1>8 DEF Written, Content, Upipe
  <2>2. Base(s) = Base(t)
    BY <1>2, <1>8
  <2> QED
    BY <2>1, <2>2 DEF Linked, t
<1> HIDE DEF l
\* The last part of a message that was not begun in this pipe.
<1>9. ASSUME ~m.more, u.partial = <<>>, Follows(p, C, l, m), Base(t) = m.num, m.num >= 0
      PROVE  Chain(p, C, r, g) /\ ~At(r, g, Len(r)).more /\ Linked(p, r, g, t)
  <2>1. r = Append(q, m)
    <3>1. r = u.flushed \o (u.complete \o Append(u.partial, m))
      BY <1>9 DEF Written, Content, Upipe
    <3>2. q \o <<>> = q
      BY ConcatEmptySeq
    <3>3. Behind(u.flushed, u.complete, u.partial, m)
      BY <1>7, WrittenBehind
    <3>4. u.flushed \o (u.complete \o Append(u.partial, m)) = Append((u.flushed \o u.complete) \o u.partial, m)
      BY <3>3 DEF Behind
    <3> QED
      BY <1>9, <3>1, <3>2, <3>4 DEF Content
  <2>2. Comes(p, C, q, g, m, Base(s), Base(t))
    <3>1. Follows(p, C, At(q, g, Len(q)), m) /\ Base(s) \in Int /\ Base(t) \in Int /\ m.num <= Base(t)
      BY <1>1, <1>2, <1>9 DEF l
    <3> QED
      BY <1>2, <1>5, <1>9, <3>1 DEF Comes
  <2>3. Chain(p, C, r, g) /\ At(r, g, Len(r)) = m /\ Within(r, g, Base(t))
    BY <2>1, <2>2, StreamAppend
  <2> QED
    BY <1>9, <2>3 DEF Linked, Within
<1>10. CASE ~m.more /\ ~s.more
  <2>1. /\ s.num >= 0 /\ u.partial = <<>> /\ m.kind \in {"data", "credential"}
        /\ m.kind = "data" => m.num = s.num + 1 /\ peer(p) \notin MultiPart
        /\ m.kind = "credential" => m.num = s.num
    BY <1>10 DEF NextPart, WriterOK
  <2>2. Base(t) = m.num /\ Base(s) = s.num
    BY <1>1, <1>10 DEF Base
  <2>3. Follows(p, C, l, m)
    <3>1. CASE m.kind = "credential"
      <4>1. m.num = l.num \/ (p \in Hiccuper /\ m.num >= l.num)
        BY <1>1, <1>4, <1>5, <1>6, <2>1, <2>2, <3>1
      <4> QED
        BY <1>6, <1>10, <3>1, <4>1 DEF Follows
    <3>2. CASE m.kind = "data"
      <4>1. m.num = l.num + 1 \/ (p \in Hiccuper /\ m.num > l.num)
        BY <1>1, <1>4, <1>5, <1>6, <2>1, <2>2, <3>2
      <4> QED
        BY <1>6, <1>10, <2>1, <3>2, <4>1 DEF Follows
    <3> QED
      BY <2>1, <3>1, <3>2
  <2>4. m.num >= 0
    BY <1>1, <2>1
  <2> QED
    BY <1>9, <1>10, <2>1, <2>2, <2>3, <2>4 DEF t
<1>11. CASE ~m.more /\ s.more /\ u.partial = <<>>
  <2>1. /\ m = [kind |-> "data", num |-> s.num, more |-> FALSE] /\ s.num >= 1
        /\ p \in Hiccuper /\ s.num \in C
    <3>1. u.partial # <<[kind |-> "data", num |-> s.num, more |-> TRUE]>>
      BY <1>11
    <3> QED
      BY <1>11, <3>1 DEF NextPart, WriterOK
  <2>2. Base(t) = m.num /\ Base(s) = s.num - 1 /\ m.num = s.num /\ m.kind = "data"
    BY <1>1, <1>11, <2>1 DEF Base
  <2>3. m.num > l.num /\ m.num >= 0
    BY <1>1, <1>4, <1>6, <2>1, <2>2
  <2>4. Follows(p, C, l, m)
    BY <1>6, <1>11, <2>1, <2>2, <2>3 DEF Follows
  <2> QED
    BY <1>9, <1>11, <2>2, <2>3, <2>4 DEF t
<1>12. CASE ~m.more /\ s.more /\ u.partial # <<>>
  <2> DEFINE a == [kind |-> "data", num |-> s.num, more |-> TRUE]
  <2>1. /\ m = [kind |-> "data", num |-> s.num, more |-> FALSE] /\ s.num >= 1 /\ peer(p) \in MultiPart
        /\ u.partial = <<a>>
    BY <1>12 DEF NextPart, WriterOK
  <2>2. Base(t) = s.num /\ Base(s) = s.num - 1
    BY <1>1, <1>12, <2>1 DEF Base
  <2>3. a \in Part /\ a.kind = "data" /\ a.num = s.num /\ a.more
    BY <1>1 DEF Part
  <2> HIDE DEF a
  <2> DEFINE z == Append(q, a)
  <2>4. r = Append(z, m)
    <3>1. r = u.flushed \o (u.complete \o Append(u.partial, m))
      BY <1>12 DEF Written, Content, Upipe
    <3>3. q \o <<a>> = Append(q, a)
      BY <2>3, AppendIsConcat
    <3>2. Behind(u.flushed, u.complete, u.partial, m)
      BY <1>7, WrittenBehind
    <3>4. u.flushed \o (u.complete \o Append(u.partial, m)) = Append((u.flushed \o u.complete) \o u.partial, m)
      BY <3>2 DEF Behind
    <3> QED
      BY <2>1, <3>1, <3>3, <3>4 DEF Content
  <2>5. Follows(p, C, l, a)
    <3>1. a.num = l.num + 1 \/ (p \in Hiccuper /\ a.num > l.num)
      BY <1>1, <1>4, <1>5, <1>6, <2>2, <2>3
    <3> QED
      BY <1>6, <2>1, <2>3, <3>1 DEF Follows
  <2>6. /\ Base(s) \in Int /\ Base(t) \in Int /\ Base(s) <= Base(t) /\ Base(t) <= Base(t) /\ a.num >= 0 /\ a.num <= Base(t)
    BY <1>1, <1>2, <2>1, <2>2, <2>3
  <2>7. /\ z \in Seq(Part) /\ Chain(p, C, z, g) /\ At(z, g, Len(z)) = a
        /\ Within(z, g, Base(t))
    <3>1. Follows(p, C, At(q, g, Len(q)), a)
      BY <2>5 DEF l
    <3> QED
      <4>1. Comes(p, C, q, g, a, Base(s), Base(t))
        BY <1>5, <2>3, <2>6, <3>1 DEF Comes
      <4> QED
        BY <2>3, <4>1, StreamAppend
  <2>8. Follows(p, C, a, m) /\ m.num = a.num
    BY <2>1, <2>3 DEF Follows
  <2> HIDE DEF z
  <2>9. /\ Chain(p, C, r, g) /\ At(r, g, Len(r)) = m
        /\ Within(r, g, Base(t))
    <3>1. /\ Append(z, m) \in Seq(Part) /\ Chain(p, C, Append(z, m), g)
          /\ At(Append(z, m), g, Len(Append(z, m))) = m
          /\ Within(Append(z, m), g, Base(t))
      <4>1. Comes(p, C, z, g, m, Base(t), Base(t))
        BY <2>6, <2>7, <2>8 DEF Comes
      <4> QED
        BY <2>7, <4>1, StreamAppend
    <3> QED
      BY <2>4, <3>1
  <2> QED
    <3>1. m.num = Base(t) /\ ~m.more
      BY <1>12, <2>2, <2>3, <2>8
    <3> QED
      BY <2>9, <3>1 DEF Linked, Within, t
<1> QED
  BY <1>8, <1>10, <1>11, <1>12 DEF t

\* What the user of an end has read last is a part.
LEMMA LastGotType == ASSUME TypeOK, NEW p \in End PROVE LastGot(p) \in Part
<1>1. got[p].num \in Int /\ got[p].more \in BOOLEAN
  BY DEF TypeOK
<1> QED
  BY <1>1 DEF LastGot, Part

\* A step of an end that does no more than change its outpipe from one that is in
\* order into u.
LEMMA WriterStep ==
    ASSUME IInv, OrderInv, NEW e \in End, NEW o \in UpipeId, o = pipe[e].outpipe,
           NEW u, upipe' = [upipe EXCEPT ![o] = u],
           pipe'[peer(e)] = pipe[peer(e)], pipe'[e].inpipe = pipe[e].inpipe, Readable(e)' => Readable(e),
           sent'[peer(e)] = sent[peer(e)], sent'[e].cut = sent[e].cut, got' = got,
           \A d \in End : HArgs(cmds'[d]) = HArgs(cmds[d]),
           State(e)' = "active" => /\ State(e) = "active" /\ pipe'[e].outpipe = o
                                   /\ WriterOK(peer(e), sent'[e], u.partial),
           Readable(peer(e)) /\ pipe[peer(e)].inpipe = o
             => Stream(peer(e), sent[e].cut, u.flushed, Content(u), LastGot(peer(e))),
           Readable(peer(e)) /\ State(e)' = "active"
             => IF pipe[peer(e)].inpipe = o THEN Linked(peer(e), Content(u), LastGot(peer(e)), sent'[e])
                ELSE Linked(peer(e), Content(InU(peer(e))), LastGot(peer(e)), sent'[e])
    PROVE  OrderInv'
<1> DEFINE p == peer(e)
           i == pipe[p].inpipe
<1>1. p \in End /\ p # e /\ peer(p) = e /\ \A d \in End : d = e \/ d = p
  BY Peers
<1>2. o \notin Dir(e) /\ o # NULL
  <2>1. o # NULL
    BY DEF UpipeId, NULL
  <2> QED
    BY <2>1, Apart
<1>3. \A j \in UpipeId : upipe'[j] = IF j = o THEN u ELSE upipe[j]
  BY DEF IInv, TypeOK
<1>4. OrderEnd(e)'
  BY <1>1, <1>2, <1>3, OrderOther
<1>5. /\ OrderEnd(p) /\ Readable(p)' = Readable(p) /\ LastGot(p)' = LastGot(p)
      /\ Cut(p) = sent[e].cut /\ Cut(p)' = Cut(p)
  BY <1>1 DEF OrderInv, Readable, State, LastGot, Cut
<1>6. (p \notin Hiccuper => HArgs(cmds[e]) = {})'
  BY <1>1, <1>5 DEF OrderEnd
<1>7. ASSUME Readable(p)
      PROVE  /\ Stream(p, Cut(p), InU(p).flushed, Content(InU(p)), LastGot(p))'
             /\ InU(p)' = IF i = o THEN u ELSE InU(p)
  <2>1. i \in UpipeId
    BY <1>1, <1>7, Apart DEF Readable
  <2>2. InU(p)' = IF i = o THEN u ELSE InU(p)
    BY <1>3, <2>1 DEF InU
  <2>3. Stream(p, Cut(p), InU(p).flushed, Content(InU(p)), LastGot(p))
    BY <1>5, <1>7 DEF OrderEnd
  <2>4. CASE i = o
    <3>1. InU(p)' = u /\ Stream(p, Cut(p), u.flushed, Content(u), LastGot(p))
      BY <1>5, <1>7, <2>2, <2>4
    <3>2. Content(InU(p))' = Content(u) /\ InU(p).flushed' = u.flushed
      BY <3>1 DEF Content
    <3> QED
      BY <1>5, <2>2, <3>1, <3>2
  <2>5. CASE i # o
    <3>1. InU(p)' = InU(p)
      BY <2>2, <2>5
    <3>2. Content(InU(p))' = Content(InU(p)) /\ InU(p).flushed' = InU(p).flushed
      BY <3>1 DEF Content
    <3> QED
      BY <1>5, <2>2, <2>3, <3>1, <3>2
  <2> QED
    BY <2>4, <2>5
<1>8. ASSUME State(e)' = "active"
      PROVE  /\ WriterOK(p, sent[e], upipe[pipe[e].outpipe].partial)'
             /\ \A j \in HArgs(cmds'[e]) : upipe'[j].partial = <<>>
  <2>1. State(e) = "active" /\ pipe'[e].outpipe = o /\ WriterOK(p, sent'[e], u.partial)
    BY <1>8
  <2>2. HArgs(cmds[e]) \subseteq UpipeId /\ o \notin HArgs(cmds[e])
    BY <2>1, OwnPipes
  <2>3. \A j \in HArgs(cmds[e]) : upipe[j].partial = <<>>
    BY <1>1, <1>5, <2>1 DEF OrderEnd
  <2>4. upipe'[pipe'[e].outpipe] = u
    BY <1>3, <2>1
  <2> QED
    BY <1>3, <2>1, <2>2, <2>3, <2>4
<1>9. ASSUME State(e)' = "active", Readable(p)
      PROVE  Linked(p, Content(InU(p)), LastGot(p), sent[e])'
  <2>1. InU(p)' = IF i = o THEN u ELSE InU(p)
    BY <1>7, <1>9
  <2>2. Content(InU(p))' = IF i = o THEN Content(u) ELSE Content(InU(p))
    BY <2>1 DEF Content
  <2>3. IF i = o THEN Linked(p, Content(u), LastGot(p), sent'[e])
        ELSE Linked(p, Content(InU(p)), LastGot(p), sent'[e])
    BY <1>9
  <2> QED
    BY <1>5, <2>2, <2>3
<1>10. OrderEnd(p)'
  BY <1>1, <1>5, <1>6, <1>7, <1>8, <1>9 DEF OrderEnd
<1> QED
  BY <1>1, <1>4, <1>10 DEF OrderInv

\* rollback () leaves what can be read, and takes the message back that it counted.
LEMMA OrderRollback == ASSUME IInv, OrderInv, NEW e \in End, rollback(e) PROVE OrderInv'
<1> DEFINE p == peer(e)
           o == pipe[e].outpipe
           u == [upipe[o] EXCEPT !.partial = <<>>]
           s == sent[e]
           t == Withdrawn(s)
<1>1. p \in End /\ p # e /\ peer(p) = e
  BY Peers
<1>2. /\ upipe \in [UpipeId -> Upipe] /\ o \in UpipeId /\ upipe[o] \in Upipe
      /\ s \in Said /\ sent \in [End -> Said]
  <2>1. o # NULL /\ pipe[e] \in PipeObject
    BY DEF rollback, IInv, TypeOK
  <2> QED
    BY <2>1 DEF IInv, TypeOK, PipeObject
<1>3. /\ upipe' = [upipe EXCEPT ![o] = u] /\ sent' = [sent EXCEPT ![e] = t]
      /\ pipe' = pipe /\ got' = got /\ cmds' = cmds /\ upipe[o].partial # <<>>
  BY DEF rollback
<1>4. u.partial = <<>> /\ u.flushed = upipe[o].flushed /\ u.complete = upipe[o].complete
  BY <1>2 DEF Upipe
<1>5. Content(u) = Content(upipe[o])
  BY <1>4 DEF Content
<1>6. /\ sent'[e] = t /\ sent'[p] = sent[p] /\ t.num = s.num - 1 /\ t.more = FALSE /\ t.cut = s.cut
      /\ s.num \in Int /\ s.more \in BOOLEAN
  <2> HIDE DEF s
  <2>1. /\ t.num = s.num - 1 /\ t.more = FALSE /\ t.cut = s.cut /\ s.num \in Int /\ s.more \in BOOLEAN
    BY <1>2, SaidFields
  <2> HIDE DEF t
  <2> QED
    BY <1>1, <1>2, <1>3, <2>1
<1> HIDE DEF u, t
<1>7. OrderEnd(p)
  BY <1>1 DEF OrderInv
<1>8. /\ State(e)' = State(e) /\ (Readable(e)' <=> Readable(e))
  BY <1>3 DEF State, Readable
<1>9. ASSUME State(e) = "active" PROVE WriterOK(p, t, u.partial) /\ Base(t) = Base(s)
  <2>1. WriterOK(p, s, upipe[o].partial)
    BY <1>1, <1>7, <1>9 DEF OrderEnd
  <2>2. s.more /\ s.num >= 1
    BY <1>6, <1>3, <2>1 DEF WriterOK
  <2>3. t.num >= 0 /\ Base(s) = s.num - 1 /\ Base(t) = s.num - 1
    BY <1>6, <2>2 DEF Base
  <2> QED
    BY <1>4, <1>6, <2>3 DEF WriterOK
<1>10. Readable(p) /\ pipe[p].inpipe = o => Stream(p, s.cut, u.flushed, Content(u), LastGot(p))
  BY <1>1, <1>4, <1>5, <1>7 DEF OrderEnd, InU, Cut
<1>11. ASSUME Readable(p), State(e) = "active" PROVE Linked(p, Content(InU(p)), LastGot(p), t)
  <2>1. Linked(p, Content(InU(p)), LastGot(p), s)
    BY <1>1, <1>7, <1>11 DEF OrderEnd
  <2> QED
    BY <1>9, <1>11, <2>1 DEF Linked
<1>12. Readable(p) /\ State(e) = "active" => IF pipe[p].inpipe = o THEN Linked(p, Content(u), LastGot(p), t)
                                             ELSE Linked(p, Content(InU(p)), LastGot(p), t)
  BY <1>5, <1>11 DEF InU
<1> QED
  BY <1>2, <1>3, <1>6, <1>8, <1>9, <1>10, <1>12, WriterStep

\* The parts that the user of an end can write.
LEMMA NextPartsAre ==
    ASSUME TypeOK, NEW e \in End, NEW m \in NextParts(e) PROVE NextPart(peer(e), sent[e], m) /\ m \in Part
<1>1. peer(peer(e)) = e
  BY Peers
<1>2. m \in Part
  BY NextPartsType
<1>3. CASE sent[e].more
  BY <1>2, <1>3 DEF NextParts, NextPart
<1>4. CASE ~sent[e].more
  BY <1>1, <1>2, <1>4 DEF NextParts, NextPart
<1> QED
  BY <1>2, <1>3, <1>4

\* write () that succeeds.
LEMMA OrderWrite ==
    ASSUME IInv, OrderInv, NEW e \in End, write(e) PROVE OrderInv'
<1> DEFINE p == peer(e)
           o == pipe[e].outpipe
           v == upipe[o]
           s == sent[e]
           g == LastGot(p)
<1>1. p \in End /\ p # e /\ peer(p) = e
  BY Peers
<1>2. /\ upipe \in [UpipeId -> Upipe] /\ pipe \in [End -> PipeObject] /\ pipe[e] \in PipeObject
      /\ sent \in [End -> Said] /\ s \in Said
  BY DEF IInv, TypeOK
<1>3. State(e) = "active" /\ cmds' = cmds /\ got' = got
  BY DEF write
<1>4. PICK m \in NextParts(e) :
         /\ upipe' = [upipe EXCEPT ![o] = Written(@, m)]
         /\ pipe' = [pipe EXCEPT ![e].msgs_written = IF m.more THEN @ ELSE @ + 1]
         /\ sent' = [sent EXCEPT ![e] = SentAfter(@, m)]
  BY DEF write
<1>5. NextPart(p, s, m) /\ m \in Part
  BY NextPartsAre DEF IInv
<1>6. /\ o \in UpipeId /\ v \in Upipe
      /\ pipe[p].inpipe = o \/ pipe[p].inpipe \in HArgs(cmds[e])
  BY <1>2, <1>3, OwnPipes
<1> DEFINE u == Written(v, m)
<1>7. upipe' = [upipe EXCEPT ![o] = u]
  BY <1>2, <1>4, <1>6
<1>8. /\ pipe'[p] = pipe[p] /\ pipe'[e].inpipe = pipe[e].inpipe /\ pipe'[e].outpipe = o
      /\ State(e)' = State(e) /\ (Readable(e)' <=> Readable(e))
  <2> DEFINE w == IF m.more THEN pipe[e].msgs_written ELSE pipe[e].msgs_written + 1
             q == [pipe[e] EXCEPT !.msgs_written = w]
  <2>1. pipe' = [pipe EXCEPT ![e] = q]
    BY <1>2, <1>4
  <2> HIDE DEF w
  <2>2. q.inpipe = pipe[e].inpipe /\ q.outpipe = o /\ q.state = pipe[e].state
    BY <1>2 DEF PipeObject
  <2> HIDE DEF q
  <2>3. pipe'[e] = q /\ pipe'[p] = pipe[p]
    BY <1>1, <1>2, <2>1
  <2> QED
    BY <2>2, <2>3 DEF State, Readable
<1> DEFINE t == SentAfter(s, m)
<1>9. sent'[e] = t /\ sent'[p] = sent[p] /\ t.cut = s.cut
  <2>1. SentAfter(s, m).cut = s.cut
    BY <1>2, <1>5, SaidFields
  <2> QED
    BY <1>1, <1>2, <1>4, <2>1
<1>10. OrderEnd(p)
  BY <1>1 DEF OrderInv
<1>11. WriterOK(p, s, v.partial)
  BY <1>1, <1>3, <1>10 DEF OrderEnd
<1>12. /\ WriterOK(p, t, u.partial)
       /\ Base(s) \in Nat /\ Base(t) \in Nat /\ Base(s) <= Base(t)
  <2> HIDE DEF v, s, p
  <2> QED
    BY <1>2, <1>5, <1>6, <1>11, WriterWritten
<1>13. g \in Part
  BY <1>1, LastGotType DEF IInv
<1>14. ASSUME Readable(p)
       PROVE  /\ Stream(p, s.cut, InU(p).flushed, Content(InU(p)), g)
              /\ Linked(p, Content(InU(p)), g, s)
  BY <1>1, <1>3, <1>10, <1>14 DEF OrderEnd, Cut
<1>15. ASSUME Readable(p), pipe[p].inpipe = o
       PROVE  Stream(p, s.cut, u.flushed, Content(u), g) /\ Linked(p, Content(u), g, t)
  <2> DEFINE q == Content(v)
             r == Content(u)
  <2>1. Stream(p, s.cut, v.flushed, q, g) /\ Linked(p, q, g, s)
    BY <1>14, <1>15 DEF InU
  <2>2. q \in Seq(Part)
    BY <1>6, ContentType
  <2>3. Chain(p, s.cut, q, g) /\ ~At(q, g, Len(q)).more
    BY <2>1 DEF Stream
  <2>4. Chain(p, s.cut, r, g) /\ ~At(r, g, Len(r)).more /\ Linked(p, r, g, t)
    <3> HIDE DEF v, s, p, g
    <3> QED
      BY <1>2, <1>5, <1>6, <1>11, <1>13, <2>1, <2>2, <2>3, StreamWritten
  <2>5. u.flushed = v.flushed
    <3> HIDE DEF v
    <3> QED
      BY <1>5, <1>6, UpipeOps
  <2> HIDE DEF q, r
  <2> QED
    BY <2>1, <2>4, <2>5 DEF Stream, r
<1>16. ASSUME Readable(p), pipe[p].inpipe # o PROVE Linked(p, Content(InU(p)), g, t)
  <2> DEFINE q == Content(InU(p))
  <2>1. Linked(p, q, g, s)
    BY <1>14, <1>16
  <2>2. p \in Hiccuper
    BY <1>1, <1>6, <1>10, <1>16 DEF OrderEnd
  <2>3. q \in Seq(Part)
    <3>1. InU(p) \in Upipe
      BY <1>1, <1>2, <1>16, Apart DEF InU, Readable
    <3> QED
      BY <3>1, ContentType
  <2> HIDE DEF q, g, s
  <2>4. ASSUME NEW n \in 0..Len(q)
        PROVE  0 <= At(q, g, n).num /\ At(q, g, n).num <= Base(t)
    <3> DEFINE x == At(q, g, n).num
               a == Base(s)
               b == Base(t)
    <3>1. x \in Int
      BY <1>13, <2>3, AtType DEF Part
    <3>2. 0 <= x /\ x <= a
      BY <2>1 DEF Linked
    <3>3. a \in Nat /\ b \in Nat /\ a <= b
      BY <1>12
    <3> HIDE DEF x, a, b
    <3>4. 0 <= x /\ x <= b
      BY <3>1, <3>2, <3>3
    <3> QED
      BY <3>4 DEF x, b
  <2> QED
    BY <2>2, <2>4 DEF Linked, q
<1> HIDE DEF u
<1> QED
  BY <1>3, <1>6, <1>7, <1>8, <1>9, <1>12, <1>15, <1>16, WriterStep

\* flush (): what has been written can be read.
LEMMA OrderFlush == ASSUME IInv, OrderInv, NEW e \in End, flush(e) PROVE OrderInv'
<1> DEFINE p == peer(e)
           o == pipe[e].outpipe
           v == upipe[o]
           u == FlushedUpipe(v)
           c == Cmd("activate_read")
           cs == IF FlushFails(v) THEN <<c>> ELSE <<>>
<1>1. p \in End /\ p # e /\ peer(p) = e
  BY Peers
<1>2. /\ upipe \in [UpipeId -> Upipe] /\ pipe[e] \in PipeObject
  BY DEF IInv, TypeOK
<1>3. /\ upipe' = [upipe EXCEPT ![o] = FlushedUpipe(@)] /\ Send(e, cs) /\ o # NULL /\ v.complete # <<>>
      /\ pipe' = pipe /\ sent' = sent /\ got' = got
  BY DEF flush
<1>4. o \in UpipeId /\ v \in Upipe
  BY <1>2, <1>3 DEF PipeObject
<1>5. upipe' = [upipe EXCEPT ![o] = u]
  BY <1>2, <1>3, <1>4
<1>6. \A d \in End : HArgs(cmds'[d]) = HArgs(cmds[d])
  <2>1. c \in Command /\ c.type # "hiccup"
    BY DEF Cmd, Command
  <2> HIDE DEF c
  <2>2. cs \in Seq(Command) /\ ~Has(cs, "hiccup")
    BY <2>1, QuietCommands
  <2> HIDE DEF cs
  <2> QED
    BY <1>3, <2>2, QuietSend
<1>7. u.flushed = Content(v) /\ Content(u) = Content(v) /\ u.partial = v.partial
  <2>1. v.flushed \o v.complete \in Seq(Part)
    BY <1>4, ConcatProperties DEF Upipe
  <2>2. (v.flushed \o v.complete) \o <<>> = v.flushed \o v.complete
    BY <2>1, ConcatEmptySeq
  <2> HIDE DEF v
  <2> QED
    BY <1>3, <1>4, <2>2 DEF FlushedUpipe, Content, Upipe
<1>8. OrderEnd(p)
  BY <1>1 DEF OrderInv
<1>9. Readable(p) /\ pipe[p].inpipe = o => Stream(p, sent[e].cut, u.flushed, Content(u), LastGot(p))
  <2> HIDE DEF u
  <2> QED
    BY <1>1, <1>7, <1>8 DEF OrderEnd, InU, Stream, Cut
<1>10. /\ State(e)' = State(e) /\ (Readable(e)' <=> Readable(e)) /\ sent'[e] = sent[e]
  BY <1>3 DEF State, Readable
<1>11. State(e) = "active" => WriterOK(p, sent[e], u.partial)
  <2> HIDE DEF u
  <2> QED
    BY <1>1, <1>7, <1>8 DEF OrderEnd
<1>12. Readable(p) /\ State(e) = "active" => Linked(p, Content(InU(p)), LastGot(p), sent[e])
  BY <1>1, <1>8 DEF OrderEnd
<1>13. Readable(p) /\ State(e) = "active" => IF pipe[p].inpipe = o THEN Linked(p, Content(u), LastGot(p), sent[e])
                                             ELSE Linked(p, Content(InU(p)), LastGot(p), sent[e])
  <2> HIDE DEF u
  <2> QED
    BY <1>7, <1>12 DEF InU
<1> HIDE DEF u, cs
<1>14. /\ pipe'[p] = pipe[p] /\ pipe'[e].inpipe = pipe[e].inpipe /\ sent'[p] = sent[p]
       /\ State(e)' = "active" => /\ State(e) = "active" /\ pipe'[e].outpipe = o
                                  /\ WriterOK(p, sent'[e], u.partial)
       /\ Readable(p) /\ State(e)' = "active" => IF pipe[p].inpipe = o THEN Linked(p, Content(u), LastGot(p), sent'[e])
                                             ELSE Linked(p, Content(InU(p)), LastGot(p), sent'[e])
  BY <1>3, <1>10, <1>11, <1>13
<1> QED
  BY <1>3, <1>4, <1>5, <1>6, <1>9, <1>10, <1>14, WriterStep

\* Two sequences of commands that bring no new pipe, one behind the other.
LEMMA QuietTwo ==
    ASSUME NEW x \in Seq(Command), NEW y \in Seq(Command), ~Has(x, "hiccup"), ~Has(y, "hiccup")
    PROVE  x \o y \in Seq(Command) /\ ~Has(x \o y, "hiccup")
<1> DEFINE r == x \o y
           a == Len(x)
           b == Len(y)
<1>1. /\ r \in Seq(Command) /\ Len(r) = a + b /\ a \in Nat /\ b \in Nat
      /\ \A i \in 1..(a + b) : r[i] = IF i <= a THEN x[i] ELSE y[i - a]
  BY ConcatProperties, LenProperties
<1>2. (\A i \in 1..a : x[i].type # "hiccup") /\ (\A i \in 1..b : y[i].type # "hiccup")
  BY DEF Has
<1> HIDE DEF r, a, b
<1>3. \A i \in 1..(a + b) : (i \in 1..a /\ r[i] = x[i]) \/ (i - a \in 1..b /\ r[i] = y[i - a])
  BY <1>1
<1>4. ~Has(r, "hiccup")
  BY <1>1, <1>2, <1>3 DEF Has
<1> QED
  BY <1>1, <1>4 DEF r

\* What terminate () does: the end leaves the active state, and either keeps its pipes
\* as they are or writes a delimiter.
LEMMA TerminateDoes ==
    ASSUME IInv, NEW e \in End, NEW delay, terminate(e, delay)
    PROVE  /\ got' = got
           /\ \E q : /\ pipe' = [pipe EXCEPT ![e] = q] /\ q.inpipe = pipe[e].inpipe /\ q.state # "active"
                     /\ q.state = "waiting_for_delimiter" => pipe[e].state = "waiting_for_delimiter"
           /\ \E x, y \in Seq(Command) :
                /\ ~Has(x, "hiccup") /\ ~Has(y, "hiccup")
                /\ \/ upipe' = upipe /\ sent' = sent /\ Send(e, x)
                   \/ /\ pipe[e].outpipe \in UpipeId
                      /\ upipe' = [upipe EXCEPT ![pipe[e].outpipe] = WithDelimiter(@)]
                      /\ \E t : sent' = [sent EXCEPT ![e] = t] /\ t.cut = sent[e].cut
                      /\ Send(e, x \o y)
<1> DEFINE o == pipe[e].outpipe
           a == Cmd("activate_read")
           b == Cmd("pipe_term")
           c == Cmd("pipe_term_ack")
           act == IF upipe[o].asleep THEN <<a>> ELSE <<>>
           t == IF sent[e].more THEN Withdrawn(sent[e]) ELSE sent[e]
           Delimits(x) == /\ pipe[e].outpipe \in UpipeId
                          /\ upipe' = [upipe EXCEPT ![pipe[e].outpipe] = WithDelimiter(@)]
                          /\ sent' = [sent EXCEPT ![e] = t]
                          /\ Send(e, x \o act)
           Keeps(x) == upipe' = upipe /\ sent' = sent /\ Send(e, x)
           Leaves(q) == /\ pipe' = [pipe EXCEPT ![e] = q] /\ q.inpipe = pipe[e].inpipe /\ q.state # "active"
                        /\ q.state = "waiting_for_delimiter" => pipe[e].state = "waiting_for_delimiter"
<1>1. pipe[e] \in PipeObject /\ o \in UpipeId \cup {NULL} /\ sent \in [End -> Said]
  BY DEF IInv, TypeOK, PipeObject
<1>2. got' = got
  BY DEF terminate
<1>3. /\ <<>> \in Seq(Command) /\ ~Has(<<>>, "hiccup")
      /\ <<a>> \in Seq(Command) /\ ~Has(<<a>>, "hiccup")
      /\ <<b>> \in Seq(Command) /\ ~Has(<<b>>, "hiccup")
      /\ <<c>> \in Seq(Command) /\ ~Has(<<c>>, "hiccup")
  <2>1. a \in Command /\ a.type # "hiccup" /\ b \in Command /\ b.type # "hiccup" /\ c \in Command /\ c.type # "hiccup"
    BY DEF Cmd, Command
  <2> HIDE DEF a, b, c
  <2> QED
    BY <2>1, QuietCommands
<1>4. act \in {<<>>, <<a>>}
  OBVIOUS
<1> DEFINE Does(x) == (Delimits(x) \/ Keeps(x)) /\ \E q : Leaves(q)
<1>5. \E x \in {<<>>, <<b>>, <<c>>} : Does(x)
  <2>1. CASE pipe[e].state \in {"active", "delimiter_received"}
    <3> DEFINE q == [pipe[e] EXCEPT !.state = "term_req_sent1", !.out_active = FALSE]
    <3>1. q.outpipe = o /\ q.inpipe = pipe[e].inpipe /\ q.state = "term_req_sent1"
      BY <1>1 DEF PipeObject
    <3>2. /\ pipe' = [pipe EXCEPT ![e] = q]
          /\ IF q.outpipe # NULL
             THEN /\ upipe' = [upipe EXCEPT ![q.outpipe] = WithDelimiter(@)]
                  /\ sent' = [sent EXCEPT ![e] = IF @.more THEN Withdrawn(@) ELSE @]
                  /\ Send(e, <<b>> \o IF upipe[q.outpipe].asleep THEN <<a>> ELSE <<>>)
             ELSE Send(e, <<b>>) /\ UNCHANGED <<upipe, sent>>
      BY <2>1 DEF terminate
    <3> HIDE DEF q, a, b
    <3>3. Leaves(q)
      BY <3>1, <3>2
    <3>4. Delimits(<<b>>) \/ Keeps(<<b>>)
      BY <1>1, <3>1, <3>2
    <3> HIDE DEF Leaves, Delimits, Keeps
    <3> QED
      BY <3>3, <3>4
  <2>2. CASE pipe[e].state = "waiting_for_delimiter" /\ ~delay
    <3> DEFINE q == [pipe[e] EXCEPT !.state = "term_ack_sent", !.outpipe = NULL, !.out_active = FALSE]
    <3>1. q.outpipe = NULL /\ q.inpipe = pipe[e].inpipe /\ q.state = "term_ack_sent"
      BY <1>1 DEF PipeObject
    <3>2. /\ pipe' = [pipe EXCEPT ![e] = q] /\ Send(e, <<c>>) /\ UNCHANGED <<upipe, sent>>
      BY <2>2, <3>1 DEF terminate
    <3> HIDE DEF q, c
    <3>3. Leaves(q) /\ Keeps(<<c>>)
      BY <3>1, <3>2
    <3> HIDE DEF Leaves, Delimits, Keeps
    <3> QED
      BY <3>3
  <2>3. CASE pipe[e].state = "waiting_for_delimiter" /\ delay
    <3> DEFINE q == [pipe[e] EXCEPT !.out_active = FALSE]
    <3>1. q.outpipe = o /\ q.inpipe = pipe[e].inpipe /\ q.state = "waiting_for_delimiter"
      BY <1>1, <2>3 DEF PipeObject
    <3>2. /\ pipe' = [pipe EXCEPT ![e] = q]
          /\ IF q.outpipe # NULL
             THEN /\ upipe' = [upipe EXCEPT ![q.outpipe] = WithDelimiter(@)]
                  /\ sent' = [sent EXCEPT ![e] = IF @.more THEN Withdrawn(@) ELSE @]
                  /\ Send(e, <<>> \o IF upipe[q.outpipe].asleep THEN <<a>> ELSE <<>>)
             ELSE Send(e, <<>>) /\ UNCHANGED <<upipe, sent>>
      BY <2>3 DEF terminate
    <3> HIDE DEF q, a
    <3>3. Leaves(q)
      BY <2>3, <3>1, <3>2
    <3>4. Delimits(<<>>) \/ Keeps(<<>>)
      BY <1>1, <3>1, <3>2
    <3> HIDE DEF Leaves, Delimits, Keeps
    <3> QED
      BY <3>3, <3>4
  <2>4. CASE pipe[e].state \notin {"active", "delimiter_received", "waiting_for_delimiter"}
    <3>1. Leaves(pipe[e]) /\ Keeps(<<>>)
      BY <2>4 DEF terminate
    <3> HIDE DEF Leaves, Delimits, Keeps
    <3> QED
      BY <3>1
  <2> QED
    BY <2>1, <2>2, <2>3, <2>4
<1>6. PICK x \in {<<>>, <<b>>, <<c>>} : Does(x)
  BY <1>5
<1>7. x \in Seq(Command) /\ ~Has(x, "hiccup") /\ act \in Seq(Command) /\ ~Has(act, "hiccup")
  <2> HIDE DEF a, b, c, act
  <2> QED
    BY <1>3, <1>4
<1>8. t.cut = sent[e].cut
  BY <1>1, SaidFields
<1> HIDE DEF a, b, c, act, t
<1> QED
  BY <1>2, <1>6, <1>7, <1>8

\* A part at the end of the second of two queues is at the end of both.
LEMMA AppendBehind ==
    ASSUME NEW a \in Seq(Part), NEW b \in Seq(Part), NEW d \in Part
    PROVE  a \o Append(b, d) = Append(a \o b, d)
<1>1. /\ Append(b, d) = b \o <<d>> /\ <<d>> \in Seq(Part)
      /\ a \o b \in Seq(Part)
  BY AppendIsConcat, ConcatProperties
<1>2. Append(a \o b, d) = (a \o b) \o <<d>>
  BY <1>1, AppendIsConcat
<1>3. (a \o b) \o <<d>> = a \o (b \o <<d>>)
  BY <1>1, ConcatAssociative
<1> QED
  BY <1>1, <1>2, <1>3

\* terminate () adds no more than a delimiter to what is on its way.
LEMMA OrderTerminate == ASSUME IInv, OrderInv, NEW e \in End, NEW delay, terminate(e, delay) PROVE OrderInv'
<1> DEFINE p == peer(e)
           o == pipe[e].outpipe
           v == upipe[o]
           u == WithDelimiter(v)
           g == LastGot(p)
<1>1. p \in End /\ p # e /\ peer(p) = e /\ \A d \in End : d = e \/ d = p
  BY Peers
<1>2. /\ upipe \in [UpipeId -> Upipe] /\ pipe \in [End -> PipeObject]
      /\ sent \in [End -> Said]
  BY DEF IInv, TypeOK
<1>3. got' = got
  BY TerminateDoes
<1>4. PICK q : /\ pipe' = [pipe EXCEPT ![e] = q] /\ q.inpipe = pipe[e].inpipe /\ q.state # "active"
               /\ q.state = "waiting_for_delimiter" => pipe[e].state = "waiting_for_delimiter"
  BY TerminateDoes
<1>5. PICK x, y \in Seq(Command) :
        /\ ~Has(x, "hiccup") /\ ~Has(y, "hiccup")
        /\ \/ upipe' = upipe /\ sent' = sent /\ Send(e, x)
           \/ /\ o \in UpipeId /\ upipe' = [upipe EXCEPT ![o] = WithDelimiter(@)]
              /\ \E t : sent' = [sent EXCEPT ![e] = t] /\ t.cut = sent[e].cut
              /\ Send(e, x \o y)
  BY TerminateDoes
<1>6. \A d \in End : HArgs(cmds'[d]) = HArgs(cmds[d])
  <2>1. x \o y \in Seq(Command) /\ ~Has(x \o y, "hiccup")
    BY <1>5, QuietTwo
  <2> QED
    BY <1>5, <2>1, QuietSend
<1>7. /\ pipe'[p] = pipe[p] /\ pipe'[e].inpipe = pipe[e].inpipe
      /\ State(e)' # "active" /\ (Readable(e)' => Readable(e))
  BY <1>1, <1>2, <1>4 DEF State, Readable
<1>8. CASE upipe' = upipe /\ sent' = sent
  <2>1. \A d \in End : /\ Readable(d)' => Readable(d) /\ pipe'[d].inpipe = pipe[d].inpipe
                       /\ State(d)' = "active" => State(d) = "active" /\ pipe'[d].outpipe = pipe[d].outpipe
                       /\ HArgs(cmds'[d]) \subseteq HArgs(cmds[d])
    BY <1>1, <1>6, <1>7 DEF Readable, State
  <2> QED
    BY <1>3, <1>8, <2>1, OrderStill
<1>9. CASE /\ o \in UpipeId /\ upipe' = [upipe EXCEPT ![o] = WithDelimiter(@)]
           /\ \E t : sent' = [sent EXCEPT ![e] = t] /\ t.cut = sent[e].cut
  <2>1. /\ upipe' = [upipe EXCEPT ![o] = u] /\ v \in Upipe /\ o \in UpipeId
        /\ sent'[p] = sent[p] /\ sent'[e].cut = sent[e].cut
    BY <1>1, <1>2, <1>9
  <2> DEFINE C == sent[e].cut
  <2>2. ASSUME Readable(p), pipe[p].inpipe = o PROVE Stream(p, C, u.flushed, Content(u), g)
    <3> DEFINE z == Content(v)
               r == Append(z, Delimiter)
    <3>1. v.flushed \in Seq(Part) /\ v.complete \in Seq(Part) /\ Delimiter \in Part /\ <<>> \in Seq(Part) /\ z \in Seq(Part)
      BY <2>1, ContentType DEF Upipe, Part, Delimiter
    <3>2. u.flushed = r /\ Content(u) = r
      <4> DEFINE w == v.flushed \o Append(v.complete, Delimiter)
      <4>1. Append(v.complete, Delimiter) # <<>> /\ Append(v.complete, Delimiter) \in Seq(Part)
        <5> DEFINE d == Delimiter
                   b == v.complete
        <5>1. b \in Seq(Part) /\ d \in Part
          BY <3>1
        <5> HIDE DEF b, d
        <5>2. Append(b, d) # <<>> /\ Append(b, d) \in Seq(Part)
          BY <5>1, AppendProperties
        <5> QED
          BY <5>2 DEF b, d
      <4>2. u.flushed = w /\ u.complete = <<>>
        <5> HIDE DEF v
        <5> QED
          BY <2>1, <4>1 DEF WithDelimiter, FlushedUpipe, Upipe
      <4>3. w \in Seq(Part)
        BY <3>1, <4>1, ConcatProperties
      <4>4. w \o <<>> = w
        BY <4>3, ConcatEmptySeq
      <4>5. w = r
        <5>1. v.flushed \o Append(v.complete, Delimiter) = Append(v.flushed \o v.complete, Delimiter)
          BY <3>1, AppendBehind
        <5> QED
          BY <5>1 DEF Content
      <4> HIDE DEF w, r, u
      <4> QED
        BY <4>2, <4>4, <4>5 DEF Content
    <3>3. Stream(p, C, v.flushed, z, g)
      BY <1>1, <2>2 DEF OrderInv, OrderEnd, InU, Cut
    <3> HIDE DEF C
    <3>4. Follows(p, C, At(z, g, Len(z)), Delimiter)
      BY <3>3 DEF Stream, Follows, Delimiter
    <3>5. /\ Len(r) = Len(z) + 1 /\ Chain(p, C, r, g) /\ At(r, g, Len(z) + 1) = Delimiter
      <4>2. g \in Part
        BY <1>1, LastGotType DEF IInv
      <4> HIDE DEF z, g
      <4>1. Chain(p, C, z, g)
        BY <3>3 DEF Stream
      <4>3. Grown(p, C, z, g, Delimiter)
        BY <3>1, <3>4, <4>1, <4>2, ChainAppend
      <4> QED
        BY <4>3 DEF Grown
    <3>6. ~At(r, g, Len(r)).more
      BY <3>5 DEF Delimiter
    <3> HIDE DEF r, u
    <3> QED
      BY <3>2, <3>3, <3>5, <3>6 DEF Stream
  <2> HIDE DEF u, g
  <2>3. Readable(p) /\ pipe[p].inpipe = o => Stream(p, sent[e].cut, u.flushed, Content(u), LastGot(p))
    BY <2>2 DEF g
  <2> QED
    BY <1>3, <1>6, <1>7, <2>1, <2>3, WriterStep
<1> QED
  BY <1>5, <1>8, <1>9
-----------------------------------------------------------------------------
(* Reading *)

\* What remains is a stream behind h, and linked to the writer as before.
LEMMA StreamTaken ==
    ASSUME NEW p, NEW C, NEW g \in Part, NEW h \in Part,
           NEW s \in Seq(Part), NEW c \in Seq(Part), NEW f \in Seq(Part), NEW k, NEW z,
           Taken(s, f, g, h, k, z), Stream(p, C, s, s \o c, g)
    PROVE  /\ Stream(p, C, f, f \o c, h)
           /\ \A t : Linked(p, s \o c, g, t) => Linked(p, f \o c, h, t)
<1> DEFINE q == s \o c
           r == f \o c
           ls == Len(s)
           lf == Len(f)
           lq == Len(q)
           lr == Len(r)
<1>0. /\ k \in 0..ls /\ lf = ls - k /\ (\A n \in 1..lf : f[n] = s[n + k])
      /\ z \in 0..k /\ Clear(s, z, k + 1)
      /\ h.num = At(s, g, z).num /\ h.more = At(s, g, z).more
  BY DEF Taken
<1>1. /\ ls \in Nat /\ Len(c) \in Nat /\ lf \in Nat /\ k \in Nat /\ k <= ls /\ z \in Nat /\ z <= k
      /\ q \in Seq(Part) /\ r \in Seq(Part) /\ lq = ls + Len(c) /\ lr = lf + Len(c)
      /\ lr = lq - k /\ k \in 0..lq /\ lr \in Nat /\ lq \in Nat
  <2>1. /\ q \in Seq(Part) /\ r \in Seq(Part) /\ lq = ls + Len(c) /\ lr = lf + Len(c)
    BY ConcatProperties
  <2>2. ls \in Nat /\ Len(c) \in Nat /\ lf \in Nat /\ k \in Nat /\ k <= ls /\ z \in Nat /\ z <= k
    BY <1>0, LenProperties
  <2> HIDE DEF q, r, ls, lf, lq, lr
  <2>3. lf = ls - k
    BY <1>0
  <2>4. lr = lq - k /\ k <= lq /\ lr \in Nat /\ lq \in Nat
    <3> DEFINE lc == Len(c)
    <3>1. lq = ls + lc /\ lr = lf + lc /\ lc \in Nat
      BY <2>1, <2>2
    <3> HIDE DEF lc
    <3> QED
      BY <2>2, <2>3, <3>1
  <2> QED
    BY <2>1, <2>2, <2>4
<1>2. /\ \A n \in 1..lr : n + k \in 1..lq /\ r[n] = q[n + k]
      /\ \A n \in 1..ls : n \in 1..lq /\ q[n] = s[n]
  BY <1>0, SuffixConcat
<1>3. Chain(p, C, q, g) /\ ~At(s, g, ls).more /\ ~At(q, g, lq).more
  BY DEF Stream
<1> HIDE DEF q, r
<1>4. \A n \in 0..ls : At(s, g, n) = At(q, g, n)
  <2> SUFFICES ASSUME NEW n \in 0..ls, n # 0 PROVE At(s, g, n) = At(q, g, n)
    BY DEF At
  <2>1. n \in 1..ls
    BY <1>1
  <2> QED
    BY <1>2, <2>1 DEF At
<1> HIDE DEF ls, lf, lq, lr
\* Behind the z-th part there are credentials only, up to the k-th.
<1>5. k # z => /\ k \in 1..ls /\ s[k].kind = "credential" /\ q[k] = s[k] /\ At(q, g, k) = q[k]
               /\ Follows(p, C, At(q, g, z), q[k])
  <2> SUFFICES ASSUME k # z
               PROVE  /\ k \in 1..ls /\ s[k].kind = "credential" /\ q[k] = s[k] /\ At(q, g, k) = q[k]
                      /\ Follows(p, C, At(q, g, z), q[k])
    OBVIOUS
  <2>1. /\ k \in 1..ls /\ k \in 1..lq /\ k \in (z + 1)..((k + 1) - 1) /\ z \in 0..(k - 1) /\ k # 0
        /\ \A n \in (z + 1)..(k - 1) : n \in 1..ls /\ n \in (z + 1)..((k + 1) - 1)
    <3>1. k \in Nat /\ z \in Nat /\ ls \in Nat /\ lq \in Nat /\ z < k /\ k <= ls /\ k <= lq
      BY <1>1
    <3> QED
      BY <3>1
  <2>2. s[k].kind = "credential" /\ q[k] = s[k] /\ Clear(q, z, k)
    BY <1>0, <1>2, <2>1 DEF Clear
  <2>3. Follows(p, C, At(q, g, z), q[k])
    BY <1>3, <2>1, <2>2 DEF Chain, lq
  <2> QED
    BY <2>1, <2>2, <2>3 DEF At
<1>6. h.num = At(q, g, z).num /\ h.more = At(q, g, z).more
  <2>1. z \in 0..ls
    BY <1>1
  <2> QED
    BY <1>0, <1>4, <2>1
<1>7. Chain(p, C, r, h) /\ Left(q, r, g, h, k, z)
  <2>1. z \in 0..k /\ Clear(q, z, k + 1)
    <3>1. \A n \in (z + 1)..((k + 1) - 1) : n \in 1..ls
      BY <1>1
    <3> QED
      BY <1>0, <1>2, <3>1 DEF Clear
  <2>2. Taken(q, r, g, h, k, z)
    BY <1>1, <1>2, <1>6, <2>1 DEF Taken, lq, lr
  <2>3. q \in Seq(Part) /\ r \in Seq(Part) /\ Chain(p, C, q, g)
    BY <1>1, <1>3
  <2> QED
    BY <2>2, <2>3, ChainTake
\* The last part is what it was, or h is as good as the last part.
<1>8. ~At(r, h, lr).more /\ (p \in Hiccuper \/ At(r, h, lr).num = At(q, g, lq).num)
  <2>1. CASE lr # 0
    <3>1. lr \in 0..lr /\ Was(lr, k, z) = lq
      BY <1>1, <2>1 DEF Was
    <3> QED
      BY <1>3, <1>7, <3>1 DEF Left, lr
  <2>2. CASE lr = 0
    <3>1. k = lq /\ At(r, h, lr) = h
      BY <1>1, <2>2 DEF At
    <3>2. CASE k = z
      BY <1>3, <1>6, <3>1, <3>2
    <3>3. CASE k # z
      BY <1>5, <1>6, <3>1, <3>3 DEF Follows
    <3> QED
      BY <3>2, <3>3
  <2> QED
    BY <2>1, <2>2
<1>9. ~At(f, h, lf).more
  <2>1. CASE lf = 0
    <3>1. k = ls /\ At(f, h, lf) = h
      BY <1>0, <1>1, <2>1 DEF At
    <3>2. CASE k = z
      BY <1>0, <1>3, <3>1, <3>2
    <3>3. CASE k # z
      BY <1>5, <1>6, <3>1, <3>3 DEF Follows
    <3> QED
      BY <3>2, <3>3
  <2>2. CASE lf # 0
    <3>1. lf \in 1..lf /\ lf + k = ls /\ ls # 0
      BY <1>0, <1>1, <2>2
    <3>2. f[lf] = s[ls]
      BY <1>0, <3>1
    <3> QED
      BY <1>3, <2>2, <3>1, <3>2 DEF At
  <2> QED
    BY <2>1, <2>2
<1>10. Stream(p, C, f, r, h)
  BY <1>7, <1>8, <1>9 DEF Stream, lf, lr
<1>11. ASSUME NEW t, Linked(p, q, g, t) PROVE Linked(p, r, h, t)
  <2>1. \A n \in 0..lr : 0 <= At(r, h, n).num /\ At(r, h, n).num <= Base(t)
    BY <1>7, <1>11 DEF Linked, Left, lr
  <2>2. p \in Hiccuper \/ At(r, h, lr).num = Base(t)
    BY <1>8, <1>11 DEF Linked, lq
  <2> QED
    BY <2>1, <2>2 DEF Linked, lr
<1> QED
  BY <1>10, <1>11 DEF q, r

\* An end takes the first parts out of its inpipe.  If it still reads afterwards, what
\* its user has got is the last of them, or as good.
LEMMA OrderTaken ==
    ASSUME IInv, OrderInv, NEW e \in End, Readable(e), NEW f \in Seq(Part),
           NEW w, upipe' = [upipe EXCEPT ![pipe[e].inpipe] = w],
           w.flushed = f, w.complete = InU(e).complete, w.partial = InU(e).partial,
           pipe'[peer(e)] = pipe[peer(e)], sent' = sent, got'[peer(e)] = got[peer(e)],
           \A d \in End : HArgs(cmds'[d]) = HArgs(cmds[d]),
           State(e)' = "active" => State(e) = "active" /\ pipe'[e].outpipe = pipe[e].outpipe,
           got' \in [End -> [num : Int, more : BOOLEAN]],
           Readable(e)' => /\ pipe'[e].inpipe = pipe[e].inpipe
                           /\ \E k, z : Taken(InU(e).flushed, f, LastGot(e), LastGot(e)', k, z)
    PROVE  OrderInv'
<1> DEFINE p == peer(e)
           i == pipe[e].inpipe
           s == InU(e).flushed
           c == InU(e).complete
<1>1. p \in End /\ p # e /\ peer(p) = e /\ \A d \in End : d = e \/ d = p
  BY Peers
<1>2. /\ upipe \in [UpipeId -> Upipe] /\ i \in UpipeId /\ InU(e) \in Upipe
      /\ i \in Dir(e) /\ i \notin Dir(p) /\ s \in Seq(Part) /\ c \in Seq(Part)
  <2>1. State(e) # "gone"
    BY DEF Readable
  <2>2. i \in UpipeId /\ i \in Dir(e) /\ i \notin Dir(p)
    BY <2>1, Apart
  <2>3. upipe \in [UpipeId -> Upipe] /\ InU(e) \in Upipe
    BY <2>1, EndFacts DEF IInv, TypeOK, InU
  <2>4. s \in Seq(Part) /\ c \in Seq(Part)
    BY <2>3 DEF Upipe
  <2> QED
    BY <2>2, <2>3, <2>4
<1>3. \A j \in UpipeId : /\ upipe'[j] = IF j = i THEN w ELSE upipe[j]
                         /\ upipe'[j].partial = upipe[j].partial
  BY <1>2 DEF InU
<1>4. OrderEnd(p)'
  <2>1. Readable(p) => pipe[p].inpipe \in UpipeId /\ pipe[p].inpipe # i
    BY <1>1, <1>2, Apart DEF Readable
  <2>2. Readable(p)' => /\ Readable(p) /\ pipe'[p].inpipe = pipe[p].inpipe
                        /\ upipe'[pipe[p].inpipe] = upipe[pipe[p].inpipe]
    BY <1>3, <2>1 DEF Readable, State
  <2>3. State(e)' = "active" => /\ State(e) = "active" /\ sent'[e] = sent[e] /\ pipe'[e].outpipe = pipe[e].outpipe
                                /\ \A j \in UpipeId : j \in Dir(p) => upipe'[j].partial = upipe[j].partial
    BY <1>3
  <2>4. OrderEnd(p) /\ HArgs(cmds'[e]) \subseteq HArgs(cmds[e]) /\ Cut(p)' = Cut(p)
    BY <1>1 DEF OrderInv, Cut
  <2> QED
    BY <1>1, <2>2, <2>3, <2>4, OrderFrame
<1>5. /\ OrderEnd(e) /\ State(p)' = State(p) /\ HArgs(cmds'[p]) = HArgs(cmds[p]) /\ sent'[p] = sent[p]
      /\ Cut(e)' = Cut(e) /\ Cut(p)' = Cut(p)
  BY <1>1 DEF OrderInv, State, Cut
<1>6. ASSUME Readable(e)'
      PROVE  /\ Stream(e, Cut(e), InU(e).flushed, Content(InU(e)), LastGot(e))'
             /\ \A t : Linked(e, Content(InU(e)), LastGot(e), t) => Linked(e, Content(InU(e))', LastGot(e)', t)
  <2> DEFINE C == Cut(e)
  <2>1. PICK k, z : Taken(s, f, LastGot(e), LastGot(e)', k, z)
    BY <1>6
  <2>2. Stream(e, C, s, s \o c, LastGot(e))
    BY <1>5 DEF OrderEnd, Content
  <2>3. LastGot(e) \in Part
    BY LastGotType DEF IInv
  <2>4. LastGot(e)' \in Part
    <3>1. got'[e].num \in Int /\ got'[e].more \in BOOLEAN
      OBVIOUS
    <3> QED
      BY <3>1 DEF LastGot, Part
  <2>5. /\ Stream(e, C, f, f \o c, LastGot(e)')
        /\ \A t : Linked(e, s \o c, LastGot(e), t) => Linked(e, f \o c, LastGot(e)', t)
    <3> DEFINE g == LastGot(e)
    <3>1. PICK h : h = LastGot(e)'
      OBVIOUS
    <3>2. g \in Part /\ h \in Part /\ Taken(s, f, g, h, k, z) /\ Stream(e, C, s, s \o c, g)
      BY <2>1, <2>2, <2>3, <2>4, <3>1
    <3> HIDE DEF s, c, g, C
    <3>3. /\ Stream(e, C, f, f \o c, h)
          /\ \A t : Linked(e, s \o c, g, t) => Linked(e, f \o c, h, t)
      BY <1>2, <3>2, StreamTaken
    <3> QED
      BY <3>1, <3>3 DEF g
  <2>6. InU(e)' = w
    BY <1>2, <1>3, <1>6 DEF InU
  <2>7. Content(InU(e)) = s \o c
    BY DEF Content
  <2>8. InU(e).flushed' = f /\ Content(InU(e))' = f \o c
    BY <2>6 DEF Content
  <2> QED
    BY <1>5, <2>5, <2>7, <2>8
<1>7. ASSUME State(p) = "active"
      PROVE  /\ WriterOK(e, sent[p], upipe[pipe[p].outpipe].partial)'
             /\ \A j \in HArgs(cmds'[p]) : upipe'[j].partial = <<>>
  <2>1. /\ WriterOK(e, sent[p], upipe[pipe[p].outpipe].partial)
        /\ \A j \in HArgs(cmds[p]) : upipe[j].partial = <<>>
    BY <1>5, <1>7 DEF OrderEnd
  <2>2. pipe[p].outpipe \in UpipeId /\ HArgs(cmds[p]) \subseteq UpipeId
    BY <1>1, <1>7, OwnPipes
  <2>3. pipe'[p].outpipe = pipe[p].outpipe /\ upipe'[pipe[p].outpipe].partial = upipe[pipe[p].outpipe].partial
    BY <1>3, <2>2
  <2> QED
    BY <1>3, <1>5, <2>1, <2>2, <2>3
<1>8. ASSUME State(p) = "active", Readable(e)' PROVE Linked(e, Content(InU(e)), LastGot(e), sent[p])'
  <2>1. Linked(e, Content(InU(e)), LastGot(e), sent[p])
    BY <1>5, <1>8 DEF OrderEnd
  <2> QED
    BY <1>5, <1>6, <1>8, <2>1
<1>9. (e \notin Hiccuper => HArgs(cmds[p]) = {})'
  BY <1>5 DEF OrderEnd
<1>10. OrderEnd(e)'
  BY <1>5, <1>6, <1>7, <1>8, <1>9 DEF OrderEnd
<1> QED
  BY <1>1, <1>4, <1>10 DEF OrderInv

\* The ways in which check_read () and read () end: nothing but credentials was there,
\* or a delimiter, or a part of a message behind k credentials.
FindsNothing(e) ==
    /\ ReadFails(e)
    /\ \A i \in 1..Len(InU(e).flushed) : InU(e).flushed[i].kind = "credential"

FindsDelimiter(e, f) ==
    /\ upipe' = [upipe EXCEPT ![pipe[e].inpipe].flushed = f]
    /\ process_delimiter(e, pipe[e]) /\ UNCHANGED <<sent, got>>

FindsPart(e, k, f) ==
    LET s == InU(e).flushed IN
    /\ k \in 0..Len(s) /\ k + 1 \in 1..Len(s)
    /\ \A i \in 1..k : s[i].kind = "credential"
    /\ s[k + 1].kind = "data"
    /\ Len(f) = Len(s) - (k + 1) /\ \A n \in 1..Len(f) : f[n] = s[n + (k + 1)]
    /\ upipe' = [upipe EXCEPT ![pipe[e].inpipe].flushed = f]
    /\ ReadPart(e, s[k + 1]) /\ UNCHANGED sent

\* These are all.
LEMMA ReadFinds ==
    ASSUME IInv, NEW e \in End, check_read(e) \/ read(e)
    PROVE  /\ Readable(e)
           /\ \/ FindsNothing(e)
              \/ \E f \in Seq(Part) : FindsDelimiter(e, f)
              \/ \E k \in Nat, f \in Seq(Part) : FindsPart(e, k, f)
<1> DEFINE q == upipe[pipe[e].inpipe].flushed
<1>1. Readable(e) /\ State(e) # "gone"
  BY DEF check_read, read, Readable
<1>2. q \in Seq(Part) /\ Len(q) \in Nat /\ q = InU(e).flushed
  BY <1>1, EndFacts, LenProperties DEF Upipe, InU
<1>3. CASE check_read(e)
  <2>1. CASE q = <<>> /\ ReadFails(e)
    <3>1. Len(q) = 0
      BY <2>1
    <3> HIDE DEF q
    <3>2. \A i \in 1..Len(q) : q[i].kind = "credential"
      BY <3>1
    <3> QED
      BY <1>1, <1>2, <2>1, <3>2 DEF FindsNothing
  <2>2. CASE /\ q # <<>> /\ upipe' = [upipe EXCEPT ![pipe[e].inpipe].flushed = Tail(q)]
             /\ process_delimiter(e, pipe[e]) /\ UNCHANGED <<sent, got, calls>>
    <3>1. Tail(q) \in Seq(Part)
      BY <1>2, <2>2, HeadTailProperties
    <3> QED
      BY <1>1, <2>2, <3>1 DEF FindsDelimiter
  <2> QED
    BY <1>3, <2>1, <2>2 DEF check_read
<1>4. CASE read(e)
  <2>1. PICK k \in 0..Len(q) :
           /\ \A i \in 1..k : q[i].kind = "credential"
           /\ \/ k = Len(q) /\ ReadFails(e)
              \/ /\ k < Len(q) /\ q[k + 1].kind # "credential"
                 /\ upipe' = [upipe EXCEPT ![pipe[e].inpipe].flushed = SubSeq(q, k + 2, Len(q))]
                 /\ IF q[k + 1].kind = "delimiter"
                    THEN process_delimiter(e, pipe[e]) /\ UNCHANGED got
                    ELSE ReadPart(e, q[k + 1])
                 /\ UNCHANGED <<sent, calls>>
    BY <1>4 DEF read
  <2>2. CASE k = Len(q) /\ ReadFails(e)
    BY <1>1, <1>2, <2>1, <2>2 DEF FindsNothing
  <2>3. CASE k < Len(q) /\ ~(k = Len(q) /\ ReadFails(e))
    <3> DEFINE f == SubSeq(q, k + 2, Len(q))
    <3>1. k + 1 \in 1..Len(q) /\ k \in Nat
      BY <1>2, <2>3
    <3>2. f \in Seq(Part) /\ Len(f) = Len(q) - (k + 1) /\ \A n \in 1..Len(f) : f[n] = q[n + (k + 1)]
      <4> HIDE DEF q
      <4>1. \A n \in (k + 2)..Len(q) : q[n] \in Part
        BY <1>2, <3>1, ElementOfSeq
      <4>2. f \in Seq(Part)
        BY <1>2, <3>1, <4>1
      <4>3. Len(f) = Len(q) - (k + 1) /\ \A n \in 1..(Len(q) - (k + 1)) : f[n] = q[n + (k + 1)]
        BY <1>2, <3>1, SMTT(40)
      <4> HIDE DEF f
      <4> QED
        BY <4>2, <4>3
    <3>3. q[k + 1] \in Part
      BY <1>2, <3>1, ElementOfSeq
    <3>4. upipe' = [upipe EXCEPT ![pipe[e].inpipe].flushed = f] /\ UNCHANGED sent
      BY <2>1, <2>3
    <3> HIDE DEF f
    <3>5. CASE q[k + 1].kind = "delimiter"
      BY <1>1, <2>1, <2>3, <3>2, <3>4, <3>5 DEF FindsDelimiter
    <3>6. CASE q[k + 1].kind # "delimiter"
      <4>1. q[k + 1].kind = "data" /\ ReadPart(e, q[k + 1])
        BY <2>1, <2>3, <3>3, <3>6 DEF Part
      <4> HIDE DEF q
      <4>2. FindsPart(e, k, f)
        BY <1>2, <2>1, <3>1, <3>2, <3>4, <4>1 DEF FindsPart
      <4> QED
        BY <1>1, <3>1, <3>2, <4>2
    <3> QED
      BY <3>5, <3>6
  <2> QED
    BY <2>1, <2>2, <2>3
<1> QED
  BY <1>3, <1>4

\* A reader that finds nothing has taken credentials at most.
LEMMA OrderReadFails == ASSUME IInv, OrderInv, NEW e \in End, Readable(e), FindsNothing(e) PROVE OrderInv'
<1> DEFINE p == peer(e)
           i == pipe[e].inpipe
           v == upipe[i]
           s == v.flushed
           c == v.complete
           g == LastGot(e)
           w == [v EXCEPT !.flushed = <<>>, !.asleep = TRUE]
           q == [pipe[e] EXCEPT !.in_active = FALSE]
<1>1. /\ upipe \in [UpipeId -> Upipe] /\ pipe \in [End -> PipeObject] /\ got \in [End -> [num : Int, more : BOOLEAN]]
      /\ i \in UpipeId /\ v \in Upipe /\ pipe[e] \in PipeObject /\ InU(e) = v
  BY EndFacts DEF IInv, TypeOK, Readable, InU
<1>2. p \in End /\ p # e /\ peer(p) = e
  BY Peers
<1>3. /\ upipe' = [upipe EXCEPT ![i] = w] /\ pipe' = [pipe EXCEPT ![e] = q]
      /\ cmds' = cmds /\ sent' = sent /\ got' = got
  BY <1>1 DEF FindsNothing, ReadFails
<1>4. w.flushed = <<>> /\ w.complete = InU(e).complete /\ w.partial = InU(e).partial
  BY <1>1 DEF Upipe
<1>5. q.state = pipe[e].state /\ q.outpipe = pipe[e].outpipe /\ q.inpipe = i
  BY <1>1 DEF PipeObject
<1> HIDE DEF w, q
<1>6. pipe'[p] = pipe[p] /\ pipe'[e] = q /\ State(e)' = State(e) /\ LastGot(e)' = g
  BY <1>1, <1>2, <1>3, <1>5 DEF State, LastGot
<1>7. s \in Seq(Part) /\ c \in Seq(Part) /\ Len(s) \in Nat /\ g \in Part
  BY <1>1, LenProperties, LastGotType DEF Upipe, IInv
<1>8. \A n \in 1..Len(s) : s[n].kind = "credential"
  BY <1>1 DEF FindsNothing
<1>9. Taken(s, <<>>, g, g, Len(s), 0)
  <2> HIDE DEF s, g
  <2> DEFINE l == Len(s)
  <2>1. l \in 0..l /\ Len(<<>>) = l - l /\ \A n \in 1..Len(<<>>) : <<>>[n] = s[n + l]
    <3>1. l \in Nat
      BY <1>7
    <3> HIDE DEF l
    <3> QED
      BY <3>1
  <2>2. 0 \in 0..l /\ \A n \in (0 + 1)..((l + 1) - 1) : n \in 1..l
    <3>1. l \in Nat
      BY <1>7
    <3> HIDE DEF l
    <3> QED
      BY <3>1
  <2>3. Clear(s, 0, l + 1)
    BY <1>8, <2>2 DEF Clear
  <2>4. At(s, g, 0) = g
    BY DEF At
  <2> QED
    BY <2>1, <2>2, <2>3, <2>4 DEF Taken
<1>10. /\ State(e)' = "active" => State(e) = "active" /\ pipe'[e].outpipe = pipe[e].outpipe
       /\ Readable(e)' => /\ pipe'[e].inpipe = pipe[e].inpipe
                          /\ \E k, z : Taken(InU(e).flushed, <<>>, LastGot(e), LastGot(e)', k, z)
  <2> HIDE DEF s
  <2> QED
    BY <1>1, <1>5, <1>6, <1>9 DEF s
<1>11. <<>> \in Seq(Part) /\ got' \in [End -> [num : Int, more : BOOLEAN]] /\ got'[p] = got[p]
       /\ \A d \in End : HArgs(cmds'[d]) = HArgs(cmds[d])
  BY <1>1, <1>3
<1> QED
  BY <1>3, <1>4, <1>6, <1>10, <1>11, OrderTaken

\* A reader that finds a delimiter reads no more.
LEMMA OrderDelimiter ==
    ASSUME IInv, OrderInv, NEW e \in End, Readable(e), NEW f \in Seq(Part), FindsDelimiter(e, f)
    PROVE  OrderInv'
<1> DEFINE p == peer(e)
           i == pipe[e].inpipe
           v == upipe[i]
           w == [v EXCEPT !.flushed = f]
           c == Cmd("pipe_term_ack")
<1>1. /\ upipe \in [UpipeId -> Upipe] /\ pipe \in [End -> PipeObject] /\ got \in [End -> [num : Int, more : BOOLEAN]]
      /\ i \in UpipeId /\ v \in Upipe /\ pipe[e] \in PipeObject /\ InU(e) = v
  BY EndFacts DEF IInv, TypeOK, Readable, InU
<1>2. p \in End /\ p # e /\ peer(p) = e
  BY Peers
<1>3. /\ upipe' = [upipe EXCEPT ![i] = w] /\ process_delimiter(e, pipe[e]) /\ sent' = sent /\ got' = got
  BY <1>1 DEF FindsDelimiter
<1>4. w.flushed = f /\ w.complete = InU(e).complete /\ w.partial = InU(e).partial
  BY <1>1 DEF Upipe
<1> HIDE DEF w
<1>5. PICK q : pipe' = [pipe EXCEPT ![e] = q] /\ q.state \in {"delimiter_received", "term_ack_sent"}
  <2>1. CASE pipe[e].state = "active"
    <3> DEFINE q == [pipe[e] EXCEPT !.state = "delimiter_received"]
    <3>1. pipe' = [pipe EXCEPT ![e] = q]
      BY <1>3, <2>1 DEF process_delimiter
    <3>2. q.state = "delimiter_received"
      BY <1>1 DEF PipeObject
    <3> HIDE DEF q
    <3> QED
      BY <3>1, <3>2
  <2>2. CASE pipe[e].state # "active"
    <3> DEFINE q == [pipe[e] EXCEPT !.state = "term_ack_sent", !.outpipe = NULL]
    <3>1. pipe' = [pipe EXCEPT ![e] = q]
      BY <1>3, <2>2 DEF process_delimiter
    <3>2. q.state = "term_ack_sent"
      BY <1>1 DEF PipeObject
    <3> HIDE DEF q
    <3> QED
      BY <3>1, <3>2
  <2> QED
    BY <2>1, <2>2
<1>6. \A d \in End : HArgs(cmds'[d]) = HArgs(cmds[d])
  <2>1. c \in Command /\ c.type # "hiccup"
    BY DEF Cmd, Command
  <2>2. cmds' = cmds \/ Send(e, <<c>>)
    BY <1>3 DEF process_delimiter
  <2> HIDE DEF c
  <2>3. <<c>> \in Seq(Command) /\ ~Has(<<c>>, "hiccup")
    BY <2>1, QuietCommands
  <2> QED
    BY <2>2, <2>3, QuietSend
<1>7. pipe'[p] = pipe[p] /\ State(e)' # "active" /\ ~Readable(e)'
  BY <1>1, <1>2, <1>5 DEF State, Readable
<1>8. got' \in [End -> [num : Int, more : BOOLEAN]] /\ got'[p] = got[p]
  BY <1>1, <1>3
<1> QED
  BY <1>3, <1>4, <1>6, <1>7, <1>8, OrderTaken

\* A reader that finds a part of a message has got that part.
LEMMA OrderReadPart ==
    ASSUME IInv, OrderInv, NEW e \in End, Readable(e), NEW k \in Nat, NEW f \in Seq(Part), FindsPart(e, k, f)
    PROVE  OrderInv'
<1> DEFINE p == peer(e)
           i == pipe[e].inpipe
           v == upipe[i]
           s == InU(e).flushed
           m == s[k + 1]
           w == [v EXCEPT !.flushed = f]
           r == IF m.more THEN pipe[e].msgs_read ELSE pipe[e].msgs_read + 1
           q == [pipe[e] EXCEPT !.msgs_read = r]
           c == [type |-> "activate_write", arg |-> r]
<1>1. /\ upipe \in [UpipeId -> Upipe] /\ pipe \in [End -> PipeObject] /\ got \in [End -> [num : Int, more : BOOLEAN]]
      /\ i \in UpipeId /\ v \in Upipe /\ pipe[e] \in PipeObject /\ InU(e) = v /\ s \in Seq(Part)
  BY EndFacts DEF IInv, TypeOK, Readable, InU, Upipe
<1>2. p \in End /\ p # e /\ peer(p) = e
  BY Peers
<1>3. /\ k + 1 \in 1..Len(s) /\ m.kind = "data"
      /\ Len(f) = Len(s) - (k + 1) /\ \A n \in 1..Len(f) : f[n] = s[n + (k + 1)]
      /\ upipe' = [upipe EXCEPT ![i].flushed = f] /\ ReadPart(e, m) /\ sent' = sent
  BY DEF FindsPart
<1>4. upipe' = [upipe EXCEPT ![i] = w] /\ w.flushed = f /\ w.complete = InU(e).complete /\ w.partial = InU(e).partial
  BY <1>1, <1>3 DEF Upipe
<1>5. m \in Part /\ m.num \in Int /\ m.more \in BOOLEAN
  <2> HIDE DEF s
  <2>1. m \in Part
    BY <1>1, <1>3, ElementOfSeq
  <2> HIDE DEF m
  <2> QED
    BY <2>1 DEF Part
<1> HIDE DEF w
<1>6. /\ pipe' = [pipe EXCEPT ![e] = q] /\ Send(e, IF ActivateWrite(q) THEN <<c>> ELSE <<>>)
      /\ got' = [got EXCEPT ![e] = [num |-> m.num, more |-> m.more]]
  <2> HIDE DEF m
  <2>1. q = [pipe[e] EXCEPT !.msgs_read = IF m.more THEN @ ELSE @ + 1]
    OBVIOUS
  <2>2. q.msgs_read = r
    BY <1>1 DEF PipeObject
  <2> HIDE DEF q
  <2> QED
    BY <1>3, <2>1, <2>2 DEF ReadPart
<1>7. q.state = pipe[e].state /\ q.outpipe = pipe[e].outpipe /\ q.inpipe = i
  <2> HIDE DEF r
  <2> QED
    BY <1>1 DEF PipeObject
<1>8. \A d \in End : HArgs(cmds'[d]) = HArgs(cmds[d])
  <2>1. c \in Command /\ c.type # "hiccup"
    <3>1. r \in Nat
      <4> DEFINE n == pipe[e].msgs_read
      <4>1. n \in Nat
        BY Counters
      <4>2. r = n \/ r = n + 1
        OBVIOUS
      <4> HIDE DEF n, r
      <4> QED
        BY <4>1, <4>2
    <3> HIDE DEF r
    <3> QED
      BY <3>1 DEF Command
  <2> HIDE DEF c
  <2>2. <<c>> \in Seq(Command) /\ ~Has(<<c>>, "hiccup") /\ <<>> \in Seq(Command) /\ ~Has(<<>>, "hiccup")
    BY <2>1, QuietCommands
  <2>3. Send(e, <<c>>) \/ Send(e, <<>>)
    <3> HIDE DEF q
    <3> QED
      BY <1>6
  <2> QED
    BY <2>2, <2>3, QuietSend
<1> HIDE DEF q, r, c
<1>9. pipe'[p] = pipe[p] /\ pipe'[e] = q /\ State(e)' = State(e)
  BY <1>1, <1>2, <1>6, <1>7 DEF State
<1>10. /\ got' \in [End -> [num : Int, more : BOOLEAN]] /\ got'[p] = got[p]
       /\ LastGot(e)' = [kind |-> "data", num |-> m.num, more |-> m.more]
  <2> HIDE DEF m
  <2> QED
    BY <1>1, <1>2, <1>5, <1>6 DEF LastGot
<1>11. ASSUME NEW g, NEW h, h = [kind |-> "data", num |-> m.num, more |-> m.more] PROVE Taken(s, f, g, h, k + 1, k + 1)
  <2> HIDE DEF s
  <2>1. Len(s) \in Nat
    BY <1>1, LenProperties
  <2>2. k + 1 # 0 /\ k + 1 \in 0..Len(s)
    BY <1>3, <2>1
  <2>3. At(s, g, k + 1) = m
    BY <2>2 DEF At
  <2> HIDE DEF m
  <2>4. h.num = m.num /\ h.more = m.more
    BY <1>11
  <2>5. k + 1 \in 0..(k + 1) /\ \A n \in ((k + 1) + 1)..(((k + 1) + 1) - 1) : FALSE
    OBVIOUS
  <2>6. Clear(s, k + 1, (k + 1) + 1)
    BY <2>5 DEF Clear
  <2> QED
    BY <1>3, <2>2, <2>3, <2>4, <2>5, <2>6 DEF Taken
<1>12. /\ State(e)' = "active" => State(e) = "active" /\ pipe'[e].outpipe = pipe[e].outpipe
       /\ Readable(e)' => /\ pipe'[e].inpipe = pipe[e].inpipe
                          /\ \E n, z : Taken(InU(e).flushed, f, LastGot(e), LastGot(e)', n, z)
  <2>1. Taken(s, f, LastGot(e), LastGot(e)', k + 1, k + 1)
    <3> HIDE DEF s, m
    <3> QED
      BY <1>10, <1>11
  <2> QED
    BY <1>7, <1>9, <2>1
<1> HIDE DEF s, m
<1> QED
  BY <1>3, <1>4, <1>8, <1>9, <1>10, <1>12, OrderTaken

\* check_read () and read ().
LEMMA OrderRead == ASSUME IInv, OrderInv, NEW e \in End, check_read(e) \/ read(e) PROVE OrderInv'
<1> QED
  BY ReadFinds, OrderReadFails, OrderDelimiter, OrderReadPart
-----------------------------------------------------------------------------
(* Hiccups *)

\* Nothing is on its way through a new pipe.
LEMMA StreamNew ==
    ASSUME NEW p, NEW C, NEW g, ~g.more PROVE Stream(p, C, <<>>, <<>>, g)
<1>1. Len(<<>>) = 0 /\ 1..0 = {}
  OBVIOUS
<1>2. At(<<>>, g, 0) = g
  BY DEF At
<1>3. Chain(p, C, <<>>, g)
  BY <1>1 DEF Chain
<1> QED
  BY <1>1, <1>2, <1>3 DEF Stream

\* hiccup () drops what its end has not read.
LEMMA OrderHiccup ==
    ASSUME IInv, OrderInv, NEW e \in End, hiccup(e) PROVE OrderInv'
<1> DEFINE p == peer(e)
           n == Made + 1
           q == [pipe[e] EXCEPT !.inpipe = n, !.in_active = TRUE]
           c == [type |-> "hiccup", arg |-> n]
           z == cmds[p]
           g == LastGot(e)
<1>1. p \in End /\ p # e /\ peer(p) = e /\ \A d \in End : d = e \/ d = p
  BY Peers
<1>2. /\ pipe \in [End -> PipeObject] /\ cmds \in [End -> Seq(Command)] /\ upipe \in [UpipeId -> Upipe]
      /\ pipe[e] \in PipeObject /\ Made \in Nat
  BY MadeType DEF IInv, TypeOK
<1>3. /\ n \in UpipeId /\ e \in Hiccuper /\ State(e) = "active" /\ ~got[e].more
      /\ upipe' = [upipe EXCEPT ![n] = NewUpipe]
      /\ pipe' = [pipe EXCEPT ![e] = q] /\ Send(e, <<c>>)
      /\ sent' = sent /\ got' = got
  BY <1>2 DEF hiccup, Made
<1>4. q.state = pipe[e].state /\ q.outpipe = pipe[e].outpipe /\ q.inpipe = n
  BY <1>2 DEF PipeObject
<1>5. c \in Command /\ c.type = "hiccup" /\ c.arg = n
  BY <1>2 DEF Command
<1>6. NewUpipe.partial = <<>> /\ NewUpipe.flushed = <<>> /\ Content(NewUpipe) = <<>>
  BY DEF NewUpipe, Content
<1> HIDE DEF q, c
<1>7. \A j \in UpipeId : upipe'[j] = IF j = n THEN NewUpipe ELSE upipe[j]
  BY <1>2, <1>3
<1>8. \A d \in End : n \notin Dir(d)
  <2>1. \A d \in End : \A j \in Dir(d) : j \in Int /\ j <= Made
    BY DirMade
  <2> QED
    BY <1>2, <2>1
<1>9. pipe'[p] = pipe[p] /\ pipe'[e] = q /\ State(p)' = State(p) /\ State(e)' = State(e)
  BY <1>1, <1>2, <1>3, <1>4 DEF State
<1>10. cmds'[e] = cmds[e] /\ cmds'[p] = Append(z, c) /\ z \in Seq(Command)
  <2>1. z \in Seq(Command) /\ cmds' = [cmds EXCEPT ![p] = z \o <<c>>]
    BY <1>1, <1>2, <1>3 DEF Send
  <2>2. z \o <<c>> = Append(z, c)
    BY <1>5, <2>1, Sends
  <2> QED
    BY <1>1, <1>2, <2>1, <2>2
<1>11. HArgs(cmds'[p]) = HArgs(z) \cup {n}
  <2> HIDE DEF z
  <2>1. HArgs(Append(z, c)) = HArgs(z) \cup {n}
    BY <1>5, <1>10, HArgsAppend
  <2> QED
    BY <1>10, <2>1
<1>12. OrderEnd(p)'
  <2>1. OrderEnd(p)
    BY <1>1 DEF OrderInv
  <2>2. Readable(p) => pipe[p].inpipe \in UpipeId /\ pipe[p].inpipe # n
    BY <1>1, <1>8, Apart DEF Readable
  <2>3. Readable(p)' => /\ Readable(p) /\ pipe'[p].inpipe = pipe[p].inpipe
                        /\ upipe'[pipe[p].inpipe] = upipe[pipe[p].inpipe]
    BY <1>7, <1>9, <2>2 DEF Readable
  <2>4. pipe'[e].outpipe = pipe[e].outpipe
    BY <1>4, <1>9
  <2>5. \A j \in UpipeId : j \in Dir(p) => upipe'[j] = upipe[j]
    BY <1>1, <1>7, <1>8
  <2>6. Cut(p)' = Cut(p)
    BY <1>3 DEF Cut
  <2> QED
    BY <1>1, <1>3, <1>9, <1>10, <2>1, <2>3, <2>4, <2>5, <2>6, OrderFrame
<1>13. OrderEnd(e)
  BY DEF OrderInv
<1>14. Readable(e) /\ g' = g /\ upipe'[pipe'[e].inpipe] = NewUpipe
  BY <1>3, <1>4, <1>7, <1>9 DEF Readable, LastGot
<1>15. ~g.more
  BY <1>3 DEF LastGot
<1> HIDE DEF g
<1>16. Stream(e, Cut(e), InU(e).flushed, Content(InU(e)), g)'
  <2>1. Stream(e, Cut(e)', <<>>, <<>>, g)
    BY <1>15, StreamNew
  <2>2. InU(e)' = NewUpipe
    BY <1>14 DEF InU
  <2> QED
    BY <1>6, <1>14, <2>1, <2>2
<1>17. ASSUME State(p) = "active"
       PROVE  /\ WriterOK(e, sent[p], upipe[pipe[p].outpipe].partial)'
              /\ \A j \in HArgs(cmds'[p]) : upipe'[j].partial = <<>>
              /\ Linked(e, Content(InU(e)), g, sent[p])'
  <2>1. /\ pipe[p].outpipe \in UpipeId /\ pipe[p].outpipe \in Dir(e)
        /\ HArgs(z) \subseteq UpipeId /\ HArgs(z) \subseteq Dir(e)
    BY <1>1, <1>17, OwnPipes
  <2>2. /\ WriterOK(e, sent[p], upipe[pipe[p].outpipe].partial)
        /\ \A j \in HArgs(z) : upipe[j].partial = <<>>
        /\ Linked(e, Content(InU(e)), g, sent[p])
    BY <1>13, <1>14, <1>17 DEF OrderEnd, g
  <2>3. /\ sent'[p] = sent[p] /\ upipe'[pipe'[p].outpipe] = upipe[pipe[p].outpipe]
    BY <1>3, <1>7, <1>8, <1>9, <2>1
  <2>4. \A j \in HArgs(cmds'[p]) : upipe'[j].partial = <<>>
    BY <1>3, <1>6, <1>7, <1>11, <2>1, <2>2
  <2>5. Linked(e, <<>>, g, sent[p])
    <3>1. Content(InU(e)) \in Seq(Part)
      <4>1. pipe[e].inpipe \in UpipeId
        BY <1>3, Apart
      <4> QED
        BY <1>2, <4>1, ContentType DEF InU
    <3>2. 0 \in 0..Len(Content(InU(e)))
      BY <3>1, LenProperties
    <3>3. At(Content(InU(e)), g, 0) = g /\ At(<<>>, g, 0) = g
      BY DEF At
    <3>4. 0 <= g.num /\ g.num <= Base(sent[p])
      BY <2>2, <3>2, <3>3 DEF Linked
    <3>5. Len(<<>>) = 0 /\ \A i \in 0..0 : i = 0
      OBVIOUS
    <3>6. \A i \in 0..Len(<<>>) : 0 <= At(<<>>, g, i).num /\ At(<<>>, g, i).num <= Base(sent[p])
      BY <3>3, <3>4, <3>5
    <3> QED
      BY <1>3, <3>6 DEF Linked
  <2>6. Content(InU(e))' = <<>>
    BY <1>6, <1>14 DEF InU
  <2> QED
    BY <1>14, <2>2, <2>3, <2>4, <2>5, <2>6
<1>18. OrderEnd(e)'
  <2>1. LastGot(e)' = g
    BY <1>14 DEF g
  <2>2. Stream(e, Cut(e), InU(e).flushed, Content(InU(e)), LastGot(e))'
    BY <1>14, <1>16 DEF g
  <2>3. State(p)' = "active" => /\ WriterOK(e, sent[p], upipe[pipe[p].outpipe].partial)'
                                /\ \A j \in HArgs(cmds'[p]) : upipe'[j].partial = <<>>
                                /\ Linked(e, Content(InU(e)), LastGot(e), sent[p])'
    BY <1>9, <1>14, <1>17 DEF g
  <2> QED
    BY <1>3, <2>2, <2>3 DEF OrderEnd
<1> QED
  BY <1>1, <1>12, <1>18 DEF OrderInv

\* process_hiccup (): its reader has left what is dropped, whole messages and perhaps
\* the beginning of one, which counts as cut from now on.
LEMMA OrderProcessHiccup ==
    ASSUME IInv, OrderInv, NEW e \in End, process_hiccup(e) PROVE OrderInv'
<1> DEFINE p == peer(e)
           o == pipe[e].outpipe
           i == pipe[p].inpipe
           r == cmds[e]
           a == Head(r).arg
<1>1. p \in End /\ p # e /\ peer(p) = e /\ \A d \in End : d = e \/ d = p
  BY Peers
<1>2. /\ r # <<>> /\ Head(r).type = "hiccup" /\ Reply(e, <<>>)
      /\ upipe' = [upipe EXCEPT ![o] = NoUpipe] /\ got' = got
  <2>1. UNCHANGED <<got, calls>>
    BY DEF process_hiccup
  <2> QED
    BY <2>1 DEF process_hiccup, Receive
<1> DEFINE s == sent[e]
           D == IF s.more THEN s.cut \cup {s.num} ELSE s.cut
           t == [s EXCEPT !.cut = D]
<1>0. /\ sent'[e] = t /\ sent'[p] = sent[p] /\ t.num = s.num /\ t.more = s.more /\ t.cut = D
      /\ Base(t) = Base(s) /\ s.cut \subseteq t.cut
  <2>1. sent \in [End -> Said] /\ s \in Said
    BY DEF IInv, TypeOK
  <2>2. sent' = [sent EXCEPT ![e] = t]
    <3>1. sent' = [sent EXCEPT ![e] = [sent[e] EXCEPT
                     !.cut = IF sent[e].more THEN sent[e].cut \cup {sent[e].num} ELSE sent[e].cut]]
      BY <2>1 DEF process_hiccup
    <3> QED
      BY <3>1
  <2>3. s.cut \subseteq D
    OBVIOUS
  <2> HIDE DEF D
  <2>4. t.num = s.num /\ t.more = s.more /\ t.cut = D
    BY <2>1 DEF Said
  <2> HIDE DEF t
  <2> QED
    BY <1>1, <2>1, <2>2, <2>3, <2>4 DEF Base
<1> HIDE DEF t
<1>3. /\ pipe \in [End -> PipeObject] /\ pipe[e] \in PipeObject /\ upipe \in [UpipeId -> Upipe]
      /\ r \in Seq(Command) /\ QueueOK(r)
  BY EndFacts DEF IInv, TypeOK
<1>4. cmds'[e] = Tail(r) /\ cmds'[p] = cmds[p]
  BY <1>2, Consumed
<1>5. a \in HArgs(r) /\ HArgs(Tail(r)) \subseteq HArgs(r) /\ Has(r, "hiccup")
  <2> HIDE DEF r
  <2>1. /\ HArgs(r) = HArgs(Tail(r)) \cup IF Head(r).type = "hiccup" THEN {Head(r).arg} ELSE {}
        /\ \A k : Has(r, k) <=> Has(Tail(r), k) \/ Head(r).type = k
    BY <1>2, <1>3, QTail
  <2> QED
    BY <1>2, <2>1
<1>6. PICK w : pipe' = [pipe EXCEPT ![e].msgs_written = w, ![e].outpipe = a, ![e].out_active = TRUE]
  <2> DEFINE x == pipe[e].msgs_written - Dropped(upipe[o])
  <2>1. pipe' = [pipe EXCEPT ![e].msgs_written = x, ![e].outpipe = a, ![e].out_active = TRUE]
    BY <1>3 DEF process_hiccup
  <2> HIDE DEF x, a
  <2> QED
    BY <2>1, Zenon
<1>7. /\ pipe'[p] = pipe[p] /\ State(e)' = State(e) /\ State(p)' = State(p)
      /\ pipe'[e].outpipe = a /\ pipe'[e].inpipe = pipe[e].inpipe
  <2> HIDE DEF a
  <2> QED
    BY <1>1, <1>3, <1>6 DEF PipeObject, State
<1>8. State(e) \in Begun
  <2>1. TermOK(State(e), State(p), cmds[e])
    BY DEF IInv, TermInv
  <2> QED
    BY <1>5, <2>1 DEF TermOK
<1>9. o \in UpipeId /\ o \notin Dir(e)
  <2>1. o # NULL
    BY <1>8 DEF IInv, QueuesInv, Begun, Acked
  <2> QED
    BY <2>1, Apart
<1>10. \A j \in UpipeId : j # o => upipe'[j] = upipe[j]
  BY <1>2, <1>3
<1>11. OrderEnd(e)'
  <2>1. Readable(e)' => Readable(e) /\ pipe'[e].inpipe = pipe[e].inpipe
    BY <1>7 DEF Readable
  <2> HIDE DEF o
  <2> QED
    BY <1>0, <1>2, <1>4, <1>7, <1>9, <1>10, <2>1, OrderOther
<1>12. OrderEnd(p) /\ p \in Hiccuper
  BY <1>1, <1>5 DEF OrderInv, OrderEnd
<1>13. i # o
  <2>1. ChainOK(i, o, HArgs(r))
    BY DEF IInv, QueuesInv
  <2>2. o < a /\ a <= i
    BY <1>5, <2>1 DEF ChainOK
  <2>3. o \in Int /\ i \in Int /\ a \in Int
    <3>1. i \in UpipeId \cup {NULL}
      BY <1>1, <1>3 DEF PipeObject
    <3>2. Head(r) \in Command
      <4> HIDE DEF r
      <4> QED
        BY <1>2, <1>3, QTail
    <3> QED
      BY <1>9, <3>1, <3>2 DEF UpipeId, NULL, Command
  <2> HIDE DEF i, o, a
  <2>4. \A x, y, z \in Int : x < y /\ y <= z => z # x
    OBVIOUS
  <2> QED
    BY <2>2, <2>3, <2>4
<1>14. LastGot(p)' = LastGot(p)
  BY <1>2 DEF LastGot
<1>15. ASSUME Readable(p)' PROVE Readable(p) /\ InU(p)' = InU(p)
  <2>1. Readable(p) /\ pipe'[p].inpipe = i
    BY <1>7, <1>15 DEF Readable
  <2>2. i \in UpipeId
    BY <1>1, <2>1, Apart DEF Readable
  <2> QED
    BY <1>10, <1>13, <2>1, <2>2 DEF InU
<1>16. ASSUME State(e)' = "active"
       PROVE  /\ WriterOK(p, sent[e], upipe[pipe[e].outpipe].partial)'
              /\ \A j \in HArgs(cmds'[e]) : upipe'[j].partial = <<>>
  <2>1. HArgs(r) \subseteq UpipeId /\ o \notin HArgs(r)
    BY <1>7, <1>16, OwnPipes
  <2>2. /\ WriterOK(p, sent[e], upipe[o].partial)
        /\ \A j \in HArgs(r) : upipe[j].partial = <<>>
    BY <1>1, <1>7, <1>12, <1>16 DEF OrderEnd
  <2>3. \A j \in HArgs(r) : upipe'[j].partial = <<>>
    BY <1>10, <2>1, <2>2
  <2>4. upipe'[pipe'[e].outpipe].partial = <<>> /\ \A j \in HArgs(cmds'[e]) : upipe'[j].partial = <<>>
    <3> HIDE DEF a, r
    <3> QED
      BY <1>4, <1>5, <1>7, <2>3
  <2>5. WriterOK(p, t, <<>>)
    BY <1>0, <1>12, <2>2 DEF WriterOK
  <2> QED
    BY <1>0, <2>4, <2>5
<1>17. OrderEnd(p)'
  <2>0. Cut(p) = s.cut /\ Cut(p)' = t.cut
    BY <1>0, <1>1 DEF Cut
  <2>1. Readable(p)' => Stream(p, Cut(p), InU(p).flushed, Content(InU(p)), LastGot(p))'
    <3>1. Readable(p)' => Stream(p, s.cut, InU(p).flushed, Content(InU(p)), LastGot(p))
      BY <1>12, <1>15, <2>0 DEF OrderEnd
    <3>2. Readable(p)' => Stream(p, t.cut, InU(p).flushed, Content(InU(p)), LastGot(p))
      BY <1>0, <3>1, StreamCut
    <3> QED
      BY <1>14, <1>15, <2>0, <3>2
  <2>2. State(e)' = "active" /\ Readable(p)' => Linked(p, Content(InU(p)), LastGot(p), sent[e])'
    <3>1. State(e)' = "active" /\ Readable(p)' => Linked(p, Content(InU(p)), LastGot(p), s)
      BY <1>1, <1>7, <1>12, <1>15 DEF OrderEnd
    <3>2. State(e)' = "active" /\ Readable(p)' => Linked(p, Content(InU(p)), LastGot(p), t)
      BY <1>0, <3>1 DEF Linked
    <3> QED
      BY <1>0, <1>14, <1>15, <3>2
  <2> QED
    BY <1>1, <1>12, <1>16, <2>1, <2>2 DEF OrderEnd
<1> QED
  BY <1>1, <1>11, <1>17 DEF OrderInv
-----------------------------------------------------------------------------
\* Nothing is on its way at first.
LEMMA OrderInit == ASSUME Init PROVE OrderInv
<1> SUFFICES ASSUME NEW p \in End PROVE OrderEnd(p)
  BY DEF OrderInv
<1> DEFINE e == peer(p)
<1>1. p \in End /\ e \in End /\ peer(e) = p
  BY Peers
<1>2. \A d \in {1, 2} : d \in UpipeId /\ d <= 2
  BY PipeAssumption DEF UpipeId
<1>3. /\ pipe[p].inpipe = p /\ pipe[e].outpipe = p /\ cmds[e] = <<>> /\ upipe[p] = NewUpipe
      /\ got[p].num = 0 /\ ~got[p].more /\ ~sent[e].more /\ sent[e].num = 0
  BY <1>1, <1>2 DEF Init, End
<1>4. NewUpipe.partial = <<>> /\ NewUpipe.flushed = <<>> /\ Content(NewUpipe) = <<>>
  BY DEF NewUpipe, Content
<1>5. Len(<<>>) = 0 /\ 1..0 = {} /\ \A n \in 0..0 : n = 0
  OBVIOUS
<1>6. HArgs(<<>>) = {}
  BY <1>5 DEF HArgs
<1> DEFINE g == LastGot(p)
<1>7. g.num = 0 /\ ~g.more
  BY <1>3 DEF LastGot
<1> HIDE DEF g
<1>8. InU(p) = NewUpipe
  BY <1>3 DEF InU
<1>9. Stream(p, Cut(p), <<>>, <<>>, g)
  BY <1>7, StreamNew
<1>10. WriterOK(p, sent[e], <<>>)
  BY <1>3 DEF WriterOK
<1>11. Linked(p, <<>>, g, sent[e])
  <2>1. At(<<>>, g, 0) = g
    BY DEF At
  <2>2. Base(sent[e]) = 0
    BY <1>3 DEF Base
  <2> QED
    BY <1>5, <1>7, <2>1, <2>2 DEF Linked
<1> QED
  BY <1>3, <1>4, <1>6, <1>8, <1>9, <1>10, <1>11 DEF OrderEnd, g

\* Every step of the pipe preserves the invariant.
LEMMA OrderStep == ASSUME IInv, OrderInv, [Next]_vars PROVE OrderInv'
<1>1. CASE UNCHANGED vars
  BY <1>1 DEF vars, OrderInv, OrderEnd, State, Readable, InU, Content, LastGot, Cut
<1>2. CASE Next
  <2>1. PICK e \in End :
          \/ check_write(e) \/ write(e) \/ rollback(e) \/ flush(e)
          \/ check_read(e) \/ read(e)
          \/ \E delay \in Delays : terminate(e, delay)
          \/ hiccup(e) \/ set_hwms(e)
          \/ process_command(e)
    BY <1>2 DEF Next
  <2>2. CASE \/ check_write(e) \/ set_hwms(e) \/ process_activate_read(e)
             \/ process_activate_write(e) \/ process_pipe_term(e)
    BY <2>2, OrderQuiet
  <2>3. CASE write(e)
    BY <2>3, OrderWrite
  <2>4. CASE rollback(e)
    BY <2>4, OrderRollback
  <2>5. CASE flush(e)
    BY <2>5, OrderFlush
  <2>6. CASE check_read(e) \/ read(e)
    BY <2>6, OrderRead
  <2>7. CASE \E delay \in Delays : terminate(e, delay)
    <3>1. PICK delay : terminate(e, delay)
      BY <2>7
    <3> QED
      BY <3>1, OrderTerminate
  <2>8. CASE hiccup(e)
    BY <2>8, OrderHiccup
  <2>9. CASE process_hiccup(e)
    BY <2>9, OrderProcessHiccup
  <2>10. CASE process_pipe_term_ack(e)
    BY <2>10, OrderTermAck
  <2> QED
    BY <2>1, <2>2, <2>3, <2>4, <2>5, <2>6, <2>7, <2>8, <2>9, <2>10 DEF process_command
<1> QED
  BY <1>1, <1>2
-----------------------------------------------------------------------------
(* What is read *)

\* Once the first part of a message is read the last can be read.
LEMMA RestIsThere ==
    ASSUME IInv, OrderInv, NEW e \in End, Readable(e), got[e].more
    PROVE  /\ InU(e).flushed # <<>>
           /\ Head(InU(e).flushed) = [kind |-> "data", num |-> got[e].num, more |-> FALSE]
<1> DEFINE s == InU(e).flushed
           c == InU(e).complete
           g == LastGot(e)
           m == s[1]
<1>1. s \in Seq(Part) /\ c \in Seq(Part) /\ g \in Part
  BY EndFacts, LastGotType DEF Upipe, InU, IInv, Readable
<1> DEFINE C == Cut(e)
<1>2. Chain(e, C, s \o c, g) /\ ~At(s, g, Len(s)).more
  BY DEF OrderInv, OrderEnd, Stream, Content
<1>3. g.kind = "data" /\ g.num = got[e].num /\ g.more
  BY DEF LastGot
<1> HIDE DEF s, c, g, C
<1>4. Chain(e, C, s, g)
  BY <1>1, <1>2, ChainPrefix
<1>5. s # <<>> /\ 1 \in 1..Len(s) /\ Head(s) = s[1]
  <2>1. Len(s) # 0
    BY <1>2, <1>3 DEF At
  <2>2. Len(s) \in Nat
    BY <1>1, LenProperties
  <2>3. s # <<>>
    BY <2>1
  <2> QED
    BY <2>1, <2>2, <2>3 DEF Head
<1>6. m \in Part /\ Follows(e, C, g, m)
  <2>1. 0 \in 0..(1 - 1) /\ \A n \in (0 + 1)..(1 - 1) : FALSE
    OBVIOUS
  <2>2. Clear(s, 0, 1)
    BY <2>1 DEF Clear
  <2>3. Follows(e, C, At(s, g, 0), s[1])
    BY <1>4, <1>5, <2>1, <2>2 DEF Chain
  <2>4. At(s, g, 0) = g
    BY DEF At
  <2> QED
    BY <1>1, <1>5, <2>3, <2>4, ElementOfSeq
<1> HIDE DEF m
<1>7. m.kind = "data" /\ m.num = got[e].num /\ m.more = FALSE
  BY <1>3, <1>6 DEF Follows, Part
<1>8. m = [kind |-> "data", num |-> got[e].num, more |-> FALSE]
  BY <1>6, <1>7 DEF Part
<1> QED
  BY <1>5, <1>8 DEF s, m

\* What may be read after a, from end e.
GotAfter(e, a, b) ==
    IF a.more THEN b = [a EXCEPT !.more = FALSE]
    ELSE /\ b.num = a.num + 1 \/ (b.num > a.num /\ e \in Hiccuper)
         /\ \/ b.more <=> peer(e) \in MultiPart
            \/ ~b.more /\ e \in Hiccuper /\ b.num \in Cut(e)

\* A part that read () finds behind credentials comes next.
LEMMA PartIsNext ==
    ASSUME IInv, OrderInv, NEW e \in End, Readable(e), NEW k \in Nat, NEW f \in Seq(Part), FindsPart(e, k, f)
    PROVE  GotAfter(e, got[e], got'[e]) /\ \A d \in End : d # e => got'[d] = got[d]
<1> DEFINE s == InU(e).flushed
           c == InU(e).complete
           g == LastGot(e)
           m == s[k + 1]
           C == Cut(e)
<1>1. /\ s \in Seq(Part) /\ c \in Seq(Part) /\ g \in Part /\ got \in [End -> [num : Int, more : BOOLEAN]]
      /\ Len(s) \in Nat
  BY EndFacts, LastGotType, LenProperties DEF Upipe, InU, IInv, TypeOK, Readable
<1>2. Chain(e, C, s \o c, g)
  BY DEF OrderInv, OrderEnd, Stream, Content
<1>3. g.num = got[e].num /\ g.more = got[e].more
  BY DEF LastGot
<1>4. /\ k \in 0..Len(s) /\ k + 1 \in 1..Len(s) /\ m.kind = "data"
      /\ \A i \in 1..k : s[i].kind = "credential"
      /\ got' = [got EXCEPT ![e] = [num |-> m.num, more |-> m.more]]
  BY DEF FindsPart, ReadPart
<1> HIDE DEF s, c, g, C
<1>5. Chain(e, C, s, g)
  BY <1>1, <1>2, ChainPrefix
<1>7. m \in Part /\ Follows(e, C, g, m)
  <2>1. 0 \in 0..((k + 1) - 1) /\ \A n \in (0 + 1)..((k + 1) - 1) : n \in 1..k
    OBVIOUS
  <2>2. Clear(s, 0, k + 1)
    BY <1>4, <2>1 DEF Clear
  <2>3. Follows(e, C, At(s, g, 0), s[k + 1])
    BY <1>4, <1>5, <2>1, <2>2 DEF Chain
  <2>4. At(s, g, 0) = g
    BY DEF At
  <2> QED
    BY <1>1, <1>4, <2>3, <2>4, ElementOfSeq
<1> HIDE DEF m
<1>8. got'[e] = [num |-> m.num, more |-> m.more] /\ \A d \in End : d # e => got'[d] = got[d]
  BY <1>1, <1>4
<1>10. m.num \in Int /\ m.more \in BOOLEAN /\ got[e] \in [num : Int, more : BOOLEAN]
  BY <1>1, <1>7 DEF Part
<1>11. CASE got[e].more
  <2>1. m.num = got[e].num /\ m.more = FALSE
    BY <1>3, <1>4, <1>7, <1>10, <1>11 DEF Follows
  <2>2. ASSUME NEW r \in [num : Int, more : BOOLEAN]
        PROVE  [num |-> r.num, more |-> FALSE] = [r EXCEPT !.more = FALSE]
    <3> DEFINE u == [num |-> r.num, more |-> FALSE]
               v == [r EXCEPT !.more = FALSE]
    <3>1. u \in [num : Int, more : BOOLEAN] /\ u.num = r.num /\ u.more = FALSE
      OBVIOUS
    <3>2. v \in [num : Int, more : BOOLEAN] /\ v.num = r.num /\ v.more = FALSE
      OBVIOUS
    <3>3. \A y, z \in [num : Int, more : BOOLEAN] : y.num = z.num /\ y.more = z.more => y = z
      OBVIOUS
    <3> HIDE DEF u, v
    <3>4. u = v
      BY <3>1, <3>2, <3>3
    <3> QED
      BY <3>4 DEF u, v
  <2>3. got'[e] = [got[e] EXCEPT !.more = FALSE]
    BY <1>8, <1>10, <2>1, <2>2
  <2> QED
    BY <1>8, <1>11, <2>3 DEF GotAfter
<1>12. CASE ~got[e].more
  <2>1. /\ \/ m.more <=> peer(e) \in MultiPart
           \/ ~m.more /\ e \in Hiccuper /\ m.num \in C
        /\ m.num = got[e].num + 1 \/ (e \in Hiccuper /\ m.num > got[e].num)
    BY <1>3, <1>4, <1>7, <1>12 DEF Follows
  <2>2. got'[e].num = m.num /\ got'[e].more = m.more
    BY <1>8
  <2> QED
    BY <1>8, <1>12, <2>1, <2>2 DEF GotAfter, C
<1> QED
  BY <1>8, <1>11, <1>12

\* Every step reads what comes next, if anything.
LEMMA StepInOrder ==
    ASSUME IInv, OrderInv, [Next]_vars, NEW e \in End, got'[e] # got[e]
    PROVE  GotAfter(e, got[e], got'[e])
<1>1. PICK d \in End : check_read(d) \/ read(d)
  <2>1. got' # got
    OBVIOUS
  <2>2. Next
    BY <2>1 DEF vars
  <2>3. PICK d \in End :
          \/ check_write(d) \/ write(d) \/ rollback(d) \/ flush(d)
          \/ check_read(d) \/ read(d)
          \/ \E delay \in Delays : terminate(d, delay)
          \/ hiccup(d) \/ set_hwms(d)
          \/ process_command(d)
    BY <2>2 DEF Next
  <2>4. check_write(d) \/ write(d) \/ rollback(d) \/ flush(d) => got' = got
    BY DEF check_write, write, rollback, flush
  <2>5. (\E delay \in Delays : terminate(d, delay)) => got' = got
    BY DEF terminate
  <2>6. hiccup(d) \/ set_hwms(d) => got' = got
    BY DEF hiccup, set_hwms
  <2>7. process_command(d) => got' = got
    <3>1. process_activate_read(d) \/ process_activate_write(d) => got' = got
      BY DEF process_activate_read, process_activate_write
    <3>2. process_hiccup(d) => UNCHANGED <<got, calls>>
      BY DEF process_hiccup
    <3>3. process_pipe_term(d) \/ process_pipe_term_ack(d) => got' = got
      BY DEF process_pipe_term, process_pipe_term_ack
    <3> QED
      BY <3>1, <3>2, <3>3 DEF process_command
  <2> QED
    BY <2>1, <2>3, <2>4, <2>5, <2>6, <2>7
<1>2. PICK k \in Nat, f \in Seq(Part) : Readable(d) /\ FindsPart(d, k, f)
  <2>1. FindsNothing(d) => got' = got
    BY DEF FindsNothing, ReadFails
  <2>2. \A f \in Seq(Part) : FindsDelimiter(d, f) => got' = got
    BY DEF FindsDelimiter
  <2> QED
    BY <1>1, <2>1, <2>2, ReadFinds
<1> QED
  BY <1>2, PartIsNext

\* The invariant behind the order of messages.
THEOREM PipeOrderInvariance == Spec => [](IInv /\ OrderInv)
<1>1. Init => OrderInv
  BY OrderInit
<1>2. IInv /\ OrderInv /\ [Next]_vars => OrderInv'
  BY OrderStep
<1>3. Spec => []IInv
  BY PipeInvariance
<1> QED
  BY <1>1, <1>2, <1>3, PTL DEF Spec

\* Messages are read in order and whole, even across rollbacks and when the writer
\* terminates in the middle of one: the last part is there as soon as the first can be
\* read.  Only a hiccup makes the reader miss some: all of a message, or its beginning if
\* the writer was in the middle of it (process_hiccup () drops what has been written).
THEOREM PipeInOrder == Spec => InOrder
<1> DEFINE A == \A e \in End :
    LET q == upipe[pipe[e].inpipe].flushed IN
    /\ Readable(e) /\ got[e].more =>
         q # <<>> /\ Head(q) = [kind |-> "data", num |-> got[e].num, more |-> FALSE]
    /\ got'[e] # got[e] =>
         IF got[e].more THEN got'[e] = [got[e] EXCEPT !.more = FALSE]
         ELSE /\ \/ got'[e].num = got[e].num + 1
                 \/ got'[e].num > got[e].num /\ e \in Hiccuper
              /\ \/ got'[e].more <=> peer(e) \in MultiPart
                 \/ ~got'[e].more /\ e \in Hiccuper /\ got'[e].num \in sent[peer(e)].cut
<1>1. IInv /\ OrderInv /\ [Next]_vars => A
  <2> SUFFICES ASSUME IInv, OrderInv, [Next]_vars, NEW e \in End
               PROVE  /\ Readable(e) /\ got[e].more =>
                           /\ InU(e).flushed # <<>>
                           /\ Head(InU(e).flushed) = [kind |-> "data", num |-> got[e].num, more |-> FALSE]
                      /\ got'[e] # got[e] => GotAfter(e, got[e], got'[e])
    BY DEF InU, GotAfter, Cut
  <2>1. got'[e] # got[e] => GotAfter(e, got[e], got'[e])
    BY StepInOrder
  <2> QED
    BY <2>1, RestIsThere
<1>2. IInv /\ OrderInv /\ [Next]_vars => [A]_vars
  BY <1>1
<1> HIDE DEF A
<1>3. Spec => [](IInv /\ OrderInv)
  BY PipeOrderInvariance
<1>4. Spec => [][A]_vars
  BY <1>2, <1>3, PTL DEF Spec
<1> QED
  BY <1>4 DEF A, InOrder
=============================================================================
