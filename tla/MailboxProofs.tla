--------------------------- MODULE MailboxProofs ---------------------------
(***************************************************************************)
(* Proofs about the two mailboxes, for any set of senders, of receivers    *)
(* and of pollers, and any number of commands.                             *)
(***************************************************************************)
EXTENDS MCMailboxes, FiniteSetTheorems, SequenceTheorems, TLAPS

-----------------------------------------------------------------------------
(* The inductive invariant of mailbox_t *)

OwesSignal(s) == spc[s] \in {"unlock_signal", "signal"}

\* A wake-up that is due is one thing: a byte in the descriptor, or one sender on
\* its way to write it.
OneSignal ==
    /\ wakes \in {0, 1} /\ signals \in {0, 1}
    /\ wakes = 0 => signals = 0 /\ \A s \in Sender : ~OwesSignal(s)
    /\ wakes = 1 /\ signals = 1 => \A s \in Sender : ~OwesSignal(s)
    /\ wakes = 1 /\ signals = 0 =>
          \E s \in Sender : OwesSignal(s) /\ \A t \in Sender : OwesSignal(t) => t = s

\* The receiver's flag and the pipe's idea of its reader agree, and a wake-up is
\* due to a sleeping reader exactly when there is something to read.
SleepState ==
    /\ active <=> reader = "awake"
    /\ wakes = 1 <=> reader = "asleep" /\ avail # <<>>
    /\ rpc \in {"wait", "signalled"} => ~active
    /\ rpc = "read" => active /\ avail # <<>>
    /\ rpc # "assert_failed"

\* How many commands of s have been flushed.
Flushed(s) == IF spc[s] = "flush" THEN sent[s] - 1 ELSE sent[s]

\* What is in the pipe: the one command that is not flushed is that of the sender
\* about to do so, and the commands of a sender that can be read are consecutive,
\* from the one after the last received to the last flushed.
PipeContents ==
    /\ \A s \in Sender : spc[s] = "write" => sent[s] < Sends
    /\ \A s \in Sender : spc[s] = "flush" => complete = <<<<s, sent[s]>>>> /\ got[s] < sent[s]
    /\ (\A s \in Sender : spc[s] # "flush") => complete = <<>>
    /\ \A i \in 1..Len(avail) : /\ got[avail[i][1]] < avail[i][2]
                                /\ avail[i][2] <= Flushed(avail[i][1])
    /\ \A i, j \in 1..Len(avail) : i < j /\ avail[i][1] = avail[j][1] => avail[i][2] < avail[j][2]
    /\ \A i \in 1..Len(avail) : \/ avail[i][2] = got[avail[i][1]] + 1
                                \/ \E j \in 1..(i - 1) : avail[j] = <<avail[i][1], avail[i][2] - 1>>
    /\ \A s \in Sender : \/ Flushed(s) = got[s]
                         \/ \E j \in 1..Len(avail) : avail[j] = <<s, Flushed(s)>>

\* The owner leaves when everything has been received and nobody is inside.
Leaving ==
    /\ rpc \in {"destroy", "destroyed"} => AllReceived
    /\ rpc = "destroy" => sync = "receiver"
    /\ rpc \in {"destroy", "destroyed"} => \A s \in Sender : spc[s] = "idle"

IInv == TypeOK /\ OneSignal /\ SleepState /\ PipeContents /\ Leaving
-----------------------------------------------------------------------------
\* The invariant holds in a new mailbox.
LEMMA InitInv == Init => IInv
<1> SUFFICES ASSUME Init PROVE IInv
  OBVIOUS
<1>1. <<>> \in Seq(Command) /\ Len(<<>>) = 0
  BY EmptySeq
<1>2. TypeOK
  <2>1. "free" \notin Sender
    BY SenderAssumption
  <2>2. \A s \in Sender : spc[s] = "idle" /\ sync # s
    BY <2>1 DEF Init
  <2>3. sent \in [Sender -> 0..Sends] /\ got \in [Sender -> 0..Sends]
    BY SendsAssumption DEF Init
  <2>4. spc \in [Sender -> {"idle", "write", "flush", "unlock", "unlock_signal", "signal"}]
    BY DEF Init
  <2>5. \A s \in Sender : spc[s] \notin {"idle", "signal"} <=> sync = s
    BY <2>2
  <2>6. /\ avail \in Seq(Command) /\ complete \in Seq(Command) /\ partial = <<>>
        /\ reader = "asleep" /\ wakes = 0 /\ sync = "free" /\ signals = 0
        /\ active = FALSE /\ rpc = "idle"
    BY <1>1 DEF Init
  <2> QED
    BY <2>3, <2>4, <2>5, <2>6 DEF TypeOK
<1>3. OneSignal /\ SleepState /\ Leaving
  BY DEF Init, OneSignal, OwesSignal, SleepState, Leaving
<1>4. PipeContents
  BY <1>1 DEF Init, PipeContents, Flushed
<1> QED
  BY <1>2, <1>3, <1>4 DEF IInv

\* What a command in the pipe is.
LEMMA CommandOf ==
    ASSUME TypeOK, NEW i \in 1..Len(avail)
    PROVE  /\ avail[i] \in Sender \X (1..Sends)
           /\ avail[i][1] \in Sender /\ avail[i][2] \in 1..Sends
           /\ avail[i] = <<avail[i][1], avail[i][2]>>
<1>1. avail[i] \in Sender \X (1..Sends)
  BY ElementOfSeq DEF TypeOK, Command
<1> QED
  BY <1>1

\* When everything has been received the pipe is empty, nothing more will be
\* sent, and nobody owes a signal.
LEMMA NothingLeft ==
    ASSUME IInv, AllReceived
    PROVE  /\ avail = <<>> /\ wakes = 0
           /\ \A s \in Sender : sent[s] = Sends /\ ~OwesSignal(s)
<1>1. avail = <<>>
  <2> SUFFICES ASSUME avail # <<>> PROVE FALSE
    OBVIOUS
  <2>1. 1 \in 1..Len(avail)
    BY EmptySeq DEF IInv, TypeOK
  <2>2. avail[1][1] \in Sender /\ avail[1][2] \in 1..Sends
    BY <2>1, CommandOf DEF IInv
  <2>3. got[avail[1][1]] < avail[1][2]
    BY <2>1 DEF IInv, PipeContents
  <2> QED
    BY <2>2, <2>3, SendsAssumption DEF AllReceived
<1>2. wakes = 0
  BY <1>1 DEF IInv, SleepState, OneSignal
<1>3. ASSUME NEW s \in Sender PROVE sent[s] = Sends
  <2>1. Len(avail) = 0
    BY <1>1, EmptySeq
  <2>2. Flushed(s) = got[s]
    BY <2>1 DEF IInv, PipeContents
  <2>3. sent[s] \in 0..Sends /\ got[s] = Sends
    BY DEF IInv, TypeOK, AllReceived
  <2> QED
    BY <2>2, <2>3, SendsAssumption DEF Flushed
<1> QED
  BY <1>1, <1>2, <1>3 DEF IInv, OneSignal
\* A step that neither sends, flushes nor receives leaves the contents alone.
LEMMA PipeFrame ==
    ASSUME IInv, UNCHANGED <<avail, complete, sent, got>>,
           \A s \in Sender : spc'[s] = "flush" <=> spc[s] = "flush",
           \A s \in Sender : spc'[s] = "write" => sent[s] < Sends
    PROVE  PipeContents'
<1>1. \A s \in Sender : Flushed(s)' = Flushed(s)
  BY DEF Flushed
<1>2. \A i \in 1..Len(avail) : avail[i][1] \in Sender
  BY CommandOf DEF IInv
<1> QED
  BY <1>1, <1>2 DEF IInv, PipeContents
-----------------------------------------------------------------------------
(* Steps of a sender *)

\* send () takes the lock.
LEMMA LockStep == ASSUME IInv, NEW s \in Sender, lock(s) PROVE IInv'
<1>1. ~AllReceived
  BY NothingLeft, SendsAssumption DEF lock, IInv, TypeOK
<1>2. TypeOK'
  BY SenderAssumption DEF lock, IInv, TypeOK, pvars
<1>3. OneSignal' /\ SleepState'
  BY DEF lock, IInv, OneSignal, SleepState, OwesSignal, TypeOK, pvars
<1>4. PipeContents'
  <2>1. \A t \in Sender : /\ spc'[t] = "flush" <=> spc[t] = "flush"
                          /\ spc'[t] = "write" => sent[t] < Sends
    <3>1. \A t \in Sender : spc[t] = "write" => sent[t] < Sends
      BY DEF IInv, PipeContents
    <3>2. spc[s] = "idle" /\ sent[s] < Sends /\ spc' = [spc EXCEPT ![s] = "write"]
      BY DEF lock
    <3>3. \A t \in Sender : spc'[t] = IF t = s THEN "write" ELSE spc[t]
      BY <3>2 DEF IInv, TypeOK
    <3>4. \A t \in Sender : spc'[t] = "flush" <=> spc[t] = "flush"
      BY <3>2, <3>3
    <3>5. \A t \in Sender : spc'[t] = "write" => sent[t] < Sends
      BY <3>1, <3>2, <3>3
    <3> QED
      BY <3>4, <3>5
  <2> QED
    BY <2>1, PipeFrame DEF lock, pvars
<1>5. Leaving'
  BY <1>1 DEF lock, IInv, Leaving, AllReceived, TypeOK, pvars
<1> QED
  BY <1>2, <1>3, <1>4, <1>5 DEF IInv

\* send () writes its command to the pipe.
LEMMA WriteStep == ASSUME IInv, NEW s \in Sender, write(s) PROVE IInv'
<1> USE SendsAssumption
<1> DEFINE new == <<s, sent[s] + 1>>
<1>1. /\ spc[s] = "write" /\ sync = s /\ sent[s] < Sends
      /\ \A t \in Sender : t # s => spc[t] \in {"idle", "signal"}
  BY DEF write, IInv, TypeOK, PipeContents
<1>2. new \in Command
  BY <1>1 DEF Command, IInv, TypeOK
<1>3. complete = <<>>
  BY <1>1 DEF IInv, PipeContents
<1>4. complete' = <<new>> /\ partial' = <<>> /\ complete' \in Seq(Command)
  <2>1. complete' = complete \o Append(partial, new) /\ partial' = <<>>
    BY DEF write, cpipe!UWrite
  <2>2. partial = <<>>
    BY DEF IInv, TypeOK
  <2>3. <<>> \o Append(<<>>, new) = <<new>> /\ <<new>> \in Seq(Command)
    BY <1>2
  <2> QED
    BY <2>1, <2>2, <2>3, <1>3
<1>5. /\ sent' = [sent EXCEPT ![s] = @ + 1] /\ spc' = [spc EXCEPT ![s] = "flush"]
      /\ UNCHANGED <<avail, reader, wakes, sync, signals, active, rpc, got>>
  BY DEF write, cpipe!UWrite
<1>6. TypeOK'
  BY <1>1, <1>4, <1>5 DEF IInv, TypeOK
<1>7. OneSignal' /\ SleepState'
  BY <1>1, <1>5 DEF IInv, OneSignal, SleepState, OwesSignal, TypeOK
<1>8. \A t \in Sender : Flushed(t)' = Flushed(t)
  BY <1>1, <1>5 DEF Flushed, IInv, TypeOK
<1>9. got[s] <= sent[s]
  <2>1. CASE Flushed(s) = got[s]
    BY <2>1, <1>1 DEF Flushed, IInv, TypeOK
  <2>2. CASE \E j \in 1..Len(avail) : avail[j] = <<s, Flushed(s)>>
    <3>1. PICK j \in 1..Len(avail) : avail[j] = <<s, Flushed(s)>>
      BY <2>2
    <3>2. got[avail[j][1]] < avail[j][2]
      BY DEF IInv, PipeContents
    <3> QED
      BY <3>1, <3>2, <1>1 DEF Flushed, IInv, TypeOK
  <2> QED
    BY <2>1, <2>2 DEF IInv, PipeContents
<1>10. PipeContents'
  <2>1. \A t \in Sender : spc'[t] = "write" => sent'[t] < Sends
    BY <1>1, <1>5 DEF IInv, TypeOK
  <2>2. \A t \in Sender : spc'[t] = "flush" => complete' = <<<<t, sent'[t]>>>> /\ got'[t] < sent'[t]
    BY <1>1, <1>4, <1>5, <1>9 DEF IInv, TypeOK
  <2>3. ~(\A t \in Sender : spc'[t] # "flush")
    BY <1>5 DEF IInv, TypeOK
  <2>4. \A i \in 1..Len(avail) : avail[i][1] \in Sender
    BY CommandOf DEF IInv
  <2> QED
    BY <2>1, <2>2, <2>3, <2>4, <1>5, <1>8 DEF IInv, PipeContents
<1>11. Leaving'
  BY <1>1, <1>5 DEF IInv, Leaving, AllReceived
<1> QED
  BY <1>6, <1>7, <1>10, <1>11 DEF IInv

\* send () flushes, and learns whether the receiver sleeps.
LEMMA FlushStep == ASSUME IInv, NEW s \in Sender, flush(s) PROVE IInv'
<1> USE SendsAssumption
<1> DEFINE new == <<s, sent[s]>>
           n == Len(avail)
<1>1. /\ spc[s] = "flush" /\ sync = s /\ complete = <<new>> /\ got[s] < sent[s]
      /\ \A t \in Sender : t # s => spc[t] \in {"idle", "signal"}
  BY DEF flush, IInv, TypeOK, PipeContents
<1>2. /\ avail' = avail \o complete /\ complete' = <<>>
      /\ wakes' = IF reader = "asleep" /\ wakes = 0 THEN 1 ELSE wakes
      /\ spc' = [spc EXCEPT ![s] = IF wakes' # wakes THEN "unlock_signal" ELSE "unlock"]
      /\ UNCHANGED <<partial, reader, sync, sent, signals, active, rpc, got>>
  BY DEF flush, cpipe!UFlush
<1>3. /\ avail' \in Seq(Command) /\ Len(avail') = n + 1 /\ n \in Nat
      /\ \A i \in 1..n : avail'[i] = avail[i]
      /\ avail'[n + 1] = new
      /\ avail' # <<>>
  <2>1. complete \in Seq(Command) /\ avail \in Seq(Command)
    BY DEF IInv, TypeOK
  <2>2. Len(complete) = 1 /\ complete[1] = new
    BY <1>1
  <2>3. n \in Nat
    BY <2>1, LenProperties
  <2>4. /\ avail' \in Seq(Command) /\ Len(avail') = n + 1
        /\ \A i \in 1..(n + 1) : avail'[i] = IF i <= n THEN avail[i] ELSE complete[i - n]
    <3>1. /\ avail \o complete \in Seq(Command) /\ Len(avail \o complete) = Len(avail) + Len(complete)
          /\ \A i \in 1..(Len(avail) + Len(complete)) :
                (avail \o complete)[i] = IF i <= Len(avail) THEN avail[i] ELSE complete[i - Len(avail)]
      BY <2>1, ConcatProperties
    <3> QED
      BY <1>2, <2>2, <3>1
  <2>5. avail' # <<>>
    BY <2>3, <2>4, EmptySeq
  <2> QED
    BY <2>2, <2>3, <2>4, <2>5
<1>4. TypeOK'
  <2>1. <<>> \in Seq(Command)
    BY EmptySeq
  <2> QED
    BY <1>1, <1>2, <1>3, <2>1 DEF IInv, TypeOK
<1>5. OneSignal' /\ SleepState'
  <2>1. ~OwesSignal(s) /\ \A t \in Sender : t # s => (OwesSignal(t)' <=> OwesSignal(t))
    BY <1>1, <1>2 DEF OwesSignal, IInv, TypeOK
  <2>2. CASE reader = "asleep" /\ wakes = 0
    <3>1. wakes' = 1 /\ signals' = 0 /\ OwesSignal(s)' /\ \A t \in Sender : OwesSignal(t)' => t = s
      BY <2>1, <2>2, <1>2 DEF IInv, OneSignal, OwesSignal, TypeOK
    <3> QED
      BY <2>2, <3>1, <1>2, <1>3 DEF IInv, OneSignal, SleepState, TypeOK
  <2>3. CASE ~(reader = "asleep" /\ wakes = 0)
    <3>1. wakes' = wakes /\ ~OwesSignal(s)'
      BY <2>3, <1>2 DEF OwesSignal, IInv, TypeOK
    <3>2. OneSignal'
      BY <3>1, <2>1, <1>2 DEF IInv, OneSignal
    <3>3. SleepState'
      BY <2>3, <3>1, <1>2, <1>3 DEF IInv, OneSignal, SleepState, TypeOK
    <3> QED
      BY <3>2, <3>3
  <2> QED
    BY <2>2, <2>3
<1>6. PipeContents'
  <2>1. \A t \in Sender : Flushed(t) = IF t = s THEN sent[s] - 1 ELSE sent[t]
    BY <1>1 DEF Flushed
  <2>2. \A i \in 1..n : /\ avail[i][1] \in Sender /\ avail[i][2] \in 1..Sends
                        /\ got[avail[i][1]] < avail[i][2] /\ avail[i][2] <= Flushed(avail[i][1])
    BY CommandOf DEF IInv, PipeContents
  <2>3. sent \in [Sender -> 0..Sends] /\ got \in [Sender -> 0..Sends]
    BY DEF IInv, TypeOK
  <2>4. \A t \in Sender : spc'[t] \notin {"write", "flush"}
    BY <1>1, <1>2 DEF IInv, TypeOK
  <2>5. \A i \in 1..(n + 1) : /\ avail'[i][1] \in Sender
                              /\ got[avail'[i][1]] < avail'[i][2] /\ avail'[i][2] <= sent[avail'[i][1]]
    <3> SUFFICES ASSUME NEW i \in 1..(n + 1)
                 PROVE  /\ avail'[i][1] \in Sender
                        /\ got[avail'[i][1]] < avail'[i][2] /\ avail'[i][2] <= sent[avail'[i][1]]
      OBVIOUS
    <3>1. CASE i = n + 1
      BY <3>1, <1>1, <1>3, <2>3
    <3>2. CASE i \in 1..n
      <4>1. avail'[i] = avail[i]
        BY <3>2, <1>3
      <4>2. /\ avail[i][1] \in Sender /\ avail[i][2] \in 1..Sends
            /\ got[avail[i][1]] < avail[i][2] /\ avail[i][2] <= Flushed(avail[i][1])
        BY <3>2, <2>2
      <4>3. sent[avail[i][1]] \in 0..Sends
        BY <4>2, <2>3
      <4>4. \/ Flushed(avail[i][1]) = sent[avail[i][1]] - 1
            \/ Flushed(avail[i][1]) = sent[avail[i][1]]
        BY <4>2, <2>1
      <4>5. avail[i][2] <= sent[avail[i][1]]
        BY <4>2, <4>3, <4>4
      <4> QED
        BY <4>1, <4>2, <4>5
    <3> QED
      BY <3>1, <3>2, <1>3
  <2>6. \A i, j \in 1..(n + 1) : i < j /\ avail'[i][1] = avail'[j][1] => avail'[i][2] < avail'[j][2]
    <3> SUFFICES ASSUME NEW i \in 1..(n + 1), NEW j \in 1..(n + 1), i < j, avail'[i][1] = avail'[j][1]
                 PROVE  avail'[i][2] < avail'[j][2]
      OBVIOUS
    <3>1. i \in 1..n /\ avail'[i] = avail[i]
      BY <1>3
    <3>2. CASE j = n + 1
      BY <3>1, <3>2, <1>3, <2>1, <2>2, <2>3
    <3>3. CASE j \in 1..n
      BY <3>1, <3>3, <1>3 DEF IInv, PipeContents
    <3> QED
      BY <3>2, <3>3, <1>3
  <2>7. \A i \in 1..(n + 1) : \/ avail'[i][2] = got[avail'[i][1]] + 1
                              \/ \E j \in 1..(i - 1) : avail'[j] = <<avail'[i][1], avail'[i][2] - 1>>
    <3> SUFFICES ASSUME NEW i \in 1..(n + 1)
                 PROVE  \/ avail'[i][2] = got[avail'[i][1]] + 1
                        \/ \E j \in 1..(i - 1) : avail'[j] = <<avail'[i][1], avail'[i][2] - 1>>
      OBVIOUS
    <3>1. CASE i = n + 1
      <4>1. Flushed(s) = got[s] \/ \E j \in 1..n : avail[j] = <<s, Flushed(s)>>
        BY DEF IInv, PipeContents
      <4>2. avail'[i][1] = s /\ avail'[i][2] = sent[s]
        BY <3>1, <1>3
      <4>3. CASE Flushed(s) = got[s]
        <5>1. sent[s] = got[s] + 1
          BY <4>3, <2>1, <2>3
        <5> QED
          BY <4>2, <5>1
      <4>4. ASSUME NEW j \in 1..n, avail[j] = <<s, Flushed(s)>>
            PROVE  avail'[j] = <<avail'[i][1], avail'[i][2] - 1>> /\ j \in 1..(i - 1)
        <5>1. avail'[j] = avail[j] /\ Flushed(s) = sent[s] - 1
          BY <1>3, <2>1
        <5>2. j \in 1..(i - 1)
          BY <3>1, <1>3
        <5> QED
          BY <4>2, <4>4, <5>1, <5>2
      <4> QED
        BY <4>1, <4>3, <4>4
    <3>2. CASE i \in 1..n
      <4>1. \/ avail[i][2] = got[avail[i][1]] + 1
            \/ \E j \in 1..(i - 1) : avail[j] = <<avail[i][1], avail[i][2] - 1>>
        BY <3>2 DEF IInv, PipeContents
      <4> QED
        BY <3>2, <4>1, <1>3
    <3> QED
      BY <3>1, <3>2, <1>3
  <2>8. \A t \in Sender : sent[t] = got[t] \/ \E j \in 1..(n + 1) : avail'[j] = <<t, sent[t]>>
    <3> SUFFICES ASSUME NEW t \in Sender
                 PROVE  sent[t] = got[t] \/ \E j \in 1..(n + 1) : avail'[j] = <<t, sent[t]>>
      OBVIOUS
    <3>1. CASE t = s
      BY <3>1, <1>3
    <3>2. CASE t # s
      <4>1. Flushed(t) = got[t] \/ \E j \in 1..n : avail[j] = <<t, Flushed(t)>>
        BY DEF IInv, PipeContents
      <4> QED
        BY <3>2, <4>1, <1>3, <2>1
    <3> QED
      BY <3>1, <3>2
  <2>9. sent' = sent /\ got' = got /\ complete' = <<>>
    BY <1>2
  <2> QED
    BY <2>4, <2>5, <2>6, <2>7, <2>8, <2>9, <1>3 DEF PipeContents, Flushed
<1>7. Leaving'
  BY <1>1, <1>2 DEF IInv, Leaving, AllReceived
<1> QED
  BY <1>4, <1>5, <1>6, <1>7 DEF IInv

\* send () releases the lock.
LEMMA UnlockStep == ASSUME IInv, NEW s \in Sender, unlock(s) PROVE IInv'
<1>1. /\ spc[s] \in {"unlock", "unlock_signal"} /\ sync = s /\ sync' = "free"
      /\ spc' = [spc EXCEPT ![s] = IF @ = "unlock" THEN "idle" ELSE "signal"]
      /\ UNCHANGED <<avail, complete, partial, reader, wakes, sent, signals, active, rpc, got>>
  BY DEF unlock, IInv, TypeOK, pvars
<1>2. TypeOK'
  BY <1>1, SenderAssumption DEF IInv, TypeOK
<1>3. \A t \in Sender : OwesSignal(t)' <=> OwesSignal(t)
  BY <1>1 DEF OwesSignal, IInv, TypeOK
<1>4. OneSignal' /\ SleepState'
  BY <1>1, <1>3 DEF IInv, OneSignal, SleepState
<1>5. PipeContents'
  <2>1. \A t \in Sender : /\ spc'[t] = "flush" <=> spc[t] = "flush"
                          /\ spc'[t] = "write" => sent[t] < Sends
    BY <1>1 DEF IInv, TypeOK, PipeContents
  <2> QED
    BY <1>1, <2>1, PipeFrame
<1>6. Leaving'
  BY <1>1 DEF IInv, Leaving, AllReceived, TypeOK
<1> QED
  BY <1>2, <1>4, <1>5, <1>6 DEF IInv

\* send () writes to the descriptor after that.
LEMMA SignalStep == ASSUME IInv, NEW s \in Sender, signal(s) PROVE IInv'
<1>1. /\ spc[s] = "signal" /\ signals' = signals + 1 /\ spc' = [spc EXCEPT ![s] = "idle"]
      /\ UNCHANGED <<avail, complete, partial, reader, wakes, sync, sent, active, rpc, got>>
  BY DEF signal, pvars
<1>2. TypeOK'
  BY <1>1 DEF IInv, TypeOK
<1>3. wakes = 1 /\ signals = 0 /\ \A t \in Sender : t # s => ~OwesSignal(t)
  <2>1. OwesSignal(s)
    BY <1>1 DEF OwesSignal
  <2> QED
    BY <2>1 DEF IInv, OneSignal
<1>4. \A t \in Sender : ~OwesSignal(t)'
  BY <1>1, <1>3 DEF OwesSignal, IInv, TypeOK
<1>5. OneSignal' /\ SleepState'
  BY <1>1, <1>3, <1>4 DEF IInv, OneSignal, SleepState
<1>6. PipeContents'
  <2>1. \A t \in Sender : /\ spc'[t] = "flush" <=> spc[t] = "flush"
                          /\ spc'[t] = "write" => sent[t] < Sends
    BY <1>1 DEF IInv, TypeOK, PipeContents
  <2> QED
    BY <1>1, <2>1, PipeFrame
<1>7. Leaving'
  BY <1>1 DEF IInv, Leaving, AllReceived, TypeOK
<1> QED
  BY <1>2, <1>5, <1>6, <1>7 DEF IInv
-----------------------------------------------------------------------------
(* Steps of the receiver *)

\* The receiver takes the first command: it is the next one of its sender, and
\* what remains is still consecutive.
LEMMA TakeStep ==
    ASSUME IInv, avail # <<>>, avail' = Tail(avail), Take, UNCHANGED <<complete, sent, spc>>
    PROVE  /\ PipeContents' /\ avail' \in Seq(Command) /\ got' \in [Sender -> 0..Sends]
           /\ \A s \in Sender : got'[s] \in {got[s], got[s] + 1}
           /\ ~AllReceived
<1> DEFINE n == Len(avail)
           h == avail[1]
<1>1. /\ n \in Nat \ {0} /\ Len(avail') = n - 1 /\ avail' \in Seq(Command)
      /\ \A i \in 1..(n - 1) : avail'[i] = avail[i + 1]
      /\ Head(avail) = h
  <2>1. avail \in Seq(Command)
    BY DEF IInv, TypeOK
  <2>2. n \in Nat \ {0}
    BY <2>1, EmptySeq, LenProperties
  <2>3. /\ Tail(avail) \in Seq(Command) /\ Len(Tail(avail)) = n - 1
        /\ \A i \in 1..Len(Tail(avail)) : Tail(avail)[i] = avail[i + 1]
    BY <2>1, HeadTailProperties
  <2>4. Head(avail) = h
    BY DEF Head
  <2> QED
    BY <2>2, <2>3, <2>4
<1>2. sent \in [Sender -> 0..Sends] /\ got \in [Sender -> 0..Sends] /\ Sends \in Nat
  BY SendsAssumption DEF IInv, TypeOK
<1>3. \A i \in 1..n : avail[i][1] \in Sender /\ avail[i][2] \in 1..Sends /\ got[avail[i][1]] < avail[i][2]
                       /\ avail[i] = <<avail[i][1], avail[i][2]>>
  BY CommandOf DEF IInv, PipeContents
<1>4. h[1] \in Sender /\ h[2] \in 1..Sends /\ h[2] = got[h[1]] + 1
  <2>1. 1 \in 1..n /\ 1..(1 - 1) = {}
    BY <1>1
  <2>2. h[2] = got[h[1]] + 1 \/ \E j \in 1..(1 - 1) : avail[j] = <<h[1], h[2] - 1>>
    BY <2>1 DEF IInv, PipeContents
  <2> QED
    BY <2>1, <2>2, <1>3
<1>5. \A s \in Sender : got'[s] = IF s = h[1] THEN h[2] ELSE got[s]
  BY <1>1, <1>2, <1>4 DEF Take
<1>6. got' \in [Sender -> 0..Sends]
  BY <1>1, <1>2, <1>4 DEF Take
<1>7. \A s \in Sender : got'[s] \in {got[s], got[s] + 1}
  BY <1>4, <1>5
<1>8. ~AllReceived
  <2>1. got[h[1]] < Sends /\ h[1] \in Sender
    BY <1>2, <1>4
  <2> QED
    BY <2>1, <1>2 DEF AllReceived
<1>9. \A s \in Sender : Flushed(s)' = Flushed(s)
  BY DEF Flushed
<1>10. /\ \A s \in Sender : spc'[s] = "write" => sent'[s] < Sends
       /\ (\A s \in Sender : spc'[s] # "flush") => complete' = <<>>
  BY DEF IInv, PipeContents
<1>11. \A s \in Sender : spc'[s] = "flush" => complete' = <<<<s, sent'[s]>>>> /\ got'[s] < sent'[s]
  <2> SUFFICES ASSUME NEW s \in Sender, spc[s] = "flush" PROVE complete = <<<<s, sent[s]>>>> /\ got'[s] < sent[s]
    OBVIOUS
  <2>1. complete = <<<<s, sent[s]>>>> /\ got[s] < sent[s] /\ Flushed(s) = sent[s] - 1
    BY DEF IInv, PipeContents, Flushed
  <2>2. CASE s = h[1]
    <3>1. h[2] <= Flushed(h[1])
      BY <1>1 DEF IInv, PipeContents
    <3>2. sent[s] \in 0..Sends
      BY <1>2
    <3> QED
      BY <1>4, <1>5, <2>1, <2>2, <3>1, <3>2
  <2> QED
    BY <1>5, <2>1, <2>2
<1>12. \A i \in 1..(n - 1) : /\ i + 1 \in 1..n /\ avail'[i] = avail[i + 1]
                              /\ got'[avail[i + 1][1]] < avail[i + 1][2]
  <2> SUFFICES ASSUME NEW i \in 1..(n - 1)
               PROVE  /\ i + 1 \in 1..n /\ avail'[i] = avail[i + 1]
                      /\ got'[avail[i + 1][1]] < avail[i + 1][2]
    OBVIOUS
  <2>1. i + 1 \in 1..n /\ 1 \in 1..n /\ 1 < i + 1
    BY <1>1
  <2>2. avail[i + 1][1] = h[1] => h[2] < avail[i + 1][2]
    BY <2>1 DEF IInv, PipeContents
  <2>3. avail[i + 1][1] \in Sender /\ got[avail[i + 1][1]] < avail[i + 1][2]
    BY <2>1, <1>3
  <2> QED
    BY <2>1, <2>2, <2>3, <1>1, <1>5
<1>13. \A i \in 1..Len(avail') : /\ got'[avail'[i][1]] < avail'[i][2]
                                  /\ avail'[i][2] <= Flushed(avail'[i][1])
  <2>1. \A i \in 1..n : avail[i][2] <= Flushed(avail[i][1])
    BY DEF IInv, PipeContents
  <2> QED
    BY <2>1, <1>1, <1>12
<1>14. \A i, j \in 1..Len(avail') : i < j /\ avail'[i][1] = avail'[j][1] => avail'[i][2] < avail'[j][2]
  <2> SUFFICES ASSUME NEW i \in 1..(n - 1), NEW j \in 1..(n - 1), i < j, avail'[i][1] = avail'[j][1]
               PROVE  avail'[i][2] < avail'[j][2]
    BY <1>1
  <2>1. /\ i + 1 \in 1..n /\ j + 1 \in 1..n /\ i + 1 < j + 1
        /\ avail'[i] = avail[i + 1] /\ avail'[j] = avail[j + 1]
    BY <1>1
  <2>2. \A k, l \in 1..n : k < l /\ avail[k][1] = avail[l][1] => avail[k][2] < avail[l][2]
    BY DEF IInv, PipeContents
  <2>3. avail[i + 1][1] = avail[j + 1][1] => avail[i + 1][2] < avail[j + 1][2]
    BY <2>1, <2>2
  <2> QED
    BY <2>1, <2>3
<1>15. \A i \in 1..Len(avail') : \/ avail'[i][2] = got'[avail'[i][1]] + 1
                                  \/ \E j \in 1..(i - 1) : avail'[j] = <<avail'[i][1], avail'[i][2] - 1>>
  <2> SUFFICES ASSUME NEW i \in 1..(n - 1)
               PROVE  \/ avail'[i][2] = got'[avail'[i][1]] + 1
                      \/ \E j \in 1..(i - 1) : avail'[j] = <<avail'[i][1], avail'[i][2] - 1>>
    BY <1>1
  <2> SUFFICES \/ avail[i + 1][2] = got'[avail[i + 1][1]] + 1
               \/ \E j \in 1..(i - 1) : avail[j + 1] = <<avail[i + 1][1], avail[i + 1][2] - 1>>
    <3>1. \A j \in 1..(i - 1) : j \in 1..(n - 1)
      BY <1>1
    <3> QED
      BY <1>1, <3>1
  <2>1. i + 1 \in 1..n /\ avail[i + 1][1] \in Sender /\ avail[i + 1][2] \in 1..Sends
    BY <1>1, <1>3
  <2>2. \/ avail[i + 1][2] = got[avail[i + 1][1]] + 1
        \/ \E j \in 1..(i + 1 - 1) : avail[j] = <<avail[i + 1][1], avail[i + 1][2] - 1>>
    <3>1. \A k \in 1..n : \/ avail[k][2] = got[avail[k][1]] + 1
                          \/ \E j \in 1..(k - 1) : avail[j] = <<avail[k][1], avail[k][2] - 1>>
      BY DEF IInv, PipeContents
    <3> DEFINE k == i + 1
    <3>2. k \in 1..n
      BY <2>1
    <3> HIDE DEF k
    <3>3. \/ avail[k][2] = got[avail[k][1]] + 1
          \/ \E j \in 1..(k - 1) : avail[j] = <<avail[k][1], avail[k][2] - 1>>
      BY <3>1, <3>2
    <3> QED
      BY <3>3 DEF k
  <2>3. CASE avail[i + 1][2] = got[avail[i + 1][1]] + 1
    <3>1. avail[i + 1][1] # h[1]
      <4> SUFFICES ASSUME avail[i + 1][1] = h[1] PROVE FALSE
        OBVIOUS
      <4>1. 1 \in 1..n /\ 1 < i + 1
        BY <1>1
      <4>2. h[2] < avail[i + 1][2]
        BY <4>1, <2>1 DEF IInv, PipeContents
      <4> QED
        BY <4>2, <2>1, <2>3, <1>2, <1>4
    <3> QED
      BY <2>1, <2>3, <3>1, <1>5
  <2>4. ASSUME NEW j \in 1..(i + 1 - 1), avail[j] = <<avail[i + 1][1], avail[i + 1][2] - 1>>
        PROVE  \/ avail[i + 1][2] = got'[avail[i + 1][1]] + 1
               \/ \E k \in 1..(i - 1) : avail[k + 1] = <<avail[i + 1][1], avail[i + 1][2] - 1>>
    <3>1. CASE j = 1
      <4>1. h[1] = avail[i + 1][1] /\ h[2] = avail[i + 1][2] - 1
        BY <3>1, <2>4
      <4> QED
        BY <4>1, <2>1, <1>5
    <3>2. CASE j # 1
      <4>1. j - 1 \in 1..(i - 1) /\ (j - 1) + 1 = j
        BY <3>2
      <4> QED
        BY <4>1, <2>4
    <3> QED
      BY <3>1, <3>2
  <2> QED
    BY <2>2, <2>3, <2>4
<1>16. \A s \in Sender : \/ Flushed(s) = got'[s]
                          \/ \E j \in 1..Len(avail') : avail'[j] = <<s, Flushed(s)>>
  <2> SUFFICES ASSUME NEW s \in Sender
               PROVE  Flushed(s) = got'[s] \/ \E j \in 1..(n - 1) : avail[j + 1] = <<s, Flushed(s)>>
    BY <1>1
  <2>1. Flushed(s) = got[s] \/ \E j \in 1..n : avail[j] = <<s, Flushed(s)>>
    BY DEF IInv, PipeContents
  <2>2. CASE Flushed(s) = got[s]
    <3>1. s # h[1]
      <4> SUFFICES ASSUME s = h[1] PROVE FALSE
        OBVIOUS
      <4>1. h[2] <= Flushed(h[1])
        BY <1>1 DEF IInv, PipeContents
      <4> QED
        BY <4>1, <2>2, <1>2, <1>4
    <3> QED
      BY <2>2, <3>1, <1>5
  <2>3. ASSUME NEW j \in 1..n, avail[j] = <<s, Flushed(s)>>
        PROVE  Flushed(s) = got'[s] \/ \E k \in 1..(n - 1) : avail[k + 1] = <<s, Flushed(s)>>
    <3>1. CASE j = 1
      BY <3>1, <2>3, <1>5
    <3>2. CASE j # 1
      <4>1. j - 1 \in 1..(n - 1) /\ (j - 1) + 1 = j
        BY <3>2, <1>1
      <4> QED
        BY <4>1, <2>3
    <3> QED
      BY <3>1, <3>2
  <2> QED
    BY <2>1, <2>2, <2>3
<1>17. PipeContents'
  <2>1. \A i \in 1..Len(avail') : avail'[i][1] \in Sender
    BY <1>1, <1>3, <1>12
  <2> QED
    BY <2>1, <1>9, <1>10, <1>11, <1>13, <1>14, <1>15, <1>16 DEF PipeContents
<1> QED
  BY <1>1, <1>6, <1>7, <1>8, <1>17

\* recv () reads the pipe, at once or after a signal.
LEMMA ReadStep == ASSUME IInv, recv_active \/ recv_read PROVE IInv'
<1> USE SendsAssumption
<1>1. /\ reader = "awake" /\ avail # <<>> /\ avail' = Tail(avail) /\ Take
      /\ rpc' = "idle" /\ active
      /\ UNCHANGED <<complete, partial, reader, wakes, sync, spc, sent, signals, active>>
  <2>1. CASE recv_active
    BY <2>1 DEF recv_active, cpipe!URead
  <2>2. CASE recv_read
    <3>1. active /\ avail # <<>>
      BY <2>2 DEF recv_read, IInv, SleepState
    <3> QED
      BY <2>2, <3>1 DEF recv_read, cpipe!URead
  <2> QED
    BY <2>1, <2>2
<1>2. PipeContents' /\ avail' \in Seq(Command) /\ got' \in [Sender -> 0..Sends]
  BY <1>1, TakeStep
<1>3. TypeOK'
  BY <1>1, <1>2 DEF IInv, TypeOK
<1>4. OneSignal' /\ SleepState'
  <2>1. \A s \in Sender : OwesSignal(s)' <=> OwesSignal(s)
    BY <1>1 DEF OwesSignal
  <2> QED
    BY <1>1, <2>1 DEF IInv, OneSignal, SleepState
<1>5. Leaving'
  BY <1>1 DEF Leaving
<1> QED
  BY <1>2, <1>3, <1>4, <1>5 DEF IInv

\* The steps of the receiver that move no command.
LEMMA WaitStep ==
    ASSUME IInv, recv_passive \/ recv_wait \/ wait_fails \/ wait_succeeds \/ recv_failable_fails \/ recv_failable
    PROVE  IInv'
<1>1. UNCHANGED <<avail, complete, partial, sync, spc, sent, got>>
  BY DEF recv_passive, recv_wait, wait_fails, wait_succeeds, recv_failable_fails, recv_failable,
         cpipe!UReadFail, cpipe!UWake, pvars
<1>2. PipeContents'
  <2>1. \A s \in Sender : /\ spc'[s] = "flush" <=> spc[s] = "flush"
                          /\ spc'[s] = "write" => sent[s] < Sends
    BY <1>1 DEF IInv, PipeContents
  <2> QED
    BY <1>1, <2>1, PipeFrame
<1>3. \A s \in Sender : OwesSignal(s)' <=> OwesSignal(s)
  BY <1>1 DEF OwesSignal
<1>4. Leaving'
  BY <1>1 DEF Leaving, recv_passive, recv_wait, wait_fails, wait_succeeds, recv_failable_fails, recv_failable
<1>5. ASSUME recv_passive PROVE TypeOK' /\ OneSignal' /\ SleepState'
  BY <1>1, <1>3, <1>5 DEF recv_passive, cpipe!UReadFail, IInv, TypeOK, OneSignal, SleepState
<1>6. ASSUME recv_wait \/ wait_fails \/ wait_succeeds \/ recv_failable_fails
      PROVE  TypeOK' /\ OneSignal' /\ SleepState'
  <2>1. UNCHANGED <<reader, wakes, signals, active>> /\ rpc' \in {"idle", "wait", "signalled"} /\ ~active
    BY <1>6 DEF recv_wait, wait_fails, wait_succeeds, recv_failable_fails, pvars, IInv, SleepState
  <2> QED
    BY <1>1, <1>3, <2>1 DEF IInv, TypeOK, OneSignal, SleepState
<1>7. ASSUME recv_failable PROVE TypeOK' /\ OneSignal' /\ SleepState'
  <2>1. /\ signals > 0 /\ signals' = signals - 1 /\ wakes > 0 /\ wakes' = wakes - 1
        /\ reader = "asleep" /\ reader' = "awake" /\ active' = TRUE /\ rpc' = "read"
    BY <1>7 DEF recv_failable, cpipe!UWake
  <2>2. /\ signals = 1 /\ wakes = 1 /\ signals' = 0 /\ wakes' = 0 /\ avail # <<>>
        /\ \A s \in Sender : ~OwesSignal(s)
    BY <2>1 DEF IInv, OneSignal, SleepState
  <2>3. TypeOK'
    BY <1>1, <2>1, <2>2 DEF IInv, TypeOK
  <2> QED
    BY <1>1, <1>3, <2>1, <2>2, <2>3 DEF OneSignal, SleepState
<1> QED
  BY <1>2, <1>4, <1>5, <1>6, <1>7 DEF IInv

\* The destructor: with the lock in hand and everything received, no sender is
\* inside send (), for one that has released the lock would owe a signal.
LEMMA DestroyStep == ASSUME IInv, destroy_lock \/ destroy_unlock PROVE IInv'
<1>1. /\ UNCHANGED <<avail, complete, partial, reader, wakes, spc, sent, signals, active, got>>
      /\ rpc' \in {"destroy", "destroyed"}
  BY DEF destroy_lock, destroy_unlock, pvars
<1>2. PipeContents'
  <2>1. \A s \in Sender : /\ spc'[s] = "flush" <=> spc[s] = "flush"
                          /\ spc'[s] = "write" => sent[s] < Sends
    BY <1>1 DEF IInv, PipeContents
  <2> QED
    BY <1>1, <2>1, PipeFrame
<1>3. OneSignal' /\ SleepState'
  <2>1. \A s \in Sender : OwesSignal(s)' <=> OwesSignal(s)
    BY <1>1 DEF OwesSignal
  <2> QED
    BY <1>1, <2>1 DEF IInv, OneSignal, SleepState
<1>4. \A s \in Sender : spc[s] = "idle"
  <2>1. CASE destroy_lock
    <3> SUFFICES ASSUME NEW s \in Sender PROVE spc[s] = "idle"
      OBVIOUS
    <3>1. AllReceived /\ sync = "free"
      BY <2>1 DEF destroy_lock
    <3>2. ~OwesSignal(s)
      BY <3>1, NothingLeft
    <3>3. spc[s] \in {"idle", "signal"}
      BY <3>1, SenderAssumption DEF IInv, TypeOK
    <3> QED
      BY <3>2, <3>3 DEF OwesSignal
  <2>2. CASE destroy_unlock
    BY <2>2 DEF destroy_unlock, IInv, Leaving
  <2> QED
    BY <2>1, <2>2
<1>5. AllReceived
  BY DEF destroy_lock, destroy_unlock, IInv, Leaving
<1>6. sync' \in {"free", "receiver"} /\ (rpc' = "destroy" => sync' = "receiver")
  BY DEF destroy_lock, destroy_unlock
<1>7. Leaving'
  BY <1>1, <1>4, <1>5, <1>6 DEF Leaving, AllReceived
<1>8. TypeOK'
  <2>1. \A s \in Sender : sync' # s /\ spc'[s] = "idle"
    BY <1>1, <1>4, <1>6, SenderAssumption
  <2> QED
    BY <1>1, <1>6, <2>1 DEF IInv, TypeOK
<1> QED
  BY <1>2, <1>3, <1>7, <1>8 DEF IInv
-----------------------------------------------------------------------------
\* Every step of the mailbox preserves the invariant.
LEMMA StepInv == IInv /\ [Next]_vars => IInv'
<1> SUFFICES ASSUME IInv, [Next]_vars PROVE IInv'
  OBVIOUS
<1>1. ASSUME NEW s \in Sender, Send(s) PROVE IInv'
  BY <1>1, LockStep, WriteStep, FlushStep, UnlockStep, SignalStep DEF Send
<1>2. CASE Recv
  BY <1>2, ReadStep, WaitStep, DestroyStep DEF Recv
<1>3. CASE UNCHANGED vars
  <2>1. \A s \in Sender : OwesSignal(s)' <=> OwesSignal(s)
    BY <1>3 DEF OwesSignal, vars
  <2>2. PipeContents'
    BY <1>3, PipeFrame DEF vars, pvars, IInv, PipeContents
  <2> QED
    BY <1>3, <2>1, <2>2 DEF vars, pvars, IInv, TypeOK, OneSignal, SleepState, Leaving, AllReceived
<1> QED
  BY <1>1, <1>2, <1>3 DEF Next

\* The inductive invariant holds throughout.
THEOREM MailboxInvariance == Spec => []IInv
<1> QED
  BY InitInv, StepInv, PTL DEF Spec

\* Type correctness of the mailbox, with the link between the lock and the
\* sender that is inside the critical section of send ().
THEOREM MailboxTypeCorrect == Spec => []TypeOK
<1>1. IInv => TypeOK
  BY DEF IInv
<1> QED
  BY <1>1, MailboxInvariance, PTL

\* The number of signals on their way and in the descriptor is the number of
\* wake-ups that the pipe owes.
LEMMA OneSignalCounts == IInv => SignalsMatch
<1> SUFFICES ASSUME IInv PROVE SignalsMatch
  OBVIOUS
<1> DEFINE O == {s \in Sender : spc[s] \in {"unlock_signal", "signal"}}
<1>1. Cardinality(O) + signals = wakes
  <2>1. CASE wakes = 0 \/ signals = 1
    <3>1. O = {} /\ signals = wakes
      BY <2>1 DEF IInv, OneSignal, OwesSignal
    <3>2. Cardinality(O) = 0
      BY <3>1, FS_EmptySet
    <3> QED
      BY <3>1, <3>2 DEF IInv, OneSignal
  <2>2. CASE wakes = 1 /\ signals = 0
    <3>1. PICK s \in Sender : OwesSignal(s) /\ \A t \in Sender : OwesSignal(t) => t = s
      BY <2>2 DEF IInv, OneSignal
    <3>2. O = {s}
      BY <3>1 DEF OwesSignal
    <3>3. Cardinality(O) = 1
      BY <3>2, FS_Singleton
    <3> QED
      BY <2>2, <3>3
  <2> QED
    BY <2>1, <2>2 DEF IInv, OneSignal
<1> QED
  BY <1>1 DEF SignalsMatch, IInv, OneSignal, SleepState, TypeOK

\* Signals and sleeping match in every state of the mailbox.
THEOREM SignalsAlwaysMatch == Spec => []SignalsMatch
<1> QED
  BY MailboxInvariance, OneSignalCounts, PTL

\* The mailbox is not used once it has been destroyed: whoever waits for the lock
\* in the destructor waits for the last sender to leave send ().
THEOREM MailboxNotUsedAfterDestroy == Spec => []NotUsedAfterDestroy
<1>1. IInv => NotUsedAfterDestroy
  BY DEF IInv, Leaving, TypeOK, NotUsedAfterDestroy
<1> QED
  BY <1>1, MailboxInvariance, PTL

\* Commands of one sender are received in the order in which they were sent, and
\* none twice.
THEOREM MailboxInOrder == Spec => InOrder
<1> DEFINE A == \A s \in Sender : got'[s] \in {got[s], got[s] + 1}
<1>1. IInv /\ [Next]_vars => [A]_vars
  <2> SUFFICES ASSUME IInv, Next PROVE A
    OBVIOUS
  <2>1. CASE UNCHANGED got
    BY <2>1
  <2>2. CASE recv_active \/ recv_read
    <3>1. avail # <<>> /\ avail' = Tail(avail) /\ Take /\ UNCHANGED <<complete, sent, spc>>
      BY <2>2 DEF recv_active, recv_read, cpipe!URead, IInv, SleepState
    <3> QED
      BY <3>1, TakeStep
  <2> QED
    BY <2>1, <2>2 DEF Next, Send, Recv, lock, write, flush, unlock, signal, recv_passive, recv_wait, wait_fails,
                      wait_succeeds, recv_failable_fails, recv_failable, destroy_lock, destroy_unlock
<1> QED
  BY <1>1, MailboxInvariance, PTL DEF Spec, InOrder
-----------------------------------------------------------------------------
(* The mailbox of a socket that several threads share *)

Threads == Receivers \cup Pollers

\* A poller inside an API call, or polling, is registered; once it has found the
\* mailbox empty, either the mailbox still is and the next command will broadcast,
\* or the signal is there.
PollersCovered ==
    \A p \in Pollers :
       /\ s_pc[p] # "out" => p \in s_attached
       /\ s_pc[p] \in {"waiting", "timed_out", "woken", "retry", "leave", "poll"} =>
             s_asleep \/ s_signals[p] > 0

SafeInv == /\ S!TypeOK
           /\ \A t \in Threads : s_pc[t] = "waiting" => s_asleep
           /\ s_asleep => s_items = <<>>
           /\ PollersCovered

\* The invariant of the shared mailbox holds in a new one.
LEMMA SafeInit == S!Init => SafeInv
<1> SUFFICES ASSUME S!Init PROVE SafeInv
  OBVIOUS
<1> USE DEF S!Init, S!Thread, Threads
<1>1. s_items \in Seq(S!Command)
  BY EmptySeq
<1>2. /\ s_sent \in [SafeSender -> 0..Sends] /\ s_got \in [SafeSender -> 0..Sends]
      /\ s_signals \in [Pollers -> Nat]
  BY SendsAssumption
<1>3. s_pc \in [Threads -> {"out", "in", "waiting", "timed_out", "woken", "retry", "leave", "poll"}]
  OBVIOUS
<1>4. \A t \in Threads : s_pc[t] = "out" /\ s_sync # t
  BY ThreadAssumption
<1>5. S!TypeOK
  BY <1>1, <1>2, <1>3, <1>4 DEF S!TypeOK
<1> QED
  BY <1>4, <1>5 DEF SafeInv, PollersCovered

\* Taking the first command keeps the types.
LEMMA SafeTake ==
    ASSUME SafeInv, s_items # <<>>, S!Take
    PROVE  s_items' \in Seq(S!Command) /\ s_got' \in [SafeSender -> 0..Sends]
<1>1. s_items \in Seq(S!Command)
  BY DEF SafeInv, S!TypeOK
<1>2. Head(s_items) \in S!Command /\ Tail(s_items) \in Seq(S!Command)
  BY <1>1, HeadTailProperties
<1>3. Head(s_items)[1] \in SafeSender /\ Head(s_items)[2] \in 0..Sends
  BY <1>2, SendsAssumption DEF S!Command
<1> QED
  BY <1>2, <1>3 DEF S!Take, SafeInv, S!TypeOK

\* send () of mailbox_safe_t, under the socket's mutex.
LEMMA SafeSendStep == ASSUME SafeInv, NEW s \in SafeSender, S!send(s) PROVE SafeInv'
<1> USE DEF S!Thread, Threads
<1>1. s_items' \in Seq(S!Command) /\ s_sent' \in [SafeSender -> 0..Sends]
  <2>1. s_sent[s] + 1 \in 1..Sends
    BY SendsAssumption DEF S!send, SafeInv, S!TypeOK
  <2>2. <<s, s_sent[s] + 1>> \in S!Command /\ s_items \in Seq(S!Command)
    BY <2>1 DEF S!Command, SafeInv, S!TypeOK
  <2>3. Append(s_items, <<s, s_sent[s] + 1>>) \in Seq(S!Command)
    BY <2>2, AppendProperties
  <2> QED
    BY <2>1, <2>3, SendsAssumption DEF S!send, SafeInv, S!TypeOK
<1>2. s_asleep' = FALSE /\ UNCHANGED <<s_sync, s_attached, s_got>>
  BY DEF S!send
<1>3. CASE s_asleep
  <2>1. /\ s_pc' = [t \in Threads |-> IF s_pc[t] = "waiting" THEN "woken" ELSE s_pc[t]]
        /\ s_signals' = [p \in Pollers |-> s_signals[p] + IF p \in s_attached THEN 1 ELSE 0]
    BY <1>3 DEF S!send, S!Broadcast
  <2>2. S!TypeOK'
    <3>1. s_signals' \in [Pollers -> Nat]
      BY <2>1 DEF SafeInv, S!TypeOK
    <3>2. s_pc' \in [Threads -> {"out", "in", "waiting", "timed_out", "woken", "retry", "leave", "poll"}]
      BY <2>1 DEF SafeInv, S!TypeOK
    <3>3. \A t \in Threads : s_pc'[t] \in {"in", "retry", "leave"} <=> s_pc[t] \in {"in", "retry", "leave"}
      BY <2>1
    <3> QED
      BY <1>1, <1>2, <3>1, <3>2, <3>3 DEF SafeInv, S!TypeOK
  <2>3. \A p \in s_attached : p \in Pollers /\ s_signals'[p] > 0
    BY <2>1 DEF SafeInv, S!TypeOK
  <2>4. \A t \in Threads : s_pc'[t] # "waiting" /\ (s_pc'[t] # "out" => s_pc[t] # "out")
    BY <2>1 DEF SafeInv, S!TypeOK
  <2>5. PollersCovered'
    BY <1>2, <2>3, <2>4 DEF SafeInv, PollersCovered
  <2> QED
    BY <1>2, <2>2, <2>4, <2>5 DEF SafeInv
<1>4. CASE ~s_asleep
  <2>1. UNCHANGED <<s_pc, s_signals>>
    BY <1>4 DEF S!send
  <2>2. S!TypeOK'
    BY <1>1, <1>2, <2>1 DEF SafeInv, S!TypeOK
  <2> QED
    BY <1>2, <1>4, <2>1, <2>2 DEF SafeInv, PollersCovered
<1> QED
  BY <1>3, <1>4

\* A receiver calls recv (), or its wait on the condition variable ends.
LEMMA SafeCallStep == ASSUME SafeInv, NEW t \in Threads, S!Call(t) \/ S!wait_ends(t) PROVE SafeInv'
<1> USE DEF S!Thread, Threads
<1>1. t # "free" /\ s_pc \in [Threads -> {"out", "in", "waiting", "timed_out", "woken", "retry", "leave", "poll"}]
  BY ThreadAssumption DEF SafeInv, S!TypeOK
<1>2. CASE S!api_enter(t)
  <2>1. S!TypeOK'
    BY <1>1, <1>2, ThreadAssumption DEF S!api_enter, S!Acquire, SafeInv, S!TypeOK
  <2> QED
    BY <1>1, <1>2, <2>1 DEF S!api_enter, SafeInv, PollersCovered
<1>3. CASE S!recv(t)
  <2>1. s_items' \in Seq(S!Command) /\ s_got' \in [SafeSender -> 0..Sends]
    BY <1>3, SafeTake DEF S!recv
  <2>2. S!TypeOK'
    BY <1>3, <2>1 DEF S!recv, SafeInv, S!TypeOK
  <2> QED
    BY <1>3, <2>2 DEF S!recv, SafeInv, PollersCovered
<1>4. CASE S!recv_wait(t)
  <2>1. s_sync' = "free" /\ s_pc' = [s_pc EXCEPT ![t] = "waiting"] /\ s_asleep' = TRUE /\ s_items = <<>>
        /\ UNCHANGED <<s_items, s_attached, s_signals, s_sent, s_got>> /\ s_pc[t] = "in"
    BY <1>4 DEF S!recv_wait, S!cond_wait, S!Release
  <2>2. S!TypeOK'
    BY <1>1, <2>1, ThreadAssumption DEF SafeInv, S!TypeOK
  <2> QED
    BY <1>1, <2>1, <2>2 DEF SafeInv, PollersCovered
<1>5. CASE S!reacquire(t)
  <2>1. S!TypeOK'
    BY <1>1, <1>5, ThreadAssumption DEF S!reacquire, S!Acquire, SafeInv, S!TypeOK
  <2> QED
    BY <1>1, <1>5, <2>1 DEF S!reacquire, SafeInv, PollersCovered
<1>6. CASE S!recv_retry(t)
  <2>1. CASE s_items # <<>>
    <3>1. s_items' \in Seq(S!Command) /\ s_got' \in [SafeSender -> 0..Sends]
      BY <1>6, <2>1, SafeTake DEF S!recv_retry
    <3>2. S!TypeOK'
      BY <1>1, <1>6, <2>1, <3>1 DEF S!recv_retry, SafeInv, S!TypeOK
    <3> QED
      BY <1>1, <1>6, <2>1, <3>2 DEF S!recv_retry, SafeInv, PollersCovered
  <2>2. CASE s_items = <<>>
    <3>1. S!TypeOK'
      BY <1>1, <1>6, <2>2 DEF S!recv_retry, SafeInv, S!TypeOK
    <3> QED
      BY <1>1, <1>6, <2>2, <3>1 DEF S!recv_retry, SafeInv, PollersCovered
  <2> QED
    BY <2>1, <2>2
<1>7. CASE S!api_exit(t)
  <2>1. S!TypeOK'
    BY <1>1, <1>7, ThreadAssumption DEF S!api_exit, S!Release, SafeInv, S!TypeOK
  <2> QED
    BY <1>1, <1>7, <2>1 DEF S!api_exit, SafeInv, PollersCovered
<1>8. CASE S!wait_ends(t)
  <2>1. S!TypeOK'
    BY <1>1, <1>8 DEF S!wait_ends, SafeInv, S!TypeOK
  <2> QED
    BY <1>1, <1>8, <2>1 DEF S!wait_ends, SafeInv, PollersCovered
<1> QED
  BY <1>2, <1>3, <1>4, <1>5, <1>6, <1>7, <1>8 DEF S!Call

\* A poller adds or removes its signaler, or looks at its descriptor.
LEMMA SafePollStep ==
    ASSUME SafeInv, NEW p \in Pollers, S!add_signaler(p) \/ S!remove_signaler(p) \/ S!poll(p)
    PROVE  SafeInv'
<1> USE DEF S!Thread, Threads
<1>1. CASE S!add_signaler(p) \/ S!remove_signaler(p)
  <2>1. S!TypeOK'
    BY <1>1 DEF S!add_signaler, S!remove_signaler, SafeInv, S!TypeOK
  <2> QED
    BY <1>1, <2>1 DEF S!add_signaler, S!remove_signaler, SafeInv, PollersCovered
<1>2. CASE S!poll(p)
  <2>1. S!TypeOK'
    <3>1. s_signals[p] - 1 \in Nat
      BY <1>2 DEF S!poll, SafeInv, S!TypeOK
    <3>2. s_signals' \in [Pollers -> Nat]
      BY <1>2, <3>1 DEF S!poll, SafeInv, S!TypeOK
    <3> QED
      BY <1>2, <3>2 DEF S!poll, SafeInv, S!TypeOK
  <2>2. \A t \in Threads : s_pc'[t] = IF t = p THEN "out" ELSE s_pc[t]
    BY <1>2 DEF S!poll, SafeInv, S!TypeOK
  <2>3. \A q \in Pollers : q # p => s_signals'[q] = s_signals[q]
    BY <1>2 DEF S!poll, SafeInv, S!TypeOK
  <2> QED
    BY <1>2, <2>1, <2>2, <2>3 DEF S!poll, SafeInv, PollersCovered
<1> QED
  BY <1>1, <1>2

\* Every step of the shared mailbox preserves its invariant.
LEMMA SafeStep == SafeInv /\ S!Next => SafeInv'
<1> QED
  BY SafeSendStep, SafeCallStep, SafePollStep DEF S!Next, S!Thread, Threads

\* The invariant says that nobody sleeps over a command.
LEMMA SafeForgetsNobody == SafeInv => S!NobodyForgotten
<1> QED
  BY DEF SafeInv, PollersCovered, S!NobodyForgotten, S!TypeOK, S!Thread, Threads
-----------------------------------------------------------------------------
\* Nobody is left asleep over a command: in the mailbox of a thread the signals
\* match the wake-ups that flush () owes, and every thread that waits or polls for
\* a shared socket is woken by the next command.
THEOREM NobodyEverForgotten == MCSpec => []NobodyForgotten
<1>1. MCInit => IInv /\ SafeInv
  BY InitInv, SafeInit DEF MCInit
<1>2. IInv /\ SafeInv /\ [MCNext]_all => (IInv /\ SafeInv)'
  <2> SUFFICES ASSUME IInv, SafeInv, [MCNext]_all PROVE (IInv /\ SafeInv)'
    OBVIOUS
  <2>1. ASSUME UNCHANGED svars PROVE SafeInv'
    BY <2>1 DEF svars, SafeInv, S!TypeOK, PollersCovered
  <2>2. ASSUME UNCHANGED vars PROVE IInv'
    BY <2>2, StepInv
  <2>3. CASE Plain(Next)
    BY <2>1, <2>3, StepInv DEF Plain
  <2>4. CASE Safe(S!Next)
    BY <2>2, <2>4, SafeStep DEF Safe
  <2>5. CASE UNCHANGED all
    BY <2>1, <2>2, <2>5 DEF all
  <2> QED
    BY <2>3, <2>4, <2>5 DEF MCNext
<1>3. IInv /\ SafeInv => NobodyForgotten
  BY OneSignalCounts, SafeForgetsNobody DEF NobodyForgotten
<1> QED
  BY <1>1, <1>2, <1>3, PTL DEF MCSpec
=============================================================================
