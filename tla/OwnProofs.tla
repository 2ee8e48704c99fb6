----------------------------- MODULE OwnProofs -----------------------------
(***************************************************************************)
(* The steps of Own that make objects and pipes, closing the socket, and   *)
(* the steps of the threads; and what follows from the invariant: the      *)
(* counters account for every command on its way, deleted objects are left *)
(* alone, and closing never hangs.                                         *)
(***************************************************************************)
EXTENDS OwnStepProofs
-----------------------------------------------------------------------------
(* A session gets an engine *)

\* While anything lives the socket does.
LEMMA SocketAlive ==
    ASSUME IInv, NEW c \in Object, Alive(c)
    PROVE  Alive(Socket)
<1>0. Tree
  BY DEF IInv
<1>1. ASSUME NEW d \in Object, Alive(d), d \in Listener \cup Connected PROVE Alive(Socket)
  <2>1. d # Socket /\ Made(d)
    BY <1>1, OwnAssumption DEF Session, Alive, Made
  <2>2. own[d].owner \in OwnersOf(d) /\ OwnersOf(d) = {Socket}
    BY <1>0, <1>1, <2>1, OwnerIn DEF OwnersOf
  <2> QED
    BY <1>1, <2>1, <2>2, OwnerAlive
<1>2. CASE c = Socket
  BY <1>2
<1>3. CASE c \in Listener \cup Connected
  BY <1>1, <1>3
<1>4. CASE c \notin Listener \cup Connected /\ c # Socket
  <2>1. Made(c) /\ own[c].owner \in OwnersOf(c) /\ own[c].owner \in Object /\ Alive(own[c].owner)
    BY <1>0, <1>4, OwnerIn, OwnerAlive DEF Alive, Made
  <2>2. own[c].owner \in Listener \cup Connected
    BY <1>4, <2>1 DEF OwnersOf
  <2> QED
    BY <1>1, <2>1, <2>2
<1> QED
  BY <1>2, <1>3, <1>4

\* A session that gets an engine has none and no connecter.
LEMMA AttachTaken ==
    ASSUME IInv, NEW s \in Object, Handles(s, "attach")
    PROVE  /\ s \in Session /\ s # Socket /\ Alive(s) /\ Attaches(s) = 1 /\ s \notin engine
           /\ (s \in Connected => Plugs(s) = 0)
           /\ \A c \in Connecter : Active(c) => own[c].owner # s
<1> SUFFICES ASSUME NEW type, type = "attach"
             PROVE  /\ s \in Session /\ s # Socket /\ Alive(s) /\ Attaches(s) = 1 /\ s \notin engine
                    /\ (s \in Connected => Plugs(s) = 0)
                    /\ \A c \in Connecter : Active(c) => own[c].owner # s
  OBVIOUS
<1>0. /\ Typed /\ Commands /\ QType /\ Engines /\ type \in CommandType /\ Handles(s, type)
  BY DEF IInv, Typed, CommandType, SeqCommand
<1>1. /\ CommandOK(Com(s, type, arg(s)), Tid[s]) /\ arg(s) \in Arg
      /\ \A D : Com(s, type, arg(s)) \in D => Flight(D) >= 1
  BY <1>0, HeadOK
<1>2. s \in Session /\ s # Socket /\ Alive(s)
  BY <1>0, <1>1 DEF CommandOK, Com
<1>3. Com(s, type, arg(s)) \in To(s, "attach")
  BY <1>0, <1>1, ComIn
<1>4. Attaches(s) >= 1
  BY <1>1, <1>3 DEF Attaches
<1>5. /\ Attaches(s) \in Nat /\ Plugs(s) \in Nat /\ B(s \in engine) \in Nat /\ Attaches(s) + B(s \in engine) <= 1
      /\ (s \in Connected => Plugs(s) + Attaches(s) + B(s \in engine) <= 1)
  BY <1>0, <1>2, CountsType DEF Engines, B
<1>6. Attaches(s) = 1 /\ B(s \in engine) = 0 /\ (s \in Connected => Plugs(s) = 0)
  BY <1>4, <1>5
<1>7. s \notin engine
  BY <1>6 DEF B
<1>8. \A c \in Connecter : Active(c) => own[c].owner # s
  BY <1>0, <1>6 DEF Engines
<1> QED
  BY <1>2, <1>6, <1>7, <1>8

\* What both ways of getting an engine have in common.
AttachHyp(s, steps) ==
    /\ s \in Object /\ Handles(s, "attach") /\ Turn(s, steps) /\ Takes(s)
    /\ Msg(s) = Com(s, "attach", arg(s)) /\ arg(s) \in Arg
    /\ own' = [own EXCEPT ![s] = process_seqnum(@)] /\ engine' = engine \cup {s}
    /\ UNCHANGED <<polled, pending, endpoints, closed, immediate>> /\ failed' = {}
    /\ \A p \in Pipe : psession[p] # None => psession'[p] = psession[p]
    /\ Balanced(steps) /\ StepsOK(steps, Tid[s])' /\ InOrder(steps) /\ check_acks(s) \in Range(steps)
    /\ Only(steps, {"bind"})
    /\ pipe' \in [Session -> Pipe \cup {None}] /\ pstate' \in [Pipe \X {"socket", "session"} -> PState]
    /\ psession' \in [Pipe -> Session \cup {None}] /\ pipes' = pipes

\* The objects when a session gets an engine,
LEMMA AttachOwn ==
    ASSUME IInv, NEW s \in Object, Handles(s, "attach"), own' = [own EXCEPT ![s] = process_seqnum(@)],
           NEW steps, Turn(s, steps), \A p \in Pipe : psession[p] # None => psession'[p] = psession[p]
    PROVE  /\ own' \in [Object -> OwnRecord] /\ SameShape /\ SameAlive /\ Grows
           /\ \A x \in Object : own'[x].term_acks = own[x].term_acks /\ own'[x].sent_seqnum = own[x].sent_seqnum
           /\ \A x \in Object : own'[x].processed_seqnum = own[x].processed_seqnum + B(x = s)
           /\ \A x \in Object : x # s => own'[x] = own[x]
<1>1. own \in [Object -> OwnRecord] /\ Alive(s)
  BY AttachTaken DEF IInv, Typed
<1>2. /\ own' \in [Object -> OwnRecord] /\ SameShape
      /\ \A x \in Object : own'[x].term_acks = own[x].term_acks /\ own'[x].sent_seqnum = own[x].sent_seqnum
      /\ \A x \in Object : own'[x].processed_seqnum = own[x].processed_seqnum + B(x = s)
      /\ \A x \in Object : x # s => own'[x] = own[x]
  BY <1>1, SeqnumOwn
<1>3. SameAlive
  BY <1>2, TurnAlive DEF SameAlive, SameShape, Alive
<1>4. Grows
  BY <1>2, <1>3, SameGrows
<1> QED
  BY <1>2, <1>3, <1>4

\* and the rest but the pipes and the links.
LEMMA AttachTurn ==
    ASSUME IInv, NEW s, NEW steps, AttachHyp(s, steps)
    PROVE  /\ Typed' /\ Tree' /\ Seqnums' /\ Commands' /\ Todo' /\ Children' /\ Awaited' /\ Gone'
           /\ Checked' /\ PlugFirst' /\ Engines' /\ Order' /\ Requests' /\ failed' = {}
           /\ SameShape /\ SameAlive
           /\ SameCounts({"attach", "bind"})
<1>0. /\ Typed /\ Tree /\ QType /\ Engines /\ PlugFirst /\ Checked /\ Children /\ Awaited /\ Gone
      /\ own \in [Object -> OwnRecord]
  BY DEF IInv, Typed
<1>1. /\ s \in Object /\ Handles(s, "attach") /\ Turn(s, steps) /\ Takes(s)
      /\ Msg(s) = Com(s, "attach", arg(s)) /\ arg(s) \in Arg
      /\ own' = [own EXCEPT ![s] = process_seqnum(@)] /\ engine' = engine \cup {s}
      /\ UNCHANGED <<polled, pending, endpoints, closed, immediate>> /\ failed' = {}
      /\ \A p \in Pipe : psession[p] # None => psession'[p] = psession[p]
      /\ Balanced(steps) /\ StepsOK(steps, Tid[s])' /\ InOrder(steps) /\ check_acks(s) \in Range(steps)
      /\ Only(steps, {"bind"})
      /\ pipe' \in [Session -> Pipe \cup {None}] /\ pstate' \in [Pipe \X {"socket", "session"} -> PState]
      /\ psession' \in [Pipe -> Session \cup {None}] /\ pipes' = pipes
  BY DEF AttachHyp
<1>2. /\ s \in Session /\ s # Socket /\ Alive(s) /\ Attaches(s) = 1 /\ s \notin engine
      /\ (s \in Connected => Plugs(s) = 0)
      /\ \A c \in Connecter : Active(c) => own[c].owner # s
  BY <1>1, AttachTaken
<1>3. /\ own' \in [Object -> OwnRecord] /\ SameShape /\ SameAlive /\ Grows
      /\ \A x \in Object : own'[x].term_acks = own[x].term_acks /\ own'[x].sent_seqnum = own[x].sent_seqnum
      /\ \A x \in Object : own'[x].processed_seqnum = own[x].processed_seqnum + B(x = s)
      /\ \A x \in Object : x # s => own'[x] = own[x]
  BY <1>1, AttachOwn
<1>4. Processes(s)
  <2>1. "attach" \in SeqCommand
    BY DEF SeqCommand
  <2> QED
    BY <1>1, <1>3, <2>1 DEF Processes, Com
<1>5. QType' /\ Seqnums' /\ Commands' /\ Todo' /\ Order' /\ Requests'
  BY <1>1, <1>3, <1>4, SeqTurn
<1> DEFINE T == {"attach", "bind"}
<1>6. Only(steps, T) /\ Msg(s).type \in T
  BY <1>1 DEF Only, Com
<1>7. SameCounts(T)
  BY <1>1, <1>6, QuietCounts
<1>8. \A y : /\ Plugs(y)' = Plugs(y) /\ Owns(y)' = Owns(y) /\ Terms(y)' = Terms(y) /\ Acks(y)' = Acks(y)
  BY <1>7 DEF SameCounts
<1> HIDE DEF T
<1>9. \A y \in Object : Attaches(y)' = Attaches(y) - B(y = s)
  <2> SUFFICES ASSUME NEW y \in Object PROVE Attaches(y)' = Attaches(y) - B(y = s)
    OBVIOUS
  <2> DEFINE T1 == {"bind"}
  <2>1. \A m \in To(y, "attach") : m.type \notin T1
    BY DEF To
  <2>2. Only(steps, T1)
    BY <1>1
  <2> HIDE DEF T1
  <2>3. Flight(To(y, "attach"))' = Flight(To(y, "attach")) - B(Msg(s) \in To(y, "attach"))
    BY <1>1, <2>1, <2>2, TakenFlight
  <2>4. "attach" \in CommandType
    BY DEF CommandType, SeqCommand
  <2>5. Msg(s) \in To(y, "attach") <=> y = s
    BY <1>1, <2>4, ComIn
  <2> QED
    BY <2>3, <2>5 DEF Attaches, B
<1>10. Typed'
  <2>1. engine' \subseteq Session
    BY <1>0, <1>1, <1>2 DEF Typed
  <2> QED
    BY <1>0, <1>1, <1>3, <1>5, <2>1 DEF Typed
<1>11. Tree'
  BY <1>0, <1>1, <1>3, TreeFrame
<1>12. Children'
  BY <1>0, <1>1, <1>3, <1>8, ChildrenFrame
<1>13. Awaited'
  <2>1. \A y \in Object : Kids(y)' = Kids(y)
    BY <1>3, <1>8, KidsFrame
  <2>2. \A y \in Object : AwaitedPipes(y)' = AwaitedPipes(y)
    BY <1>1 DEF AwaitedPipes
  <2> QED
    BY <1>0, <1>3, <1>8, <2>1, <2>2 DEF Awaited
<1>14. Gone'
  <2> SUFFICES ASSUME NEW y \in Object, Made(y)', ~Alive(y)' PROVE GoneOK(y)'
    BY DEF Gone
  <2>1. Made(y) /\ ~Alive(y) /\ y # s /\ y # Socket
    BY <1>2, <1>1, <1>3, SocketAlive DEF SameAlive, SameShape, Made
  <2>2. GoneOK(y)
    BY <1>0, <2>1 DEF Gone
  <2> QED
    BY <1>3, <2>1, <2>2 DEF GoneOK, SameShape, SameAlive
<1>15. Checked'
  <2>1. \A y \in Object : Alive(y)' /\ CanGo(own'[y]) => (Alive(y) /\ CanGo(own[y])) \/ (y = s /\ check_acks(s) \in Range(steps))
    BY <1>1, <1>3 DEF SameAlive
  <2> QED
    BY <1>0, <1>1, <2>1, TurnChecked
<1>16. PlugFirst'
  BY <1>0, <1>1, <1>3, <1>8, PlugFrame
<1>17. Engines'
  <2>1. \A o \in Listener \cup Connecter : Plugs(o)' + B(o \in polled') <= 1
    BY <1>0, <1>1, <1>8 DEF Engines
  <2>2. \A y \in Session : /\ Attaches(y)' + B(y \in engine') <= 1
                           /\ y \in Connected => Plugs(y)' + Attaches(y)' + B(y \in engine') <= 1
    <3> SUFFICES ASSUME NEW y \in Session
                 PROVE  /\ Attaches(y)' + B(y \in engine') <= 1
                        /\ y \in Connected => Plugs(y)' + Attaches(y)' + B(y \in engine') <= 1
      OBVIOUS
    <3>0. y \in Object /\ Attaches(y) \in Nat /\ Plugs(y) \in Nat
      BY <1>0, SocketIn, CountsType
    <3>1. CASE y = s
      <4>1. Attaches(y)' = 0 /\ B(y \in engine') = 1 /\ Plugs(y)' = Plugs(y)
        BY <1>1, <1>2, <1>8, <1>9, <3>1 DEF B
      <4> QED
        BY <1>2, <3>0, <3>1, <4>1
    <3>2. CASE y # s
      <4>1. Attaches(y)' = Attaches(y) /\ B(y \in engine') = B(y \in engine) /\ Plugs(y)' = Plugs(y)
        BY <1>1, <1>8, <1>9, <3>0, <3>2 DEF B
      <4> QED
        BY <1>0, <4>1 DEF Engines
    <3> QED
      BY <3>1, <3>2
  <2>3. \A c \in Connecter : c \in Object /\ (Active(c)' <=> Active(c)) /\ own'[c].owner = own[c].owner
    BY <1>1, <1>3, <1>8, SocketIn DEF Active, SameShape
  <2>4. ASSUME NEW c \in Connecter, Active(c), NEW w, w = own[c].owner
        PROVE  /\ Plugs(w)' = 0 /\ Attaches(w)' = 0 /\ w \notin engine'
               /\ \A d \in Connecter : Active(d) /\ own[d].owner = w => d = c
    <3>1. w \in Object /\ w # s
      BY <1>2, <2>4, ActiveOwner, SocketIn
    <3>2. /\ Plugs(w) = 0 /\ Attaches(w) = 0 /\ w \notin engine
          /\ \A d \in Connecter : Active(d) /\ own[d].owner = w => d = c
      BY <1>0, <2>4 DEF Engines
    <3>3. Attaches(w)' = 0
      BY <1>9, <3>1, <3>2 DEF B
    <3>4. Plugs(w)' = 0
      BY <1>8, <3>2
    <3> QED
      BY <1>1, <3>1, <3>2, <3>3, <3>4
  <2> QED
    BY <2>1, <2>2, <2>3, <2>4 DEF Engines
<1> QED
  BY <1>1, <1>3, <1>5, <1>7, <1>10, <1>11, <1>12, <1>13, <1>14, <1>15, <1>16, <1>17 DEF T

\* A session that has a pipe, or is going.
LEMMA AttachKeeps ==
    ASSUME IInv, NEW s \in Object, process_attach(s), ~(pipe[s] = None /\ ~own[s].terminating)
    PROVE  IInv'
<1>0. /\ Typed /\ Links /\ Pipes /\ QType /\ failed = {} /\ own \in [Object -> OwnRecord]
  BY DEF IInv, Typed
<1>1. Handles(s, "attach") /\ "attach" \in CommandType
  BY DEF process_attach, CommandType, SeqCommand
<1>2. /\ s \in Session /\ s # Socket /\ Alive(s) /\ s \notin engine
  BY <1>1, AttachTaken
<1>3. /\ failed' = {} /\ UNCHANGED <<polled, pending, endpoints, closed, immediate, pipe, pstate, psession>>
      /\ engine' = engine \cup {s} /\ own' = [own EXCEPT ![s] = process_seqnum(@)]
  BY <1>0, <1>2 DEF process_attach, zmq_assert, svars, evars
<1> DEFINE steps == <<check_acks(s)>>
<1>4. Handled(s, steps)
  BY DEF process_attach
<1>5. /\ steps \in Seq(Work) /\ NoDelete(steps) /\ Plain(steps) /\ (\A T : Only(steps, T)) /\ Calm(steps)
      /\ check_acks(s) \in Range(steps) /\ StepsOK(steps, Tid[s])
  BY <1>2, CheckStep
<1>a. Only(steps, {"bind"})
  BY <1>5
<1> SUFFICES ASSUME NEW st, st = steps PROVE IInv'
  OBVIOUS
<1>b. /\ st \in Seq(Work) /\ NoDelete(st) /\ Plain(st) /\ Only(st, {"bind"}) /\ Calm(st)
      /\ check_acks(s) \in Range(st) /\ StepsOK(st, Tid[s]) /\ Handled(s, st)
  BY <1>4, <1>5, <1>a
<1> HIDE DEF steps
<1>6. Turn(s, st) /\ Takes(s) /\ Msg(s) = Com(s, "attach", arg(s)) /\ arg(s) \in Arg
  BY <1>0, <1>1, <1>b, HandlerTurn
<1>7. Grows
  BY <1>1, <1>3, <1>6, AttachOwn
<1>8. StepsOK(st, Tid[s])' /\ Balanced(st) /\ InOrder(st)
  BY <1>7, <1>b, StepsFrame, PlainBalanced, CalmInOrder
<1>9. AttachHyp(s, st)
  <2>1. pipes' = pipes
    BY <1>3 DEF pipes
  <2> QED
    BY <1>0, <1>1, <1>3, <1>6, <1>8, <1>b, <2>1 DEF AttachHyp, Typed
<1>10. /\ Typed' /\ Tree' /\ Seqnums' /\ Commands' /\ Todo' /\ Children' /\ Awaited' /\ Gone'
       /\ Checked' /\ PlugFirst' /\ Engines' /\ Order' /\ Requests' /\ failed' = {}
       /\ SameShape /\ SameAlive
  BY <1>9, AttachTurn
<1>11. Links'
  <2>1. Session \subseteq Object /\ polled \subseteq Object /\ engine \subseteq Object
    BY <1>0, SocketIn DEF Typed
  <2>2. \A x : OtherPipes(x, {})' = OtherPipes(x, {})
    BY <1>3 DEF OtherPipes
  <2>3. own[s].life = "live"
    BY <1>2 DEF Alive
  <2>4. /\ \A y \in polled' : Alive(y)' /\ ~own'[y].terminating
        /\ \A y \in engine' : own'[y].life = "live"
    BY <1>0, <1>2, <1>3, <1>10, <2>1, <2>3 DEF Links, SameAlive, SameShape
  <2>5. \A p \in Pipe : psession'[p] # None => own'[psession'[p]].life # "none"
    BY <1>0, <1>3, <1>10, <2>1 DEF Links, Made, Typed, SameShape
  <2>6. /\ \A y \in pending' : OtherPipes(y, {})' # {}
        /\ \A y \in Session : own'[y].terminating => OtherPipes(y, {})' = {}
    BY <1>0, <1>3, <1>10, <2>1, <2>2 DEF Links, SameShape
  <2>7. /\ \A y \in Session : pipe'[y] # None =>
             psession'[pipe'[y]] = y /\ pstate'[<<pipe'[y], "session">>] \notin {"none", "gone"}
        /\ closed' => \A p \in Pipe : pstate'[<<p, "socket">>] \notin {"active", "waiting_for_delimiter"}
        /\ \A e \in endpoints' : e[2] # None => psession'[e[2]] # None
    BY <1>0, <1>3 DEF Links
  <2> QED
    BY <2>4, <2>5, <2>6, <2>7 DEF Links, Made
<1>12. Pipes'
  <2> DEFINE T == {"attach"}
  <2>1. Only(st, T) /\ Msg(s).type \in T
    BY <1>5, <1>6, <1>b DEF Com, steps, Only
  <2>2. SameCounts(T)
    BY <1>6, <2>1, QuietCounts
  <2>3. SameCounts({"plug", "attach", "term", "term_ack", "own"})
    BY <2>2 DEF SameCounts
  <2> QED
    BY <1>0, <1>3, <2>3, PipesFrame
<1> QED
  BY <1>10, <1>11, <1>12 DEF IInv

\* The steps of a session that makes a pipe.
MakesPipe(s, p) == <<inc_seqnum(Socket), send_command(Socket, "bind", p), check_acks(s)>>
\* The steps that announce and send a bind.
LEMMA MakesFacts ==
    ASSUME NEW s \in Object, NEW p \in Pipe, NEW w, w = MakesPipe(s, p)
    PROVE  /\ w \in Seq(Work) /\ NoDelete(w) /\ Only(w, {"bind"}) /\ check_acks(s) \in Range(w) /\ Balanced(w)
           /\ DOMAIN w = 1..3 /\ w[1].op = "inc" /\ w[1].to = Socket
           /\ w[2].op = "send" /\ w[2].to = Socket /\ w[2].type = "bind" /\ w[2].arg = p /\ w[2].inc = 0
           /\ w[3].op = "check" /\ w[3].to = s
           /\ \A D : SeqCount(w, Sends(D)) = B(Com(Socket, "bind", p) \in D)
<1> SUFFICES ASSUME NEW type, type = "bind", NEW a, a = p, w = <<inc_seqnum(Socket), send_command(Socket, type, a), check_acks(s)>>
             PROVE /\ w \in Seq(Work) /\ NoDelete(w) /\ Only(w, {"bind"}) /\ check_acks(s) \in Range(w) /\ Balanced(w)
                   /\ DOMAIN w = 1..3 /\ w[1].op = "inc" /\ w[1].to = Socket
                   /\ w[2].op = "send" /\ w[2].to = Socket /\ w[2].type = "bind" /\ w[2].arg = p /\ w[2].inc = 0
                   /\ w[3].op = "check" /\ w[3].to = s
                   /\ \A D : SeqCount(w, Sends(D)) = B(Com(Socket, type, a) \in D)
  BY DEF MakesPipe
<1>1. Socket \in Object /\ type \in CommandType /\ type \in SeqCommand /\ a \in Arg
  BY SocketIn DEF CommandType, SeqCommand, Arg
<1> DEFINE e == inc_seqnum(Socket)
           f == send_command(Socket, type, a)
           g == check_acks(s)
<1>2. /\ e \in Work /\ f \in Work /\ g \in Work
      /\ e.op = "inc" /\ e.to = Socket /\ g.op = "check" /\ g.to = s
      /\ f.op = "send" /\ f.to = Socket /\ f.type = type /\ f.arg = a /\ f.inc = 0
      /\ \A D : e \notin Sends(D) /\ g \notin Sends(D) /\ (f \in Sends(D) <=> Com(Socket, type, a) \in D)
      /\ \A x : (e \in Ann(x) <=> x = Socket) /\ f \notin Ann(x) /\ g \notin Ann(x)
  BY <1>1, StepFacts, OwnStepFacts
<1> HIDE DEF e, f, g
<1>3. w = <<e, f, g>>
  BY DEF e, f, g
<1>4. w \in Seq(Work) /\ DOMAIN w = 1..3 /\ w[1] = e /\ w[2] = f /\ w[3] = g
  BY <1>2, <1>3
<1>5. NoDelete(w) /\ Only(w, {"bind"})
  BY <1>2, <1>4 DEF NoDelete, Only
<1>6. g \in Range(w)
  BY <1>4 DEF Range
<1>7. \A D : SeqCount(w, D) = B(e \in D) + B(f \in D) + B(g \in D)
  BY <1>3, CountThree
<1>8. \A D : SeqCount(w, Sends(D)) = B(Com(Socket, type, a) \in D)
  BY <1>2, <1>7 DEF B
<1>9. Balanced(w)
  <2> SUFFICES ASSUME NEW x \in Object PROVE SeqCount(w, Ann(x)) = SeqCount(w, Sends(SeqTo(x)))
    BY DEF Balanced
  <2>1. SeqCount(w, Ann(x)) = B(x = Socket)
    BY <1>2, <1>7 DEF B
  <2>2. Com(Socket, type, a) \in SeqTo(x) <=> x = Socket
    BY <1>1, ComIn
  <2> QED
    BY <1>8, <2>1, <2>2 DEF B
<1> QED
  BY <1>2, <1>4, <1>5, <1>6, <1>8, <1>9 DEF g

\* A pipe that is still to be made: nothing is known of it, and nothing on its way.
LEMMA FreeFacts ==
    ASSUME IInv, NEW p, p = NewPipe, FreePipe # {}
    PROVE  /\ p \in Pipe /\ psession[p] = None /\ pstate[<<p, "session">>] = "none" /\ pstate[<<p, "socket">>] = "none"
           /\ Binds(p) = 0 /\ Hiccups(p) = 0 /\ \A x \in End : PT(p, x) = 0 /\ PA(p, x) = 0
           /\ \A s \in Session : pipe[s] # p
           /\ \A t \in Thread : \A i \in DOMAIN mailbox[t] : mailbox[t][i].type \in PipeCommand => mailbox[t][i].arg # p
<1>0. Pipes /\ QType /\ Links /\ Commands
  BY DEF IInv, Typed
<1>1. p \in Pipe /\ psession[p] = None
  BY DEF NewPipe, FreePipe
<1>2. PipeOK(p)
  BY <1>0, <1>1 DEF Pipes
<1>3. /\ pstate[<<p, "session">>] = "none" /\ pstate[<<p, "socket">>] = "none" /\ Binds(p) = 0
      /\ PT(p, "socket") = 0 /\ PT(p, "session") = 0 /\ PA(p, "socket") = 0 /\ PA(p, "session") = 0
  BY <1>1, <1>2 DEF PipeOK, Joint
<1>4. Hiccups(p) = 0
  <2>1. Hiccups(p) \in Nat
    BY <1>0, CountsType
  <2>2. Hiccups(p) >= 1 => PT(p, "socket") = 1
    BY <1>2 DEF PipeOK
  <2> QED
    BY <1>3, <2>1, <2>2
<1>5. \A s \in Session : pipe[s] # p
  <2>1. \A s \in Session : s # None /\ p # None
    BY <1>1, OwnAssumption DEF Object
  <2> QED
    BY <1>0, <1>1, <2>1 DEF Links
<1>6. \A t \in Thread : \A i \in DOMAIN mailbox[t] : mailbox[t][i].type \in PipeCommand => mailbox[t][i].arg # p
  BY <1>0, <1>1 DEF Commands, CommandOK, PipeCommand
<1> QED
  BY <1>1, <1>3, <1>4, <1>5, <1>6 DEF End

\* The invariant when the session makes its pipe.
LEMMA AttachMakes ==
    ASSUME IInv, NEW s \in Object, process_attach(s), pipe[s] = None, ~own[s].terminating
    PROVE  IInv'
<1> SUFFICES ASSUME NEW p, p = NewPipe, NEW w, w = MakesPipe(s, p) PROVE IInv'
  OBVIOUS
<1>0. /\ Typed /\ Links /\ Pipes /\ QType /\ failed = {} /\ own \in [Object -> OwnRecord]
  BY DEF IInv, Typed
<1>1. Handles(s, "attach") /\ "attach" \in CommandType /\ FreePipe # {}
  BY DEF process_attach, CommandType, SeqCommand
<1>2. /\ s \in Session /\ s # Socket /\ Alive(s) /\ s \notin engine /\ s # None
  BY <1>1, AttachTaken, OwnAssumption
<1>3. /\ p \in Pipe /\ psession[p] = None /\ pstate[<<p, "session">>] = "none" /\ pstate[<<p, "socket">>] = "none"
      /\ Binds(p) = 0 /\ Hiccups(p) = 0 /\ (\A x \in End : PT(p, x) = 0 /\ PA(p, x) = 0)
      /\ (\A y \in Session : pipe[y] # p)
      /\ (\A t \in Thread : \A i \in DOMAIN mailbox[t] : mailbox[t][i].type \in PipeCommand => mailbox[t][i].arg # p)
  BY <1>1, FreeFacts
<1>4. /\ failed' = {} /\ UNCHANGED <<polled, pending, endpoints, closed, immediate>>
      /\ engine' = engine \cup {s} /\ own' = [own EXCEPT ![s] = process_seqnum(@)]
      /\ pipe' = [pipe EXCEPT ![s] = p] /\ psession' = [psession EXCEPT ![p] = s]
      /\ pstate' = [pstate EXCEPT ![<<p, "session">>] = "active", ![<<p, "socket">>] = "unbound"]
      /\ Handled(s, w)
  BY <1>0, <1>2 DEF process_attach, zmq_assert, svars, evars, MakesPipe
<1>5. /\ pipe' \in [Session -> Pipe \cup {None}] /\ psession' \in [Pipe -> Session \cup {None}]
      /\ psession'[p] = s /\ (\A q \in Pipe : q # p => psession'[q] = psession[q])
      /\ pipe'[s] = p /\ (\A y \in Session : y # s => pipe'[y] = pipe[y])
  BY <1>0, <1>2, <1>3, <1>4 DEF Typed
<1>6. /\ pstate' \in [Pipe \X {"socket", "session"} -> PState]
      /\ pstate'[<<p, "session">>] = "active" /\ pstate'[<<p, "socket">>] = "unbound"
      /\ \A q \in Pipe : q # p => \A y \in End : pstate'[<<q, y>>] = pstate[<<q, y>>]
  <2>1. pstate \in [Pipe \X {"socket", "session"} -> PState] /\ "active" \in PState /\ "unbound" \in PState
    BY <1>0 DEF Typed, PState
  <2> QED
    BY <1>3, <1>4, <2>1 DEF End
<1>7. pipes' = pipes
  <2>1. \A q \in Pipe : pstate'[<<q, "socket">>] \notin {"none", "unbound", "gone"} <=> pstate[<<q, "socket">>] \notin {"none", "unbound", "gone"}
    BY <1>3, <1>6 DEF End
  <2> QED
    BY <2>1 DEF pipes
<1>8. /\ w \in Seq(Work) /\ NoDelete(w) /\ Only(w, {"bind"}) /\ check_acks(s) \in Range(w) /\ Balanced(w)
      /\ DOMAIN w = 1..3 /\ w[1].op = "inc" /\ w[1].to = Socket
      /\ w[2].op = "send" /\ w[2].to = Socket /\ w[2].type = "bind" /\ w[2].arg = p /\ w[2].inc = 0
      /\ w[3].op = "check" /\ w[3].to = s
      /\ \A D : SeqCount(w, Sends(D)) = B(Com(Socket, "bind", p) \in D)
  BY <1>3, MakesFacts
<1>9. Turn(s, w) /\ Takes(s) /\ Msg(s) = Com(s, "attach", arg(s)) /\ arg(s) \in Arg
  BY <1>0, <1>1, <1>4, <1>8, HandlerTurn
<1>10. \A q \in Pipe : psession[q] # None => psession'[q] = psession[q]
  BY <1>3, <1>5
<1>11. own' \in [Object -> OwnRecord] /\ SameShape /\ SameAlive /\ Grows
  BY <1>1, <1>4, <1>9, <1>10, AttachOwn
<1>12. Alive(Socket) /\ Socket \in Object
  BY <1>2, SocketAlive, SocketIn
<1>13. StepsOK(w, Tid[s])'
  <2>1. Alive(Socket)' /\ Alive(s)'
    BY <1>2, <1>11, <1>12 DEF SameAlive
  <2>2. StepOK(w, 1, Tid[s])'
    <3>1. Keeps(w, Tid[s])'
      BY <1>2, <1>8, <2>1 DEF Keeps
    <3>2. \E j \in DOMAIN w : w[j].op = "send" /\ w[j].to = w[1].to /\ w[j].type \in SeqCommand /\ w[j].inc = 0
      BY <1>8 DEF SeqCommand
    <3>3. IncOK(w, 1, Tid[s])'
      BY <1>8, <2>1, <3>1, <3>2 DEF IncOK
    <3> QED
      BY <1>8, <3>3 DEF StepOK
  <2>3. StepOK(w, 2, Tid[s])'
    <3> SUFFICES ASSUME NEW st, st = w[2] PROVE SendOK(w, 2, Tid[s])'
      BY <1>8 DEF StepOK
    <3>1. /\ st.op = "send" /\ st.to = Socket /\ st.type = "bind" /\ st.arg = p /\ st.inc = 0
      BY <1>8
    <3>2. CommandOK(Com(st.to, st.type, st.arg), Tid[st.to])'
      BY <1>2, <1>3, <1>5, <1>12, <2>1, <3>1 DEF CommandOK, Com
    <3> QED
      BY <1>5, <3>1, <3>2 DEF SendOK
  <2>4. StepOK(w, 3, Tid[s])'
    <3>1. LastOK(w, 3, Tid[s])'
      <4>1. own'[s].life = "live"
        BY <2>1 DEF Alive
      <4>2. ~\E j \in DOMAIN w : j > 3
        BY <1>8
      <4> QED
        BY <1>8, <4>1, <4>2 DEF LastOK, Made
    <3> QED
      BY <1>8, <3>1 DEF StepOK
  <2>5. DOMAIN w = {1, 2, 3}
    BY <1>8
  <2> QED
    BY <2>2, <2>3, <2>4, <2>5 DEF StepsOK
<1>14. InOrder(w)
  <2>1. Tid[Socket] \in Thread
    BY <1>12, ThreadFacts
  <2>2. \A j \in DOMAIN mailbox[Tid[Socket]] : Sorted(mailbox[Tid[Socket]][j], w[2])
    BY <1>3, <1>8, <2>1 DEF Sorted
  <2>3. \A k \in DOMAIN w : w[k].op = "send" => k = 2
    BY <1>8
  <2>4. \A j \in DOMAIN w : ~(j < 2 /\ w[j].op = "send")
    BY <1>8
  <2> QED
    BY <1>8, <2>2, <2>3, <2>4 DEF InOrder
<1>15. AttachHyp(s, w)
  BY <1>1, <1>4, <1>5, <1>6, <1>7, <1>8, <1>9, <1>10, <1>13, <1>14 DEF AttachHyp
<1>16. /\ Typed' /\ Tree' /\ Seqnums' /\ Commands' /\ Todo' /\ Children' /\ Awaited' /\ Gone'
       /\ Checked' /\ PlugFirst' /\ Engines' /\ Order' /\ Requests' /\ failed' = {}
       /\ SameShape /\ SameAlive /\ SameCounts({"attach", "bind"})
  BY <1>15, AttachTurn
<1>17. \A y \in Session : y # s => OtherPipes(y, {})' = OtherPipes(y, {})
  <2> SUFFICES ASSUME NEW y \in Session, y # s, NEW q \in Pipe
               PROVE  (psession'[q] = y /\ pstate'[<<q, "session">>] \notin {"none", "gone"})
                        <=> (psession[q] = y /\ pstate[<<q, "session">>] \notin {"none", "gone"})
    BY DEF OtherPipes
  <2>1. y # None
    BY OwnAssumption DEF Object
  <2>2. CASE q = p
    BY <1>3, <1>5, <2>1, <2>2
  <2>3. CASE q # p
    BY <1>5, <1>6, <2>3 DEF End
  <2> QED
    BY <2>2, <2>3
<1>18. p \in OtherPipes(s, {})'
  BY <1>3, <1>5, <1>6 DEF OtherPipes
<1>19. Links'
  <2>1. Session \subseteq Object /\ polled \subseteq Object /\ engine \subseteq Object /\ pending \subseteq Session
    BY <1>0, SocketIn DEF Typed
  <2>3. own[s].life = "live"
    BY <1>2 DEF Alive
  <2>4. /\ \A y \in polled' : Alive(y)' /\ ~own'[y].terminating
        /\ \A y \in engine' : own'[y].life = "live"
    BY <1>0, <1>2, <1>4, <1>16, <2>1, <2>3 DEF Links, SameAlive, SameShape
  <2>5. \A q \in Pipe : psession'[q] # None => own'[psession'[q]].life # "none"
    <3> SUFFICES ASSUME NEW q \in Pipe, psession'[q] # None PROVE own'[psession'[q]].life # "none"
      OBVIOUS
    <3>1. CASE q = p
      BY <1>5, <1>16, <2>3, <3>1 DEF SameShape
    <3>2. CASE q # p
      <4>1. psession[q] \in Object /\ own[psession[q]].life # "none" /\ psession'[q] = psession[q]
        BY <1>0, <1>5, <2>1, <3>2 DEF Links, Made, Typed
      <4> QED
        BY <1>16, <4>1 DEF SameShape
    <3> QED
      BY <3>1, <3>2
  <2>6. /\ \A y \in pending' : OtherPipes(y, {})' # {}
        /\ \A y \in Session : own'[y].terminating => OtherPipes(y, {})' = {}
    <3>1. \A y \in pending : OtherPipes(y, {})' # {}
      BY <1>0, <1>17, <1>18, <2>1 DEF Links
    <3>2. \A y \in Session : own'[y].terminating => OtherPipes(y, {})' = {}
      BY <1>0, <1>16, <1>17, <2>1 DEF Links, SameShape
    <3> QED
      BY <1>4, <3>1, <3>2
  <2>7. \A y \in Session : pipe'[y] # None =>
             psession'[pipe'[y]] = y /\ pstate'[<<pipe'[y], "session">>] \notin {"none", "gone"}
    <3> SUFFICES ASSUME NEW y \in Session, NEW q, q = pipe'[y], q # None
                 PROVE  psession'[q] = y /\ pstate'[<<q, "session">>] \notin {"none", "gone"}
      OBVIOUS
    <3>1. CASE y = s
      BY <1>5, <1>6, <3>1
    <3>2. CASE y # s
      <4>1. q = pipe[y] /\ q \in Pipe /\ q # p
        BY <1>0, <1>3, <1>5, <3>2 DEF Typed
      <4>2. psession[q] = y /\ pstate[<<q, "session">>] \notin {"none", "gone"}
        BY <1>0, <4>1 DEF Links
      <4> QED
        BY <1>5, <1>6, <4>1, <4>2 DEF End
    <3> QED
      BY <3>1, <3>2
  <2>8. closed' => \A q \in Pipe : pstate'[<<q, "socket">>] \notin {"active", "waiting_for_delimiter"}
    <3> SUFFICES ASSUME closed, NEW q \in Pipe PROVE pstate'[<<q, "socket">>] \notin {"active", "waiting_for_delimiter"}
      BY <1>4
    <3>1. pstate[<<q, "socket">>] \notin {"active", "waiting_for_delimiter"}
      BY <1>0 DEF Links
    <3> QED
      BY <1>6, <3>1 DEF End
  <2>9. \A e \in endpoints' : e[2] # None => psession'[e[2]] # None
    <3> SUFFICES ASSUME NEW e \in endpoints, e[2] # None PROVE psession'[e[2]] # None
      BY <1>4
    <3>1. e[2] \in Pipe /\ psession[e[2]] # None
      BY <1>0 DEF Links, Typed
    <3> QED
      BY <1>10, <3>1
  <2> QED
    BY <2>4, <2>5, <2>6, <2>7, <2>8, <2>9 DEF Links, Made
<1>20. Pipes'
  <2>1. \A q \in Pipe : Binds(q)' = Binds(q) + B(q = p)
    <3> SUFFICES ASSUME NEW q \in Pipe PROVE Binds(q)' = Binds(q) + B(q = p)
      OBVIOUS
    <3>1. "bind" \in CommandType /\ p \in Arg
      BY <1>3 DEF CommandType, SeqCommand, Arg
    <3>2. Com(Socket, "bind", p) \in About(q, "bind") <=> q = p
      BY <1>12, <3>1, ComIn
    <3>3. Msg(s) \notin About(q, "bind")
      BY <1>9 DEF About, Com
    <3>4. Flight(About(q, "bind"))' = Flight(About(q, "bind")) + SeqCount(w, Sends(About(q, "bind")))
      BY <1>9, <3>3, FreshFlight
    <3> QED
      BY <1>8, <3>2, <3>4 DEF Binds, B
  <2>2. \A q \in Pipe : /\ Hiccups(q)' = Hiccups(q)
                        /\ \A x : PT(q, x)' = PT(q, x) /\ PA(q, x)' = PA(q, x)
    BY <1>16 DEF SameCounts
  <2>3. \A q \in Pipe : Binds(q) \in Nat
    BY <1>0, CountsType
  <2> SUFFICES ASSUME NEW q \in Pipe PROVE PipeOK(q)'
    BY DEF Pipes
  <2>4. CASE q # p
    <3>1. Binds(q)' = Binds(q)
      BY <2>1, <2>3, <2>4 DEF B
    <3> QED
      BY <1>0, <1>5, <1>6, <2>2, <2>4, <3>1, OtherPipe DEF Pipes
  <2>5. CASE q = p
    <3>1. /\ Binds(p)' = 1 /\ Hiccups(p)' = 0 /\ PT(p, "socket")' = 0 /\ PT(p, "session")' = 0
          /\ PA(p, "socket")' = 0 /\ PA(p, "session")' = 0
      BY <1>3, <2>1, <2>2 DEF B, End
    <3>2. psession'[p] # None
      BY <1>2, <1>5
    <3>3. PipeOK(p)'
      BY <1>6, <3>1, <3>2 DEF PipeOK, Joint
    <3> QED
      BY <2>5, <3>3
  <2> QED
    BY <2>4, <2>5
<1> QED
  BY <1>16, <1>19, <1>20 DEF IInv

\* process_attach () preserves the invariant.
LEMMA AttachStep ==
    ASSUME IInv, NEW s \in Object, process_attach(s)
    PROVE  IInv'
  BY AttachKeeps, AttachMakes

(* An object is made *)

\* Nothing is on its way to an object that is still to be made.
LEMMA UnbornFacts ==
    ASSUME IInv, NEW c \in Object, Unborn(c)
    PROVE  /\ ~Made(c) /\ ~Alive(c) /\ ~Going(c) /\ c # Socket
           /\ own[c] = [own_t EXCEPT !.life = "none"]
           /\ Owns(c) = 0 /\ Plugs(c) = 0 /\ Terms(c) = 0 /\ Attaches(c) = 0 /\ NSeq(c) = 0
           /\ c \notin pending /\ c \notin polled /\ c \notin engine
           /\ \A x \in Object : own[x].owner # c /\ c \notin own[x].owned
           /\ \A p \in Pipe : psession[p] # c
           /\ c \in Session => pipe[c] = None /\ OtherPipes(c, {}) = {}
<1>0. /\ Typed /\ Tree /\ Links /\ QType /\ Commands /\ Todo
  BY DEF IInv, Typed
<1>1. ~Made(c) /\ ~Alive(c) /\ c # Socket
  BY <1>0 DEF Made, Unborn, Alive, Tree
<1>2. own[c] = [own_t EXCEPT !.life = "none"]
  BY <1>0, <1>1 DEF Tree
<1>3. ~Going(c)
  <2> SUFFICES ASSUME NEW i \in DOMAIN todo[Tid[c]], todo[Tid[c]][i] = delete(c) PROVE FALSE
    BY DEF Going, Range
  <2>1. todo[Tid[c]][i].op = "delete" /\ todo[Tid[c]][i].to = c
    BY OwnStepFacts
  <2>2. Tid[c] \in Thread
    BY ThreadFacts
  <2>3. LastOK(todo[Tid[c]], i, Tid[c])
    BY <1>0, <2>1, <2>2 DEF Todo, StepsOK, StepOK
  <2> QED
    BY <1>1, <2>1, <2>3 DEF LastOK
<1>4. ASSUME NEW D, \A m \in D : m.to = c \/ (m.arg = c /\ m.type = "own") PROVE Flight(D) = 0
  <2>1. Flight(D) \in Nat
    BY <1>0, FlightType
  <2> SUFFICES ASSUME Flight(D) >= 1 PROVE FALSE
    BY <2>1
  <2>2. PICK m \in D : CommandOK(m, Tid[m.to])
    BY <1>0, TargetAlive
  <2>3. m.to = c \/ (m.arg = c /\ m.type = "own")
    BY <1>4
  <2> QED
    BY <1>1, <2>2, <2>3 DEF CommandOK
<1>5. /\ Owns(c) = 0 /\ Plugs(c) = 0 /\ Terms(c) = 0 /\ Attaches(c) = 0 /\ NSeq(c) = 0
  <2>1. /\ \A m \in About(c, "own") : m.arg = c /\ m.type = "own"
        /\ \A m \in To(c, "plug") : m.to = c
        /\ \A m \in To(c, "term") : m.to = c
        /\ \A m \in To(c, "attach") : m.to = c
        /\ \A m \in SeqTo(c) : m.to = c
    BY DEF About, To, SeqTo
  <2>2. Flight(About(c, "own")) = 0
    BY <1>4, <2>1
  <2>3. Flight(To(c, "plug")) = 0 /\ Flight(To(c, "term")) = 0 /\ Flight(To(c, "attach")) = 0 /\ Flight(SeqTo(c)) = 0
    BY <1>4, <2>1
  <2> QED
    BY <2>2, <2>3 DEF Owns, Plugs, Terms, Attaches, NSeq
<1>6. \A p \in Pipe : psession[p] # c
  <2>1. c # None
    BY OwnAssumption
  <2> QED
    BY <1>0, <1>1, <2>1 DEF Links
<1>7. c \in Session => pipe[c] = None /\ OtherPipes(c, {}) = {}
  <2>1. c \in Session => OtherPipes(c, {}) = {}
    BY <1>6 DEF OtherPipes
  <2>2. c \in Session => pipe[c] = None
    BY <1>0, <1>6 DEF Links, Typed
  <2> QED
    BY <2>1, <2>2
<1>8. c \notin pending /\ c \notin polled /\ c \notin engine
  BY <1>0, <1>1, <1>7 DEF Links, Typed, Alive, Made
<1>9. ASSUME NEW x \in Object PROVE own[x].owner # c /\ c \notin own[x].owned
  <2>1. c \notin own[x].owned
    BY <1>0, <1>1 DEF Tree
  <2>2. own[x].owner # c
    <3>1. c # None
      BY OwnAssumption
    <3>2. CASE x = Socket
      BY <1>0, <3>1, <3>2 DEF Tree
    <3>3. CASE x # Socket /\ Made(x)
      BY <1>0, <1>1, <3>3 DEF Tree
    <3>4. CASE x # Socket /\ ~Made(x)
      BY <1>0, <3>1, <3>4 DEF Tree, own_t
    <3> QED
      BY <3>2, <3>3, <3>4
  <2> QED
    BY <2>1, <2>2
<1> QED
  BY <1>1, <1>2, <1>3, <1>5, <1>6, <1>7, <1>8, <1>9

\* The object c is made by o; k is 1 when o handles its own plug, and 0 otherwise.
NewBorn(o) == [own_t EXCEPT !.owner = o]
BirthHyp(o, c, steps, k) ==
    /\ o \in Object /\ c \in Object /\ Unborn(c) /\ o \in OwnersOf(c) /\ Alive(o) /\ (CanGo(own'[o]) => CanGo(own[o]))
    /\ Turn(o, steps) /\ Balanced(steps) /\ StepsOK(steps, Tid[o])' /\ InOrder(steps)
    /\ own' \in [Object -> OwnRecord] /\ own'[c] = NewBorn(o)
    /\ \A x \in Object : x # c /\ x # o => own'[x] = own[x]
    /\ own'[o].life = own[o].life /\ own'[o].owner = own[o].owner /\ own'[o].owned = own[o].owned
    /\ own'[o].terminating = own[o].terminating /\ own'[o].term_acks = own[o].term_acks
    /\ Processes(o)
    /\ k \in {0, 1}
    /\ \A x \in Object : Owns(x)' = Owns(x) + B(x = c)
    /\ \A x \in Object : Plugs(x)' = (Plugs(x) - (IF x = o THEN k ELSE 0)) + B(x = c)
    /\ \A x \in Object : Terms(x)' = Terms(x) /\ Acks(x)' = Acks(x)
    /\ pending' = pending /\ closed' = closed /\ (closed => pipes' = pipes)
    /\ \A p \in Pipe : psession[p] # None => psession'[p] = psession[p]

\* What is known of the objects then.
BirthShape(o, c) ==
    /\ Alive(c)' /\ (\A x \in Object : x # c => (Alive(x)' <=> Alive(x))) /\ o # c /\ c # Socket
    /\ own'[c].life = "live" /\ own'[c].owner = o /\ own'[c].terminating = FALSE
    /\ own'[c].owned = {} /\ own'[c].term_acks = 0
    /\ \A x \in Object : x # c =>
         /\ own'[x].life = own[x].life /\ own'[x].owner = own[x].owner /\ own'[x].owned = own[x].owned
         /\ own'[x].terminating = own[x].terminating /\ own'[x].term_acks = own[x].term_acks
         /\ (~Made(x) => own'[x] = own[x])

\* The commands and counters when an object is made.
LEMMA BirthBasics ==
    ASSUME IInv, NEW o, NEW c, NEW steps, NEW k, BirthHyp(o, c, steps, k)
    PROVE  /\ QType' /\ Seqnums' /\ Commands' /\ Todo' /\ Order' /\ Requests' /\ Grows
           /\ BirthShape(o, c)
<1>1. /\ o \in Object /\ c \in Object /\ Unborn(c) /\ Alive(o) /\ own'[c] = NewBorn(o)
      /\ Turn(o, steps) /\ Balanced(steps) /\ StepsOK(steps, Tid[o])' /\ InOrder(steps)
      /\ own' \in [Object -> OwnRecord]
      /\ (\A x \in Object : x # c /\ x # o => own'[x] = own[x])
      /\ own'[o].life = own[o].life /\ own'[o].owner = own[o].owner /\ own'[o].owned = own[o].owned
      /\ own'[o].terminating = own[o].terminating /\ own'[o].term_acks = own[o].term_acks
      /\ Processes(o) /\ \A p \in Pipe : psession[p] # None => psession'[p] = psession[p]
  BY DEF BirthHyp
<1>2. ~Made(c) /\ ~Alive(c) /\ ~Going(c) /\ c # Socket
  BY <1>1, UnbornFacts
<1>3. o # c /\ Made(o)
  BY <1>1, <1>2 DEF Alive, Made
<1>4. /\ own'[c].life = "live" /\ own'[c].owner = o /\ own'[c].terminating = FALSE
      /\ own'[c].owned = {} /\ own'[c].term_acks = 0
  <2>1. /\ [own_t EXCEPT !.owner = o].life = "live" /\ [own_t EXCEPT !.owner = o].owner = o
        /\ [own_t EXCEPT !.owner = o].terminating = FALSE /\ [own_t EXCEPT !.owner = o].owned = {}
        /\ [own_t EXCEPT !.owner = o].term_acks = 0
    BY <1>1, NewOwn
  <2>2. own'[c] = [own_t EXCEPT !.owner = o]
    BY <1>1 DEF NewBorn
  <2> QED
    BY <2>1, <2>2
<1>5. \A x \in Object : x # c =>
                /\ own'[x].life = own[x].life /\ own'[x].owner = own[x].owner /\ own'[x].owned = own[x].owned
                /\ own'[x].terminating = own[x].terminating /\ own'[x].term_acks = own[x].term_acks
                /\ (~Made(x) => own'[x] = own[x])
  BY <1>1, <1>3
<1>6. \A x \in Object : Alive(x)' <=> own'[x].life = "live" /\ ~Going(x)
  BY <1>1, TurnAlive
<1>7. Alive(c)' /\ \A x \in Object : x # c => (Alive(x)' <=> Alive(x))
  BY <1>1, <1>2, <1>4, <1>5, <1>6 DEF Alive
<1>8. Grows
  BY <1>1, <1>2, <1>5, <1>7 DEF Grows, Made
<1>9. QType' /\ Seqnums' /\ Commands' /\ Todo' /\ Order' /\ Requests'
  BY <1>1, <1>8, SeqTurn
<1> QED
  BY <1>2, <1>3, <1>4, <1>5, <1>7, <1>8, <1>9 DEF BirthShape

\* The tree, the children and the counters when an object is made.
LEMMA BirthRest ==
    ASSUME IInv, NEW o, NEW c, NEW steps, NEW k, BirthHyp(o, c, steps, k)
    PROVE  Tree' /\ Children' /\ Awaited' /\ Gone' /\ Checked' /\ PlugFirst'
<1>0. /\ Typed /\ Tree /\ Links /\ QType /\ Children /\ Awaited /\ Gone /\ Checked /\ PlugFirst
      /\ own \in [Object -> OwnRecord]
  BY DEF IInv, Typed
<1>1. /\ o \in Object /\ c \in Object /\ Unborn(c) /\ o \in OwnersOf(c) /\ Alive(o) /\ (CanGo(own'[o]) => CanGo(own[o]))
      /\ Turn(o, steps)
      /\ k \in {0, 1}
      /\ (\A x \in Object : Owns(x)' = Owns(x) + B(x = c))
      /\ (\A x \in Object : Plugs(x)' = (Plugs(x) - (IF x = o THEN k ELSE 0)) + B(x = c))
      /\ (\A x \in Object : Terms(x)' = Terms(x) /\ Acks(x)' = Acks(x))
      /\ pending' = pending /\ closed' = closed /\ (closed => pipes' = pipes)
      /\ (\A x \in Object : x # c /\ x # o => own'[x] = own[x])
  BY DEF BirthHyp
<1>2. /\ ~Made(c) /\ ~Alive(c) /\ c # Socket
      /\ Owns(c) = 0 /\ Plugs(c) = 0 /\ Terms(c) = 0
      /\ c \notin pending
      /\ \A x \in Object : own[x].owner # c /\ c \notin own[x].owned
  BY <1>1, UnbornFacts
<1>3. /\ Alive(c)' /\ (\A x \in Object : x # c => (Alive(x)' <=> Alive(x))) /\ o # c
      /\ own'[c].life = "live" /\ own'[c].owner = o /\ own'[c].terminating = FALSE
      /\ own'[c].owned = {} /\ own'[c].term_acks = 0
      /\ \A x \in Object : x # c =>
                /\ own'[x].life = own[x].life /\ own'[x].owner = own[x].owner /\ own'[x].owned = own[x].owned
                /\ own'[x].terminating = own[x].terminating /\ own'[x].term_acks = own[x].term_acks
                /\ (~Made(x) => own'[x] = own[x])
  <2>1. BirthShape(o, c)
    BY BirthBasics
  <2> QED
    BY <2>1 DEF BirthShape
<1>4. Made(o) /\ \A x \in Object : x # c => (Made(x)' <=> Made(x))
  BY <1>1, <1>3 DEF Made, Alive
<1>5. \A x \in Object : Owns(x) \in Nat /\ Plugs(x) \in Nat /\ Terms(x) \in Nat /\ Acks(x) \in Nat
  BY <1>0, CountsType
<1>6. Tree'
  <2>1. own'[Socket].owner = None /\ own'[Socket].life # "none" /\ own'[Socket].terminating = closed'
    BY <1>0, <1>1, <1>2, <1>3, SocketIn DEF Tree, Made
  <2>2. ASSUME NEW x \in Object \ {Socket}
        PROVE  IF own'[x].life # "none" THEN own'[x].owner \in OwnersOf(x) /\ own'[own'[x].owner].life # "none"
               ELSE own'[x] = [own_t EXCEPT !.life = "none"]
    <3>1. CASE x = c
      BY <1>1, <1>3, <1>4, <3>1 DEF Made
    <3>2. CASE x # c /\ Made(x)
      <4>1. own[x].owner \in Object /\ own[x].owner \in OwnersOf(x) /\ Made(own[x].owner)
        BY <1>0, <3>2, OwnerIn
      <4>2. own[x].owner # c /\ own'[x].owner = own[x].owner
        BY <1>2, <1>3, <3>2
      <4>3. own'[own[x].owner].life # "none"
        BY <1>3, <4>1, <4>2 DEF Made
      <4> QED
        BY <1>3, <3>2, <4>1, <4>2, <4>3 DEF Made
    <3>3. CASE x # c /\ ~Made(x)
      BY <1>0, <1>3, <3>3 DEF Tree, Made
    <3> QED
      BY <3>1, <3>2, <3>3
  <2>3. ASSUME NEW x \in Object
        PROVE  /\ own'[x].terminating => own'[x].owned = {}
               /\ \A y \in own'[x].owned : own'[y].life # "none" /\ own'[y].owner = x
    <3>1. CASE x = c
      BY <1>3, <3>1
    <3>2. CASE x # c
      <4>1. own[x].owned \subseteq Object
        BY <1>0 DEF OwnRecord
      <4>2. \A y \in own[x].owned : y # c /\ Made(y) /\ own[y].owner = x
        BY <1>0, <1>2 DEF Tree
      <4> QED
        BY <1>0, <1>3, <3>2, <4>1, <4>2 DEF Tree, Made
    <3> QED
      BY <3>1, <3>2
  <2> QED
    BY <2>1, <2>2, <2>3 DEF Tree, Made
<1>7. Children'
  <2> SUFFICES ASSUME NEW x \in Object \ {Socket}, Made(x)' PROVE ChildOK(x)'
    BY DEF Children
  <2>1. CASE x = c
    <3>1. Owns(c)' = 1 /\ Terms(c)' = 0
      BY <1>1, <1>2 DEF B
    <3>2. c \notin own'[own'[c].owner].owned
      BY <1>1, <1>2, <1>3
    <3>3. B(c \in own'[own'[c].owner].owned) = 0 /\ B(c \in pending') = 0 /\ B(own'[c].terminating) = 0
      BY <1>1, <1>2, <1>3, <3>2 DEF B
    <3> QED
      BY <1>3, <2>1, <3>1, <3>3 DEF ChildOK
  <2>2. CASE x # c
    <3>1. Made(x) /\ ChildOK(x)
      BY <1>0, <1>4, <2>2 DEF Children
    <3>2. own[x].owner \in Object /\ own[x].owner # c
      BY <1>0, <1>2, <3>1, OwnerIn
    <3>3. own'[x].owner = own[x].owner /\ own'[own'[x].owner].owned = own[own[x].owner].owned
          /\ own'[x].terminating = own[x].terminating
      BY <1>3, <2>2, <3>2
    <3>4. Owns(x)' = Owns(x) /\ Terms(x)' = Terms(x)
      BY <1>1, <1>5, <2>2 DEF B
    <3>5. Alive(x)' <=> Alive(x)
      BY <1>3, <2>2
    <3> QED
      BY <1>1, <3>1, <3>3, <3>4, <3>5 DEF ChildOK
  <2> QED
    BY <2>1, <2>2
<1>8. \A x \in Object : Kids(x)' = Kids(x)
  <2> SUFFICES ASSUME NEW x \in Object, NEW y \in Object
               PROVE  (own'[y].owner = x /\ Alive(y)' /\ Owns(y)' = 0 /\ y \notin own'[x].owned)
                        <=> (own[y].owner = x /\ Alive(y) /\ Owns(y) = 0 /\ y \notin own[x].owned)
    BY DEF Kids
  <2>1. CASE y = c
    <3>1. Owns(y)' = 1
      BY <1>1, <1>2, <2>1 DEF B
    <3> QED
      BY <1>2, <2>1, <3>1
  <2>2. CASE y # c
    <3>1. Owns(y)' = Owns(y)
      BY <1>1, <1>5, <2>2 DEF B
    <3>2. CASE x = c
      BY <1>2, <1>3, <2>2, <3>2
    <3>3. CASE x # c
      BY <1>3, <2>2, <3>1, <3>3
    <3> QED
      BY <3>2, <3>3
  <2> QED
    BY <2>1, <2>2
<1>9. Awaited'
  <2> SUFFICES ASSUME NEW x \in Object
               PROVE  own'[x].term_acks = Cardinality(Kids(x)') + Acks(x)' + Cardinality(AwaitedPipes(x)')
    BY DEF Awaited
  <2>1. AwaitedPipes(x)' = AwaitedPipes(x)
    BY <1>1 DEF AwaitedPipes
  <2>2. own'[x].term_acks = own[x].term_acks
    <3>1. CASE x = c
      BY <1>2, <1>3, <3>1, <1>1, UnbornFacts DEF own_t
    <3>2. CASE x # c
      BY <1>3, <3>2
    <3> QED
      BY <3>1, <3>2
  <2>3. own[x].term_acks = Cardinality(Kids(x)) + Acks(x) + Cardinality(AwaitedPipes(x))
    BY <1>0 DEF Awaited
  <2> QED
    BY <1>1, <1>8, <2>1, <2>2, <2>3
<1>10. Gone'
  <2> SUFFICES ASSUME NEW y \in Object, Made(y)', ~Alive(y)' PROVE GoneOK(y)'
    BY DEF Gone
  <2>1. Made(y) /\ ~Alive(y) /\ y # c /\ y # o
    BY <1>1, <1>3, <1>4
  <2>2. Alive(Socket)
    BY <1>1, SocketAlive
  <2>3. y # Socket /\ GoneOK(y)
    BY <1>0, <2>1, <2>2 DEF Gone
  <2>4. \A x \in Object : own'[x].owner = y => ~Alive(x)'
    BY <1>3, <2>1, <2>3 DEF GoneOK
  <2> QED
    BY <1>3, <2>1, <2>3, <2>4 DEF GoneOK
<1>11. Checked'
  <2>1. \A y \in Object : Alive(y)' /\ CanGo(own'[y]) => (Alive(y) /\ CanGo(own[y])) \/ (y = o /\ check_acks(o) \in Range(steps))
    <3> SUFFICES ASSUME NEW y \in Object, Alive(y)', CanGo(own'[y]) PROVE Alive(y) /\ CanGo(own[y])
      OBVIOUS
    <3>1. y # c
      BY <1>3 DEF CanGo
    <3>2. CASE y = o
      BY <1>1, <3>2
    <3>3. CASE y # o
      BY <1>1, <1>3, <3>1, <3>3
    <3> QED
      BY <3>2, <3>3
  <2> QED
    BY <1>0, <1>1, <2>1, TurnChecked
<1>12. PlugFirst'
  <2> SUFFICES ASSUME NEW y \in Object \ {Socket}, Plugs(y)' >= 1
               PROVE  ~own'[y].terminating /\ y \notin pending'
    BY DEF PlugFirst
  <2>1. CASE y = c
    BY <1>1, <1>2, <1>3, <2>1
  <2>2. CASE y # c
    <3>1. Plugs(y) >= 1
      BY <1>1, <1>5, <2>2 DEF B
    <3> QED
      BY <1>0, <1>1, <1>3, <2>2, <3>1 DEF PlugFirst
  <2> QED
    BY <2>1, <2>2
<1> QED
  BY <1>6, <1>7, <1>9, <1>10, <1>11, <1>12

\* What the sessions and the pipes know of each other, when an object is made.
LEMMA BirthLinks ==
    ASSUME IInv, NEW o, NEW c, NEW steps, NEW k, BirthHyp(o, c, steps, k),
           polled' \subseteq polled, engine' \subseteq engine,
           \A s \in Session : s # c => OtherPipes(s, {})' = OtherPipes(s, {}),
           psession' \in [Pipe -> Session \cup {None}],
           \A p \in Pipe : psession'[p] # psession[p] => psession'[p] = c,
           \A s \in Session : pipe'[s] # None =>
              psession'[pipe'[s]] = s /\ pstate'[<<pipe'[s], "session">>] \notin {"none", "gone"},
           closed => \A p \in Pipe : pstate'[<<p, "socket">>] \notin {"active", "waiting_for_delimiter"},
           \A e \in endpoints' : e[2] # None => psession'[e[2]] # None
    PROVE  Links'
<1>0. Typed /\ Links
  BY DEF IInv
<1>1. c \in Object /\ Unborn(c) /\ pending' = pending /\ closed' = closed
  BY DEF BirthHyp
<1>2. c \notin pending /\ c \notin polled /\ c \notin engine /\ ~Made(c)
  BY <1>1, UnbornFacts
<1>3. /\ \A x \in Object : x # c => (Alive(x)' <=> Alive(x))
      /\ own'[c].life = "live" /\ own'[c].terminating = FALSE
      /\ \A x \in Object : x # c => own'[x].life = own[x].life /\ own'[x].terminating = own[x].terminating
  <2>1. BirthShape(o, c)
    BY BirthBasics
  <2> QED
    BY <2>1 DEF BirthShape
<1>4. Session \subseteq Object /\ polled \subseteq Object /\ engine \subseteq Object /\ pending \subseteq Session
  BY <1>0, SocketIn DEF Typed
<1>5. /\ \A y \in polled' : Alive(y)' /\ ~own'[y].terminating
      /\ \A y \in engine' : own'[y].life = "live"
  BY <1>0, <1>2, <1>3, <1>4 DEF Links
<1>6. \A s \in pending' : OtherPipes(s, {})' # {}
  <2>1. \A s \in pending : OtherPipes(s, {})' # {}
    BY <1>0, <1>2, <1>4 DEF Links
  <2> QED
    BY <1>1, <2>1
<1>7. \A s \in Session : own'[s].terminating => OtherPipes(s, {})' = {}
  BY <1>0, <1>3, <1>4 DEF Links
<1>8. \A p \in Pipe : psession'[p] # None => own'[psession'[p]].life # "none"
  <2> SUFFICES ASSUME NEW p \in Pipe, psession'[p] # None PROVE own'[psession'[p]].life # "none"
    OBVIOUS
  <2>1. CASE psession'[p] = c
    BY <1>3, <2>1
  <2>2. CASE psession'[p] # c
    <3>1. psession'[p] = psession[p] /\ psession[p] \in Object /\ own[psession[p]].life # "none"
      BY <1>0, <1>4, <2>2 DEF Links, Made, Typed
    <3> QED
      BY <1>3, <2>2, <3>1
  <2> QED
    BY <2>1, <2>2
<1> QED
  BY <1>1, <1>5, <1>6, <1>7, <1>8 DEF Links, Made

\* The plugs, attaches and engines when an object is made.
LEMMA BirthEngines ==
    ASSUME IInv, NEW o, NEW c, NEW steps, NEW k, BirthHyp(o, c, steps, k),
           polled' \subseteq polled, engine' \subseteq engine,
           \A x \in Object : x # c => Attaches(x)' = Attaches(x), Attaches(c)' <= 1,
           c \in Connected => Attaches(c)' = 0,
           c \in Connecter => /\ Plugs(o)' = 0 /\ Attaches(o) = 0 /\ o \notin engine'
                              /\ \A d \in Connecter : Active(d) => own[d].owner # o
    PROVE  Engines'
<1>0. Typed /\ Engines /\ QType
  BY DEF IInv, Typed
<1>1. /\ o \in Object /\ c \in Object /\ Unborn(c) /\ k \in {0, 1}
      /\ \A x \in Object : Plugs(x)' = (Plugs(x) - (IF x = o THEN k ELSE 0)) + B(x = c)
  BY DEF BirthHyp
<1>2. /\ Plugs(c) = 0 /\ c \notin polled /\ c \notin engine /\ \A x \in Object : own[x].owner # c
  BY <1>1, UnbornFacts
<1>3. QType' /\ o # c /\ own'[c].owner = o /\ \A x \in Object : x # c => own'[x].owner = own[x].owner
  <2>1. BirthShape(o, c) /\ QType'
    BY BirthBasics
  <2> QED
    BY <2>1 DEF BirthShape
<1>4. /\ \A x \in Object : Plugs(x) \in Nat /\ Attaches(x) \in Nat
      /\ \A x \in Object : Plugs(x)' \in Nat /\ Attaches(x)' \in Nat
  BY <1>0, <1>3, CountsType, FlightTypeNext
<1>5. Plugs(c)' = 1
  BY <1>1, <1>2, <1>3 DEF B
<1>6. \A x \in Object : x # c => Plugs(x)' <= Plugs(x)
  BY <1>1, <1>4 DEF B
<1>7. Session \subseteq Object /\ Listener \subseteq Object /\ Connecter \subseteq Object /\ Connected \subseteq Session
  BY SocketIn
<1>8. \A x \in Listener \cup Connecter : Plugs(x)' + B(x \in polled') <= 1
  <2> SUFFICES ASSUME NEW x \in Listener \cup Connecter PROVE Plugs(x)' + B(x \in polled') <= 1
    OBVIOUS
  <2>1. CASE x = c
    BY <1>2, <1>5, <2>1 DEF B
  <2>2. CASE x # c
    <3>1. Plugs(x) + B(x \in polled) <= 1
      BY <1>0 DEF Engines
    <3>2. B(x \in polled') <= B(x \in polled) /\ B(x \in polled) \in {0, 1} /\ B(x \in polled') \in {0, 1}
      BY DEF B
    <3>3. Plugs(x)' <= Plugs(x) /\ Plugs(x)' \in Nat /\ Plugs(x) \in Nat
      BY <1>4, <1>6, <1>7, <2>2
    <3> QED
      BY <3>1, <3>2, <3>3
  <2> QED
    BY <2>1, <2>2
<1>9. \A x \in Session : /\ Attaches(x)' + B(x \in engine') <= 1
                         /\ x \in Connected => Plugs(x)' + Attaches(x)' + B(x \in engine') <= 1
  <2> SUFFICES ASSUME NEW x \in Session
               PROVE  /\ Attaches(x)' + B(x \in engine') <= 1
                      /\ x \in Connected => Plugs(x)' + Attaches(x)' + B(x \in engine') <= 1
    OBVIOUS
  <2>1. CASE x = c
    <3>1. B(x \in engine') = 0 /\ Attaches(c)' \in Nat
      BY <1>1, <1>2, <1>4, <2>1 DEF B
    <3> QED
      BY <1>5, <2>1, <3>1
  <2>2. CASE x # c
    <3>1. /\ Attaches(x) + B(x \in engine) <= 1
          /\ x \in Connected => Plugs(x) + Attaches(x) + B(x \in engine) <= 1
      BY <1>0 DEF Engines
    <3>2. B(x \in engine') <= B(x \in engine) /\ B(x \in engine) \in {0, 1} /\ B(x \in engine') \in {0, 1}
      BY DEF B
    <3>3. Plugs(x)' <= Plugs(x) /\ Plugs(x)' \in Nat /\ Plugs(x) \in Nat /\ Attaches(x)' = Attaches(x) /\ Attaches(x) \in Nat
      BY <1>4, <1>6, <1>7, <2>2
    <3> QED
      BY <3>1, <3>2, <3>3
  <2> QED
    BY <2>1, <2>2
<1>10. ASSUME NEW d \in Connecter, Active(d)', NEW w, w = own'[d].owner
       PROVE  /\ Plugs(w)' = 0 /\ Attaches(w)' = 0 /\ w \notin engine'
              /\ \A e \in Connecter : Active(e)' /\ own'[e].owner = w => e = d
  <2>1. \A e \in Connecter : e # c /\ Active(e)' => Active(e) /\ own'[e].owner = own[e].owner
    BY <1>3, <1>4, <1>6, <1>7 DEF Active
  <2>2. CASE d = c
    <3>1. w = o
      BY <1>3, <1>10, <2>2
    <3>2. Plugs(w)' = 0 /\ Attaches(w)' = 0 /\ w \notin engine'
      BY <1>1, <1>3, <2>2, <3>1
    <3>3. ASSUME NEW e \in Connecter, Active(e)', own'[e].owner = w, e # c PROVE FALSE
      BY <2>1, <2>2, <3>1, <3>3
    <3> QED
      BY <2>2, <3>2, <3>3
  <2>3. CASE d # c
    <3>1. Active(d) /\ w = own[d].owner
      BY <1>10, <2>1, <2>3
    <3>2. /\ Plugs(w) = 0 /\ Attaches(w) = 0 /\ w \notin engine
          /\ \A e \in Connecter : Active(e) /\ own[e].owner = w => e = d
      BY <1>0, <3>1 DEF Engines
    <3>3. w \in Object /\ w # c
      BY <1>2, <1>7, <3>1, ActiveOwner
    <3>4. Plugs(w)' = 0 /\ Attaches(w)' = 0 /\ w \notin engine'
      <4>1. Plugs(w)' <= 0 /\ Plugs(w)' \in Nat
        BY <1>4, <1>6, <3>2, <3>3
      <4> QED
        BY <3>2, <3>3, <4>1
    <3>5. ASSUME NEW e \in Connecter, Active(e)', own'[e].owner = w PROVE e = d
      <4>1. CASE e = c
        <5>1. w = o
          BY <1>3, <3>5, <4>1
        <5> QED
          BY <3>1, <4>1, <5>1
      <4>2. CASE e # c
        BY <2>1, <3>2, <3>5, <4>2
      <4> QED
        BY <4>1, <4>2
    <3> QED
      BY <3>4, <3>5
  <2> QED
    BY <2>2, <2>3
<1> QED
  BY <1>8, <1>9, <1>10 DEF Engines

\* The steps that launch a child.
LEMMA LaunchFacts ==
    ASSUME NEW o \in Object, NEW c \in Object, NEW w, w = launch_child(o, c)
    PROVE  /\ w \in Seq(Work) /\ NoDelete(w) /\ Only(w, {"plug", "own"}) /\ Balanced(w) /\ Calm(w) /\ NoInc(w) /\ NoCheck(w)
           /\ w = <<send_announced(c, "plug", None), send_announced(o, "own", c)>>
           /\ send_announced(c, "plug", None) \in Work /\ send_announced(o, "own", c) \in Work
           /\ DOMAIN w = 1..2
           /\ w[1].op = "send" /\ w[1].to = c /\ w[1].type = "plug" /\ w[1].arg = None /\ w[1].inc = 1
           /\ w[2].op = "send" /\ w[2].to = o /\ w[2].type = "own" /\ w[2].arg = c /\ w[2].inc = 1
           /\ \A D : SeqCount(w, Sends(D)) = B(Com(c, "plug", None) \in D) + B(Com(o, "own", c) \in D)
<1> DEFINE e == send_announced(c, "plug", None)  f == send_announced(o, "own", c)
<1>1. "plug" \in CommandType /\ "own" \in CommandType /\ None \in Arg /\ c \in Arg
  BY DEF CommandType, SeqCommand, Arg
<1>2. /\ e \in Work /\ e = [op |-> "send", to |-> c, type |-> "plug", arg |-> None, inc |-> 1]
      /\ (\A D : e \in Sends(D) <=> Com(c, "plug", None) \in D) /\ (\A x : e \in Ann(x) <=> x = c)
  BY <1>1, StepFacts
<1>3. /\ f \in Work /\ f = [op |-> "send", to |-> o, type |-> "own", arg |-> c, inc |-> 1]
      /\ (\A D : f \in Sends(D) <=> Com(o, "own", c) \in D) /\ (\A x : f \in Ann(x) <=> x = o)
  BY <1>1, StepFacts
<1>4. w = <<e, f>>
  BY DEF launch_child
<1> HIDE DEF e, f
<1>5. w \in Seq(Work) /\ DOMAIN w = 1..2 /\ w[1] = e /\ w[2] = f
  BY <1>2, <1>3, <1>4
<1>6. \A D : SeqCount(w, Sends(D)) = B(Com(c, "plug", None) \in D) + B(Com(o, "own", c) \in D)
  <2> SUFFICES ASSUME NEW D PROVE SeqCount(w, Sends(D)) = B(Com(c, "plug", None) \in D) + B(Com(o, "own", c) \in D)
    OBVIOUS
  <2>1. SeqCount(w, Sends(D)) = B(e \in Sends(D)) + B(f \in Sends(D))
    BY <1>4, CountTwo
  <2> QED
    BY <1>2, <1>3, <2>1 DEF B
<1>7. Balanced(w)
  <2> SUFFICES ASSUME NEW x \in Object PROVE SeqCount(w, Ann(x)) = SeqCount(w, Sends(SeqTo(x)))
    BY DEF Balanced
  <2>1. SeqCount(w, Ann(x)) = B(e \in Ann(x)) + B(f \in Ann(x))
    BY <1>4, CountTwo
  <2>2. Com(c, "plug", None) \in SeqTo(x) <=> x = c
    BY <1>1, ComIn DEF SeqCommand
  <2>3. Com(o, "own", c) \in SeqTo(x) <=> x = o
    BY <1>1, ComIn DEF SeqCommand
  <2> QED
    BY <1>2, <1>3, <1>6, <2>1, <2>2, <2>3 DEF B
<1>8. DOMAIN w = {1, 2}
  BY <1>5
<1>9. NoDelete(w) /\ Only(w, {"plug", "own"}) /\ Calm(w) /\ NoInc(w) /\ NoCheck(w)
  BY <1>2, <1>3, <1>5, <1>8 DEF NoDelete, Only, Calm, NoInc, NoCheck
<1> QED
  BY <1>2, <1>3, <1>4, <1>5, <1>6, <1>7, <1>9 DEF e, f

\* The same of steps in the state that follows.
LEMMA StepsConcatNext ==
    ASSUME NEW s \in Seq(Work), NEW u \in Seq(Work), NEW t, StepsOK(s, t)', StepsOK(u, t)',
           NoInc(u), Answers(u) \/ NoCheck(s)
    PROVE  StepsOK(s \o u, t)'
<1> DEFINE w == s \o u
           n == Len(s)
<1>1. /\ w \in Seq(Work) /\ n \in Nat /\ Len(u) \in Nat
      /\ DOMAIN s = 1..n /\ DOMAIN u = 1..Len(u) /\ DOMAIN w = 1..(n + Len(u))
      /\ \A i \in DOMAIN s : i \in DOMAIN w /\ w[i] = s[i]
      /\ \A i \in DOMAIN u : n + i \in DOMAIN w /\ w[n + i] = u[i]
      /\ \A i \in DOMAIN w : i \in DOMAIN s \/ (i - n \in DOMAIN u /\ w[i] = u[i - n] /\ i > n)
  BY ConcatElements
<1>2. StepsOK(w, t)' <=> \A i \in DOMAIN w : StepOK(w, i, t)'
  BY DEF StepsOK
<1> HIDE DEF w, n
<1>3. ASSUME NEW i \in DOMAIN s PROVE StepOK(w, i, t)'
  <2>1. StepOK(s, i, t)' /\ w[i] = s[i] /\ i \in DOMAIN w
    BY <1>1 DEF StepsOK
  <2>2. s[i].op = "inc" => IncOK(w, i, t)'
    <3> SUFFICES ASSUME s[i].op = "inc" PROVE IncOK(w, i, t)'
      OBVIOUS
    <3>1. IncOK(s, i, t)'
      BY <2>1 DEF StepOK
    <3>2. i = 1 /\ w[1] = s[1] /\ Alive(w[1].to)'
      BY <2>1, <3>1 DEF IncOK
    <3>3. Keeps(w, t)'
      <4>1. Keeps(s, t)'
        BY <3>1 DEF IncOK
      <4>2. (\E j \in DOMAIN s : s[j].op = "send" /\ s[j].type = "own" /\ s[j].arg = s[1].to)
              => (\E j \in DOMAIN w : w[j].op = "send" /\ w[j].type = "own" /\ w[j].arg = w[1].to)
        BY <1>1, <3>2
      <4> QED
        BY <3>2, <4>1, <4>2 DEF Keeps
    <3>4. \E j \in DOMAIN w : w[j].op = "send" /\ w[j].to = w[1].to /\ w[j].type \in SeqCommand /\ w[j].inc = 0
      BY <1>1, <3>1, <3>2 DEF IncOK
    <3> QED
      BY <3>2, <3>3, <3>4 DEF IncOK
  <2>3. s[i].op = "send" => SendOK(w, i, t)'
    <3> SUFFICES ASSUME s[i].op = "send" PROVE SendOK(w, i, t)'
      OBVIOUS
    <3>1. SendOK(s, i, t)'
      BY <2>1 DEF StepOK
    <3>2. i + 1 \in DOMAIN s => i + 1 \in DOMAIN w /\ w[i + 1] = s[i + 1]
      BY <1>1
    <3> QED
      BY <2>1, <3>1, <3>2 DEF SendOK
  <2>4. s[i].op \in {"check", "delete"} => LastOK(w, i, t)'
    <3> SUFFICES ASSUME s[i].op \in {"check", "delete"} PROVE LastOK(w, i, t)'
      OBVIOUS
    <3>1. LastOK(s, i, t)' /\ Answers(u)
      BY <2>1 DEF StepOK, NoCheck
    <3>2. ASSUME NEW j \in DOMAIN w, j > i PROVE w[j].op = "send" /\ w[j].type = "pipe_term_ack"
      BY <1>1, <3>1, <3>2 DEF LastOK, Answers
    <3> QED
      BY <2>1, <3>1, <3>2 DEF LastOK
  <2> QED
    BY <2>1, <2>2, <2>3, <2>4 DEF StepOK
<1>4. ASSUME NEW i \in DOMAIN w, NEW k \in DOMAIN u, i = n + k PROVE StepOK(w, i, t)'
  <2>1. StepOK(u, k, t)' /\ w[i] = u[k] /\ u[k].op # "inc"
    BY <1>1, <1>4 DEF StepsOK, NoInc
  <2>3. u[k].op = "send" => SendOK(w, i, t)'
    <3> SUFFICES ASSUME u[k].op = "send" PROVE SendOK(w, i, t)'
      OBVIOUS
    <3>1. SendOK(u, k, t)'
      BY <2>1 DEF StepOK
    <3>2. k + 1 \in DOMAIN u => i + 1 \in DOMAIN w /\ w[i + 1] = u[k + 1]
      <4> SUFFICES ASSUME k + 1 \in DOMAIN u PROVE i + 1 \in DOMAIN w /\ w[i + 1] = u[k + 1]
        OBVIOUS
      <4>1. n + (k + 1) \in DOMAIN w /\ w[n + (k + 1)] = u[k + 1]
        BY <1>1
      <4>2. n + (k + 1) = i + 1
        BY <1>1, <1>4
      <4> QED
        BY <4>1, <4>2
    <3> QED
      BY <2>1, <3>1, <3>2 DEF SendOK
  <2>4. u[k].op \in {"check", "delete"} => LastOK(w, i, t)'
    <3> SUFFICES ASSUME u[k].op \in {"check", "delete"} PROVE LastOK(w, i, t)'
      OBVIOUS
    <3>1. LastOK(u, k, t)'
      BY <2>1 DEF StepOK
    <3>2. ASSUME NEW j \in DOMAIN w, j > i PROVE w[j].op = "send" /\ w[j].type = "pipe_term_ack"
      <4>1. j - n \in DOMAIN u /\ w[j] = u[j - n] /\ j - n > k
        BY <1>1, <1>4, <3>2
      <4> QED
        BY <3>1, <4>1 DEF LastOK
    <3> QED
      BY <2>1, <3>1, <3>2 DEF LastOK
  <2> QED
    BY <2>1, <2>3, <2>4 DEF StepOK
<1>5. ASSUME NEW i \in DOMAIN w, i \notin DOMAIN s PROVE StepOK(w, i, t)'
  <2>1. i - n \in DOMAIN u /\ i = n + (i - n)
    BY <1>1, <1>5
  <2> QED
    BY <1>4, <2>1
<1> QED
  BY <1>2, <1>3, <1>5 DEF w


\* The steps that launch a child are in order, once it is there.
LEMMA LaunchSteps ==
    ASSUME NEW o \in Object, NEW c \in Object \ {Socket}, NEW w, w = launch_child(o, c),
           Alive(o)', Alive(c)', own'[c].owner = o
    PROVE  StepsOK(w, Tid[o])'
<1>1. /\ DOMAIN w = 1..2
      /\ w[1].op = "send" /\ w[1].to = c /\ w[1].type = "plug" /\ w[1].arg = None /\ w[1].inc = 1
      /\ w[2].op = "send" /\ w[2].to = o /\ w[2].type = "own" /\ w[2].arg = c /\ w[2].inc = 1
  BY LaunchFacts
<1>2. SendOK(w, 1, Tid[o])'
  <2> SUFFICES ASSUME NEW st, st = w[1] PROVE SendOK(w, 1, Tid[o])'
    OBVIOUS
  <2>1. CommandOK(Com(st.to, st.type, st.arg), Tid[st.to])'
    BY <1>1 DEF CommandOK, Com
  <2>2. 2 \in DOMAIN w /\ 1 + 1 = 2
    BY <1>1
  <2> QED
    BY <1>1, <2>1, <2>2 DEF SendOK
<1>3. SendOK(w, 2, Tid[o])'
  <2> SUFFICES ASSUME NEW st, st = w[2] PROVE SendOK(w, 2, Tid[o])'
    OBVIOUS
  <2>0. own'[c].life # "none"
    BY DEF Alive
  <2>1. CommandOK(Com(st.to, st.type, st.arg), Tid[st.to])'
    BY <1>1, <2>0 DEF CommandOK, Com, Made
  <2> QED
    BY <1>1, <2>1 DEF SendOK
<1>4. DOMAIN w = {1, 2}
  BY <1>1
<1>5. StepOK(w, 1, Tid[o])' /\ StepOK(w, 2, Tid[o])'
  BY <1>1, <1>2, <1>3 DEF StepOK
<1> QED
  BY <1>4, <1>5 DEF StepsOK

\* The commands of steps that launch c.
Launches(steps, c) ==
    \A x \in Object : /\ SeqCount(steps, Sends(About(x, "own"))) = B(x = c)
                      /\ SeqCount(steps, Sends(To(x, "plug"))) = B(x = c)
                      /\ SeqCount(steps, Sends(To(x, "term"))) = 0
                      /\ SeqCount(steps, Sends(To(x, "term_ack"))) = 0
\* launch_child () sends one plug and one own.
LEMMA LaunchesLaunch ==
    ASSUME NEW o \in Object, NEW c \in Object, NEW w, w = launch_child(o, c)
    PROVE  Launches(w, c)
<1> SUFFICES ASSUME NEW x \in Object
             PROVE  /\ SeqCount(w, Sends(About(x, "own"))) = B(x = c)
                    /\ SeqCount(w, Sends(To(x, "plug"))) = B(x = c)
                    /\ SeqCount(w, Sends(To(x, "term"))) = 0
                    /\ SeqCount(w, Sends(To(x, "term_ack"))) = 0
  BY DEF Launches
<1>1. \A D : SeqCount(w, Sends(D)) = B(Com(c, "plug", None) \in D) + B(Com(o, "own", c) \in D)
  BY LaunchFacts
<1>2. "plug" \in CommandType /\ "own" \in CommandType /\ None \in Arg /\ c \in Arg
  BY DEF CommandType, SeqCommand, Arg
<1>3. /\ \A y, ty : Com(c, "plug", None) \in To(y, ty) <=> y = c /\ ty = "plug"
      /\ \A y, ty : Com(o, "own", c) \in To(y, ty) <=> y = o /\ ty = "own"
      /\ \A y, ty : Com(c, "plug", None) \in About(y, ty) <=> y = None /\ ty = "plug"
      /\ \A y, ty : Com(o, "own", c) \in About(y, ty) <=> y = c /\ ty = "own"
  BY <1>2, ComIn
<1> QED
  BY <1>1, <1>3 DEF B

\* The numbers of commands after the turn; k is 1 when a plug is taken.
Counted(o, c, k) ==
    /\ \A x \in Object : Owns(x)' = Owns(x) + B(x = c)
    /\ \A x \in Object : Plugs(x)' = (Plugs(x) - (IF x = o THEN k ELSE 0)) + B(x = c)
    /\ \A x \in Object : Terms(x)' = Terms(x) /\ Acks(x)' = Acks(x)
PlugTaking(o, k) ==
    \/ k = 1 /\ Takes(o) /\ Msg(o).to = o /\ Msg(o).type = "plug"
    \/ k = 0 /\ mailbox' = mailbox
\* The numbers after them.
LEMMA LaunchCounts ==
    ASSUME QType, NEW o, NEW steps, Turn(o, steps), NEW c \in Object, Launches(steps, c), NEW k, PlugTaking(o, k)
    PROVE  Counted(o, c, k)
<1>0. \/ k = 1 /\ Takes(o) /\ Msg(o).to = o /\ Msg(o).type = "plug"
      \/ k = 0 /\ mailbox' = mailbox
  BY DEF PlugTaking
<1>1. ASSUME NEW x \in Object
      PROVE  /\ Owns(x)' = Owns(x) + B(x = c)
             /\ Terms(x)' = Terms(x) /\ Acks(x)' = Acks(x)
  <2>1. /\ SeqCount(steps, Sends(About(x, "own"))) = B(x = c)
        /\ SeqCount(steps, Sends(To(x, "term"))) = 0
        /\ SeqCount(steps, Sends(To(x, "term_ack"))) = 0
    BY DEF Launches
  <2>2. Takes(o) /\ Msg(o).type = "plug" => Msg(o) \notin About(x, "own") /\ Msg(o) \notin To(x, "term") /\ Msg(o) \notin To(x, "term_ack")
    BY DEF About, To
  <2>3. Flight(About(x, "own"))' = Flight(About(x, "own")) + SeqCount(steps, Sends(About(x, "own")))
    BY <1>0, <2>2, FreshFlight
  <2>4. Flight(To(x, "term"))' = Flight(To(x, "term")) + SeqCount(steps, Sends(To(x, "term")))
    BY <1>0, <2>2, FreshFlight
  <2>5. Flight(To(x, "term_ack"))' = Flight(To(x, "term_ack")) + SeqCount(steps, Sends(To(x, "term_ack")))
    BY <1>0, <2>2, FreshFlight
  <2>6. Terms(x) \in Nat /\ Acks(x) \in Nat
    BY CountsType
  <2> QED
    BY <2>1, <2>3, <2>4, <2>5, <2>6 DEF Owns, Terms, Acks
<1>2. ASSUME NEW x \in Object
      PROVE  Plugs(x)' = (Plugs(x) - (IF x = o THEN k ELSE 0)) + B(x = c)
  <2>1. SeqCount(steps, Sends(To(x, "plug"))) = B(x = c)
    BY DEF Launches
  <2>2. Plugs(x) \in Nat /\ o \in Object /\ steps \in Seq(Work) /\ Plans(o, steps)
    BY CountsType DEF Turn
  <2>3. CASE k = 0 /\ mailbox' = mailbox
    <3>1. Flight(To(x, "plug"))' = Flight(To(x, "plug")) + SeqCount(steps, Sends(To(x, "plug")))
      BY <2>3, FreshFlight
    <3> QED
      BY <2>1, <2>2, <2>3, <3>1 DEF Plugs
  <2>4. CASE k = 1 /\ Takes(o) /\ Msg(o).to = o /\ Msg(o).type = "plug"
    <3>1. Flight(To(x, "plug"))' = (Flight(To(x, "plug")) - B(Msg(o) \in To(x, "plug"))) + SeqCount(steps, Sends(To(x, "plug")))
      BY <2>2, <2>4, HandledFlight
    <3>2. Msg(o) \in Cmd
      BY <2>2, <2>4, TakesCount
    <3>3. Msg(o) \in To(x, "plug") <=> x = o
      BY <2>4, <3>2 DEF To
    <3> QED
      BY <2>1, <2>2, <2>4, <3>1, <3>3 DEF Plugs, B
  <2> QED
    BY <1>0, <2>3, <2>4
<1> QED
  BY <1>1, <1>2 DEF Counted

\* The connecter that a session starts.
LEMMA ConnecterFacts ==
    ASSUME NEW s, CanConnect(s), NEW c, c = NewConnecter(s)
    PROVE  c \in Connecter /\ c \in Object /\ Unborn(c)
  BY SocketIn DEF CanConnect, NewConnecter

\* What a session finds when it gets its plug.
LEMMA ConnectTaken ==
    ASSUME IInv, NEW s, s \in Connected, Handles(s, "plug")
    PROVE  /\ s \in Object /\ s \in Session /\ s # Socket /\ Alive(s) /\ Plugs(s) = 1 /\ Attaches(s) = 0
           /\ s \notin engine /\ ~own[s].terminating /\ own[s].owner \in Object
           /\ \A d \in Connecter : Active(d) => own[d].owner # s
<1>0. Typed /\ QType /\ Commands /\ Engines /\ PlugFirst /\ Tree
  BY DEF IInv, Typed
<1>1. s \in Object /\ s \in Session
  BY SocketIn
<1>2. "plug" \in CommandType
  BY DEF CommandType, SeqCommand
<1>3. /\ CommandOK(Com(s, "plug", arg(s)), Tid[s]) /\ arg(s) \in Arg
      /\ \A D : Com(s, "plug", arg(s)) \in D => Flight(D) >= 1
  BY <1>0, <1>1, <1>2, HeadOK
<1>4. Alive(s) /\ s # Socket
  BY <1>3 DEF CommandOK, Com
<1>5. Com(s, "plug", arg(s)) \in To(s, "plug")
  BY <1>1, <1>2, <1>3, ComIn
<1>6. Plugs(s) >= 1 /\ Plugs(s) \in Nat /\ Attaches(s) \in Nat
  BY <1>0, <1>3, <1>5, CountsType DEF Plugs
<1>7. Plugs(s) + Attaches(s) + B(s \in engine) <= 1
  BY <1>0, <1>1 DEF Engines
<1>8. B(s \in engine) \in {0, 1} /\ (s \in engine => B(s \in engine) = 1)
  BY DEF B
<1>9. Plugs(s) = 1 /\ Attaches(s) = 0 /\ s \notin engine
  BY <1>6, <1>7, <1>8
<1>10. ~own[s].terminating
  BY <1>0, <1>1, <1>4, <1>6 DEF PlugFirst
<1>11. \A d \in Connecter : Active(d) => own[d].owner # s
  BY <1>0, <1>9 DEF Engines
<1>12. own[s].owner \in Object
  BY <1>0, <1>1, <1>4, OwnerIn DEF Alive, Made
<1> QED
  BY <1>1, <1>4, <1>9, <1>10, <1>11, <1>12

\* Steps that launch a child, and a check.
LEMMA LaunchCheck ==
    ASSUME NEW o \in Object, NEW c \in Object, NEW w, w = launch_child(o, c) \o <<check_acks(o)>>
    PROVE  /\ w \in Seq(Work) /\ NoDelete(w) /\ Only(w, {"plug", "own"}) /\ Balanced(w) /\ InOrder(w)
           /\ Launches(w, c)
<1> SUFFICES ASSUME NEW v, v = launch_child(o, c), NEW u, u = <<check_acks(o)>>, w = v \o u
             PROVE  /\ w \in Seq(Work) /\ NoDelete(w) /\ Only(w, {"plug", "own"}) /\ Balanced(w) /\ InOrder(w)
                    /\ Launches(w, c)
  OBVIOUS
<1>1. v \in Seq(Work) /\ NoDelete(v) /\ Only(v, {"plug", "own"}) /\ Balanced(v) /\ Calm(v) /\ Launches(v, c)
  BY LaunchFacts, LaunchesLaunch
<1>2. u \in Seq(Work) /\ NoDelete(u) /\ Plain(u) /\ (\A T : Only(u, T)) /\ Calm(u)
  BY CheckStep
<1>3. Balanced(u)
  BY <1>2, PlainBalanced
<1>4. Balanced(w)
  BY <1>1, <1>2, <1>3, BalancedConcat
<1>5. /\ w \in Seq(Work)
      /\ NoDelete(v) /\ NoDelete(u) => NoDelete(w)
      /\ Calm(v) /\ Calm(u) => Calm(w)
      /\ \A T : Only(v, T) /\ Only(u, T) => Only(w, T)
  <2>1. /\ v \o u \in Seq(Work)
        /\ NoDelete(v) /\ NoDelete(u) => NoDelete(v \o u)
        /\ Calm(v) /\ Calm(u) => Calm(v \o u)
        /\ \A T : Only(v, T) /\ Only(u, T) => Only(v \o u, T)
    BY <1>1, <1>2, ConcatForm
  <2> QED
    BY <2>1
<1>6. NoDelete(w) /\ Calm(w) /\ Only(w, {"plug", "own"})
  BY <1>1, <1>2, <1>5
<1>7. \A D : SeqCount(u, Sends(D)) = 0
  <2> SUFFICES ASSUME NEW D PROVE SeqCount(u, Sends(D)) = 0
    OBVIOUS
  <2>1. check_acks(o) \notin Sends(D)
    BY OwnStepFacts
  <2> QED
    BY <2>1, CountSingle DEF B
<1>8. \A D : SeqCount(w, Sends(D)) = SeqCount(v, Sends(D))
  <2> SUFFICES ASSUME NEW D PROVE SeqCount(w, Sends(D)) = SeqCount(v, Sends(D))
    OBVIOUS
  <2>1. SeqCount(w, Sends(D)) = SeqCount(v, Sends(D)) + SeqCount(u, Sends(D))
    <3>1. SeqCount(v \o u, Sends(D)) = SeqCount(v, Sends(D)) + SeqCount(u, Sends(D))
      BY <1>1, <1>2, CountConcat
    <3> QED
      BY <3>1
  <2>2. SeqCount(v, Sends(D)) \in Nat
    BY <1>1, SeqCountType
  <2> QED
    BY <1>7, <2>1, <2>2
<1>9. Launches(w, c)
  BY <1>1, <1>8 DEF Launches
<1> QED
  BY <1>4, <1>5, <1>6, <1>9, CalmInOrder

\* A plug to a connecting session, which starts connecting, preserves the invariant.
LEMMA PlugConnectedStep ==
    ASSUME IInv, NEW s, process_plug_connected(s)
    PROVE  IInv'
<1> SUFFICES ASSUME NEW c, c = NewConnecter(s), NEW w, w = launch_child(s, c) \o <<check_acks(s)>> PROVE IInv'
  OBVIOUS
<1>0. /\ Typed /\ Links /\ Pipes /\ QType /\ failed = {} /\ own \in [Object -> OwnRecord]
  BY DEF IInv, Typed
<1>1. /\ s \in Connected /\ Handles(s, "plug") /\ CanConnect(s) /\ Handled(s, w)
      /\ own' = [Born(s, c) EXCEPT ![s] = process_seqnum(@)]
      /\ UNCHANGED <<polled, engine, pending, pipe, pstate, psession, endpoints, closed, immediate, failed>>
  BY DEF process_plug_connected, lvars, evars, svars
<1>2. /\ s \in Object /\ s \in Session /\ s # Socket /\ Alive(s) /\ Plugs(s) = 1 /\ Attaches(s) = 0
      /\ s \notin engine /\ ~own[s].terminating
      /\ \A d \in Connecter : Active(d) => own[d].owner # s
  BY <1>1, ConnectTaken
<1>3. c \in Connecter /\ c \in Object /\ Unborn(c)
  BY <1>1, ConnecterFacts
<1>4. /\ ~Made(c) /\ c # Socket /\ own[c] = [own_t EXCEPT !.life = "none"] /\ Plugs(c) = 0
  BY <1>3, UnbornFacts
<1>5. c # s
  BY <1>2, <1>4 DEF Alive, Made
<1>6. /\ w \in Seq(Work) /\ NoDelete(w) /\ Only(w, {"plug", "own"}) /\ Balanced(w) /\ InOrder(w)
      /\ Launches(w, c)
  BY <1>2, <1>3, LaunchCheck
<1>7. /\ Turn(s, w) /\ Takes(s) /\ Msg(s) = Com(s, "plug", arg(s))
  <2>1. "plug" \in CommandType
    BY DEF CommandType, SeqCommand
  <2> QED
    BY <1>0, <1>1, <1>2, <1>6, <2>1, HandlerTurn
<1>8. Msg(s).to = s /\ Msg(s).type = "plug"
  BY <1>7 DEF Com
<1>9. /\ own' \in [Object -> OwnRecord] /\ own'[c] = NewBorn(s) /\ own'[s] = process_seqnum(own[s])
      /\ \A x \in Object : x # c /\ x # s => own'[x] = own[x]
  <2>1. NewBorn(s) \in OwnRecord
    BY <1>2, NewOwn DEF NewBorn
  <2>2. process_seqnum(own[s]) \in OwnRecord
    BY <1>0, <1>2, OwnOps
  <2>3. Born(s, c) = [own EXCEPT ![c] = NewBorn(s)]
    BY DEF Born, NewBorn
  <2>4. own' = [[own EXCEPT ![c] = NewBorn(s)] EXCEPT ![s] = process_seqnum(own[s])]
    BY <1>0, <1>1, <1>2, <1>3, <1>5, <2>3
  <2> HIDE DEF NewBorn
  <2> QED
    BY <1>0, <1>2, <1>3, <1>5, <2>1, <2>2, <2>4
<1>10. /\ own'[s].life = own[s].life /\ own'[s].owner = own[s].owner /\ own'[s].owned = own[s].owned
       /\ own'[s].terminating = own[s].terminating /\ own'[s].term_acks = own[s].term_acks
       /\ own'[s].sent_seqnum = own[s].sent_seqnum
       /\ own'[s].processed_seqnum = own[s].processed_seqnum + 1
  <2>1. own[s] \in OwnRecord
    BY <1>0, <1>2
  <2> QED
    BY <1>9, <2>1, OwnOps DEF Kept
<1>11. own'[c].sent_seqnum = own[c].sent_seqnum /\ own'[c].processed_seqnum = own[c].processed_seqnum
       /\ own'[c].life = "live" /\ own'[c].owner = s
  <2>1. /\ [own_t EXCEPT !.owner = s].sent_seqnum = 0 /\ [own_t EXCEPT !.owner = s].processed_seqnum = 0
        /\ [own_t EXCEPT !.owner = s].life = "live" /\ [own_t EXCEPT !.owner = s].owner = s
    BY <1>2, NewOwn
  <2>2. own[c].sent_seqnum = 0 /\ own[c].processed_seqnum = 0
    BY <1>4 DEF own_t
  <2>3. own'[c] = [own_t EXCEPT !.owner = s]
    BY <1>9 DEF NewBorn
  <2> QED
    BY <2>1, <2>2, <2>3
<1>12. Processes(s)
  <2>1. "plug" \in SeqCommand
    BY DEF SeqCommand
  <2>2. \A x \in Object : own[x].processed_seqnum \in Nat
    BY <1>0 DEF OwnRecord
  <2>3. \A x \in Object : own'[x].sent_seqnum = own[x].sent_seqnum
    BY <1>9, <1>10, <1>11
  <2>4. \A x \in Object : own'[x].processed_seqnum = own[x].processed_seqnum + B(x = s)
    BY <1>5, <1>9, <1>10, <1>11, <2>2 DEF B
  <2> QED
    BY <1>7, <1>8, <2>1, <2>3, <2>4 DEF Processes
<1>13. Alive(s)' /\ Alive(c)'
  <2>1. ~Going(c) /\ ~Going(s) /\ own'[s].life = "live"
    BY <1>2, <1>3, <1>10, UnbornFacts DEF Alive
  <2> QED
    BY <1>2, <1>3, <1>7, <1>11, <2>1, TurnAlive
<1>14. StepsOK(w, Tid[s])'
  <2> SUFFICES ASSUME NEW v, v = launch_child(s, c), NEW u, u = <<check_acks(s)>>, w = v \o u
               PROVE  StepsOK(w, Tid[s])'
    OBVIOUS
  <2>1. StepsOK(v, Tid[s])'
    BY <1>2, <1>3, <1>4, <1>11, <1>13, LaunchSteps
  <2>2. v \in Seq(Work) /\ NoCheck(v)
    BY <1>2, <1>3, LaunchFacts
  <2>3. u \in Seq(Work) /\ DOMAIN u = {1} /\ u[1].op = "check" /\ u[1].to = s
    BY <1>2, CheckStep, OwnStepFacts
  <2>4. NoInc(u)
    BY <2>3 DEF NoInc
  <2>5. LastOK(u, 1, Tid[s])'
    BY <1>10, <1>2, <2>3 DEF LastOK, Made, Alive
  <2>6. StepsOK(u, Tid[s])'
    BY <2>3, <2>5 DEF StepsOK, StepOK
  <2> QED
    BY <2>1, <2>2, <2>3, <2>4, <2>6, StepsConcatNext
<1>15. /\ \A x \in Object : Owns(x)' = Owns(x) + B(x = c)
       /\ \A x \in Object : Plugs(x)' = (Plugs(x) - (IF x = s THEN 1 ELSE 0)) + B(x = c)
       /\ \A x \in Object : Terms(x)' = Terms(x) /\ Acks(x)' = Acks(x)
  <2>1. PlugTaking(s, 1)
    BY <1>7, <1>8 DEF PlugTaking
  <2>2. Counted(s, c, 1)
    BY <1>0, <1>3, <1>6, <1>7, <2>1, LaunchCounts
  <2> QED
    BY <2>2 DEF Counted
<1>16. pipes' = pipes /\ \A y, P : OtherPipes(y, P)' = OtherPipes(y, P)
  BY <1>1 DEF pipes, OtherPipes
<1>17. s \in OwnersOf(c)
  BY <1>1, <1>3, OwnAssumption DEF OwnersOf, Session
<1>18. ~CanGo(own'[s])
  BY <1>2, <1>10 DEF CanGo
<1>19. BirthHyp(s, c, w, 1)
  BY <1>1, <1>2, <1>3, <1>6, <1>7, <1>9, <1>10, <1>12, <1>14, <1>15, <1>16, <1>17, <1>18 DEF BirthHyp
<1>20. /\ QType' /\ Seqnums' /\ Commands' /\ Todo' /\ Order' /\ Requests'
  BY <1>19, BirthBasics
<1>21. Tree' /\ Children' /\ Awaited' /\ Gone' /\ Checked' /\ PlugFirst'
  BY <1>19, BirthRest
<1>22. Links'
  <2>1. /\ polled' \subseteq polled /\ engine' \subseteq engine
        /\ (\A y \in Session : y # c => OtherPipes(y, {})' = OtherPipes(y, {}))
        /\ psession' \in [Pipe -> Session \cup {None}]
        /\ (\A p \in Pipe : psession'[p] # psession[p] => psession'[p] = c)
        /\ (closed => \A p \in Pipe : pstate'[<<p, "socket">>] \notin {"active", "waiting_for_delimiter"})
    BY <1>0, <1>1, <1>16 DEF Links, Typed
  <2>2. \A y \in Session : pipe'[y] # None =>
              psession'[pipe'[y]] = y /\ pstate'[<<pipe'[y], "session">>] \notin {"none", "gone"}
    BY <1>0, <1>1 DEF Links
  <2>3. \A e \in endpoints' : e[2] # None => psession'[e[2]] # None
    BY <1>0, <1>1 DEF Links
  <2> QED
    BY <1>19, <2>1, <2>2, <2>3, BirthLinks
<1> DEFINE T == {"plug", "attach", "term", "term_ack", "own"}
<1>23. Only(w, T) /\ Msg(s).type \in T
  BY <1>6, <1>8 DEF Only
<1>24. SameCounts(T)
  <2> HIDE DEF T
  <2> QED
    BY <1>7, <1>23, QuietCounts
<1>25. Pipes'
  BY <1>0, <1>1, <1>24, PipesFrame
<1>26. \A x \in Object : Attaches(x)' = Attaches(x)
  <2> DEFINE T2 == {"plug", "own"}
  <2>1. Only(w, T2) /\ Msg(s).type \in T2 /\ "attach" \notin T2
    BY <1>6, <1>8
  <2> HIDE DEF T2
  <2>2. SameCounts(T2)
    BY <1>7, <2>1, QuietCounts
  <2> QED
    BY <2>1, <2>2 DEF SameCounts
<1>27. Engines'
  <2>1. /\ polled' \subseteq polled /\ engine' \subseteq engine /\ s \notin engine'
        /\ (\A x \in Object : x # c => Attaches(x)' = Attaches(x))
    BY <1>1, <1>2, <1>26
  <2>2. Attaches(c)' <= 1 /\ (c \in Connected => Attaches(c)' = 0)
    <3>1. Attaches(c) = 0
      BY <1>3, UnbornFacts
    <3> QED
      BY <1>3, <1>26, <3>1
  <2>3. Plugs(s)' = 0
    BY <1>2, <1>5, <1>15 DEF B
  <2>4. c \in Connecter => /\ Plugs(s)' = 0 /\ Attaches(s) = 0 /\ s \notin engine'
                           /\ \A d \in Connecter : Active(d) => own[d].owner # s
    BY <1>2, <2>1, <2>3
  <2> QED
    BY <1>19, <2>1, <2>2, <2>4, BirthEngines
<1>28. Typed'
  BY <1>0, <1>1, <1>9, <1>20 DEF Typed
<1> QED
  BY <1>0, <1>1, <1>20, <1>21, <1>22, <1>25, <1>27, <1>28 DEF IInv

\* Sequences of one and two elements,
LEMMA OneTwoSeq ==
    ASSUME NEW S, NEW e1 \in S, NEW e2 \in S, NEW e3 \in S
    PROVE  <<e1>> \o <<e2, e3>> = <<e1, e2, e3>>
<1>1. <<e1>> \in Seq(S) /\ <<e2, e3>> \in Seq(S) /\ <<e1, e2, e3>> \in Seq(S)
  OBVIOUS
<1>2. /\ Len(<<e1>>) = 1 /\ Len(<<e2, e3>>) = 2 /\ Len(<<e1, e2, e3>>) = 3
      /\ <<e1>>[1] = e1
      /\ <<e2, e3>>[1] = e2 /\ <<e2, e3>>[2] = e3
      /\ <<e1, e2, e3>>[1] = e1 /\ <<e1, e2, e3>>[2] = e2 /\ <<e1, e2, e3>>[3] = e3
  OBVIOUS
<1> DEFINE s == <<e1>>
           u == <<e2, e3>>
           w == <<e1, e2, e3>>
<1> HIDE DEF s, u, w
<1>3. /\ s \in Seq(S) /\ u \in Seq(S) /\ w \in Seq(S) /\ Len(s) = 1 /\ Len(u) = 2 /\ Len(w) = 3
      /\ s[1] = e1
      /\ u[1] = e2 /\ u[2] = e3
      /\ w[1] = e1 /\ w[2] = e2 /\ w[3] = e3
  BY <1>1, <1>2 DEF s, u, w
<1>4. s \o u \in Seq(S) /\ Len(s \o u) = Len(w)
  <2>1. s \o u \in Seq(S) /\ Len(s \o u) = Len(s) + Len(u)
    BY <1>3, ConcatProperties
  <2> QED
    BY <1>3, <2>1
<1>5. \A i \in 1..Len(s \o u) : (s \o u)[i] = w[i]
  <2> SUFFICES ASSUME NEW i \in 1..Len(s \o u) PROVE (s \o u)[i] = w[i]
    OBVIOUS
  <2>0. i \in 1 .. Len(s) + Len(u) /\ (i = 1 \/ i = 2 \/ i = 3)
    BY <1>3, <1>4
  <2>1. (s \o u)[i] = IF i <= Len(s) THEN s[i] ELSE u[i - Len(s)]
    BY <1>3, <2>0, ConcatProperties
  <2> QED
    BY <1>3, <2>0, <2>1
<1>6. s \o u = w
  BY <1>3, <1>4, <1>5, SeqEqual
<1> QED
  BY <1>6 DEF s, u, w

\* and of three and one.
LEMMA ThreeOneSeq ==
    ASSUME NEW S, NEW e1 \in S, NEW e2 \in S, NEW e3 \in S, NEW e4 \in S
    PROVE  <<e1, e2, e3>> \o <<e4>> = <<e1, e2, e3, e4>>
<1>1. <<e1, e2, e3>> \in Seq(S) /\ <<e4>> \in Seq(S) /\ <<e1, e2, e3, e4>> \in Seq(S)
  OBVIOUS
<1>2. /\ Len(<<e1, e2, e3>>) = 3 /\ Len(<<e4>>) = 1 /\ Len(<<e1, e2, e3, e4>>) = 4
      /\ <<e1, e2, e3>>[1] = e1 /\ <<e1, e2, e3>>[2] = e2 /\ <<e1, e2, e3>>[3] = e3
      /\ <<e4>>[1] = e4
      /\ <<e1, e2, e3, e4>>[1] = e1 /\ <<e1, e2, e3, e4>>[2] = e2 /\ <<e1, e2, e3, e4>>[3] = e3 /\ <<e1, e2, e3, e4>>[4] = e4
  OBVIOUS
<1> DEFINE s == <<e1, e2, e3>>
           u == <<e4>>
           w == <<e1, e2, e3, e4>>
<1> HIDE DEF s, u, w
<1>3. /\ s \in Seq(S) /\ u \in Seq(S) /\ w \in Seq(S) /\ Len(s) = 3 /\ Len(u) = 1 /\ Len(w) = 4
      /\ s[1] = e1 /\ s[2] = e2 /\ s[3] = e3
      /\ u[1] = e4
      /\ w[1] = e1 /\ w[2] = e2 /\ w[3] = e3 /\ w[4] = e4
  BY <1>1, <1>2 DEF s, u, w
<1>4. s \o u \in Seq(S) /\ Len(s \o u) = Len(w)
  <2>1. s \o u \in Seq(S) /\ Len(s \o u) = Len(s) + Len(u)
    BY <1>3, ConcatProperties
  <2> QED
    BY <1>3, <2>1
<1>5. \A i \in 1..Len(s \o u) : (s \o u)[i] = w[i]
  <2> SUFFICES ASSUME NEW i \in 1..Len(s \o u) PROVE (s \o u)[i] = w[i]
    OBVIOUS
  <2>0. i \in 1 .. Len(s) + Len(u) /\ (i = 1 \/ i = 2 \/ i = 3 \/ i = 4)
    BY <1>3, <1>4
  <2>1. (s \o u)[i] = IF i <= Len(s) THEN s[i] ELSE u[i - Len(s)]
    BY <1>3, <2>0, ConcatProperties
  <2> QED
    BY <1>3, <2>0, <2>1
<1>6. s \o u = w
  BY <1>3, <1>4, <1>5, SeqEqual
<1> QED
  BY <1>6 DEF s, u, w

\* The steps of a listener that accepts a connection.
Accepts(l, a) == <<inc_seqnum(a)>> \o launch_child(l, a) \o <<send_command(a, "attach", None)>>

\* The steps of in_event () are well formed,
LEMMA AcceptFacts ==
    ASSUME NEW l \in Object, NEW a \in Object, l # a, NEW w, w = Accepts(l, a)
    PROVE  /\ w \in Seq(Work) /\ NoDelete(w) /\ Only(w, {"plug", "own", "attach"}) /\ Balanced(w) /\ Calm(w)
           /\ DOMAIN w = 1..4 /\ w[1].op = "inc" /\ w[1].to = a
           /\ w[2].op = "send" /\ w[2].to = a /\ w[2].type = "plug" /\ w[2].arg = None /\ w[2].inc = 1
           /\ w[3].op = "send" /\ w[3].to = l /\ w[3].type = "own" /\ w[3].arg = a /\ w[3].inc = 1
           /\ w[4].op = "send" /\ w[4].to = a /\ w[4].type = "attach" /\ w[4].arg = None /\ w[4].inc = 0
           /\ \A D : SeqCount(w, Sends(D)) = B(Com(a, "plug", None) \in D) + B(Com(l, "own", a) \in D)
                                            + B(Com(a, "attach", None) \in D)
<1> DEFINE e == inc_seqnum(a)
           f == send_announced(a, "plug", None)
           g == send_announced(l, "own", a)
           h == send_command(a, "attach", None)
<1>1. "plug" \in CommandType /\ "own" \in CommandType /\ "attach" \in CommandType /\ None \in Arg /\ a \in Arg
  BY DEF CommandType, SeqCommand, Arg
<1>2. /\ e \in Work /\ e.op = "inc" /\ e.to = a
      /\ (\A D : e \notin Sends(D)) /\ (\A x : e \in Ann(x) <=> x = a)
  BY OwnStepFacts
<1>3. /\ f \in Work /\ f = [op |-> "send", to |-> a, type |-> "plug", arg |-> None, inc |-> 1]
      /\ (\A D : f \in Sends(D) <=> Com(a, "plug", None) \in D) /\ (\A x : f \in Ann(x) <=> x = a)
  BY <1>1, StepFacts
<1>4. /\ g \in Work /\ g = [op |-> "send", to |-> l, type |-> "own", arg |-> a, inc |-> 1]
      /\ (\A D : g \in Sends(D) <=> Com(l, "own", a) \in D) /\ (\A x : g \in Ann(x) <=> x = l)
  BY <1>1, StepFacts
<1>5. /\ h \in Work /\ h = [op |-> "send", to |-> a, type |-> "attach", arg |-> None, inc |-> 0]
      /\ (\A D : h \in Sends(D) <=> Com(a, "attach", None) \in D) /\ (\A x : h \notin Ann(x))
  BY <1>1, StepFacts
<1>6. w = <<e>> \o <<f, g>> \o <<h>>
  BY DEF Accepts, launch_child
<1> HIDE DEF e, f, g, h
<1>7. <<e>> \o <<f, g>> = <<e, f, g>>
  BY <1>2, <1>3, <1>4, OneTwoSeq
<1>8. <<e, f, g>> \o <<h>> = <<e, f, g, h>>
  BY <1>2, <1>3, <1>4, <1>5, ThreeOneSeq
<1>9. w = <<e, f, g, h>>
  BY <1>6, <1>7, <1>8
<1>10. w \in Seq(Work) /\ DOMAIN w = 1..4 /\ w[1] = e /\ w[2] = f /\ w[3] = g /\ w[4] = h
  BY <1>2, <1>3, <1>4, <1>5, <1>9
<1>11. \A D : SeqCount(w, D) = B(e \in D) + B(f \in D) + B(g \in D) + B(h \in D)
  BY <1>9, CountFour
<1>12. \A D : SeqCount(w, Sends(D)) = B(Com(a, "plug", None) \in D) + B(Com(l, "own", a) \in D)
                                            + B(Com(a, "attach", None) \in D)
  <2> SUFFICES ASSUME NEW D PROVE SeqCount(w, Sends(D)) = B(Com(a, "plug", None) \in D) + B(Com(l, "own", a) \in D)
                                            + B(Com(a, "attach", None) \in D)
    OBVIOUS
  <2>1. SeqCount(w, Sends(D)) = B(e \in Sends(D)) + B(f \in Sends(D)) + B(g \in Sends(D)) + B(h \in Sends(D))
    BY <1>11
  <2> QED
    BY <1>2, <1>3, <1>4, <1>5, <2>1 DEF B
<1>13. Balanced(w)
  <2> SUFFICES ASSUME NEW x \in Object PROVE SeqCount(w, Ann(x)) = SeqCount(w, Sends(SeqTo(x)))
    BY DEF Balanced
  <2>1. SeqCount(w, Ann(x)) = B(e \in Ann(x)) + B(f \in Ann(x)) + B(g \in Ann(x)) + B(h \in Ann(x))
    BY <1>11
  <2>2. /\ Com(a, "plug", None) \in SeqTo(x) <=> x = a
        /\ Com(l, "own", a) \in SeqTo(x) <=> x = l
        /\ Com(a, "attach", None) \in SeqTo(x) <=> x = a
    BY <1>1, ComIn DEF SeqCommand
  <2> QED
    BY <1>2, <1>3, <1>4, <1>5, <1>12, <2>1, <2>2 DEF B
<1>14. DOMAIN w = {1, 2, 3, 4}
  BY <1>10
<1>15. NoDelete(w) /\ Only(w, {"plug", "own", "attach"}) /\ Calm(w)
  BY <1>2, <1>3, <1>4, <1>5, <1>10, <1>14 DEF NoDelete, Only, Calm
<1> QED
  BY <1>2, <1>3, <1>4, <1>5, <1>10, <1>12, <1>13, <1>15

\* An object is made in a turn that takes no command.
LEMMA BornOwn ==
    ASSUME IInv, NEW o \in Object, Alive(o), NEW c \in Object, Unborn(c), own' = Born(o, c), mailbox' = mailbox
    PROVE  /\ own' \in [Object -> OwnRecord] /\ own'[c] = NewBorn(o) /\ o # c /\ c # Socket /\ ~Made(c)
           /\ \A x \in Object : x # c => own'[x] = own[x]
           /\ own'[c].life = "live" /\ own'[c].owner = o
           /\ Processes(o)
<1>0. own \in [Object -> OwnRecord]
  BY DEF IInv, Typed
<1>1. ~Made(c) /\ c # Socket /\ own[c] = [own_t EXCEPT !.life = "none"]
  BY UnbornFacts
<1>2. o # c
  BY <1>1 DEF Alive, Made
<1>3. NewBorn(o) \in OwnRecord
  BY NewOwn DEF NewBorn
<1>4. own' = [own EXCEPT ![c] = NewBorn(o)]
  BY DEF Born, NewBorn
<1>5. own' \in [Object -> OwnRecord] /\ own'[c] = NewBorn(o) /\ \A x \in Object : x # c => own'[x] = own[x]
  <2> HIDE DEF NewBorn
  <2> QED
    BY <1>0, <1>3, <1>4
<1>6. /\ [own_t EXCEPT !.owner = o].sent_seqnum = 0 /\ [own_t EXCEPT !.owner = o].processed_seqnum = 0
      /\ [own_t EXCEPT !.owner = o].life = "live" /\ [own_t EXCEPT !.owner = o].owner = o
  BY NewOwn
<1>7. own[c].sent_seqnum = 0 /\ own[c].processed_seqnum = 0
  BY <1>1 DEF own_t
<1>8. own'[c] = [own_t EXCEPT !.owner = o]
  BY <1>5 DEF NewBorn
<1>9. own'[c].life = "live" /\ own'[c].owner = o /\ own'[c].sent_seqnum = 0 /\ own'[c].processed_seqnum = 0
  BY <1>6, <1>8
<1>10. \A x \in Object : own'[x].sent_seqnum = own[x].sent_seqnum /\ own'[x].processed_seqnum = own[x].processed_seqnum
  BY <1>5, <1>7, <1>9
<1> QED
  BY <1>1, <1>2, <1>5, <1>9, <1>10 DEF Processes

\* and they send a plug, an own and an attach.
LEMMA AcceptCounts ==
    ASSUME NEW l \in Object, NEW a \in Object, NEW w,
           \A D : SeqCount(w, Sends(D)) = B(Com(a, "plug", None) \in D) + B(Com(l, "own", a) \in D)
                                            + B(Com(a, "attach", None) \in D)
    PROVE  /\ Launches(w, a)
           /\ \A x \in Object : SeqCount(w, Sends(To(x, "attach"))) = B(x = a)
<1> SUFFICES ASSUME NEW x \in Object
             PROVE  /\ SeqCount(w, Sends(About(x, "own"))) = B(x = a)
                    /\ SeqCount(w, Sends(To(x, "plug"))) = B(x = a)
                    /\ SeqCount(w, Sends(To(x, "term"))) = 0
                    /\ SeqCount(w, Sends(To(x, "term_ack"))) = 0
                    /\ SeqCount(w, Sends(To(x, "attach"))) = B(x = a)
  BY DEF Launches
<1>2. "plug" \in CommandType /\ "own" \in CommandType /\ "attach" \in CommandType /\ None \in Arg /\ a \in Arg
  BY DEF CommandType, SeqCommand, Arg
<1>3. /\ \A y, ty : Com(a, "plug", None) \in To(y, ty) <=> y = a /\ ty = "plug"
      /\ \A y, ty : Com(l, "own", a) \in To(y, ty) <=> y = l /\ ty = "own"
      /\ \A y, ty : Com(a, "attach", None) \in To(y, ty) <=> y = a /\ ty = "attach"
      /\ \A y, ty : Com(a, "plug", None) \in About(y, ty) <=> y = None /\ ty = "plug"
      /\ \A y, ty : Com(l, "own", a) \in About(y, ty) <=> y = a /\ ty = "own"
      /\ \A y, ty : Com(a, "attach", None) \in About(y, ty) <=> y = None /\ ty = "attach"
  BY <1>2, ComIn
<1> QED
  BY <1>3 DEF B

\* An accepted connection preserves the invariant.
LEMMA InEventStep ==
    ASSUME IInv, NEW l \in Listener, NEW a \in Accepted, in_event(l, a)
    PROVE  IInv'
<1> SUFFICES ASSUME NEW w, w = Accepts(l, a) PROVE IInv'
  OBVIOUS
<1>0. /\ Typed /\ Links /\ Pipes /\ QType /\ failed = {} /\ own \in [Object -> OwnRecord]
  BY DEF IInv, Typed
<1>1. /\ l \in polled /\ Idle(Tid[l]) /\ Unborn(a) /\ own' = Born(l, a) /\ Acts(l, w)
      /\ UNCHANGED <<polled, engine, pending, pipe, pstate, psession, endpoints, closed, immediate, failed>>
  BY DEF in_event, lvars, evars, svars, Accepts
<1>2. /\ l \in Object /\ a \in Object /\ a \in Session /\ Alive(l)
  BY <1>0, <1>1, SocketIn DEF Links
<1>3. mailbox' = mailbox
  BY <1>1 DEF Acts
<1>4. /\ own' \in [Object -> OwnRecord] /\ own'[a] = NewBorn(l) /\ l # a /\ a # Socket /\ ~Made(a)
      /\ (\A x \in Object : x # a => own'[x] = own[x])
      /\ own'[a].life = "live" /\ own'[a].owner = l
      /\ Processes(l)
  BY <1>1, <1>2, <1>3, BornOwn
<1>5. /\ w \in Seq(Work) /\ NoDelete(w) /\ Only(w, {"plug", "own", "attach"}) /\ Balanced(w) /\ Calm(w)
      /\ DOMAIN w = 1..4 /\ w[1].op = "inc" /\ w[1].to = a
      /\ w[2].op = "send" /\ w[2].to = a /\ w[2].type = "plug" /\ w[2].arg = None /\ w[2].inc = 1
      /\ w[3].op = "send" /\ w[3].to = l /\ w[3].type = "own" /\ w[3].arg = a /\ w[3].inc = 1
      /\ w[4].op = "send" /\ w[4].to = a /\ w[4].type = "attach" /\ w[4].arg = None /\ w[4].inc = 0
      /\ \A D : SeqCount(w, Sends(D)) = B(Com(a, "plug", None) \in D) + B(Com(l, "own", a) \in D)
                                            + B(Com(a, "attach", None) \in D)
  BY <1>2, <1>4, AcceptFacts
<1>6. Turn(l, w)
  BY <1>0, <1>1, <1>2, <1>5, EventTurn
<1>7. Alive(l)' /\ Alive(a)'
  <2>1. ~Going(a) /\ ~Going(l) /\ own'[l].life = "live"
    BY <1>1, <1>2, <1>4, UnbornFacts DEF Alive
  <2> QED
    BY <1>2, <1>4, <1>6, <2>1, TurnAlive
<1>8. StepsOK(w, Tid[l])'
  <2>1. StepOK(w, 1, Tid[l])'
    <3>1. Keeps(w, Tid[l])'
      BY <1>5 DEF Keeps
    <3>2. \E j \in DOMAIN w : w[j].op = "send" /\ w[j].to = w[1].to /\ w[j].type \in SeqCommand /\ w[j].inc = 0
      BY <1>5 DEF SeqCommand
    <3>3. IncOK(w, 1, Tid[l])'
      BY <1>5, <1>7, <3>1, <3>2 DEF IncOK
    <3> QED
      BY <1>5, <3>3 DEF StepOK
  <2>2. StepOK(w, 2, Tid[l])'
    <3> SUFFICES ASSUME NEW st, st = w[2] PROVE SendOK(w, 2, Tid[l])'
      BY <1>5 DEF StepOK
    <3>1. CommandOK(Com(st.to, st.type, st.arg), Tid[st.to])'
      BY <1>2, <1>4, <1>5, <1>7 DEF CommandOK, Com
    <3>2. 3 \in DOMAIN w /\ 2 + 1 = 3
      BY <1>5
    <3> QED
      BY <1>5, <3>1, <3>2 DEF SendOK
  <2>3. StepOK(w, 3, Tid[l])'
    <3> SUFFICES ASSUME NEW st, st = w[3] PROVE SendOK(w, 3, Tid[l])'
      BY <1>5 DEF StepOK
    <3>1. CommandOK(Com(st.to, st.type, st.arg), Tid[st.to])'
      BY <1>2, <1>4, <1>5, <1>7 DEF CommandOK, Com, Made
    <3> QED
      BY <1>5, <3>1 DEF SendOK
  <2>4. StepOK(w, 4, Tid[l])'
    <3> SUFFICES ASSUME NEW st, st = w[4] PROVE SendOK(w, 4, Tid[l])'
      BY <1>5 DEF StepOK
    <3>1. CommandOK(Com(st.to, st.type, st.arg), Tid[st.to])'
      BY <1>2, <1>4, <1>5, <1>7 DEF CommandOK, Com
    <3> QED
      BY <1>5, <3>1 DEF SendOK
  <2>5. DOMAIN w = {1, 2, 3, 4}
    BY <1>5
  <2> QED
    BY <2>1, <2>2, <2>3, <2>4, <2>5 DEF StepsOK
<1>9. Launches(w, a) /\ (\A x \in Object : SeqCount(w, Sends(To(x, "attach"))) = B(x = a))
  BY <1>2, <1>5, AcceptCounts
<1>10. Counted(l, a, 0)
  <2>1. PlugTaking(l, 0)
    BY <1>3 DEF PlugTaking
  <2> QED
    BY <1>0, <1>2, <1>6, <1>9, <2>1, LaunchCounts
<1>11. /\ \A x \in Object : Owns(x)' = Owns(x) + B(x = a)
       /\ \A x \in Object : Plugs(x)' = (Plugs(x) - (IF x = l THEN 0 ELSE 0)) + B(x = a)
       /\ \A x \in Object : Terms(x)' = Terms(x) /\ Acks(x)' = Acks(x)
  BY <1>10 DEF Counted
<1>12. \A x \in Object : Attaches(x)' = Attaches(x) + B(x = a)
  <2> SUFFICES ASSUME NEW x \in Object PROVE Attaches(x)' = Attaches(x) + B(x = a)
    OBVIOUS
  <2>1. Flight(To(x, "attach"))' = Flight(To(x, "attach")) + SeqCount(w, Sends(To(x, "attach")))
    BY <1>3, <1>6, FreshFlight
  <2> QED
    BY <1>9, <2>1 DEF Attaches
<1>13. pipes' = pipes /\ \A y, P : OtherPipes(y, P)' = OtherPipes(y, P)
  BY <1>1 DEF pipes, OtherPipes
<1>14. l \in OwnersOf(a)
  BY OwnAssumption DEF OwnersOf, Session
<1>15. CanGo(own'[l]) => CanGo(own[l])
  BY <1>2, <1>4
<1>16. InOrder(w)
  BY <1>5, CalmInOrder
<1>17. BirthHyp(l, a, w, 0)
  BY <1>1, <1>2, <1>4, <1>5, <1>6, <1>8, <1>11, <1>13, <1>14, <1>15, <1>16 DEF BirthHyp
<1>18. /\ QType' /\ Seqnums' /\ Commands' /\ Todo' /\ Order' /\ Requests'
  BY <1>17, BirthBasics
<1>19. Tree' /\ Children' /\ Awaited' /\ Gone' /\ Checked' /\ PlugFirst'
  BY <1>17, BirthRest
<1>20. Links'
  <2>1. /\ polled' \subseteq polled /\ engine' \subseteq engine
        /\ (\A y \in Session : y # a => OtherPipes(y, {})' = OtherPipes(y, {}))
        /\ psession' \in [Pipe -> Session \cup {None}]
        /\ (\A p \in Pipe : psession'[p] # psession[p] => psession'[p] = a)
        /\ (closed => \A p \in Pipe : pstate'[<<p, "socket">>] \notin {"active", "waiting_for_delimiter"})
    BY <1>0, <1>1, <1>13 DEF Links, Typed
  <2>2. \A y \in Session : pipe'[y] # None =>
              psession'[pipe'[y]] = y /\ pstate'[<<pipe'[y], "session">>] \notin {"none", "gone"}
    BY <1>0, <1>1 DEF Links
  <2>3. \A e \in endpoints' : e[2] # None => psession'[e[2]] # None
    BY <1>0, <1>1 DEF Links
  <2> QED
    BY <1>17, <2>1, <2>2, <2>3, BirthLinks
<1>21. Pipes'
  <2> DEFINE T == {"plug", "attach", "term", "term_ack", "own"}
  <2>1. Only(w, T)
    BY <1>5 DEF Only
  <2>2. SameCounts(T)
    <3> HIDE DEF T
    <3> QED
      BY <1>3, <1>6, <2>1, QuietCounts
  <2> QED
    BY <1>0, <1>1, <2>2, PipesFrame
<1>22. Engines'
  <2>1. a \notin Connected /\ a \notin Connecter
    BY OwnAssumption DEF Session
  <2>2. Attaches(a) = 0
    BY <1>1, <1>2, UnbornFacts
  <2>3. Attaches(a)' <= 1
    BY <1>2, <1>12, <2>2 DEF B
  <2>4. \A x \in Object : x # a => Attaches(x)' = Attaches(x)
    <3>1. \A x \in Object : Attaches(x) \in Nat
      BY <1>0, CountsType
    <3> QED
      BY <1>12, <3>1 DEF B
  <2> QED
    BY <1>1, <1>17, <2>1, <2>3, <2>4, BirthEngines
<1>23. Typed'
  BY <1>0, <1>1, <1>4, <1>18 DEF Typed
<1> QED
  BY <1>0, <1>1, <1>18, <1>19, <1>20, <1>21, <1>22, <1>23 DEF IInv

\* What both ways of adding an endpoint have in common.
EndpointHyp(c, w) ==
    /\ c \in Listener \cup Connected /\ Unborn(c) /\ ~closed /\ Idle(Tid[Socket]) /\ own' = Born(Socket, c)
    /\ w = launch_child(Socket, c) /\ Acts(Socket, w)
    /\ UNCHANGED <<polled, engine, pending, closed, immediate, failed>>
    /\ \A p \in Pipe : psession[p] # None => psession'[p] = psession[p]

\* A new endpoint is a birth under the socket,
LEMMA EndpointBirth ==
    ASSUME IInv, NEW c, NEW w, EndpointHyp(c, w)
    PROVE  BirthHyp(Socket, c, w, 0) /\ mailbox' = mailbox /\ Turn(Socket, w) /\ Only(w, {"plug", "own"})
           /\ own' \in [Object -> OwnRecord]
<1>0. /\ Typed /\ Tree /\ Gone /\ QType /\ own \in [Object -> OwnRecord]
  BY DEF IInv, Typed
<1>1. /\ c \in Listener \cup Connected /\ Unborn(c) /\ ~closed /\ Idle(Tid[Socket]) /\ own' = Born(Socket, c)
      /\ w = launch_child(Socket, c) /\ Acts(Socket, w)
      /\ UNCHANGED <<polled, engine, pending, closed, immediate, failed>>
      /\ (\A p \in Pipe : psession[p] # None => psession'[p] = psession[p])
  BY DEF EndpointHyp
<1>2. c \in Object /\ Socket \in Object
  BY <1>1, SocketIn
<1>3. Alive(Socket)
  BY <1>0, <1>1, <1>2 DEF Tree, Gone, GoneOK
<1>4. mailbox' = mailbox
  BY <1>1 DEF Acts
<1>5. /\ own' \in [Object -> OwnRecord] /\ own'[c] = NewBorn(Socket) /\ Socket # c /\ c # Socket /\ ~Made(c)
      /\ (\A x \in Object : x # c => own'[x] = own[x])
      /\ own'[c].life = "live" /\ own'[c].owner = Socket
      /\ Processes(Socket)
  BY <1>1, <1>2, <1>3, <1>4, BornOwn
<1>6. /\ w \in Seq(Work) /\ NoDelete(w) /\ Only(w, {"plug", "own"}) /\ Balanced(w) /\ Calm(w)
  BY <1>1, <1>2, LaunchFacts
<1>7. Turn(Socket, w)
  BY <1>0, <1>1, <1>2, <1>6, EventTurn
<1>8. Alive(Socket)' /\ Alive(c)'
  <2>1. ~Going(c) /\ ~Going(Socket) /\ own'[Socket].life = "live"
    BY <1>1, <1>2, <1>3, <1>5, UnbornFacts DEF Alive
  <2> QED
    BY <1>2, <1>5, <1>7, <2>1, TurnAlive
<1>9. StepsOK(w, Tid[Socket])'
  BY <1>1, <1>2, <1>5, <1>8, LaunchSteps
<1>10. Launches(w, c)
  BY <1>1, <1>2, LaunchesLaunch
<1>11. Counted(Socket, c, 0)
  <2>1. PlugTaking(Socket, 0)
    BY <1>4 DEF PlugTaking
  <2> QED
    BY <1>0, <1>2, <1>7, <1>10, <2>1, LaunchCounts
<1>12. /\ \A x \in Object : Owns(x)' = Owns(x) + B(x = c)
       /\ \A x \in Object : Plugs(x)' = (Plugs(x) - (IF x = Socket THEN 0 ELSE 0)) + B(x = c)
       /\ \A x \in Object : Terms(x)' = Terms(x) /\ Acks(x)' = Acks(x)
  BY <1>11 DEF Counted
<1>13. Socket \in OwnersOf(c)
  BY <1>1 DEF OwnersOf
<1>14. CanGo(own'[Socket]) => CanGo(own[Socket])
  BY <1>2, <1>5
<1>15. InOrder(w)
  BY <1>6, CalmInOrder
<1>16. BirthHyp(Socket, c, w, 0)
  BY <1>1, <1>2, <1>3, <1>5, <1>6, <1>7, <1>9, <1>12, <1>13, <1>14, <1>15 DEF BirthHyp
<1> QED
  BY <1>4, <1>5, <1>6, <1>7, <1>16

\* Everything but the pipes.
EndpointLinks ==
    /\ psession' \in [Pipe -> Session \cup {None}] /\ pipe' \in [Session -> Pipe \cup {None}]
    /\ pstate' \in [Pipe \X {"socket", "session"} -> PState]
    /\ endpoints' \subseteq (Listener \cup Connected) \X (Pipe \cup {None})
\* which leaves the links and the pipes to be shown.
LEMMA EndpointRest ==
    ASSUME IInv, NEW c, NEW w, EndpointHyp(c, w), EndpointLinks, Links'
    PROVE  Pipes' => IInv'
<1>0. /\ Typed /\ Links /\ QType /\ failed = {}
  BY DEF IInv, Typed
<1>1. /\ c \in Listener \cup Connected /\ Unborn(c) /\ ~closed
      /\ UNCHANGED <<polled, engine, pending, closed, immediate, failed>>
  BY DEF EndpointHyp
<1>2. c \in Object /\ Socket \in Object
  BY <1>1, SocketIn
<1>3. BirthHyp(Socket, c, w, 0) /\ mailbox' = mailbox /\ Turn(Socket, w) /\ Only(w, {"plug", "own"})
      /\ own' \in [Object -> OwnRecord]
  BY EndpointBirth
<1>18. /\ QType' /\ Seqnums' /\ Commands' /\ Todo' /\ Order' /\ Requests'
  BY <1>3, BirthBasics
<1>19. Tree' /\ Children' /\ Awaited' /\ Gone' /\ Checked' /\ PlugFirst'
  BY <1>3, BirthRest
<1>22. Engines'
  <2>1. c \notin Connecter
    BY <1>1, OwnAssumption DEF Session
  <2>2. Attaches(c) = 0
    BY <1>1, <1>2, UnbornFacts
  <2>4. \A x \in Object : Attaches(x)' = Attaches(x)
    <3> DEFINE T2 == {"plug", "own"}
    <3>1. Only(w, T2) /\ "attach" \notin T2
      BY <1>3
    <3> HIDE DEF T2
    <3>2. SameCounts(T2)
      BY <1>3, <3>1, QuietCounts
    <3> QED
      BY <3>1, <3>2 DEF SameCounts
  <2>5. Attaches(c)' = 0 /\ Attaches(c)' <= 1
    BY <1>2, <2>2, <2>4
  <2> QED
    BY <1>1, <1>3, <2>1, <2>4, <2>5, BirthEngines
<1>23. Typed'
  BY <1>0, <1>1, <1>3, <1>18 DEF Typed, EndpointLinks
<1> QED
  BY <1>0, <1>1, <1>18, <1>19, <1>22, <1>23 DEF IInv

\* An endpoint without a pipe.
LEMMA AddPlain ==
    ASSUME IInv, NEW c, add_endpoint(c), ~(c \in Connected /\ ~immediate)
    PROVE  IInv'
<1> SUFFICES ASSUME NEW w, w = launch_child(Socket, c) PROVE IInv'
  OBVIOUS
<1>0. /\ Typed /\ Links /\ Pipes /\ QType
  BY DEF IInv, Typed
<1>1. /\ c \in Listener \cup Connected /\ Unborn(c) /\ ~closed /\ Idle(Tid[Socket]) /\ own' = Born(Socket, c)
      /\ Acts(Socket, w) /\ endpoints' = endpoints \cup {<<c, None>>}
      /\ UNCHANGED <<polled, engine, pending, closed, immediate, failed, pipe, pstate, psession>>
  BY DEF add_endpoint, lvars, evars
<1>2. EndpointHyp(c, w)
  BY <1>1 DEF EndpointHyp
<1>3. BirthHyp(Socket, c, w, 0) /\ mailbox' = mailbox /\ Turn(Socket, w) /\ Only(w, {"plug", "own"})
  BY <1>2, EndpointBirth
<1>4. EndpointLinks
  BY <1>0, <1>1 DEF EndpointLinks, Typed
<1>13. \A y, P : OtherPipes(y, P)' = OtherPipes(y, P)
  BY <1>1 DEF OtherPipes
<1>20. Links'
  <2>1. /\ polled' \subseteq polled /\ engine' \subseteq engine
        /\ (\A y \in Session : y # c => OtherPipes(y, {})' = OtherPipes(y, {}))
        /\ psession' \in [Pipe -> Session \cup {None}]
        /\ (\A p \in Pipe : psession'[p] # psession[p] => psession'[p] = c)
        /\ (closed => \A p \in Pipe : pstate'[<<p, "socket">>] \notin {"active", "waiting_for_delimiter"})
    BY <1>0, <1>1, <1>13 DEF Links, Typed
  <2>2. \A y \in Session : pipe'[y] # None =>
              psession'[pipe'[y]] = y /\ pstate'[<<pipe'[y], "session">>] \notin {"none", "gone"}
    BY <1>0, <1>1 DEF Links
  <2>3. \A e \in endpoints' : e[2] # None => psession'[e[2]] # None
    BY <1>0, <1>1 DEF Links
  <2> QED
    BY <1>3, <2>1, <2>2, <2>3, BirthLinks
<1>21. Pipes'
  <2> DEFINE T == {"plug", "attach", "term", "term_ack", "own"}
  <2>1. Only(w, T)
    BY <1>3 DEF Only
  <2>2. SameCounts(T)
    <3> HIDE DEF T
    <3> QED
      BY <1>3, <2>1, QuietCounts
  <2> QED
    BY <1>0, <1>1, <2>2, PipesFrame
<1> QED
  BY <1>2, <1>4, <1>20, <1>21, EndpointRest

\* An endpoint of zmq_connect, with its pipe.
LEMMA AddPipe ==
    ASSUME IInv, NEW c, add_endpoint(c), c \in Connected, ~immediate
    PROVE  IInv'
<1> SUFFICES ASSUME NEW w, w = launch_child(Socket, c), NEW p, p = NewPipe PROVE IInv'
  OBVIOUS
<1>0. /\ Typed /\ Links /\ Pipes /\ QType
  BY DEF IInv, Typed
<1>1. /\ c \in Listener \cup Connected /\ Unborn(c) /\ ~closed /\ Idle(Tid[Socket]) /\ own' = Born(Socket, c)
      /\ Acts(Socket, w) /\ endpoints' = endpoints \cup {<<c, p>>} /\ FreePipe # {}
      /\ pipe' = [pipe EXCEPT ![c] = p] /\ psession' = [psession EXCEPT ![p] = c]
      /\ pstate' = [pstate EXCEPT ![<<p, "session">>] = "active", ![<<p, "socket">>] = "active"]
      /\ UNCHANGED <<polled, engine, pending, closed, immediate, failed>>
  BY DEF add_endpoint, lvars
<1>2. c \in Session /\ c \in Object /\ c # None
  BY SocketIn, OwnAssumption
<1>3. /\ p \in Pipe /\ psession[p] = None /\ pstate[<<p, "session">>] = "none" /\ pstate[<<p, "socket">>] = "none"
      /\ Binds(p) = 0 /\ Hiccups(p) = 0 /\ (\A x \in End : PT(p, x) = 0 /\ PA(p, x) = 0)
      /\ (\A y \in Session : pipe[y] # p)
  BY <1>1, FreeFacts
<1>5. /\ pipe' \in [Session -> Pipe \cup {None}] /\ psession' \in [Pipe -> Session \cup {None}]
      /\ psession'[p] = c /\ (\A q \in Pipe : q # p => psession'[q] = psession[q])
      /\ pipe'[c] = p /\ (\A y \in Session : y # c => pipe'[y] = pipe[y])
  BY <1>0, <1>1, <1>2, <1>3 DEF Typed
<1>6. /\ pstate' \in [Pipe \X {"socket", "session"} -> PState]
      /\ pstate'[<<p, "session">>] = "active" /\ pstate'[<<p, "socket">>] = "active"
      /\ \A q \in Pipe : q # p => \A y \in End : pstate'[<<q, y>>] = pstate[<<q, y>>]
  <2>1. pstate \in [Pipe \X {"socket", "session"} -> PState] /\ "active" \in PState
    BY <1>0 DEF Typed, PState
  <2> QED
    BY <1>1, <1>3, <2>1 DEF End
<1>7. \A q \in Pipe : psession[q] # None => psession'[q] = psession[q]
  BY <1>3, <1>5
<1>8. EndpointHyp(c, w)
  BY <1>1, <1>7 DEF EndpointHyp
<1>9. BirthHyp(Socket, c, w, 0) /\ mailbox' = mailbox /\ Turn(Socket, w) /\ Only(w, {"plug", "own"})
  BY <1>8, EndpointBirth
<1>10. EndpointLinks
  <2>1. endpoints' \subseteq (Listener \cup Connected) \X (Pipe \cup {None})
    BY <1>0, <1>1, <1>3 DEF Typed
  <2> QED
    BY <1>5, <1>6, <2>1 DEF EndpointLinks
<1>11. \A y \in Session : y # c => OtherPipes(y, {})' = OtherPipes(y, {})
  <2> SUFFICES ASSUME NEW y \in Session, y # c, NEW q \in Pipe
               PROVE  (psession'[q] = y /\ pstate'[<<q, "session">>] \notin {"none", "gone"})
                        <=> (psession[q] = y /\ pstate[<<q, "session">>] \notin {"none", "gone"})
    BY DEF OtherPipes
  <2>1. y # None
    BY OwnAssumption DEF Object
  <2>2. CASE q = p
    BY <1>3, <1>5, <2>1, <2>2
  <2>3. CASE q # p
    BY <1>5, <1>6, <2>3 DEF End
  <2> QED
    BY <2>2, <2>3
<1>12. Links'
  <2>1. /\ polled' \subseteq polled /\ engine' \subseteq engine /\ ~closed
        /\ psession' \in [Pipe -> Session \cup {None}]
        /\ (\A q \in Pipe : psession'[q] # psession[q] => psession'[q] = c)
    BY <1>1, <1>5
  <2>2. ASSUME NEW y \in Session, NEW q, q = pipe'[y], q # None
        PROVE  psession'[q] = y /\ pstate'[<<q, "session">>] \notin {"none", "gone"}
    <3>1. CASE y = c
      BY <1>5, <1>6, <2>2, <3>1
    <3>2. CASE y # c
      <4>1. q = pipe[y] /\ q \in Pipe /\ q # p
        BY <1>0, <1>3, <1>5, <2>2, <3>2 DEF Typed
      <4>2. psession[q] = y /\ pstate[<<q, "session">>] \notin {"none", "gone"}
        BY <1>0, <2>2, <4>1 DEF Links
      <4> QED
        BY <1>5, <1>6, <4>1, <4>2 DEF End
    <3> QED
      BY <3>1, <3>2
  <2>3. \A y \in Session : pipe'[y] # None =>
              psession'[pipe'[y]] = y /\ pstate'[<<pipe'[y], "session">>] \notin {"none", "gone"}
    BY <2>2
  <2>4. \A e \in endpoints' : e[2] # None => psession'[e[2]] # None
    <3> SUFFICES ASSUME NEW e \in endpoints', e[2] # None PROVE psession'[e[2]] # None
      OBVIOUS
    <3>1. CASE e \in endpoints
      <4>1. e[2] \in Pipe /\ psession[e[2]] # None
        BY <1>0, <3>1 DEF Links, Typed
      <4> QED
        BY <1>7, <4>1
    <3>2. CASE e = <<c, p>>
      BY <1>2, <1>5, <3>2
    <3> QED
      BY <1>1, <3>1, <3>2
  <2> QED
    BY <1>9, <1>11, <2>1, <2>3, <2>4, BirthLinks
<1>13. Pipes'
  <2> DEFINE T == {"plug", "own"}
  <2>1. Only(w, T) /\ "bind" \notin T /\ "hiccup" \notin T /\ "pipe_term" \notin T /\ "pipe_term_ack" \notin T
    BY <1>9
  <2> HIDE DEF T
  <2>2. SameCounts(T)
    BY <1>9, <2>1, QuietCounts
  <2>3. \A q \in Pipe : /\ Binds(q)' = Binds(q) /\ Hiccups(q)' = Hiccups(q)
                        /\ \A x : PT(q, x)' = PT(q, x) /\ PA(q, x)' = PA(q, x)
    BY <2>1, <2>2 DEF SameCounts
  <2> SUFFICES ASSUME NEW q \in Pipe PROVE PipeOK(q)'
    BY DEF Pipes
  <2>4. CASE q # p
    BY <1>0, <1>5, <1>6, <2>3, <2>4, OtherPipe DEF Pipes
  <2>5. CASE q = p
    <3>1. /\ Binds(p)' = 0 /\ Hiccups(p)' = 0 /\ PT(p, "socket")' = 0 /\ PT(p, "session")' = 0
          /\ PA(p, "socket")' = 0 /\ PA(p, "session")' = 0
      BY <1>3, <2>3 DEF End
    <3>2. psession'[p] # None
      BY <1>2, <1>5
    <3>3. PipeOK(p)'
      BY <1>6, <3>1, <3>2 DEF PipeOK, Joint
    <3> QED
      BY <2>5, <3>3
  <2> QED
    BY <2>4, <2>5
<1> QED
  BY <1>8, <1>10, <1>12, <1>13, EndpointRest

\* zmq_bind and zmq_connect preserve the invariant.
LEMMA AddEndpointStep ==
    ASSUME IInv, NEW c, add_endpoint(c)
    PROVE  IInv'
  BY AddPlain, AddPipe

\* Whoever lived lives on when an object is made.
LEMMA BornGrows ==
    ASSUME IInv, NEW o \in Object, Alive(o), NEW c \in Object, Unborn(c), own' = Born(o, c), mailbox' = mailbox,
           NEW steps, Turn(o, steps), \A p \in Pipe : psession[p] # None => psession'[p] = psession[p]
    PROVE  Grows /\ Alive(o)' /\ Alive(c)'
<1>1. /\ own'[c].life = "live" /\ o # c /\ ~Made(c) /\ \A x \in Object : x # c => own'[x] = own[x]
  BY BornOwn
<1>2. \A x \in Object : Alive(x)' <=> own'[x].life = "live" /\ ~Going(x)
  BY TurnAlive
<1>3. ~Going(c) /\ ~Alive(c)
  BY UnbornFacts
<1>4. Alive(c)' /\ \A x \in Object : x # c => (Alive(x)' <=> Alive(x))
  BY <1>1, <1>2, <1>3 DEF Alive
<1>5. \A x \in Object : Alive(x) => Alive(x)'
  BY <1>3, <1>4
<1>6. \A x \in Object : Made(x) => Made(x)' /\ own'[x].owner = own[x].owner /\ own'[x].life = own[x].life
  BY <1>1 DEF Made
<1> QED
  BY <1>1, <1>4, <1>5, <1>6 DEF Grows

\* What a session does about its pipe when it loses its connection.
Leave(s) == IF Drops(s) THEN GivesUp(pipe[s]) ELSE <<>>
\* The steps with which a session leaves its pipe are well formed,
LEMMA LeaveSteps ==
    ASSUME IInv, NEW s, s \in engine \cap Connected, NEW u, u = Leave(s)
    PROVE  /\ u \in Seq(Work) /\ NoDelete(u) /\ Plain(u) /\ NoInc(u) /\ NoCheck(u) /\ Only(u, PipeMove)
           /\ StepsOK(u, Tid[s]) /\ InOrder(u)
           /\ Drops(s) => \A p : p = pipe[s] => Leaves(u, p, "session", FALSE)
           /\ ~Drops(s) => u = <<>>
<1>1. /\ s \in Session /\ s \in Object /\ s # Socket
      /\ pipe[s] # None => pipe[s] \in Pipe /\ psession[pipe[s]] = s
  BY ReconnectFacts
<1>2. CASE ~Drops(s)
  <2>1. u = <<>>
    BY <1>2 DEF Leave
  <2> QED
    BY <1>2, <2>1, NoSteps
<1>3. CASE Drops(s)
  <2> SUFFICES ASSUME NEW p, p = pipe[s]
               PROVE  /\ u \in Seq(Work) /\ NoDelete(u) /\ Plain(u) /\ NoInc(u) /\ NoCheck(u) /\ Only(u, PipeMove)
                      /\ StepsOK(u, Tid[s]) /\ InOrder(u)
                      /\ Leaves(u, p, "session", FALSE)
    BY <1>3
  <2>1. p \in Pipe /\ psession[p] = s
    BY <1>1, <1>3 DEF Drops
  <2>2. u = GivesUp(p)
    BY <1>3 DEF Leave
  <2> QED
    BY <1>1, <2>1, <2>2, GivesUpSteps
<1> QED
  BY <1>2, <1>3

\* Steps of pipes, and then a launch.
AfterLeave(u, w, c) ==
    /\ w \in Seq(Work) /\ NoDelete(w) /\ Only(w, PipeMove \cup {"plug", "own"}) /\ Balanced(w) /\ InOrder(w)
    /\ Launches(w, c)
    /\ \A D : (\A m \in D : m.type \in PipeCommand) => SeqCount(w, Sends(D)) = SeqCount(u, Sends(D))

\* and a launch may follow them.
LEMMA LeaveLaunch ==
    ASSUME NEW o \in Object, NEW c \in Object, NEW u \in Seq(Work), NEW w, w = u \o launch_child(o, c),
           NoDelete(u), Plain(u), Only(u, PipeMove), InOrder(u)
    PROVE  AfterLeave(u, w, c)
<1> SUFFICES ASSUME NEW v, v = launch_child(o, c), w = u \o v
             PROVE  /\ w \in Seq(Work) /\ NoDelete(w) /\ Only(w, PipeMove \cup {"plug", "own"}) /\ Balanced(w) /\ InOrder(w)
                    /\ Launches(w, c)
                    /\ \A D : (\A m \in D : m.type \in PipeCommand) => SeqCount(w, Sends(D)) = SeqCount(u, Sends(D))
  BY DEF AfterLeave
<1>1. /\ v \in Seq(Work) /\ NoDelete(v) /\ Only(v, {"plug", "own"}) /\ Balanced(v) /\ Calm(v)
  BY LaunchFacts
<1>2. Launches(v, c)
  BY LaunchesLaunch
<1>3. Balanced(u)
  BY PlainBalanced
<1>4. u \o v \in Seq(Work) /\ Balanced(u \o v)
  BY <1>1, <1>3, BalancedConcat, ConcatForm
<1>5. NoDelete(u \o v) /\ \A T : Only(u, T) /\ Only(v, T) => Only(u \o v, T)
  <2>1. /\ NoDelete(u) /\ NoDelete(v) => NoDelete(u \o v)
        /\ \A T : Only(u, T) /\ Only(v, T) => Only(u \o v, T)
    BY <1>1, ConcatForm
  <2> QED
    BY <1>1, <2>1
<1>6. Only(u \o v, PipeMove \cup {"plug", "own"})
  <2>1. Only(u, PipeMove \cup {"plug", "own"}) /\ Only(v, PipeMove \cup {"plug", "own"})
    BY <1>1 DEF Only
  <2> DEFINE T == PipeMove \cup {"plug", "own"}
  <2>2. Only(u, T) /\ Only(v, T)
    BY <2>1
  <2> HIDE DEF T
  <2>3. Only(u \o v, T)
    BY <1>5, <2>2
  <2> QED
    BY <2>3 DEF T
<1>7. InOrder(u \o v)
  <2>1. \A i \in DOMAIN u : \A j \in DOMAIN v : u[i].op = "send" /\ v[j].op = "send" => Sorted(u[i], v[j])
    BY <1>1 DEF Only, Sorted, PipeCommand
  <2>2. InOrder(v)
    BY <1>1, CalmInOrder
  <2> QED
    BY <1>1, <2>1, <2>2, ConcatOrder
<1>8. \A D : SeqCount(u \o v, Sends(D)) = SeqCount(u, Sends(D)) + SeqCount(v, Sends(D))
  BY <1>1, CountConcat
<1>9. \A D : SeqCount(u, Sends(D)) \in Nat /\ SeqCount(v, Sends(D)) \in Nat
  BY <1>1, SeqCountType
<1>10. Launches(u \o v, c)
  <2>1. ASSUME NEW D, \A m \in D : m.type \notin PipeMove PROVE SeqCount(u \o v, Sends(D)) = SeqCount(v, Sends(D))
    <3>1. SeqCount(u, Sends(D)) = 0
      <4> DEFINE T == PipeMove
      <4>1. Only(u, T) /\ \A m \in D : m.type \notin T
        BY <2>1
      <4> HIDE DEF T
      <4> QED
        BY <4>1, QuietSteps
    <3> QED
      BY <1>8, <1>9, <3>1
  <2>2. ASSUME NEW x \in Object
        PROVE  /\ SeqCount(u \o v, Sends(About(x, "own"))) = SeqCount(v, Sends(About(x, "own")))
               /\ SeqCount(u \o v, Sends(To(x, "plug"))) = SeqCount(v, Sends(To(x, "plug")))
               /\ SeqCount(u \o v, Sends(To(x, "term"))) = SeqCount(v, Sends(To(x, "term")))
               /\ SeqCount(u \o v, Sends(To(x, "term_ack"))) = SeqCount(v, Sends(To(x, "term_ack")))
    <3>1. /\ \A m \in About(x, "own") : m.type \notin PipeMove
          /\ \A m \in To(x, "plug") : m.type \notin PipeMove
          /\ \A m \in To(x, "term") : m.type \notin PipeMove
          /\ \A m \in To(x, "term_ack") : m.type \notin PipeMove
      BY DEF About, To, PipeMove
    <3>2. SeqCount(u \o v, Sends(About(x, "own"))) = SeqCount(v, Sends(About(x, "own")))
      BY <2>1, <3>1
    <3>3. SeqCount(u \o v, Sends(To(x, "plug"))) = SeqCount(v, Sends(To(x, "plug")))
      BY <2>1, <3>1
    <3>4. SeqCount(u \o v, Sends(To(x, "term"))) = SeqCount(v, Sends(To(x, "term")))
      BY <2>1, <3>1
    <3>5. SeqCount(u \o v, Sends(To(x, "term_ack"))) = SeqCount(v, Sends(To(x, "term_ack")))
      BY <2>1, <3>1
    <3> QED
      BY <3>2, <3>3, <3>4, <3>5
  <2> QED
    BY <1>2, <2>2 DEF Launches
<1>11. ASSUME NEW D, \A m \in D : m.type \in PipeCommand PROVE SeqCount(u \o v, Sends(D)) = SeqCount(u, Sends(D))
  <2>1. SeqCount(v, Sends(D)) = 0
    <3> DEFINE T == {"plug", "own"}
    <3>1. Only(v, T) /\ \A m \in D : m.type \notin T
      BY <1>1, <1>11 DEF PipeCommand
    <3> HIDE DEF T
    <3> QED
      BY <1>1, <3>1, QuietSteps
  <2> QED
    BY <1>8, <1>9, <2>1
<1> QED
  BY <1>4, <1>5, <1>1, <1>6, <1>7, <1>10, <1>11

\* A list with more commands that are not about pipes leaves a pipe the same way.
LEMMA LeavesMore ==
    ASSUME NEW u, NEW w, NEW p, NEW x, NEW delay, Leaves(u, p, x, delay),
           \A D : (\A m \in D : m.type \in PipeCommand) => SeqCount(w, Sends(D)) = SeqCount(u, Sends(D))
    PROVE  Leaves(w, p, x, delay)
<1>1. ASSUME NEW q \in Pipe, NEW y \in End, NEW ty \in {"pipe_term", "pipe_term_ack"}
      PROVE  SeqCount(w, Sends(ToEnd(q, y, ty))) = SeqCount(u, Sends(ToEnd(q, y, ty)))
  <2>1. \A m \in ToEnd(q, y, ty) : m.type \in PipeCommand
    BY DEF ToEnd, PipeCommand
  <2> QED
    BY <2>1
<1>2. ASSUME NEW q \in Pipe, NEW ty \in {"bind", "hiccup"}
      PROVE  SeqCount(w, Sends(About(q, ty))) = SeqCount(u, Sends(About(q, ty)))
  <2>1. \A m \in About(q, ty) : m.type \in PipeCommand
    BY DEF About, PipeCommand
  <2> QED
    BY <2>1
<1>3. \A q \in Pipe : /\ SeqCount(w, Sends(About(q, "bind"))) = SeqCount(u, Sends(About(q, "bind")))
                      /\ SeqCount(w, Sends(About(q, "hiccup"))) = SeqCount(u, Sends(About(q, "hiccup")))
  BY <1>2
<1> QED
  BY <1>1, <1>3 DEF Leaves

\* A session that lost its connection starts connecting again.
LEMMA ReconnectStep ==
    ASSUME IInv, NEW s, CanConnect(s), reconnect(s, TRUE)
    PROVE  IInv'
<1> SUFFICES ASSUME NEW c, c = NewConnecter(s), NEW u, u = Leave(s), NEW v, v = launch_child(s, c), NEW w, w = u \o v,
                    NEW p, p = pipe[s]
             PROVE  IInv'
  OBVIOUS
<1>0. /\ Typed /\ Links /\ Pipes /\ QType /\ failed = {} /\ Engines
  BY DEF IInv, Typed
<1>1. /\ s \in engine \cap Connected /\ Idle(Tid[s])
      /\ UNCHANGED <<polled, pending, endpoints, closed, immediate, psession, failed>> /\ engine' = engine \ {s}
      /\ own' = Born(s, c) /\ Acts(s, w)
      /\ pipe' = [pipe EXCEPT ![s] = IF Drops(s) THEN None ELSE @]
      /\ (Drops(s) => EndTerminates(p, "session", FALSE))
      /\ (~Drops(s) => pstate' = pstate)
  BY DEF reconnect, svars, Drops, EndTerminates, GivesUp, Hiccup, Leave
<1>2. /\ s \in Session /\ s \in Object /\ s # Socket /\ Alive(s)
      /\ p # None => p \in Pipe /\ psession[p] = s /\ pstate[<<p, "session">>] \notin {"none", "gone"}
  BY <1>1, ReconnectFacts
<1>3. c \in Connecter /\ c \in Object /\ Unborn(c)
  BY ConnecterFacts
<1>4. mailbox' = mailbox
  BY <1>1 DEF Acts
<1>5. /\ own' \in [Object -> OwnRecord] /\ own'[c] = NewBorn(s) /\ s # c /\ c # Socket /\ ~Made(c)
      /\ (\A x \in Object : x # c => own'[x] = own[x])
      /\ own'[c].life = "live" /\ own'[c].owner = s
      /\ Processes(s)
  BY <1>1, <1>2, <1>3, <1>4, BornOwn
<1>6. /\ u \in Seq(Work) /\ NoDelete(u) /\ Plain(u) /\ NoInc(u) /\ NoCheck(u) /\ Only(u, PipeMove)
      /\ StepsOK(u, Tid[s]) /\ InOrder(u)
      /\ (Drops(s) => Leaves(u, p, "session", FALSE))
      /\ (~Drops(s) => u = <<>>)
  BY <1>1, LeaveSteps
<1>7. /\ w \in Seq(Work) /\ NoDelete(w) /\ Only(w, PipeMove \cup {"plug", "own"}) /\ Balanced(w) /\ InOrder(w)
      /\ Launches(w, c)
      /\ \A D : (\A m \in D : m.type \in PipeCommand) => SeqCount(w, Sends(D)) = SeqCount(u, Sends(D))
  <2>1. w = u \o launch_child(s, c)
    OBVIOUS
  <2>2. u \in Seq(Work) /\ NoDelete(u) /\ Plain(u) /\ Only(u, PipeMove) /\ InOrder(u)
    BY <1>6, Zenon
  <2>3. s \in Object /\ c \in Object
    BY <1>2, <1>3
  <2> QED
    <3>1. AfterLeave(u, w, c)
      BY <2>1, <2>2, <2>3, LeaveLaunch, Zenon
    <3> QED
      BY <3>1, Zenon DEF AfterLeave
<1>8. Turn(s, w)
  BY <1>0, <1>1, <1>2, <1>7, EventTurn
<1>9. Grows /\ Alive(s)' /\ Alive(c)'
  <2>1. \A q \in Pipe : psession[q] # None => psession'[q] = psession[q]
    BY <1>1
  <2> QED
    BY <1>1, <1>2, <1>3, <1>4, <1>8, <2>1, BornGrows
<1>10. StepsOK(w, Tid[s])'
  <2>1. StepsOK(v, Tid[s])'
    BY <1>2, <1>3, <1>5, <1>9, LaunchSteps
  <2>2. StepsOK(u, Tid[s])'
    BY <1>6, <1>9, StepsFrame
  <2>3. v \in Seq(Work) /\ NoInc(v)
    BY <1>2, <1>3, LaunchFacts
  <2>4. StepsOK(u \o v, Tid[s])'
    BY <1>6, <2>1, <2>2, <2>3, StepsConcatNext
  <2> QED
    BY <2>4
<1>11. Counted(s, c, 0)
  <2>1. PlugTaking(s, 0)
    BY <1>4 DEF PlugTaking
  <2> QED
    BY <1>0, <1>3, <1>7, <1>8, <2>1, LaunchCounts
<1>12. /\ \A x \in Object : Owns(x)' = Owns(x) + B(x = c)
       /\ \A x \in Object : Plugs(x)' = (Plugs(x) - (IF x = s THEN 0 ELSE 0)) + B(x = c)
       /\ \A x \in Object : Terms(x)' = Terms(x) /\ Acks(x)' = Acks(x)
  BY <1>11 DEF Counted
<1>13. /\ SameEnds /\ pstate' \in [Pipe \X {"socket", "session"} -> PState]
       /\ (closed => \A q \in Pipe : pstate'[<<q, "socket">>] \notin {"active", "waiting_for_delimiter"})
       /\ (Drops(s) => /\ pstate'[<<p, "session">>] = PTerminated(pstate[<<p, "session">>], FALSE)
                       /\ \A q \in Pipe : \A y \in End : (q # p \/ y # "session") => pstate'[<<q, y>>] = pstate[<<q, y>>])
  <2>1. CASE Drops(s)
    <3>1. p \in Pipe /\ "session" \in End /\ FALSE \in BOOLEAN /\ EndTerminates(p, "session", FALSE)
      BY <1>1, <1>2, <2>1 DEF Drops, End
    <3> QED
      BY <1>0, <2>1, <3>1, TerminateEnds
  <2>2. CASE ~Drops(s)
    <3>1. pstate' = pstate
      BY <1>1, <2>2
    <3>2. SameEnds
      BY <3>1 DEF SameEnds
    <3> QED
      BY <1>0, <2>2, <3>1, <3>2 DEF Typed, Links
  <2> QED
    BY <2>1, <2>2
<1>14. pipes' = pipes /\ \A y, P : OtherPipes(y, P)' = OtherPipes(y, P)
  BY <1>1, <1>13, PipesSame
<1>15. s \in OwnersOf(c)
  BY <1>1, <1>3, OwnAssumption DEF OwnersOf, Session
<1>16. CanGo(own'[s]) => CanGo(own[s])
  BY <1>2, <1>5
<1>17. BirthHyp(s, c, w, 0)
  BY <1>1, <1>2, <1>3, <1>5, <1>7, <1>8, <1>10, <1>12, <1>14, <1>15, <1>16 DEF BirthHyp
<1>18. /\ QType' /\ Seqnums' /\ Commands' /\ Todo' /\ Order' /\ Requests'
  BY <1>17, BirthBasics
<1>19. Tree' /\ Children' /\ Awaited' /\ Gone' /\ Checked' /\ PlugFirst'
  BY <1>17, BirthRest
<1>20. pipe' \in [Session -> Pipe \cup {None}] /\ \A y \in Session : pipe'[y] \in {None, pipe[y]}
  BY <1>0, <1>1, <1>2 DEF Typed
<1>21. Links'
  <2>1. /\ polled' \subseteq polled /\ engine' \subseteq engine
        /\ (\A y \in Session : y # c => OtherPipes(y, {})' = OtherPipes(y, {}))
        /\ psession' \in [Pipe -> Session \cup {None}]
        /\ (\A q \in Pipe : psession'[q] # psession[q] => psession'[q] = c)
    BY <1>0, <1>1, <1>14 DEF Typed
  <2>2. ASSUME NEW y \in Session, NEW q, q = pipe'[y], q # None
        PROVE  psession'[q] = y /\ pstate'[<<q, "session">>] \notin {"none", "gone"}
    <3>1. q = pipe[y] /\ q \in Pipe
      BY <1>0, <1>20, <2>2 DEF Typed
    <3>2. psession[q] = y /\ pstate[<<q, "session">>] \notin {"none", "gone"}
      BY <1>0, <2>2, <3>1 DEF Links
    <3> QED
      BY <1>1, <1>13, <3>1, <3>2 DEF SameEnds
  <2>3. \A y \in Session : pipe'[y] # None =>
              psession'[pipe'[y]] = y /\ pstate'[<<pipe'[y], "session">>] \notin {"none", "gone"}
    BY <2>2
  <2>4. \A e \in endpoints' : e[2] # None => psession'[e[2]] # None
    BY <1>0, <1>1 DEF Links
  <2> QED
    BY <1>13, <1>17, <2>1, <2>3, <2>4, BirthLinks
<1>22. Pipes'
  <2>1. CASE Drops(s)
    <3>1. p \in Pipe /\ "session" \in End /\ FALSE \in BOOLEAN
      BY <1>2, <2>1 DEF Drops, End
    <3>2. Leaves(w, p, "session", FALSE)
      BY <1>6, <1>7, <2>1, LeavesMore
    <3> QED
      BY <1>0, <1>1, <1>4, <1>8, <1>13, <2>1, <3>1, <3>2, TerminateTurn
  <2>2. CASE ~Drops(s)
    <3>1. w = v
      <4>1. v \in Seq(Work) /\ u = <<>>
        BY <1>2, <1>3, <1>6, <2>2, LaunchFacts
      <4> QED
        BY <4>1
    <3>2. Only(w, {"plug", "own"})
      BY <1>2, <1>3, <3>1, LaunchFacts
    <3> DEFINE T == {"plug", "attach", "term", "term_ack", "own"}
    <3>3. Only(w, T)
      BY <3>2 DEF Only
    <3>4. SameCounts(T)
      <4> HIDE DEF T
      <4> QED
        BY <1>4, <1>8, <3>3, QuietCounts
    <3> QED
      BY <1>0, <1>1, <2>2, <3>4, PipesFrame
  <2> QED
    BY <2>1, <2>2
<1>23. Engines'
  <2>1. \A x \in Object : Attaches(x)' = Attaches(x)
    <3> DEFINE T2 == PipeMove \cup {"plug", "own"}
    <3>1. Only(w, T2) /\ "attach" \notin T2
      BY <1>7 DEF PipeMove
    <3> HIDE DEF T2
    <3>2. SameCounts(T2)
      BY <1>4, <1>8, <3>1, QuietCounts
    <3> QED
      BY <3>1, <3>2 DEF SameCounts
  <2>2. Attaches(c)' <= 1 /\ (c \in Connected => Attaches(c)' = 0)
    <3>1. Attaches(c) = 0
      BY <1>3, UnbornFacts
    <3> QED
      BY <1>3, <2>1, <3>1
  <2>3. Plugs(s) = 0 /\ Attaches(s) = 0 /\ \A d \in Connecter : Active(d) => own[d].owner # s
    <3>1. Plugs(s) \in Nat /\ Attaches(s) \in Nat /\ B(s \in engine) = 1
      BY <1>0, <1>1, CountsType DEF B
    <3>2. Plugs(s) + Attaches(s) + B(s \in engine) <= 1
      BY <1>0, <1>1, <1>2 DEF Engines
    <3>3. Plugs(s) = 0 /\ Attaches(s) = 0
      BY <3>1, <3>2
    <3> QED
      BY <1>0, <1>1, <3>3 DEF Engines
  <2>4. Plugs(s)' = 0
    BY <1>2, <1>5, <1>12, <2>3 DEF B
  <2>5. c \in Connecter => /\ Plugs(s)' = 0 /\ Attaches(s) = 0 /\ s \notin engine'
                           /\ \A d \in Connecter : Active(d) => own[d].owner # s
    BY <1>1, <2>3, <2>4
  <2>6. polled' \subseteq polled /\ engine' \subseteq engine /\ \A x \in Object : x # c => Attaches(x)' = Attaches(x)
    BY <1>1, <2>1
  <2> QED
    BY <1>17, <2>2, <2>5, <2>6, BirthEngines
<1>24. Typed'
  <2>1. engine' \subseteq Session
    BY <1>0, <1>1 DEF Typed
  <2> QED
    BY <1>0, <1>1, <1>5, <1>13, <1>18, <1>20, <2>1 DEF Typed
<1> QED
  BY <1>0, <1>1, <1>18, <1>19, <1>21, <1>22, <1>23, <1>24 DEF IInv
-----------------------------------------------------------------------------
(* The socket is closed *)

\* The pipes whose ends at the socket have something to send when it is closed.
Parts == {p \in pipes : pstate[<<p, "socket">>] \in {"active", "waiting_for_delimiter"}}
PartType(p) == IF pstate[<<p, "socket">>] = "active" THEN "pipe_term" ELSE "pipe_term_ack"
PartStep(p) == send_command(psession[p], PartType(p), p)
Reaping == UNION {Range(pipe_terminate(p, "socket", FALSE)) : p \in pipes}

\* Closing the socket tells the other end of its active pipes,
LEMMA PartForm ==
    ASSUME NEW p \in pipes
    PROVE  /\ p \in Parts => pipe_terminate(p, "socket", FALSE) = <<PartStep(p)>>
           /\ p \notin Parts => pipe_terminate(p, "socket", FALSE) = <<>>
<1>1. \A ty : Tell(p, "socket", ty) = <<send_command(psession[p], ty, p)>>
  BY DEF Tell, Sink, Peer
<1> QED
  BY <1>1 DEF pipe_terminate, Parts, PartStep, PartType

\* one command each.
LEMMA ReapSet == Reaping = {PartStep(p) : p \in Parts}
<1>1. \A a : Range(<<a>>) = {a}
  BY DEF Range
<1>2. Range(<<>>) = {}
  BY DEF Range
<1>3. \A p \in pipes : p \in Parts => Range(pipe_terminate(p, "socket", FALSE)) = {PartStep(p)}
  <2> SUFFICES ASSUME NEW p \in pipes, p \in Parts
               PROVE  Range(pipe_terminate(p, "socket", FALSE)) = {PartStep(p)}
    OBVIOUS
  <2>1. pipe_terminate(p, "socket", FALSE) = <<PartStep(p)>>
    BY PartForm
  <2> QED
    BY <1>1, <2>1
<1>4. \A p \in pipes : p \notin Parts => Range(pipe_terminate(p, "socket", FALSE)) = {}
  BY <1>2, PartForm
<1>5. Parts \subseteq pipes
  BY DEF Parts
<1>6. ASSUME NEW e \in Reaping PROVE e \in {PartStep(p) : p \in Parts}
  <2>1. PICK p \in pipes : e \in Range(pipe_terminate(p, "socket", FALSE))
    BY <1>6 DEF Reaping
  <2>2. p \in Parts
    BY <1>4, <2>1
  <2> QED
    BY <1>3, <2>1, <2>2
<1>7. ASSUME NEW p \in Parts PROVE PartStep(p) \in Reaping
  BY <1>3, <1>5, <1>7 DEF Reaping
<1> QED
  BY <1>6, <1>7

\* One of these commands.
LEMMA PartFacts ==
    ASSUME IInv, NEW p \in Parts, NEW e, e = PartStep(p)
    PROVE  /\ p \in Pipe /\ e \in Work /\ e.op = "send" /\ e.to = psession[p] /\ e.arg = p /\ e.inc = 0
           /\ e.type = PartType(p) /\ e.type \in {"pipe_term", "pipe_term_ack"}
           /\ psession[p] \in Session /\ psession[p] # Socket
           /\ SendOK(<<e>>, 1, Tid[Socket])
           /\ \A j \in DOMAIN mailbox[Tid[e.to]] : Sorted(mailbox[Tid[e.to]][j], e)
           /\ \A D : e \in Sends(D) <=> Com(psession[p], PartType(p), p) \in D
<1>1. p \in Pipe /\ p \in pipes /\ "socket" \in End /\ FALSE \in BOOLEAN /\ Sink(p, "socket") = Socket
      /\ pstate[<<p, "socket">>] \notin {"none", "gone"}
  BY DEF Parts, pipes, End, Sink
<1>2. psession[p] \in Session
  BY <1>1, EndAlive
<1>3. psession[p] \in Object /\ psession[p] # Socket /\ PartType(p) \in {"pipe_term", "pipe_term_ack"}
      /\ PartType(p) \in CommandType /\ p \in Arg
  BY <1>1, <1>2, SocketIn, OwnAssumption, PipeTypes DEF PartType, CommandType, Arg, Session
<1>4. /\ e \in Work /\ e = [op |-> "send", to |-> psession[p], type |-> PartType(p), arg |-> p, inc |-> 0]
      /\ \A D : e \in Sends(D) <=> Com(psession[p], PartType(p), p) \in D
  BY <1>3, StepFacts DEF PartStep
<1>5. pipe_terminate(p, "socket", FALSE) = <<e>>
  BY <1>1, PartForm
<1>6. /\ StepsOK(pipe_terminate(p, "socket", FALSE), Tid[Socket])
      /\ InOrder(pipe_terminate(p, "socket", FALSE))
  <2> SUFFICES ASSUME NEW t, t = Tid[Socket]
               PROVE  /\ StepsOK(pipe_terminate(p, "socket", FALSE), t)
                      /\ InOrder(pipe_terminate(p, "socket", FALSE))
    OBVIOUS
  <2>1. pstate[<<p, "socket">>] \in {"active", "waiting_for_delimiter"} => t = Tid[Sink(p, "socket")]
    BY <1>1
  <2> QED
    BY <1>1, <2>1, TerminateSteps
<1>7. 1 \in DOMAIN <<e>> /\ <<e>>[1] = e /\ e.op = "send"
  BY <1>4
<1>8. SendOK(<<e>>, 1, Tid[Socket])
  BY <1>5, <1>6, <1>7 DEF StepsOK, StepOK
<1>9. \A j \in DOMAIN mailbox[Tid[e.to]] : Sorted(mailbox[Tid[e.to]][j], e)
  BY <1>5, <1>6, <1>7 DEF InOrder
<1> QED
  BY <1>1, <1>2, <1>3, <1>4, <1>8, <1>9

\* All of them.
LEMMA ReapSteps ==
    ASSUME IInv, NEW u, u = SetToSeq(Reaping)
    PROVE  /\ u \in Seq(Work) /\ NoDelete(u) /\ Plain(u) /\ NoInc(u) /\ NoCheck(u) /\ Only(u, PipeMove \ {"hiccup"})
           /\ StepsOK(u, Tid[Socket]) /\ InOrder(u)
           /\ \A D : SeqCount(u, D) = Cardinality(Reaping \cap D)
<1> DEFINE S == {PartStep(p) : p \in Parts}
<1>1. Reaping = S
  BY ReapSet
<1>2. IsFiniteSet(S)
  <2> DEFINE g == [p \in Parts |-> PartStep(p)]
  <2>1. g \in Surjection(Parts, S)
    BY DEF Surjection
  <2>2. IsFiniteSet(Parts)
    <3>1. Parts \subseteq Pipe
      BY DEF Parts, pipes
    <3> QED
      BY <3>1, FS_Subset, OwnAssumption
  <2> HIDE DEF g
  <2> QED
    BY <2>1, <2>2, FS_Surjection
<1>3. /\ u \in Seq(S) /\ \A i \in DOMAIN u : u[i] \in S
      /\ \A D : SeqCount(u, D) = Cardinality(S \cap D)
  <2>1. u = SetToSeq(S)
    BY <1>1
  <2> HIDE DEF S
  <2> QED
    BY <1>2, <2>1, SetToSeqCount
<1>4. ASSUME NEW e \in S
      PROVE  /\ \E p \in Parts : e = PartStep(p)
             /\ e \in Work /\ e.op = "send" /\ e.inc = 0 /\ e.type \in {"pipe_term", "pipe_term_ack"}
             /\ SendOK(<<e>>, 1, Tid[Socket])
             /\ \A j \in DOMAIN mailbox[Tid[e.to]] : Sorted(mailbox[Tid[e.to]][j], e)
  BY PartFacts
<1>5. \A e \in S, f \in S : Sorted(e, f)
  <2> SUFFICES ASSUME NEW e \in S, NEW f \in S PROVE Sorted(e, f)
    OBVIOUS
  <2>1. PICK p \in Parts : e = PartStep(p)
    OBVIOUS
  <2>2. PICK q \in Parts : f = PartStep(q)
    OBVIOUS
  <2>3. e.arg = p /\ f.arg = q
    BY <2>1, <2>2, PartFacts
  <2>4. e.arg = f.arg => e.type = f.type
    BY <2>1, <2>2, <2>3
  <2>5. Rank(e.type) \in Int
    <3>1. e.type \in {"pipe_term", "pipe_term_ack"}
      BY <1>4
    <3> QED
      BY <3>1 DEF Rank
  <2> QED
    BY <2>4, <2>5 DEF Sorted
<1> HIDE DEF S
<1>6. u \in Seq(Work) /\ \A i \in DOMAIN u : u[i] \in S
  <2>1. S \subseteq Work
    BY <1>4
  <2> QED
    BY <1>3, <2>1
<1>7. /\ NoDelete(u) /\ Plain(u) /\ NoInc(u) /\ NoCheck(u) /\ Only(u, PipeMove \ {"hiccup"})
  BY <1>4, <1>6 DEF NoDelete, Plain, NoInc, NoCheck, Only, PipeMove, SeqCommand
<1>8. StepsOK(u, Tid[Socket])
  <2> SUFFICES ASSUME NEW i \in DOMAIN u PROVE StepOK(u, i, Tid[Socket])
    BY DEF StepsOK
  <2>1. u[i] \in S
    BY <1>6
  <2>2. SendOK(<<u[i]>>, 1, Tid[Socket]) /\ u[i].op = "send" /\ u[i].type \in {"pipe_term", "pipe_term_ack"} /\ <<u[i]>>[1] = u[i]
    BY <1>4, <2>1
  <2>3. SendOK(u, i, Tid[Socket])
    BY <2>2 DEF SendOK
  <2> QED
    BY <2>2, <2>3 DEF StepOK
<1>9. InOrder(u)
  BY <1>4, <1>5, <1>6 DEF InOrder
<1> QED
  BY <1>1, <1>3, <1>6, <1>7, <1>8, <1>9

\* How many of them there are about every pipe.
LEMMA ReapCounts ==
    ASSUME IInv, NEW u, u = SetToSeq(Reaping)
    PROVE  /\ \A q \in Pipe : \A y \in End : \A ty \in {"pipe_term", "pipe_term_ack"} :
                 SeqCount(u, Sends(ToEnd(q, y, ty)))
                    = IF y = "session" THEN Parting(pstate[<<q, "socket">>], FALSE, ty) ELSE 0
           /\ \A D : (\A m \in D : m.type \notin {"pipe_term", "pipe_term_ack"}) => SeqCount(u, Sends(D)) = 0
<1>1. \A D : SeqCount(u, D) = Cardinality(Reaping \cap D)
  BY ReapSteps
<1>2. ASSUME NEW D, \A p \in Parts : PartStep(p) \notin Sends(D) PROVE SeqCount(u, Sends(D)) = 0
  <2>1. Reaping \cap Sends(D) = {}
    BY <1>2, ReapSet
  <2> QED
    BY <1>1, <2>1, FS_EmptySet
<1>3. ASSUME NEW D, NEW p \in Parts, PartStep(p) \in Sends(D),
             \A q \in Parts : PartStep(q) \in Sends(D) => q = p
      PROVE  SeqCount(u, Sends(D)) = 1
  <2>1. Reaping \cap Sends(D) = {PartStep(p)}
    BY <1>3, ReapSet
  <2> QED
    BY <1>1, <2>1, FS_Singleton
<1>4. ASSUME NEW p \in Parts
      PROVE  /\ p \in Pipe /\ PartType(p) \in {"pipe_term", "pipe_term_ack"}
             /\ \A D : PartStep(p) \in Sends(D) <=> Com(psession[p], PartType(p), p) \in D
             /\ \A q, y, ty : Com(psession[p], PartType(p), p) \in ToEnd(q, y, ty) <=> q = p /\ ty = PartType(p) /\ y # "socket"
  <2>1. /\ p \in Pipe /\ PartType(p) \in {"pipe_term", "pipe_term_ack"} /\ psession[p] \in Session /\ psession[p] # Socket
        /\ \A D : PartStep(p) \in Sends(D) <=> Com(psession[p], PartType(p), p) \in D
    BY PartFacts
  <2>2. psession[p] \in Object /\ PartType(p) \in CommandType /\ p \in Arg
    BY <2>1, SocketIn DEF CommandType, Arg
  <2> QED
    BY <2>1, <2>2, ComIn
<1>5. ASSUME NEW q \in Pipe, NEW y \in End, NEW ty \in {"pipe_term", "pipe_term_ack"}
      PROVE  SeqCount(u, Sends(ToEnd(q, y, ty))) = IF y = "session" THEN Parting(pstate[<<q, "socket">>], FALSE, ty) ELSE 0
  <2>0. y = "session" \/ y = "socket"
    BY DEF End
  <2>1. \A p \in Parts : PartStep(p) \in Sends(ToEnd(q, y, ty)) <=> q = p /\ ty = PartType(p) /\ y # "socket"
    BY <1>4
  <2>2. Parting(pstate[<<q, "socket">>], FALSE, ty) = IF q \in Parts /\ ty = PartType(q) THEN 1 ELSE 0
    BY DEF Parting, Parts, PartType, pipes
  <2>3. CASE q \in Parts /\ ty = PartType(q) /\ y = "session"
    <3>1. PartStep(q) \in Sends(ToEnd(q, y, ty)) /\ \A p \in Parts : PartStep(p) \in Sends(ToEnd(q, y, ty)) => p = q
      BY <2>1, <2>3
    <3>2. SeqCount(u, Sends(ToEnd(q, y, ty))) = 1
      BY <1>3, <2>3, <3>1
    <3> QED
      BY <2>2, <2>3, <3>2
  <2>4. CASE ~(q \in Parts /\ ty = PartType(q) /\ y = "session")
    <3>1. \A p \in Parts : PartStep(p) \notin Sends(ToEnd(q, y, ty))
      BY <2>0, <2>1, <2>4
    <3>2. SeqCount(u, Sends(ToEnd(q, y, ty))) = 0
      BY <1>2, <3>1
    <3> QED
      BY <2>0, <2>2, <2>4, <3>2
  <2> QED
    BY <2>3, <2>4
<1>6. ASSUME NEW D, \A m \in D : m.type \notin {"pipe_term", "pipe_term_ack"} PROVE SeqCount(u, Sends(D)) = 0
  <2>1. \A p \in Parts : Com(psession[p], PartType(p), p) \notin D
    BY <1>4, <1>6 DEF Com
  <2>2. \A p \in Parts : PartStep(p) \notin Sends(D)
    BY <1>4, <2>1
  <2> QED
    BY <1>2, <2>2
<1> QED
  BY <1>5, <1>6

\* The steps of a socket that is closed.
ReapAll == SetToSeq(Reaping) \o process_term(Socket, own[Socket], Linger)
Reaps(steps, T) ==
    /\ Turn(Socket, steps) /\ mailbox' = mailbox /\ Plain(steps) /\ Only(steps, T)
    /\ StepsOK(steps, Tid[Socket]) /\ InOrder(steps) /\ check_acks(Socket) \in Range(steps)
    /\ \A c \in Object : SeqCount(steps, Sends(To(c, "term"))) = B(c \in own[Socket].owned)
    /\ \A q \in Pipe : \A y \in End : \A ty \in {"pipe_term", "pipe_term_ack"} :
          SeqCount(steps, Sends(ToEnd(q, y, ty)))
             = IF y = "session" THEN Parting(pstate[<<q, "socket">>], FALSE, ty) ELSE 0
    /\ \A q \in Pipe : SeqCount(steps, Sends(About(q, "bind"))) = 0 /\ SeqCount(steps, Sends(About(q, "hiccup"))) = 0

\* A socket that is not closed is alive and not terminating.
LEMMA OpenSocket ==
    ASSUME IInv, ~closed
    PROVE  Alive(Socket) /\ own[Socket] \in OwnRecord /\ ~own[Socket].terminating
<1>1. Typed /\ Tree /\ Gone /\ Socket \in Object
  BY SocketIn DEF IInv
<1>2. Made(Socket) /\ ~own[Socket].terminating
  BY <1>1 DEF Tree
<1>3. Alive(Socket)
  BY <1>1, <1>2 DEF Gone, GoneOK
<1> QED
  BY <1>1, <1>2, <1>3 DEF Typed

\* The steps of start_reaping () are well formed.
LEMMA ReapTurn ==
    ASSUME IInv, start_reaping
    PROVE  Reaps(ReapAll, {"pipe_term", "pipe_term_ack", "term"})
<1> SUFFICES ASSUME NEW u, u = SetToSeq(Reaping), NEW v, v = process_term(Socket, own[Socket], Linger),
                    NEW T, T = {"pipe_term", "pipe_term_ack", "term"}
             PROVE  Reaps(u \o v, T)
  BY DEF ReapAll
<1>0. Typed /\ QType /\ Socket \in Object /\ Alive(Socket) /\ Linger \in Arg
  <2>1. ~closed
    BY DEF start_reaping
  <2> QED
    BY <2>1, OpenSocket, SocketIn DEF IInv, Typed, Arg
<1>1. /\ u \in Seq(Work) /\ NoDelete(u) /\ Plain(u) /\ NoInc(u) /\ NoCheck(u) /\ Only(u, PipeMove \ {"hiccup"})
      /\ StepsOK(u, Tid[Socket]) /\ InOrder(u)
  BY ReapSteps
<1>2. /\ v \in Seq(Work) /\ NoDelete(v) /\ Plain(v) /\ Calm(v) /\ NoInc(v) /\ Only(v, {"term"})
      /\ StepsOK(v, Tid[Socket]) /\ check_acks(Socket) \in Range(v)
      /\ \A c \in Object : SeqCount(v, Sends(To(c, "term"))) = B(c \in own[Socket].owned)
      /\ \A D : (\A m \in D : m.type # "term") => SeqCount(v, Sends(D)) = 0
  BY <1>0, TermSteps
<1>3. Only(u, T) /\ Only(v, T)
  BY <1>1, <1>2 DEF Only, PipeMove
<1>4. /\ u \o v \in Seq(Work) /\ NoDelete(u \o v) /\ Plain(u \o v) /\ Only(u \o v, T)
      /\ check_acks(Socket) \in Range(u \o v)
  <2>1. /\ u \o v \in Seq(Work)
        /\ NoDelete(u) /\ NoDelete(v) => NoDelete(u \o v)
        /\ Plain(u) /\ Plain(v) => Plain(u \o v)
        /\ \A TT : Only(u, TT) /\ Only(v, TT) => Only(u \o v, TT)
        /\ Range(u \o v) = Range(u) \cup Range(v)
    BY <1>1, <1>2, ConcatForm
  <2> QED
    BY <1>1, <1>2, <1>3, <2>1
<1>5. StepsOK(u \o v, Tid[Socket])
  BY <1>1, <1>2, StepsConcat
<1>6. InOrder(u \o v)
  <2>1. InOrder(v)
    BY <1>2, CalmInOrder
  <2>2. \A i \in DOMAIN u : \A j \in DOMAIN v : u[i].op = "send" /\ v[j].op = "send" => Sorted(u[i], v[j])
    BY <1>2 DEF Only, Sorted, PipeCommand
  <2> QED
    BY <1>1, <1>2, <2>1, <2>2, ConcatOrder
<1>7. Turn(Socket, u \o v) /\ mailbox' = mailbox
  <2>1. Idle(Tid[Socket]) /\ Acts(Socket, u \o v)
    BY DEF start_reaping, Reaping
  <2> QED
    BY <1>0, <1>4, <2>1, EventTurn
<1>8. \A D : SeqCount(u \o v, Sends(D)) = SeqCount(u, Sends(D)) + SeqCount(v, Sends(D))
  BY <1>1, <1>2, CountConcat
<1>9. /\ \A q \in Pipe : \A y \in End : \A ty \in {"pipe_term", "pipe_term_ack"} :
            SeqCount(u, Sends(ToEnd(q, y, ty)))
               = IF y = "session" THEN Parting(pstate[<<q, "socket">>], FALSE, ty) ELSE 0
      /\ \A D : (\A m \in D : m.type \notin {"pipe_term", "pipe_term_ack"}) => SeqCount(u, Sends(D)) = 0
  BY ReapCounts
<1>10. \A c \in Object : SeqCount(u \o v, Sends(To(c, "term"))) = B(c \in own[Socket].owned)
  <2> SUFFICES ASSUME NEW c \in Object PROVE SeqCount(u \o v, Sends(To(c, "term"))) = B(c \in own[Socket].owned)
    OBVIOUS
  <2>1. \A m \in To(c, "term") : m.type \notin {"pipe_term", "pipe_term_ack"}
    BY DEF To
  <2>2. SeqCount(u, Sends(To(c, "term"))) = 0
    BY <1>9, <2>1
  <2> QED
    BY <1>2, <1>8, <2>2 DEF B
<1>11. ASSUME NEW q \in Pipe, NEW y \in End, NEW ty \in {"pipe_term", "pipe_term_ack"}
       PROVE  SeqCount(u \o v, Sends(ToEnd(q, y, ty)))
                = IF y = "session" THEN Parting(pstate[<<q, "socket">>], FALSE, ty) ELSE 0
  <2>1. \A m \in ToEnd(q, y, ty) : m.type # "term"
    BY DEF ToEnd
  <2>2. SeqCount(v, Sends(ToEnd(q, y, ty))) = 0
    BY <1>2, <2>1
  <2>3. SeqCount(u, Sends(ToEnd(q, y, ty))) \in Nat
    BY <1>1, SeqCountType
  <2>4. SeqCount(u \o v, Sends(ToEnd(q, y, ty))) = SeqCount(u, Sends(ToEnd(q, y, ty)))
    BY <1>8, <2>2, <2>3
  <2> QED
    BY <1>9, <2>4
<1>12. ASSUME NEW q \in Pipe, NEW ty \in {"bind", "hiccup"}
       PROVE  SeqCount(u \o v, Sends(About(q, ty))) = 0
  <2>1. \A m \in About(q, ty) : m.type # "term" /\ m.type \notin {"pipe_term", "pipe_term_ack"}
    BY DEF About
  <2>2. SeqCount(v, Sends(About(q, ty))) = 0 /\ SeqCount(u, Sends(About(q, ty))) = 0
    BY <1>2, <1>9, <2>1
  <2> QED
    BY <1>8, <2>2
<1>13. \A q \in Pipe : SeqCount(u \o v, Sends(About(q, "bind"))) = 0 /\ SeqCount(u \o v, Sends(About(q, "hiccup"))) = 0
  BY <1>12
<1> QED
  BY <1>4, <1>5, <1>6, <1>7, <1>10, <1>11, <1>13 DEF Reaps

\* The states of the pipes after that.
LEMMA ReapPipes ==
    ASSUME IInv, start_reaping, NEW steps, NEW T, Reaps(steps, T)
    PROVE  /\ pstate' \in [Pipe \X {"socket", "session"} -> PState] /\ SameEnds /\ Pipes'
           /\ \A q \in Pipe : pstate'[<<q, "socket">>] \notin {"active", "waiting_for_delimiter"}
<1>0. /\ Typed /\ QType /\ Pipes /\ psession' = psession /\ FALSE \in BOOLEAN
      /\ Turn(Socket, steps) /\ mailbox' = mailbox
      /\ pstate \in [Pipe \X {"socket", "session"} -> PState]
      /\ "socket" \in End /\ "session" \in End /\ Peer("socket") = "session"
  BY DEF IInv, Typed, start_reaping, Reaps, End, Peer
<1>1. /\ DOMAIN pstate = Pipe \X {"socket", "session"}
      /\ pstate' = [e \in Pipe \X {"socket", "session"} |->
                      IF e[1] \in pipes /\ e[2] = "socket" THEN PTerminated(pstate[e], FALSE) ELSE pstate[e]]
  <2>1. DOMAIN pstate = Pipe \X {"socket", "session"}
    BY <1>0
  <2> QED
    BY <2>1 DEF start_reaping
<1>2. ASSUME NEW q \in Pipe
      PROVE  /\ pstate'[<<q, "session">>] = pstate[<<q, "session">>]
             /\ pstate'[<<q, "socket">>] = PTerminated(pstate[<<q, "socket">>], FALSE)
             /\ pstate'[<<q, "socket">>] \in PState /\ pstate'[<<q, "session">>] \in PState
  <2>1. <<q, "session">> \in Pipe \X {"socket", "session"} /\ <<q, "socket">> \in Pipe \X {"socket", "session"}
    OBVIOUS
  <2>2. pstate[<<q, "session">>] \in PState /\ pstate[<<q, "socket">>] \in PState
    BY <1>0, <2>1
  <2>3. pstate'[<<q, "session">>] = pstate[<<q, "session">>]
    BY <1>1, <2>1
  <2>4. pstate'[<<q, "socket">>] = IF q \in pipes THEN PTerminated(pstate[<<q, "socket">>], FALSE) ELSE pstate[<<q, "socket">>]
    BY <1>1, <2>1
  <2>5. q \notin pipes => PTerminated(pstate[<<q, "socket">>], FALSE) = pstate[<<q, "socket">>]
    BY DEF pipes, PTerminated
  <2>6. PTerminated(pstate[<<q, "socket">>], FALSE) \in PState
    BY <2>2 DEF PTerminated, PState
  <2> QED
    BY <2>2, <2>3, <2>4, <2>5, <2>6
<1>3. pstate' \in [Pipe \X {"socket", "session"} -> PState]
  <2>1. \A q \in Pipe : \A x \in {"socket", "session"} : pstate'[<<q, x>>] \in PState
    BY <1>2
  <2>2. \A e \in Pipe \X {"socket", "session"} : pstate'[e] \in PState
    <3> SUFFICES ASSUME NEW e \in Pipe \X {"socket", "session"} PROVE pstate'[e] \in PState
      OBVIOUS
    <3>1. PICK q \in Pipe, x \in {"socket", "session"} : e = <<q, x>>
      OBVIOUS
    <3> QED
      BY <2>1, <3>1
  <2> QED
    BY <1>1, <2>2
<1>4. SameEnds /\ \A q \in Pipe : pstate'[<<q, "socket">>] \notin {"active", "waiting_for_delimiter"}
  BY <1>2 DEF SameEnds, PTerminated
<1>5. ASSUME NEW q \in Pipe PROVE PipeOK(q)'
  <2>1. \A ty : Flight(ToEnd(q, "socket", ty))' = Flight(ToEnd(q, "socket", ty)) + SeqCount(steps, Sends(ToEnd(q, "socket", ty)))
    BY <1>0, FreshFlight
  <2>2. \A ty : Flight(ToEnd(q, "session", ty))' = Flight(ToEnd(q, "session", ty)) + SeqCount(steps, Sends(ToEnd(q, "session", ty)))
    BY <1>0, FreshFlight
  <2>3. \A ty : Flight(About(q, ty))' = Flight(About(q, ty)) + SeqCount(steps, Sends(About(q, ty)))
    BY <1>0, FreshFlight
  <2>4. /\ \A ty \in {"pipe_term", "pipe_term_ack"} : SeqCount(steps, Sends(ToEnd(q, "socket", ty))) = 0
        /\ \A ty \in {"pipe_term", "pipe_term_ack"} :
              SeqCount(steps, Sends(ToEnd(q, "session", ty))) = Parting(pstate[<<q, "socket">>], FALSE, ty)
        /\ SeqCount(steps, Sends(About(q, "bind"))) = 0 /\ SeqCount(steps, Sends(About(q, "hiccup"))) = 0
    <3>1. \A y \in End : \A ty \in {"pipe_term", "pipe_term_ack"} :
             SeqCount(steps, Sends(ToEnd(q, y, ty))) = IF y = "session" THEN Parting(pstate[<<q, "socket">>], FALSE, ty) ELSE 0
      BY DEF Reaps
    <3>2. SeqCount(steps, Sends(About(q, "bind"))) = 0 /\ SeqCount(steps, Sends(About(q, "hiccup"))) = 0
      BY DEF Reaps
    <3> QED
      BY <1>0, <3>1, <3>2
  <2>5. /\ PT(q, "socket")' = PT(q, "socket") /\ PA(q, "socket")' = PA(q, "socket")
        /\ Binds(q)' = Binds(q) /\ Hiccups(q)' = Hiccups(q)
    <3>1. /\ PT(q, "socket") \in Nat /\ PA(q, "socket") \in Nat /\ Binds(q) \in Nat /\ Hiccups(q) \in Nat
      BY <1>0, CountsType
    <3> QED
      BY <2>1, <2>3, <2>4, <3>1 DEF PT, PA, Binds, Hiccups
  <2>6. /\ PT(q, "session")' = PT(q, "session") + Parting(pstate[<<q, "socket">>], FALSE, "pipe_term")
        /\ PA(q, "session")' = PA(q, "session") + Parting(pstate[<<q, "socket">>], FALSE, "pipe_term_ack")
    BY <2>2, <2>4 DEF PT, PA
  <2>7. PipeOK(q) /\ psession'[q] = psession[q]
    BY <1>0 DEF Pipes
  <2>8. /\ PT(q, Peer("socket"))' = PT(q, Peer("socket")) + Parting(pstate[<<q, "socket">>], FALSE, "pipe_term")
        /\ PA(q, Peer("socket"))' = PA(q, Peer("socket")) + Parting(pstate[<<q, "socket">>], FALSE, "pipe_term_ack")
        /\ pstate'[<<q, Peer("socket")>>] = pstate[<<q, Peer("socket")>>]
    BY <1>0, <1>2, <2>6
  <2>9. Hiccups(q)' = Hiccups(q) \/ ("socket" = "session" /\ pstate[<<q, "socket">>] = "active")
    BY <2>5
  <2> QED
    BY <1>0, <1>2, <2>5, <2>7, <2>8, <2>9, TerminateRows
<1> QED
  BY <1>3, <1>4, <1>5 DEF Pipes

\* zmq_close.
LEMMA ReapStep ==
    ASSUME IInv, start_reaping
    PROVE  IInv'
<1> SUFFICES ASSUME NEW steps, steps = ReapAll, NEW T, T = {"pipe_term", "pipe_term_ack", "term"},
                    NEW n, n = Cardinality(pipes)
             PROVE  IInv'
  OBVIOUS
<1>0. /\ Typed /\ Tree /\ Links /\ Pipes /\ QType /\ own \in [Object -> OwnRecord] /\ Awaited /\ failed = {}
      /\ UNCHANGED <<polled, engine, pending, pipe, psession, endpoints, immediate, failed>>
      /\ ~closed /\ closed' = TRUE
  BY DEF IInv, Typed, lvars, start_reaping
<1>1. Alive(Socket) /\ own[Socket] \in OwnRecord /\ ~own[Socket].terminating /\ Socket \in Object
  BY <1>0, OpenSocket, SocketIn
<1>2. Reaps(steps, T)
  BY ReapTurn
<1>3. /\ pstate' \in [Pipe \X {"socket", "session"} -> PState] /\ SameEnds /\ Pipes'
      /\ \A q \in Pipe : pstate'[<<q, "socket">>] \notin {"active", "waiting_for_delimiter"}
  BY <1>2, ReapPipes
<1>4. n \in Nat
  <2>1. IsFiniteSet(pipes)
    BY FS_Subset, OwnAssumption DEF pipes
  <2> QED
    BY <2>1, FS_CardinalityType
<1>5. /\ Ending(Socket)
      /\ own'[Socket].term_acks = (own[Socket].term_acks + n) + Cardinality(own[Socket].owned)
  <2>1. own' = [own EXCEPT ![Socket] = Terminated(register_term_acks(own[Socket], n))]
    BY <1>0, <1>1 DEF start_reaping
  <2>2. /\ register_term_acks(own[Socket], n) \in OwnRecord /\ Kept(register_term_acks(own[Socket], n), own[Socket])
        /\ register_term_acks(own[Socket], n).processed_seqnum = own[Socket].processed_seqnum
        /\ register_term_acks(own[Socket], n).owned = own[Socket].owned
        /\ register_term_acks(own[Socket], n).term_acks = own[Socket].term_acks + n
    BY <1>1, <1>4, RegisterOps
  <2>3. \A r \in OwnRecord :
          /\ Terminated(r) \in OwnRecord /\ Kept(Terminated(r), r)
          /\ Terminated(r).processed_seqnum = r.processed_seqnum
          /\ Terminated(r).terminating = TRUE /\ Terminated(r).owned = {}
          /\ Terminated(r).term_acks = r.term_acks + Cardinality(r.owned)
    BY TerminatedOps
  <2> DEFINE r == register_term_acks(own[Socket], n)
  <2>4. /\ Terminated(r) \in OwnRecord /\ Kept(Terminated(r), r) /\ Terminated(r).processed_seqnum = r.processed_seqnum
        /\ Terminated(r).terminating = TRUE /\ Terminated(r).owned = {}
        /\ Terminated(r).term_acks = r.term_acks + Cardinality(r.owned)
    BY <2>2, <2>3
  <2>5. /\ own' \in [Object -> OwnRecord] /\ own'[Socket] = Terminated(r)
        /\ \A x \in Object : x # Socket => own'[x] = own[x]
    BY <1>0, <1>1, <2>1, <2>4, OneOwn
  <2> HIDE DEF r
  <2>6. Kept(own'[Socket], own[Socket])
    BY <2>2, <2>4, <2>5 DEF Kept, r
  <2> QED
    BY <2>2, <2>4, <2>5, <2>6 DEF Ending, r
<1>6. /\ Turn(Socket, steps) /\ mailbox' = mailbox /\ Plain(steps) /\ Only(steps, T)
      /\ StepsOK(steps, Tid[Socket]) /\ InOrder(steps) /\ check_acks(Socket) \in Range(steps)
      /\ \A c \in Object : SeqCount(steps, Sends(To(c, "term"))) = B(c \in own[Socket].owned)
  BY <1>2 DEF Reaps
<1>7. \A c \in Object : Terms(c)' = Terms(c) + B(c \in own[Socket].owned)
  <2> SUFFICES ASSUME NEW c \in Object PROVE Terms(c)' = Terms(c) + B(c \in own[Socket].owned)
    OBVIOUS
  <2>1. Flight(To(c, "term"))' = Flight(To(c, "term")) + SeqCount(steps, Sends(To(c, "term")))
    BY <1>6, FreshFlight
  <2> QED
    BY <1>6, <2>1 DEF Terms
<1>8. T \cap SeqCommand = {} /\ "term_ack" \notin T
  BY DEF SeqCommand
<1>9. /\ pipes' = pipes /\ \A s, P : OtherPipes(s, P)' = OtherPipes(s, P)
  BY <1>0, <1>3, PipesSame
<1>10. Socket \notin Session /\ Socket \notin polled /\ Socket \notin pending
  BY <1>0, OwnAssumption DEF Session, Typed
<1>11. \A s \in Session : pipe'[s] # None =>
          psession[pipe'[s]] = s /\ pstate'[<<pipe'[s], "session">>] \notin {"none", "gone"}
  <2> SUFFICES ASSUME NEW s \in Session, NEW p, p = pipe[s], p # None
               PROVE  psession[p] = s /\ pstate'[<<p, "session">>] \notin {"none", "gone"}
    BY <1>0
  <2>1. p \in Pipe /\ psession[p] = s /\ pstate[<<p, "session">>] \notin {"none", "gone"}
    BY <1>0 DEF Typed, Links
  <2> QED
    BY <1>3, <2>1 DEF SameEnds
<1>12. EndHyp(Socket, steps, T)
  <2>1. /\ Turn(Socket, steps) /\ Plain(steps) /\ Only(steps, T) /\ T \cap SeqCommand = {} /\ "term_ack" \notin T
        /\ (Takes(Socket) /\ Msg(Socket).type \in T) \/ mailbox' = mailbox
        /\ StepsOK(steps, Tid[Socket]) /\ InOrder(steps) /\ check_acks(Socket) \in Range(steps)
        /\ Socket \in Object /\ Alive(Socket) /\ Ending(Socket)
    BY <1>1, <1>5, <1>6, <1>8
  <2>2. /\ (Socket # Socket /\ closed' = closed) \/ (Socket = Socket /\ closed')
        /\ \A c \in Object : c # Socket => (c \in pending' <=> c \in pending)
        /\ polled' \subseteq polled /\ Socket \notin polled' /\ engine' \subseteq engine
        /\ Socket \notin pending' /\ pending' \subseteq pending
        /\ psession' = psession /\ endpoints' = endpoints /\ immediate' = immediate
    BY <1>0, <1>10
  <2>3. /\ \A s \in Session : s # Socket => OtherPipes(s, {})' = OtherPipes(s, {})
        /\ Socket \in Session => OtherPipes(Socket, {})' = {}
    BY <1>9, <1>10
  <2>4. pipe' \in [Session -> Pipe \cup {None}]
    BY <1>0 DEF Typed
  <2>5. closed' => \A p \in Pipe : pstate'[<<p, "socket">>] \notin {"active", "waiting_for_delimiter"}
    BY <1>3
  <2> QED
    BY <1>3, <1>7, <1>11, <2>1, <2>2, <2>3, <2>4, <2>5 DEF EndHyp
<1>13. /\ QType' /\ Seqnums' /\ Commands' /\ Todo' /\ Engines' /\ Order' /\ Requests' /\ Tree' /\ Typed'
  BY <1>12, EndBasics
<1>14. Links'
  BY <1>12, EndLinks
<1>15. Children' /\ Gone' /\ Checked' /\ PlugFirst'
  BY <1>12, EndRest
<1>16. SameAlive /\ (\A c \in Object : Owns(c)' = Owns(c)) /\ (\A x : Acks(x)' = Acks(x))
  BY <1>12, EndBasics
<1>17. Awaited'
  <2>1. /\ \A x \in Object : x # Socket => Kids(x)' = Kids(x)
        /\ Cardinality(Kids(Socket)') = Cardinality(Kids(Socket)) + Cardinality(own[Socket].owned)
        /\ \A x \in Object : Cardinality(Kids(x)) \in Nat
        /\ Cardinality(own[Socket].owned) \in Nat
    BY <1>1, <1>5, <1>16, EndingKids DEF Alive, Made
  <2>2. \A x \in Object : x # Socket => AwaitedPipes(x)' = AwaitedPipes(x) /\ own'[x] = own[x]
    BY <1>5 DEF AwaitedPipes, Ending
  <2>3. AwaitedPipes(Socket) = {} /\ Cardinality(AwaitedPipes(Socket)) = 0 /\ Cardinality(AwaitedPipes(Socket)') = n
    BY <1>0, <1>9, FS_EmptySet DEF AwaitedPipes
  <2>4. ASSUME NEW x \in Object, x # Socket
        PROVE  own'[x].term_acks = Cardinality(Kids(x)') + Acks(x)' + Cardinality(AwaitedPipes(x)')
    BY <1>0, <1>16, <2>1, <2>2, <2>4 DEF Awaited
  <2>5. own'[Socket].term_acks = Cardinality(Kids(Socket)') + Acks(Socket)' + Cardinality(AwaitedPipes(Socket)')
    <3>1. own[Socket].term_acks = Cardinality(Kids(Socket)) + Acks(Socket) + 0
      BY <1>0, <1>1, <2>3 DEF Awaited
    <3>2. Acks(Socket) \in Nat /\ Acks(Socket)' = Acks(Socket) /\ Cardinality(Kids(Socket)) \in Nat
      BY <1>0, <1>1, <1>16, <2>1, CountsType
    <3> QED
      BY <1>4, <1>5, <2>1, <2>3, <3>1, <3>2
  <2> QED
    BY <2>4, <2>5 DEF Awaited
<1> QED
  BY <1>0, <1>3, <1>13, <1>14, <1>15, <1>17 DEF IInv
-----------------------------------------------------------------------------
(* A connecter hands its engine over *)

HandsOver(s, c) == <<inc_seqnum(s), send_command(s, "attach", None), send_command(s, "term_req", c)>>

\* The steps of out_event () are well formed.
LEMMA HandsFacts ==
    ASSUME NEW s \in Session, NEW c \in Object, NEW w, w = HandsOver(s, c)
    PROVE  /\ w \in Seq(Work) /\ NoDelete(w) /\ Only(w, {"attach", "term_req"}) /\ Balanced(w) /\ Calm(w)
           /\ DOMAIN w = 1..3 /\ w[1].op = "inc" /\ w[1].to = s
           /\ w[2].op = "send" /\ w[2].to = s /\ w[2].type = "attach" /\ w[2].arg = None /\ w[2].inc = 0
           /\ w[3].op = "send" /\ w[3].to = s /\ w[3].type = "term_req" /\ w[3].arg = c /\ w[3].inc = 0
           /\ \A D : SeqCount(w, Sends(D)) = B(Com(s, "attach", None) \in D) + B(Com(s, "term_req", c) \in D)
<1> DEFINE a == inc_seqnum(s)
           b == send_command(s, "attach", None)
           d == send_command(s, "term_req", c)
<1>1. s \in Object /\ "attach" \in CommandType /\ "term_req" \in CommandType /\ None \in Arg /\ c \in Arg
      /\ "attach" \in SeqCommand /\ "term_req" \notin SeqCommand
  BY SocketIn DEF CommandType, SeqCommand, Arg
<1>2. /\ a \in Work /\ a = [op |-> "inc", to |-> s]
      /\ (\A D : a \notin Sends(D)) /\ (\A x : a \in Ann(x) <=> x = s)
  BY <1>1, OwnStepFacts
<1>3. /\ b \in Work /\ b = [op |-> "send", to |-> s, type |-> "attach", arg |-> None, inc |-> 0]
      /\ (\A D : b \in Sends(D) <=> Com(s, "attach", None) \in D) /\ (\A x : b \notin Ann(x))
  BY <1>1, StepFacts
<1>4. /\ d \in Work /\ d = [op |-> "send", to |-> s, type |-> "term_req", arg |-> c, inc |-> 0]
      /\ (\A D : d \in Sends(D) <=> Com(s, "term_req", c) \in D) /\ (\A x : d \notin Ann(x))
  BY <1>1, StepFacts
<1> HIDE DEF a, b, d
<1>5. w = <<a, b, d>>
  BY DEF HandsOver, a, b, d
<1>6. /\ w \in Seq(Work) /\ DOMAIN w = 1..3 /\ w[1] = a /\ w[2] = b /\ w[3] = d
  BY <1>2, <1>3, <1>4, <1>5
<1>7. \A D : SeqCount(w, D) = B(a \in D) + B(b \in D) + B(d \in D)
  BY <1>5, CountThree
<1>8. Balanced(w)
  <2> SUFFICES ASSUME NEW x \in Object PROVE SeqCount(w, Ann(x)) = SeqCount(w, Sends(SeqTo(x)))
    BY DEF Balanced
  <2>1. SeqCount(w, Ann(x)) = IF x = s THEN 1 ELSE 0
    BY <1>2, <1>3, <1>4, <1>7 DEF B
  <2>2. Com(s, "attach", None) \in SeqTo(x) <=> x = s
    BY <1>1, ComIn
  <2>3. Com(s, "term_req", c) \notin SeqTo(x)
    BY <1>1, ComIn
  <2>4. SeqCount(w, Sends(SeqTo(x))) = IF x = s THEN 1 ELSE 0
    BY <1>2, <1>3, <1>4, <1>7, <2>2, <2>3 DEF B
  <2> QED
    BY <2>1, <2>4
<1>9. \A D : SeqCount(w, Sends(D)) = B(Com(s, "attach", None) \in D) + B(Com(s, "term_req", c) \in D)
  BY <1>2, <1>3, <1>4, <1>7 DEF B
<1>10. \A i \in DOMAIN w : i = 1 \/ i = 2 \/ i = 3
  BY <1>6
<1>11. /\ w[1].op = "inc" /\ w[1].to = s
       /\ w[2].op = "send" /\ w[2].to = s /\ w[2].type = "attach" /\ w[2].arg = None /\ w[2].inc = 0
       /\ w[3].op = "send" /\ w[3].to = s /\ w[3].type = "term_req" /\ w[3].arg = c /\ w[3].inc = 0
  BY <1>2, <1>3, <1>4, <1>6
<1>12. NoDelete(w) /\ Only(w, {"attach", "term_req"}) /\ Calm(w)
  BY <1>10, <1>11 DEF NoDelete, Only, Calm
<1> QED
  BY <1>6, <1>8, <1>9, <1>11, <1>12

\* What is known of a connecter that waits for its connection.
LEMMA PolledConnecter ==
    ASSUME IInv, NEW c \in Connecter \cap polled, NEW s, s = own[c].owner
    PROVE  /\ c \in Object /\ c # Socket /\ Alive(c) /\ ~own[c].terminating
           /\ s \in Connected /\ s \in Session /\ s \in Object /\ s # Socket /\ Alive(s)
           /\ Plugs(c) = 0 /\ Plugs(s) = 0 /\ Attaches(s) = 0 /\ s \notin engine
           /\ \A d \in Connecter : Active(d) /\ own[d].owner = s => d = c
<1>0. /\ Typed /\ QType /\ Links /\ Engines
  BY DEF IInv, Typed
<1>1. c \in Object /\ c # Socket /\ Alive(c) /\ ~own[c].terminating /\ Active(c)
  BY <1>0, SocketIn, OwnAssumption DEF Links, Active
<1>2. s \in Connected
  BY <1>1, ActiveOwner
<1>3. s \in Session /\ s \in Object /\ s # Socket
  BY <1>2, SocketIn, OwnAssumption
<1>4. Alive(s)
  BY <1>1, OwnerAlive
<1>5. Plugs(c) = 0
  <2>1. Plugs(c) + B(c \in polled) <= 1 /\ Plugs(c) \in Nat
    BY <1>0, CountsType DEF Engines
  <2> QED
    BY <2>1 DEF B
<1> QED
  BY <1>0, <1>1, <1>2, <1>3, <1>4, <1>5 DEF Engines

\* A connecter that hands its engine over preserves the invariant.
LEMMA OutEventStep ==
    ASSUME IInv, NEW c, out_event(c)
    PROVE  IInv'
<1> SUFFICES ASSUME NEW s, s = own[c].owner, NEW w, w = HandsOver(s, c)
             PROVE  IInv'
  OBVIOUS
<1>0. /\ Typed /\ Tree /\ Links /\ Pipes /\ QType /\ failed = {} /\ Engines /\ PlugFirst /\ Children /\ Awaited /\ Gone /\ Checked
      /\ own \in [Object -> OwnRecord]
  BY DEF IInv, Typed
<1>1. /\ c \in Connecter \cap polled /\ Idle(Tid[c]) /\ polled' = polled \ {c}
      /\ Acts(c, <<inc_seqnum(s), send_command(s, "attach", None)>> \o terminate(c))
      /\ UNCHANGED <<own, engine, pending, pipe, pstate, psession, endpoints, closed, immediate, failed>>
  BY DEF out_event, evars, svars
<1>2. /\ c \in Object /\ c # Socket /\ Alive(c) /\ ~own[c].terminating
      /\ s \in Connected /\ s \in Session /\ s \in Object /\ s # Socket /\ Alive(s)
      /\ Plugs(c) = 0 /\ Plugs(s) = 0 /\ Attaches(s) = 0 /\ s \notin engine
      /\ \A d \in Connecter : Active(d) /\ own[d].owner = s => d = c
  BY <1>1, PolledConnecter
<1>3. Acts(c, w)
  <2>1. terminate(c) = <<send_command(s, "term_req", c)>>
    BY <1>2 DEF terminate
  <2>2. inc_seqnum(s) \in Work
    BY <1>2, OwnStepFacts
  <2>3. "attach" \in CommandType /\ "term_req" \in CommandType /\ None \in Arg /\ c \in Arg
    BY <1>2 DEF CommandType, SeqCommand, Arg
  <2>4. send_command(s, "attach", None) \in Work /\ send_command(s, "term_req", c) \in Work
    BY <1>2, <2>3, StepFacts
  <2>5. <<inc_seqnum(s), send_command(s, "attach", None)>> \o <<send_command(s, "term_req", c)>> = w
    BY <2>2, <2>4, TripleSeq DEF HandsOver
  <2> QED
    BY <1>1, <2>1, <2>5
<1>4. /\ w \in Seq(Work) /\ NoDelete(w) /\ Only(w, {"attach", "term_req"}) /\ Balanced(w) /\ Calm(w)
      /\ DOMAIN w = 1..3 /\ w[1].op = "inc" /\ w[1].to = s
      /\ w[2].op = "send" /\ w[2].to = s /\ w[2].type = "attach" /\ w[2].arg = None /\ w[2].inc = 0
      /\ w[3].op = "send" /\ w[3].to = s /\ w[3].type = "term_req" /\ w[3].arg = c /\ w[3].inc = 0
      /\ \A D : SeqCount(w, Sends(D)) = B(Com(s, "attach", None) \in D) + B(Com(s, "term_req", c) \in D)
  BY <1>2, HandsFacts
<1>5. Turn(c, w) /\ mailbox' = mailbox
  BY <1>0, <1>1, <1>2, <1>3, <1>4, EventTurn
<1>6. SameAlive /\ SameShape
  BY <1>1, <1>5, TurnAlive DEF SameAlive, SameShape, Alive
<1>7. Grows
  BY <1>1, <1>6, SameGrows
<1>8. StepsOK(w, Tid[c])
  <2> SUFFICES ASSUME NEW i \in DOMAIN w, NEW t, t = Tid[c] PROVE StepOK(w, i, t)
    BY DEF StepsOK
  <2>0. i = 1 \/ i = 2 \/ i = 3
    BY <1>4
  <2>1. StepOK(w, 1, t)
    <3>1. Keeps(w, t)
      BY <1>2, <1>4 DEF Keeps
    <3>2. 2 \in DOMAIN w /\ w[2].type \in SeqCommand
      BY <1>4 DEF SeqCommand
    <3>3. IncOK(w, 1, t)
      BY <1>2, <1>4, <3>1, <3>2 DEF IncOK
    <3> QED
      BY <1>4, <3>3 DEF StepOK
  <2>2. StepOK(w, 2, t)
    <3>1. CommandOK(Com(w[2].to, w[2].type, w[2].arg), Tid[w[2].to])
      BY <1>2, <1>4 DEF CommandOK, Com
    <3>2. SendOK(w, 2, t)
      BY <1>4, <3>1 DEF SendOK
    <3> QED
      BY <1>4, <3>2 DEF StepOK
  <2>3. StepOK(w, 3, t)
    <3>1. CommandOK(Com(w[3].to, w[3].type, w[3].arg), Tid[w[3].to])
      BY <1>2, <1>4 DEF CommandOK, Com, Alive, Made
    <3>2. SendOK(w, 3, t)
      BY <1>2, <1>4, <3>1 DEF SendOK
    <3> QED
      BY <1>4, <3>2 DEF StepOK
  <2> QED
    BY <2>0, <2>1, <2>2, <2>3
<1>9. QType' /\ Seqnums' /\ Commands' /\ Todo' /\ Order' /\ Requests'
  <2>1. Processes(c)
    BY <1>1, <1>5 DEF Processes
  <2>2. StepsOK(w, Tid[c])'
    BY <1>4, <1>7, <1>8, StepsFrame
  <2>3. InOrder(w) /\ own' \in [Object -> OwnRecord]
    BY <1>0, <1>1, <1>4, CalmInOrder
  <2> QED
    BY <1>4, <1>5, <1>7, <2>1, <2>2, <2>3, SeqTurn
<1> DEFINE T == {"attach", "term_req"}
<1>10. SameCounts(T)
  <2>1. Only(w, T)
    BY <1>4
  <2> HIDE DEF T
  <2> QED
    BY <1>5, <2>1, QuietCounts
<1>11. \A y : /\ Plugs(y)' = Plugs(y) /\ Owns(y)' = Owns(y) /\ Terms(y)' = Terms(y) /\ Acks(y)' = Acks(y)
  BY <1>10 DEF SameCounts
<1>12. \A y \in Object : Attaches(y)' = Attaches(y) + B(y = s)
  <2> SUFFICES ASSUME NEW y \in Object PROVE Attaches(y)' = Attaches(y) + B(y = s)
    OBVIOUS
  <2>1. Flight(To(y, "attach"))' = Flight(To(y, "attach")) + SeqCount(w, Sends(To(y, "attach")))
    BY <1>5, FreshFlight
  <2>2. "attach" \in CommandType /\ "term_req" \in CommandType /\ None \in Arg /\ c \in Arg
    BY <1>2 DEF CommandType, SeqCommand, Arg
  <2>3. Com(s, "attach", None) \in To(y, "attach") <=> y = s
    BY <1>2, <2>2, ComIn
  <2>4. Com(s, "term_req", c) \notin To(y, "attach")
    BY <1>2, <2>2, ComIn
  <2>5. SeqCount(w, Sends(To(y, "attach"))) = B(y = s)
    BY <1>4, <2>3, <2>4 DEF B
  <2> QED
    BY <2>1, <2>5 DEF Attaches
<1>13. Engines'
  <2>0. \A y \in Session : y \in Object /\ Attaches(y) \in Nat /\ Plugs(y) \in Nat
    BY <1>0, SocketIn, CountsType
  <2>1. \A o \in Listener \cup Connecter : Plugs(o)' + B(o \in polled') <= 1
    <3> SUFFICES ASSUME NEW o \in Listener \cup Connecter PROVE Plugs(o)' + B(o \in polled') <= 1
      OBVIOUS
    <3>1. Plugs(o) + B(o \in polled) <= 1 /\ Plugs(o) \in Nat /\ Plugs(o)' = Plugs(o)
      BY <1>0, <1>11, CountsType DEF Engines
    <3> QED
      BY <1>1, <3>1 DEF B
  <2>2. \A y \in Session : /\ Attaches(y)' + B(y \in engine') <= 1
                           /\ y \in Connected => Plugs(y)' + Attaches(y)' + B(y \in engine') <= 1
    <3> SUFFICES ASSUME NEW y \in Session
                 PROVE  /\ Attaches(y)' + B(y \in engine') <= 1
                        /\ y \in Connected => Plugs(y)' + Attaches(y)' + B(y \in engine') <= 1
      OBVIOUS
    <3>1. CASE y = s
      BY <1>1, <1>2, <1>11, <1>12, <3>1 DEF B
    <3>2. CASE y # s
      <4>1. Attaches(y)' = Attaches(y) /\ Plugs(y)' = Plugs(y) /\ engine' = engine
        BY <1>1, <1>11, <1>12, <2>0, <3>2 DEF B
      <4> QED
        BY <1>0, <4>1 DEF Engines
    <3> QED
      BY <3>1, <3>2
  <2>3. \A d \in Connecter : Active(d)' => Active(d) /\ own'[d].owner = own[d].owner /\ own[d].owner # s
    <3> SUFFICES ASSUME NEW d \in Connecter, Active(d)' PROVE Active(d) /\ own'[d].owner = own[d].owner /\ own[d].owner # s
      OBVIOUS
    <3>1. Active(d) /\ d # c
      BY <1>1, <1>2, <1>11 DEF Active
    <3> QED
      BY <1>1, <1>2, <3>1
  <2>4. ASSUME NEW d \in Connecter, Active(d)', NEW y, y = own[d].owner
        PROVE  /\ Plugs(y)' = 0 /\ Attaches(y)' = 0 /\ y \notin engine'
               /\ \A e \in Connecter : Active(e)' /\ own[e].owner = y => e = d
    <3>1. y # s /\ Active(d)
      BY <2>3, <2>4
    <3>2. y \in Object /\ Plugs(y) = 0 /\ Attaches(y) = 0 /\ y \notin engine
          /\ \A e \in Connecter : Active(e) /\ own[e].owner = y => e = d
      BY <1>0, <2>4, <3>1, ActiveOwner, SocketIn DEF Engines
    <3>3. Plugs(y)' = 0 /\ Attaches(y)' = 0
      BY <1>11, <1>12, <3>1, <3>2 DEF B
    <3> QED
      BY <1>1, <2>3, <3>2, <3>3
  <2> QED
    BY <1>1, <2>1, <2>2, <2>4 DEF Engines
<1>14. Typed'
  <2>1. polled' \subseteq Listener \cup Connecter
    BY <1>0, <1>1 DEF Typed
  <2> QED
    BY <1>0, <1>1, <1>9, <2>1 DEF Typed
<1>15. Tree'
  BY <1>0, <1>1, <1>6, TreeFrame
<1>16. Links'
  <2>1. SameEnds
    BY <1>1 DEF SameEnds
  <2>2. closed => \A p \in Pipe : pstate'[<<p, "socket">>] \notin {"active", "waiting_for_delimiter"}
    BY <1>0, <1>1 DEF Links
  <2>3. /\ \A y \in Session : pipe'[y] \in {None, pipe[y]}
        /\ polled' \subseteq polled /\ engine' \subseteq engine /\ pending' \subseteq pending /\ endpoints' \subseteq endpoints
    BY <1>1
  <2> QED
    BY <1>0, <1>1, <1>6, <2>1, <2>2, <2>3, PipeLinks
<1>17. Children'
  BY <1>0, <1>1, <1>6, <1>11, ChildrenFrame
<1>18. Awaited'
  BY <1>0, <1>1, <1>6, <1>11, AwaitedFrame
<1>19. Gone'
  BY <1>0, <1>1, <1>6, GoneFrame
<1>20. Checked'
  <2>1. \A y \in Object : Alive(y)' /\ CanGo(own'[y]) => (Alive(y) /\ CanGo(own[y])) \/ (y = c /\ check_acks(c) \in Range(w))
    BY <1>1, <1>6 DEF SameAlive
  <2> QED
    BY <1>0, <1>5, <2>1, TurnChecked
<1>21. PlugFirst'
  BY <1>0, <1>1, <1>6, <1>11, PlugFrame
<1>22. Pipes'
  <2>1. SameCounts({"plug", "attach", "term", "term_ack", "own"})
    BY <1>10 DEF SameCounts
  <2> QED
    BY <1>0, <1>1, <2>1, PipesFrame
<1> QED
  BY <1>0, <1>1, <1>9, <1>13, <1>14, <1>15, <1>16, <1>17, <1>18, <1>19, <1>20, <1>21, <1>22 DEF IInv
-----------------------------------------------------------------------------
(* The steps that a thread makes one by one *)

\* The thread t makes its next step and goes on with 'rest'.
Runner(t, rest) ==
    /\ QType /\ t \in Thread /\ todo[t] # <<>> /\ rest \in Seq(Work)
    /\ todo' = [todo EXCEPT ![t] = rest]
Now(t) == Head(todo[t])

\* The first of a list of steps, and the rest.
LEMMA TailFacts ==
    ASSUME NEW s \in Seq(Work), s # <<>>
    PROVE  /\ Tail(s) \in Seq(Work) /\ Head(s) \in Work /\ Head(s) = s[1] /\ 1 \in DOMAIN s
           /\ DOMAIN s = 1..Len(s) /\ Len(s) \in Nat /\ DOMAIN Tail(s) = 1..(Len(s) - 1)
           /\ \A i \in DOMAIN Tail(s) : i \in Nat /\ i + 1 \in DOMAIN s /\ i + 1 # 1 /\ Tail(s)[i] = s[i + 1]
           /\ \A i \in DOMAIN s : i # 1 => i - 1 \in DOMAIN Tail(s) /\ Tail(s)[i - 1] = s[i]
<1>1. /\ Tail(s) \in Seq(Work) /\ Head(s) \in Work /\ Len(Tail(s)) = Len(s) - 1
      /\ \A i \in 1..Len(Tail(s)) : Tail(s)[i] = s[i + 1]
  BY HeadTailProperties
<1>2. Len(s) \in Nat /\ DOMAIN s = 1..Len(s) /\ DOMAIN Tail(s) = 1..Len(Tail(s)) /\ Len(Tail(s)) \in Nat
  BY <1>1, LenProperties
<1>3. Head(s) = s[1] /\ 1 \in DOMAIN s
  BY <1>2
<1>4. \A i \in DOMAIN Tail(s) : i \in Nat /\ i + 1 \in DOMAIN s /\ i + 1 # 1 /\ Tail(s)[i] = s[i + 1]
  BY <1>1, <1>2
<1>5. \A i \in DOMAIN s : i # 1 => i - 1 \in DOMAIN Tail(s) /\ Tail(s)[i - 1] = s[i]
  <2> SUFFICES ASSUME NEW i \in DOMAIN s, i # 1 PROVE i - 1 \in DOMAIN Tail(s) /\ Tail(s)[i - 1] = s[i]
    OBVIOUS
  <2>1. i \in Int /\ i - 1 \in 1..Len(Tail(s)) /\ (i - 1) + 1 = i
    BY <1>1, <1>2
  <2> QED
    BY <1>1, <1>2, <2>1
<1> QED
  BY <1>1, <1>2, <1>3, <1>4, <1>5

\* The steps counted when a thread has others left.
LEMMA RunnerCount ==
    ASSUME NEW t, NEW rest, Runner(t, rest), NEW D
    PROVE  /\ todo' \in [Thread -> Seq(Work)] /\ todo'[t] = rest
           /\ \A u \in Thread : u # t => todo'[u] = todo[u]
           /\ Count(todo, D) \in Nat /\ SeqCount(todo[t], D) \in Nat /\ SeqCount(rest, D) \in Nat
           /\ Count(todo', D) = (Count(todo, D) - SeqCount(todo[t], D)) + SeqCount(rest, D)
<1>1. /\ IsFiniteSet(Thread) /\ t \in Thread /\ todo \in [Thread -> Seq(Work)] /\ rest \in Seq(Work)
      /\ todo' = [todo EXCEPT ![t] = rest]
  BY ThreadFacts DEF Runner, QType
<1> DEFINE g == todo'
<1>2. g \in [Thread -> Seq(Work)] /\ g[t] = rest /\ \A u \in Thread : u # t => g[u] = todo[u]
  BY <1>1
<1>3. Moves(Thread, Work, todo, g, t)
  BY <1>1, <1>2 DEF Moves
<1> HIDE DEF g
<1>4. /\ Count(todo, D) \in Nat /\ SeqCount(todo[t], D) \in Nat /\ SeqCount(g[t], D) \in Nat
      /\ Count(g, D) = (Count(todo, D) - SeqCount(todo[t], D)) + SeqCount(g[t], D)
  BY <1>3, CountUpdate
<1>5. /\ SeqCount(rest, D) \in Nat
      /\ Count(g, D) = (Count(todo, D) - SeqCount(todo[t], D)) + SeqCount(rest, D)
  BY <1>2, <1>4
<1> QED
  BY <1>2, <1>4, <1>5 DEF g

\* A thread that only drops its first step.
LEMMA DropCount ==
    ASSUME NEW t, Runner(t, Tail(todo[t])), NEW D
    PROVE  Count(todo', D) = Count(todo, D) - B(Now(t) \in D)
<1>1. todo[t] \in Seq(Work) /\ todo[t] # <<>>
  BY DEF Runner, QType
<1>2. SeqCount(todo[t], D) = B(Head(todo[t]) \in D) + SeqCount(Tail(todo[t]), D)
  BY <1>1, CountTail
<1>3. /\ Count(todo, D) \in Nat /\ SeqCount(todo[t], D) \in Nat /\ SeqCount(Tail(todo[t]), D) \in Nat
      /\ Count(todo', D) = (Count(todo, D) - SeqCount(todo[t], D)) + SeqCount(Tail(todo[t]), D)
  BY RunnerCount
<1>4. B(Head(todo[t]) \in D) \in Nat
  BY DEF B
<1> QED
  BY <1>2, <1>3, <1>4 DEF Now

\* What is known of the first step of a thread.
LEMMA NowFacts ==
    ASSUME Todo, NEW t, NEW rest, Runner(t, rest)
    PROVE  /\ todo[t] \in Seq(Work) /\ Now(t) \in Work /\ Now(t) = todo[t][1] /\ 1 \in DOMAIN todo[t]
           /\ Now(t).to \in Object /\ StepOK(todo[t], 1, t) /\ StepsOK(todo[t], t)
           /\ Now(t).op \in {"inc", "send", "check", "delete"}
           /\ Now(t).op = "send" => Now(t) \in SendStep
           /\ Now(t).op # "send" => Now(t) \in OwnStep
<1>1. todo[t] \in Seq(Work) /\ todo[t] # <<>> /\ t \in Thread
  BY DEF Runner, QType
<1>2. Now(t) \in Work /\ Now(t) = todo[t][1] /\ 1 \in DOMAIN todo[t]
  BY <1>1, TailFacts DEF Now
<1>3. StepsOK(todo[t], t) /\ StepOK(todo[t], 1, t)
  BY <1>1, <1>2 DEF Todo, StepsOK
<1>4. Now(t).to \in Object /\ Now(t).op \in {"inc", "send", "check", "delete"}
      /\ (Now(t).op = "send" => Now(t) \in SendStep) /\ (Now(t).op # "send" => Now(t) \in OwnStep)
  BY <1>2 DEF Work, SendStep, OwnStep
<1> QED
  BY <1>1, <1>2, <1>3, <1>4

\* The steps that are left are in order.
LEMMA TailOK ==
    ASSUME NEW t, NEW s \in Seq(Work), s # <<>>, StepsOK(s, t)
    PROVE  StepsOK(Tail(s), t) /\ NoInc(Tail(s))
<1> DEFINE w == Tail(s)
<1>1. /\ w \in Seq(Work)
      /\ \A i \in DOMAIN w : i \in Nat /\ i + 1 \in DOMAIN s /\ i + 1 # 1 /\ w[i] = s[i + 1]
      /\ \A i \in DOMAIN s : i # 1 => i - 1 \in DOMAIN w /\ w[i - 1] = s[i]
      /\ DOMAIN s = 1..Len(s) /\ Len(s) \in Nat
  BY TailFacts
<1> HIDE DEF w
<1>2. ASSUME NEW i \in DOMAIN w PROVE StepOK(w, i, t) /\ w[i].op # "inc"
  <2>1. i + 1 \in DOMAIN s /\ i + 1 # 1 /\ w[i] = s[i + 1] /\ StepOK(s, i + 1, t) /\ i \in Nat
    BY <1>1 DEF StepsOK
  <2>2. w[i].op # "inc"
    BY <2>1 DEF StepOK, IncOK
  <2>3. ASSUME w[i].op = "send" PROVE SendOK(w, i, t)
    <3>1. SendOK(s, i + 1, t)
      BY <2>1, <2>3 DEF StepOK
    <3>2. (i + 1) + 1 \in DOMAIN s => i + 1 \in DOMAIN w /\ w[i + 1] = s[(i + 1) + 1]
      <4>1. (i + 1) + 1 # 1 /\ ((i + 1) + 1) - 1 = i + 1
        BY <2>1
      <4> QED
        BY <1>1, <4>1
    <3> QED
      BY <2>1, <3>1, <3>2 DEF SendOK
  <2>4. ASSUME w[i].op \in {"check", "delete"} PROVE LastOK(w, i, t)
    <3>1. LastOK(s, i + 1, t)
      BY <2>1, <2>4 DEF StepOK
    <3>2. ASSUME NEW j \in DOMAIN w, j > i PROVE w[j].op = "send" /\ w[j].type = "pipe_term_ack"
      <4>1. j + 1 \in DOMAIN s /\ j + 1 > i + 1 /\ w[j] = s[j + 1]
        BY <1>1, <2>1, <3>2
      <4> QED
        BY <3>1, <4>1 DEF LastOK
    <3> QED
      BY <2>1, <3>1, <3>2 DEF LastOK
  <2> QED
    BY <2>2, <2>3, <2>4 DEF StepOK
<1> QED
  BY <1>2 DEF StepsOK, NoInc, w

\* For every announcement a command is still to be sent.
LEMMA AnnPlanned ==
    ASSUME QType, Todo, NEW o \in Object
    PROVE  NAnn(o) <= Count(todo, Sends(SeqTo(o)))
<1> DEFINE P == Places(todo, Ann(o))
           Q == Places(todo, Sends(SeqTo(o)))
           J(x) == {j \in DOMAIN todo[x[1]] : /\ todo[x[1]][j].op = "send" /\ todo[x[1]][j].to = o
                                              /\ todo[x[1]][j].type \in SeqCommand /\ todo[x[1]][j].inc = 0}
           pick(x) == CHOOSE j \in J(x) : TRUE
           f == [x \in P |-> IF todo[x[1]][x[2]].op = "inc" THEN <<x[1], pick(x)>> ELSE x]
<1>0. Family(Thread, Work, todo)
  BY Families
<1>1. \A x : x \in P <=> x = <<x[1], x[2]>> /\ x[1] \in Thread /\ x[2] \in DOMAIN todo[x[1]] /\ todo[x[1]][x[2]] \in Ann(o)
  BY <1>0, PlacesFinite
<1>2. /\ IsFiniteSet(Q)
      /\ \A x : x \in Q <=> x = <<x[1], x[2]>> /\ x[1] \in Thread /\ x[2] \in DOMAIN todo[x[1]] /\ todo[x[1]][x[2]] \in Sends(SeqTo(o))
  BY <1>0, PlacesFinite
<1>3. \A t \in Thread : todo[t] \in Seq(Work) /\ StepsOK(todo[t], t) /\ \A i \in DOMAIN todo[t] : todo[t][i] \in Work
  BY ElementOfSeq, LenProperties DEF QType, Todo
<1>4. ASSUME NEW t \in Thread, NEW j \in DOMAIN todo[t], todo[t][j].op = "send", todo[t][j].to = o,
             todo[t][j].type \in SeqCommand
      PROVE  todo[t][j] \in Sends(SeqTo(o))
  <2>1. todo[t][j] \in SendStep
    BY <1>3, <1>4 DEF Work, SendStep, OwnStep
  <2> QED
    BY <1>4, <2>1 DEF Sends, SeqTo, Com, Cmd, SendStep
<1>5. ASSUME NEW x \in P, todo[x[1]][x[2]].op = "inc"
      PROVE  x[2] = 1 /\ pick(x) \in J(x)
  <2>1. x[1] \in Thread /\ x[2] \in DOMAIN todo[x[1]] /\ todo[x[1]][x[2]].to = o
    BY <1>1, <1>5 DEF Ann
  <2>2. IncOK(todo[x[1]], x[2], x[1])
    BY <1>3, <1>5, <2>1 DEF StepsOK, StepOK
  <2>3. x[2] = 1 /\ J(x) # {}
    BY <2>1, <2>2 DEF IncOK
  <2> QED
    BY <2>3
<1>6. ASSUME NEW x \in P, todo[x[1]][x[2]].op # "inc"
      PROVE  todo[x[1]][x[2]].inc = 1 /\ x \in Q
  <2>1. /\ x = <<x[1], x[2]>> /\ x[1] \in Thread /\ x[2] \in DOMAIN todo[x[1]] /\ todo[x[1]][x[2]].to = o
        /\ todo[x[1]][x[2]].op = "send" /\ todo[x[1]][x[2]].inc = 1
    BY <1>1, <1>6 DEF Ann
  <2>2. SendOK(todo[x[1]], x[2], x[1])
    BY <1>3, <2>1 DEF StepsOK, StepOK
  <2>3. todo[x[1]][x[2]].type \in SeqCommand
    BY <2>1, <2>2 DEF SendOK, SeqCommand
  <2> QED
    BY <1>2, <1>4, <2>1, <2>3
<1>7. ASSUME NEW x \in P
      PROVE  /\ f[x] \in Q /\ f[x][1] = x[1]
             /\ (todo[x[1]][x[2]].op = "inc" => x[2] = 1 /\ todo[f[x][1]][f[x][2]].inc = 0)
             /\ (todo[x[1]][x[2]].op # "inc" => f[x] = x /\ todo[f[x][1]][f[x][2]].inc = 1)
  <2>1. CASE todo[x[1]][x[2]].op = "inc"
    <3>1. f[x] = <<x[1], pick(x)>> /\ x[1] \in Thread
      BY <1>1, <2>1
    <3>2. /\ pick(x) \in DOMAIN todo[x[1]] /\ todo[x[1]][pick(x)].op = "send" /\ todo[x[1]][pick(x)].to = o
          /\ todo[x[1]][pick(x)].type \in SeqCommand /\ todo[x[1]][pick(x)].inc = 0 /\ x[2] = 1
      BY <1>5, <2>1
    <3> HIDE DEF f, pick
    <3>3. todo[x[1]][pick(x)] \in Sends(SeqTo(o))
      BY <1>4, <3>1, <3>2
    <3>4. f[x][1] = x[1] /\ f[x][2] = pick(x) /\ f[x] = <<f[x][1], f[x][2]>>
      BY <3>1
    <3>5. f[x] \in Q
      BY <1>2, <3>1, <3>2, <3>3, <3>4
    <3> QED
      BY <2>1, <3>2, <3>4, <3>5
  <2>2. CASE todo[x[1]][x[2]].op # "inc"
    <3>1. f[x] = x
      BY <2>2
    <3> QED
      BY <1>6, <2>2, <3>1
  <2> QED
    BY <2>1, <2>2
<1> HIDE DEF f
<1>8. f \in Injection(P, Q)
  <2>1. f \in [P -> Q]
    BY <1>7 DEF f
  <2>2. ASSUME NEW x \in P, NEW y \in P, f[x] = f[y] PROVE x = y
    <3>1. x[1] = y[1]
      BY <1>7, <2>2
    <3>2. todo[x[1]][x[2]].op = "inc" <=> todo[y[1]][y[2]].op = "inc"
      BY <1>7, <2>2
    <3>3. CASE todo[x[1]][x[2]].op = "inc"
      <4>1. x[2] = 1 /\ y[2] = 1
        BY <1>7, <3>2, <3>3
      <4> QED
        BY <1>1, <3>1, <4>1
    <3>4. CASE todo[x[1]][x[2]].op # "inc"
      BY <1>7, <2>2, <3>2, <3>4
    <3> QED
      BY <3>3, <3>4
  <2> QED
    BY <2>1, <2>2 DEF Injection, IsInjective
<1>9. Cardinality(P) <= Cardinality(Q)
  <2> HIDE DEF P, Q
  <2> QED
    BY <1>2, <1>8, FS_Injection
<1> QED
  BY <1>9 DEF NAnn, Count

\* A step that a thread makes and forgets: an increment, a command that is sent, or
\* a check of an object that cannot go yet.
Rise(st) == IF st.op = "inc" THEN 1 ELSE IF st.op = "send" THEN st.inc ELSE 0
Posted(st) == IF st.op = "send"
              THEN [mailbox EXCEPT ![Tid[st.to]] = Append(@, Com(st.to, st.type, st.arg))]
              ELSE mailbox
Passes(t) ==
    /\ Runner(t, Tail(todo[t])) /\ Now(t).op \in {"inc", "send", "check"}
    /\ UNCHANGED <<polled, engine, pending, pipe, pstate, psession, endpoints, closed, immediate>> /\ failed' = {}
    /\ mailbox' = Posted(Now(t))
    /\ IF Now(t).op = "check" THEN own' = own /\ ~CanGo(own[Now(t).to])
       ELSE own' = [own EXCEPT ![Now(t).to].sent_seqnum = @ + Rise(Now(t))]

\* A command that is sent is where it was about to be: in flight.
LEMMA PassMailbox ==
    ASSUME IInv, NEW t, Passes(t)
    PROVE  /\ mailbox' \in [Thread -> Seq(Cmd)]
           /\ \A D : Count(mailbox', D) = Count(mailbox, D) + B(Now(t) \in Sends(D))
<1> SUFFICES ASSUME NEW h, h = Now(t) PROVE /\ mailbox' \in [Thread -> Seq(Cmd)]
                                            /\ \A D : Count(mailbox', D) = Count(mailbox, D) + B(h \in Sends(D))
  OBVIOUS
<1>0. Todo /\ QType /\ mailbox \in [Thread -> Seq(Cmd)] /\ Runner(t, Tail(todo[t])) /\ mailbox' = Posted(h)
      /\ h.op \in {"inc", "send", "check"}
  BY DEF IInv, Typed, QType, Passes
<1>1. /\ h \in Work /\ h.to \in Object /\ (h.op = "send" => h \in SendStep) /\ (h.op # "send" => h \in OwnStep)
      /\ Tid[h.to] \in Thread
  BY <1>0, NowFacts, ThreadFacts
<1>2. \A D : Count(mailbox, D) \in Nat
  BY <1>0, FlightType
<1>3. CASE h.op # "send"
  <2>1. mailbox' = mailbox
    BY <1>0, <1>3 DEF Posted
  <2>2. \A D : h \notin Sends(D)
    BY <1>3 DEF Sends, SendStep
  <2> QED
    BY <1>0, <1>2, <2>1, <2>2 DEF B
<1>4. CASE h.op = "send"
  <2> DEFINE c == Com(h.to, h.type, h.arg)
             u == Tid[h.to]
             g == mailbox'
  <2>1. c \in Cmd /\ u \in Thread /\ IsFiniteSet(Thread) /\ mailbox[u] \in Seq(Cmd)
        /\ \A D : h \in Sends(D) <=> c \in D
    BY <1>0, <1>1, <1>4, ThreadFacts DEF SendStep, Cmd, Com, Sends
  <2> HIDE DEF c, u
  <2>2. g = [mailbox EXCEPT ![u] = Append(@, c)]
    BY <1>0, <1>4 DEF Posted, c, u
  <2>3. Append(mailbox[u], c) \in Seq(Cmd)
    BY <2>1, AppendProperties
  <2>4. g \in [Thread -> Seq(Cmd)] /\ g[u] = Append(mailbox[u], c) /\ Moves(Thread, Cmd, mailbox, g, u)
    BY <1>0, <2>1, <2>2, <2>3 DEF Moves
  <2> HIDE DEF g
  <2>5. ASSUME NEW D PROVE Count(g, D) = Count(mailbox, D) + B(c \in D)
    <3>0. Moves(Thread, Cmd, mailbox, g, u)
      BY <2>4
    <3>4. /\ Count(mailbox, D) \in Nat /\ SeqCount(mailbox[u], D) \in Nat /\ SeqCount(g[u], D) \in Nat
      BY <3>0, CountUpdate
    <3>1. Count(g, D) = (Count(mailbox, D) - SeqCount(mailbox[u], D)) + SeqCount(g[u], D)
      BY <3>0, CountUpdate
    <3>2. SeqCount(Append(mailbox[u], c), D) = SeqCount(mailbox[u], D) + B(c \in D)
      BY <2>1, CountAppend
    <3>3. B(c \in D) \in Nat
      BY DEF B
    <3> QED
      BY <2>4, <3>1, <3>2, <3>3, <3>4
  <2>6. \A D : B(h \in Sends(D)) = B(c \in D)
    BY <2>1 DEF B
  <2> QED
    BY <2>4, <2>5, <2>6 DEF g
<1> QED
  BY <1>3, <1>4

\* Passing over a step that sends nothing changes no command,
LEMMA PassFlight ==
    ASSUME IInv, NEW t, Passes(t)
    PROVE  /\ QType' /\ \A D : Flight(D)' = Flight(D)
           /\ \A T : SameCounts(T)
<1>0. QType /\ Runner(t, Tail(todo[t]))
  BY DEF IInv, Typed, Passes
<1>1. QType'
  <2>1. todo' \in [Thread -> Seq(Work)]
    <3>1. todo' \in [Thread -> Seq(Work)] /\ todo'[t] = Tail(todo[t])
      BY <1>0, RunnerCount
    <3> QED
      BY <3>1
  <2> QED
    BY <2>1, PassMailbox DEF QType
<1>2. ASSUME NEW D PROVE Flight(D)' = Flight(D)
  <2>1. Count(mailbox', D) = Count(mailbox, D) + B(Now(t) \in Sends(D))
    BY PassMailbox
  <2>2. Count(todo', Sends(D)) = Count(todo, Sends(D)) - B(Now(t) \in Sends(D))
    BY <1>0, DropCount
  <2>3. Count(mailbox, D) \in Nat /\ Count(todo, Sends(D)) \in Nat /\ B(Now(t) \in Sends(D)) \in Nat
    BY <1>0, FlightType DEF B
  <2>4. Count(mailbox', D) + Count(todo', Sends(D)) = Count(mailbox, D) + Count(todo, Sends(D))
    BY <2>1, <2>2, <2>3
  <2> QED
    BY <2>4 DEF Flight
<1>3. \A T : SameCounts(T)
  BY <1>2 DEF SameCounts, Plugs, Attaches, Terms, Acks, Owns, Binds, Hiccups, PT, PA
<1> QED
  BY <1>1, <1>2, <1>3

\* The objects: a counter goes up, by an announcement that was to be made.
LEMMA PassOwn ==
    ASSUME IInv, NEW t, Passes(t), NEW h, h = Now(t)
    PROVE  /\ own' \in [Object -> OwnRecord] /\ SameShape /\ SameAlive
           /\ Rise(h) \in {0, 1} /\ h.to \in Object
           /\ h.op # "check" => Alive(h.to)
           /\ \A x \in Object : /\ own'[x].sent_seqnum = own[x].sent_seqnum + (IF x = h.to THEN Rise(h) ELSE 0)
                                /\ own'[x].processed_seqnum = own[x].processed_seqnum
                                /\ own'[x].term_acks = own[x].term_acks
                                /\ (x # h.to \/ Rise(h) = 0 => own'[x] = own[x])
                                /\ NAnn(x)' = NAnn(x) - (IF x = h.to THEN Rise(h) ELSE 0)
<1>0. /\ Typed /\ Todo /\ own \in [Object -> OwnRecord] /\ Runner(t, Tail(todo[t]))
      /\ h.op \in {"inc", "send", "check"}
      /\ IF h.op = "check" THEN own' = own ELSE own' = [own EXCEPT ![h.to].sent_seqnum = @ + Rise(h)]
  BY DEF IInv, Typed, Passes
<1>1. /\ h \in Work /\ h.to \in Object /\ (h.op = "send" => h \in SendStep) /\ h = todo[t][1] /\ StepOK(todo[t], 1, t)
      /\ t \in Thread /\ todo[t] # <<>> /\ todo[t] \in Seq(Work)
      /\ (h.op # "send" => h \in OwnStep)
  BY <1>0, NowFacts DEF Runner
<1>2. Rise(h) \in {0, 1}
  BY <1>0, <1>1 DEF Rise, SendStep
<1>3. h.op # "check" => Alive(h.to)
  BY <1>0, <1>1 DEF StepOK, IncOK, SendOK, CommandOK, Com
<1>4. own[h.to] \in OwnRecord /\ own[h.to].sent_seqnum \in Nat
  BY <1>0, <1>1 DEF OwnRecord
<1> DEFINE r == [own[h.to] EXCEPT !.sent_seqnum = @ + Rise(h)]
<1>5. /\ r \in OwnRecord /\ r.sent_seqnum = own[h.to].sent_seqnum + Rise(h)
      /\ r.life = own[h.to].life /\ r.owner = own[h.to].owner /\ r.owned = own[h.to].owned
      /\ r.terminating = own[h.to].terminating /\ r.processed_seqnum = own[h.to].processed_seqnum
      /\ r.term_acks = own[h.to].term_acks
      /\ (Rise(h) = 0 => r = own[h.to])
  BY <1>2, <1>4 DEF OwnRecord
<1>6. h.op # "check" => own' = [own EXCEPT ![h.to] = r]
  BY <1>0
<1> HIDE DEF r
<1>7. /\ own' \in [Object -> OwnRecord]
      /\ (h.op # "check" => own'[h.to] = r /\ \A x \in Object : x # h.to => own'[x] = own[x])
      /\ (h.op = "check" => own' = own)
  <2>1. CASE h.op = "check"
    BY <1>0, <2>1
  <2>2. CASE h.op # "check"
    BY <1>0, <1>1, <1>5, <1>6, <2>2, OneOwn
  <2> QED
    BY <2>1, <2>2
<1>8. h.op = "check" => Rise(h) = 0
  BY DEF Rise
<1>9. SameShape
  BY <1>3, <1>5, <1>7 DEF SameShape, Alive, Made
<1>10. \A x \in Object : /\ own'[x].sent_seqnum = own[x].sent_seqnum + (IF x = h.to THEN Rise(h) ELSE 0)
                         /\ own'[x].processed_seqnum = own[x].processed_seqnum
                         /\ own'[x].term_acks = own[x].term_acks
                         /\ (x # h.to \/ Rise(h) = 0 => own'[x] = own[x])
  <2>1. \A x \in Object : own[x].sent_seqnum \in Nat
    BY <1>0 DEF OwnRecord
  <2> QED
    BY <1>5, <1>7, <1>8, <2>1
<1>11. ASSUME NEW x \in Object PROVE NAnn(x)' = NAnn(x) - (IF x = h.to THEN Rise(h) ELSE 0)
  <2>1. Count(todo', Ann(x)) = Count(todo, Ann(x)) - B(Now(t) \in Ann(x))
    BY <1>0, DropCount
  <2>2. B(h \in Ann(x)) = IF x = h.to THEN Rise(h) ELSE 0
    BY <1>0, <1>1, <1>2 DEF Ann, Rise, B, SendStep
  <2> QED
    BY <2>1, <2>2 DEF NAnn
<1>12. SameAlive
  <2> SUFFICES ASSUME NEW x \in Object PROVE Going(x)' <=> Going(x)
    BY <1>9 DEF SameAlive, SameShape, Alive
  <2>1. delete(x) # h
    BY <1>0 DEF delete
  <2>2. CASE Tid[x] # t
    <3>1. todo'[Tid[x]] = todo[Tid[x]]
      BY <1>0, <2>2, ThreadFacts, RunnerCount
    <3> QED
      BY <3>1 DEF Going
  <2>3. CASE Tid[x] = t
    <3>1. todo'[t] = Tail(todo[t])
      BY <1>0, RunnerCount
    <3>2. delete(x) \in Range(Tail(todo[t])) <=> delete(x) \in Range(todo[t])
      <4>1. /\ \A i \in DOMAIN Tail(todo[t]) : i + 1 \in DOMAIN todo[t] /\ Tail(todo[t])[i] = todo[t][i + 1]
            /\ \A i \in DOMAIN todo[t] : i # 1 => i - 1 \in DOMAIN Tail(todo[t]) /\ Tail(todo[t])[i - 1] = todo[t][i]
        BY <1>1, TailFacts
      <4>2. ASSUME delete(x) \in Range(Tail(todo[t])) PROVE delete(x) \in Range(todo[t])
        BY <4>1, <4>2 DEF Range
      <4>3. ASSUME delete(x) \in Range(todo[t]) PROVE delete(x) \in Range(Tail(todo[t]))
        <5>1. PICK i \in DOMAIN todo[t] : todo[t][i] = delete(x)
          BY <4>3 DEF Range
        <5>2. i # 1
          BY <1>1, <2>1, <5>1
        <5> QED
          BY <4>1, <5>1, <5>2 DEF Range
      <4> QED
        BY <4>2, <4>3
    <3> QED
      BY <2>3, <3>1, <3>2 DEF Going
  <2> QED
    BY <2>2, <2>3
<1> QED
  BY <1>1, <1>2, <1>3, <1>7, <1>9, <1>10, <1>11, <1>12

\* Where the commands and the steps are found afterwards.
LEMMA PassBoxes ==
    ASSUME IInv, NEW t, Passes(t), NEW h, h = Now(t), NEW u \in Thread
    PROVE  \/ mailbox'[u] = mailbox[u]
           \/ /\ h.op = "send" /\ u = Tid[h.to] /\ Len(mailbox[u]) \in Nat
              /\ DOMAIN mailbox[u] = 1..Len(mailbox[u]) /\ DOMAIN mailbox'[u] = 1..(Len(mailbox[u]) + 1)
              /\ \A i \in DOMAIN mailbox[u] : mailbox'[u][i] = mailbox[u][i]
              /\ mailbox'[u][Len(mailbox[u]) + 1] = Com(h.to, h.type, h.arg)
<1>0. /\ Todo /\ mailbox \in [Thread -> Seq(Cmd)] /\ Runner(t, Tail(todo[t])) /\ mailbox' = Posted(h)
  BY DEF IInv, Typed, QType, Passes
<1>1. h.to \in Object /\ (h.op = "send" => h \in SendStep) /\ Tid[h.to] \in Thread
  BY <1>0, NowFacts, ThreadFacts
<1>2. CASE h.op = "send" /\ u = Tid[h.to]
  <2> DEFINE c == Com(h.to, h.type, h.arg)
  <2>1. c \in Cmd /\ mailbox[u] \in Seq(Cmd)
    BY <1>0, <1>1, <1>2 DEF SendStep, Cmd, Com
  <2> HIDE DEF c
  <2>2. mailbox'[u] = Append(mailbox[u], c)
    BY <1>0, <1>2 DEF Posted, c
  <2>3. /\ Append(mailbox[u], c) \in Seq(Cmd) /\ Len(Append(mailbox[u], c)) = Len(mailbox[u]) + 1
        /\ \A i \in 1..Len(mailbox[u]) : Append(mailbox[u], c)[i] = mailbox[u][i]
        /\ Append(mailbox[u], c)[Len(mailbox[u]) + 1] = c
    BY <2>1, AppendProperties
  <2>4. /\ Len(mailbox[u]) \in Nat /\ DOMAIN mailbox[u] = 1..Len(mailbox[u])
        /\ DOMAIN Append(mailbox[u], c) = 1..Len(Append(mailbox[u], c))
    BY <2>1, <2>3, LenProperties
  <2> QED
    BY <1>2, <2>2, <2>3, <2>4 DEF c
<1>3. CASE ~(h.op = "send" /\ u = Tid[h.to])
  BY <1>0, <1>3 DEF Posted
<1> QED
  BY <1>2, <1>3

\* leaves the rest of the steps,
LEMMA PassTodo ==
    ASSUME IInv, NEW t, Passes(t), NEW u \in Thread
    PROVE  /\ u # t => todo'[u] = todo[u]
           /\ u = t => /\ todo'[u] = Tail(todo[u]) /\ todo[u] \in Seq(Work) /\ todo[u] # <<>>
                       /\ \A i \in DOMAIN todo'[u] : i \in Nat /\ i + 1 \in DOMAIN todo[u] /\ todo'[u][i] = todo[u][i + 1]
                       /\ \A i \in DOMAIN todo[u] : i # 1 => i - 1 \in DOMAIN todo'[u] /\ todo'[u][i - 1] = todo[u][i]
<1>1. Runner(t, Tail(todo[t])) /\ todo[t] \in Seq(Work) /\ todo[t] # <<>>
  BY DEF Passes, Runner, QType
<1>2. todo'[t] = Tail(todo[t]) /\ \A v \in Thread : v # t => todo'[v] = todo[v]
  BY <1>1, RunnerCount
<1>3. /\ \A i \in DOMAIN Tail(todo[t]) : i \in Nat /\ i + 1 \in DOMAIN todo[t] /\ Tail(todo[t])[i] = todo[t][i + 1]
      /\ \A i \in DOMAIN todo[t] : i # 1 => i - 1 \in DOMAIN Tail(todo[t]) /\ Tail(todo[t])[i - 1] = todo[t][i]
  BY <1>1, TailFacts
<1> QED
  BY <1>1, <1>2, <1>3

\* which stay well formed,
LEMMA PassCommands ==
    ASSUME IInv, NEW t, Passes(t)
    PROVE  Grows /\ Commands' /\ Todo'
<1> SUFFICES ASSUME NEW h, h = Now(t) PROVE Grows /\ Commands' /\ Todo'
  OBVIOUS
<1>0. /\ Todo /\ QType /\ Commands /\ Runner(t, Tail(todo[t])) /\ psession' = psession
  BY DEF IInv, Typed, Passes
<1>1. Grows
  BY <1>0, PassOwn, SameGrows
<1>2. Commands'
  <2> SUFFICES ASSUME NEW u \in Thread, NEW i \in DOMAIN mailbox'[u], NEW m, m = mailbox'[u][i]
               PROVE CommandOK(m, u)'
    BY DEF Commands
  <2>0. CommandOK(m, u) => CommandOK(m, u)'
    BY <1>1, CommandFrame
  <2>1. CASE mailbox'[u] = mailbox[u]
    BY <1>0, <2>0, <2>1 DEF Commands
  <2>2. CASE mailbox'[u] # mailbox[u]
    <3>1. /\ h.op = "send" /\ u = Tid[h.to] /\ Len(mailbox[u]) \in Nat
          /\ DOMAIN mailbox[u] = 1..Len(mailbox[u]) /\ DOMAIN mailbox'[u] = 1..(Len(mailbox[u]) + 1)
          /\ \A j \in DOMAIN mailbox[u] : mailbox'[u][j] = mailbox[u][j]
          /\ mailbox'[u][Len(mailbox[u]) + 1] = Com(h.to, h.type, h.arg)
      BY <2>2, PassBoxes
    <3>2. CASE i \in DOMAIN mailbox[u]
      BY <1>0, <2>0, <3>1, <3>2 DEF Commands
    <3>3. CASE i \notin DOMAIN mailbox[u]
      <4>1. i = Len(mailbox[u]) + 1
        BY <3>1, <3>3
      <4>2. StepOK(todo[t], 1, t) /\ h = todo[t][1]
        BY <1>0, NowFacts
      <4>3. CommandOK(Com(h.to, h.type, h.arg), u)
        BY <3>1, <4>2 DEF StepOK, SendOK
      <4> QED
        BY <2>0, <3>1, <4>1, <4>3
    <3> QED
      BY <3>2, <3>3
  <2> QED
    BY <2>1, <2>2
<1>3. Todo'
  <2> SUFFICES ASSUME NEW u \in Thread, NEW s, s = todo'[u] PROVE StepsOK(s, u)'
    BY DEF Todo
  <2>1. s \in Seq(Work) /\ StepsOK(s, u)
    <3>1. todo[u] \in Seq(Work) /\ StepsOK(todo[u], u)
      BY <1>0 DEF Todo, QType
    <3>2. CASE u # t
      BY <3>1, <3>2, PassTodo
    <3>3. CASE u = t
      <4>1. s = Tail(todo[u]) /\ todo[u] # <<>>
        BY <3>3, PassTodo
      <4> QED
        BY <3>1, <4>1, TailOK, TailFacts
    <3> QED
      BY <3>2, <3>3
  <2> QED
    BY <1>1, <2>1, StepsFrame
<1> QED
  BY <1>1, <1>2, <1>3

\* Only one thread has commands about a pipe for one object.
LEMMA PipeSender ==
    ASSUME Todo, Typed, NEW t \in Thread, NEW u \in Thread, NEW i \in DOMAIN todo[t], NEW k \in DOMAIN todo[u],
           todo[t][i].op = "send", todo[u][k].op = "send",
           todo[t][i].to = todo[u][k].to, todo[t][i].arg = todo[u][k].arg,
           todo[t][i].type \in PipeCommand, todo[u][k].type \in PipeCommand
    PROVE  t = u
<1>1. ASSUME NEW v \in Thread, NEW j \in DOMAIN todo[v], todo[v][j].op = "send", todo[v][j].type \in PipeCommand
      PROVE  v = Tid[IF todo[v][j].to = Socket THEN psession[todo[v][j].arg] ELSE Socket]
  <2>1. SendOK(todo[v], j, v)
    BY <1>1 DEF Todo, StepsOK, StepOK
  <2>2. CASE todo[v][j].type \in {"bind", "hiccup"}
    BY <2>1, <2>2 DEF SendOK, CommandOK, Com
  <2>3. CASE todo[v][j].type \in {"pipe_term", "pipe_term_ack"}
    BY <2>1, <2>3 DEF SendOK
  <2> QED
    BY <1>1, <2>2, <2>3 DEF PipeCommand
<1>2. t = Tid[IF todo[t][i].to = Socket THEN psession[todo[t][i].arg] ELSE Socket]
  BY <1>1
<1>3. u = Tid[IF todo[u][k].to = Socket THEN psession[todo[u][k].arg] ELSE Socket]
  BY <1>1
<1> QED
  BY <1>2, <1>3

\* No order to go waits for an object whose plug is about to be sent.
LEMMA PlugBefore ==
    ASSUME IInv, NEW t \in Thread, todo[t] # <<>>, NEW h, h = Now(t), h.op = "send", h.type = "plug",
           NEW u \in Thread, NEW i \in DOMAIN mailbox[u], mailbox[u][i].type = "term", mailbox[u][i].to = h.to
    PROVE  FALSE
<1>0. /\ Todo /\ QType /\ Children
  BY DEF IInv, Typed
<1>1. todo[t] \in Seq(Work) /\ h = todo[t][1] /\ 1 \in DOMAIN todo[t] /\ h \in Work
  BY <1>0, TailFacts DEF QType, Now
<1>2. SendOK(todo[t], 1, t)
  BY <1>0, <1>1 DEF Todo, StepsOK, StepOK
<1> DEFINE o == h.to
<1>3. /\ 2 \in DOMAIN todo[t] /\ todo[t][2].op = "send" /\ todo[t][2].type = "own" /\ todo[t][2].arg = o
      /\ Alive(o) /\ o # Socket /\ o \in Object
  BY <1>1, <1>2 DEF SendOK, CommandOK, Com
<1> HIDE DEF o
<1>4. todo[t][2] \in SendStep
  <2>1. todo[t][2] \in Work
    BY <1>1, <1>3, ElementOfSeq, LenProperties
  <2> QED
    BY <1>3, <2>1 DEF Work, SendStep, OwnStep
<1>5. Owns(o) >= 1
  <2>1. todo[t][2] \in Sends(About(o, "own"))
    BY <1>3, <1>4 DEF Sends, About, Com, Cmd, SendStep
  <2> QED
    BY <1>0, <1>3, <2>1, PlannedInFlight DEF Owns
<1>6. Terms(o) >= 1
  <2>1. mailbox[u][i] \in Cmd
    BY <1>0, ElementOfSeq, LenProperties DEF QType
  <2>2. mailbox[u][i] \in To(o, "term")
    BY <2>1 DEF To, o
  <2> QED
    BY <1>0, <2>2, WaitingInFlight DEF Terms
<1>7. Owns(o) + B(o \in own[own[o].owner].owned) + Terms(o) + B(o \in pending) + B(own[o].terminating) = 1
  BY <1>0, <1>3 DEF Children, ChildOK, Alive, Made
<1> QED
  BY <1>0, <1>5, <1>6, <1>7, CountsType DEF B

\* The commands stay in order: the one that is sent was to come after what waits,
\* and before what its thread will send.
LEMMA PassOrder ==
    ASSUME IInv, NEW t, Passes(t)
    PROVE  Order'
<1> SUFFICES ASSUME NEW h, h = Now(t) PROVE Order'
  OBVIOUS
<1>0. /\ Todo /\ Typed /\ QType /\ Order /\ Runner(t, Tail(todo[t])) /\ t \in Thread /\ todo[t] # <<>>
  BY DEF IInv, Typed, Passes, Runner
<1>1. h = todo[t][1] /\ 1 \in DOMAIN todo[t] /\ todo[t] \in Seq(Work) /\ h.to \in Object
  BY <1>0, NowFacts
<1> DEFINE c == Com(h.to, h.type, h.arg)
<1>2. c.to = h.to /\ c.type = h.type /\ c.arg = h.arg
  BY DEF Com
<1> HIDE DEF c
<1>3. ASSUME NEW u \in Thread, NEW i \in DOMAIN mailbox'[u]
      PROVE  \/ i \in DOMAIN mailbox[u] /\ mailbox'[u][i] = mailbox[u][i]
             \/ /\ i \notin DOMAIN mailbox[u] /\ mailbox'[u][i] = c /\ h.op = "send" /\ u = Tid[h.to]
                /\ \A j \in DOMAIN mailbox'[u] : i >= j
  <2>1. CASE mailbox'[u] = mailbox[u]
    BY <2>1
  <2>2. CASE mailbox'[u] # mailbox[u]
    <3>1. /\ h.op = "send" /\ u = Tid[h.to] /\ Len(mailbox[u]) \in Nat
          /\ DOMAIN mailbox[u] = 1..Len(mailbox[u]) /\ DOMAIN mailbox'[u] = 1..(Len(mailbox[u]) + 1)
          /\ \A j \in DOMAIN mailbox[u] : mailbox'[u][j] = mailbox[u][j]
          /\ mailbox'[u][Len(mailbox[u]) + 1] = c
      BY <2>2, PassBoxes DEF c
    <3>2. CASE i \in DOMAIN mailbox[u]
      BY <3>1, <3>2
    <3>3. CASE i \notin DOMAIN mailbox[u]
      <4>1. i = Len(mailbox[u]) + 1
        BY <3>1, <3>3
      <4> QED
        BY <3>1, <3>3, <4>1
    <3> QED
      BY <3>2, <3>3
  <2> QED
    BY <2>1, <2>2
<1>4. ASSUME NEW u \in Thread, NEW i \in DOMAIN mailbox'[u], NEW j \in DOMAIN mailbox'[u], i < j,
             NEW m, m = mailbox'[u][i], NEW n, n = mailbox'[u][j]
      PROVE  Sorted(m, n) /\ ~(m.type = "term" /\ n.type = "plug" /\ m.to = n.to)
  <2>0. i \in Int /\ j \in Int
    <3>1. mailbox' \in [Thread -> Seq(Cmd)]
      BY PassMailbox
    <3>2. mailbox'[u] \in Seq(Cmd)
      BY <3>1
    <3> QED
      BY <3>2, LenProperties
  <2>1. i \in DOMAIN mailbox[u] /\ m = mailbox[u][i]
    BY <1>3, <1>4, <2>0
  <2>2. CASE j \in DOMAIN mailbox[u] /\ n = mailbox[u][j]
    BY <1>0, <1>4, <2>1, <2>2 DEF Order
  <2>3. CASE n = c /\ h.op = "send" /\ u = Tid[h.to]
    <3>1. Sorted(m, h)
      BY <1>0, <1>1, <2>1, <2>3 DEF Order
    <3>2. Sorted(m, n)
      BY <1>2, <2>3, <3>1 DEF Sorted
    <3>3. ~(m.type = "term" /\ n.type = "plug" /\ m.to = n.to)
      BY <1>0, <1>2, <2>1, <2>3, PlugBefore
    <3> QED
      BY <3>2, <3>3
  <2> QED
    BY <1>3, <1>4, <2>2, <2>3
<1>5. ASSUME NEW u \in Thread, NEW k \in DOMAIN todo'[u], NEW st, st = todo'[u][k], st.op = "send"
      PROVE  /\ \A j \in DOMAIN mailbox'[Tid[st.to]] : Sorted(mailbox'[Tid[st.to]][j], st)
             /\ \A j \in DOMAIN todo'[u] : j < k /\ todo'[u][j].op = "send" => Sorted(todo'[u][j], st)
  <2>1. /\ u # t => todo'[u] = todo[u]
        /\ u = t => /\ todo[u] \in Seq(Work) /\ todo[u] # <<>>
                    /\ \A i \in DOMAIN todo'[u] : i \in Nat /\ i + 1 \in DOMAIN todo[u] /\ todo'[u][i] = todo[u][i + 1]
    BY PassTodo
  <2>2. PICK l \in DOMAIN todo[u] : st = todo[u][l] /\ (u = t => l = k + 1 /\ k \in Nat) /\ (u # t => l = k)
    BY <1>5, <2>1
  <2>3. /\ \A j \in DOMAIN mailbox[Tid[st.to]] : Sorted(mailbox[Tid[st.to]][j], st)
        /\ \A j \in DOMAIN todo[u] : j < l /\ todo[u][j].op = "send" => Sorted(todo[u][j], st)
    BY <1>0, <1>5, <2>2 DEF Order
  <2>4. st \in Work /\ st.to \in Object /\ Tid[st.to] \in Thread
    <3>1. todo[u] \in Seq(Work)
      BY <1>0 DEF QType
    <3>2. st \in Work
      BY <2>2, <3>1, ElementOfSeq, LenProperties
    <3> QED
      BY <3>2, ThreadFacts DEF Work, SendStep, OwnStep
  <2>5. ASSUME h.op = "send" PROVE Sorted(h, st)
    <3>1. CASE u = t
      <4>1. 1 < l
        <5>1. k + 1 # 1
          BY <1>0, <1>1, <1>5, <3>1, TailFacts, PassTodo
        <5>2. l \in 1..Len(todo[u])
          BY <2>1, <2>2, <3>1, LenProperties
        <5> QED
          BY <2>2, <3>1, <5>1, <5>2
      <4> QED
        BY <1>1, <2>3, <2>5, <3>1, <4>1
    <3>2. CASE u # t
      <4>1. ~(h.to = st.to /\ h.arg = st.arg /\ h.type \in PipeCommand /\ st.type \in PipeCommand)
        BY <1>0, <1>1, <1>5, <2>2, <2>5, <3>2, PipeSender
      <4> QED
        BY <4>1 DEF Sorted
    <3> QED
      BY <3>1, <3>2
  <2>6. ASSUME NEW j \in DOMAIN mailbox'[Tid[st.to]] PROVE Sorted(mailbox'[Tid[st.to]][j], st)
    <3>1. CASE j \in DOMAIN mailbox[Tid[st.to]] /\ mailbox'[Tid[st.to]][j] = mailbox[Tid[st.to]][j]
      BY <2>3, <3>1
    <3>2. CASE mailbox'[Tid[st.to]][j] = c /\ h.op = "send"
      BY <1>2, <2>5, <3>2 DEF Sorted
    <3> QED
      BY <1>3, <2>4, <2>6, <3>1, <3>2
  <2>7. ASSUME NEW j \in DOMAIN todo'[u], j < k, todo'[u][j].op = "send" PROVE Sorted(todo'[u][j], st)
    <3>1. CASE u = t
      <4>1. j \in Nat /\ j + 1 \in DOMAIN todo[u] /\ todo'[u][j] = todo[u][j + 1] /\ j + 1 < l
        BY <2>1, <2>2, <2>7, <3>1
      <4> QED
        BY <2>3, <2>7, <4>1
    <3>2. CASE u # t
      BY <2>1, <2>2, <2>3, <2>7, <3>2
    <3> QED
      BY <3>1, <3>2
  <2> QED
    BY <2>6, <2>7
<1> QED
  BY <1>4, <1>5 DEF Order

\* takes no acknowledgement away,
LEMMA PassRequests ==
    ASSUME IInv, NEW t, Passes(t)
    PROVE  Requests'
<1> SUFFICES ASSUME NEW u \in Thread, NEW i \in DOMAIN mailbox'[u], NEW m, m = mailbox'[u][i], m.type = "term_req",
                    NEW h, h = Now(t)
             PROVE  \/ Alive(m.arg)'
                    \/ \E j \in DOMAIN mailbox'[u] : j > i /\ mailbox'[u][j] \in To(m.to, "term_ack")
                    \/ \E v \in Thread : \E j \in DOMAIN todo'[v] : todo'[v][j] \in Sends(To(m.to, "term_ack"))
  BY DEF Requests
<1>0. /\ Todo /\ Typed /\ QType /\ Requests /\ Commands /\ Runner(t, Tail(todo[t])) /\ t \in Thread /\ todo[t] # <<>>
      /\ SameAlive
  BY PassOwn DEF IInv, Typed, Passes, Runner
<1>1. h = todo[t][1] /\ 1 \in DOMAIN todo[t] /\ todo[t] \in Seq(Work) /\ h.to \in Object /\ StepOK(todo[t], 1, t)
  BY <1>0, NowFacts
<1> DEFINE D == To(m.to, "term_ack")
<1>2. \A j \in DOMAIN mailbox[u] : j \in DOMAIN mailbox'[u] /\ mailbox'[u][j] = mailbox[u][j]
  <2>1. CASE mailbox'[u] = mailbox[u]
    BY <2>1
  <2>2. CASE mailbox'[u] # mailbox[u]
    <3>1. /\ Len(mailbox[u]) \in Nat
          /\ DOMAIN mailbox[u] = 1..Len(mailbox[u]) /\ DOMAIN mailbox'[u] = 1..(Len(mailbox[u]) + 1)
          /\ \A j \in DOMAIN mailbox[u] : mailbox'[u][j] = mailbox[u][j]
      BY <2>2, PassBoxes
    <3> QED
      BY <3>1
  <2> QED
    BY <2>1, <2>2
<1>3. ASSUME m.arg \in Object, Alive(m.arg) PROVE Alive(m.arg)'
  BY <1>0, <1>3 DEF SameAlive
<1>4. CASE i \in DOMAIN mailbox[u]
  <2>1. m = mailbox[u][i]
    BY <1>2, <1>4
  <2>2. CommandOK(m, u)
    BY <1>0, <1>4, <2>1 DEF Commands
  <2>3. \/ Alive(m.arg)
        \/ \E j \in DOMAIN mailbox[u] : j > i /\ mailbox[u][j] \in D
        \/ \E v \in Thread : \E j \in DOMAIN todo[v] : todo[v][j] \in Sends(D)
    BY <1>0, <1>4, <2>1 DEF Requests
  <2>4. CASE Alive(m.arg)
    BY <1>3, <2>2, <2>4 DEF CommandOK
  <2>5. CASE \E j \in DOMAIN mailbox[u] : j > i /\ mailbox[u][j] \in D
    BY <1>2, <2>5
  <2>6. CASE \E v \in Thread : \E j \in DOMAIN todo[v] : todo[v][j] \in Sends(D)
    <3>1. PICK v \in Thread, j \in Nat : j \in DOMAIN todo[v] /\ todo[v][j] \in Sends(D)
      <4>1. \A v \in Thread : todo[v] \in Seq(Work)
        BY <1>0 DEF QType
      <4>2. \A v \in Thread : \A j \in DOMAIN todo[v] : j \in Nat
        BY <4>1, LenProperties
      <4> QED
        BY <2>6, <4>2
    <3>2. CASE v # t
      <4>1. todo'[v] = todo[v]
        BY <3>2, PassTodo
      <4> QED
        BY <3>1, <4>1
    <3>3. CASE v = t /\ j # 1
      <4>1. j - 1 \in DOMAIN todo'[v] /\ todo'[v][j - 1] = todo[v][j]
        BY <3>1, <3>3, PassTodo
      <4> QED
        BY <3>1, <4>1
    <3>4. CASE v = t /\ j = 1
      <4>1. h \in Sends(D)
        BY <1>1, <3>1, <3>4
      <4>2. h.op = "send" /\ h.to = m.to /\ Com(h.to, h.type, h.arg) \in D
        BY <4>1 DEF Sends, SendStep, To, Com
      <4>3. mailbox'[u] # mailbox[u]
        <5>1. mailbox'[u] = Append(mailbox[u], Com(h.to, h.type, h.arg))
          <6>1. mailbox' = Posted(h) /\ mailbox \in [Thread -> Seq(Cmd)] /\ u = Tid[h.to]
            BY <1>0, <2>2, <4>2 DEF Passes, QType, CommandOK
          <6> QED
            BY <4>2, <6>1 DEF Posted
        <5>2. mailbox[u] \in Seq(Cmd) /\ Com(h.to, h.type, h.arg) \in Cmd
          BY <1>0, <4>2 DEF QType, To
        <5>3. Len(Append(mailbox[u], Com(h.to, h.type, h.arg))) = Len(mailbox[u]) + 1 /\ Len(mailbox[u]) \in Nat
          BY <5>2, AppendProperties, LenProperties
        <5> QED
          BY <5>1, <5>3
      <4>4. /\ Len(mailbox[u]) \in Nat /\ DOMAIN mailbox[u] = 1..Len(mailbox[u])
            /\ DOMAIN mailbox'[u] = 1..(Len(mailbox[u]) + 1)
            /\ mailbox'[u][Len(mailbox[u]) + 1] = Com(h.to, h.type, h.arg)
        BY <4>3, PassBoxes
      <4>5. Len(mailbox[u]) + 1 \in DOMAIN mailbox'[u] /\ Len(mailbox[u]) + 1 > i
        BY <1>4, <4>4
      <4> QED
        BY <4>2, <4>4, <4>5
    <3> QED
      BY <3>2, <3>3, <3>4
  <2> QED
    BY <2>3, <2>4, <2>5, <2>6
<1>5. CASE i \notin DOMAIN mailbox[u]
  <2>1. /\ h.op = "send" /\ Len(mailbox[u]) \in Nat
        /\ DOMAIN mailbox[u] = 1..Len(mailbox[u]) /\ DOMAIN mailbox'[u] = 1..(Len(mailbox[u]) + 1)
        /\ mailbox'[u][Len(mailbox[u]) + 1] = Com(h.to, h.type, h.arg)
    BY <1>5, PassBoxes
  <2>2. i = Len(mailbox[u]) + 1
    BY <1>5, <2>1
  <2>3. m = Com(h.to, h.type, h.arg)
    BY <2>1, <2>2
  <2>4. h.type = "term_req" /\ h.arg = m.arg
    BY <2>3 DEF Com
  <2>5. SendOK(todo[t], 1, t)
    BY <1>1, <2>1 DEF StepOK
  <2>6. Alive(m.arg) /\ m.arg \in Object
    BY <1>1, <2>3, <2>4, <2>5 DEF SendOK, CommandOK, Com
  <2> QED
    BY <1>3, <2>6
<1> QED
  BY <1>4, <1>5

\* More is announced than processed while a command is to come.
LEMMA Ahead ==
    ASSUME IInv, NEW x \in Object
    PROVE  own[x].sent_seqnum \in Nat /\ own[x].processed_seqnum \in Nat /\ own[x].sent_seqnum >= own[x].processed_seqnum
<1>0. QType /\ Todo /\ Typed /\ Seqnums
  BY DEF IInv, Typed
<1>1. own[x].sent_seqnum \in Nat /\ own[x].processed_seqnum \in Nat
  <2>1. own[x] \in OwnRecord
    BY <1>0 DEF Typed
  <2> QED
    BY <2>1 DEF OwnRecord
<1>2. NAnn(x) <= Count(todo, Sends(SeqTo(x)))
  BY <1>0, AnnPlanned
<1>3. NAnn(x) \in Nat /\ Count(todo, Sends(SeqTo(x))) \in Nat /\ Count(mailbox, SeqTo(x)) \in Nat
  BY <1>0, AnnType, FlightType
<1>4. NSeq(x) = Count(mailbox, SeqTo(x)) + Count(todo, Sends(SeqTo(x)))
  BY DEF NSeq, Flight
<1>5. own[x].sent_seqnum + NAnn(x) = own[x].processed_seqnum + NSeq(x)
  BY <1>0 DEF Seqnums
<1> QED
  BY <1>1, <1>2, <1>3, <1>4, <1>5

\* and no check that is needed;
LEMMA PassChecked ==
    ASSUME IInv, NEW t, Passes(t)
    PROVE  Checked'
<1> SUFFICES ASSUME NEW x \in Object, Alive(x)', CanGo(own'[x]), NEW h, h = Now(t)
             PROVE  check_acks(x) \in Range(todo'[Tid[x]])
  BY DEF Checked
<1>0. /\ Todo /\ Typed /\ QType /\ Checked /\ Runner(t, Tail(todo[t])) /\ t \in Thread /\ todo[t] # <<>>
      /\ SameAlive /\ Tid[x] \in Thread
  BY PassOwn, ThreadFacts DEF IInv, Typed, Passes, Runner
<1>1. h = todo[t][1] /\ 1 \in DOMAIN todo[t] /\ todo[t] \in Seq(Work) /\ h.to \in Object
  BY <1>0, NowFacts
<1>2. own'[x] = own[x]
  <2>1. /\ own'[x].sent_seqnum = own[x].sent_seqnum + (IF x = h.to THEN Rise(h) ELSE 0)
        /\ own'[x].processed_seqnum = own[x].processed_seqnum
        /\ (x # h.to \/ Rise(h) = 0 => own'[x] = own[x]) /\ Rise(h) \in {0, 1}
    BY PassOwn
  <2>2. own[x].sent_seqnum \in Nat /\ own[x].processed_seqnum \in Nat /\ own[x].sent_seqnum >= own[x].processed_seqnum
    BY Ahead
  <2>3. own'[x].processed_seqnum = own'[x].sent_seqnum
    BY DEF CanGo
  <2> QED
    BY <2>1, <2>2, <2>3
<1>3. check_acks(x) \in Range(todo[Tid[x]])
  BY <1>0, <1>2 DEF Checked, SameAlive
<1>4. CASE Tid[x] # t
  <2>1. todo'[Tid[x]] = todo[Tid[x]]
    BY <1>0, <1>4, PassTodo
  <2> QED
    BY <1>3, <2>1
<1>5. CASE Tid[x] = t
  <2>1. PICK i \in DOMAIN todo[t] : todo[t][i] = check_acks(x)
    BY <1>3, <1>5 DEF Range
  <2>2. i # 1
    <3>1. h # check_acks(x)
      <4>1. h.op = "check" => ~CanGo(own[h.to])
        BY DEF Passes
      <4> QED
        BY <1>2, <4>1 DEF check_acks
    <3> QED
      BY <1>1, <2>1, <3>1
  <2>3. i - 1 \in DOMAIN todo'[t] /\ todo'[t][i - 1] = todo[t][i]
    BY <1>0, <2>2, PassTodo
  <2> QED
    BY <1>5, <2>1, <2>3 DEF Range
<1> QED
  BY <1>4, <1>5

\* so it preserves the invariant.
LEMMA PassStep ==
    ASSUME IInv, NEW t, Passes(t)
    PROVE  IInv'
<1> SUFFICES ASSUME NEW h, h = Now(t) PROVE IInv'
  OBVIOUS
<1>0. /\ Typed /\ QType /\ Tree /\ Links /\ Seqnums /\ Children /\ Awaited /\ Gone /\ Engines /\ PlugFirst /\ Pipes
      /\ UNCHANGED <<polled, engine, pending, pipe, pstate, psession, endpoints, closed, immediate>> /\ failed' = {}
  BY DEF IInv, Typed, Passes
<1>1. /\ own' \in [Object -> OwnRecord] /\ SameShape /\ SameAlive
      /\ Rise(h) \in {0, 1}
      /\ \A x \in Object : /\ own'[x].sent_seqnum = own[x].sent_seqnum + (IF x = h.to THEN Rise(h) ELSE 0)
                           /\ own'[x].processed_seqnum = own[x].processed_seqnum
                           /\ own'[x].term_acks = own[x].term_acks
                           /\ NAnn(x)' = NAnn(x) - (IF x = h.to THEN Rise(h) ELSE 0)
  BY PassOwn
<1>2. /\ QType' /\ \A D : Flight(D)' = Flight(D)
  BY PassFlight
<1>3. \A T : SameCounts(T)
  BY PassFlight
<1>4. Commands' /\ Todo'
  BY PassCommands
<1>5. Typed'
  BY <1>0, <1>1, <1>2 DEF Typed
<1>6. Tree'
  BY <1>0, <1>1, TreeFrame
<1>7. Links'
  <2>1. UNCHANGED <<lvars, evars, svars>>
    BY <1>0 DEF lvars, evars, svars
  <2> QED
    BY <1>0, <1>1, <2>1, LinksFrame
<1>8. SameCounts({})
  BY <1>3
<1>9. /\ \A x : Plugs(x)' = Plugs(x) /\ Attaches(x)' = Attaches(x)
      /\ \A x \in Object : Owns(x)' = Owns(x) /\ Terms(x)' = Terms(x)
      /\ \A x \in Object : Owns(x)' = Owns(x) /\ Acks(x)' = Acks(x)
  BY <1>8 DEF SameCounts
<1>10. Seqnums'
  <2> SUFFICES ASSUME NEW x \in Object
               PROVE own'[x].sent_seqnum + NAnn(x)' = own'[x].processed_seqnum + NSeq(x)'
    BY DEF Seqnums
  <2>1. NSeq(x)' = NSeq(x)
    BY <1>2 DEF NSeq
  <2>2. own[x].sent_seqnum + NAnn(x) = own[x].processed_seqnum + NSeq(x)
    BY <1>0 DEF Seqnums
  <2>3. own[x].sent_seqnum \in Nat /\ own[x].processed_seqnum \in Nat /\ NAnn(x) \in Nat
    BY <1>0, Ahead, AnnType
  <2> QED
    BY <1>1, <2>1, <2>2, <2>3
<1>11. Children'
  <2>1. pending' = pending
    BY <1>0
  <2> QED
    BY <1>0, <1>1, <1>9, <2>1, ChildrenFrame
<1>12. Awaited'
  <2>1. closed' = closed /\ pstate' = pstate
    BY <1>0
  <2>2. \A x \in Object : own'[x].term_acks = own[x].term_acks /\ Owns(x)' = Owns(x) /\ Acks(x)' = Acks(x)
    BY <1>1, <1>9
  <2> QED
    BY <1>0, <1>1, <2>1, <2>2, AwaitedFrame
<1>13. Gone'
  <2>1. pstate' = pstate
    BY <1>0
  <2> QED
    BY <1>0, <1>1, <2>1, GoneFrame
<1>14. Engines'
  <2>1. polled' = polled /\ engine' = engine
    BY <1>0
  <2> QED
    BY <1>0, <1>1, <1>9, <2>1, EnginesFrame
<1>15. PlugFirst'
  <2>1. pending' = pending
    BY <1>0
  <2> QED
    BY <1>0, <1>1, <1>9, <2>1, PlugFrame
<1>16. Pipes'
  <2>1. pstate' = pstate /\ psession' = psession /\ SameCounts({"plug", "attach", "term", "term_ack", "own"})
    BY <1>0, <1>3
  <2> QED
    BY <1>0, <2>1, PipesFrame
<1>17. Order' /\ Requests' /\ Checked'
  BY PassOrder, PassRequests, PassChecked
<1>18. failed' = {}
  BY <1>0
<1> QED
  BY <1>4, <1>5, <1>6, <1>7, <1>10, <1>11, <1>12, <1>13, <1>14, <1>15, <1>16, <1>17, <1>18 DEF IInv

\* An increment, a command that is sent, and a check that finds the object waiting.
LEMMA IncStep ==
    ASSUME IInv, NEW t \in Thread, do_inc(t)
    PROVE  IInv'
<1>0. IInv /\ QType /\ failed = {}
  BY DEF IInv, Typed
<1>1. /\ todo[t] \in Seq(Work) /\ todo[t] # <<>> /\ Now(t).op = "inc"
      /\ todo' = [todo EXCEPT ![t] = Tail(todo[t])]
      /\ own' = [own EXCEPT ![Now(t).to].sent_seqnum = @ + 1]
      /\ UNCHANGED <<lvars, evars, svars, mailbox, failed>>
  BY <1>0 DEF do_inc, Idle, Now, QType
<1>2. Tail(todo[t]) \in Seq(Work)
  BY <1>1, TailFacts
<1>3. Runner(t, Tail(todo[t]))
  BY <1>0, <1>1, <1>2 DEF Runner
<1>4. Posted(Now(t)) = mailbox /\ Rise(Now(t)) = 1
  BY <1>1 DEF Posted, Rise
<1>5. Passes(t)
  BY <1>0, <1>1, <1>3, <1>4 DEF Passes, lvars, evars, svars
<1> QED
  BY <1>5, PassStep

\* A send preserves the invariant.
LEMMA SendStepIs ==
    ASSUME IInv, NEW t \in Thread, do_send(t)
    PROVE  IInv'
<1>0. IInv /\ QType /\ failed = {}
  BY DEF IInv, Typed
<1>1. /\ todo[t] \in Seq(Work) /\ todo[t] # <<>> /\ Now(t).op = "send"
      /\ todo' = [todo EXCEPT ![t] = Tail(todo[t])]
      /\ own' = [own EXCEPT ![Now(t).to].sent_seqnum = @ + Now(t).inc]
      /\ mailbox' = [mailbox EXCEPT ![Tid[Now(t).to]] = Append(@, Com(Now(t).to, Now(t).type, Now(t).arg))]
      /\ UNCHANGED <<lvars, evars, svars, failed>>
  BY <1>0 DEF do_send, Idle, Now, QType, Com
<1>2. Tail(todo[t]) \in Seq(Work)
  BY <1>1, TailFacts
<1>3. Runner(t, Tail(todo[t]))
  BY <1>0, <1>1, <1>2 DEF Runner
<1>4. Rise(Now(t)) = Now(t).inc
  BY <1>1 DEF Rise
<1>5. Passes(t)
  BY <1>0, <1>1, <1>3, <1>4 DEF Passes, Posted, lvars, evars, svars
<1> QED
  BY <1>5, PassStep

\* A check that finds something to wait for preserves the invariant.
LEMMA WaitStep ==
    ASSUME IInv, NEW t \in Thread, check_term_acks(t), ~CanGo(own[Now(t).to])
    PROVE  IInv'
<1>0. IInv /\ QType /\ failed = {}
  BY DEF IInv, Typed
<1>1. /\ todo[t] \in Seq(Work) /\ todo[t] # <<>> /\ Now(t).op = "check"
      /\ todo' = [todo EXCEPT ![t] = Tail(todo[t])]
      /\ UNCHANGED <<own, lvars, evars, svars, mailbox, failed>>
  BY <1>0 DEF check_term_acks, Idle, Now, QType
<1>2. Tail(todo[t]) \in Seq(Work)
  BY <1>1, TailFacts
<1>3. Runner(t, Tail(todo[t]))
  BY <1>0, <1>1, <1>2 DEF Runner
<1>4. Posted(Now(t)) = mailbox
  BY <1>1 DEF Posted
<1>5. Passes(t)
  BY <1>0, <1>1, <1>3, <1>4 DEF Passes, lvars, evars, svars
<1> QED
  BY <1>5, PassStep
-----------------------------------------------------------------------------
(* check_term_acks when nothing is left to wait for *)

\* The thread t finds that the object o can go.
Finds(t, o) ==
    /\ t \in Thread /\ todo[t] # <<>> /\ Now(t).op = "check" /\ Now(t).to = o /\ CanGo(own[o])

\* An object whose check succeeds is terminating and waits for nothing.
LEMMA FindsFacts ==
    ASSUME IInv, NEW t, NEW o, Finds(t, o)
    PROVE  /\ o \in Object /\ Tid[o] = t /\ Alive(o) /\ Made(o) /\ own[o].terminating /\ own[o].owned = {}
           /\ own[o].term_acks = 0 /\ own[o].processed_seqnum = own[o].sent_seqnum
           /\ todo[t] \in Seq(Work) /\ Head(todo[t]) = check_acks(o)
           /\ \A i \in DOMAIN todo[t] : \/ i = 1 /\ todo[t][i] = check_acks(o)
                                        \/ i # 1 /\ todo[t][i].op = "send" /\ todo[t][i].type = "pipe_term_ack"
<1>0. QType /\ Todo /\ Tree /\ todo[t] \in Seq(Work) /\ todo[t] # <<>> /\ t \in Thread
  BY DEF IInv, Typed, QType, Finds
<1>1. /\ Head(todo[t]) = todo[t][1] /\ 1 \in DOMAIN todo[t] /\ Head(todo[t]) \in Work
      /\ DOMAIN todo[t] = 1..Len(todo[t]) /\ Len(todo[t]) \in Nat
  BY <1>0, TailFacts
<1>2. Head(todo[t]) = check_acks(o) /\ o \in Object
  BY <1>1 DEF Finds, Now, Work, SendStep, OwnStep, check_acks
<1>3. LastOK(todo[t], 1, t)
  BY <1>0, <1>1, <1>2 DEF Todo, StepsOK, StepOK, check_acks
<1>4. Made(o) /\ own[o].life = "live" /\ Tid[o] = t
  BY <1>1, <1>2, <1>3 DEF LastOK, check_acks
<1>5. \A i \in DOMAIN todo[t] : \/ i = 1 /\ todo[t][i] = check_acks(o)
                                \/ i # 1 /\ todo[t][i].op = "send" /\ todo[t][i].type = "pipe_term_ack"
  BY <1>1, <1>2, <1>3 DEF LastOK
<1>6. ~Going(o)
  BY <1>4, <1>5 DEF Going, Range, delete, check_acks
<1>7. own[o].terminating /\ own[o].term_acks = 0 /\ own[o].processed_seqnum = own[o].sent_seqnum
  BY DEF Finds, CanGo
<1>8. own[o].owned = {}
  BY <1>0, <1>2, <1>7 DEF Tree
<1> QED
  BY <1>0, <1>2, <1>4, <1>5, <1>6, <1>7, <1>8 DEF Alive

\* No announced command waits, and as many are to be sent as are announced.
LEMMA NoneWaits ==
    ASSUME IInv, NEW t, NEW o, Finds(t, o)
    PROVE  /\ Count(mailbox, SeqTo(o)) = 0 /\ NAnn(o) = Count(todo, Sends(SeqTo(o)))
           /\ NSeq(o) = NAnn(o) /\ NAnn(o) \in Nat
<1>0. QType /\ Todo /\ Seqnums /\ o \in Object /\ own[o].processed_seqnum = own[o].sent_seqnum
  BY FindsFacts DEF IInv, Typed
<1>1. own[o].sent_seqnum \in Nat
  BY <1>0, Ahead
<1>2. NAnn(o) <= Count(todo, Sends(SeqTo(o)))
  BY <1>0, AnnPlanned
<1>3. NAnn(o) \in Nat /\ Count(todo, Sends(SeqTo(o))) \in Nat /\ Count(mailbox, SeqTo(o)) \in Nat
  BY <1>0, AnnType, FlightType
<1>4. NSeq(o) = Count(mailbox, SeqTo(o)) + Count(todo, Sends(SeqTo(o)))
  BY DEF NSeq, Flight
<1>5. own[o].sent_seqnum + NAnn(o) = own[o].processed_seqnum + NSeq(o)
  BY <1>0 DEF Seqnums
<1> QED
  BY <1>0, <1>1, <1>2, <1>3, <1>4, <1>5

\* What the zero acknowledgements mean.
LEMMA NothingAwaited ==
    ASSUME IInv, NEW o \in Object, own[o].term_acks = 0
    PROVE  Kids(o) = {} /\ Acks(o) = 0 /\ AwaitedPipes(o) = {}
<1>0. QType /\ Awaited
  BY DEF IInv, Typed
<1>1. IsFiniteSet(Object) /\ IsFiniteSet(Pipe)
  BY OwnAssumption
<1>2. IsFiniteSet(Kids(o)) /\ IsFiniteSet(AwaitedPipes(o))
  <2>1. Kids(o) \subseteq Object /\ AwaitedPipes(o) \subseteq Pipe
    BY DEF Kids, AwaitedPipes, pipes
  <2> QED
    BY <1>1, <2>1, FS_Subset
<1>3. Cardinality(Kids(o)) \in Nat /\ Cardinality(AwaitedPipes(o)) \in Nat /\ Acks(o) \in Nat
  BY <1>0, <1>2, FS_CardinalityType, CountsType
<1>4. 0 = Cardinality(Kids(o)) + Acks(o) + Cardinality(AwaitedPipes(o))
  BY <1>0 DEF Awaited
<1>5. Cardinality(Kids(o)) = 0 /\ Acks(o) = 0 /\ Cardinality(AwaitedPipes(o)) = 0
  BY <1>3, <1>4
<1> QED
  BY <1>2, <1>5, FS_EmptySet

\* All children are gone, or going.
LEMMA NoChild ==
    ASSUME IInv, NEW t, NEW o, Finds(t, o), NEW c \in Object, own[c].owner = o
    PROVE  ~Alive(c)
<1> SUFFICES ASSUME Alive(c) PROVE FALSE
  OBVIOUS
<1>0. /\ QType /\ Commands /\ Todo /\ o \in Object /\ Tid[o] = t /\ own[o].owned = {} /\ own[o].term_acks = 0
      /\ \A i \in DOMAIN todo[t] : \/ i = 1 /\ todo[t][i] = check_acks(o)
                                   \/ i # 1 /\ todo[t][i].op = "send" /\ todo[t][i].type = "pipe_term_ack"
  BY FindsFacts DEF IInv, Typed
<1>1. Kids(o) = {}
  BY <1>0, NothingAwaited
<1>2. Flight(About(c, "own")) # 0
  BY <1>0, <1>1 DEF Kids, Owns
<1>3. ASSUME NEW u \in Thread, NEW i \in DOMAIN mailbox[u], mailbox[u][i] \in About(c, "own")
      PROVE  FALSE
  <2>1. CommandOK(mailbox[u][i], u) /\ mailbox[u][i] \in Cmd /\ mailbox[u][i].type = "own" /\ mailbox[u][i].arg = c
    BY <1>0, <1>3 DEF Commands, About
  <2>2. mailbox[u][i].to = o
    BY <2>1 DEF CommandOK
  <2>3. mailbox[u][i] \in SeqTo(o)
    BY <2>1, <2>2 DEF SeqTo, SeqCommand
  <2>4. Count(mailbox, SeqTo(o)) # 0
    <3>1. Family(Thread, Cmd, mailbox)
      BY <1>0, Families
    <3> QED
      BY <1>3, <2>3, <3>1, CountZero
  <2> QED
    BY <2>4, NoneWaits
<1>4. ASSUME NEW u \in Thread, NEW i \in DOMAIN todo[u], todo[u][i] \in Sends(About(c, "own"))
      PROVE  FALSE
  <2> DEFINE st == todo[u][i]
  <2>1. st.op = "send" /\ st.type = "own" /\ st.arg = c
    BY <1>4 DEF Sends, SendStep, About, Com
  <2>2. SendOK(todo[u], i, u)
    BY <1>0, <2>1 DEF Todo, StepsOK, StepOK
  <2>3. st.to = o /\ Tid[st.to] = u
    BY <2>1, <2>2 DEF SendOK, CommandOK, Com
  <2> QED
    BY <1>0, <2>1, <2>3 DEF check_acks
<1> QED
  BY <1>0, <1>2, <1>3, <1>4, FlightZero

\* A child that is terminating is nobody's concern any more.
LEMMA Terminating ==
    ASSUME IInv, NEW o \in Object, o # Socket, Alive(o), own[o].terminating
    PROVE  Owns(o) = 0 /\ Terms(o) = 0 /\ o \notin own[own[o].owner].owned /\ o \notin pending
<1>1. QType /\ ChildOK(o) /\ Owns(o) \in Nat /\ Terms(o) \in Nat
  BY CountsType DEF IInv, Typed, Children, Alive, Made
<1>2. Owns(o) + B(o \in own[own[o].owner].owned) + Terms(o) + B(o \in pending) + 1 = 1
  BY <1>1 DEF ChildOK, B
<1>3. B(o \in own[own[o].owner].owned) \in {0, 1} /\ B(o \in pending) \in {0, 1}
  BY DEF B
<1>4. Owns(o) = 0 /\ Terms(o) = 0 /\ B(o \in own[own[o].owner].owned) = 0 /\ B(o \in pending) = 0
  BY <1>1, <1>2, <1>3
<1> QED
  BY <1>4 DEF B

\* Nobody announces anything.
LEMMA NoneAnnounced ==
    ASSUME IInv, NEW t, NEW o, Finds(t, o)
    PROVE  /\ NAnn(o) = 0 /\ NSeq(o) = 0
           /\ \A u \in Thread : \A i \in DOMAIN todo[u] : todo[u][i] \notin Ann(o)
<1>0. /\ QType /\ Commands /\ Todo /\ Tree /\ o \in Object /\ Tid[o] = t /\ Alive(o) /\ own[o].terminating
      /\ \A i \in DOMAIN todo[t] : \/ i = 1 /\ todo[t][i] = check_acks(o)
                                   \/ i # 1 /\ todo[t][i].op = "send" /\ todo[t][i].type = "pipe_term_ack"
  BY FindsFacts DEF IInv, Typed
<1>1. ASSUME o # Socket, NEW u \in Thread, NEW i \in DOMAIN todo[u], todo[u][i].op = "send",
             todo[u][i].type = "own", todo[u][i].arg = o
      PROVE  FALSE
  <2>1. todo[u][i] \in Work
    BY <1>0, ElementOfSeq, LenProperties DEF QType
  <2>2. todo[u][i] \in Sends(About(o, "own"))
    BY <1>1, <2>1 DEF Work, OwnStep, SendStep, Sends, About, Com, Cmd
  <2>3. Owns(o) >= 1
    BY <1>0, <2>2, PlannedInFlight DEF Owns
  <2> QED
    BY <1>0, <1>1, <2>3, Terminating
<1>2. ASSUME NEW u \in Thread, NEW i \in DOMAIN todo[u], todo[u][i] \in Ann(o), todo[u][i].op = "inc"
      PROVE  FALSE
  <2>1. IncOK(todo[u], i, u) /\ todo[u][i].to = o
    BY <1>0, <1>2 DEF Todo, StepsOK, StepOK, Ann
  <2>2. Keeps(todo[u], u) /\ todo[u][1].to = o
    BY <2>1 DEF IncOK
  <2>3. CASE o \in Accepted /\ \E j \in DOMAIN todo[u] : todo[u][j].op = "send" /\ todo[u][j].type = "own" /\ todo[u][j].arg = o
    BY <1>1, <2>3, OwnAssumption DEF Session
  <2>4. CASE o \in Connected /\ \E c \in Object : own[c].owner = o /\ Alive(c) /\ Tid[c] = u
    BY <2>4, NoChild
  <2>5. CASE o = Socket /\ \E c \in Session : Alive(c) /\ Tid[c] = u
    <3>1. PICK c \in Session : Alive(c)
      BY <2>5
    <3>2. c # Socket /\ c \in Object /\ c \notin Listener /\ c \notin Connecter
      BY SocketIn, OwnAssumption
    <3>3. own[c].owner \in Object /\ Alive(own[c].owner) /\ own[c].owner \in OwnersOf(c)
      BY <1>0, <3>1, <3>2, OwnerAlive, OwnerIn DEF Alive, Made
    <3>4. CASE own[c].owner = Socket
      BY <2>5, <3>1, <3>2, <3>4, NoChild
    <3>5. CASE own[c].owner \in Listener
      <4> DEFINE l == own[c].owner
      <4>1. l # Socket /\ l \in Object /\ Alive(l)
        BY <3>3, <3>5, OwnAssumption
      <4>2. own[l].owner = Socket
        BY <1>0, <3>5, <4>1, OwnerIn DEF Alive, Made, OwnersOf
      <4> QED
        BY <2>5, <4>1, <4>2, NoChild
    <3> QED
      BY <3>2, <3>3, <3>4, <3>5 DEF OwnersOf, Session
  <2> QED
    BY <2>2, <2>3, <2>4, <2>5 DEF Keeps
<1>3. ASSUME NEW u \in Thread, NEW i \in DOMAIN todo[u], todo[u][i] \in Ann(o), todo[u][i].op # "inc"
      PROVE  FALSE
  <2>1. todo[u][i].op = "send" /\ todo[u][i].inc = 1 /\ todo[u][i].to = o
    BY <1>3 DEF Ann
  <2>2. SendOK(todo[u], i, u)
    BY <1>0, <2>1 DEF Todo, StepsOK, StepOK
  <2>3. CASE todo[u][i].type = "own"
    <3>1. u = t
      BY <1>0, <2>1, <2>2, <2>3 DEF SendOK
    <3> QED
      BY <1>0, <2>1, <2>3, <3>1 DEF check_acks
  <2>4. CASE todo[u][i].type = "plug"
    <3>1. o # Socket
      BY <2>1, <2>2, <2>4 DEF SendOK, CommandOK, Com
    <3>2. i + 1 \in DOMAIN todo[u] /\ todo[u][i + 1].op = "send" /\ todo[u][i + 1].type = "own" /\ todo[u][i + 1].arg = o
      BY <2>1, <2>2, <2>4 DEF SendOK
    <3> QED
      BY <1>1, <3>1, <3>2
  <2> QED
    BY <2>1, <2>2, <2>3, <2>4 DEF SendOK
<1>4. \A u \in Thread : \A i \in DOMAIN todo[u] : todo[u][i] \notin Ann(o)
  BY <1>2, <1>3
<1>5. NAnn(o) = 0
  <2>1. Family(Thread, Work, todo)
    BY <1>0, Families
  <2> QED
    BY <1>4, <2>1, CountZero DEF NAnn
<1> QED
  BY <1>4, <1>5, NoneWaits

\* A socket that can go has no pipe left.
LEMMA SocketEnds ==
    ASSUME IInv, NEW t, Finds(t, Socket)
    PROVE  \A p \in Pipe : pstate[<<p, "socket">>] \in {"none", "gone"}
<1> SUFFICES ASSUME NEW p \in Pipe PROVE pstate[<<p, "socket">>] \in {"none", "gone"}
  OBVIOUS
<1>0. /\ QType /\ Typed /\ Commands /\ Todo /\ Tree /\ PipeOK(p) /\ Socket \in Object
      /\ own[Socket].terminating /\ own[Socket].term_acks = 0
  BY FindsFacts DEF IInv, Typed, Pipes
<1>1. closed /\ AwaitedPipes(Socket) = {}
  BY <1>0, NothingAwaited DEF Tree
<1>2. p \notin pipes
  BY <1>1 DEF AwaitedPipes
<1>3. pstate[<<p, "socket">>] \in {"none", "unbound", "gone"}
  BY <1>2 DEF pipes
<1>4. Binds(p) = 0
  <2>1. NSeq(Socket) = 0
    BY NoneAnnounced
  <2>2. /\ \A u \in Thread : \A i \in DOMAIN mailbox[u] : mailbox[u][i] \notin SeqTo(Socket)
        /\ \A u \in Thread : \A i \in DOMAIN todo[u] : todo[u][i] \notin Sends(SeqTo(Socket))
    BY <1>0, <2>1, FlightZero DEF NSeq
  <2>3. ASSUME NEW u \in Thread, NEW i \in DOMAIN mailbox[u], mailbox[u][i] \in About(p, "bind") PROVE FALSE
    <3>1. mailbox[u][i].to = Socket
      BY <1>0, <2>3 DEF Commands, CommandOK, About
    <3> QED
      BY <2>2, <2>3, <3>1 DEF About, SeqTo, SeqCommand
  <2>4. ASSUME NEW u \in Thread, NEW i \in DOMAIN todo[u], todo[u][i] \in Sends(About(p, "bind")) PROVE FALSE
    <3>1. todo[u][i].op = "send" /\ todo[u][i].type = "bind" /\ todo[u][i] \in SendStep
      BY <2>4 DEF Sends, SendStep, About, Com
    <3>2. SendOK(todo[u], i, u)
      BY <1>0, <3>1 DEF Todo, StepsOK, StepOK
    <3>3. todo[u][i].to = Socket
      BY <3>1, <3>2 DEF SendOK, CommandOK, Com
    <3>4. todo[u][i] \in Sends(SeqTo(Socket))
      BY <2>4, <3>1, <3>3 DEF Sends, SeqTo, SeqCommand, Com, About
    <3> QED
      BY <2>2, <3>4
  <2> QED
    BY <1>0, <2>3, <2>4, FlightZero DEF Binds
<1>5. pstate[<<p, "socket">>] # "unbound"
  BY <1>0, <1>4 DEF PipeOK, Joint
<1> QED
  BY <1>3, <1>5

\* A session that can go has none.
LEMMA SessionEnds ==
    ASSUME IInv, NEW t, NEW o, Finds(t, o)
    PROVE  \A p \in Pipe : psession[p] = o => pstate[<<p, "session">>] \in {"none", "gone"}
<1> SUFFICES ASSUME NEW p \in Pipe, psession[p] = o PROVE pstate[<<p, "session">>] \in {"none", "gone"}
  OBVIOUS
<1>1. o \in Object /\ own[o].terminating /\ Typed /\ Links
  BY FindsFacts DEF IInv
<1>2. o \in Session
  <2>1. psession[p] \in Session \cup {None}
    BY <1>1 DEF Typed
  <2>2. None \notin Object
    BY OwnAssumption
  <2> QED
    BY <1>1, <2>1, <2>2
<1>3. OtherPipes(o, {}) = {}
  BY <1>1, <1>2 DEF Links
<1> QED
  BY <1>3 DEF OtherPipes

\* No command is on its way to an object that can go.
LEMMA NoSuchCommand ==
    ASSUME IInv, NEW t, NEW o, Finds(t, o), NEW m \in Cmd, NEW u, CommandOK(m, u), m.to = o, m.type # "term_req",
           \A D : m \in D => Flight(D) >= 1
    PROVE  FALSE
<1>0. /\ QType /\ Typed /\ o \in Object /\ Alive(o) /\ own[o].terminating /\ own[o].term_acks = 0
      /\ Pipes
  BY FindsFacts DEF IInv, Typed
<1>1. ASSUME m.type \in SeqCommand PROVE FALSE
  <2>1. m \in SeqTo(o)
    BY <1>1 DEF SeqTo
  <2>2. NSeq(o) = 0
    BY NoneAnnounced
  <2> QED
    BY <2>1, <2>2 DEF NSeq
<1>2. ASSUME m.type = "term" PROVE FALSE
  <2>1. m \in To(o, "term") /\ o # Socket
    BY <1>2 DEF To, CommandOK
  <2>2. Terms(o) = 0
    BY <1>0, <2>1, Terminating
  <2> QED
    BY <2>1, <2>2 DEF Terms
<1>3. ASSUME m.type = "term_ack" PROVE FALSE
  <2>1. m \in To(o, "term_ack")
    BY <1>3 DEF To
  <2>2. Acks(o) = 0
    BY <1>0, NothingAwaited
  <2> QED
    BY <2>1, <2>2 DEF Acks
<1>4. ASSUME m.type \in PipeMove PROVE FALSE
  <2> DEFINE p == m.arg
  <2>1. p \in Pipe /\ psession[p] # None /\ (m.to = Socket \/ m.to = psession[p])
    BY <1>4 DEF CommandOK, PipeMove
  <2>2. PipeOK(p) /\ psession[p] \in Session
    BY <1>0, <2>1 DEF Pipes, Typed
  <2>3. psession[p] # Socket
    BY <2>2, OwnAssumption
  <2> HIDE DEF p
  <2>4. CASE o = Socket
    <3>1. pstate[<<p, "socket">>] \in {"none", "gone"}
      BY <2>1, <2>4, SocketEnds
    <3>2. PT(p, "socket") = 0 /\ PA(p, "socket") = 0
      BY <2>2, <3>1 DEF PipeOK, Joint
    <3>3. Hiccups(p) = 0
      <4>1. Hiccups(p) \in Nat
        BY <1>0, CountsType
      <4> QED
        BY <2>2, <3>2, <4>1 DEF PipeOK
    <3>4. CASE m.type = "hiccup"
      <4>1. m \in About(p, "hiccup")
        BY <3>4 DEF About, p
      <4> QED
        BY <3>3, <4>1 DEF Hiccups
    <3>5. CASE m.type = "pipe_term"
      <4>1. m \in ToEnd(p, "socket", "pipe_term")
        BY <2>4, <3>5 DEF ToEnd, p
      <4> QED
        BY <3>2, <4>1 DEF PT
    <3>6. CASE m.type = "pipe_term_ack"
      <4>1. m \in ToEnd(p, "socket", "pipe_term_ack")
        BY <2>4, <3>6 DEF ToEnd, p
      <4> QED
        BY <3>2, <4>1 DEF PA
    <3> QED
      BY <1>4, <3>4, <3>5, <3>6 DEF PipeMove
  <2>5. CASE o # Socket
    <3>0. psession[p] = o
      BY <2>1, <2>5
    <3>1. pstate[<<p, "session">>] \in {"none", "gone"}
      BY <2>1, <3>0, SessionEnds
    <3>2. PT(p, "session") = 0 /\ PA(p, "session") = 0
      BY <2>2, <3>1 DEF PipeOK, Joint
    <3>4. m.type # "hiccup"
      BY <2>5 DEF CommandOK
    <3>5. CASE m.type = "pipe_term"
      <4>1. m \in ToEnd(p, "session", "pipe_term")
        BY <2>5, <3>5 DEF ToEnd, p
      <4> QED
        BY <3>2, <4>1 DEF PT
    <3>6. CASE m.type = "pipe_term_ack"
      <4>1. m \in ToEnd(p, "session", "pipe_term_ack")
        BY <2>5, <3>6 DEF ToEnd, p
      <4> QED
        BY <3>2, <4>1 DEF PA
    <3> QED
      BY <1>4, <3>4, <3>5, <3>6 DEF PipeMove
  <2> QED
    BY <2>4, <2>5
<1>5. m.type \in CommandType
  BY DEF Cmd
<1> QED
  BY <1>1, <1>2, <1>3, <1>4, <1>5 DEF CommandType, PipeMove

\* No command is on its way to it.
LEMMA NoCommand ==
    ASSUME IInv, NEW t, NEW o, Finds(t, o)
    PROVE  /\ \A u \in Thread : \A i \in DOMAIN mailbox[u] : mailbox[u][i].to # o
           /\ \A u \in Thread : \A i \in DOMAIN todo[u] : todo[u][i].op = "send" => todo[u][i].to # o
<1>0. /\ QType /\ Typed /\ Commands /\ Todo /\ Requests /\ o \in Object /\ own[o].term_acks = 0
  BY FindsFacts DEF IInv, Typed
<1>1. ASSUME NEW u \in Thread, NEW i \in DOMAIN todo[u], todo[u][i].op = "send", todo[u][i].to = o
      PROVE  FALSE
  <2> DEFINE st == todo[u][i]
             m == Com(st.to, st.type, st.arg)
  <2>1. st \in Work
    BY <1>0, ElementOfSeq, LenProperties DEF QType
  <2>2. st \in SendStep /\ m \in Cmd /\ m.to = o /\ m.type = st.type /\ m.arg = st.arg
    BY <1>1, <2>1 DEF Work, OwnStep, SendStep, Com, Cmd
  <2>3. SendOK(todo[u], i, u)
    BY <1>0, <1>1 DEF Todo, StepsOK, StepOK
  <2>4. CommandOK(m, Tid[o])
    BY <1>1, <2>3 DEF SendOK
  <2>5. ASSUME NEW D, m \in D PROVE Flight(D) >= 1
    <3>1. st \in Sends(D)
      BY <2>2, <2>5 DEF Sends
    <3> QED
      BY <1>0, <3>1, PlannedInFlight
  <2>6. CASE st.type = "term_req"
    <3>1. Alive(st.arg) /\ st.arg \in Object /\ own[st.arg].owner = o
      BY <1>1, <2>2, <2>3, <2>4, <2>6 DEF SendOK, CommandOK
    <3> QED
      BY <3>1, NoChild
  <2>7. CASE st.type # "term_req"
    <3> HIDE DEF m, st
    <3>1. m.type # "term_req"
      BY <2>2, <2>7
    <3> QED
      BY <2>2, <2>4, <2>5, <3>1, NoSuchCommand
  <2> QED
    BY <2>6, <2>7
<1>2. ASSUME NEW u \in Thread, NEW i \in DOMAIN mailbox[u], NEW m, m = mailbox[u][i], m.to = o
      PROVE  FALSE
  <2>1. m \in Cmd
    BY <1>0, <1>2, ElementOfSeq, LenProperties DEF QType
  <2>2. CommandOK(m, u)
    BY <1>0, <1>2 DEF Commands
  <2>3. ASSUME NEW D, m \in D PROVE Flight(D) >= 1
    BY <1>0, <1>2, <2>3, WaitingInFlight
  <2>4. CASE m.type = "term_req"
    <3>1. m.arg \in Object /\ own[m.arg].owner = o
      BY <1>2, <2>2, <2>4 DEF CommandOK
    <3>2. \/ Alive(m.arg)
          \/ \E j \in DOMAIN mailbox[u] : j > i /\ mailbox[u][j] \in To(m.to, "term_ack")
          \/ \E v \in Thread : \E j \in DOMAIN todo[v] : todo[v][j] \in Sends(To(m.to, "term_ack"))
      BY <1>0, <1>2, <2>4 DEF Requests
    <3>3. Acks(o) = 0
      BY <1>0, NothingAwaited
    <3>4. /\ \A v \in Thread : \A j \in DOMAIN mailbox[v] : mailbox[v][j] \notin To(o, "term_ack")
          /\ \A v \in Thread : \A j \in DOMAIN todo[v] : todo[v][j] \notin Sends(To(o, "term_ack"))
      BY <1>0, <3>3, FlightZero DEF Acks
    <3> QED
      BY <1>2, <3>1, <3>2, <3>4, NoChild
  <2>5. CASE m.type # "term_req"
    BY <1>2, <2>1, <2>2, <2>3, <2>5, NoSuchCommand
  <2> QED
    BY <2>4, <2>5
<1> QED
  BY <1>1, <1>2

\* The object o acknowledges its end and is about to be deleted.
Reply(o) == IF own[o].owner = None THEN <<>> ELSE <<send_command(own[o].owner, "term_ack", None)>>
Doomed(t, o) ==
    /\ Finds(t, o) /\ Runner(t, Reply(o) \o <<delete(o)>> \o Tail(todo[t]))
    /\ UNCHANGED <<own, polled, engine, pending, pipe, pstate, psession, endpoints, closed, immediate, mailbox>>
    /\ failed' = {}
Answered(o, st) == st.op = "send" /\ st.to = own[o].owner /\ st.type = "term_ack" /\ st.arg = None /\ st.inc = 0
PipeAnswer(st) == st.op = "send" /\ st.type = "pipe_term_ack"

\* The owner is there to be told.
LEMMA Superior ==
    ASSUME IInv, NEW o \in Object, Alive(o)
    PROVE  /\ o = Socket <=> own[o].owner = None
           /\ o # Socket => own[o].owner \in Object /\ Alive(own[o].owner) /\ own[o].owner # o
<1>1. o = Socket => own[o].owner = None
  BY DEF IInv, Tree
<1>2. o # Socket => own[o].owner \in Object /\ Alive(own[o].owner)
  BY OwnerAlive
<1>3. o # Socket => own[o].owner # o
  <2>1. o # Socket => own[o].owner \in OwnersOf(o)
    BY OwnerIn DEF IInv, Alive, Made
  <2> QED
    BY <2>1, OwnAssumption DEF OwnersOf, Session, Object
<1>4. None \notin Object
  BY OwnAssumption
<1> QED
  BY <1>1, <1>2, <1>3, <1>4

DoomForm(t, o, w) ==
    \A i \in DOMAIN w :
       \/ o # Socket /\ Answered(o, w[i])
       \/ w[i] = delete(o) /\ \A j \in DOMAIN w : j > i => PipeAnswer(w[j])
       \/ PipeAnswer(w[i]) /\ \E j \in DOMAIN todo[t] : w[i] = todo[t][j]

\* What its thread has to do then: acknowledge, delete, and the answers that are left.
LEMMA DoomList ==
    ASSUME IInv, NEW t, NEW o, Doomed(t, o), NEW w, w = todo'[t]
    PROVE  /\ w \in Seq(Work) /\ Tail(todo[t]) \in Seq(Work) /\ \E i \in DOMAIN w : w[i] = delete(o)
           /\ o # Socket => \E i \in DOMAIN w : Answered(o, w[i])
           /\ DoomForm(t, o, w)
           /\ \A D : SeqCount(w, D) = B(o # Socket /\ send_command(own[o].owner, "term_ack", None) \in D)
                                      + B(delete(o) \in D) + SeqCount(Tail(todo[t]), D)
<1>0. /\ QType /\ Runner(t, Reply(o) \o <<delete(o)>> \o Tail(todo[t])) /\ Finds(t, o)
  BY DEF IInv, Typed, Doomed
<1>1. /\ o \in Object /\ Alive(o) /\ todo[t] \in Seq(Work) /\ todo[t] # <<>>
      /\ \A i \in DOMAIN todo[t] : i # 1 => todo[t][i].op = "send" /\ todo[t][i].type = "pipe_term_ack"
  BY <1>0, FindsFacts DEF Finds
<1>2. /\ o = Socket <=> own[o].owner = None
      /\ o # Socket => own[o].owner \in Object
  BY <1>1, Superior
<1> DEFINE u == Tail(todo[t])
           d == delete(o)
           a == send_command(own[o].owner, "term_ack", None)
           s == Reply(o) \o <<d>>
<1>3. w = s \o u
  BY <1>0, RunnerCount
<1>4. u \in Seq(Work) /\ \A i \in DOMAIN u : PipeAnswer(u[i]) /\ \E j \in DOMAIN todo[t] : u[i] = todo[t][j]
  BY <1>1, TailFacts DEF PipeAnswer
<1>5. d \in Work /\ (o # Socket => a \in Work /\ Answered(o, a))
  <2>1. d \in Work
    BY <1>1, OwnStepFacts
  <2>2. "term_ack" \in CommandType /\ None \in Arg
    BY DEF CommandType, Arg
  <2>3. o # Socket => a \in Work /\ Answered(o, a)
    BY <1>2, <2>2, StepFacts DEF Answered
  <2> QED
    BY <2>1, <2>3
<1> HIDE DEF u, d, a
<1>6. s = IF o = Socket THEN <<d>> ELSE <<a, d>>
  <2>1. CASE o = Socket
    <3>1. Reply(o) = <<>>
      BY <1>2, <2>1 DEF Reply
    <3>2. <<d>> \in Seq(Work)
      BY <1>5
    <3>3. <<>> \o <<d>> = <<d>>
      BY <3>2
    <3> QED
      BY <2>1, <3>1, <3>3
  <2>2. CASE o # Socket
    <3>1. Reply(o) = <<a>>
      BY <1>2, <2>2 DEF Reply, a
    <3>2. <<a>> \o <<d>> = <<a, d>>
      BY <1>5, <2>2, PairSeq
    <3> QED
      BY <2>2, <3>1, <3>2
  <2> QED
    BY <2>1, <2>2
<1> HIDE DEF s
<1>7. /\ s \in Seq(Work)
      /\ o = Socket => DOMAIN s = {1} /\ s[1] = d
      /\ o # Socket => DOMAIN s = {1, 2} /\ s[1] = a /\ s[2] = d
  <2>1. CASE o = Socket
    BY <1>5, <1>6, <2>1
  <2>2. CASE o # Socket
    BY <1>5, <1>6, <2>2
  <2> QED
    BY <2>1, <2>2
<1>8. \A D : SeqCount(s, D) = B(o # Socket /\ a \in D) + B(d \in D)
  <2>1. CASE o = Socket
    <3>1. \A D : SeqCount(s, D) = B(d \in D)
      BY <1>6, <2>1, CountSingle
    <3> QED
      BY <2>1, <3>1 DEF B
  <2>2. CASE o # Socket
    <3>1. \A D : SeqCount(s, D) = B(a \in D) + B(d \in D)
      BY <1>6, <2>2, CountTwo
    <3> QED
      BY <2>2, <3>1 DEF B
  <2> QED
    BY <2>1, <2>2
<1>9. /\ w \in Seq(Work) /\ Len(s) \in Nat /\ DOMAIN s = 1..Len(s)
      /\ \A i \in DOMAIN s : i \in DOMAIN w /\ w[i] = s[i]
      /\ \A i \in DOMAIN w : i \in DOMAIN s \/ (i - Len(s) \in DOMAIN u /\ w[i] = u[i - Len(s)] /\ i > Len(s))
  BY <1>3, <1>4, <1>7, ConcatElements
<1>10. \A D : SeqCount(w, D) = B(o # Socket /\ a \in D) + B(d \in D) + SeqCount(u, D)
  <2> SUFFICES ASSUME NEW D PROVE SeqCount(w, D) = B(o # Socket /\ a \in D) + B(d \in D) + SeqCount(u, D)
    OBVIOUS
  <2>1. SeqCount(w, D) = SeqCount(s, D) + SeqCount(u, D)
    BY <1>3, <1>4, <1>7, CountConcat
  <2> QED
    BY <1>8, <2>1
<1>11. \E i \in DOMAIN w : w[i] = d
  <2>1. CASE o = Socket
    BY <1>7, <1>9, <2>1
  <2>2. CASE o # Socket
    BY <1>7, <1>9, <2>2
  <2> QED
    BY <2>1, <2>2
<1>12. o # Socket => \E i \in DOMAIN w : Answered(o, w[i])
  BY <1>5, <1>7, <1>9
<1>13. ASSUME NEW i \in DOMAIN w
       PROVE  \/ o # Socket /\ Answered(o, w[i])
              \/ w[i] = d /\ \A j \in DOMAIN w : j > i => PipeAnswer(w[j])
              \/ PipeAnswer(w[i]) /\ \E j \in DOMAIN todo[t] : w[i] = todo[t][j]
  <2>1. CASE i \notin DOMAIN s
    BY <1>4, <1>9, <2>1
  <2>2. CASE i \in DOMAIN s /\ s[i] = d /\ i = Len(s)
    <3>1. ASSUME NEW j \in DOMAIN w, j > i PROVE PipeAnswer(w[j])
      <4>1. j \notin DOMAIN s
        BY <1>9, <2>2, <3>1
      <4> QED
        BY <1>4, <1>9, <4>1
    <3> QED
      BY <1>9, <2>2, <3>1
  <2>3. CASE i \in DOMAIN s /\ o # Socket /\ s[i] = a
    BY <1>5, <1>9, <2>3
  <2>4. i \in DOMAIN s => (s[i] = d /\ i = Len(s)) \/ (o # Socket /\ s[i] = a)
    <3>1. CASE o = Socket
      <4>1. Len(s) = 1
        BY <1>7, <1>9, <3>1
      <4> QED
        BY <1>7, <3>1, <4>1
    <3>2. CASE o # Socket
      <4>1. Len(s) = 2
        BY <1>7, <1>9, <3>2
      <4> QED
        BY <1>7, <3>2, <4>1
    <3> QED
      BY <3>1, <3>2
  <2> QED
    BY <2>1, <2>2, <2>3, <2>4
<1>14. DoomForm(t, o, w)
  BY <1>13 DEF DoomForm, d
<1> QED
  BY <1>4, <1>9, <1>10, <1>11, <1>12, <1>14 DEF u, d, a

\* The acknowledgement is in flight; nothing else changes.
LEMMA DoomFlight ==
    ASSUME IInv, NEW t, NEW o, Doomed(t, o)
    PROVE  /\ QType'
           /\ \A D : Flight(D)' = Flight(D) + B(o # Socket /\ Com(own[o].owner, "term_ack", None) \in D)
           /\ \A x : NAnn(x)' = NAnn(x)
<1>0. /\ QType /\ Runner(t, Reply(o) \o <<delete(o)>> \o Tail(todo[t])) /\ Finds(t, o) /\ mailbox' = mailbox
  BY DEF IInv, Typed, Doomed
<1>1. /\ o \in Object /\ Alive(o) /\ todo[t] \in Seq(Work) /\ todo[t] # <<>> /\ Head(todo[t]) = check_acks(o)
  BY <1>0, FindsFacts DEF Finds
<1>2. o # Socket => own[o].owner \in Object
  BY <1>1, Superior
<1> DEFINE w == todo'[t]
           d == delete(o)
           a == send_command(own[o].owner, "term_ack", None)
<1>3. \A D : SeqCount(w, D) = B(o # Socket /\ a \in D) + B(d \in D) + SeqCount(Tail(todo[t]), D)
  BY DoomList
<1>4. \A D : SeqCount(todo[t], D) = B(check_acks(o) \in D) + SeqCount(Tail(todo[t]), D)
  BY <1>1, CountTail
<1>5. todo' \in [Thread -> Seq(Work)]
  BY <1>0, RunnerCount
<1>6. ASSUME NEW D, check_acks(o) \notin D, d \notin D
      PROVE  Count(todo', D) = Count(todo, D) + B(o # Socket /\ a \in D)
  <2>1. /\ Count(todo, D) \in Nat /\ SeqCount(todo[t], D) \in Nat /\ SeqCount(w, D) \in Nat
        /\ Count(todo', D) = (Count(todo, D) - SeqCount(todo[t], D)) + SeqCount(w, D)
    <3>1. w = Reply(o) \o <<delete(o)>> \o Tail(todo[t])
      BY <1>0, RunnerCount
    <3> QED
      BY <1>0, <3>1, RunnerCount
  <2>2. SeqCount(w, D) = B(o # Socket /\ a \in D) + SeqCount(Tail(todo[t]), D)
    <3>1. SeqCount(Tail(todo[t]), D) \in Nat
      BY <1>1, SeqCountType, TailFacts
    <3> QED
      BY <1>3, <1>6, <3>1 DEF B
  <2>3. SeqCount(todo[t], D) = SeqCount(Tail(todo[t]), D)
    <3>1. SeqCount(Tail(todo[t]), D) \in Nat
      BY <1>1, SeqCountType, TailFacts
    <3> QED
      BY <1>4, <1>6, <3>1 DEF B
  <2>4. B(o # Socket /\ a \in D) \in Nat
    BY DEF B
  <2> QED
    BY <2>1, <2>2, <2>3, <2>4
<1>7. "term_ack" \in CommandType /\ None \in Arg
  BY DEF CommandType, Arg
<1>8. ASSUME NEW D PROVE Flight(D)' = Flight(D) + B(o # Socket /\ Com(own[o].owner, "term_ack", None) \in D)
  <2>1. check_acks(o) \notin Sends(D) /\ d \notin Sends(D)
    BY <1>1, OwnStepFacts
  <2>2. o # Socket => (a \in Sends(D) <=> Com(own[o].owner, "term_ack", None) \in D)
    BY <1>2, <1>7, StepFacts
  <2>3. B(o # Socket /\ a \in Sends(D)) = B(o # Socket /\ Com(own[o].owner, "term_ack", None) \in D)
    BY <2>2 DEF B
  <2>4. Count(todo', Sends(D)) = Count(todo, Sends(D)) + B(o # Socket /\ a \in Sends(D))
    BY <1>6, <2>1
  <2>5. Count(mailbox, D) \in Nat /\ Count(todo, Sends(D)) \in Nat
    BY <1>0, FlightType
  <2>6. B(o # Socket /\ a \in Sends(D)) \in Nat
    BY DEF B
  <2> QED
    BY <1>0, <2>3, <2>4, <2>5, <2>6 DEF Flight
<1>9. ASSUME NEW x PROVE NAnn(x)' = NAnn(x)
  <2>1. check_acks(o) \notin Ann(x) /\ d \notin Ann(x)
    BY <1>1, OwnStepFacts
  <2>2. o # Socket => a \notin Ann(x)
    BY <1>2, <1>7, StepFacts
  <2>3. B(o # Socket /\ a \in Ann(x)) = 0
    BY <2>2 DEF B
  <2>4. Count(todo', Ann(x)) = Count(todo, Ann(x)) + B(o # Socket /\ a \in Ann(x))
    BY <1>6, <2>1
  <2>5. Count(todo, Ann(x)) \in Nat
    BY <1>0, AnnType DEF NAnn
  <2> QED
    BY <2>3, <2>4, <2>5 DEF NAnn
<1>10. QType'
  BY <1>0, <1>5 DEF QType
<1> QED
  BY <1>8, <1>9, <1>10

\* It lives no longer, and the others do.
LEMMA DoomAlive ==
    ASSUME IInv, NEW t, NEW o, Doomed(t, o)
    PROVE  /\ SameShape /\ \A x \in Object : Alive(x)' <=> Alive(x) /\ x # o
           /\ \A u \in Thread : u # t => todo'[u] = todo[u]
<1>0. /\ QType /\ Runner(t, Reply(o) \o <<delete(o)>> \o Tail(todo[t])) /\ Finds(t, o) /\ own' = own
  BY DEF IInv, Typed, Doomed
<1>1. /\ o \in Object /\ Tid[o] = t
      /\ \A i \in DOMAIN todo[t] : \/ i = 1 /\ todo[t][i] = check_acks(o)
                                   \/ i # 1 /\ todo[t][i].op = "send" /\ todo[t][i].type = "pipe_term_ack"
  BY <1>0, FindsFacts
<1>2. \A u \in Thread : u # t => todo'[u] = todo[u]
  BY <1>0, RunnerCount
<1>3. SameShape
  BY <1>0 DEF SameShape
<1>4. ASSUME NEW x \in Object PROVE Going(x)' <=> Going(x) \/ x = o
  <2>1. CASE Tid[x] # t
    <3>1. todo'[Tid[x]] = todo[Tid[x]]
      BY <1>2, <2>1, ThreadFacts
    <3> QED
      BY <1>1, <2>1, <3>1 DEF Going
  <2>2. CASE Tid[x] = t
    <3>1. ~Going(x)
      BY <1>1, <2>2 DEF Going, Range, delete, check_acks
    <3> DEFINE w == todo'[t]
    <3>0. DoomForm(t, o, w) /\ \E i \in DOMAIN w : w[i] = delete(o)
      BY DoomList
    <3>2. /\ \E i \in DOMAIN todo'[t] : todo'[t][i] = delete(o)
          /\ \A i \in DOMAIN todo'[t] : Answered(o, todo'[t][i]) \/ todo'[t][i] = delete(o) \/ PipeAnswer(todo'[t][i])
      BY <3>0 DEF DoomForm
    <3>3. delete(x) \in Range(todo'[t]) <=> x = o
      <4>1. ASSUME NEW i \in DOMAIN todo'[t], todo'[t][i] = delete(x) PROVE x = o
        BY <3>2, <4>1 DEF Answered, PipeAnswer, delete
      <4> QED
        BY <3>2, <4>1 DEF Range
    <3> QED
      BY <2>2, <3>1, <3>3 DEF Going
  <2> QED
    BY <2>1, <2>2
<1>5. \A x \in Object : Alive(x)' <=> Alive(x) /\ x # o
  BY <1>0, <1>4 DEF Alive
<1> QED
  BY <1>2, <1>3, <1>5

\* The commands and the steps stay well formed,
LEMMA DoomCommands ==
    ASSUME IInv, NEW t, NEW o, Doomed(t, o)
    PROVE  Commands' /\ Todo'
<1>0. /\ QType /\ Typed /\ Finds(t, o) /\ UNCHANGED <<own, mailbox, psession>> /\ Commands /\ Todo
  BY DEF IInv, Typed, Doomed
<1>1. /\ o \in Object /\ Tid[o] = t /\ Alive(o) /\ Made(o) /\ own[o].life = "live" /\ t \in Thread
  BY <1>0, FindsFacts DEF Finds, Alive
<1>2. /\ \A x \in Object : Alive(x)' <=> Alive(x) /\ x # o
      /\ \A u \in Thread : u # t => todo'[u] = todo[u]
  BY DoomAlive
<1>3. /\ \A u \in Thread : \A i \in DOMAIN mailbox[u] : mailbox[u][i].to # o
      /\ \A u \in Thread : \A i \in DOMAIN todo[u] : todo[u][i].op = "send" => todo[u][i].to # o
  BY <1>0, NoCommand
<1>4. \A x \in Object : Made(x)' <=> Made(x)
  BY <1>0 DEF Made
<1>5. ASSUME NEW m, NEW u, CommandOK(m, u), m.to # o PROVE CommandOK(m, u)'
  <2>1. m.to \in Object /\ Alive(m.to)'
    BY <1>2, <1>5 DEF CommandOK
  <2>2. m.type \in {"own", "term_req"} => m.arg \in Object /\ Made(m.arg)' /\ own'[m.arg].owner = m.to
    BY <1>0, <1>4, <1>5 DEF CommandOK
  <2>3. m.type \in {"bind", "hiccup", "pipe_term", "pipe_term_ack"} =>
          m.arg \in Pipe /\ psession'[m.arg] # None /\ m.to \in {Socket, psession'[m.arg]}
    BY <1>0, <1>5 DEF CommandOK
  <2> QED
    BY <1>5, <2>1, <2>2, <2>3 DEF CommandOK
<1>6. Commands'
  <2> SUFFICES ASSUME NEW u \in Thread, NEW i \in DOMAIN mailbox'[u], NEW m, m = mailbox'[u][i]
               PROVE CommandOK(m, u)'
    BY DEF Commands
  <2>1. i \in DOMAIN mailbox[u] /\ m = mailbox[u][i]
    BY <1>0
  <2>2. CommandOK(m, u) /\ m.to # o
    BY <1>0, <1>3, <2>1 DEF Commands
  <2> QED
    BY <1>5, <2>2
\* Steps of other threads, and the answers of pipes that are left.
<1>7. ASSUME NEW u \in Thread, NEW s, NEW i \in DOMAIN s, s[i].op = "send", s[i].to # o, SendOK(s, i, u), u # t \/ PipeAnswer(s[i])
      PROVE  SendOK(s, i, u)'
  <2> DEFINE m == Com(s[i].to, s[i].type, s[i].arg)
  <2>1. m.to = s[i].to /\ m.type = s[i].type /\ m.arg = s[i].arg
    BY DEF Com
  <2>2. CommandOK(m, Tid[s[i].to]) /\ m.to # o
    BY <1>7, <2>1 DEF SendOK
  <2> HIDE DEF m
  <2>3. CommandOK(m, Tid[s[i].to])'
    BY <1>5, <2>2
  <2>4. s[i].type = "term_req" => Tid[s[i].arg] = u /\ Alive(s[i].arg)'
    <3>1. ASSUME s[i].type = "term_req" PROVE Tid[s[i].arg] = u /\ Alive(s[i].arg)'
      <4>1. Tid[s[i].arg] = u /\ Alive(s[i].arg) /\ u # t /\ s[i].arg \in Object
        BY <1>7, <2>1, <2>2, <3>1 DEF SendOK, PipeAnswer, CommandOK
      <4> QED
        BY <1>1, <1>2, <4>1
    <3> QED
      BY <3>1
  <2> QED
    BY <1>0, <1>7, <2>3, <2>4 DEF SendOK, m
<1>8. ASSUME NEW u \in Thread, u # t, NEW s, s = todo[u] PROVE StepsOK(s, u)'
  <2>0. StepsOK(s, u) /\ s \in Seq(Work)
    BY <1>0, <1>8 DEF Todo, QType
  <2> SUFFICES ASSUME NEW i \in DOMAIN s PROVE StepOK(s, i, u)'
    BY DEF StepsOK
  <2>1. StepOK(s, i, u)
    BY <2>0 DEF StepsOK
  <2>2. ASSUME s[i].op = "inc" PROVE IncOK(s, i, u)'
    <3>1. IncOK(s, i, u) /\ s[i] \in Work
      BY <2>0, <2>1, <2>2, ElementOfSeq, LenProperties DEF StepOK
    <3>2. s[1].to # o
      <4>1. s[i] \notin Ann(o)
        BY <1>0, <1>8, NoneAnnounced
      <4> QED
        BY <2>2, <3>1, <4>1 DEF Ann, IncOK
    <3>3. s[1].to \in Object /\ Alive(s[1].to)
      BY <3>1 DEF IncOK, Work, SendStep, OwnStep
    <3>4. Alive(s[1].to)'
      BY <1>2, <3>2, <3>3
    <3>5. Keeps(s, u)'
      <4> DEFINE x == s[1].to
      <4>1. Keeps(s, u)
        BY <3>1 DEF IncOK
      <4>2. CASE x \in Accepted /\ \E j \in DOMAIN s : s[j].op = "send" /\ s[j].type = "own" /\ s[j].arg = x
        BY <4>2 DEF Keeps
      <4>3. CASE x \in Connected /\ \E c \in Object : own[c].owner = x /\ Alive(c) /\ Tid[c] = u
        <5>1. PICK c \in Object : own[c].owner = x /\ Alive(c) /\ Tid[c] = u
          BY <4>3
        <5>2. Alive(c)' /\ own'[c].owner = x
          BY <1>0, <1>1, <1>2, <1>8, <5>1
        <5> QED
          BY <4>3, <5>1, <5>2 DEF Keeps
      <4>4. CASE x = Socket /\ \E c \in Session : Alive(c) /\ Tid[c] = u
        <5>1. PICK c \in Session : Alive(c) /\ Tid[c] = u
          BY <4>4
        <5>2. Alive(c)'
          BY <1>1, <1>2, <1>8, <5>1, SocketIn
        <5> QED
          BY <4>4, <5>1, <5>2 DEF Keeps
      <4> QED
        BY <4>1, <4>2, <4>3, <4>4 DEF Keeps
    <3> QED
      BY <3>1, <3>4, <3>5 DEF IncOK
  <2>3. ASSUME s[i].op = "send" PROVE SendOK(s, i, u)'
    BY <1>3, <1>7, <1>8, <2>1, <2>3 DEF StepOK
  <2>4. ASSUME s[i].op \in {"check", "delete"} PROVE LastOK(s, i, u)'
    BY <1>0, <2>1, <2>4 DEF StepOK, LastOK, Made
  <2> QED
    BY <2>2, <2>3, <2>4 DEF StepOK
<1>9. ASSUME NEW s, s = todo'[t] PROVE StepsOK(s, t)'
  <2>5. DoomForm(t, o, s)
    BY <1>9, DoomList
  <2>0. \A i \in DOMAIN s : \/ o # Socket /\ Answered(o, s[i])
                            \/ s[i] = delete(o) /\ \A j \in DOMAIN s : j > i => PipeAnswer(s[j])
                            \/ PipeAnswer(s[i]) /\ \E j \in DOMAIN todo[t] : s[i] = todo[t][j]
    BY <2>5 DEF DoomForm
  <2> SUFFICES ASSUME NEW i \in DOMAIN s PROVE StepOK(s, i, t)'
    BY DEF StepsOK
  <2>1. CASE o # Socket /\ Answered(o, s[i])
    <3>1. own[o].owner \in Object /\ Alive(own[o].owner) /\ own[o].owner # o
      BY <1>1, <2>1, Superior
    <3>2. /\ s[i].op = "send" /\ s[i].to = own[o].owner /\ s[i].type = "term_ack" /\ s[i].inc = 0
          /\ Com(s[i].to, s[i].type, s[i].arg).to = own[o].owner
          /\ Com(s[i].to, s[i].type, s[i].arg).type = "term_ack"
      BY <2>1 DEF Answered, Com
    <3>3. Alive(s[i].to)'
      BY <1>2, <3>1, <3>2
    <3>4. CommandOK(Com(s[i].to, s[i].type, s[i].arg), Tid[s[i].to])'
      BY <3>1, <3>2, <3>3 DEF CommandOK
    <3>5. SendOK(s, i, t)'
      BY <3>2, <3>4 DEF SendOK
    <3> QED
      BY <3>2, <3>5 DEF StepOK
  <2>2. CASE s[i] = delete(o) /\ \A j \in DOMAIN s : j > i => PipeAnswer(s[j])
    <3>1. s[i].op = "delete" /\ s[i].to = o
      BY <2>2 DEF delete
    <3>2. LastOK(s, i, t)'
      BY <1>0, <1>1, <2>2, <3>1 DEF LastOK, PipeAnswer, Made
    <3> QED
      BY <3>1, <3>2 DEF StepOK
  <2>3. CASE PipeAnswer(s[i]) /\ \E j \in DOMAIN todo[t] : s[i] = todo[t][j]
    <3>1. PICK j \in DOMAIN todo[t] : s[i] = todo[t][j]
      BY <2>3
    <3>2. SendOK(todo[t], j, t) /\ todo[t][j].to # o /\ PipeAnswer(s[i]) /\ s[i].op = "send"
      BY <1>0, <1>1, <1>3, <2>3, <3>1 DEF Todo, StepsOK, StepOK, PipeAnswer
    <3>3. SendOK(s, i, t)
      BY <3>1, <3>2 DEF SendOK, PipeAnswer
    <3>4. SendOK(s, i, t)'
      BY <1>1, <1>7, <3>1, <3>2, <3>3
    <3> QED
      BY <3>2, <3>4 DEF StepOK
  <2> QED
    BY <2>0, <2>1, <2>2, <2>3
<1>10. Todo'
  <2> SUFFICES ASSUME NEW u \in Thread, NEW s, s = todo'[u] PROVE StepsOK(s, u)'
    BY DEF Todo
  <2>1. CASE u = t
    BY <1>9, <2>1
  <2>2. CASE u # t
    BY <1>2, <1>8, <2>2
  <2> QED
    BY <2>1, <2>2
<1> QED
  BY <1>6, <1>10

\* the owner gets one acknowledgement more,
LEMMA DoomCounts ==
    ASSUME IInv, NEW t, NEW o, Doomed(t, o)
    PROVE  /\ SameCounts({"term_ack"})
           /\ \A x \in Object : Acks(x)' = Acks(x) + B(o # Socket /\ x = own[o].owner)
           /\ \A x : NSeq(x)' = NSeq(x)
<1>0. QType /\ o \in Object /\ Alive(o)
  BY FindsFacts DEF IInv, Typed, Doomed
<1>1. \A D : Flight(D)' = Flight(D) + B(o # Socket /\ Com(own[o].owner, "term_ack", None) \in D)
  BY DoomFlight
<1>2. "term_ack" \in CommandType /\ None \in Arg /\ (o # Socket => own[o].owner \in Object)
  BY <1>0, Superior DEF CommandType, Arg
<1> DEFINE m == Com(own[o].owner, "term_ack", None)
<1>3. m.type = "term_ack" /\ (o # Socket => \A x : m \in To(x, "term_ack") <=> x = own[o].owner)
  <2>1. m.type = "term_ack"
    BY DEF Com
  <2>2. ASSUME o # Socket PROVE \A x, ty : m \in To(x, ty) <=> x = own[o].owner /\ ty = "term_ack"
    <3>1. own[o].owner \in Object
      BY <1>2, <2>2
    <3> QED
      BY <1>2, <3>1, ComIn
  <2> QED
    BY <2>1, <2>2
<1> HIDE DEF m
<1>4. ASSUME NEW D, \A n \in D : n.type # "term_ack" PROVE Flight(D)' = Flight(D)
  <2>1. m \notin D
    BY <1>3, <1>4
  <2>2. Flight(D)' = Flight(D) + B(o # Socket /\ m \in D)
    BY <1>1 DEF m
  <2>3. Flight(D) \in Nat
    BY <1>0, FlightType
  <2> QED
    BY <2>1, <2>2, <2>3 DEF B
<1>5. SameCounts({"term_ack"})
  <2>1. \A x : Plugs(x)' = Plugs(x)
    BY <1>4 DEF Plugs, To
  <2>2. \A x : Attaches(x)' = Attaches(x)
    BY <1>4 DEF Attaches, To
  <2>3. \A x : Terms(x)' = Terms(x)
    BY <1>4 DEF Terms, To
  <2>4. \A x : Owns(x)' = Owns(x)
    BY <1>4 DEF Owns, About
  <2>5. \A x : Binds(x)' = Binds(x)
    BY <1>4 DEF Binds, About
  <2>6. \A x : Hiccups(x)' = Hiccups(x)
    BY <1>4 DEF Hiccups, About
  <2>7. \A p, x : PT(p, x)' = PT(p, x)
    BY <1>4 DEF PT, ToEnd
  <2>8. \A p, x : PA(p, x)' = PA(p, x)
    BY <1>4 DEF PA, ToEnd
  <2> QED
    BY <2>1, <2>2, <2>3, <2>4, <2>5, <2>6, <2>7, <2>8 DEF SameCounts
<1>6. \A x : NSeq(x)' = NSeq(x)
  BY <1>4 DEF NSeq, SeqTo, SeqCommand
<1>7. ASSUME NEW x \in Object PROVE Acks(x)' = Acks(x) + B(o # Socket /\ x = own[o].owner)
  <2>1. Acks(x)' = Acks(x) + B(o # Socket /\ m \in To(x, "term_ack"))
    BY <1>1 DEF Acks, m
  <2> QED
    BY <1>3, <2>1 DEF B
<1> QED
  BY <1>5, <1>6, <1>7

\* What waited for a child that was to go waits for its acknowledgement.
LEMMA DoomAwaited ==
    ASSUME IInv, NEW t, NEW o, Doomed(t, o)
    PROVE  Awaited'
<1> SUFFICES ASSUME NEW x \in Object
             PROVE  own'[x].term_acks = Cardinality(Kids(x)') + Acks(x)' + Cardinality(AwaitedPipes(x)')
  BY DEF Awaited
<1>0. /\ QType /\ QType' /\ Awaited /\ UNCHANGED <<own, pstate, closed>> /\ o \in Object /\ Alive(o)
      /\ own[o].terminating
  BY FindsFacts, DoomFlight DEF IInv, Typed, Doomed
<1>1. AwaitedPipes(x)' = AwaitedPipes(x)
  BY <1>0 DEF AwaitedPipes, pipes
<1>2. \A c \in Object : Alive(c)' <=> Alive(c) /\ c # o
  BY DoomAlive
<1>3. SameCounts({"term_ack"}) /\ Acks(x)' = Acks(x) + B(o # Socket /\ x = own[o].owner)
  BY DoomCounts
<1>4. \A c : Owns(c)' = Owns(c)
  BY <1>3 DEF SameCounts
<1>5. Kids(x)' = Kids(x) \ {o}
  BY <1>0, <1>2, <1>4 DEF Kids
<1>6. IsFiniteSet(Kids(x))
  <2>1. Kids(x) \subseteq Object /\ IsFiniteSet(Object)
    BY OwnAssumption DEF Kids
  <2> QED
    BY <2>1, FS_Subset
<1>7. Cardinality(Kids(x)) \in Nat
  BY <1>6, FS_CardinalityType
<1>8. own[x].term_acks = Cardinality(Kids(x)) + Acks(x) + Cardinality(AwaitedPipes(x))
  BY <1>0 DEF Awaited
<1>9. Acks(x) \in Nat /\ Cardinality(AwaitedPipes(x)) \in Nat
  <2>1. AwaitedPipes(x) \subseteq Pipe /\ IsFiniteSet(Pipe)
    BY OwnAssumption DEF AwaitedPipes, pipes
  <2>2. IsFiniteSet(AwaitedPipes(x))
    BY <2>1, FS_Subset
  <2> QED
    BY <1>0, <2>2, FS_CardinalityType, CountsType
<1>10. CASE o # Socket /\ x = own[o].owner
  <2>1. o \in Kids(x)
    BY <1>0, <1>10, Terminating DEF Kids
  <2>2. Cardinality(Kids(x) \ {o}) = Cardinality(Kids(x)) - 1
    BY <1>6, <2>1, FS_RemoveElement
  <2>3. Acks(x)' = Acks(x) + 1
    BY <1>3, <1>10 DEF B
  <2> QED
    BY <1>0, <1>1, <1>5, <1>7, <1>8, <1>9, <2>2, <2>3
<1>11. CASE ~(o # Socket /\ x = own[o].owner)
  <2>1. o \notin Kids(x)
    <3>1. own[o].owner # x
      <4>1. o = Socket => own[o].owner = None
        BY <1>0, Superior
      <4>2. None \notin Object
        BY OwnAssumption
      <4> QED
        BY <1>11, <4>1, <4>2
    <3> QED
      BY <3>1 DEF Kids
  <2>2. Kids(x)' = Kids(x)
    BY <1>5, <2>1
  <2>3. Acks(x)' = Acks(x)
    BY <1>3, <1>9, <1>11 DEF B
  <2> QED
    BY <1>0, <1>1, <1>8, <2>2, <2>3
<1> QED
  BY <1>10, <1>11

\* the orders stay as they are,
LEMMA DoomOrder ==
    ASSUME IInv, NEW t, NEW o, Doomed(t, o)
    PROVE  Order' /\ Requests' /\ Checked'
<1>0. /\ QType /\ Todo /\ Commands /\ Order /\ Requests /\ Checked /\ UNCHANGED <<own, mailbox>> /\ t \in Thread
      /\ o \in Object /\ Alive(o) /\ own[o].terminating /\ Tid[o] = t
      /\ \A i \in DOMAIN todo[t] : \/ i = 1 /\ todo[t][i] = check_acks(o)
                                   \/ i # 1 /\ todo[t][i].op = "send" /\ todo[t][i].type = "pipe_term_ack"
  BY FindsFacts DEF IInv, Typed, Doomed, Finds
<1>1. /\ \A c \in Object : Alive(c)' <=> Alive(c) /\ c # o
      /\ \A u \in Thread : u # t => todo'[u] = todo[u]
  BY DoomAlive
<1> DEFINE w == todo'[t]
<1>2. DoomForm(t, o, w) /\ (o # Socket => \E i \in DOMAIN w : Answered(o, w[i])) /\ w \in Seq(Work)
  BY DoomList
<1>3. ASSUME NEW i \in DOMAIN w, w[i].op = "send" PROVE w[i].type \in {"term_ack", "pipe_term_ack"}
  BY <1>2, <1>3 DEF DoomForm, Answered, PipeAnswer, delete
<1> HIDE DEF w
<1>4. ASSUME NEW m, NEW n, n.type \in {"term_ack", "pipe_term_ack"} PROVE Sorted(m, n)
  <2>1. n.type \in PipeCommand => n.type = "pipe_term_ack"
    BY <1>4 DEF PipeCommand
  <2>2. m.type \in PipeCommand => Rank(m.type) <= Rank("pipe_term_ack")
    BY DEF PipeCommand, Rank
  <2> QED
    BY <2>1, <2>2 DEF Sorted
<1>5. ASSUME NEW u \in Thread, NEW s, s = todo'[u], NEW k \in DOMAIN s, s[k].op = "send"
      PROVE  /\ \A j \in DOMAIN mailbox[Tid[s[k].to]] : Sorted(mailbox[Tid[s[k].to]][j], s[k])
             /\ \A j \in DOMAIN s : j < k /\ s[j].op = "send" => Sorted(s[j], s[k])
  <2>1. CASE u = t
    <3>1. s[k].type \in {"term_ack", "pipe_term_ack"}
      BY <1>3, <1>5, <2>1 DEF w
    <3> QED
      BY <1>4, <3>1
  <2>2. CASE u # t
    <3>1. s = todo[u]
      BY <1>1, <1>5, <2>2
    <3> QED
      BY <1>0, <1>5, <3>1 DEF Order
  <2> QED
    BY <2>1, <2>2
<1>6. Order'
  <2>1. \A u \in Thread : \A k \in DOMAIN todo'[u] : todo'[u][k].op = "send" =>
          /\ \A j \in DOMAIN mailbox'[Tid[todo'[u][k].to]] : Sorted(mailbox'[Tid[todo'[u][k].to]][j], todo'[u][k])
          /\ \A j \in DOMAIN todo'[u] : j < k /\ todo'[u][j].op = "send" => Sorted(todo'[u][j], todo'[u][k])
    BY <1>0, <1>5
  <2> QED
    BY <1>0, <2>1 DEF Order
<1>7. Requests'
  <2> SUFFICES ASSUME NEW u \in Thread, NEW i \in DOMAIN mailbox'[u], NEW m, m = mailbox'[u][i], m.type = "term_req"
               PROVE  \/ Alive(m.arg)'
                      \/ \E j \in DOMAIN mailbox'[u] : j > i /\ mailbox'[u][j] \in To(m.to, "term_ack")
                      \/ \E v \in Thread : \E j \in DOMAIN todo'[v] : todo'[v][j] \in Sends(To(m.to, "term_ack"))
    BY DEF Requests
  <2>1. i \in DOMAIN mailbox[u] /\ m = mailbox[u][i] /\ CommandOK(m, u)
    BY <1>0 DEF Commands
  <2>2. m.arg \in Object /\ own[m.arg].owner = m.to /\ m.to \in Object
    BY <2>1 DEF CommandOK
  <2>3. \/ Alive(m.arg)
        \/ \E j \in DOMAIN mailbox[u] : j > i /\ mailbox[u][j] \in To(m.to, "term_ack")
        \/ \E v \in Thread : \E j \in DOMAIN todo[v] : todo[v][j] \in Sends(To(m.to, "term_ack"))
    BY <1>0, <2>1 DEF Requests
  <2>4. CASE Alive(m.arg) /\ m.arg # o
    BY <1>1, <2>2, <2>4
  <2>5. CASE m.arg = o
    <3>1. o # Socket
      <4>1. None \notin Object /\ (o = Socket => own[o].owner = None)
        BY <1>0, Superior, OwnAssumption
      <4> QED
        BY <2>2, <2>5, <4>1
    <3>2. PICK j \in DOMAIN w : Answered(o, w[j])
      BY <1>2, <3>1
    <3>3. w[j] \in Work
      BY <1>2, <3>2, ElementOfSeq, LenProperties
    <3>4. w[j] \in SendStep /\ w[j].to = m.to /\ w[j].type = "term_ack"
      BY <2>2, <2>5, <3>2, <3>3 DEF Answered, Work, SendStep, OwnStep
    <3>5. w[j] \in Sends(To(m.to, "term_ack"))
      BY <3>4 DEF Sends, To, Com, Cmd, SendStep
    <3> QED
      BY <1>0, <3>5 DEF w
  <2>6. CASE \E j \in DOMAIN mailbox[u] : j > i /\ mailbox[u][j] \in To(m.to, "term_ack")
    BY <1>0, <2>6
  <2>7. CASE \E v \in Thread : \E j \in DOMAIN todo[v] : todo[v][j] \in Sends(To(m.to, "term_ack"))
    <3>1. PICK v \in Thread : \E j \in DOMAIN todo[v] : todo[v][j] \in Sends(To(m.to, "term_ack"))
      BY <2>7
    <3>2. v # t
      <4>1. \A j \in DOMAIN todo[v] : todo[v][j] \in Sends(To(m.to, "term_ack")) =>
               todo[v][j].op = "send" /\ todo[v][j].type = "term_ack"
        BY DEF Sends, SendStep, To, Com
      <4> QED
        BY <1>0, <3>1, <4>1 DEF check_acks
    <3>3. todo'[v] = todo[v]
      BY <1>1, <3>2
    <3> QED
      BY <3>1, <3>3
  <2> QED
    BY <2>3, <2>4, <2>5, <2>6, <2>7
<1>8. Checked'
  <2> SUFFICES ASSUME NEW x \in Object, Alive(x)', CanGo(own'[x])
               PROVE  check_acks(x) \in Range(todo'[Tid[x]])
    BY DEF Checked
  <2>1. Alive(x) /\ x # o /\ CanGo(own[x])
    BY <1>0, <1>1
  <2>2. check_acks(x) \in Range(todo[Tid[x]])
    BY <1>0, <2>1 DEF Checked
  <2>3. Tid[x] # t
    BY <1>0, <2>1, <2>2 DEF Range, check_acks
  <2>4. todo'[Tid[x]] = todo[Tid[x]]
    BY <1>1, <2>3, ThreadFacts
  <2> QED
    BY <2>2, <2>4
<1> QED
  BY <1>6, <1>7, <1>8

\* and nothing is left below the object;
LEMMA DoomChildren ==
    ASSUME IInv, NEW t, NEW o, Doomed(t, o)
    PROVE  Children' /\ Gone'
<1>0. /\ QType /\ QType' /\ Children /\ Gone /\ UNCHANGED <<own, pstate, pending>> /\ o \in Object /\ Alive(o) /\ Made(o)
      /\ own[o].terminating /\ own[o].term_acks = 0 /\ Finds(t, o)
  BY FindsFacts, DoomFlight DEF IInv, Typed, Doomed
<1>1. \A c \in Object : Alive(c)' <=> Alive(c) /\ c # o
  BY DoomAlive
<1>2. SameCounts({"term_ack"})
  BY DoomCounts
<1>3. \A c : Owns(c)' = Owns(c) /\ Terms(c)' = Terms(c)
  BY <1>2 DEF SameCounts
<1>4. \A c \in Object : Made(c)' <=> Made(c)
  BY <1>0 DEF Made
<1>5. ASSUME NEW c \in Object \ {Socket}, Made(c) PROVE ChildOK(c)'
  <2>1. ChildOK(c)
    BY <1>0, <1>5 DEF Children
  <2>2. CASE c = o
    <3>1. Owns(o) = 0 /\ Terms(o) = 0 /\ o \notin own[own[o].owner].owned /\ o \notin pending
      BY <1>0, <1>5, <2>2, Terminating
    <3>2. ~Alive(c)'
      BY <1>0, <1>1, <2>2
    <3> QED
      BY <1>0, <1>3, <2>2, <3>1, <3>2 DEF ChildOK
  <2>3. CASE c # o
    <3>1. Alive(c)' <=> Alive(c)
      BY <1>1, <2>3
    <3> QED
      BY <1>0, <1>3, <2>1, <3>1 DEF ChildOK
  <2> QED
    BY <2>2, <2>3
<1>6. Children'
  BY <1>4, <1>5 DEF Children
<1>7. ASSUME NEW x \in Object, Made(x), ~Alive(x)' PROVE GoneOK(x)'
  <2>1. CASE x = o
    <3>1. \A c \in Object : own[c].owner = o => ~Alive(c)
      BY <1>0, NoChild
    <3>2. o = Socket => \A p \in Pipe : pstate[<<p, "socket">>] \in {"none", "gone"}
      BY <1>0, SocketEnds
    <3>3. \A c \in Object : own'[c].owner = o => ~Alive(c)'
      BY <1>0, <1>1, <3>1
    <3>4. o = Socket => \A p \in Pipe : pstate'[<<p, "socket">>] \in {"none", "gone"}
      BY <1>0, <3>2
    <3> QED
      BY <1>0, <2>1, <3>3, <3>4 DEF GoneOK
  <2>2. CASE x # o
    <3>1. GoneOK(x)
      BY <1>0, <1>1, <1>7, <2>2 DEF Gone
    <3>2. \A c \in Object : own'[c].owner = x => ~Alive(c)'
      BY <1>0, <1>1, <3>1 DEF GoneOK
    <3> QED
      BY <1>0, <3>1, <3>2 DEF GoneOK
  <2> QED
    BY <2>1, <2>2
<1>8. Gone'
  BY <1>4, <1>7 DEF Gone
<1> QED
  BY <1>6, <1>8

\* so a check that succeeds preserves the invariant.
LEMMA DoomStep ==
    ASSUME IInv, NEW t, NEW o, Doomed(t, o)
    PROVE  IInv'
<1>0. /\ Typed /\ QType /\ Tree /\ Links /\ Seqnums /\ Children /\ Awaited /\ Gone /\ Engines /\ PlugFirst /\ Pipes
      /\ UNCHANGED <<own, polled, engine, pending, pipe, pstate, psession, endpoints, closed, immediate>> /\ failed' = {}
      /\ o \in Object /\ own[o].terminating
  BY FindsFacts DEF IInv, Typed, Doomed
<1>1. QType' /\ \A x : NAnn(x)' = NAnn(x)
  BY DoomFlight
<1>2. /\ SameShape /\ \A c \in Object : Alive(c)' <=> Alive(c) /\ c # o
  BY DoomAlive
<1>3. SameCounts({"term_ack"}) /\ \A x : NSeq(x)' = NSeq(x)
  BY DoomCounts
<1>4. \A x : Plugs(x)' = Plugs(x) /\ Attaches(x)' = Attaches(x)
  BY <1>3 DEF SameCounts
<1>5. Typed'
  BY <1>0, <1>1 DEF Typed
<1>6. Tree'
  BY <1>0, <1>2, TreeFrame
<1>7. Links'
  <2>1. \A x \in polled : x \in Object /\ Alive(x)' /\ ~own[x].terminating
    BY <1>0, <1>2, SocketIn DEF Links, Typed
  <2>2. \A s, P : OtherPipes(s, P)' = OtherPipes(s, P)
    BY <1>0 DEF OtherPipes
  <2>3. \A x \in Object : Made(x)' <=> Made(x)
    BY <1>0 DEF Made
  <2>4. \A p \in Pipe : psession[p] # None => psession[p] \in Object
    BY <1>0, SocketIn DEF Typed
  <2> QED
    BY <1>0, <2>1, <2>2, <2>3, <2>4 DEF Links
<1>8. Seqnums'
  <2> SUFFICES ASSUME NEW x \in Object
               PROVE own'[x].sent_seqnum + NAnn(x)' = own'[x].processed_seqnum + NSeq(x)'
    BY DEF Seqnums
  <2> QED
    BY <1>0, <1>1, <1>3 DEF Seqnums
<1>9. Commands' /\ Todo'
  BY DoomCommands
<1>10. Children' /\ Gone'
  BY DoomChildren
<1>11. Awaited'
  BY DoomAwaited
<1>12. Engines'
  <2>1. polled' = polled /\ engine' = engine
    BY <1>0
  <2> QED
    BY <1>0, <1>2, <1>4, <2>1, EnginesFrame
<1>13. PlugFirst'
  <2>1. pending' = pending
    BY <1>0
  <2> QED
    BY <1>0, <1>2, <1>4, <2>1, PlugFrame
<1>14. Pipes'
  <2>1. pstate' = pstate /\ psession' = psession
    BY <1>0
  <2>2. SameCounts({"plug", "attach", "term", "term_ack", "own"})
    BY <1>3 DEF SameCounts
  <2> QED
    BY <1>0, <2>1, <2>2, PipesFrame
<1>15. Order' /\ Requests' /\ Checked'
  BY DoomOrder
<1>16. failed' = {}
  BY <1>0
<1> QED
  BY <1>5, <1>6, <1>7, <1>8, <1>9, <1>10, <1>11, <1>12, <1>13, <1>14, <1>15, <1>16 DEF IInv

\* check_term_acks () preserves the invariant.
LEMMA CheckedStep ==
    ASSUME IInv, NEW t \in Thread, check_term_acks(t)
    PROVE  IInv'
<1>1. CASE ~CanGo(own[Now(t).to])
  BY <1>1, WaitStep
<1>2. CASE CanGo(own[Now(t).to])
  <2> DEFINE o == Now(t).to
  <2>0. IInv /\ QType /\ failed = {}
    BY DEF IInv, Typed
  <2>1. /\ todo[t] \in Seq(Work) /\ todo[t] # <<>> /\ Now(t).op = "check"
        /\ zmq_assert("owned.empty", own[o].owned = {})
        /\ todo' = [todo EXCEPT ![t] =
              (IF own[o].owner = None THEN <<>> ELSE <<send_command(own[o].owner, "term_ack", None)>>)
                    \o <<delete(o)>> \o Tail(todo[t])]
        /\ UNCHANGED <<own, lvars, evars, svars, mailbox>>
    BY <1>2, <2>0 DEF check_term_acks, Idle, Now, QType
  <2>2. Finds(t, o)
    BY <1>2, <2>1 DEF Finds
  <2> HIDE DEF o
  <2>3. own[o].owned = {} /\ Tail(todo[t]) \in Seq(Work) /\ o \in Object /\ Alive(o)
    BY <2>1, <2>2, FindsFacts, TailFacts
  <2>4. failed' = {}
    BY <2>0, <2>1, <2>3 DEF zmq_assert
  <2>5. Reply(o) \in Seq(Work) /\ <<delete(o)>> \in Seq(Work)
    <3>1. delete(o) \in Work
      BY <2>3, OwnStepFacts
    <3>2. own[o].owner # None => send_command(own[o].owner, "term_ack", None) \in Work
      <4>1. own[o].owner # None => own[o].owner \in Object
        BY <2>3, Superior
      <4>2. "term_ack" \in CommandType /\ None \in Arg
        BY DEF CommandType, Arg
      <4> QED
        BY <4>1, <4>2, StepFacts
    <3> QED
      BY <3>1, <3>2 DEF Reply
  <2>6. Reply(o) \o <<delete(o)>> \o Tail(todo[t]) \in Seq(Work)
    BY <2>3, <2>5, ConcatElements
  <2>7. Runner(t, Reply(o) \o <<delete(o)>> \o Tail(todo[t]))
    BY <2>0, <2>1, <2>6 DEF Runner, Reply
  <2>8. Doomed(t, o)
    BY <2>1, <2>2, <2>4, <2>7 DEF Doomed, lvars, evars, svars
  <2> QED
    BY <2>8, DoomStep
<1> QED
  BY <1>1, <1>2
-----------------------------------------------------------------------------
(* process_destroy *)

Deletes(t, o) ==
    /\ Runner(t, Tail(todo[t])) /\ Now(t).op = "delete" /\ Now(t).to = o
    /\ own' = [own EXCEPT ![o].life = "deleted"] /\ engine' = engine \ {o}
    /\ UNCHANGED <<polled, pending, pipe, pstate, psession, endpoints, closed, immediate, mailbox>>
SameFields == \A x \in Object :
    /\ own'[x].owner = own[x].owner /\ own'[x].owned = own[x].owned
    /\ own'[x].terminating = own[x].terminating /\ own'[x].term_acks = own[x].term_acks
    /\ own'[x].sent_seqnum = own[x].sent_seqnum /\ own'[x].processed_seqnum = own[x].processed_seqnum

\* An object that is being deleted is terminating, and only answers are left to do.
LEMMA DeleteFacts ==
    ASSUME IInv, NEW t, NEW o, Deletes(t, o)
    PROVE  /\ o \in Object /\ Tid[o] = t /\ ~Alive(o) /\ Made(o) /\ own[o].life = "live" /\ t \in Thread
           /\ own[o].terminating /\ todo[t] \in Seq(Work)
           /\ \A i \in DOMAIN todo[t] : \/ i = 1 /\ todo[t][i] = delete(o)
                                        \/ i # 1 /\ todo[t][i].op = "send" /\ todo[t][i].type = "pipe_term_ack"
           /\ todo'[t] = Tail(todo[t])
           /\ \A i \in DOMAIN todo'[t] : i \in Nat /\ i + 1 # 1 /\ i + 1 \in DOMAIN todo[t] /\ todo'[t][i] = todo[t][i + 1]
           /\ \A u \in Thread : u # t => todo'[u] = todo[u]
<1>0. QType /\ Todo /\ Tree /\ Runner(t, Tail(todo[t])) /\ todo[t] \in Seq(Work) /\ todo[t] # <<>> /\ t \in Thread
  BY DEF IInv, Typed, QType, Deletes, Runner
<1>1. /\ Head(todo[t]) = todo[t][1] /\ 1 \in DOMAIN todo[t] /\ Head(todo[t]) \in Work
      /\ DOMAIN todo[t] = 1..Len(todo[t]) /\ Len(todo[t]) \in Nat
      /\ \A i \in DOMAIN Tail(todo[t]) : i \in Nat /\ i + 1 \in DOMAIN todo[t] /\ i + 1 # 1 /\ Tail(todo[t])[i] = todo[t][i + 1]
  BY <1>0, TailFacts
<1>2. Head(todo[t]) = delete(o) /\ o \in Object
  BY <1>1 DEF Deletes, Now, Work, SendStep, OwnStep, delete
<1>3. LastOK(todo[t], 1, t)
  BY <1>0, <1>1, <1>2 DEF Todo, StepsOK, StepOK, delete
<1>4. Made(o) /\ own[o].life = "live" /\ Tid[o] = t
  BY <1>1, <1>2, <1>3 DEF LastOK, delete
<1>5. \A i \in DOMAIN todo[t] : \/ i = 1 /\ todo[t][i] = delete(o)
                                \/ i # 1 /\ todo[t][i].op = "send" /\ todo[t][i].type = "pipe_term_ack"
  BY <1>1, <1>2, <1>3 DEF LastOK
<1>6. ~Alive(o)
  <2>1. Going(o)
    BY <1>1, <1>2, <1>4 DEF Going, Range
  <2> QED
    BY <2>1 DEF Alive
<1>7. own[o].terminating
  <2>1. GoneOK(o)
    BY <1>2, <1>4, <1>6 DEF IInv, Gone
  <2> QED
    BY <2>1 DEF GoneOK
<1>8. todo'[t] = Tail(todo[t]) /\ \A u \in Thread : u # t => todo'[u] = todo[u]
  BY <1>0, RunnerCount
<1> QED
  BY <1>0, <1>1, <1>2, <1>4, <1>5, <1>6, <1>7, <1>8

\* Its deletion changes no counter,
LEMMA DeleteOwn ==
    ASSUME IInv, NEW t, NEW o, Deletes(t, o)
    PROVE  /\ own' \in [Object -> OwnRecord] /\ SameFields /\ SameAlive
           /\ \A x \in Object : x # o => own'[x] = own[x]
           /\ \A x \in Object : Made(x)' <=> Made(x)
           /\ QType' /\ (\A D : Flight(D)' = Flight(D)) /\ SameCounts({}) /\ \A x : NAnn(x)' = NAnn(x)
<1>0. /\ QType /\ Typed /\ own \in [Object -> OwnRecord] /\ Runner(t, Tail(todo[t])) /\ mailbox' = mailbox
      /\ own' = [own EXCEPT ![o].life = "deleted"]
  BY DEF IInv, Typed, Deletes
<1>1. /\ o \in Object /\ Tid[o] = t /\ ~Alive(o) /\ Made(o) /\ own[o].life = "live"
      /\ todo[t] \in Seq(Work)
      /\ \A i \in DOMAIN todo[t] : \/ i = 1 /\ todo[t][i] = delete(o)
                                   \/ i # 1 /\ todo[t][i].op = "send" /\ todo[t][i].type = "pipe_term_ack"
      /\ \A i \in DOMAIN todo'[t] : i \in Nat /\ i + 1 # 1 /\ i + 1 \in DOMAIN todo[t] /\ todo'[t][i] = todo[t][i + 1]
      /\ \A u \in Thread : u # t => todo'[u] = todo[u]
  BY DeleteFacts
<1> DEFINE r == [own[o] EXCEPT !.life = "deleted"]
<1>2. /\ r \in OwnRecord /\ r.life = "deleted" /\ r.owner = own[o].owner /\ r.owned = own[o].owned
      /\ r.terminating = own[o].terminating /\ r.term_acks = own[o].term_acks
      /\ r.sent_seqnum = own[o].sent_seqnum /\ r.processed_seqnum = own[o].processed_seqnum
  <2>1. own[o] \in OwnRecord
    BY <1>0, <1>1
  <2> QED
    BY <2>1 DEF OwnRecord
<1>3. own' = [own EXCEPT ![o] = r]
  BY <1>0
<1> HIDE DEF r
<1>4. own' \in [Object -> OwnRecord] /\ own'[o] = r /\ \A x \in Object : x # o => own'[x] = own[x]
  BY <1>0, <1>1, <1>2, <1>3, OneOwn
<1>5. SameFields
  BY <1>2, <1>4 DEF SameFields
<1>6. \A x \in Object : Made(x)' <=> Made(x)
  BY <1>1, <1>2, <1>4 DEF Made
<1>7. SameAlive
  <2> SUFFICES ASSUME NEW x \in Object PROVE Alive(x)' <=> Alive(x)
    BY DEF SameAlive
  <2>1. CASE x = o
    BY <1>1, <1>2, <1>4, <2>1 DEF Alive
  <2>2. CASE x # o /\ Tid[x] # t
    <3>1. todo'[Tid[x]] = todo[Tid[x]] /\ own'[x] = own[x]
      BY <1>1, <1>4, <2>2, ThreadFacts
    <3> QED
      BY <3>1 DEF Alive, Going
  <2>3. CASE x # o /\ Tid[x] = t
    <3>1. ~Going(x)
      BY <1>1, <2>3 DEF Going, Range, delete
    <3>2. ~Going(x)'
      BY <1>1, <2>3 DEF Going, Range, delete
    <3> QED
      BY <1>4, <2>3, <3>1, <3>2 DEF Alive
  <2> QED
    BY <2>1, <2>2, <2>3
<1>8. Now(t) = delete(o)
  BY <1>1, TailFacts DEF Now, Deletes, Runner
<1>9. /\ \A D : Now(t) \notin Sends(D)
      /\ \A x : Now(t) \notin Ann(x)
  BY <1>1, <1>8, OwnStepFacts
<1>10. ASSUME NEW D, Now(t) \notin D PROVE Count(todo', D) = Count(todo, D)
  <2>1. Count(todo', D) = Count(todo, D) - B(Now(t) \in D) /\ Count(todo, D) \in Nat
    BY <1>0, DropCount, RunnerCount
  <2> QED
    BY <1>10, <2>1 DEF B
<1>11. \A D : Flight(D)' = Flight(D)
  BY <1>0, <1>9, <1>10 DEF Flight
<1>12. \A x : NAnn(x)' = NAnn(x)
  BY <1>9, <1>10 DEF NAnn
<1>13. QType'
  <2>1. todo' \in [Thread -> Seq(Work)]
    BY <1>0, RunnerCount
  <2> QED
    BY <1>0, <2>1 DEF QType
<1>14. SameCounts({})
  BY <1>11 DEF SameCounts, Plugs, Attaches, Terms, Acks, Owns, Binds, Hiccups, PT, PA
<1> QED
  BY <1>4, <1>5, <1>6, <1>7, <1>11, <1>12, <1>13, <1>14

\* no command,
LEMMA DeleteCommands ==
    ASSUME IInv, NEW t, NEW o, Deletes(t, o)
    PROVE  Commands' /\ Todo'
<1>0. /\ QType /\ Typed /\ UNCHANGED <<mailbox, psession>> /\ Commands /\ Todo
  BY DEF IInv, Typed, Deletes
<1>1. /\ o \in Object /\ Tid[o] = t /\ t \in Thread
      /\ \A i \in DOMAIN todo[t] : \/ i = 1 /\ todo[t][i] = delete(o)
                                   \/ i # 1 /\ todo[t][i].op = "send" /\ todo[t][i].type = "pipe_term_ack"
      /\ \A i \in DOMAIN todo'[t] : i \in Nat /\ i + 1 # 1 /\ i + 1 \in DOMAIN todo[t] /\ todo'[t][i] = todo[t][i + 1]
      /\ \A u \in Thread : u # t => todo'[u] = todo[u]
  BY DeleteFacts
<1>2. /\ \A x \in Object : Alive(x)' <=> Alive(x)
      /\ \A x \in Object : own'[x].owner = own[x].owner
      /\ \A x \in Object : x # o => own'[x] = own[x]
      /\ \A x \in Object : Made(x)' <=> Made(x)
  BY DeleteOwn DEF SameAlive, SameFields
<1>5. ASSUME NEW m, NEW u, CommandOK(m, u) PROVE CommandOK(m, u)'
  <2>1. m.to \in Object /\ Alive(m.to)'
    BY <1>2, <1>5 DEF CommandOK
  <2>2. m.type \in {"own", "term_req"} => m.arg \in Object /\ Made(m.arg)' /\ own'[m.arg].owner = m.to
    BY <1>2, <1>5 DEF CommandOK
  <2>3. m.type \in {"bind", "hiccup", "pipe_term", "pipe_term_ack"} =>
          m.arg \in Pipe /\ psession'[m.arg] # None /\ m.to \in {Socket, psession'[m.arg]}
    BY <1>0, <1>5 DEF CommandOK
  <2> QED
    BY <1>5, <2>1, <2>2, <2>3 DEF CommandOK
<1>6. Commands'
  <2> SUFFICES ASSUME NEW u \in Thread, NEW i \in DOMAIN mailbox'[u], NEW m, m = mailbox'[u][i]
               PROVE CommandOK(m, u)'
    BY DEF Commands
  <2>1. CommandOK(m, u)
    BY <1>0 DEF Commands
  <2> QED
    BY <1>5, <2>1
<1>7. ASSUME NEW u \in Thread, NEW s, NEW i \in DOMAIN s, SendOK(s, i, u)
      PROVE  SendOK(s, i, u)'
  <2> DEFINE m == Com(s[i].to, s[i].type, s[i].arg)
  <2>1. m.to = s[i].to /\ m.type = s[i].type /\ m.arg = s[i].arg
    BY DEF Com
  <2>2. CommandOK(m, Tid[s[i].to])
    BY <1>7 DEF SendOK
  <2> HIDE DEF m
  <2>3. CommandOK(m, Tid[s[i].to])'
    BY <1>5, <2>2
  <2>4. s[i].type = "term_req" => Tid[s[i].arg] = u /\ Alive(s[i].arg)'
    <3>1. ASSUME s[i].type = "term_req" PROVE Tid[s[i].arg] = u /\ Alive(s[i].arg)'
      <4>1. Tid[s[i].arg] = u /\ Alive(s[i].arg) /\ s[i].arg \in Object
        BY <1>7, <2>1, <2>2, <3>1 DEF SendOK, CommandOK
      <4> QED
        BY <1>2, <4>1
    <3> QED
      BY <3>1
  <2> QED
    BY <1>0, <1>7, <2>3, <2>4 DEF SendOK, m
<1>8. ASSUME NEW u \in Thread, u # t, NEW s, s = todo[u] PROVE StepsOK(s, u)'
  <2>0. StepsOK(s, u) /\ s \in Seq(Work)
    BY <1>0, <1>8 DEF Todo, QType
  <2> SUFFICES ASSUME NEW i \in DOMAIN s PROVE StepOK(s, i, u)'
    BY DEF StepsOK
  <2>1. StepOK(s, i, u) /\ s[i] \in Work
    BY <2>0, ElementOfSeq, LenProperties DEF StepsOK
  <2>2. ASSUME s[i].op = "inc" PROVE IncOK(s, i, u)'
    <3>1. IncOK(s, i, u)
      BY <2>1, <2>2 DEF StepOK
    <3>3. s[1].to \in Object /\ Alive(s[1].to)
      BY <2>1, <3>1 DEF IncOK, Work, SendStep, OwnStep
    <3>4. Alive(s[1].to)'
      BY <1>2, <3>3
    <3>5. Keeps(s, u)'
      <4> DEFINE x == s[1].to
      <4>1. Keeps(s, u)
        BY <3>1 DEF IncOK
      <4>2. CASE x \in Accepted /\ \E j \in DOMAIN s : s[j].op = "send" /\ s[j].type = "own" /\ s[j].arg = x
        BY <4>2 DEF Keeps
      <4>3. CASE x \in Connected /\ \E c \in Object : own[c].owner = x /\ Alive(c) /\ Tid[c] = u
        <5>1. PICK c \in Object : own[c].owner = x /\ Alive(c) /\ Tid[c] = u
          BY <4>3
        <5>2. Alive(c)' /\ own'[c].owner = x
          BY <1>2, <5>1
        <5> QED
          BY <4>3, <5>1, <5>2 DEF Keeps
      <4>4. CASE x = Socket /\ \E c \in Session : Alive(c) /\ Tid[c] = u
        <5>1. PICK c \in Session : Alive(c) /\ Tid[c] = u
          BY <4>4
        <5>2. Alive(c)'
          BY <1>2, <5>1, SocketIn
        <5> QED
          BY <4>4, <5>1, <5>2 DEF Keeps
      <4> QED
        BY <4>1, <4>2, <4>3, <4>4 DEF Keeps
    <3> QED
      BY <3>1, <3>4, <3>5 DEF IncOK
  <2>3. ASSUME s[i].op = "send" PROVE SendOK(s, i, u)'
    BY <1>7, <2>1, <2>3 DEF StepOK
  <2>4. ASSUME s[i].op \in {"check", "delete"} PROVE LastOK(s, i, u)'
    <3>1. LastOK(s, i, u) /\ s[i].to \in Object /\ s[i].to # o
      BY <1>1, <1>8, <2>1, <2>4 DEF StepOK, LastOK, Work, SendStep, OwnStep
    <3> QED
      BY <1>2, <3>1 DEF LastOK
  <2> QED
    BY <2>2, <2>3, <2>4 DEF StepOK
<1>9. ASSUME NEW s, s = todo'[t] PROVE StepsOK(s, t)'
  <2> SUFFICES ASSUME NEW i \in DOMAIN s PROVE StepOK(s, i, t)'
    BY DEF StepsOK
  <2>1. i + 1 \in DOMAIN todo[t] /\ s[i] = todo[t][i + 1] /\ s[i].op = "send" /\ s[i].type = "pipe_term_ack"
    BY <1>1, <1>9
  <2>2. SendOK(todo[t], i + 1, t)
    BY <1>0, <1>1, <2>1 DEF Todo, StepsOK, StepOK
  <2>3. SendOK(s, i, t)
    BY <2>1, <2>2 DEF SendOK
  <2>4. SendOK(s, i, t)'
    BY <1>1, <1>7, <2>3
  <2> QED
    BY <2>1, <2>4 DEF StepOK
<1>10. Todo'
  <2> SUFFICES ASSUME NEW u \in Thread, NEW s, s = todo'[u] PROVE StepsOK(s, u)'
    BY DEF Todo
  <2>1. CASE u = t
    BY <1>9, <2>1
  <2>2. CASE u # t
    BY <1>1, <1>8, <2>2
  <2> QED
    BY <2>1, <2>2
<1> QED
  BY <1>6, <1>10

\* no order,
LEMMA DeleteOrder ==
    ASSUME IInv, NEW t, NEW o, Deletes(t, o)
    PROVE  Order' /\ Requests' /\ Checked'
<1>0. /\ QType /\ Todo /\ Commands /\ Order /\ Requests /\ Checked /\ mailbox' = mailbox
  BY DEF IInv, Typed, Deletes
<1>1. /\ o \in Object /\ Tid[o] = t /\ t \in Thread /\ ~Alive(o)
      /\ \A i \in DOMAIN todo[t] : \/ i = 1 /\ todo[t][i] = delete(o)
                                   \/ i # 1 /\ todo[t][i].op = "send" /\ todo[t][i].type = "pipe_term_ack"
      /\ \A i \in DOMAIN todo'[t] : i \in Nat /\ i + 1 # 1 /\ i + 1 \in DOMAIN todo[t] /\ todo'[t][i] = todo[t][i + 1]
      /\ \A u \in Thread : u # t => todo'[u] = todo[u]
  BY DeleteFacts
<1>2. /\ \A x \in Object : Alive(x)' <=> Alive(x)
      /\ \A x \in Object : x # o => own'[x] = own[x]
  BY DeleteOwn DEF SameAlive
<1>4. ASSUME NEW m, NEW n, n.type = "pipe_term_ack" PROVE Sorted(m, n)
  <2>2. m.type \in PipeCommand => Rank(m.type) <= Rank("pipe_term_ack")
    BY DEF PipeCommand, Rank
  <2> QED
    BY <1>4, <2>2 DEF Sorted
<1>5. ASSUME NEW u \in Thread, NEW s, s = todo'[u], NEW k \in DOMAIN s, s[k].op = "send"
      PROVE  /\ \A j \in DOMAIN mailbox[Tid[s[k].to]] : Sorted(mailbox[Tid[s[k].to]][j], s[k])
             /\ \A j \in DOMAIN s : j < k /\ s[j].op = "send" => Sorted(s[j], s[k])
  <2>1. CASE u = t
    <3>1. s[k].type = "pipe_term_ack"
      BY <1>1, <1>5, <2>1
    <3> QED
      BY <1>4, <3>1
  <2>2. CASE u # t
    <3>1. s = todo[u]
      BY <1>1, <1>5, <2>2
    <3> QED
      BY <1>0, <1>5, <3>1 DEF Order
  <2> QED
    BY <2>1, <2>2
<1>6. Order'
  <2>1. \A u \in Thread : \A k \in DOMAIN todo'[u] : todo'[u][k].op = "send" =>
          /\ \A j \in DOMAIN mailbox'[Tid[todo'[u][k].to]] : Sorted(mailbox'[Tid[todo'[u][k].to]][j], todo'[u][k])
          /\ \A j \in DOMAIN todo'[u] : j < k /\ todo'[u][j].op = "send" => Sorted(todo'[u][j], todo'[u][k])
    BY <1>0, <1>5
  <2> QED
    BY <1>0, <2>1 DEF Order
<1>7. Requests'
  <2> SUFFICES ASSUME NEW u \in Thread, NEW i \in DOMAIN mailbox'[u], NEW m, m = mailbox'[u][i], m.type = "term_req"
               PROVE  \/ Alive(m.arg)'
                      \/ \E j \in DOMAIN mailbox'[u] : j > i /\ mailbox'[u][j] \in To(m.to, "term_ack")
                      \/ \E v \in Thread : \E j \in DOMAIN todo'[v] : todo'[v][j] \in Sends(To(m.to, "term_ack"))
    BY DEF Requests
  <2>1. i \in DOMAIN mailbox[u] /\ m = mailbox[u][i] /\ CommandOK(m, u)
    BY <1>0 DEF Commands
  <2>2. m.arg \in Object
    BY <2>1 DEF CommandOK
  <2>3. \/ Alive(m.arg)
        \/ \E j \in DOMAIN mailbox[u] : j > i /\ mailbox[u][j] \in To(m.to, "term_ack")
        \/ \E v \in Thread : \E j \in DOMAIN todo[v] : todo[v][j] \in Sends(To(m.to, "term_ack"))
    BY <1>0, <2>1 DEF Requests
  <2>4. CASE Alive(m.arg)
    BY <1>2, <2>2, <2>4
  <2>6. CASE \E j \in DOMAIN mailbox[u] : j > i /\ mailbox[u][j] \in To(m.to, "term_ack")
    BY <1>0, <2>6
  <2>7. CASE \E v \in Thread : \E j \in DOMAIN todo[v] : todo[v][j] \in Sends(To(m.to, "term_ack"))
    <3>1. PICK v \in Thread : \E j \in DOMAIN todo[v] : todo[v][j] \in Sends(To(m.to, "term_ack"))
      BY <2>7
    <3>2. v # t
      <4>1. \A j \in DOMAIN todo[v] : todo[v][j] \in Sends(To(m.to, "term_ack")) =>
               todo[v][j].op = "send" /\ todo[v][j].type = "term_ack"
        BY DEF Sends, SendStep, To, Com
      <4> QED
        BY <1>1, <3>1, <4>1 DEF delete
    <3>3. todo'[v] = todo[v]
      BY <1>1, <3>2
    <3> QED
      BY <3>1, <3>3
  <2> QED
    BY <2>3, <2>4, <2>6, <2>7
<1>8. Checked'
  <2> SUFFICES ASSUME NEW x \in Object, Alive(x)', CanGo(own'[x])
               PROVE  check_acks(x) \in Range(todo'[Tid[x]])
    BY DEF Checked
  <2>1. Alive(x) /\ x # o /\ CanGo(own[x])
    BY <1>1, <1>2
  <2>2. check_acks(x) \in Range(todo[Tid[x]])
    BY <1>0, <2>1 DEF Checked
  <2>3. Tid[x] # t
    BY <1>1, <2>2 DEF Range, check_acks, delete
  <2>4. todo'[Tid[x]] = todo[Tid[x]]
    BY <1>1, <2>3, ThreadFacts
  <2> QED
    BY <2>2, <2>4
<1> QED
  BY <1>6, <1>7, <1>8

\* and no link;
LEMMA DeleteTree ==
    ASSUME IInv, NEW t, NEW o, Deletes(t, o)
    PROVE  Tree' /\ Links' /\ Children' /\ Awaited' /\ Gone'
<1>0. /\ QType /\ Typed /\ Tree /\ Links /\ Children /\ Awaited /\ Gone /\ engine' = engine \ {o}
      /\ UNCHANGED <<polled, pending, pipe, pstate, psession, endpoints, closed, immediate>>
  BY DEF IInv, Typed, Deletes
<1>1. /\ o \in Object /\ Made(o)
  BY DeleteFacts
<1>2. SameFields /\ SameAlive /\ SameCounts({})
  BY DeleteOwn
<1>3. \A x \in Object : x # o => own'[x] = own[x]
  BY DeleteOwn
<1>4. \A x \in Object : Made(x)' <=> Made(x)
  BY DeleteOwn
<1>5. \A c : Owns(c)' = Owns(c) /\ Terms(c)' = Terms(c) /\ Acks(c)' = Acks(c)
  BY <1>2 DEF SameCounts
<1>6. /\ \A x \in Object : Alive(x)' <=> Alive(x)
      /\ \A x \in Object : own'[x].owner = own[x].owner /\ own'[x].owned = own[x].owned
                           /\ own'[x].terminating = own[x].terminating /\ own'[x].term_acks = own[x].term_acks
  BY <1>2 DEF SameAlive, SameFields
<1>7. Tree'
  <2>1. own'[Socket].owner = None /\ Made(Socket)' /\ own'[Socket].terminating = closed'
    BY <1>0, <1>4, <1>6, SocketIn DEF Tree
  <2>2. ASSUME NEW c \in Object \ {Socket}
        PROVE  (IF Made(c) THEN own[c].owner \in OwnersOf(c) /\ Made(own[c].owner)
                ELSE own[c] = [own_t EXCEPT !.life = "none"])'
    <3>1. CASE Made(c)
      <4>1. own[c].owner \in Object /\ own[c].owner \in OwnersOf(c) /\ Made(own[c].owner)
        BY <1>0, <2>2, <3>1, OwnerIn
      <4>2. own[own[c].owner].life # "none"
        BY <4>1 DEF Made
      <4>3. own'[own[c].owner].life # "none"
        BY <1>4, <4>1 DEF Made
      <4>4. own'[c].owner = own[c].owner /\ Made(c)'
        BY <1>4, <1>6, <3>1
      <4> QED
        BY <4>1, <4>3, <4>4 DEF Made
    <3>2. CASE ~Made(c)
      <4>1. c # o /\ own[c] = [own_t EXCEPT !.life = "none"]
        BY <1>0, <1>1, <2>2, <3>2 DEF Tree
      <4> QED
        BY <1>3, <1>4, <3>2, <4>1
    <3> QED
      BY <3>1, <3>2
  <2>3. ASSUME NEW x \in Object
        PROVE  /\ own'[x].terminating => own'[x].owned = {}
               /\ \A c \in own'[x].owned : Made(c)' /\ own'[c].owner = x
    <3>1. own[x].owned \subseteq Object
      <4>1. own[x] \in OwnRecord
        BY <1>0 DEF Typed
      <4> QED
        BY <4>1 DEF OwnRecord
    <3> QED
      BY <1>0, <1>4, <1>6, <3>1 DEF Tree
  <2> QED
    BY <2>1, <2>2, <2>3 DEF Tree
<1>8. Links'
  <2>1. \A x \in polled : x \in Object /\ Alive(x)' /\ ~own'[x].terminating
    BY <1>0, <1>6, SocketIn DEF Links, Typed
  <2>2. \A s, P : OtherPipes(s, P)' = OtherPipes(s, P)
    BY <1>0 DEF OtherPipes
  <2>3. \A s \in engine' : own'[s].life = "live"
    BY <1>0, <1>3, SocketIn DEF Links, Typed
  <2>4. \A p \in Pipe : psession[p] # None => psession[p] \in Object
    BY <1>0, SocketIn DEF Typed
  <2>5. (\A p \in Pipe : psession[p] # None => Made(psession[p]))'
    <3> SUFFICES ASSUME NEW p \in Pipe, psession[p] # None PROVE own'[psession[p]].life # "none"
      BY <1>0 DEF Made
    <3> QED
      BY <1>0, <1>4, <2>4 DEF Links, Made
  <2>6. \A s \in Session : own'[s].terminating => OtherPipes(s, {}) = {}
    BY <1>0, <1>6, SocketIn DEF Links
  <2> QED
    BY <1>0, <2>1, <2>2, <2>3, <2>5, <2>6 DEF Links
<1>9. Children'
  <2> SUFFICES ASSUME NEW c \in Object \ {Socket}, Made(c)' PROVE ChildOK(c)'
    BY DEF Children
  <2>1. ChildOK(c) /\ Made(c)
    BY <1>0, <1>4 DEF Children
  <2>2. own[c].owner \in Object
    BY <1>0, <2>1, OwnerIn
  <2>3. own'[c].owner = own[c].owner /\ own'[own[c].owner].owned = own[own[c].owner].owned
    BY <1>6, <2>2
  <2>4. /\ Alive(c)' <=> Alive(c)
        /\ own'[c].terminating = own[c].terminating
        /\ c \in own'[own'[c].owner].owned <=> c \in own[own[c].owner].owned
    BY <1>6, <2>3
  <2> QED
    BY <1>0, <1>5, <2>1, <2>4 DEF ChildOK
<1>10. Awaited'
  <2> SUFFICES ASSUME NEW x \in Object
               PROVE  own'[x].term_acks = Cardinality(Kids(x)') + Acks(x)' + Cardinality(AwaitedPipes(x)')
    BY DEF Awaited
  <2>1. AwaitedPipes(x)' = AwaitedPipes(x)
    BY <1>0 DEF AwaitedPipes, pipes
  <2>2. Kids(x)' = Kids(x)
    BY <1>5, <1>6 DEF Kids
  <2> QED
    BY <1>0, <1>5, <1>6, <2>1, <2>2 DEF Awaited
<1>11. Gone'
  <2> SUFFICES ASSUME NEW x \in Object, Made(x)', ~Alive(x)' PROVE GoneOK(x)'
    BY DEF Gone
  <2>1. GoneOK(x)
    BY <1>0, <1>4, <1>6 DEF Gone
  <2> QED
    BY <1>0, <1>6, <2>1 DEF GoneOK
<1> QED
  BY <1>7, <1>8, <1>9, <1>10, <1>11

\* so it preserves the invariant.
LEMMA DeleteStep ==
    ASSUME IInv, NEW t, NEW o, Deletes(t, o), failed' = {}
    PROVE  IInv'
<1>0. /\ QType /\ Typed /\ Tree /\ Seqnums /\ Engines /\ PlugFirst /\ Pipes /\ engine' = engine \ {o}
      /\ UNCHANGED <<polled, pending, pipe, pstate, psession, endpoints, closed, immediate>>
  BY DEF IInv, Typed, Deletes
<1>1. /\ own' \in [Object -> OwnRecord] /\ SameFields /\ SameAlive
  BY DeleteOwn
<1>2. QType' /\ (\A D : Flight(D)' = Flight(D)) /\ SameCounts({}) /\ \A x : NAnn(x)' = NAnn(x)
  BY DeleteOwn
<1>3. Typed'
  BY <1>0, <1>1, <1>2 DEF Typed
<1>4. Tree' /\ Links' /\ Children' /\ Awaited' /\ Gone'
  BY DeleteTree
<1>5. Commands' /\ Todo'
  BY DeleteCommands
<1>6. Order' /\ Requests' /\ Checked'
  BY DeleteOrder
<1>7. Seqnums'
  <2> SUFFICES ASSUME NEW x \in Object
               PROVE own'[x].sent_seqnum + NAnn(x)' = own'[x].processed_seqnum + NSeq(x)'
    BY DEF Seqnums
  <2>1. NSeq(x)' = NSeq(x)
    BY <1>2 DEF NSeq
  <2>2. own'[x].sent_seqnum = own[x].sent_seqnum /\ own'[x].processed_seqnum = own[x].processed_seqnum
    BY <1>1 DEF SameFields
  <2> QED
    BY <1>0, <1>2, <2>1, <2>2 DEF Seqnums
<1>8. \A x : Plugs(x)' = Plugs(x) /\ Attaches(x)' = Attaches(x)
  BY <1>2 DEF SameCounts
<1>9. Engines'
  <2>1. \A c \in Connecter : own'[c].owner = own[c].owner
    BY <1>1, SocketIn DEF SameFields
  <2>2. \A x \in Object : Plugs(x)' <= Plugs(x) /\ Attaches(x)' <= Attaches(x)
    <3>1. \A x : Plugs(x) \in Nat /\ Attaches(x) \in Nat
      BY <1>0, CountsType
    <3> QED
      BY <1>8, <3>1
  <2>3. \A c \in Connecter : Active(c) => own[c].owner \in Object
    BY ActiveOwner, SocketIn
  <2>4. polled' \subseteq polled /\ engine' \subseteq engine
    BY <1>0
  <2> QED
    BY <1>0, <1>2, <2>1, <2>2, <2>3, <2>4, EnginesLess
<1>10. PlugFirst'
  <2>1. \A c \in Object : own'[c].terminating = own[c].terminating
    BY <1>1 DEF SameFields
  <2> QED
    BY <1>0, <1>8, <2>1 DEF PlugFirst
<1>11. Pipes'
  <2>1. pstate' = pstate /\ psession' = psession
    BY <1>0
  <2>2. SameCounts({"plug", "attach", "term", "term_ack", "own"})
    BY <1>2 DEF SameCounts
  <2> QED
    BY <1>0, <2>1, <2>2, PipesFrame
<1> QED
  BY <1>3, <1>4, <1>5, <1>6, <1>7, <1>9, <1>10, <1>11 DEF IInv

\* process_destroy () preserves the invariant: a session has no pipe left.
LEMMA DestroyStep ==
    ASSUME IInv, NEW t \in Thread, process_destroy(t)
    PROVE  IInv'
<1> DEFINE o == Now(t).to
<1>0. QType /\ failed = {} /\ Links
  BY DEF IInv, Typed
<1>1. /\ todo[t] \in Seq(Work) /\ todo[t] # <<>> /\ Now(t).op = "delete"
      /\ own' = [own EXCEPT ![o].life = "deleted"] /\ engine' = engine \ {o}
      /\ zmq_assert("!pipe", o \in Session => pipe[o] = None)
      /\ todo' = [todo EXCEPT ![t] = Tail(todo[t])]
      /\ UNCHANGED <<polled, pending, evars, svars, mailbox>>
  BY <1>0 DEF process_destroy, Idle, Now, QType
<1>2. Tail(todo[t]) \in Seq(Work)
  BY <1>1, TailFacts
<1>3. Runner(t, Tail(todo[t]))
  BY <1>0, <1>1, <1>2 DEF Runner
<1>4. Deletes(t, o)
  BY <1>1, <1>3 DEF Deletes, evars, svars
<1> HIDE DEF o
<1>5. own[o].terminating
  BY <1>4, DeleteFacts
<1>6. o \in Session => pipe[o] = None
  <2> SUFFICES ASSUME o \in Session, pipe[o] # None PROVE FALSE
    OBVIOUS
  <2>1. OtherPipes(o, {}) = {}
    BY <1>0, <1>5 DEF Links
  <2>2. psession[pipe[o]] = o /\ pstate[<<pipe[o], "session">>] \notin {"none", "gone"}
    BY <1>0 DEF Links
  <2>3. pipe[o] \in Pipe
    BY DEF IInv, Typed
  <2> QED
    BY <2>1, <2>2, <2>3 DEF OtherPipes
<1>7. failed' = {}
  BY <1>0, <1>1, <1>6 DEF zmq_assert
<1> QED
  BY <1>4, <1>7, DeleteStep
-----------------------------------------------------------------------------
(* The invariant holds *)

\* At first nothing is in flight.
LEMMA InitCounts ==
    ASSUME Init
    PROVE  QType /\ (\A D : Flight(D) = 0) /\ \A o : NAnn(o) = 0
<1>1. mailbox = [t \in Thread |-> <<>>] /\ todo = [t \in Thread |-> <<>>]
  BY DEF Init
<1>2. QType
  BY <1>1 DEF QType
<1>3. (\A t \in Thread : DOMAIN mailbox[t] = {}) /\ (\A t \in Thread : DOMAIN todo[t] = {})
  BY <1>1
<1>4. \A D : Flight(D) = 0
  BY <1>2, <1>3, FlightZero
<1>5. ASSUME NEW o PROVE NAnn(o) = 0
  <2>1. Family(Thread, Work, todo)
    BY <1>2, Families
  <2> QED
    BY <1>3, <2>1, CountZero DEF NAnn
<1> QED
  BY <1>2, <1>4, <1>5

\* The invariant holds at first.
LEMMA InitInv ==
    ASSUME Init
    PROVE  IInv
<1>0. QType /\ (\A D : Flight(D) = 0) /\ \A o : NAnn(o) = 0
  BY InitCounts
<1>1. /\ polled = {} /\ engine = {} /\ pending = {}
      /\ pipe = [s \in Session |-> None]
      /\ pstate = [e \in Pipe \X {"socket", "session"} |-> "none"]
      /\ psession = [p \in Pipe |-> None]
      /\ endpoints = {} /\ closed = FALSE /\ immediate \in Immediate
      /\ (\A t \in Thread : DOMAIN mailbox[t] = {}) /\ (\A t \in Thread : DOMAIN todo[t] = {})
      /\ failed = {}
  BY DEF Init
<1>2. /\ own \in [Object -> OwnRecord]
      /\ \A o \in Object : /\ own[o].life = (IF o = Socket THEN "live" ELSE "none")
                           /\ own[o].owner = None /\ own[o].terminating = FALSE /\ own[o].sent_seqnum = 0
                           /\ own[o].processed_seqnum = 0 /\ own[o].owned = {} /\ own[o].term_acks = 0
                           /\ (o # Socket => own[o] = [own_t EXCEPT !.life = "none"])
  <2>1. own = [o \in Object |-> [own_t EXCEPT !.life = IF o = Socket THEN "live" ELSE "none"]]
    BY DEF Init
  <2>2. ASSUME NEW o \in Object
        PROVE  own[o] = [life |-> IF o = Socket THEN "live" ELSE "none", owner |-> None, terminating |-> FALSE,
                         sent_seqnum |-> 0, processed_seqnum |-> 0, owned |-> {}, term_acks |-> 0]
    BY <2>1 DEF own_t
  <2>3. \A o \in Object : own[o] \in OwnRecord
    <3> SUFFICES ASSUME NEW o \in Object, NEW l \in {"none", "live"}, l = IF o = Socket THEN "live" ELSE "none"
                 PROVE own[o] \in OwnRecord
      OBVIOUS
    <3>1. own[o] = [life |-> l, owner |-> None, terminating |-> FALSE,
                    sent_seqnum |-> 0, processed_seqnum |-> 0, owned |-> {}, term_acks |-> 0]
      BY <2>2
    <3> QED
      BY <3>1 DEF OwnRecord
  <2>4. own \in [Object -> OwnRecord]
    BY <2>1, <2>3
  <2>5. \A o \in Object : o # Socket => own[o] = [own_t EXCEPT !.life = "none"]
    BY <2>1
  <2> QED
    BY <2>2, <2>4, <2>5
<1>3. /\ \A x : Plugs(x) = 0 /\ Attaches(x) = 0 /\ Terms(x) = 0 /\ Acks(x) = 0 /\ Owns(x) = 0 /\ Binds(x) = 0
      /\ \A x : Hiccups(x) = 0 /\ NSeq(x) = 0
      /\ \A p, x : PT(p, x) = 0 /\ PA(p, x) = 0
  BY <1>0 DEF Plugs, Attaches, Terms, Acks, Owns, Binds, Hiccups, NSeq, PT, PA
<1>4. \A p \in Pipe : pstate[<<p, "session">>] = "none" /\ pstate[<<p, "socket">>] = "none" /\ psession[p] = None
  BY <1>1
<1>5. (\A x \in Object : Made(x) <=> x = Socket) /\ Socket \in Object /\ None \notin Object
      /\ Session \subseteq Object /\ Connecter \subseteq Object
      /\ \A x \in Object : ~Alive(x) <=> x # Socket
  <2>1. \A x \in Object : Made(x) <=> x = Socket
    BY <1>2 DEF Made
  <2>2. \A x \in Object : ~Going(x)
    BY <1>1, ThreadFacts DEF Going, Range
  <2> QED
    BY <1>2, <2>1, <2>2, OwnAssumption, SocketIn DEF Alive
<1>6. Typed
  <2>1. pstate \in [Pipe \X {"socket", "session"} -> PState]
    BY <1>1 DEF PState
  <2> QED
    BY <1>0, <1>1, <1>2, <2>1 DEF Typed
<1>7. Tree
  BY <1>1, <1>2, <1>5 DEF Tree
<1>8. Links
  BY <1>1, <1>2, <1>4, <1>5 DEF Links
<1>9. Seqnums
  BY <1>0, <1>2, <1>3 DEF Seqnums
<1>10. Commands /\ Todo /\ Order /\ Requests
  <2>1. Commands
    BY <1>1 DEF Commands
  <2>2. Todo
    BY <1>1 DEF Todo, StepsOK
  <2>3. Order
    BY <1>1 DEF Order
  <2>4. Requests
    BY <1>1 DEF Requests
  <2> QED
    BY <2>1, <2>2, <2>3, <2>4
<1>11. Children
  BY <1>5 DEF Children
<1>12. Awaited
  <2> SUFFICES ASSUME NEW o \in Object
               PROVE own[o].term_acks = Cardinality(Kids(o)) + Acks(o) + Cardinality(AwaitedPipes(o))
    BY DEF Awaited
  <2>1. Kids(o) = {}
    BY <1>2, <1>5 DEF Kids
  <2>2. AwaitedPipes(o) = {}
    BY <1>1 DEF AwaitedPipes
  <2> QED
    BY <1>2, <1>3, <2>1, <2>2, FS_EmptySet
<1>13. Gone /\ PlugFirst
  BY <1>1, <1>3, <1>5 DEF Gone, PlugFirst
<1>14. Checked
  BY <1>2, <1>5 DEF Checked, CanGo
<1>15. Engines
  BY <1>1, <1>3 DEF Engines, Active, B
<1>16. Pipes
  <2> SUFFICES ASSUME NEW p \in Pipe PROVE PipeOK(p)
    BY DEF Pipes
  <2>1. /\ pstate[<<p, "session">>] = "none" /\ pstate[<<p, "socket">>] = "none" /\ psession[p] = None
        /\ Binds(p) = 0 /\ Hiccups(p) = 0
        /\ PT(p, "socket") = 0 /\ PT(p, "session") = 0 /\ PA(p, "socket") = 0 /\ PA(p, "session") = 0
    BY <1>3, <1>4
  <2>2. Joint("none", "none", 0, 0, 0, 0, 0)
    BY DEF Joint
  <2> QED
    BY <2>1, <2>2 DEF PipeOK
<1> QED
  BY <1>1, <1>6, <1>7, <1>8, <1>9, <1>10, <1>11, <1>12, <1>13, <1>14, <1>15, <1>16 DEF IInv

\* Nothing happens to the invariant when nothing happens.
LEMMA Stutters ==
    ASSUME IInv, UNCHANGED vars
    PROVE  IInv'
<1>0. /\ own' = own /\ polled' = polled /\ engine' = engine /\ pending' = pending /\ pipe' = pipe /\ pstate' = pstate
      /\ psession' = psession /\ endpoints' = endpoints /\ closed' = closed /\ immediate' = immediate
      /\ mailbox' = mailbox /\ todo' = todo /\ failed' = failed
  BY DEF vars, lvars, evars, svars
<1>1. /\ Typed /\ QType /\ Tree /\ Links /\ Children /\ Awaited /\ Gone /\ Engines /\ PlugFirst /\ Pipes /\ Seqnums
      /\ Commands /\ Todo /\ Order /\ Requests /\ Checked /\ failed = {}
  BY DEF IInv, Typed
<1>2. \A D : Flight(D)' = Flight(D)
  BY <1>0 DEF Flight
<1>3. SameShape /\ SameAlive
  BY <1>0 DEF SameShape, SameAlive, Alive, Going
<1>4. /\ SameCounts({})
      /\ \A x : Plugs(x)' = Plugs(x) /\ Attaches(x)' = Attaches(x)
      /\ \A x \in Object : Owns(x)' = Owns(x) /\ Terms(x)' = Terms(x)
      /\ \A x \in Object : Owns(x)' = Owns(x) /\ Acks(x)' = Acks(x)
      /\ \A x : NSeq(x)' = NSeq(x) /\ NAnn(x)' = NAnn(x)
  BY <1>0, <1>2 DEF SameCounts, Plugs, Attaches, Terms, Acks, Owns, Binds, Hiccups, PT, PA, NSeq, NAnn
<1>5. Typed' /\ failed' = {}
  BY <1>0, <1>1 DEF Typed, QType
<1>6. Tree'
  BY <1>0, <1>1, <1>3, TreeFrame
<1>7. Links'
  <2>1. UNCHANGED <<lvars, evars, svars>>
    BY DEF vars
  <2> QED
    BY <1>1, <1>3, <2>1, LinksFrame
<1>8. Children'
  BY <1>0, <1>1, <1>3, <1>4, ChildrenFrame
<1>9. Awaited'
  <2>1. \A x \in Object : own'[x].term_acks = own[x].term_acks /\ Owns(x)' = Owns(x) /\ Acks(x)' = Acks(x)
    BY <1>0, <1>4
  <2> QED
    BY <1>0, <1>1, <1>3, <2>1, AwaitedFrame
<1>10. Gone'
  <2>1. \A x \in Object : Made(x) /\ ~Alive(x) => own'[x].term_acks = own[x].term_acks
    BY <1>0
  <2> QED
    BY <1>0, <1>1, <1>3, <2>1, GoneFrame
<1>11. Engines'
  BY <1>0, <1>1, <1>3, <1>4, EnginesFrame
<1>12. PlugFirst'
  BY <1>0, <1>1, <1>3, <1>4, PlugFrame
<1>13. Pipes'
  <2>1. SameCounts({"plug", "attach", "term", "term_ack", "own"})
    BY <1>4 DEF SameCounts
  <2> QED
    BY <1>0, <1>1, <2>1, PipesFrame
<1>14. Seqnums'
  BY <1>0, <1>1, <1>4 DEF Seqnums
<1>15. Grows
  BY <1>0, <1>3, SameGrows
<1>16. Commands'
  <2> SUFFICES ASSUME NEW u \in Thread, NEW i \in DOMAIN mailbox'[u], NEW m, m = mailbox'[u][i]
               PROVE CommandOK(m, u)'
    BY DEF Commands
  <2>1. CommandOK(m, u)
    BY <1>0, <1>1 DEF Commands
  <2> QED
    BY <1>15, <2>1, CommandFrame
<1>17. Todo'
  <2> SUFFICES ASSUME NEW u \in Thread, NEW s, s = todo'[u] PROVE StepsOK(s, u)'
    BY DEF Todo
  <2>1. StepsOK(s, u) /\ s \in Seq(Work)
    BY <1>0, <1>1 DEF Todo, QType
  <2> QED
    BY <1>15, <2>1, StepsFrame
<1>18. Order'
  BY <1>0, <1>1 DEF Order
<1>19. Requests'
  <2> SUFFICES ASSUME NEW u \in Thread, NEW i \in DOMAIN mailbox'[u], NEW m, m = mailbox'[u][i], m.type = "term_req"
               PROVE  \/ Alive(m.arg)'
                      \/ \E j \in DOMAIN mailbox'[u] : j > i /\ mailbox'[u][j] \in To(m.to, "term_ack")
                      \/ \E v \in Thread : \E j \in DOMAIN todo'[v] : todo'[v][j] \in Sends(To(m.to, "term_ack"))
    BY DEF Requests
  <2>1. m.arg \in Object
    BY <1>0, <1>1 DEF Commands, CommandOK
  <2> QED
    BY <1>0, <1>1, <1>3, <2>1 DEF Requests, SameAlive
<1>20. Checked'
  BY <1>0, <1>1, <1>3 DEF Checked, SameAlive
<1> QED
  BY <1>5, <1>6, <1>7, <1>8, <1>9, <1>10, <1>11, <1>12, <1>13, <1>14, <1>16, <1>17, <1>18, <1>19, <1>20 DEF IInv

\* Every step keeps it.
LEMMA NextInv ==
    ASSUME IInv, Next
    PROVE  IInv'
<1>1. ASSUME NEW t \in Thread, Step(t) PROVE IInv'
  BY <1>1, IncStep, SendStepIs, CheckedStep, DestroyStep DEF Step
<1>2. ASSUME NEW o \in Object, Command(o) PROVE IInv'
  <2>1. ASSUME process_own(o) \/ process_term_req(o) \/ process_term_ack(o) PROVE IInv'
    BY <2>1, ProcessOwnStep, TermReqStep, TermAckStep
  <2>2. ASSUME process_pipe_term(o) \/ pipe_terminated_session(o) PROVE IInv'
    BY <2>2, PipeTermStep, SessionAckStep
  <2>3. ASSUME process_plug_listener(o) \/ process_plug_connecter(o) PROVE IInv'
    BY <2>3, PlugPolledStep
  <2>4. ASSUME process_term_listener(o) \/ process_term_connecter(o) \/ process_term_session(o) PROVE IInv'
    BY <2>4, ListenerTermStep, ConnecterTermStep, SessionTermStep
  <2>5. ASSUME process_plug_accepted(o) \/ process_plug_connected(o) \/ process_attach(o) PROVE IInv'
    BY <2>5, PlugAcceptedStep, PlugConnectedStep, AttachStep
  <2> QED
    BY <1>2, <2>1, <2>2, <2>3, <2>4, <2>5 DEF Command
<1>3. ASSUME SocketCommand PROVE IInv'
  BY <1>3, HiccupStep, SocketAckStep, BindStep DEF SocketCommand
<1>4. ASSUME NEW p \in Pipe, NEW x \in {"socket", "session"}, process_delimiter(p, x) PROVE IInv'
  BY <1>4, DelimiterStep DEF End
<1>5. ASSUME Api PROVE IInv'
  <2>1. CASE start_reaping
    BY <2>1, ReapStep
  <2>2. ASSUME NEW o, add_endpoint(o) PROVE IInv'
    BY <2>2, AddEndpointStep
  <2>3. ASSUME NEW o, NEW p \in Pipe \cup {None}, term_endpoint(o, p) PROVE IInv'
    BY <2>3, EndpointStep
  <2> QED
    BY <1>5, <2>1, <2>2, <2>3 DEF Api
<1>6. ASSUME Network PROVE IInv'
  <2>1. ASSUME NEW l \in Listener, NEW a \in Accepted, in_event(l, a) PROVE IInv'
    BY <2>1, InEventStep
  <2>2. ASSUME NEW c, out_event(c) PROVE IInv'
    BY <2>2, OutEventStep
  <2>3. ASSUME NEW s \in Session, engine_error_terminates(s) \/ reconnect(s, FALSE) PROVE IInv'
    BY <2>3, EngineErrorStep, LostStep
  <2>4. ASSUME NEW s, CanConnect(s), reconnect(s, TRUE) PROVE IInv'
    BY <2>4, ReconnectStep
  <2> QED
    BY <1>6, <2>1, <2>2, <2>3, <2>4 DEF Network
<1> QED
  BY <1>1, <1>2, <1>3, <1>4, <1>5, <1>6 DEF Next, Runs

\* The parts of the invariant hold in every state.
THEOREM OwnInvariance == Spec => []IInv
<1>1. Init => IInv
  BY InitInv
<1>2. IInv /\ [Next]_vars => IInv'
  BY NextInv, Stutters
<1> QED
  BY <1>1, <1>2, PTL DEF Spec
-----------------------------------------------------------------------------
(* What the runs check *)

\* The sets of the announcements and of the commands of SeqnumsMatch have as many
\* members as are counted.
LEMMA AnnouncedCount ==
    ASSUME QType, NEW o
    PROVE  Cardinality(Announced(o)) = NAnn(o)
<1>1. DOMAIN todo = Thread /\ \A t \in Thread : todo[t] \in Seq(Work)
  BY DEF QType
<1>2. \A x \in Steps : StepAt(x) \in Work
  BY <1>1 DEF Steps, StepAt
<1>3. \A x \in Steps : StepAt(x) \in Ann(o) <=>
         /\ StepAt(x).to = o
         /\ (StepAt(x).op = "inc" \/ (StepAt(x).op = "send" /\ StepAt(x).inc = 1))
  BY <1>2 DEF Ann
<1>4. Places(todo, Ann(o)) = {x \in Steps : StepAt(x) \in Ann(o)}
  BY <1>1 DEF Places, Steps, StepAt
<1>5. Announced(o) = Places(todo, Ann(o))
  BY <1>3, <1>4 DEF Announced
<1> QED
  BY <1>5 DEF NAnn, Count

\* The same for the commands that are about to be sent,
LEMMA PlannedCount ==
    ASSUME QType, NEW o \in Object
    PROVE  Cardinality(Planned(o, SeqCommand)) = Count(todo, Sends(SeqTo(o)))
<1>1. DOMAIN todo = Thread /\ \A t \in Thread : todo[t] \in Seq(Work)
  BY DEF QType
<1>2. \A x \in Steps : StepAt(x) \in Work
  BY <1>1 DEF Steps, StepAt
<1>3. ASSUME NEW st \in Work
      PROVE  st \in Sends(SeqTo(o)) <=> st.to = o /\ st.op = "send" /\ st.type \in SeqCommand
  <2>1. CASE st \in SendStep
    <3>1. Com(st.to, st.type, st.arg) \in Cmd /\ Com(st.to, st.type, st.arg).to = st.to
          /\ Com(st.to, st.type, st.arg).type = st.type /\ st.op = "send"
      BY <2>1 DEF SendStep, Com, Cmd
    <3> QED
      BY <2>1, <3>1 DEF Sends, SeqTo
  <2>2. CASE st \in OwnStep
    BY <2>2 DEF OwnStep, Sends, SendStep
  <2> QED
    BY <2>1, <2>2 DEF Work
<1>4. Places(todo, Sends(SeqTo(o))) = {x \in Steps : StepAt(x) \in Sends(SeqTo(o))}
  BY <1>1 DEF Places, Steps, StepAt
<1>5. Planned(o, SeqCommand) = Places(todo, Sends(SeqTo(o)))
  BY <1>2, <1>3, <1>4 DEF Planned
<1> QED
  BY <1>5 DEF Count

\* and for those in the mailbox, as they are in the mailbox of their object.
LEMMA QueuedCount ==
    ASSUME QType, Commands, NEW o \in Object
    PROVE  Cardinality(Queued(o, SeqCommand)) = Count(mailbox, SeqTo(o))
<1>1. Family(Thread, Cmd, mailbox) /\ Tid[o] \in Thread
  BY Families, ThreadFacts
<1>2. \A t \in Thread : \A i \in DOMAIN mailbox[t] : mailbox[t][i] \in Cmd
  BY DEF QType
<1>3. Rest(mailbox, Tid[o], SeqTo(o)) = {}
  <2> SUFFICES ASSUME NEW x \in Places(mailbox, SeqTo(o)), x[1] # Tid[o]
               PROVE FALSE
    BY DEF Rest
  <2>1. x[1] \in Thread /\ x[2] \in DOMAIN mailbox[x[1]] /\ mailbox[x[1]][x[2]] \in SeqTo(o)
    BY <1>1, PlacesFinite
  <2>2. CommandOK(mailbox[x[1]][x[2]], x[1])
    BY <2>1 DEF Commands
  <2> QED
    BY <2>1, <2>2 DEF CommandOK, SeqTo
<1>4. Queued(o, SeqCommand) = Spots(mailbox[Tid[o]], SeqTo(o))
  BY <1>1, <1>2 DEF Queued, Spots, SeqTo
<1>5. Count(mailbox, SeqTo(o)) = Cardinality(Rest(mailbox, Tid[o], SeqTo(o))) + SeqCount(mailbox[Tid[o]], SeqTo(o))
  BY <1>1, CountSplit
<1>6. SeqCount(mailbox[Tid[o]], SeqTo(o)) \in Nat
  <2>1. mailbox[Tid[o]] \in Seq(Cmd)
    BY <1>1 DEF QType
  <2> QED
    BY <2>1, SeqCountType
<1>7. Cardinality(Rest(mailbox, Tid[o], SeqTo(o))) = 0
  BY <1>3, FS_EmptySet
<1> QED
  BY <1>4, <1>5, <1>6, <1>7 DEF SeqCount

\* The sets that Awaited counts are finite.
LEMMA KidsFinite ==
    ASSUME NEW o \in Object
    PROVE  /\ IsFiniteSet(Kids(o)) /\ Cardinality(Kids(o)) \in Nat
           /\ IsFiniteSet(AwaitedPipes(o)) /\ Cardinality(AwaitedPipes(o)) \in Nat
<1>1. IsFiniteSet(Object) /\ IsFiniteSet(Pipe)
  BY OwnAssumption
<1>2. Kids(o) \subseteq Object
  BY DEF Kids
<1>3. AwaitedPipes(o) \subseteq Pipe
  BY DEF AwaitedPipes, pipes
<1>4. IsFiniteSet(Kids(o)) /\ IsFiniteSet(AwaitedPipes(o))
  BY <1>1, <1>2, <1>3, FS_Subset
<1> QED
  BY <1>4, FS_CardinalityType

\* The invariant implies what the run checks: the counters and the assertions,
LEMMA InvSound ==
    ASSUME IInv
    PROVE  OwnershipSound
<1>0. Typed /\ QType /\ Seqnums /\ Commands /\ Awaited /\ failed = {}
  BY DEF IInv, Typed
<1>1. TypeOK
  <2>1. ASSUME NEW o \in Object
        PROVE  own[o].term_acks \in Nat
    <3>1. own[o].term_acks = Cardinality(Kids(o)) + Acks(o) + Cardinality(AwaitedPipes(o))
      BY <1>0 DEF Awaited
    <3>2. Cardinality(Kids(o)) \in Nat /\ Cardinality(AwaitedPipes(o)) \in Nat
      BY KidsFinite
    <3>3. Acks(o) \in Nat
      BY <1>0, CountsType
    <3> QED
      BY <3>1, <3>2, <3>3
  <2>2. own \in [Object -> OwnRecord]
    BY <1>0 DEF Typed
  <2>3. own \in [Object -> [life: {"none", "live", "deleted"}, owner: Object \cup {None},
                           terminating: BOOLEAN, sent_seqnum: Nat, processed_seqnum: Nat,
                           owned: SUBSET Object, term_acks: Nat]]
    BY <2>1, <2>2 DEF OwnRecord
  <2> QED
    BY <1>0, <2>3 DEF Typed, TypeOK
<1>2. SeqnumsMatch
  <2> SUFFICES ASSUME NEW o \in Object
               PROVE own[o].sent_seqnum + Cardinality(Announced(o))
                       = own[o].processed_seqnum + Cardinality(Queued(o, SeqCommand))
                                                 + Cardinality(Planned(o, SeqCommand))
    BY DEF SeqnumsMatch
  <2>1. own[o].sent_seqnum + NAnn(o) = own[o].processed_seqnum + NSeq(o)
    BY <1>0 DEF Seqnums
  <2>2. NSeq(o) = Count(mailbox, SeqTo(o)) + Count(todo, Sends(SeqTo(o)))
    BY DEF NSeq, Flight
  <2>3. Count(mailbox, SeqTo(o)) \in Nat /\ Count(todo, Sends(SeqTo(o))) \in Nat
    BY <1>0, FlightType
  <2>4. own[o].processed_seqnum \in Nat
    BY <1>0 DEF Typed, OwnRecord
  <2>5. /\ Cardinality(Announced(o)) = NAnn(o)
        /\ Cardinality(Planned(o, SeqCommand)) = Count(todo, Sends(SeqTo(o)))
        /\ Cardinality(Queued(o, SeqCommand)) = Count(mailbox, SeqTo(o))
    BY <1>0, AnnouncedCount, PlannedCount, QueuedCount
  <2> QED
    BY <2>1, <2>2, <2>3, <2>4, <2>5
<1> QED
  BY <1>0, <1>1, <1>2 DEF OwnershipSound, AssertionsHold

\* The counters of a living object account for every command on its way to it, and
\* no assertion of the handlers of own_t, of the pipes and of the sessions fails.
THEOREM OwnershipIsSound == Spec => []OwnershipSound
<1>1. IInv => OwnershipSound
  BY InvSound
<1> QED
  BY <1>1, OwnInvariance, PTL

\* A step for o that a thread has left is for a living object, unless it is the
\* check or the deletion of o.
LEMMA StepAlive ==
    ASSUME IInv, NEW t \in Thread, NEW i \in DOMAIN todo[t],
           todo[t][i].op \in {"inc", "send"}
    PROVE  Alive(todo[t][i].to)
<1>1. StepOK(todo[t], i, t)
  BY DEF IInv, Todo, StepsOK
<1>2. CASE todo[t][i].op = "inc"
  <2>1. IncOK(todo[t], i, t)
    BY <1>1, <1>2 DEF StepOK
  <2> QED
    BY <2>1 DEF IncOK
<1>3. CASE todo[t][i].op = "send"
  <2>1. SendOK(todo[t], i, t)
    BY <1>1, <1>3 DEF StepOK
  <2>2. CommandOK(Com(todo[t][i].to, todo[t][i].type, todo[t][i].arg), Tid[todo[t][i].to])
    BY <2>1 DEF SendOK
  <2> QED
    BY <2>2 DEF CommandOK, Com
<1> QED
  BY <1>2, <1>3

\* Nothing is left for a deleted object.
LEMMA InvNoUse ==
    ASSUME IInv
    PROVE  NoUseAfterDelete
<1> SUFFICES ASSUME NEW o \in Object, own[o].life = "deleted"
             PROVE  /\ Queued(o, CommandType) = {} /\ Planned(o, CommandType) = {} /\ Announced(o) = {}
                    /\ \A c \in Object : own[c].owner = o =>
                         own[c].life = "deleted" \/ delete(c) \in Range(todo[Tid[c]])
                    /\ o # Socket => OtherPipes(o, {}) = {}
                    /\ o = Socket => \A p \in Pipe : pstate[<<p, "socket">>] \in {"none", "gone"}
  BY DEF NoUseAfterDelete
<1>0. Typed /\ QType /\ Tree /\ Links /\ Commands /\ Gone
  BY DEF IInv, Typed
<1>1. Made(o) /\ ~Alive(o)
  BY DEF Made, Alive
<1>2. GoneOK(o)
  BY <1>0, <1>1 DEF Gone
<1>3. Queued(o, CommandType) = {}
  <2> SUFFICES ASSUME NEW i \in DOMAIN mailbox[Tid[o]], mailbox[Tid[o]][i].to = o
               PROVE FALSE
    BY DEF Queued
  <2>1. Tid[o] \in Thread
    BY ThreadFacts
  <2>2. CommandOK(mailbox[Tid[o]][i], Tid[o])
    BY <1>0, <2>1 DEF Commands
  <2> QED
    BY <1>1, <2>2 DEF CommandOK
<1>4. ASSUME NEW x \in Steps
      PROVE  x[1] \in Thread /\ x[2] \in DOMAIN todo[x[1]]
  BY DEF Steps
<1>5. Planned(o, CommandType) = {} /\ Announced(o) = {}
  <2>1. ASSUME NEW x \in Steps, StepAt(x).to = o, StepAt(x).op \in {"inc", "send"}
        PROVE  FALSE
    <3>1. Alive(StepAt(x).to)
      BY <1>4, <2>1, StepAlive DEF StepAt
    <3> QED
      BY <1>1, <2>1, <3>1
  <2>2. Planned(o, CommandType) = {}
    BY <2>1 DEF Planned
  <2>3. Announced(o) = {}
    BY <2>1 DEF Announced
  <2> QED
    BY <2>2, <2>3
<1>6. ASSUME NEW c \in Object, own[c].owner = o
      PROVE  own[c].life = "deleted" \/ delete(c) \in Range(todo[Tid[c]])
  <2>1. ~Alive(c)
    BY <1>2, <1>6 DEF GoneOK
  <2>2. own[c].owner # None
    BY <1>6, OwnAssumption
  <2>3. Made(c)
    <3>1. CASE c = Socket
      BY <1>0, <3>1 DEF Tree
    <3>2. CASE c # Socket
      <4>1. ~Made(c) => own[c] = [own_t EXCEPT !.life = "none"]
        BY <1>0, <3>2 DEF Tree
      <4>2. [own_t EXCEPT !.life = "none"].owner = None
        BY DEF own_t
      <4> QED
        BY <2>2, <4>1, <4>2
    <3> QED
      BY <3>1, <3>2
  <2>4. own[c].life \in {"none", "live", "deleted"}
    BY <1>0 DEF Typed, OwnRecord
  <2> QED
    BY <2>1, <2>3, <2>4 DEF Made, Alive, Going
<1>7. o # Socket => OtherPipes(o, {}) = {}
  <2> SUFFICES ASSUME o # Socket, NEW q \in OtherPipes(o, {})
               PROVE FALSE
    OBVIOUS
  <2>1. q \in Pipe /\ psession[q] = o
    BY DEF OtherPipes
  <2>2. psession[q] \in Session \cup {None}
    BY <1>0, <2>1 DEF Typed
  <2>3. o \in Session
    BY <2>1, <2>2, OwnAssumption
  <2> QED
    BY <1>0, <1>2, <2>3 DEF GoneOK, Links
<1>8. o = Socket => \A p \in Pipe : pstate[<<p, "socket">>] \in {"none", "gone"}
  BY <1>2 DEF GoneOK
<1> QED
  BY <1>3, <1>5, <1>6, <1>7, <1>8

\* A deleted object is left alone: no command for it is waiting or about to be
\* sent, no counter of it will be touched, and no child or pipe has it left.
THEOREM DeletedIsLeftAlone == Spec => []NoUseAfterDelete
<1>1. IInv => NoUseAfterDelete
  BY InvNoUse
<1> QED
  BY <1>1, OwnInvariance, PTL

\* Nothing is in flight when every mailbox is empty and every thread is idle.
Quiet == \A t \in Thread : mailbox[t] = <<>> /\ todo[t] = <<>>

\* Nothing is in flight in a quiet state.
LEMMA QuietZero ==
    ASSUME QType, Quiet
    PROVE  /\ \A D : Flight(D) = 0
           /\ \A o : NAnn(o) = 0
<1>1. (\A t \in Thread : DOMAIN mailbox[t] = {}) /\ (\A t \in Thread : DOMAIN todo[t] = {})
  BY DEF Quiet
<1>2. \A D : Flight(D) = 0
  BY <1>1, FlightZero
<1>3. ASSUME NEW o PROVE NAnn(o) = 0
  <2>1. Family(Thread, Work, todo)
    BY Families
  <2> QED
    BY <1>1, <2>1, CountZero DEF NAnn
<1> QED
  BY <1>2, <1>3

\* Who can own an object: at most a chain of three.
LEMMA Depth ==
    ASSUME NEW c \in Object, c # Socket, NEW o, o \in OwnersOf(c)
    PROVE  /\ o \notin Connecter /\ o \notin Accepted
           /\ o \in Connected => c \in Connecter
           /\ o \in Listener => c \in Accepted
           /\ o = Socket => c \in Listener \cup Connected
           /\ c \in Listener \cup Connected => o = Socket
           /\ c \in Accepted => o \in Listener
           /\ c \in Connecter => o \in Connected
<1>1. c \in Listener \/ c \in Connected \/ c \in Accepted \/ c \in Connecter
  BY DEF Object, Session
<1>2. CASE c \in Listener \cup Connected
  BY <1>2, OwnAssumption DEF OwnersOf, Session
<1>3. CASE c \in Accepted
  BY <1>3, OwnAssumption DEF OwnersOf, Session
<1>4. CASE c \in Connecter
  BY <1>4, OwnAssumption DEF OwnersOf, Session
<1> QED
  BY <1>1, <1>2, <1>3, <1>4

\* Nothing is alive in a quiet state after closing.
LEMMA InvNoHang ==
    ASSUME IInv
    PROVE  NoHang
<1> SUFFICES ASSUME closed, Quiet,
                    \A p \in Pipe : pstate[<<p, "session">>] # "waiting_for_delimiter"
             PROVE  \A o \in Object : own[o].life # "live"
  BY DEF NoHang, Quiet
<1>0. /\ Typed /\ QType /\ Tree /\ Links /\ Seqnums /\ Children /\ Awaited
      /\ Gone /\ Checked /\ Pipes
  BY DEF IInv, Typed
<1>1. (\A D : Flight(D) = 0) /\ \A o : NAnn(o) = 0
  BY <1>0, QuietZero
<1>2. /\ \A x : Terms(x) = 0 /\ Acks(x) = 0 /\ Owns(x) = 0 /\ Binds(x) = 0 /\ NSeq(x) = 0
      /\ \A p, x : PT(p, x) = 0 /\ PA(p, x) = 0
  BY <1>1 DEF Terms, Acks, Owns, Binds, NSeq, PT, PA
\* The protocol of every pipe is at its end.
<1>3. ASSUME NEW p \in Pipe
      PROVE  pstate[<<p, "session">>] \in {"none", "gone"} /\ pstate[<<p, "socket">>] \in {"none", "gone"}
  <2> SUFFICES ASSUME NEW a, NEW b, a = pstate[<<p, "session">>], b = pstate[<<p, "socket">>]
               PROVE a \in {"none", "gone"} /\ b \in {"none", "gone"}
    OBVIOUS
  <2>1. Joint(a, b, 0, 0, 0, 0, 0)
    <3>1. PipeOK(p)
      BY <1>0 DEF Pipes
    <3> QED
      BY <1>2, <3>1 DEF PipeOK
  <2>2. b \notin {"active", "waiting_for_delimiter"}
    BY <1>0 DEF Links
  <2>3. a # "waiting_for_delimiter"
    OBVIOUS
  <2> QED
    BY <2>1, <2>2, <2>3 DEF Joint
<1>4. pending = {} /\ pipes = {}
  <2>1. ASSUME NEW s \in pending PROVE FALSE
    <3>1. OtherPipes(s, {}) = {}
      BY <1>3 DEF OtherPipes
    <3> QED
      BY <1>0, <2>1, <3>1 DEF Links
  <2>2. pipes = {}
    BY <1>3 DEF pipes
  <2> QED
    BY <2>1, <2>2
<1>5. \A o \in Object : own[o].life = "live" => Alive(o)
  <2>1. \A o \in Object : ~Going(o)
    BY ThreadFacts DEF Quiet, Going, Range
  <2> QED
    BY <2>1 DEF Alive
\* A terminating object waits for a child that is terminating.
<1>6. ASSUME NEW o \in Object, Alive(o), own[o].terminating
      PROVE  \E c \in Object : /\ c # Socket /\ Alive(c) /\ own[c].terminating
                               /\ own[c].owner = o /\ o \in OwnersOf(c)
  <2>1. own[o].term_acks # 0
    <3>1. ~CanGo(own[o])
      <4>1. check_acks(o) \notin Range(todo[Tid[o]])
        BY ThreadFacts DEF Quiet, Range
      <4> QED
        BY <1>0, <1>6, <4>1 DEF Checked
    <3>2. own[o].sent_seqnum + NAnn(o) = own[o].processed_seqnum + NSeq(o)
      BY <1>0 DEF Seqnums
    <3>3. own[o].sent_seqnum \in Nat /\ own[o].processed_seqnum \in Nat
      BY <1>0 DEF Typed, OwnRecord
    <3>4. own[o].processed_seqnum = own[o].sent_seqnum
      BY <1>1, <1>2, <3>2, <3>3
    <3> QED
      BY <1>6, <3>1, <3>4 DEF CanGo
  <2>2. own[o].term_acks = Cardinality(Kids(o)) + Acks(o) + Cardinality(AwaitedPipes(o))
    BY <1>0 DEF Awaited
  <2>3. Cardinality(AwaitedPipes(o)) = 0
    BY <1>4, FS_EmptySet DEF AwaitedPipes
  <2>4. Cardinality(Kids(o)) # 0
    BY <1>2, <2>1, <2>2, <2>3
  <2>5. Kids(o) # {}
    BY <2>4, FS_EmptySet
  <2>6. PICK c \in Kids(o) : TRUE
    BY <2>5
  <2>7. c \in Object /\ own[c].owner = o /\ Alive(c) /\ c \notin own[o].owned
    BY <2>6 DEF Kids
  <2>8. c # Socket
    BY <1>0, <2>7, OwnAssumption DEF Tree
  <2>9. Made(c)
    BY <2>7 DEF Made, Alive
  <2>10. o \in OwnersOf(c)
    BY <1>0, <2>7, <2>8, <2>9 DEF Tree
  <2>11. ChildOK(c)
    BY <1>0, <2>7, <2>8, <2>9 DEF Children
  <2>12. Owns(c) + B(c \in own[o].owned) + Terms(c) + B(c \in pending) + B(own[c].terminating) = 1
    BY <2>7, <2>11 DEF ChildOK
  <2>13. Owns(c) = 0 /\ Terms(c) = 0 /\ B(c \in own[o].owned) = 0 /\ B(c \in pending) = 0
    BY <1>2, <1>4, <2>7 DEF B
  <2>14. B(own[c].terminating) = 1
    <3>1. B(own[c].terminating) \in {0, 1}
      BY DEF B
    <3> QED
      BY <2>12, <2>13, <3>1
  <2>15. own[c].terminating
    BY <2>14 DEF B
  <2> QED
    BY <2>7, <2>8, <2>10, <2>15
\* The chain of owners is short, so there is none.
<1>7. \A o \in Object : Alive(o) => ~own[o].terminating
  <2>1. \A o \in Connecter \cup Accepted : o \in Object /\ Alive(o) => ~own[o].terminating
    BY <1>6, Depth
  <2>2. \A o \in Listener \cup Connected : o \in Object /\ Alive(o) => ~own[o].terminating
    BY <1>6, <2>1, Depth
  <2>3. Alive(Socket) => ~own[Socket].terminating
    BY <1>6, <2>2, Depth, SocketIn
  <2> QED
    BY <2>1, <2>2, <2>3 DEF Object, Session
\* The socket is terminating, and an object whose owner is gone is gone.
<1>8. ~Alive(Socket)
  <2>1. own[Socket].terminating
    BY <1>0 DEF Tree
  <2> QED
    BY <1>7, <2>1, SocketIn
<1>9. ASSUME NEW c \in Object, c # Socket, Alive(c)
      PROVE  own[c].owner \in Object /\ own[c].owner \in OwnersOf(c) /\ Alive(own[c].owner)
  <2>1. Made(c)
    BY <1>9 DEF Made, Alive
  <2>2. own[c].owner \in Object /\ own[c].owner \in OwnersOf(c) /\ Made(own[c].owner)
    BY <1>0, <1>9, <2>1, OwnerIn
  <2>3. ~Alive(own[c].owner) => GoneOK(own[c].owner)
    BY <1>0, <2>2 DEF Gone
  <2> QED
    BY <1>9, <2>2, <2>3 DEF GoneOK
<1>10. \A o \in Listener \cup Connected : o \in Object => ~Alive(o)
  <2> SUFFICES ASSUME NEW o \in Object, o \in Listener \cup Connected, Alive(o) PROVE FALSE
    OBVIOUS
  <2>1. o # Socket
    BY OwnAssumption DEF Session
  <2>2. own[o].owner \in OwnersOf(o) /\ Alive(own[o].owner)
    BY <1>9, <2>1
  <2>3. own[o].owner = Socket
    BY <2>1, <2>2, Depth
  <2> QED
    BY <1>8, <2>2, <2>3
<1>11. \A o \in Accepted \cup Connecter : o \in Object => ~Alive(o)
  <2> SUFFICES ASSUME NEW o \in Object, o \in Accepted \cup Connecter, Alive(o) PROVE FALSE
    OBVIOUS
  <2>1. o # Socket
    BY OwnAssumption DEF Session
  <2>2. own[o].owner \in Object /\ own[o].owner \in OwnersOf(o) /\ Alive(own[o].owner)
    BY <1>9, <2>1
  <2>3. own[o].owner \in Listener \cup Connected
    BY <2>1, <2>2, Depth
  <2> QED
    BY <1>10, <2>2, <2>3
<1>12. \A o \in Object : ~Alive(o)
  BY <1>8, <1>10, <1>11 DEF Object, Session
<1> QED
  BY <1>5, <1>12

\* Closing never hangs: when the socket is closed and nothing is under way any
\* more, no object is left alive.
THEOREM ClosingNeverHangs == Spec => []NoHang
<1>1. IInv => NoHang
  BY InvNoHang
<1> QED
  BY <1>1, OwnInvariance, PTL
=============================================================================
