----------------------------- MODULE CtxProofs -----------------------------
(***************************************************************************)
(* zmq_connect and zmq_bind on an inproc address do not miss each other,   *)
(* for any number of sockets, addresses and connections.                   *)
(*                                                                         *)
(* Both calls are several critical sections of endpoints_sync.  Between    *)
(* those of zmq_bind the address is bound and connections to it may wait:  *)
(* the invariant says that its binder is then still in zmq_bind, about to  *)
(* look for them.                                                          *)
(***************************************************************************)
EXTENDS Ctx, FiniteSetTheorems, TLAPS

Lives == {"none", "open", "closed", "reaping", "deleted"}
SocketRecord == [life: Lives, ctx_terminated: BOOLEAN, terminating: BOOLEAN, seqnum: Int,
                 term_acks: Int, destroyed: BOOLEAN]
Ops == {"idle", "connect", "connect_identity", "register", "bind", "bind_identity"}
CallRecord == [op: Ops, addr: Addr \cup {None}, peer: Socket \cup {None}, conn: Conn \cup {None}]
ConnRecord == [from: Sock \cup {None}, addr: Addr \cup {None}, inproc: BOOLEAN]

\* The types of what is used here.
Types ==
    /\ endpoints \in [Addr -> Socket \cup {None}] /\ pending \subseteq Conn
    /\ sock \in [Socket -> SocketRecord] /\ pc \in [Socket -> CallRecord]
    /\ conn \in [Conn -> ConnRecord]
    /\ term.copy \subseteq Conn /\ DOMAIN term = {"pc", "copy", "late"}

\* A connection that waits, or is being made, has its address, and a socket that is
\* in a call exists.
CallsOK ==
    /\ \A k \in pending : conn[k].addr \in Addr
    /\ \A s \in Socket :
         /\ pc[s].op # "idle" => Life(s) # "none"
         /\ pc[s].op = "connect" => /\ pc[s].conn \in Conn /\ pc[s].addr \in Addr
                                    /\ conn[pc[s].conn].addr = pc[s].addr

BindInv == Types /\ CallsOK /\ NoMissedBind
-----------------------------------------------------------------------------
(* Sockets *)

\* What own_t does to a socket's counters leaves the rest alone.
LEMMA SocketOps ==
    ASSUME NEW r \in SocketRecord, NEW n \in Int
    PROVE  /\ inc_seqnum(r) \in SocketRecord /\ inc_seqnum(r).life = r.life
           /\ check_term_acks(r) \in SocketRecord /\ check_term_acks(r).life = r.life
           /\ process_seqnum(r) \in SocketRecord /\ process_seqnum(r).life = r.life
           /\ register_term_acks(r, n) \in SocketRecord /\ register_term_acks(r, n).life = r.life
           /\ unregister_term_ack(r) \in SocketRecord /\ unregister_term_ack(r).life = r.life
<1>1. ASSUME NEW x \in SocketRecord
      PROVE  check_term_acks(x) \in SocketRecord /\ check_term_acks(x).life = x.life
  <2> DEFINE b == x.destroyed \/ CanGo(x)
  <2>1. b \in BOOLEAN
    BY DEF SocketRecord
  <2>2. check_term_acks(x) = [x EXCEPT !.destroyed = b]
    BY DEF check_term_acks
  <2> HIDE DEF b
  <2> QED
    BY <2>1, <2>2 DEF SocketRecord
<1>2. /\ inc_seqnum(r) \in SocketRecord /\ inc_seqnum(r).life = r.life
  BY DEF inc_seqnum, SocketRecord
<1>3. register_term_acks(r, n) \in SocketRecord /\ register_term_acks(r, n).life = r.life
  BY DEF register_term_acks, SocketRecord
<1>4. /\ [r EXCEPT !.seqnum = @ - 1] \in SocketRecord /\ [r EXCEPT !.seqnum = @ - 1].life = r.life
      /\ [r EXCEPT !.term_acks = @ - 1] \in SocketRecord /\ [r EXCEPT !.term_acks = @ - 1].life = r.life
  BY DEF SocketRecord
<1> QED
  BY <1>1, <1>2, <1>3, <1>4 DEF process_seqnum, unregister_term_ack

\* A socket has finitely many pipes.
LEMMA PipesFinite == ASSUME NEW s PROVE Cardinality(pipes(s)) \in Int
<1>1. \A k \in Conn : k \in (-MaxConns)..MaxConns /\ -k \in (-MaxConns)..MaxConns
  BY CtxAssumption DEF Conn
<1>2. IsFiniteSet((-MaxConns)..MaxConns)
  BY CtxAssumption, FS_Interval
<1>3. pipes(s) \subseteq (-MaxConns)..MaxConns
  BY <1>1 DEF pipes, End
<1>4. IsFiniteSet(pipes(s))
  BY <1>2, <1>3, FS_Subset
<1> QED
  BY <1>4, FS_CardinalityType

\* A step keeps the types of the sockets, and none of them is unmade.
LEMMA SocketsStep ==
    ASSUME Types, [Next]_vars
    PROVE  sock' \in [Socket -> SocketRecord] /\ \A s \in Socket : Life(s) # "none" => Life(s)' # "none"
<1> USE DEF Life
<1>1. sock \in [Socket -> SocketRecord]
  BY DEF Types
<1>2. ASSUME NEW o, NEW r \in SocketRecord, sock' = [sock EXCEPT ![o] = r], r.life # "none"
      PROVE  sock' \in [Socket -> SocketRecord] /\ \A s \in Socket : Life(s) # "none" => Life(s)' # "none"
  BY <1>1, <1>2
<1>3. ASSUME NEW o \in Socket, NEW r \in SocketRecord, sock' = [sock EXCEPT ![o] = r], r.life = sock[o].life
      PROVE  sock' \in [Socket -> SocketRecord] /\ \A s \in Socket : Life(s) # "none" => Life(s)' # "none"
  BY <1>1, <1>3
<1>4. CASE UNCHANGED sock
  BY <1>1, <1>4
<1>5. CASE UNCHANGED vars
  BY <1>4, <1>5 DEF vars
<1>6. ASSUME NEW s \in Socket, process_pipe_term_ack(s)
      PROVE  sock' \in [Socket -> SocketRecord] /\ \A t \in Socket : Life(t) # "none" => Life(t)' # "none"
  <2> DEFINE o == sink[arg(s)]
  <2>1. sock' = IF o # None /\ sock[o].terminating THEN [sock EXCEPT ![o] = unregister_term_ack(@)] ELSE sock
    BY <1>6 DEF process_pipe_term_ack
  <2> HIDE DEF o
  <2>2. CASE o \in Socket /\ sock' # sock
    <3>1. unregister_term_ack(sock[o]) \in SocketRecord /\ unregister_term_ack(sock[o]).life = sock[o].life
      BY <1>1, <2>2, SocketOps
    <3>2. sock' = [sock EXCEPT ![o] = unregister_term_ack(sock[o])]
      BY <2>1, <2>2
    <3> QED
      BY <1>3, <2>2, <3>1, <3>2
  <2>3. CASE o \notin Socket
    <3>1. sock' = sock
      BY <1>1, <2>1, <2>3
    <3> QED
      BY <1>4, <3>1
  <2> QED
    BY <1>4, <2>2, <2>3
<1>7. ASSUME NEW s \in Socket, process_bind(s)
      PROVE  sock' \in [Socket -> SocketRecord] /\ \A t \in Socket : Life(t) # "none" => Life(t)' # "none"
  <2> DEFINE n == IF sock[s].terminating THEN 1 ELSE 0
             a == register_term_acks(sock[s], n)
             r == process_seqnum(a)
  <2>1. sock' = [sock EXCEPT ![s] = r]
    BY <1>7 DEF process_bind
  <2>2. a \in SocketRecord /\ a.life = sock[s].life
    <3>1. n \in Int
      OBVIOUS
    <3> HIDE DEF n
    <3> QED
      BY <1>1, <3>1, SocketOps
  <2> HIDE DEF a
  <2>3. r \in SocketRecord /\ r.life = sock[s].life
    BY <2>2, SocketOps
  <2> HIDE DEF r
  <2> QED
    BY <1>3, <2>1, <2>3
<1>8. ASSUME NEW s \in Socket, process_inproc_connected(s)
      PROVE  sock' \in [Socket -> SocketRecord] /\ \A t \in Socket : Life(t) # "none" => Life(t)' # "none"
  <2> DEFINE r == process_seqnum(sock[s])
  <2>1. sock' = [sock EXCEPT ![s] = r]
    BY <1>8 DEF process_inproc_connected
  <2>2. r \in SocketRecord /\ r.life = sock[s].life
    BY <1>1, SocketOps
  <2> HIDE DEF r
  <2> QED
    BY <1>3, <2>1, <2>2
<1>9. ASSUME NEW s \in Socket, process_stop(s)
      PROVE  sock' \in [Socket -> SocketRecord] /\ \A t \in Socket : Life(t) # "none" => Life(t)' # "none"
  <2> DEFINE b == Life(s) = "open"
             r == [sock[s] EXCEPT !.ctx_terminated = b]
  <2>1. sock' = [sock EXCEPT ![s] = r] /\ b \in BOOLEAN
    BY <1>1, <1>9 DEF process_stop
  <2> HIDE DEF b
  <2>2. r \in SocketRecord /\ r.life = sock[s].life
    BY <1>1, <2>1 DEF SocketRecord
  <2> HIDE DEF r
  <2> QED
    BY <1>3, <2>1, <2>2
<1>10. ASSUME NEW b \in Socket \cup {None},
              sock' = IF b = None THEN sock ELSE [sock EXCEPT ![b] = inc_seqnum(@)]
       PROVE  sock' \in [Socket -> SocketRecord] /\ \A t \in Socket : Life(t) # "none" => Life(t)' # "none"
  <2>1. CASE b = None
    BY <1>4, <1>10, <2>1
  <2>2. CASE b \in Socket /\ b # None
    <3>1. inc_seqnum(sock[b]) \in SocketRecord /\ inc_seqnum(sock[b]).life = sock[b].life
      BY <1>1, <2>2, SocketOps
    <3>2. sock' = [sock EXCEPT ![b] = inc_seqnum(sock[b])]
      BY <1>10, <2>2
    <3> QED
      BY <1>3, <2>2, <3>1, <3>2
  <2> QED
    BY <2>1, <2>2
<1>11. ASSUME NEW s \in Socket, NEW a \in Addr, NEW k \in Conn, find_endpoint(s, a, k)
       PROVE  sock' \in [Socket -> SocketRecord] /\ \A t \in Socket : Life(t) # "none" => Life(t)' # "none"
  <2>1. endpoints[a] \in Socket \cup {None}
    BY DEF Types
  <2>2. sock' = IF endpoints[a] = None THEN sock ELSE [sock EXCEPT ![endpoints[a]] = inc_seqnum(@)]
    BY <1>11 DEF find_endpoint
  <2> QED
    BY <1>10, <2>1, <2>2
<1>12. ASSUME NEW s \in Socket, pend_connection(s)
       PROVE  sock' \in [Socket -> SocketRecord] /\ \A t \in Socket : Life(t) # "none" => Life(t)' # "none"
  <2> DEFINE b == endpoints[pc[s].addr]
  <2>1. s # None
    BY CtxAssumption
  <2>2. CASE b = None
    <3>1. sock' = [sock EXCEPT ![s] = inc_seqnum(@)]
      BY <1>12, <2>2 DEF pend_connection
    <3> QED
      BY <1>10, <2>1, <3>1
  <2>3. CASE b # None
    <3>1. sock' = [sock EXCEPT ![b] = inc_seqnum(@)]
      BY <1>12, <2>3 DEF pend_connection
    <3> HIDE DEF b
    <3>2. CASE b \in Socket
      BY <1>10, <2>3, <3>1, <3>2
    <3>3. CASE b \notin Socket
      <4>1. sock' = sock
        BY <1>1, <3>1, <3>3
      <4> QED
        BY <1>4, <4>1
    <3> QED
      BY <3>2, <3>3
  <2> QED
    BY <2>2, <2>3
<1>13. ASSUME NEW s \in Socket, connect_pending(s)
       PROVE  sock' \in [Socket -> SocketRecord] /\ \A t \in Socket : Life(t) # "none" => Life(t)' # "none"
  <2> DEFINE a == inc_seqnum(sock[s])
             r == process_seqnum(a)
  <2>1. sock' = sock \/ sock' = [sock EXCEPT ![s] = r]
    BY <1>13 DEF connect_pending, connect_inproc_sockets
  <2>2. a \in SocketRecord /\ a.life = sock[s].life
    BY <1>1, SocketOps
  <2> HIDE DEF a
  <2>3. r \in SocketRecord /\ r.life = sock[s].life
    BY <2>2, SocketOps
  <2> HIDE DEF r
  <2> QED
    BY <1>3, <1>4, <2>1, <2>3
<1>14. ASSUME NEW s \in Socket, NEW l \in {"open", "closed"}, sock' = [sock EXCEPT ![s].life = l]
       PROVE  sock' \in [Socket -> SocketRecord] /\ \A t \in Socket : Life(t) # "none" => Life(t)' # "none"
  <2> DEFINE r == [sock[s] EXCEPT !.life = l]
  <2>1. r \in SocketRecord /\ r.life # "none" /\ sock' = [sock EXCEPT ![s] = r]
    BY <1>1, <1>14 DEF SocketRecord, Lives
  <2> HIDE DEF r
  <2> QED
    BY <1>2, <2>1
<1>15. ASSUME process_reap
       PROVE  sock' \in [Socket -> SocketRecord] /\ \A t \in Socket : Life(t) # "none" => Life(t)' # "none"
  <2> DEFINE s == arg("reaper")
             n == Cardinality(pipes(s))
             a == register_term_acks(sock[s], n)
             b == [a EXCEPT !.life = "reaping", !.terminating = TRUE, !.ctx_terminated = FALSE]
             r == check_term_acks(b)
  <2>1. sock' = [sock EXCEPT ![s] = r]
    BY <1>15 DEF process_reap
  <2>2. CASE s \in Socket
    <3>1. n \in Int
      BY PipesFinite
    <3> HIDE DEF n
    <3>2. a \in SocketRecord
      BY <1>1, <2>2, <3>1, SocketOps
    <3> HIDE DEF a
    <3>3. b \in SocketRecord /\ b.life = "reaping"
      BY <3>2 DEF SocketRecord, Lives
    <3> HIDE DEF b
    <3>4. r \in SocketRecord /\ r.life = "reaping"
      BY <3>3, SocketOps
    <3> HIDE DEF r
    <3> QED
      BY <1>2, <2>1, <3>4
  <2>3. CASE s \notin Socket
    <3> HIDE DEF s, r
    <3>1. sock' = sock
      BY <1>1, <2>1, <2>3
    <3> QED
      BY <1>4, <3>1
  <2> QED
    BY <2>2, <2>3
<1>16. ASSUME NEW s \in Socket, destroy_socket(s)
       PROVE  sock' \in [Socket -> SocketRecord] /\ \A t \in Socket : Life(t) # "none" => Life(t)' # "none"
  <2>1. sock' = [sock EXCEPT ![s] = Deleted]
    BY <1>16 DEF destroy_socket
  <2>2. Deleted \in SocketRecord /\ Deleted.life = "deleted"
    <3>1. NoSocket \in SocketRecord
      BY DEF NoSocket, SocketRecord, Lives
    <3> QED
      BY <3>1 DEF Deleted, SocketRecord, Lives
  <2> QED
    BY <1>2, <2>1, <2>2
<1>17. CASE Next
  <2>1. ASSUME NEW s \in Socket, Process(s)
        PROVE  sock' \in [Socket -> SocketRecord] /\ \A t \in Socket : Life(t) # "none" => Life(t)' # "none"
    <3>1. CASE process_pipe_term(s)
      BY <1>4, <3>1 DEF process_pipe_term
    <3> QED
      BY <1>6, <1>7, <1>8, <1>9, <2>1, <3>1 DEF Process
  <2>2. ASSUME NEW s \in Socket, Call(s)
        PROVE  sock' \in [Socket -> SocketRecord] /\ \A t \in Socket : Life(t) # "none" => Life(t)' # "none"
    <3>1. CASE create_socket(s)
      BY <1>14, <3>1 DEF create_socket
    <3>2. CASE zmq_close(s)
      BY <1>14, <3>2 DEF zmq_close, close
    <3>3. CASE connect_found(s) \/ write_identity(s)
      BY <1>4, <3>3 DEF connect_found, write_identity
    <3>4. ASSUME NEW a \in Addr, register_endpoint(s, a) \/ unregister_endpoint(s, a) \/ term_endpoint(s, a)
          PROVE  UNCHANGED sock
      BY <3>4 DEF register_endpoint, unregister_endpoint, term_endpoint
    <3> QED
      BY <1>4, <1>11, <1>12, <1>13, <2>2, <3>1, <3>2, <3>3, <3>4 DEF Call
  <2>3. ASSUME NEW e \in End, process_delimiter(e) PROVE UNCHANGED sock
    BY <2>3 DEF process_delimiter
  <2>4. ASSUME Reaper
        PROVE  sock' \in [Socket -> SocketRecord] /\ \A t \in Socket : Life(t) # "none" => Life(t)' # "none"
    <3>1. CASE process_reaped \/ process_reaper_stop
      BY <1>4, <3>1 DEF process_reaped, process_reaper_stop
    <3> QED
      BY <1>15, <1>16, <2>4, <3>1 DEF Reaper
  <2>5. ASSUME CtxTerm
        PROVE  sock' \in [Socket -> SocketRecord] /\ \A t \in Socket : Life(t) # "none" => Life(t)' # "none"
    <3>1. CASE terminate \/ terminate_loop_ends \/ terminate_done
      BY <1>4, <3>1 DEF terminate, terminate_loop_ends, terminate_done, terminate_stop
    <3>2. CASE terminate_pair
      <4> DEFINE p == CHOOSE q \in Pair : Life(q) = "none"
      <4>1. p \in Socket
        BY <3>2 DEF terminate_pair, Socket
      <4>2. sock' = [sock EXCEPT ![p].life = "open"]
        BY <3>2 DEF terminate_pair
      <4> HIDE DEF p
      <4> QED
        BY <1>14, <4>1, <4>2
    <3>3. ASSUME NEW p \in Pair, terminate_close(p)
          PROVE  sock' \in [Socket -> SocketRecord] /\ \A t \in Socket : Life(t) # "none" => Life(t)' # "none"
      BY <1>14, <3>3 DEF terminate_close, close, Socket
    <3> QED
      BY <2>5, <3>1, <3>2, <3>3 DEF CtxTerm
  <2>6. shutdown => UNCHANGED sock
    BY DEF shutdown
  <2> QED
    BY <1>4, <1>17, <2>1, <2>2, <2>3, <2>4, <2>5, <2>6 DEF Next
<1> QED
  BY <1>5, <1>17
-----------------------------------------------------------------------------
(* Connections and addresses *)

Binding == {"bind", "bind_identity"}

\* A step of the socket s that binds no address and queues no connection, and does
\* not leave zmq_bind while a connection to its address waits.
LEMMA BindFrame ==
    ASSUME BindInv, Types', NEW s \in Socket,
           \A t \in Socket : Life(t) # "none" => Life(t)' # "none",
           \A t \in Socket : t # s => pc'[t] = pc[t],
           \A k \in Conn : conn[k].addr \in Addr => conn'[k].addr = conn[k].addr,
           pending' \subseteq pending,
           \A a \in Addr : endpoints'[a] \in {None, endpoints[a]},
           pc'[s].op # "idle" => Life(s)' # "none",
           pc'[s].op = "connect" => /\ pc'[s].conn \in Conn /\ pc'[s].addr \in Addr
                                    /\ conn'[pc'[s].conn].addr = pc'[s].addr,
           \A k \in pending' : pc[s].op \in Binding /\ pc[s].addr = conn[k].addr
                                 => pc'[s].op \in Binding /\ pc'[s].addr = pc[s].addr
    PROVE  BindInv'
<1>1. /\ endpoints \in [Addr -> Socket \cup {None}] /\ pending \subseteq Conn
      /\ \A k \in pending : conn[k].addr \in Addr
  BY DEF BindInv, Types, CallsOK
<1>2. CallsOK'
  <2>1. \A k \in pending' : conn'[k].addr \in Addr
    BY <1>1
  <2>2. ASSUME NEW t \in Socket
        PROVE  /\ pc'[t].op # "idle" => Life(t)' # "none"
               /\ pc'[t].op = "connect" => /\ pc'[t].conn \in Conn /\ pc'[t].addr \in Addr
                                           /\ conn'[pc'[t].conn].addr = pc'[t].addr
    <3>1. CASE t = s
      BY <3>1
    <3>2. CASE t # s
      BY <3>2 DEF BindInv, CallsOK
    <3> QED
      BY <3>1, <3>2
  <2> QED
    BY <2>1, <2>2 DEF CallsOK
<1>3. NoMissedBind'
  <2> SUFFICES ASSUME NEW k \in pending', endpoints'[conn'[k].addr] # None
               PROVE  /\ pc'[endpoints'[conn'[k].addr]].op \in Binding
                      /\ pc'[endpoints'[conn'[k].addr]].addr = conn'[k].addr
    BY DEF NoMissedBind, Binding
  <2>1. k \in pending /\ conn'[k].addr = conn[k].addr /\ conn[k].addr \in Addr
    BY <1>1
  <2> DEFINE b == endpoints[conn[k].addr]
  <2>2. endpoints'[conn'[k].addr] = b /\ b # None /\ b \in Socket
    BY <1>1, <2>1
  <2>3. pc[b].op \in Binding /\ pc[b].addr = conn[k].addr
    BY <2>1, <2>2 DEF BindInv, NoMissedBind, Binding
  <2> HIDE DEF b
  <2>4. CASE b = s
    BY <2>1, <2>2, <2>3, <2>4
  <2>5. CASE b # s
    BY <2>1, <2>2, <2>3, <2>5
  <2> QED
    BY <2>4, <2>5
<1> QED
  BY <1>2, <1>3 DEF BindInv

\* Idle is what a call leaves behind.
LEMMA IdleFacts ==
    /\ Idle \in CallRecord /\ Idle.op = "idle" /\ NoConn \in ConnRecord /\ NoConn.addr \notin Addr
    /\ "idle" \notin Binding /\ "connect" \notin Binding /\ "register" \notin Binding
    /\ "connect_identity" \notin Binding
  BY CtxAssumption DEF Idle, CallRecord, Ops, NoConn, ConnRecord, Binding

\* Steps that concern neither calls nor addresses.
LEMMA ApartStep ==
    ASSUME BindInv, Next, UNCHANGED <<pending, pc, term.copy, DOMAIN term>>,
           endpoints' \in [Addr -> Socket \cup {None}],
           \A a \in Addr : endpoints'[a] \in {None, endpoints[a]},
           conn' \in [Conn -> ConnRecord], \A k \in Conn : conn'[k].addr = conn[k].addr
    PROVE  BindInv'
<1>1. sock' \in [Socket -> SocketRecord] /\ \A s \in Socket : Life(s) # "none" => Life(s)' # "none"
  BY SocketsStep DEF BindInv
<1>2. Types'
  BY <1>1 DEF BindInv, Types
<1>3. CASE Socket = {}
  BY <1>2, <1>3 DEF BindInv, CallsOK, NoMissedBind, Types
<1>4. ASSUME NEW s \in Socket PROVE BindInv'
  BY <1>1, <1>2, BindFrame DEF BindInv, CallsOK
<1> QED
  BY <1>3, <1>4

\* zmq_connect looks for the address.
LEMMA FindStep ==
    ASSUME BindInv, Next, NEW s \in Socket, NEW a \in Addr, NEW k \in Conn, find_endpoint(s, a, k)
    PROVE  BindInv'
<1> DEFINE n == [from |-> s, addr |-> a, inproc |-> TRUE]
           c == [op |-> "connect", addr |-> a, peer |-> endpoints[a], conn |-> k]
<1>1. sock' \in [Socket -> SocketRecord] /\ \A t \in Socket : Life(t) # "none" => Life(t)' # "none"
  BY SocketsStep DEF BindInv
<1>2. /\ endpoints \in [Addr -> Socket \cup {None}] /\ pc \in [Socket -> CallRecord] /\ conn \in [Conn -> ConnRecord]
      /\ pending \subseteq Conn /\ \A j \in pending : conn[j].addr \in Addr
  BY DEF BindInv, Types, CallsOK
<1>3. /\ conn' = [conn EXCEPT ![k] = n] /\ pc' = [pc EXCEPT ![s] = c] /\ UNCHANGED <<endpoints, pending, term>>
      /\ conn[k] = NoConn /\ pc[s] = Idle /\ Life(s) = "open" /\ s \in Sock
  BY DEF find_endpoint, evars, IsNext, Api
<1>4. n \in ConnRecord /\ n.addr = a
  BY <1>3 DEF ConnRecord
<1>5. c \in CallRecord /\ c.op = "connect" /\ c.addr = a /\ c.conn = k
  BY <1>2 DEF CallRecord, Ops
<1> HIDE DEF n, c
<1>6. Types'
  BY <1>1, <1>2, <1>3, <1>4, <1>5 DEF BindInv, Types
<1>7. \A j \in Conn : conn[j].addr \in Addr => conn'[j].addr = conn[j].addr
  BY <1>2, <1>3, IdleFacts
<1>8. pc'[s] = c /\ conn'[k].addr = a /\ pc[s].op \notin Binding /\ Life(s)' # "none"
  BY <1>1, <1>2, <1>3, <1>4, IdleFacts
<1>9. \A t \in Socket : t # s => pc'[t] = pc[t]
  BY <1>2, <1>3
<1>10. \A b \in Addr : endpoints'[b] \in {None, endpoints[b]}
  BY <1>3
<1>11. pending' \subseteq pending
  BY <1>3
<1> QED
  BY <1>1, <1>5, <1>6, <1>7, <1>8, <1>9, <1>10, <1>11, BindFrame

\* The rest of zmq_connect.
LEMMA ConnectStep ==
    ASSUME BindInv, Next, NEW s \in Socket, connect_found(s) \/ pend_connection(s) PROVE BindInv'
<1> DEFINE k == pc[s].conn
           b == endpoints[pc[s].addr]
<1>1. sock' \in [Socket -> SocketRecord] /\ \A t \in Socket : Life(t) # "none" => Life(t)' # "none"
  BY SocketsStep DEF BindInv
<1>2. /\ endpoints \in [Addr -> Socket \cup {None}] /\ pc \in [Socket -> CallRecord] /\ conn \in [Conn -> ConnRecord]
      /\ pending \subseteq Conn /\ \A j \in pending : conn[j].addr \in Addr
  BY DEF BindInv, Types, CallsOK
<1>3. /\ pc[s].op = "connect" /\ UNCHANGED <<endpoints, conn>>
  BY DEF connect_found, pend_connection, evars
<1>4. k \in Conn /\ pc[s].addr \in Addr /\ conn[k].addr = pc[s].addr /\ Life(s) # "none"
  BY <1>3 DEF BindInv, CallsOK
<1>5. term'.copy = term.copy /\ DOMAIN term' = DOMAIN term
  <2>1. CASE connect_found(s)
    BY <2>1 DEF connect_found
  <2>2. CASE pend_connection(s)
    <3>1. term' = term \/ \E x : term' = [term EXCEPT !.late = x]
      BY <2>2 DEF pend_connection
    <3> QED
      BY <3>1 DEF BindInv, Types
  <2> QED
    BY <2>1, <2>2
<1>6. ASSUME pending' = pending, NEW c \in CallRecord, c.op \in {"idle", "connect_identity"},
             pc' = [pc EXCEPT ![s] = c]
      PROVE  BindInv'
  <2>1. Types'
    BY <1>1, <1>2, <1>3, <1>5, <1>6 DEF BindInv, Types
  <2>2. pc'[s] = c /\ Life(s)' # "none" /\ \A t \in Socket : t # s => pc'[t] = pc[t]
    BY <1>1, <1>2, <1>4, <1>6
  <2>3. pc[s].op \notin Binding /\ pc'[s].op # "connect"
    BY <1>3, <1>6, <2>2, IdleFacts
  <2>4. \A a \in Addr : endpoints'[a] \in {None, endpoints[a]}
    BY <1>3
  <2> QED
    BY <1>1, <1>3, <1>6, <2>1, <2>2, <2>3, <2>4, BindFrame
<1>7. CASE connect_found(s)
  <2>1. pending' = pending /\ pc' = [pc EXCEPT ![s] = Idle]
    BY <1>7 DEF connect_found, evars
  <2> QED
    BY <1>6, <2>1, IdleFacts
<1>8. CASE pend_connection(s) /\ b # None
  <2> DEFINE c == IF s \in RecvIdentity THEN [pc[s] EXCEPT !.op = "connect_identity"] ELSE Idle
  <2>1. pending' = pending /\ pc' = [pc EXCEPT ![s] = c]
    BY <1>8 DEF pend_connection
  <2>2. c \in CallRecord /\ c.op \in {"idle", "connect_identity"}
    <3>1. [pc[s] EXCEPT !.op = "connect_identity"] \in CallRecord
      BY <1>2 DEF CallRecord, Ops
    <3>2. [pc[s] EXCEPT !.op = "connect_identity"].op = "connect_identity"
      BY <1>2 DEF CallRecord
    <3> QED
      BY <3>1, <3>2, IdleFacts
  <2> HIDE DEF c
  <2> QED
    BY <1>6, <2>1, <2>2
<1>9. CASE pend_connection(s) /\ b = None
  <2>1. pending' = pending \cup {k} /\ pc' = [pc EXCEPT ![s] = Idle]
    BY <1>9 DEF pend_connection
  <2>2. Types'
    BY <1>1, <1>2, <1>3, <1>4, <1>5, <2>1, IdleFacts DEF BindInv, Types
  <2>3. pc'[s] = Idle /\ \A t \in Socket : t # s => pc'[t] = pc[t]
    BY <1>2, <2>1
  <2>4. CallsOK'
    <3>1. \A j \in pending' : conn'[j].addr \in Addr
      BY <1>2, <1>3, <1>4, <2>1
    <3>2. \A t \in Socket :
            /\ pc'[t].op # "idle" => Life(t)' # "none"
            /\ pc'[t].op = "connect" => /\ pc'[t].conn \in Conn /\ pc'[t].addr \in Addr
                                        /\ conn'[pc'[t].conn].addr = pc'[t].addr
      BY <1>1, <1>3, <2>3, IdleFacts DEF BindInv, CallsOK
    <3> QED
      BY <3>1, <3>2 DEF CallsOK
  <2>5. NoMissedBind'
    <3> SUFFICES ASSUME NEW j \in pending', endpoints'[conn'[j].addr] # None
                 PROVE  /\ pc'[endpoints'[conn'[j].addr]].op \in Binding
                        /\ pc'[endpoints'[conn'[j].addr]].addr = conn'[j].addr
      BY DEF NoMissedBind, Binding
    <3> DEFINE d == endpoints[conn[j].addr]
    <3>1. endpoints'[conn'[j].addr] = d /\ conn'[j] = conn[j] /\ d # None
      BY <1>3
    <3>2. j # k
      BY <1>4, <1>9, <3>1
    <3>3. pc[d].op \in Binding /\ pc[d].addr = conn[j].addr /\ d \in Socket
      BY <1>2, <2>1, <3>1, <3>2 DEF BindInv, NoMissedBind, Binding
    <3>4. d # s
      BY <1>3, <3>3, IdleFacts
    <3> QED
      BY <2>3, <3>1, <3>3, <3>4
  <2> QED
    BY <2>2, <2>4, <2>5 DEF BindInv
<1> QED
  BY <1>7, <1>8, <1>9

\* The identity of the bound socket is written; zmq_bind goes on.
LEMMA IdentityStep ==
    ASSUME BindInv, Next, NEW s \in Socket, write_identity(s) PROVE BindInv'
<1>1. sock' \in [Socket -> SocketRecord] /\ \A t \in Socket : Life(t) # "none" => Life(t)' # "none"
  BY SocketsStep DEF BindInv
<1>2. /\ endpoints \in [Addr -> Socket \cup {None}] /\ pc \in [Socket -> CallRecord] /\ conn \in [Conn -> ConnRecord]
      /\ pc[s] \in CallRecord
  BY DEF BindInv, Types
<1>3. UNCHANGED <<endpoints, pending, conn, term>>
  BY DEF write_identity, pvars
<1> DEFINE c == IF pc[s].op = "connect_identity" THEN Idle ELSE [pc[s] EXCEPT !.op = "bind"]
<1>4. pc[s].op \in {"connect_identity", "bind_identity"} /\ pc' = [pc EXCEPT ![s] = c]
  BY <1>2 DEF write_identity
<1>5. /\ c \in CallRecord /\ c.op \in {"idle", "bind"}
      /\ pc[s].op = "bind_identity" => c.op = "bind" /\ c.addr = pc[s].addr
  <2>1. /\ [pc[s] EXCEPT !.op = "bind"] \in CallRecord /\ [pc[s] EXCEPT !.op = "bind"].op = "bind"
        /\ [pc[s] EXCEPT !.op = "bind"].addr = pc[s].addr
    BY <1>2 DEF CallRecord, Ops
  <2> QED
    BY <2>1, IdleFacts
<1> HIDE DEF c
<1>6. Types'
  BY <1>1, <1>2, <1>3, <1>4, <1>5 DEF BindInv, Types
<1>7. pc'[s] = c /\ \A t \in Socket : t # s => pc'[t] = pc[t]
  BY <1>2, <1>4
<1>8. Life(s)' # "none"
  BY <1>1, <1>4 DEF BindInv, CallsOK
<1>9. pc[s].op \in Binding => c.op \in Binding /\ c.addr = pc[s].addr
  BY <1>4, <1>5 DEF Binding
<1>10. \A a \in Addr : endpoints'[a] \in {None, endpoints[a]}
  BY <1>3
<1> QED
  BY <1>1, <1>3, <1>5, <1>6, <1>7, <1>8, <1>9, <1>10, BindFrame

\* The first critical section of zmq_bind: whoever waits will be found by the second.
LEMMA RegisterStep ==
    ASSUME BindInv, Next, NEW s \in Socket, NEW a \in Addr, register_endpoint(s, a) PROVE BindInv'
<1> DEFINE c == IF endpoints[a] = None THEN [Idle EXCEPT !.op = "bind", !.addr = a] ELSE Idle
<1>1. sock' \in [Socket -> SocketRecord] /\ \A t \in Socket : Life(t) # "none" => Life(t)' # "none"
  BY SocketsStep DEF BindInv
<1>2. /\ endpoints \in [Addr -> Socket \cup {None}] /\ pc \in [Socket -> CallRecord] /\ conn \in [Conn -> ConnRecord]
      /\ pending \subseteq Conn /\ \A j \in pending : conn[j].addr \in Addr
  BY DEF BindInv, Types, CallsOK
<1>3. /\ UNCHANGED <<pending, conn, term>> /\ pc' = [pc EXCEPT ![s] = c]
      /\ endpoints' = [endpoints EXCEPT ![a] = IF @ = None THEN s ELSE @]
      /\ pc[s].op \in {"idle", "register"} /\ Life(s) # "none"
  <2>1. /\ UNCHANGED <<pending, conn, term>> /\ pc' = [pc EXCEPT ![s] = c]
        /\ endpoints' = [endpoints EXCEPT ![a] = IF @ = None THEN s ELSE @]
    BY DEF register_endpoint, pvars
  <2>2. \/ pc[s] = Idle /\ Life(s) = "open"
        \/ pc[s].op = "register"
    BY DEF register_endpoint, Api
  <2> QED
    BY <2>1, <2>2, IdleFacts DEF BindInv, CallsOK
<1>4. /\ c \in CallRecord /\ c.op \in {"bind", "idle"}
      /\ endpoints[a] = None => c.op = "bind" /\ c.addr = a
  <2> DEFINE d == [Idle EXCEPT !.op = "bind", !.addr = a]
  <2>1. d \in CallRecord /\ d.op = "bind" /\ d.addr = a
    BY IdleFacts DEF CallRecord, Ops
  <2> HIDE DEF d
  <2> QED
    BY <2>1, IdleFacts DEF d
<1> HIDE DEF c
<1>5. /\ pc'[s] = c /\ \A t \in Socket : t # s => pc'[t] = pc[t]
      /\ \A x \in Addr : x # a => endpoints'[x] = endpoints[x]
      /\ endpoints'[a] = IF endpoints[a] = None THEN s ELSE endpoints[a]
  BY <1>2, <1>3
<1>6. Types'
  BY <1>1, <1>2, <1>3, <1>4 DEF BindInv, Types
<1>7. CallsOK'
  <2>1. \A j \in pending' : conn'[j].addr \in Addr
    BY <1>2, <1>3
  <2>2. \A t \in Socket :
          /\ pc'[t].op # "idle" => Life(t)' # "none"
          /\ pc'[t].op = "connect" => /\ pc'[t].conn \in Conn /\ pc'[t].addr \in Addr
                                      /\ conn'[pc'[t].conn].addr = pc'[t].addr
    BY <1>1, <1>3, <1>4, <1>5 DEF BindInv, CallsOK
  <2> QED
    BY <2>1, <2>2 DEF CallsOK
<1>8. NoMissedBind'
  <2> SUFFICES ASSUME NEW j \in pending', endpoints'[conn'[j].addr] # None
               PROVE  /\ pc'[endpoints'[conn'[j].addr]].op \in Binding
                      /\ pc'[endpoints'[conn'[j].addr]].addr = conn'[j].addr
    BY DEF NoMissedBind, Binding
  <2> DEFINE x == conn[j].addr
             d == endpoints[x]
  <2>1. j \in pending /\ conn'[j].addr = x /\ x \in Addr
    BY <1>2, <1>3
  <2>2. CASE x = a /\ d = None
    BY <1>4, <1>5, <2>1, <2>2 DEF Binding
  <2>3. CASE d # None
    <3>1. endpoints'[x] = d /\ d \in Socket
      BY <1>2, <1>5, <2>1, <2>3
    <3>2. pc[d].op \in Binding /\ pc[d].addr = x
      BY <2>1, <2>3 DEF BindInv, NoMissedBind, Binding
    <3>3. d # s
      BY <1>3, <3>2, IdleFacts
    <3> QED
      BY <1>5, <2>1, <3>1, <3>2, <3>3
  <2>4. CASE x # a /\ d = None
    BY <1>5, <2>1, <2>4
  <2> QED
    BY <2>2, <2>3, <2>4
<1> QED
  BY <1>6, <1>7, <1>8 DEF BindInv

\* The second one leaves only when nobody waits.
LEMMA PendingStep ==
    ASSUME BindInv, Next, NEW s \in Socket, connect_pending(s) PROVE BindInv'
<1> DEFINE P == {k \in pending : conn[k].addr = pc[s].addr}
<1>1. sock' \in [Socket -> SocketRecord] /\ \A t \in Socket : Life(t) # "none" => Life(t)' # "none"
  BY SocketsStep DEF BindInv
<1>2. /\ endpoints \in [Addr -> Socket \cup {None}] /\ pc \in [Socket -> CallRecord] /\ conn \in [Conn -> ConnRecord]
      /\ pc[s] \in CallRecord /\ pending \subseteq Conn
  BY DEF BindInv, Types
<1>3. pc[s].op = "bind" /\ UNCHANGED <<endpoints, conn>>
  BY DEF connect_pending, connect_inproc_sockets, pvars
<1>4. /\ term'.copy = term.copy /\ DOMAIN term' = DOMAIN term
  <2>1. term' = term \/ \E x : term' = [term EXCEPT !.late = x]
    BY DEF connect_pending
  <2> QED
    BY <2>1 DEF BindInv, Types
<1>5. PICK c \in CallRecord :
         /\ pc' = [pc EXCEPT ![s] = c] /\ pending' \subseteq pending
         /\ c.op \in {"idle", "bind", "bind_identity"}
         /\ P # {} => c.op \in Binding /\ c.addr = pc[s].addr
  <2>1. CASE P = {}
    <3>1. pc' = [pc EXCEPT ![s] = Idle] /\ pending' = pending
      BY <2>1 DEF connect_pending
    <3> QED
      BY <2>1, <3>1, IdleFacts
  <2>2. CASE P # {}
    <3>1. PICK k \in P : connect_inproc_sockets(s, k) /\ pending' = pending \ {k}
      BY <2>2 DEF connect_pending
    <3> DEFINE o == IF conn[k].from \in RecvIdentity THEN "bind_identity" ELSE "bind"
               d == [pc[s] EXCEPT !.op = o, !.conn = k]
    <3>2. pc' = [pc EXCEPT ![s] = d]
      BY <1>2, <3>1 DEF connect_inproc_sockets
    <3>3. o \in Binding /\ k \in Conn
      BY <1>2 DEF Binding
    <3> HIDE DEF o
    <3>4. d \in CallRecord /\ d.op = o /\ d.addr = pc[s].addr
      BY <1>2, <3>3 DEF CallRecord, Ops, Binding
    <3> HIDE DEF d
    <3> QED
      BY <3>1, <3>2, <3>3, <3>4 DEF Binding
  <2> QED
    BY <2>1, <2>2
<1>6. Types'
  BY <1>1, <1>2, <1>3, <1>4, <1>5 DEF BindInv, Types
<1>7. pc'[s] = c /\ \A t \in Socket : t # s => pc'[t] = pc[t]
  BY <1>2, <1>5
<1>8. Life(s)' # "none"
  BY <1>1, <1>3 DEF BindInv, CallsOK
<1>9. \A k \in pending' : pc[s].op \in Binding /\ pc[s].addr = conn[k].addr
                            => pc'[s].op \in Binding /\ pc'[s].addr = pc[s].addr
  BY <1>5, <1>7
<1>10. \A a \in Addr : endpoints'[a] \in {None, endpoints[a]}
  BY <1>3
<1> QED
  BY <1>1, <1>3, <1>5, <1>6, <1>7, <1>8, <1>9, <1>10, BindFrame

\* zmq_ctx_term makes a socket for a connection that waits.
LEMMA PairStep == ASSUME BindInv, Next, terminate_pair PROVE BindInv'
<1>1. sock' \in [Socket -> SocketRecord] /\ \A t \in Socket : Life(t) # "none" => Life(t)' # "none"
  BY SocketsStep DEF BindInv
<1>2. /\ endpoints \in [Addr -> Socket \cup {None}] /\ pc \in [Socket -> CallRecord] /\ conn \in [Conn -> ConnRecord]
      /\ sock \in [Socket -> SocketRecord] /\ term.copy \subseteq Conn
  BY DEF BindInv, Types
<1>3. PICK p \in Socket : Life(p) = "none" /\ p = CHOOSE q \in Pair : Life(q) = "none"
  BY DEF terminate_pair, Socket
<1>4. PICK k \in term.copy : /\ term' = [term EXCEPT !.copy = @ \ {k}]
                             /\ pc' = [pc EXCEPT ![p] = [Idle EXCEPT !.op = "register", !.addr = conn[k].addr]]
  BY <1>3 DEF terminate_pair
<1>5. sock' = [sock EXCEPT ![p].life = "open"] /\ UNCHANGED <<endpoints, pending, conn>>
  BY <1>3 DEF terminate_pair, evars, pvars
<1> DEFINE c == [Idle EXCEPT !.op = "register", !.addr = conn[k].addr]
<1>6. c \in CallRecord /\ c.op = "register"
  <2>1. conn[k].addr \in Addr \cup {None}
    BY <1>2 DEF ConnRecord
  <2> QED
    BY <2>1, IdleFacts DEF CallRecord, Ops
<1>7. term'.copy \subseteq Conn /\ DOMAIN term' = DOMAIN term
  BY <1>2, <1>4 DEF BindInv, Types
<1> HIDE DEF c
<1>8. Types'
  BY <1>1, <1>2, <1>4, <1>5, <1>6, <1>7 DEF BindInv, Types, c
<1>9. pc'[p] = c /\ \A t \in Socket : t # p => pc'[t] = pc[t]
  BY <1>2, <1>3, <1>4 DEF c
<1>10. Life(p)' # "none"
  <2>1. sock'[p] = [sock[p] EXCEPT !.life = "open"] /\ sock[p] \in SocketRecord
    BY <1>2, <1>3, <1>5
  <2>2. sock'[p].life = "open"
    BY <2>1 DEF SocketRecord
  <2> QED
    BY <2>2 DEF Life
<1>11. pc[p].op \notin Binding
  BY <1>3, IdleFacts DEF BindInv, CallsOK
<1>12. /\ \A a \in Addr : endpoints'[a] \in {None, endpoints[a]}
       /\ \A j \in Conn : conn'[j].addr = conn[j].addr
       /\ pending' \subseteq pending
  BY <1>5
<1>13. pc'[p].op # "connect"
  BY <1>6, <1>9
<1> QED
  BY <1>1, <1>3, <1>8, <1>9, <1>10, <1>11, <1>12, <1>13, BindFrame
-----------------------------------------------------------------------------
\* The invariant holds at first.
LEMMA BindInit == ASSUME Init PROVE BindInv
<1>1. NoSocket \in SocketRecord
  BY DEF NoSocket, SocketRecord, Lives
<1>2. Types
  BY <1>1, IdleFacts DEF Init, Types
<1>3. CallsOK /\ NoMissedBind
  BY IdleFacts DEF Init, CallsOK, NoMissedBind
<1> QED
  BY <1>2, <1>3 DEF BindInv

\* Every step of Ctx preserves the invariant.
LEMMA BindStep == ASSUME BindInv, [Next]_vars PROVE BindInv'
<1>1. CASE UNCHANGED vars
  BY <1>1 DEF vars, evars, pvars, BindInv, Types, CallsOK, NoMissedBind, Life
<1>2. CASE Next
  <2>1. /\ conn \in [Conn -> ConnRecord] /\ endpoints \in [Addr -> Socket \cup {None}]
    BY DEF BindInv, Types
  <2>2. ASSUME UNCHANGED <<endpoints, pending, pc, conn, term>> PROVE BindInv'
    BY <1>2, <2>1, <2>2, ApartStep
  <2>3. ASSUME NEW s \in Socket, Process(s) PROVE BindInv'
    <3>1. CASE process_pipe_term_ack(s)
      <4> DEFINE e == arg(s)
      <4>1. UNCHANGED <<endpoints, pending, pc, term>>
        BY <3>1 DEF process_pipe_term_ack, evars
      <4>2. conn' = IF e \in Conn THEN [conn EXCEPT ![e].inproc = FALSE] ELSE conn
        BY <3>1 DEF process_pipe_term_ack
      <4> HIDE DEF e
      <4>3. \A r \in ConnRecord : /\ [r EXCEPT !.inproc = FALSE] \in ConnRecord
                                  /\ [r EXCEPT !.inproc = FALSE].addr = r.addr
        BY DEF ConnRecord
      <4>4. conn' \in [Conn -> ConnRecord] /\ \A k \in Conn : conn'[k].addr = conn[k].addr
        BY <2>1, <4>2, <4>3
      <4> QED
        BY <1>2, <2>1, <4>1, <4>4, ApartStep
    <3>2. CASE process_bind(s) \/ process_inproc_connected(s) \/ process_stop(s) \/ process_pipe_term(s)
      BY <2>2, <3>2 DEF process_bind, process_inproc_connected, process_stop, process_pipe_term, evars, pvars
    <3> QED
      BY <2>3, <3>1, <3>2 DEF Process
  <2>4. ASSUME NEW s \in Socket, Call(s) PROVE BindInv'
    <3>1. CASE create_socket(s) \/ zmq_close(s)
      BY <2>2, <3>1 DEF create_socket, zmq_close, close, evars, pvars
    <3>2. ASSUME NEW a \in Addr, unregister_endpoint(s, a) PROVE BindInv'
      <4>1. endpoints' = [endpoints EXCEPT ![a] = None] /\ UNCHANGED <<pending, pc, conn, term>>
        BY <3>2 DEF unregister_endpoint, pvars
      <4> QED
        BY <1>2, <2>1, <4>1, ApartStep
    <3>3. ASSUME NEW a \in Addr, term_endpoint(s, a) PROVE BindInv'
      <4> DEFINE E == {k \in Conn \cap pipes(s) : conn[k].inproc /\ conn[k].addr = a}
      <4>1. UNCHANGED <<endpoints, pending, pc, term>>
        BY <3>3 DEF term_endpoint, evars
      <4>2. conn' = [k \in Conn |-> IF k \in E THEN [conn[k] EXCEPT !.inproc = FALSE] ELSE conn[k]]
        BY <3>3 DEF term_endpoint
      <4> HIDE DEF E
      <4>3. \A r \in ConnRecord : /\ [r EXCEPT !.inproc = FALSE] \in ConnRecord
                                  /\ [r EXCEPT !.inproc = FALSE].addr = r.addr
        BY DEF ConnRecord
      <4>4. conn' \in [Conn -> ConnRecord] /\ \A k \in Conn : conn'[k].addr = conn[k].addr
        BY <2>1, <4>2, <4>3
      <4> QED
        BY <1>2, <2>1, <4>1, <4>4, ApartStep
    <3> QED
      BY <1>2, <2>4, <3>1, <3>2, <3>3, FindStep, ConnectStep, IdentityStep, RegisterStep, PendingStep DEF Call
  <2>5. ASSUME NEW e \in End, process_delimiter(e) PROVE BindInv'
    BY <2>2, <2>5 DEF process_delimiter, evars
  <2>6. ASSUME Reaper PROVE BindInv'
    <3>1. CASE process_reap
      <4> DEFINE r == arg("reaper")
      <4>1. endpoints' = [a \in Addr |-> IF endpoints[a] = r THEN None ELSE endpoints[a]]
        BY <3>1 DEF process_reap
      <4>2. UNCHANGED <<pending, pc, conn, term>>
        BY <3>1 DEF process_reap
      <4> HIDE DEF r
      <4> QED
        BY <1>2, <2>1, <4>1, <4>2, ApartStep
    <3>2. CASE process_reaped \/ process_reaper_stop \/ \E s \in Socket : destroy_socket(s)
      BY <2>2, <3>2 DEF process_reaped, process_reaper_stop, destroy_socket, evars, pvars
    <3> QED
      BY <2>6, <3>1, <3>2 DEF Reaper
  <2>7. ASSUME CtxTerm PROVE BindInv'
    <3>1. ASSUME UNCHANGED <<endpoints, pending, pc, conn>>, NEW x, term' = [term EXCEPT !.pc = x] PROVE BindInv'
      <4>1. term'.copy = term.copy /\ DOMAIN term' = DOMAIN term
        BY <3>1 DEF BindInv, Types
      <4> QED
        BY <1>2, <2>1, <3>1, <4>1, ApartStep
    <3>2. ASSUME terminate_stop PROVE BindInv'
      BY <3>1, <3>2 DEF terminate_stop, evars, pvars
    <3>3. CASE terminate /\ pending # {}
      <4>1. UNCHANGED <<endpoints, pending, pc, conn, sock>>
        BY <3>3 DEF terminate, evars, pvars
      <4>2. term' = [term EXCEPT !.pc = "pairs", !.copy = pending, !.late = {}]
        BY <3>3 DEF terminate
      <4>3. term'.copy = pending /\ DOMAIN term' = DOMAIN term
        BY <4>2 DEF BindInv, Types
      <4>4. Types'
        BY <4>1, <4>3 DEF BindInv, Types
      <4>5. CallsOK' /\ NoMissedBind'
        BY <4>1 DEF BindInv, CallsOK, NoMissedBind, Life
      <4> QED
        BY <4>4, <4>5 DEF BindInv
    <3>4. CASE terminate /\ pending = {}
      BY <3>2, <3>4 DEF terminate
    <3>5. CASE terminate_loop_ends
      BY <3>2, <3>5 DEF terminate_loop_ends
    <3>6. CASE terminate_done
      BY <3>1, <3>6 DEF terminate_done, evars, pvars
    <3>7. ASSUME NEW p \in Pair, terminate_close(p) PROVE BindInv'
      BY <2>2, <3>7 DEF terminate_close, close, evars, pvars
    <3> QED
      BY <1>2, <2>7, <3>3, <3>4, <3>5, <3>6, <3>7, PairStep DEF CtxTerm
  <2>8. ASSUME shutdown PROVE BindInv'
    BY <2>2, <2>8 DEF shutdown, evars, pvars
  <2> QED
    BY <1>2, <2>3, <2>4, <2>5, <2>6, <2>7, <2>8 DEF Next
<1> QED
  BY <1>1, <1>2

\* Whoever is in the middle of which call, an address that is bound and has
\* connections waiting for it is bound by a socket whose zmq_bind has not
\* returned (ctx_t::pend_connection, register_endpoint, connect_pending).
THEOREM NoBindIsMissed == Spec => []NoMissedBind
<1>1. Init => BindInv
  BY BindInit
<1>2. BindInv /\ [Next]_vars => BindInv'
  BY BindStep
<1>3. BindInv => NoMissedBind
  BY DEF BindInv
<1> QED
  BY <1>1, <1>2, <1>3, PTL DEF Spec
=============================================================================
