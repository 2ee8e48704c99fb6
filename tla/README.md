# ZeroMQ 4.2.0 in TLA+

Models, model-checking runs and machine-checked proofs of libzmq (`src/src` of
this repository): the lock-free pipe and the mailboxes through which all threads
talk, message pipes, the tree of objects below a socket, the context, the socket
types, sessions, engines, codecs and security mechanisms, what connects, listens
and polls, and the pollers, timers, proxy and monitor of the API. `PROJECT.json`
lists the components, the source lines behind every definition, the runs, the
mutants that each property catches, the hazards and the theorems.

    tlc -workers 2 -config MCPipe.cfg MCPipe      # and the other runs
    tlapm YPipeProofs.tla                         # and the other *Proofs modules

## 1. The system

libzmq has few shared mutable objects. Every object belongs to one thread and is
changed only there; threads exchange *commands* through mailboxes and *messages*
through pipes. What is hard is therefore at the seams: the few words that two
threads do share, commands that cross each other on their way, calls and
handlers that come between two parts of a message, and the question when an
object can be deleted although others still hold pointers to it.

| Component | State | Operations | Talks to | What makes it correct |
|---|---|---|---|---|
| `ypipe_t` | pointers w, f (writer), r, front (reader), c (shared, atomic) | write, unwrite, flush, check_read, read | its two threads, by one atomic word | no cell is touched by both; a reader that went to sleep is woken exactly once |
| `yqueue_t` | linked chunks, begin/back/end, spare_chunk (shared, atomic) | push, unpush, pop | underneath `ypipe_t` | no access to freed memory, no leak, addresses behave as indices |
| `ypipe_conflate_t`, `dbuffer_t` | two messages, a mutex, has_msg | write, read, check_read, probe | underneath `pipe_t` with ZMQ_CONFLATE | the newest message last, none twice, no sleep over one |
| `mailbox_t`, `signaler_t` | a `ypipe_t`, a mutex for the writers, a descriptor, `active` | send, recv, destructor | all threads to one | a sleeping receiver has a signal coming; commands in order per sender; safe deletion |
| `mailbox_safe_t` | the same with the socket's mutex, a condition variable, a list of signalers | send, recv, add/remove_signaler | several receivers | nobody sleeps over a command |
| `pipe_t` | per end: state, in/out queue, hwm, lwm, counters, active flags | write, rollback, flush, read, terminate, hiccup, set_hwms; six commands | socket to session, or socket to socket | order and atomicity of messages, watermark, wake-ups, orderly mutual deletion |
| `own_t`, `object_t` and the life of sessions, listeners, connecters | owner, owned, sent/processed_seqnum, term_acks; engine, pipe, `pending` | launch_child, term_child, terminate, plug, attach, bind, engine_error, reconnect | tree over several threads | no command reaches a deleted object; the tree always comes down |
| `ctx_t`, `reaper_t`, inproc part of `socket_base_t` | sockets, slots, endpoints, pending_connections, `terminating` | create/destroy_socket, bind, connect, disconnect, close, shutdown, terminate | all sockets | bind and connect meet; sockets live as long as somebody can find them; zmq_ctx_term returns |
| `lb_t`, `fq_t`, `dist_t` | array of pipes cut into regions by active, eligible, matching; current, more, dropping | attach, activated, terminated, send, recv, match, distribute | pipes | messages whole, no usable pipe left out, none used that is not |
| PUSH, PULL, PAIR, DEALER, REQ, REP, ROUTER, STREAM, CLIENT, SERVER, SCATTER, GATHER | request/reply state, prefetched message, routing table | xsend, xrecv, xattach_pipe, x*_activated, xpipe_terminated | lb, fq, pipes | alternation, replies to the peer that asked, whole messages |
| XPUB, XSUB, PUB, SUB, RADIO, DISH | subscriptions on both sides, pending notifications | xsend, xrecv, subscriptions, hiccup | dist, tries | each message to exactly those whose subscription has arrived; both sides agree |
| `trie_t`, `mtrie_t` | nodes with tables min, count, live_nodes | add, rm, check, match | XSUB, XPUB | answer like a set; tables as small as they can be |
| `msg_t` | content and its reference count | init, copy, move, close | everywhere | freed once, and not before |
| encoders, decoders | state, buffer, bytes to read or write; shared buffer | encode, decode, allocate, resize | engine | what goes in comes out, however the stream is cut |
| `session_base_t`, `stream_engine_t` | pipe, ZAP pipe, incomplete_in, pending; greeting, handshake, input/output stopped, timers | in/out_event, restart_*, push/pull, timers, attach, term | pipe, network, mechanism | handshake, back pressure, heartbeats, whole messages over reconnections |
| NULL, PLAIN, CURVE, GSSAPI | state of the handshake, ZAP request and reply | next/process_handshake_command, zap_msg_available | engine, ZAP handler | nobody talks who is not allowed to, everybody who is |
| `udp_engine_t`, DGRAM | pollin, pollout; which frame is next | in/out_event, restart_* | pipe, network | datagrams whole, engine never stalls |
| connecters, SOCKS | descriptor, timers, handle, interval | open, in/out_event, timer_event, process_term | poller, session | one holder of a descriptor, retries in time |
| listeners | descriptor, file and directory | set_address, in_event, close | poller, socket | survive failing accepts, leave nothing behind |
| pollers, `poller_base_t`, `io_thread_t` | registrations, retired entries, timers | add/rm_fd, set/reset_poll*, add/cancel_timer, loop | the OS, I/O objects | no handler is called for what is no longer registered |
| `socket_poller_t`, zmq_poll, `timers_t` | items, signaler; map of timers, cancelled ids | add, modify, remove, wait; add, cancel, set_interval, reset, execute | sockets | no sleep over an event, exact answers |
| proxy | state, message in hand | poll, control, forward | sockets | whole messages, no direction waits for the other |
| monitor | monitor_socket, monitor_sync | monitor, event, stop_monitor | all threads of a socket | whole events, released by the end of the context |
| `options_t` | some sixty fields, shared by several options | zmq_ctx_set, setsockopt, getsockopt | sockets, pipes | a call takes effect whole or not at all, and only where it should |
| zmq_send, zmq_recv, zmq_sendiov, zmq_recviov, zmq_msg_* | the message in hand | one part or a vector of parts | a socket | each part once, nothing left open |
| endpoints of `socket_base_t` | `endpoints`, `inprocs`, last_endpoint | bind, connect, term_endpoint | listeners, sessions, context | what an address names is what is running |
| `norm_engine_t` | encoder and decoders per sender, three lists of streams | in_event, restart_*, process_data | NORM, session | frames whole and in order per sender, no stream forgotten |
| address parsing, utilities, PGM, tweetnacl | – | conversions, system calls | – | not modelled |

The behaviours that are hard to test, with their lines, are in `hazards` of
`PROJECT.json`.

## 2. Modules

    UPipe  <-- YPipe  <-- YQueue         what the pipe promises, its algorithm,
      |        YPipeProofs <-- YQueueProofs   its memory (refinements)
      v
    Mailbox  MailboxSafe    Pipe              Own               Ctx
      MailboxProofs           PipeProofs        OwnStepProofs     CtxProofs
                                PipeFlowProofs    OwnProofs

    Balance <-- Sockets                  pipes as a socket sees them, lb, fq, dist;
       ^------- PubSub      Trie         the socket types; the tries

    Mechanism <-- Engine    Msg <-- Codec    Udp    Norm

    Connecter  Listener  Poller  SocketPoller  Timers  Proxy  Monitor  Conflate

    Endpoints  Options  Api

* **UPipe** is the contract of the lock-free pipe as its callers use it:
  parts of an unfinished message, complete messages, flushed messages, and the
  obligation to wake a sleeping reader.
* **YPipe** is `ypipe_t`, one action per access to `c`; a failed
  compare-and-swap in `flush` is followed by `flush_set` as a second step. A
  pointer is the index of the cell it points to. `wake` is the caller acting on
  a flush that returned false.
* **YQueue** puts `yqueue_t` underneath: chunks with prev/next, an allocator
  that can return a freed address at once, the spare chunk that both threads
  exchange, uninitialised pointers. `ImplementsYPipe` maps addresses back to
  indices.
* **Conflate** is the pipe with ZMQ_CONFLATE: the two buffers, the writer's
  try_lock, the reader's lock, and the activation commands of `pipe_t` above it.
* **Mailbox** uses the pipe through `UPipe` and adds the mutex of the senders, the
  signal that is sent after the mutex is released, timeouts and interruptions
  of the wait, failing reads of the descriptor, and the destructor.
* **MailboxSafe** is the mailbox of CLIENT, SERVER and the other thread-safe
  sockets: receivers that release the socket's mutex in a condition variable,
  and `socket_poller_t` threads that wait for a descriptor.
* **Pipe** has both ends of a `pipe_t`, their two lock-free queues (a new
  one for each hiccup), and the commands between them in order. A message is
  its number; parts and credentials are told apart because the code does. What a
  hiccup cuts in the middle is remembered in `sent.cut`.
* **Own** has a socket, listeners, sessions, connecters and pipes in three
  threads. A handler changes its own object at once and leaves what it does to
  others (increment of sent_seqnum, send, check_term_acks, delete) in `todo`,
  one step each.
* **Ctx** has sockets in threads of their own, the reaper, zmq_ctx_shutdown
  and zmq_ctx_term with the PAIR sockets it makes. An API call is one step per
  critical section of `endpoints_sync`; the writing of the identity in
  connect_inproc_sockets is a step of its own, because other threads run
  between it and the bind command. An end of a pipe is `k` or `-k`.
* **Balance** has pipes as one socket sees them (what can be read, what room
  there is, active flags, state), and `lb_t`, `fq_t`, `dist_t` as operators over
  the array of pipes, the swaps included. **Sockets** has one socket of any of
  twelve types: the record `s` holds its fields, its methods are operators on it,
  the actions are the calls of the application and the commands of the pipes,
  which come between any two parts. **PubSub** has two links between publishers
  and subscribers with messages down and subscriptions up, connections that break
  and come back, and the publisher's old pipe that outlives its connection.
* **Trie** has the nodes of `trie_t` and `mtrie_t` with their tables as the code
  lays them out, and compares each answer with a set of prefixes.
* **Mechanism** has the four mechanisms as operators from a state to a state and
  a command; **Engine** two ends, each with a session, its pipe and an engine, and
  a network that may break. An end can also be a *script*: a peer of an older
  protocol, or one that is not libzmq. `process_msg` and `next_msg` are the
  method pointers of the code.
* **Msg** has the kinds of `msg_t` with their reference counts; **Codec** the
  encoder, a stream that is cut anywhere, the decoder with its shared buffer, and
  an application that copies, keeps and closes what it receives.
* **Udp** has the datagram engine with the sessions of RADIO, DISH and DGRAM.
* **Connecter** has a session and its connecters of five kinds, **Listener**
  two listeners on one file system, **Poller** the loop of an I/O thread for each
  of the pollers, with objects whose handlers make any of the calls they may make.
* **SocketPoller** has zmq_poller_*, zmq_poll built on it and zmq_poll as it is
  without, for the poll and the select build; **Timers** zmq_timers_*; **Proxy** the
  loop of zmq_proxy with sockets that fill up and peers that leave; **Monitor** the
  threads that send events, the PAIR socket they share, and its readers.
* **Norm** has the NORM engine as a sender and as a receiver of several streams.
  NORM's own thread adds to the streams and posts events; the engine moves streams
  between the lists rx_pending, rx_ready and msg_ready and gives frames to the
  session, whose pipe may be full.
* **Endpoints** has one socket with the maps from addresses to listeners, sessions
  and pipes, and the children that end by themselves between calls. **Options** has
  every option of `options_t` with what it checks, the fields that several options
  share, and what reaches the pipes; **Api** the calls of zmq.cpp that send and
  receive, single parts, vectors and messages.

The MC modules define constants that a cfg cannot write, and put components that
do not interact side by side into one state space (`which` says whose turn it is;
the others do not exist): MCStructures has YPipe, YQueue, Conflate and Trie, MCMailboxes
both mailboxes, MCWire Engine, Codec, Udp and Norm, MCTransport the connecters,
listeners, pollers, endpoints, options, and the parts of the API. Names are those of the source; a
definition ending in `_Something` after the name of another is a variant with a
plausible mistake, used to show that a property notices it.

### What is abstracted

Message contents, options and addresses are data of no interest except in
`Options` and `Endpoints` and where noted. Descriptors count bytes. Command handlers of one thread are atomic where
nothing they share with another thread is accessed in between, and split where
it is (`YPipe`, `Mailbox`, `Own`, `Conflate`, `Monitor`, `SocketPoller`). Reading up
to a delimiter in `Own` and `Ctx` is one step that may come at any time. A failed
assertion is recorded and stops the model; the property is that none is. In
`Engine` the unit of the stream is a frame or a greeting's part, because `Codec`
is about the bytes; cryptography is ideal: a box opens with its keys and with no
others, nonces are counters. In `PubSub` the tries are sets, because `Trie` is
about the nodes. The clocks of `Timers`, `Poller` and `Connecter` count a few
units.

## 3. Runs

| Run | States | Properties and what they show |
|---|---|---|
| structures | @structures@ | `NoSharedCell`, `NoLostWakeup`, liveness `FlushedIsRead`, refinement `ImplementsUPipe` (the lock-free pipe), `StructuresSound` (chunks with address reuse: nothing freed is used, nothing leaks; the double buffer keeps each message once, the newest last, and wakes its reader; the tries answer like sets), refinement `ImplementsYPipe` |
| mailboxes | @mailboxes@ | `NobodyForgotten` (a byte or a sender on its way exactly when a receiver is passive over a non-empty pipe), `NotUsedAfterDestroy`, liveness `AllReceivedInTheEnd` |
| pipe | @pipe@ | `NothingDangles` (the asserts of the handlers, and which queues exist), `HwmRespected`, `NoLostActivation`, action property `InOrder` (and whole), liveness `Progress` (except for a writer that credentials have `Choked`) |
| own | @own@ | `OwnershipSound` (assertions, sequence numbers), `NoUseAfterDelete`, `NoHang` |
| ctx | @ctx@ | `ContextSound`, `NoMissedBind`, `TermReturns` |
| sockets | @sockets@ | `AssertionsHold`, `NoForgottenPipe` (a pipe that can be used is in the active region of its lb or fq, or a command will put it there), `KeptWhole` (on both sides: what is read comes from one message, what is written to a pipe is one), `RightPeer` |
| pubsub | @pubsub@ | `AssertionsHold`, `AudienceExact`, `WholeMessages`, `FiltersAgree` |
| wire | @wire@ | `WireAsserts`, `Authorised`, `SessionSound`, `EnginesGoOn`, `MessagesIntact` |
| transport | @transport@ | `TransportAsserts`, `OneHolderEach`, `KeepsTryingInTime`, `PollerAgrees`, `NobodySleeps`, `AnswersExact`, `CallsExact` (options, endpoints and the calls that send and receive do what they report) |
| engine_heartbeat | – | violated: `NoProtocolError` |
| udp_dish | – | violated: `DatagramAsserts` |
| sockets_turn | – | violated: `AssertionsHold` |

### Bounds

* structures: the pipe with five items and two values: enough for a flush, a rollback
  and a sleep to meet twice (the proofs remove the bound).
  The queue with chunks of two cells, four addresses, five items: three chunks in use
  plus one in the hands of the reader; every position of a rollback relative to
  a chunk boundary occurs. Tries over prefixes of up to two of
  the characters 0 to 3, so that a table grows and shrinks at both ends and becomes
  a single pointer; messages of up to three characters.
* mailboxes: three senders of two commands: two can race for the lock while a
  third is about to signal. The shared one has two receivers, one poller, two
  senders of two commands.
* pipe: two-part messages both ways, one direction with watermark 1 and hiccuped, the
  other with watermark 2 and up to two credentials, before, between and behind the
  messages, so that they can fill it; one hiccup, terminates from both ends with both
  delays. Two messages per end, and four calls in all (`MaxCalls`, where a hiccup counts
  as two): a second message behind a hiccup, a credential before each message, and two
  credentials before one all occur. One repetition of terminate (true) in
  `waiting_for_delimiter` is allowed, since it writes one more delimiter each time.
* own: a listener with one session, two connecting sessions, three connecters
  (so that a session can reconnect), four pipes, one endpoint asked for, both values of
  ZMQ_IMMEDIATE. Objects are created at most once, which bounds behaviours.
* ctx: two sockets, one of them a ROUTER that connects (twice), the other one
  binding; one address; two PAIR sockets of zmq_ctx_term; slots for all four.
* sockets: two pipes (`TwoPipes` of MCSockets) with one or two messages of up to two
  parts each way, or three pipes (`ThreePipes`) with messages in one direction: the
  third shows what the end of one pipe does to the place of another. A pipe that has
  gone counts. Watermark 1, so that pipes are full in the middle of a message;
  generated identities of three bits, so that the counter of SERVER wraps around.
  `KeepsTurn` leaves out the step of finding 3.
* pubsub: two links, three publisher pipes, two prefixes of which one covers the
  other, two topics, up to two subscriptions, two messages and one break. Nine
  cases: XPUB, PUB with one and two subscriptions, two publishers for one
  subscriber, inverted matching, verbose with a welcome message, no-drop, manual,
  RADIO. Combining them only multiplies the states.
* wire: two connections, at most two ticks of a timer, sockets that buffer three
  frames, batches of two, about fifty pairs of configurations (NULL with
  back pressure and reconnections, PLAIN, CURVE and GSSAPI with each status of the
  ZAP handler, old protocols, raw peers, heartbeats). Codec: streams of two or
  three messages with lengths at the limits of the formats, which are scaled down
  (a short length is at most 2, a buffer has 8 bytes); the stream may be cut after
  every byte, and written in pieces of 4; addresses are counted modulo 64 (2^64 in the
  code), so that no size that a small message can have wraps. Udp: two messages, three
  datagrams, whole or cut (`arrive`), watermarks 0 and 1. A larger instance (three messages, six cases) was run once.
  Norm: two streams, one of three frames, each frame of three cells; a buffer of two
  or three (`Buffers`), which a frame does not fit into or just fits, and a window of
  three, so that reads and writes end in the middle of a frame.
* transport: options in groups that share a field, three successful calls each; two
  places an address can resolve to and three children of a socket; vectors of up to
  three parts;
  three connecters one after the other with intervals up to 11 (`IntMax`, the int
  they are counted in), where the doubling wraps; two listeners, on two names or one; two poller objects, four calls, three events per round;
  one plain socket, one thread-safe one and one descriptor in the pollers of the
  API; two timers with a clock up to 4; one message of two parts from either side
  of the proxy, one command; one I/O thread, two monitors, two readers. Larger
  instances of the proxy (one- and two-part messages), of the API's pollers (three
  events or three changes), and of the poller's clock were run once.

`Symmetry` is used where it is sound: for the chunks and the values of the queue in
structures, the pipes in sockets, and the objects of the poller in transport; none of
these are ordered or told apart by a formula. In structures a liveness property is
checked under it, which in general is unsafe: here it is that of the lock-free pipe,
whose state holds no chunk and no value of the queue, so that the permutations leave
every state of its behaviours as it is.

Deadlock is checked in sockets. The other bounded models stop when their messages,
objects or connections are used up; that they do not stop early is what
`AllReceivedInTheEnd`, `Progress`, `NoHang`, `TermReturns`, `EnginesGoOn` and
`NobodySleeps` say.

### Fairness

* YPipe: the writer finishes a flush it began; the reader goes on reading. The
  writer need not do anything.
* Mailbox: threads run (WF); a mutex released again and again is obtained (SF,
  as mutexes are assumed to be starvation free); a poll that finds the descriptor
  readable again and again is not interrupted each time (SF). Timeouts
  and interruptions themselves are not fair.
* MailboxSafe: the same for the socket's mutex; a wait ends only by a
  broadcast as far as fairness goes, though it may end spuriously. In MCMailboxes
  a condition for one mailbox and one for the other share a formula: a behaviour
  has only one of the two, so it says the same as two.
* Pipe: each thread processes its commands, flushes what it wrote, and reads.
  `LingerSpec` adds that an end that waits for a delimiter is eventually told
  to give up, which is the linger timer of session_base.cpp; `Progress` needs
  it because of the first observation below.
* All other progress is stated as invariants of states in which nobody has
  anything left to do, or in which somebody waits and nothing is on its way to
  him; it needs no fairness.

## 4. Findings

1. **engine_heartbeat** (req.cpp:280). The session of a REQ socket rejects the
   PING and PONG commands that the engine passes on to it, so that heartbeats,
   documented for all socket types, end its connection.
2. **udp_dish** (udp_engine.cpp:372). in_event handles a full pipe when it pushes
   the first frame of a datagram, and asserts success for the second; the session
   of a DISH keeps the first frame and writes only the second. A DISH that is slow
   aborts.

3. **sockets_turn** (fq.cpp:65). When a pipe ends, the last active one takes its place,
   and `current` goes back to the first one if it was equal to the new number of active
   pipes, also in the middle of a message of the pipe that has just been moved. The next
   receive asks the first pipe: it fails the assertion of fq.cpp:118 when that is empty,
   and mixes two messages when it is not. lb.cpp:66-71 does the same to a message that
   is being sent, the rest of which goes to another peer.

### Observations

Seen while modelling. Where a constant or a conjunct keeps a case out of a
passing run, it is named.

*Pipes, ownership, context*

* pipe.cpp:284: a hiccup that crosses a terminate with a delay drops the delimiter
  together with the old queue; the end that sent the hiccup waits for it for
  ever, unless its linger timer ends the wait (`Spec` instead of `LingerSpec`
  violates `Progress`).
* pipe.cpp:515: `set_hwms` on a pipe without boosts sets the low watermark to 0: the
  reader stops reporting, and a writer held by its watermark is never released
  (`Boost = 0` violates `Progress`).
* pipe.cpp:229, 183: a credential is counted by the writer and not by the reader, so that
  each takes one place of the watermark for good. Once they leave fewer than the reader's
  low watermark, the writer is stopped for ever: with ZMQ_RCVHWM 1 and a ZAP user id at
  the first message, otherwise after some reconnections or handshakes on one pipe.
  set_hwms can make the same of a pipe without them, when the new low watermark of the
  reader is above the high watermark of the writer. `Progress` (`Choked` of Pipe) and
  `EnginesGoOn` (`Choked` of Engine) exempt exactly these pipes.
* pipe.cpp:294: process_hiccup sets out_active without telling the dist_t of the
  socket, and a multi-part message continued in the new queue loses its head, which
  xsub.cpp:114-116 lets happen. The reader takes the tail for a message of its own.
  `InOrder` says so: only what `sent.cut` names may lack its beginning.
* session_base.cpp:380: a session that was told to terminate and waits for its old
  pipe accepts a new connection and makes a new pipe that nobody closes.
* socket_base.cpp:1080: an endpoint keeps the pointer of a pipe that may have
  terminated by itself, after a protocol error for example; term_endpoint then uses
  it. `Own` leaves such calls out, `Endpoints` marks them `dangling` and stops.
* socket_base.cpp: ZMQ_LAST_ENDPOINT of a UDP address lacks the protocol, and a TIPC
  endpoint is known by the address as it was given, not as it was resolved.
* own.cpp:87, 107: a connecter's request to terminate can overtake the `own` command
  that tells its session of it. It is then taken for one that is already
  terminating; the session's own termination takes it down later.
* ctx.cpp:591: the write of the identity is guarded by "the connecting socket is
  open", not by the state of the pipe: a ROUTER that has disconnected a waiting
  connection and is still open makes the socket that binds abort (`failed = {}`
  instead of `AssertionsHold`). The tag of that socket is read (ctx.cpp:584) after
  what kept it alive was sent off.
* ctx.cpp:152: zmq_ctx_term copies `pending_connections` before it sets
  `terminating` and without `endpoints_sync`; a connection queued after that hangs
  it. `TermReturns` exempts exactly the connections in `term.late`.
* ctx.cpp:156: zmq_ctx_term asserts that it gets a socket for each pending
  connection; with `MaxSockets = 2`, `ContextSound` fails.
* condition_variable.hpp:225: a deadline whose nanoseconds are exactly 10^9 is not
  normalised. mailbox_safe.cpp:88: a poller that never receives collects signals.

*Socket types*

* lb.cpp:110-117: a write that fails in the middle of a message, on a pipe that is
  closing, lets the tail go to another pipe as a message: a send that is refused after
  that and then tried again begins with the tail (`out.cut` in `SentWhole`). So does
  a PAIR that gets a new peer between two parts (pair.cpp:87), which `SentWhole`
  exempts. doc/zmq_send.txt promises atomic delivery.
* fq.cpp:118: zmq_disconnect in the middle of a receive fails the assertion
  (`QuietDisconnect`); router.cpp:305 and 332 use the terminated pipe.
* req.cpp:130: EAGAIN in the middle of a request leaves the state for a new one;
  router.cpp:361, rep.cpp:99: a malformed request with a full reply pipe; a peer
  with a duplicate identity is never read (router.cpp:468).
* xpub.cpp:235: with NODROP a refused send leaves `more` and the matching set behind:
  the pipes it selected get the next messages too, whether they match or not, and with
  inverted matching the retry reaches nobody. `AudienceExact` speaks of the other pipes
  until a send has come to its end. xpub.cpp:130, 209: in
  manual mode the list of pending pipes and messages get out of step, and a pipe
  that terminates is kept (`ManualTerminates`). A PUB keeps pending data for ever.
* session_base.cpp:519, dish.cpp:87: a DISH does not join again after a
  reconnection (`DishReconnects`). mtrie.cpp:297: removing what is not there.

*Wire*

* stream_engine.cpp:445, 365: heartbeat timers that meet back pressure or an error
  reach assertions; 823: the identity is pushed into a pipe that may be full;
  1075: a TTL in tenths times 100 overflows 16 bits; a pending PONG is replaced by
  a PING.
* curve_server.cpp: process_initiate sets its state before the metadata is parsed;
  a ZAP handler that closes between zap_connect and the request aborts.
* decoder_allocators.cpp: resize of the v1 allocator changes the recorded size
  only. Encoders close a message at the next encode.
* dgram.cpp:100-127: xsend settles which part comes next before the write; after
  EAGAIN the retry gives EINVAL, and a body without address can enter the pipe
  (`polite = FALSE` violates `WireAsserts`). udp_engine.cpp asserts sendto, also
  where nobody has asked whether the socket can be written to. The same happens to
  a DISH that is closing.

* udp_engine.cpp:355: dish.cpp:275 refuses a datagram whose group is longer than 15 bytes
  with EFAULT, which in_event asserts does not happen: the datagram ends the process
  (`"long"` in `arrive` violates `WireAsserts`).
* norm_engine.cpp:313: tx_index goes back to the start of the buffer for a new message
  only. A frame that fills the buffer (line 270) is continued with tx_index still at its
  end, so that line 317 is false and the loop of send_data spins in the I/O thread
  with the rest of the frame never written. `NothingForgotten` asks for rest only where
  `Fits` (a frame is shorter than the buffer), and `MessagesIntact` that what was
  written is a beginning of what it should be.
* norm_engine.cpp: the session has one pipe for all senders, so frames of multi-part
  messages of two senders can interleave in it; `FramesInOrder` is per sender.

*Transport*

* tcp_connecter.cpp:235: ZMQ_RECONNECT_IVL of 0 divides by zero; -1 retries a
  failed first connection at once (223-245); the random part comes on top of
  ZMQ_RECONNECT_IVL_MAX, which doc/zmq_setsockopt.txt calls the maximum interval, so
  that the wait can be almost ZMQ_RECONNECT_IVL longer; when ZMQ_RECONNECT_IVL_MAX is
  above half the largest int the doubling overflows (`Backoff` claims nothing unless
  `DoublingFits`).
* socks_connecter.cpp:192, 225: a connection made synchronously sends no greeting;
  socks.cpp reads past a response that is cut.
* ipc_listener.cpp:222, 289-322: a listener removes the file of another one with the same
  name, both when it binds and when it closes, so that the other cannot be reached;
  `CleanedUp` exempts listeners that share a name from being found. 398: EMFILE is asserted against; files are left when
  listen fails.
* pollset.cpp:107: rm_fd clears the entry of descriptor -1; a stale report may reach
  a new registration with the same number.

*API*

* zmq.cpp:954: without socket_poller_t, zmq_poll on a socket that is listed twice
  can sleep over an event (`MayRepeat = TRUE`), though doc/zmq_poll.txt promises
  to report it.
* socket_poller.cpp:469: reads before the array for a descriptor without events;
  324: the select build leaves the signaler out of maxfd; 64, 195: signalers stay in
  sockets whose context has terminated.
* timers.cpp: a handler that resets its own timer erases the node under the
  iterator; timers with an interval of zero loop.
* dbuffer.hpp:87: a message, or the delimiter, stays in the back buffer when the
  try_lock fails until the next write.
* proxy.cpp: spins while paused or while an output is full and an input ready; an
  interrupted call makes it return with a part in hand.
* socket_base.cpp:1706: the monitor's PAIR never reads, so when its reader closes the
  pipe waits for a delimiter for ever: the next event blocks its thread with
  monitor_sync held, until the context ends. An event before any reader blocks
  too. A signal in the application's thread costs one frame of an event.

## 5. Proofs

All proofs are checked with Z3, Zenon and LS4. A theorem holds for every value of
the constants that the named assumptions allow; those only say which constants are
numbers, finite sets or functions to numbers, and that identifiers of different kinds
differ.

| Module | Theorem | Property |
|---|---|---|
| YPipeProofs | `Invariance`, `TypeCorrect` | `IInv`, `TypeOK` |
| | `NoSharedCellHolds`, `NoLostWakeupHolds` | `NoSharedCell`, `NoLostWakeup` |
| | `RefinesUPipe` | `ImplementsUPipe` |
| YQueueProofs | `QueueInvariance`, `QueueFullInvariance` | `IInv`, `FullInv` |
| | `QueueRefinesYPipe` | `ImplementsYPipe` |
| | `QueueMemorySafe`, `QueueNoLeak` | `MemorySafe`, `NoLeak` (in `StructuresSound`) |
| MailboxProofs | `MailboxInvariance`, `MailboxTypeCorrect` | `IInv`, `TypeOK` |
| | `SignalsAlwaysMatch`, `MailboxInOrder` | `SignalsMatch`, `InOrder` of Mailbox |
| | `MailboxNotUsedAfterDestroy` | `NotUsedAfterDestroy` |
| | `NobodyEverForgotten` | `NobodyForgotten`, of both mailboxes |
| PipeProofs | `PipeInvariance` | `IInv` |
| | `PipeNothingDangles`, `PipeNoLostActivation` | `NothingDangles`, `NoLostActivation` |
| PipeFlowProofs | `PipeHwmInvariance`, `PipeCountersNeverWrap` | `HwmInv`, `CountersNeverWrap` |
| | `PipeHwmRespected` | `HwmRespected`, if `NeverLowered` |
| | `PipeOrderInvariance`, `PipeInOrder` | `OrderInv`, `InOrder` of Pipe |
| OwnProofs | `OwnInvariance` | `IInv` |
| | `OwnershipIsSound`, `DeletedIsLeftAlone` | `OwnershipSound`, `NoUseAfterDelete` |
| | `ClosingNeverHangs` | `NoHang` |
| CtxProofs | `NoBindIsMissed` | `NoMissedBind` |

**YPipe** (any `Value`; assumption `MaxItems \in Nat`). `IInv` has three parts.
`TypeOK`. `PointerOrder`: front <= r <= w <= f <= back and c is w or NULL. That is
what keeps the threads apart, but is not inductive: a reader that continued after it
had put NULL into c could overtake w. `SleepProtocol` closes it: an awake reader
implies c = w and no wake-up owed; a sleeping one has r = front, and either c = NULL,
nothing flushed and nothing owed, or exactly one wake-up; between a failed
compare-and-swap and the store the reader is asleep. `RefinesUPipe` maps the stages
of the contract to slices of the queue (front..w-1, w..f-1, f..end). The lemmas on
slices say what appending, dropping the last cell and moving a boundary do to them;
then each action maps to an action of the contract or to a stutter.

**YQueue** (any `N > 1`, any finite set of addresses without NULL, any number of items).
The picture `Memory`: the live chunks that are neither the spare nor in the hands of
a thread are the list, and their ordinals are the interval from begin_chunk's to
end_chunk's, each taken once, with next one up and prev one down. On its cells address
and index determine each other, so that each comparison of addresses in the code is one
of indices, and each step is one of YPipe or invisible to it: `QueueRefinesYPipe`. The
two halves of the invariant need each other. A pop () that leaves a chunk, or an
unpush () that frees one, must not take away a chunk that r, w, f or c points into;
that is the order of the pointers, which the proof about YPipe gives for the indices
(`YPipeProofs` is instantiated, not repeated). `MemorySafe` and `NoLeak` are about
`Walk`, a recursive function; `WalkIsLinked` says that it visits the list, by
induction over a set of numbers (`SetInduction`), and that it is long enough by
counting. `Contents` adds where each item is.

**Mailbox** (any sets of senders, receivers and pollers, any number of commands).
The assertion in recv, that a signalled pipe is not empty, needs `OneSignal`: a
wake-up that the pipe owes is either a byte in the descriptor or exactly one sender
between its flush and its write to the descriptor, never both. That is kept only
because the lock is held from the write to the flush, `SleepState` ties the
receiver's flag to the pipe's idea of its reader, and a receiver that takes the
signal becomes active in the same step. `PipeContents` says where each command is:
the commands of a sender in the pipe are consecutive from the one after the last
received, which gives the order and, with `Leaving`, that nobody is inside when
the owner has everything and has taken the lock once. For the shared mailbox
`PollersCovered` says that a poller which has found the mailbox empty is registered,
and either the pipe is still asleep, so that the next send signals, or it has a signal.

**Pipe** (any watermarks, bounds and users). The two ends are in 49 pairs of states,
most of them impossible; `TermInv` says which are possible and, for each, which of
the requests, acknowledgements and hiccups can be on their way, in which order
(`QueueOK`). `QueuesInv` describes the lock-free pipes of a direction as a chain:
the one that is written, those that hiccups on their way bring, in rising order, up
to the one that is read; the chains of the two directions are disjoint and exactly
their members are alive. Without it a hiccup that crosses a termination could leave
the writer with a pipe that its reader has deleted. `SleepInv` says that a reader
which gave up is marked asleep in the pipe it reads now, or has an activation on its
way. `NothingDangles` and `NoLostActivation` follow.

`HwmInv` adds the counters. For an active writer: what it has written is at least
what was read plus what is in its pipe (not equal: a hiccup can lose messages that
were flushed before it arrived, and takes them back on arrival); the reports on
their way grow and lie between what the writer was told and what was read; pipes
that hiccups bring are still empty; and, unless the watermark is lowered, at most
a watermark of messages was written beyond the last report. `PipeCountersNeverWrap`
has no condition. `PipeHwmRespected` has one, `NeverLowered`: set_hwms lifts the
limit or raises it. Without it the property is false, since a limit can be set below
what is already in the queue; `MCPipe.cfg` satisfies it.

`OrderInv` says what a reader will read: behind the part it has read last, each part
`Follows` the one before it, and both what can be read now and what is written ends
with a whole message. What may follow: the rest of a message, the next message, a
delimiter between two, or a credential between two, which stands for nothing and lets
what comes behind it follow what comes before (`Chain` looks through credentials,
`Through`). On the way to an end that hiccups messages may be missing, and one that its
writer had begun when the hiccup arrived may lack its first part: `process_hiccup` adds
its number to `sent.cut`, and only those may. `Linked` ties the end of that stream to
the writer: the next message it writes has the next number, and the message it has begun
is in the pipe that it writes, or is cut. Each operation either appends one part, takes
some from the front, moves the boundary of a flush, or leaves the stream alone, which
the lemmas on streams cover. `PipeInOrder` has no condition: both ends may write messages
of several parts, as XSUB does to its session (xsub.cpp:114-116).
`session_base_t::reconnect` hiccups for ZMQ_IMMEDIATE too, followed by terminate () in
the same function; there the model, in which the two are steps of their own, allows more
than the code does.

**Own** (any finite sets of listeners, sessions, connecters and pipes; any threads, as
long as the socket's runs nothing else; at least as many connecters as connecting
sessions and as many pipes as accepted sessions and connecters together, which only
the model needs, since it takes both from a finite set). The invariant relates the
state of the objects to the commands *in flight*, those in a mailbox and those a
thread is about to send, by counting them. Four equations carry it:

* `Seqnums`: sent_seqnum, with the announcements that are still to be made, is
  processed_seqnum with the commands in flight that process_seqnum follows.
* `Awaited`: term_acks is the number of living children that were told to go, of
  acknowledgements in flight and, in a closed socket, of its pipes.
* `Children`: a living child is at exactly one station: its owner has still to learn
  of it, owns it, has told it to go; it waits for its pipes; it is terminating.
* `Pipes`: the two ends of a pipe are in one of 19 joint states, and each says which
  of bind, pipe_term and pipe_term_ack are in flight to which end.

None of them is inductive alone. A check that succeeds must find nothing on its way
to the object, or a command would reach a deleted one. `Seqnums` says that for plug,
own, attach and bind; for the others it follows from the senders: a term comes from
the owner once (`Children`), an acknowledgement is awaited (`Awaited`), a request comes
from a child, whose acknowledgement, still awaited, comes behind it (`Requests`), and a
command about a pipe belongs to a joint state in which the end is not gone. An
announcement that is still to be made keeps its object alive by other means
(`IncOK`): the thread that makes it runs a living child of the object, or has the
object's own command to its owner still to send. `Checked` (an object that can go is about
to be checked) makes closing proceed, and `Order` and `PlugFirst` exclude that a
command overtakes one it depends on. `NoHang` then follows from the depth of the tree:
in a quiet state every count in flight is zero, so a terminating object waits for
a terminating child, and a chain of owners has three objects at most.

`OwnStepProofs` has the counting lemmas, the frames (a turn of a thread that
takes a command or none and plans steps) and half of the handlers, `OwnProofs` the rest.
`NoHang` is a safety property: it says that a state in which nothing can go on is not
one in which something is left. That such a state is reached is liveness.

**Ctx** (any sets of sockets, addresses and connections). `NoMissedBind` is inductive
with `Types` and `CallsOK`: a connection that waits has its address, and a socket
that is between the two critical sections of zmq_connect holds a connection with
the address it looks for. The step that decides is pend_connection, which looks for
the address again in the critical section in which it queues.

Only model-checked: all liveness (`FlushedIsRead`, `AllReceivedInTheEnd`, `Progress`),
which is beyond the proof system, as is ENABLED; `ContextSound` and
`TermReturns`; the double buffer; and the modules that declare recursive
operators or are composed with one that does: Codec, Engine, Monitor, PubSub,
SocketPoller, Sockets, Trie and Udp, hence the runs structures, sockets, pubsub, wire
and transport (of the first, the part about chunks is proved).

## 6. Plan

1. *Done*: the modules above; proofs of YPipe, YQueue, both mailboxes, Pipe, Own and the bind of Ctx.
2. *Proofs, next*: `ContextSound`; the double buffer.
   Monitor and SocketPoller could be written with folds, which would open the
   properties of the transport run to proofs.
3. *Models*: ZMQ_XPUB_VERBOSER, raw ROUTER and the sessions of raw sockets,
   clear_signalers, OpenPGM.

## 7. Not modelled

Data of messages, address parsing and name resolution, system call
failures other than those listed, sessions of raw sockets that terminate themselves when
their pipe ends (session_base.cpp:255-261), the memory model below sequential consistency
(`atomic_ptr_t` uses locked instructions or a mutex), fork, metadata,
PGM (an adapter of a library that is not in the repository), tweetnacl
(third-party), and what the `note` of each component in `PROJECT.json` names.
