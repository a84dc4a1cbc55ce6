# InsectGame: verification project

InsectGame is a small multiplayer game: a C++ server and an SDL client that talk
over TLS. The repository has no tests and no documentation but its comments. This
directory holds TLA+ models of the parts where things happen concurrently, the TLC
configurations that check them on small instances, and TLAPS proofs of what holds
for every instance. Paths below are relative to `src/`.

## The system

| part | state | operations | hard about it |
|---|---|---|---|
| `Utils/AsyncQueue.h` | deque, two mutexes, a condition variable, `notified` | `push_back`, `pop_front`, `empty`, `front`, `wait`, `notify` | lost wakeups, lock order, test and act under separate locks |
| `Utils/network/tcp_connection` | `open`, socket, `out_packets`, `temp`, two timers, latency | `ssl_handshake`, `psend`, `close`, read and write loops, `check_ping`, `check_pong` | completion handlers after `close()`, cancelled timers, `psend()` on another thread |
| `Utils/network/Packet` | table of sizes | `S`, `serialize`, `deserialize` | array bounds, framing |
| `Server/network/tcp_server` | `connections`, `in_packets`, `alive`, three threads | `start`, `stop`, `do_accept`, `on_update`, `psend_to`, `psend_all` | recursion through `on_quit()`, no lock around `connections` |
| `Server/network/Server` | `uuid_entity_map` | `on_join`, `on_packet`, `on_quit`, `on_tick` | one map, three threads; roster, connections and clients must agree |
| `Client/network/TCPClient` | connection, `in_packets`, `alive` | `connect`, `start`, `stop`, `send` | may send before the handshake |
| `Client/network/Client` | entities, own player, `pending_inputs`, sequence number | `on_tick`, `game_listener` | prediction and reconciliation |
| `Utils/entity` | position, velocity, acceleration | `on_physics`, `input_move`, `set_transform` | client and server integrate separately |
| `Server/network/PlayerList` | online connections, offline profiles | `add_player`, `save_player` | never instantiated |
| `Client/engine` | sprites, a queue of sprites to load that nothing fills | `init`, drawing | only I/O |

Threads. The server runs three: the io thread (`ctx_thread`: accepting, every
completion handler, every timer), the update thread (`on_update()`, hence
`on_packet()`), and the main thread (`on_tick()`). The client runs the io thread and
the main thread (input, listener, rendering).

How the parts meet. Handlers of `TCPConnection` push what they read to `in_packets`,
an `AsyncQueue`; the update thread (on the client: the main thread, which polls) pops
it and calls `on_packet()` (the listener). What is sent goes through `psend()` into
`out_packets` of one connection, and from there to the socket by the handlers of the
io thread. Nobody is told that a connection has closed: `psend_to()` and
`psend_all()` find out when they want to use it, and only then call `on_quit()`.

What makes each part correct:

* queue: no packet is forgotten, nothing is popped from an empty deque, no deadlock;
* connection: one read and one write outstanding, the queue never stuck, the pong
  actor neither lost nor doubled, every PING answered, a silent peer dropped, nothing
  started after `close()`;
* server: `connections` and `uuid_entity_map` tell the same story, iterators survive
  the recursion, every client knows all players and only those, packets arrive whole;
* client: the keys win over late answers; an input is forgotten when and only when the
  server has processed it;
* packet: both ends agree where a packet ends, the table is never read past its end;
* heartbeat: a peer that answers is kept, one that is silent is dropped, both in time;
* processes: `stop()` returns, whoever connects is served, nobody blocks the others;
* entities: `max_speed` is kept, friction brakes, a player without keys comes to rest.

## Modules

### AsyncQueue

The queue and the loop of `TCPServer::on_update()` around it, one step per lock
operation. `push_back()` is `PushAppend`, `PushLockBlocking`, `PushNotify`; `wait()`
is `WaitTestEmpty`, `WaitLockBlocking`, `WaitSleep`, `WaitWoken`; the loop is
`DrainTest` and `PopFront`. A condition variable may wake spuriously
(`SpuriousWakeup`). `notify()` is modelled although nothing calls it. `missed` is a
history variable: it says that a `notify_one()` fell into the window between the
`empty()` test and `cvBlocking.wait()`. `Limit` is the 20 of `on_update()`.

### TCPConnection

One connection. The io thread runs one handler at a time, so a handler is one step, except
where it locks `out_packets` several times: `psend()` (`TestEmpty`, `PushBack`,
`StartWrite`) and the handler of `write_body()` (`OnBodyWritten`, `WriteNext`). `Senders`
are the threads that call `psend()` besides the io thread: the update thread of the
server, which tests `is_open()` first (`ChecksOpen`), the main thread of the client, which
does not. On such a thread `write_header()` is two steps, its test of `open`
(`StartWrite`) and its `async_write()` (`BeginHeader`), since the io thread may run
`close()` in between. `spoiled` is a history variable for the two things that upset the
writer: a push that was overtaken (what the thread had found out about the queue was no
longer so when it pushed) and an early packet (`write_header()` called before the
handshake). `resume` says which function the io thread goes on with after a `psend()`:
`ssl_handshake()`, the handler of `read_header()`, or `check_ping()`. A timer is a
deadline (to come, passed, never), the waits on it, and the handlers that are queued
because it expired or was cancelled; `std::bind` drops the error code, so a cancelled wait
runs its handler like any other. Reads and writes fail at any time; on a closed socket
they only fail. A type is a PING, a PONG, any other the table knows (DATA), or one
`Packet::S()` refuses (INVALID). `read_body()` and `write_body()` also have a branch for
an empty body, which no type has (`sizeof` of an empty struct is 1), so it is left out.

Undefined behaviour: popping an empty deque is modelled as leaving it empty, and
`WriteHasBuffer` says that it does not happen where it is claimed not to.
`open` is a plain `bool` read by other threads; the model reads its current value.

### Server

`TCPServer` and `Server` together, because they call each other: `psend_all()` finds
a closed connection, erases it and calls `on_quit()`, which calls `psend_all()`. So
each thread (io, update) has a stack of calls, and a step is what a call does between
two accesses to `connections`: `SendNext`, `SendFindsClosed`, `SendEnds` for the loop
of `psend_all()`; `OnQuit` and `Quit` for the two halves of `on_quit()`; `OnJoin` and
`Insert` for `on_join()` and the rest of `do_accept()`; `OnPacket` and `SendMotion`
for `on_packet()` and its `psend_to()`. `known` is what each client was told of (it is
`uuid_entity_map` of that client once it has read its packets) and `torn` the clients
that were sent a header without its body. `fault` records the two ways the program
ends: a null entity dereferenced, an iterator used after its element was erased.
The loop of `on_join()` over the entities is one step. `connections` is an
`unordered_set`; its order is arbitrary and may change with each `insert()`.
`generateUUID()` is assumed to find a free uuid (`UUIDsAssumption`), which may be one
that another connection had before: it starts from the same seed all through a second.
A packet sent on an open connection is taken to arrive: `TCPConnection` is where that
is examined.

The environment may do all that it can do to the code. Both threads may be inside the
server at once (no lock forbids it), a handshake may fail (`Accept` without `open`; the
join goes on), a packet may be handled after its owner has closed or quit (`Packet`), and
connections are lost at any point of any iteration, up to `MaxStale` at a time. The
history variable `spoiled` records what takes the ground from under most properties:
"overlap", both threads were in calls at once, and "mistaken", a late packet was handled
in the name of the newcomer who has its owner's uuid now. `NoOrphanEntity`, `CallsReturn`
and the two violated properties hold or fail without regard to it; the others speak of
the time until then.

### Client

The input of one player, from the keys to the acceleration and back: `Tick` is
`Client::on_tick()` (with `InputMask`, `Changed` and `SequencedInput` for its parts),
`OnPacket` the handler on the server with its answer, `Listen` one call of
`game_listener()`, `ListenEnds` the end of the loop of `TCPClient::on_update()`, which
runs after each tick and takes at most `Limit` (5) packets. `inputs` and `motions` are
what is under way; how packets travel is the business of the modules above, here they
arrive in order. `InputMove` is `EntityPlayer::input_move()`. Positions and velocities are
left out: a transform is its acceleration, the part that an input sets.
`SequencedInput` shows what `{ input_mask, input_sequence_number++ }` initialises: the
first two of three fields. `input_sequence_number` starts with any value, because
`Client()` leaves it uninitialized, and wraps at `SeqMod` (2^16).

### ConnectionLifetime

`TCPConnection` composed with who holds it. Reads, writes and a thread inside `psend()`
hold a `shared_ptr` (`Referenced`); so do `connections`, the packets in `in_packets` and
`do_accept()`, together `held`, until the server has found it closed (`Drop`). The
handlers of the two timers hold nothing, they are bound to a raw `this`: `Destroy` may
happen while one is queued, and cancels those that wait. A handler that runs after the
destructor uses freed memory (`TimerRunsFreed`): that is undefined behaviour, so
`object` is "undefined" then, the model ends there, and no property holds after it.
A client never lets go of its connection; this module is the server's side.

### Heartbeat

One connection in seconds: `OnPong`, `CheckPing`, `CheckPong` are the handlers, `Tick`
the clock, `PongArrives` the answer of the peer, which takes `MaxRTT` at most. A timer is
the time left until it expires, `last_ping` the time since. Handlers take no time, but
none runs while `do_accept()` keeps the io thread busy (`Accept`, up to `Lag`: the
blocking handshake of a newcomer, `generateUUID()` spinning). `Tick` does not let time
pass the io thread when it is free and has something to run. The pong timer's actor is
`queued` when `check_ping()` has cancelled its wait, as in `TCPConnection`.

`CycleFits` is what the code needs and nowhere says: `MaxRTT + Lag + PingAfter + Lag <
PongTimeout`. The deadline is moved when a PING leaves and not when its PONG comes, so
the 10 s must hold the round trip, the pause of 5 s and the io thread being late twice.
Without it TLC finds a live peer dropped.

### Channel and Stream

`Channel` is what one direction of a connection promises: packets appear in the order
they were sent, once and whole, and do appear while the connection is up. `Stream` is how
the code does it: `psend`, `write_header`, `write_body` put bytes on the wire,
`read_header`, `read_body` take them off with the lengths of `Packet::sizes`. A byte is
named by the packet it belongs to and its place in it. A packet may be torn: the one
`psend_all()` has moved from has a header and no body, and everything after it is read
shifted. `S` returns what `Packet::S()` may return: it compares the type with the 72
bytes of the table, so types 9 to 71 get whatever lies behind it (0 to `MaxLength`).

`Promise == INSTANCE Channel WITH ...` maps the packets before the first torn one, and as
many of those received, to the channel; `ImplementsChannel` is its specification,
liveness included. It is the strongest promise the code can keep: after a torn packet
nothing holds, not even that received packets were sent.

### Lifecycle

The processes: main thread, io thread and update thread of a server, main and io thread of
each client, and peers that connect and say nothing. `Accept`, `HandshakeDone`,
`HandshakeFails` are the server's io thread in `do_accept()`; `Stop`, `JoinIo`,
`JoinUpdate` the lines of `TCPServer::stop()`; `Connect`, `Start`, `ClientHandshake`,
`ClientStop`, `ClientJoin` those of `TCPClient`. A handshake ends only together with the
other side's, and blocks both io threads until then; `io_context::stop()` lets the handler
that runs finish. A peer that goes away while it is in the backlog is accepted all the
same ("left"): its handshake fails, or `remote_endpoint()` throws, which is caught. The
update thread tests `empty()` (`UpdateWaits`) and falls asleep (`UpdateSleeps`) in two
steps, so a `Push` in between wakes nobody, as in `AsyncQueue`; it may wake up for no
reason (`UpdateWakes`). A failed handshake on the server ends the process: `on_join()`
goes on and dereferences a null entity, as `Server` shows. Processes may be killed at any
time. Nothing in the source calls `TCPServer::stop()` while `start()` runs (`main.cpp` has
the call commented out); the module lets `on_tick()` call it, as that of the client does.

### Motion

`IEntity::on_physics()` on one axis, the copy of the player on the client and that on the
server, each with ticks of its own, and the packets between them. The client moves in one
step (`ClientTick`: keys, input sent, physics). On the server `on_tick()` on the main
thread is three steps, `Accelerate`, `LimitSpeed`, `ApplyFriction`, because `on_packet()`
on the update thread (`OnPacket`) sets the acceleration and reads the velocity in
between with no lock. A velocity is counted in 1/`Hz` of the source's unit and a tick in
1/`Hz` of a second, so all of it is exact on integers; the rounding of `float` is left
out, and so are positions, which add up velocities and decide nothing.

`TicksAssumption`: no tick is longer than a second. The code does not see to it (a main
thread that is stopped for longer ticks for longer). With longer ticks `FrictionBrakes`
fails: an entity at rest gets `-fric * delta`, which is then beyond the `fric` that
counts as none, and moves.

### Proof modules

`AsyncQueueProofs`, `TCPConnectionProofs`, `HeartbeatProofs`, `ServerProofs`,
`StreamProofs`, `ClientProofs` and `MotionProofs` extend the modules above. Each module
`MC...` is an instance for TLC.

## Runs

| run | shows |
|---|---|
| `queue` | `WakeupOwed`, `PopNeverEmpty`, `LockOrder`, `PushWakesSleeper`: two producers, one notifier, the consumer |
| `connection` | a client's connection, whose main thread sends whatever the state of the connection: `SingleWriter`, `NoStall`, `WriteHasBuffer`, `HandshakeStartsWriter`, `PingsAnswered`, each but for what `spoiled` records; `ReadLoopIntact`, `OnePongActor`, `NoWorkAfterClose` |
| `lifetime` | a server's connection with its holders, and the update thread sending: `StallsOnlyByRace`: one order of locks only leaves a packet stuck; `SilentPeerDropped`; `Reclaimed`: it is destroyed once the server has let go |
| `heartbeat` | `LivePeerKept`, `SilentPeerCut`, `LatencyMeasured`, in seconds |
| `stream` | `ImplementsChannel` (refinement), `OnlyTornMakeTypes` |
| `server` | both threads inside the server, two connections lost at a time, failed handshakes, late packets, uuids returned twice. `NoOrphanEntity`, `CallsReturn` whatever happens; `RosterMatches`, `NullEntityTwoWays`, `ClientsMissNobody`, `OnlyNewcomersMissQuits`, `JoinSweeps`, `ClosedOwnerRemoved`, `IteratorsLostOnlyByTwo` until `spoiled` |
| `server_torn` | violated: `WholePackets` |
| `server_null` | violated: `JoinsAreConnected` |
| `lifecycle` | `StopEndsIoThread`, `StopReturns`, `ClientStopReturns`, `ClientServed`: each with the one thing that can prevent it |
| `client` | `KeysObeyed`: one player, its server and the answers |
| `client_pending` | violated: `UnprocessedPending` |
| `motion` | `SpeedBounded`, `FrictionBrakes`, `ComesToRest`: both copies of a player |

The violated properties are what a comment of the code says; `PROJECT.json` quotes each:

* `psend_all()` moves the packet into the first `psend()`. The second recipient gets
  the header only, and takes the next packet's bytes for the body.
* `do_accept()` goes on to `on_join()` after a handshake that failed, and `on_quit()` then
  dereferences the entity of a newcomer that has none yet.
* The field `input_sequence_number` of a pending input is always 0, so the first answer
  erases all of them, those the server has not seen too; nothing is ever reconciled.

### Weaknesses that show in what holds

Several properties hold only with an exception written into them. These are the places
where the code falls short:

* `WakeupOwed`: the consumer sleeps on a non-empty queue only if `missed` is set.
  `wait()` tests `empty()` before it takes `muxBlocking`; a `push_back()` in between
  signals nobody, and the update thread sleeps until the next packet of any client.
* `StallsOnlyByRace`, and "overtaken" in `SingleWriter`, `NoStall`, `WriteHasBuffer`:
  `psend()` decides under one lock whether it has to start a write and pushes under
  another. If the io thread finishes the last write in between, nobody starts the next
  one, and neither this nor any later packet of the connection is sent. If both threads
  find the queue empty, both start a write, which asio forbids, and each of the two pops.
* "early" in `NoStall`, `HandshakeStartsWriter`, `PingsAnswered`: `TCPClient::send()` does
  not test `is_open()`. A packet sent before the handshake stays in front of the queue,
  nobody writes it, the PING of `ssl_handshake()` finds the queue not empty, and nothing
  is ever written on that connection.
* `NoWorkAfterClose` excepts a sender between its test of `open` and its `async_write()`:
  if the io thread runs `close()` there, the write begins on a closed socket.
* `Reclaimed` ends in "freed", and what a timer handler does after that is undefined:
  `check_ping()` and `check_pong()` are bound to a raw `this`.
* `SilentPeerDropped` excepts `Stranded`: after a header that `Packet::S()` refuses nobody
  reads, so nobody notices that `check_pong()` has closed the socket.
* `IteratorsLostOnlyByTwo`: a `psend_all()` that finds a closed connection runs another
  one inside `on_quit()`; if that finds a second one, and it is the one the outer
  iterator points to, the outer loop goes on with an invalid iterator and the program
  with undefined behaviour. Two players have to be lost at about the same time.
* `NullEntityTwoWays`: the entity is looked up with `operator[]` and dereferenced unseen,
  and two orders of events lead there: a packet still in `in_packets` when its owner has
  quit, and a join whose handshake failed (`server_null`) or whose connection closed
  before the first packet.
* "mistaken" in `spoiled`: a player who joins in the second in which another one joined
  and quit gets that one's uuid; a packet of the other then moves the newcomer, and makes
  the server remove the newcomer's entity when it finds the owner closed.
* `OnlyNewcomersMissQuits`: a newcomer is told of every entity, then the others are told
  of the newcomer, and that is when a stale connection is found and its entity deleted;
  the newcomer is not in `connections` yet, misses the deletion and keeps a ghost.
* `StopEndsIoThread`, `ClientServed`: a silent peer in the blocking handshake holds up
  the io thread for ever, and with it every connection and `stop()`. `StopReturns`: an
  update thread in `wait()` may never be woken, even with packets there, since nobody
  calls `notify()`.
  `ClientStopReturns`: a client in a handshake that no server takes up does not get out.
* `LivePeerKept` needs `CycleFits`, `FrictionBrakes` needs `TicksAssumption` (above).

### Bounds

* `queue`: two producers with a few pushes in total and `Limit` below that, so that
  the limit, the window and both producers queueing for a mutex occur. The proofs
  remove all of these bounds.
* `connection`, `lifetime`: the peer sends up to two headers of any type that decides
  something, the other thread two packets (one in `lifetime`). With the PING of the
  handshake, PONGs and PINGs that makes queues of up to four packets; a second PONG while
  the first one's wait is still there, a timer cancelled twice, and a second push that
  meets the damage of the first occur. The proofs of all safety properties remove these
  bounds. Every peer falls silent after `MaxRead` headers, which is what
  `SilentPeerDropped` needs.
* `heartbeat`: the 5 and 10 of the code, a round trip of 2 s, a lag of 1 s. No other
  bound: the connection may go on for ever, since every clock is bounded as long as
  the socket is open. The proofs take any numbers.
* `stream`: two types of one and two bytes, four packets each whole or torn: two torn
  ones suffice to make up a header from a body or from two headers. With two types and a
  word of two bytes, types 2 and 3 are those behind the table and 4 is refused.
* `server`: three connections, all open at once, so that a broadcast has a recipient,
  an excepted or closed connection and another one, and one `on_quit()` can find a second
  connection closed; three uuids, so that one is free again as soon as a player has quit;
  two input packets, so that one meets its owner's quit and another what that left. The
  proofs remove all of these bounds.
* `lifecycle`: two clients, so that one may wait for the other, and a silent peer. How
  many packets are queued matters only up to whether there is one.
* `client`: four sets of keys (none, one, two that add up, two that exclude each other),
  five ticks, `Limit` = 2 and numbers modulo 3: the number wraps, several inputs and
  several answers are under way at once, and the listener may be cut off by its limit
  with answers left. The proof removes all of these bounds.
* `motion`: the numbers of the source divided by 50, which divides 150, 50 and 700;
  `Hz` = 4, ticks of a quarter of a second and of a whole one, one packet under way in
  each direction. The velocities are finite because of the limit. The proofs of the two
  safety properties take any numbers and any number of packets.

`CHECK_DEADLOCK FALSE` stands where the system may really stop: a connection that has
ended, a server that waits for clients, a consumer asleep on a queue, a stream with
nothing to send, processes that have ended, a player after `MaxTicks`. `heartbeat` and
`motion` are checked for deadlock: a heartbeat whose handlers could not run before time
has to go on would show as one.

### Fairness

* queue: the consumer, and a producer inside `push_back()`, take their next step when
  they can (the operating system runs threads that are not blocked). Nobody has to
  push or to notify, and a spurious wakeup is never owed.
* connection (`Prompt`): the io thread runs queued handlers; a thread inside `psend()`
  goes on; the system completes a write one way or the other; operations on a closed
  socket fail. Nothing is assumed of the peer: reads need not complete. Deadlines need
  not pass, so that `PingsAnswered` does not hold merely because timers end the
  connection.
* lifetime: the same, deadlines do pass, and a destructor runs where the last reference
  goes. The server need never let go.
* stream: both io threads run their handlers, and bytes arrive. Nobody has to send, and
  the connection may break at any time.
* server: a thread inside a call goes on. Nobody has to join, leave or play.
* lifecycle: a thread that can take a step does (to wake up for no reason is not owed),
  and each connection in the backlog is accepted in the end (the acceptor takes them in
  order). Nobody has to connect, send, stop or go away; a silent peer owes nothing.
* motion: both sides tick, with the keys as they are, and packets arrive. Nobody has to
  press or to let go of a key.
* heartbeat and client: safety only; what time may not pass is a guard of `Tick`.

## Proofs

No theorem bounds the number of threads, packets, headers or steps.

`AsyncQueueProofs`. `IInv` = `TypeOK` /\ `LockInv` /\ `SleepInv` /\ `PopNeverEmpty`.
`LockInv` ties each thread's place to the mutexes it owns; `WakeupOwed` alone is not
inductive, because it only speaks of a consumer already asleep, so `SleepInv` says the
same from the moment the `empty()` test has found nothing. Proved: `TypeCorrect`,
`OnlyWindowLosesWakeup`, `PopSafe`, `LocksOrdered`.

`TCPConnectionProofs`, for any set of `Senders`, whether they test `is_open()` or not. A
first invariant, `IInv`, is about reads, timers and where the io thread is; it gives
`TypeCorrect`, `ReadLoopNeverBreaks` and `PongActorNeverLost`. A second one, `WInv`, adds
`WriterInv`, which says of the writer what the properties leave out, namely who is about
to write and what each thread has found in the queue:

* `BeforeHandshake`: nothing is written then, and no thread gets past the test of `open`;
* `OneWriter`: until a push is overtaken, outstanding writes (`Total`), threads inside
  `write_header()` and the io thread having popped are one at most, and the queue is not
  empty meanwhile;
* `NoneLeft`: unless something has spoiled it, a queue with packets has its writer;
* `FirstWritten`: up to the end of `ssl_handshake()` nothing is popped, so whoever put the
  first packet there writes it, unless too early;
* `OnlyIOPops`: what the io thread has found not to be empty is still not empty when it
  pushes, since it alone pops.

Each has a step lemma, by action; `Bystanders` says what the step of one thread leaves
true of another. Proved: `TwoWritersOnlyByRace`, `StuckOnlyByTwo`, `BufferStays`,
`HandshakeWrites`, and, as action properties, `ClosedBeginsNothing` and
`StallsByRaceOnly`. Only the last one has a hypothesis, `ChecksOpen`, which the server's
code keeps and the client's does not: there a packet sent early is the other way to a
stall.

`HeartbeatProofs`. `Inv` = `TypeOK` /\ `Cycle` /\ `LivePeerKept` /\ `LatencyMeasured`.
`Cycle` says phase by phase (PONG owed, PONG arrived, waiting for `check_ping()`) how much
of the time before the deadline is used up, and how long what is ready has waited;
`DeadlineAhead` is where `CycleFits` is used. Proved, for all times: `LivePeersKept`,
`SilentPeersCut`, `LatencyIsMeasured`.

`ServerProofs`. `NoOrphanEntity` for any number of connections, with everything allowed to
go wrong. It is not inductive: which call is about the connection is not enough, it must be
one that will still add the connection to the set or erase its entity. `Settled` collects
those of a stack; `Inv` says that every entity is that of a connection in the set or
settled by some call. Lemmas say what `Return`, `Become` and `CallFrom` do to a
stack (`AfterReturn`, `AfterBecome`, `AfterCall`) and what `erase()` leaves
(`EraseKeeps`); then each action is a case of its own. Proved: `NoOrphans`.

The other theorems of `ServerProofs` assume nothing either; what they state holds until
`spoiled`. `OrderedAlways` carries `Ordered`, that is `spoiled = {} => Shape /\ Notices`,
with any number of clients, joining in any order, handshakes failing, packets coming late,
connections closed at any point of any iteration, and `psend_all()` inside `on_quit()`
inside `psend_all()` to any depth. The two parts are needed because none of the properties
says anything of the middle of a call:

* `Shape`: what a stack of calls looks like. Who called whom, that the connections of the
  `on_quit()`s in it are distinct and closed, and that an entity lacks a connection, or a
  connection an entity, only on behalf of a call that is about to see to it. It gives
  `RosterKept`, `OwnersRemoved` and `NullTwoWays`.
* `Notices`: for each open client and each entity it does not know of, or should no longer
  know of, the call that will yet tell it, with its iterator not yet past the client.
  It gives `ClientsTold`, `QuitsTold` and, with `Shape`, `JoinsSweep`.

`IteratorsLost` is an action property on `Shape`: the erased connection is closed; if the
iterator of a call further out points to it, that call is inside the `on_quit()` of
another one, which is `Stale` as well.

`StreamProofs`. What is on the wire is a matter of positions, so the invariant speaks of
the offset of each packet in the sequence of all bytes (`off`, one natural number for each
packet and one for the end; it is said to exist, since a sum over packets would be
recursive). `Carries` says that the wire is the piece of that sequence between what was
read (`Consumed`) and what was written (`Written`). `Aligned` says that the receiver waits
for the packet whose number it has reached, at that packet's offset, and knows its type
and length if it has read its header; it holds as long as the receiver is `InStep`, that
is, has not come to a torn packet. Sending moves no offset (`OffsetsMore`), a write makes
the piece longer (`WireGrows`), a read shorter (`WireShrinks`), and the first torn packet
stays where it is (`IntactGrows`). Proved, for any types and sizes: `OnlyTorn`, and
`SafeChannel`, which is `ImplementsChannel` without its fairness: `psend()` is `Send` or,
behind a torn packet, a stutter; `read_body()` is `Receive` or a stutter; `close()` is
`Break`; everything else is a stutter. `SizesAssumption` asks for at least one type of
packet, because `temp` starts as one.

`ClientProofs`. `IInv` = `MovesOK` /\ `KeysObeyed`. `KeysObeyed` is inductive because it
speaks of the last packet under way and not only of the end: `AppendLast` and `TailLast`
say what sending and taking a packet do to the last one. Proved: `Inductive`, `KeysWin`.
`pending_inputs` plays no part in it.

`MotionProofs`. `Inv` bounds the velocity of each copy according to the phase its tick is
in, and that of the packets by their type. The lemmas say what each step of
`on_physics()` does to a velocity; `FrictionSlows` needs `TicksAssumption`. The three
steps of the server are interrupted by `OnPacket`, which the invariant allows. Proved:
`SpeedIsBounded`, `FrictionAlwaysBrakes`.

Assumptions are those on constants, named in the modules (`ThreadsAssumption`,
`BoundsAssumption`, `ChecksAssumption`, `PeerAssumption`, `TimesAssumption`, `CycleFits`,
`EndAssumption`, `UUIDsAssumption`, `PeersAssumption`, `SizesAssumption`, `KeysAssumption`,
`NumbersAssumption`, `ForcesAssumption`, `TicksAssumption`); TLC evaluates them.
`ChecksOpen` is the hypothesis of `StallsByRaceOnly`, which is proved of `TCPConnection`;
the run of its property has the holders of the connection as well.

Every invariant and every action property of the passing runs is stated by a theorem.
Only model-checked: the liveness properties, which the proof system does not reach
(`PushWakesSleeper`, `PingsAnswered`, `SilentPeerDropped`, `Reclaimed`, `CallsReturn`,
`ComesToRest`, those of `Lifecycle`, and the fairness in `ImplementsChannel`).

## Not modelled, and plan

What would come next:

1. What the server keeps after the threads have overlapped, where `NoOrphans` is all there
   is: which of the entries of its roster a second thread inside it can spoil, and which
   not.
2. `Client` over two `Channel`s in place of its two queues, so that a broken connection
   and a torn packet reach the player; the abstract specification of `pending_inputs`.
3. A `Replication` specification with one roster and clients that learn of it, which
   `Server` implements in the absence of the faults above.

Not modelled, because there is nothing to state: the race of `on_tick()` with inserts into
`uuid_entity_map` and of two threads inside `connections` at the level of the containers
is undefined behaviour under every overlap (its effect on iterators is in `Server`); the
growth of `pending_inputs` while the keys do not change, which no number in the code
bounds; what `rand()` returns.

Most of the repository's lines are outside the game's own code: about 16,700 of 21,100
are the vendored rapidjson, used only by the constructor of `Engine`'s `Sprite`, and about
1,100 are the experiments of `TestServer`. The share of the repository that the models
stand for stays small for that reason; of the networking code (`tcp_connection.cpp`,
`tcp_server.cpp`, `TCPClient.cpp`, `Packet`, `AsyncQueue`) and of `Server.cpp` and the
input and listener of `Client.cpp` nearly every function that changes state is an action.

`PlayerList` is compiled and never instantiated, with `get_online_player()` returning
`nullptr` and `add_player()` using uuid 0: it has no state to model. The queue of sprites of
`Engine` is never filled.

Left out for good: drawing and SDL input, `Logger`, GUI classes and `AsyncMap` (not
built), `TestServer` (experiments), rapidjson (vendored), the certificates and TLS
itself (the handshake succeeds or fails).
