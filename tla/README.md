# OnionSocket: a verification project in TLA+

This directory holds TLA+ models of OnionSocket, the TLC configurations that
check them on small instances, and proofs that the TLA+ proof system (TLAPS)
checks for every instance. Paths in this file are relative to the root of the
repository; `src/` inside it is the Python package.

OnionSocket sends traffic of a client through a chain of relays to an exit, in
onion-encrypted layers. Nodes find each other through a directory. Over the
chain run either short chat messages or a *shared tunnel* that multiplexes the
connections of a local HTTP proxy.

    browser -- local proxy -- SharedTunnel == relay == relay == exit (relay_mux) -- site
                                  |             |        |        |
                                  +-- listing --+ directory ------+-- registrations

Contents: 1 inventory, 2 plan, 3 the modules and the code, 4 the runs, 5
bounds, 6 fairness, 7 proofs, 8 findings, 9 abstractions, 10 what is not
modelled.

## 1. Inventory

For each part: the state it keeps, what changes that state, whom it talks to,
what is hard about it, and what would make it correct.

**Exit multiplexer** (`src/proxy/exit_stream.py`, `relay_mux`; called from the
accept loops of `exit.py` and `src/server/exit_server.py`). State: `streams`
(stream id to connection) under `streams_lock`, `pending` (payloads parked for
a stream that has no connection), the event `stop`, and the main loop's local
variables `cmd`, `stream_id`, `host`, `port`, `payload`. Threads: the main
loop, one opener per OPEN frame, one reader per connection. Hard: the opener
is a closure over the main loop's variables and reads them when it runs; the
lock covers the lookup and not the use; parked data is flushed after the lock
is released; three kinds of thread write to the same circuit; an exception of
the main loop skips the cleanup and ends the accept loop; the exit serves one
connection at a time. Correct: bytes of a stream go to its destination only,
in order and without a gap; answers come from it; streams do not disturb each
other; when the tunnel ends so does every thread it started; the next tunnel
is served.

**Shared tunnel client** (`src/proxy/tunnel_mux.py`, `StreamCircuit` and
`Scattered.open_stream` in `src/client/scattered.py`). State: the circuit
(replaced by the runner thread), `_streams` and `_ready_events` under a lock,
`_next_id`, `StreamCircuit.active` and its queue. Threads: one handler per
browser connection with two relay threads, the runner, one receiving thread
per circuit. Hard: the circuit may be replaced between two operations of a
stream; READY races with its timeout; an exception of `open_tunnel` ends the
runner for good; several error paths leave entries behind or send no CLOSE.
Correct: ids are never reused, "established" is only said when it is so,
nothing is delivered to another stream.

**Mux frames** (`src/core/tunnel_mux.py`). OPEN, DATA, CLOSE and READY with a
stream id. Correct: parsing inverts packing.

**Local proxy** (`src/proxy/local_proxy.py`). One thread per browser
connection; parses CONNECT or a plain request, opens a stream, relays, closes.
Hard: the browser may leave at any moment; an idle timeout of 120 s ends one
of the two relay threads.

**Relay forwarding** (`src/node/relay.py`). Per connection: reads the kind of
the connection, peels one layer, connects to the next hop, then two forwarding
threads. Hard: a receive timeout in the middle of a frame discards what has
been read; an exception ends one thread and closes neither socket; nothing is
unregistered from the statistics after forwarding has begun. Correct: frames
arrive once and in order, the end of one side reaches the other.

**Framing** (`src/core/tcp_enhancer.py`). Length-prefixed messages over a
stream.

**Directory and registration loops** (`src/server/directory.py`,
`src/core/registry_client.py`, called from `RelayNode` and `ExitServer`).
State: `entries` under a lock, with the time each was last seen; each service
has a loop that registers and sleeps 5 s, or 3 s after a failure. One thread
per connection at the directory. Hard: entries live in memory only;
registrations may be handled out of order, also after their process has ended;
an exit's registration removes other exits of its host; entries expire by time
and are pruned only when somebody asks. Correct: a running service is listed
with its current key again after any restart; a service that ended is
forgotten; never two exits of one host.

**Discovery and chain choice** (`src/core/discovery.py`,
`Scattered.prepare_network`). Fetches the listing, keeps the first node per
port, probes, fetches keys, picks a preferred exit, chooses a chain; the
result is cached for the life of the client. Hard: the cache outlives the
keys; a probe's answer is not compared with the role expected; an exit that
serves a connection answers no probe in time; a service without a route
registers as 127.0.0.1. Correct: the chain has distinct live relays, ends at an
exit, and is found again after a failure.

**Onion layers** (`src/core/onion.py`). `build_onion` wraps, `peel_layer`
unwraps. Correct: each hop learns its successor only and the exit gets the
payload.

**Envelopes and padding** (`src/core/e2e.py`, `src/core/secure_transport.py`).
A 512-byte block, packed replies. Hard: a body that does not fit raises after
the outbox was drained.

**Exit chat sessions** (`ExitServer.receive`, `send`, `queue`, sessions and
outboxes in `src/server/exit_server.py`; `src/server/__init__.py`). Hard:
`drain_outbox` copies and clears in two steps; without secure mode only the
first reply is sent; a session object may be used after it has been dropped.

**Chat client** (`src/client/scattered.py`, `src/client/__init__.py`). Secure
mode opens a circuit per message; the other mode keeps one with a receiving
thread.

**Single-stream relay** (`relay_stream` in `src/proxy/exit_stream.py`). Two
threads and a stop event; one of them has a receive without a timeout, so that
the join may hang until the client sends or ends. Hard: the circuit is closed
right after the join, and with client frames unread that resets it. Correct: no
byte skipped or repeated, a finished answer whole, the exit freed.

**Statistics** (`src/node/stats.py`) and **dashboard**
(`src/node/dashboard.py`). Counters and a connection table under a lock; a
screen.

**Cryptographic primitives** (`src/core/asymmetric`, `src/core/symmetric`) and
**command lines** (`client.py`, `exit.py`, `node.py`, `registry.py`,
`server.py`, `start_network.sh`).

The hazards found while reading, each at its line, are in `PROJECT.json` under
`hazards`, with the properties that cover them.

## 2. Plan

Most important first. All blocks exist.

1. *Shared tunnel*: `TunnelWire`, `SharedTunnel`, `ExitMux`, composed by
   `OnionTunnel`, which implements the abstract `StreamService`.
   `CircuitWriters` looks into what `OnionTunnel` takes as one step: several
   threads that write frames to one socket.
2. *Directory*: `Directory`.
3. *Relays*: `Onion` (the layers as pure operators) and `RelayChain`, which
   looks into what `TunnelWire` takes as one ordered circuit.
4. *Messages*: `Envelope` (padding and packing as pure operators), `Exchange`
   (a client, the exit's accept loop, the destination) and `Sessions` (the
   exit as a chat server).
5. *Single stream*: `RelayStream`.
6. *Discovery*: `Discovery`, with the directory and the services as its
   environment.
7. *Statistics*: `RelayStats`.

The theorems worth proving, the tunnel and the directory first, then the
routes and the messages, then the modules with little state, are those of
section 7. Every safety invariant and action property that a run checks has
one.

## 3. The modules and the code

| module | code | what it is |
|---|---|---|
| `TunnelWire` | `src/core/tunnel_mux.py`, the circuit | frames, one ordered channel per direction and circuit, `Cut` |
| `SharedTunnel` | `src/proxy/tunnel_mux.py`, `StreamCircuit`, `_handle_connection` | the client's end |
| `ExitMux` | `relay_mux`, accept loops | the exit's end |
| `OnionTunnel` | - | both ends together, fairness, properties, refinement mapping |
| `StreamService` | - | abstract: a best-effort stream service |
| `CircuitWriters` | `send_mux`, `SharedTunnel._send`, `coms` | threads that write frames to one socket |
| `Directory` | `src/server/directory.py`, `src/core/registry_client.py` | directory, services and their loops, time |
| `Onion` | `src/core/onion.py` | building and peeling layers |
| `RelayChain` | `src/node/relay.py`, `src/core/tcp_enhancer.py` | one circuit, frame by frame, through its relays |
| `Envelope` | `src/core/e2e.py`, `src/core/secure_transport.py` | envelopes, padding, packed replies |
| `Exchange` | `Scattered.send`, `serve_connection`, `exit.py` | a message, its reply, the accept loop |
| `Sessions` | `src/server/exit_server.py`, `src/server/__init__.py` | sessions, outboxes, queued replies |
| `RelayStream` | `relay_stream` | two threads and an event around one destination |
| `Discovery` | `src/core/discovery.py`, `load_network`, `prepare_network` | finding relays and exit, choosing a chain |
| `RelayStats` | `src/node/stats.py` and its callers in `src/node/relay.py` | connection table and counters |
| `OnionTunnelProofs` | - | the six safety properties of `OnionTunnel`, and that it implements `StreamService` |
| `DirectoryProofs` | - | the properties of `Directory` |
| `DiscoveryProofs` | - | `ChainOfDistinct`, `KeysFit`, `OnlyLive` |
| `RelayChainProofs` | - | `Route` and `FramesInOrder` |
| `ExchangeProofs` | - | `RepliesMatch`, `DestinationOnce`, `CloseNotifies` |
| `SessionsProofs` | - | `RightReplies`, `QueuedKept`, `StableUntilClose` |
| `RelayProofs` | - | the safety properties of `RelayStream`, `RelayStats` and `CircuitWriters` |
| `Inductions` | - | induction over a set of naturals; lemmas about flattened sequences, prefixes and sums |
| `MC...` | - | values of constants, bounds and symmetry for TLC |

`TunnelWire`, `SharedTunnel` and `ExitMux` are composed by `OnionTunnel`;
`RelayChain` extends `Onion`, and `Exchange` extends `Envelope`. The other
modules stand alone and name in their first comment what they leave to which.

**`ExitMux`.** `serving` is the connection the accept loop is busy with.
`loop[c]` is the program counter of `relay_mux`: `RecvOpen`, `RecvData` and
`RecvClose` are one turn of the `while` with the lookup under `streams_lock`;
what follows the lock is a step of its own (`WriteRemote`, `WriteFails`,
`Park`), since a thread may run in between. `cur[c]` is the pair of loop
variables the closure `_open` shares. `RecvOpen` creates opener `i`; `Bind` is
the moment that thread evaluates `stream_id`, `host` and `port`; then
`ConnectOk` (connect, register, take the parked payloads: one locked block),
`Flush` once per parked payload, `SendReady`. `ConnectFails`, `FlushFails` and
`ReadyFails` are its error paths; the first two close `cur[c].sid` as the code
does, the last one the opener's own argument. `BindDies` is `int(None)` after
a DATA or CLOSE frame. `RemoteData`, `RemoteEnds` and `ReaderStops` are
`remote_reader`. `TunnelEOF` is the end of the circuit as the loop reads it:
`stop` is set and the registered ids are listed (`ids`). `CleanupNext` and
`CleanupClose` are the two lines of the cleanup loop, the first of which
assigns the `stream_id` of `cur`, `Return` is its end. `TunnelReset` is the
`OSError` nobody catches; with `--plain` (constant `Plain`) it ends the
process.

**`SharedTunnel`.** A handler goes `sendopen`, `wait`, `relay`, `ended` or
`failed`: `Register` and `SendOpen` are `open_stream` up to the wait,
`BecomeReady` and `OpenTimeout` the wait; `BrowserSend`, `BrowserRecv` and
`EndStream` are `relay_over_tunnel` and `close_stream`. `OpenTunnel`,
`Dispatch`, `RunnerReopens` and `OpenTunnelRaises` are `_run`, `CircuitLost`
the receiving thread of the circuit. A send may be written, may be lost
(circuit cut, or `StreamCircuit.send` finding `active` false) or may raise.

**`Directory`.** `HandleRegister` is a handler thread: `register` with the
eviction of other exits of the host. `ListActive` prunes and lists.
`RegisterService` and `RegistryUnreachable` are one turn of a registration
loop with its sleep. Services and directory stop and start at any time,
services with a new key. `Tick` is time.

**`CircuitWriters`.** `Start` is a call of `coms.send`; `Write` is what the
kernel takes of it while the other side has room (`Room`). `locked` is chosen
at the start: the client holds `SharedTunnel._lock`, the exit's `send_mux` has
no lock. `Read` is `coms.recv`: `need` is the length it has read, from the first
piece of what it takes for a frame. If frames were mixed that may be any piece,
which reads as one of `Lengths`, so the reader may take too little or wait for
what nobody sends.

**`RelayChain`.** A *link* is a connection with two pipes, named after who
dialled it; a frame is a head and a body on a pipe, as `coms` writes it, and a
link's end is a `fin` or an `rst`. `handler[r]` is where
`RelayNode.handle_connection` stands: `HandleFirst` and `HandleLayer` read the
two first frames, `Connect`, `ConnectFails`, `HelloPieces`, `HelloFails` and
`StartForwarding` are `connect_from_layer`. `thread[r][d]` is `next_node` or
`back_node`: `CopyRecv` and `CopySend` are one turn, `RecvTimesOut` and
`SendTimesOut` the `except socket.timeout` in the middle of a frame (the
thread is `astray` from then on and reads `Junk`, `CopyAstray`), `CopyEnds`
the end that closes both sockets, `RecvRaises` and `SendRaises` the exception
that ends the thread and closes none (`Dies`). `Release` is the kernel, which
gives a closed socket up only when no thread is inside a call on it. `Restart`
stops a relay and starts it with a new key.

**`Exchange`.** `at[c]` is where `Scattered.send` or `close` of client `c` is;
a secure client opens a connection for each message (`NewCircuit`), an
insecure one keeps its first. `loop` is the accept loop with
`serve_connection`: `AnswerProbe`, `ReadForeign`, `ReadStream` (the message is
empty or has the length of a pair of stream keys), `ReadClose`
(`CLIENT_CLOSE`), `ReadOther`; `Forward` is `forward_to_destination`,
`SendReply` is `ExitServer.send`. What `ReadStream` starts is `relay_stream`,
here with one step per frame: `StreamFrame` opens the next frame of the client
with the exit's own key and writes it to the destination, envelope and all;
`StreamFrameFails`, `StreamFrameRaises` and `StreamClientEnds` are the other
ways of `client_to_remote`, the second the exception of `open_stream_data` that
leaves the event unset; `DestinationSpeaks` and `DestinationEnds` are
`remote_to_client`, `StreamEnds` the two joins. `Reset` is the kernel, which
answers what nobody read of a closed connection. Messages are sequences of
words, and padding and packing are computed. `mode` is how client and exit were
started.

**`Sessions`.** `serving` is the `ClientConnection`, `sessions` the table by
client key, `outbox[s]` the list of a session that may have been dropped.
`GetOrCreateSession`, `ReceiveMessage`, `ReceiveClose`, `ReceiveProbe`,
`ReceiveForeign` and `ReceiveEnd` are `receive`; `DrainCopies` and
`DrainClears` are the two statements of `drain_outbox`; `Send` and
`SendTooLong` are what follows. `Pick` and `QueueReply` are `get_session` and
`queue`, by the serving thread between two of its calls or by another one at
any time (`mode.ownThread`).

**`RelayStream`.** `t1` is `client_to_remote`, `t2` `remote_to_client`: each
looks at the event at the top of its loop, then blocks in a receive, then
writes. `t1` writes two pieces that a timeout can separate (`T1WriteFails`);
the timeout exists once `t2` has set it on the socket both use (`T2Start`).
`Joined` is the end of `relay_stream`; `CircuitReset` is what becomes of the
circuit that the accept loop closes then, if the client's frames on it were not
all read: the client loses what it has not read yet.

**`Discovery`.** `List`, `Scan` and `ScanPort` are `discover_network`;
`ProbeRelay`, `ProbeExit` and `Enrich` are the probes and key requests, one
step each, since services come and go between them; `LoadNetwork` and `Cached`
are `load_network` and `prepare_network`; `NewCircuit` is the choice of a
chain. `NodesFromRegistry`, `ExitFromRegistry`, `ChainCount`, `RandomChains`
and `FixedChain` are pure operators, and so is `ByPort`, the sorting of a
listing by port and host (`Before`). `Replace`, `Register` and `Expire` are
the environment, and so are `Accept` and `Served`: an exit that is `busy` with a
connection answers neither probe nor key request before they time out
(`Answer`). `Advertised` says under which names the service at an address may
register: `resolve_advertise_host` takes what the user gives, the address the
service is bound to, that of the machine, or 127.0.0.1.

**`RelayStats`.** `OpenConnection`, `CloseConnection`, `RecordIn` and
`RecordOut` are the methods of `NodeStats`, each under its lock; the actions
are the steps of a relay's handler and threads that call them:
`ConnectFromLayer` is the call of `connect_from_layer` that succeeds,
`ConnectFromLayerFails` the one that does not.

`PROJECT.json` maps each definition to its lines.

## 4. The runs

| run | properties | size | what it shows |
|---|---|---|---|
| `tunnel` | `TypeOK`, `RightDestination`, `RightOrigin`, `EstablishedIsConnected`, `GaplessPrefixes`, `ParkedForEver`, `ImplementsService` | 1,456,073 states, 3.5 min | two streams to any of two hosts over one circuit, late openers included: answers come from the destination asked for, payloads go nowhere else while the circuit is served, "established" is true, and the whole implements `StreamService`; unless an opener ran late each end gets a gapless prefix, and parked data is never used |
| `reopened` | `GaplessPrefixes`, `TunnelTeardown`, `ReopenedTunnelServed` | 92,627 states, 30 s | one stream over two successive circuits: no gap or swap in either direction when the circuit is replaced, the threads of the old tunnel end, the new one is served |
| `registry` | `TypeOK`, `OneExitPerHost`, `HostKeepsAnExit`, `SelfHeals`, `DeadForgotten` | 2,225,759 states, 3.5 min | two exits and a relay of one host, restarts of all, registrations out of order |
| `circuit` | `Route`, `FramesInOrder`, `EndPropagates`, `BothNeighboursGone` | 230,149 states, 1.5 min | a circuit over one or two relays, or a probe: the route, the frames, and how the end of one side reaches the other |
| `messages` | `RepliesMatch`, `DestinationOnce`, `CloseNotifies`, `ExitComesBack` | 901,747 states, 2.5 min | two clients and the exit, with lengths at every boundary, messages taken for requests for a stream and the stream that follows, a restart of the exit, and padding at one end only |
| `sessions` | `RightReplies`, `QueuedKept`, `StableUntilClose`, `Served` | 459,438 states, 1.5 min | replies queued by the serving thread or another one, clients that come back, more replies than fit a block |
| `stream` | `BothPrefixes`, `WholeAnswer`, `StreamReturns` | 353,011 states, 35 s | a single stream with slow readers, resets, garbled frames, the shared timeout and a circuit closed with frames unread |
| `discovery` | `ChainOfDistinct`, `KeysFit`, `OnlyLive`, `EventuallyReady` | 500,102 states, 2 min | by directory, with a preferred exit, and by scanning, while services are replaced, exits are busy, and a remote service goes by localhost |
| `counters` | `CountIsLive`, `BytesAddUp` | 264,196 states, 12 s | two connections in any interleaving of handler and threads |
| `writers` | `FramesWhole`, `EachInOrder`, `AllArrive` | 773,819 states, 1 min | two threads on one socket, with the lock of the client and without one as the exit does, and a reader that gets out of step |
| `separate` | `SeparateStreams` | counterexample | see section 8 |
| `stray` | `OwnDestination` | counterexample, 45 s | see section 8 |

In the modules without a listed `TypeOK` the first invariant of each run has it
as its first conjunct: `Route`, `RepliesMatch`, `RightReplies`, `BothPrefixes`,
`ChainOfDistinct`, `CountIsLive`, and `EachInOrder` for `writers`.

Deadlock is checked in `registry` and `writers`. The other systems may stop:
every stream, message or connection the bound allows is over, and nothing in
the code goes on by itself then.

`ParkedForEver` deserves a word. `pending` looks like a buffer for data that
arrives before the connection is made. The client never sends data before
READY, and READY follows the flush; so whatever is parked belongs to a stream
that is already closed, and it stays until `relay_mux` returns. The run
establishes this for the composed system.

## 5. Bounds

*Tunnel.* `MaxStreams` (ids handed out), `MaxCircuits` (circuits opened one
after the other), `MaxUp` and `MaxDown` (payloads per stream and per
connection), `MaxPayloads` (both together, over all streams, an answer counting
two, by the `CONSTRAINT Few`).

- Two streams are what late binding needs: one opener that reads the other's
  frame. Two circuits are what replacing one needs. Two payloads make a gap or
  a swap visible. `tunnel` has two payloads, of one stream or of both, or an
  answer; `reopened` has two payloads and two answers of one stream.
- Two streams over two circuits with payloads are too many states for one run:
  `tunnel` has the two streams, `reopened` the two circuits, and
  the theorems of section 7 cover both at once, for any number of them.
- `stray` has the third stream that its counterexample needs; the constraint
  `Stray` keeps to the part of the behaviours where it lies (one payload, no
  failed request, no reset).
- Hosts are symmetric: no operator tells one from another, and no liveness is
  checked with symmetry.

*Directory.* `MaxKeys` (starts of a service) and `MaxStarts` (starts of all
services together, by the `CONSTRAINT FewStarts`). Two starts of a service
give one old key that can return late. Times are scaled: `Interval` 2, `Retry`
1, `Timeout` 1, `TTL` 4 and `Delay` 1 stand for 5 s, 3 s, 2 s, 45 s and the
delay until a registration is handled. As in the code, `Retry + Timeout` is
`Interval`, and `Interval + Delay < TTL`. Ages stop at `TTL + 1` and other
times at `Horizon`, which no property distinguishes from larger ones.
`HealTime` is the longest sleep plus twice `Delay`.

*Circuit.* `Chains` has one chain of one relay and one of two: an entry that
is not the last hop, a last hop that is not the entry, and a relay that is
both. `MaxData` counts the frames of both ends after the onion, which itself
carries one (data 0): two after it upwards, two downwards, or one each way,
enough for a reader that a torn frame has put out of step to swallow a later
one. `MaxFaults` counts transfers of a frame that time out half-way and relays
that restart, at any moment.

*Messages.* A block of 12 words stands for 128 and 8 words for a pair of
stream keys; `Sizes` has a message as long as a pair of keys, and those that
just fit and just do not fit as a packed reply, and an empty one. `MaxSends`
messages of both clients together, so each may send two or both may send one:
two are what it takes to send something behind a message that is taken for a
request for a stream. `MaxSpoken` is what a destination says on such a stream,
`MaxRestarts` restarts of the exit. The `CONSTRAINT Few` lets one client of the
two probe the exit, and with padding at one end only (`MixedMode`) keeps to
empty messages and such of nine words, which an exit that takes them for padded
blocks reads as a pair of keys, and to no restart.

*Sessions.* `MaxConns` connections of both clients together, `MaxFrames`
frames on one (a message and what follows it), `MaxQueued` queued replies for
blocks that hold `Capacity` = 2 of them together with the answer: the limit
can be reached and passed.

*Stream.* Three frames and three pieces in each direction with a `Window` of
one, so that every write may have to wait.

*Discovery.* Two machines, one of them the client's, with two ports each; two
ways to place relays and exits on them (`RelaysAndExits`: two relays on
different ports, or relay and exits that compete for a port) and any service
replaced by any other or one failed request (`MaxChanges`) at any moment;
exits busy at any moment; three kinds of client (`AskAndScan`), one of which asks
for two relays where there may be one. The relay on port 1 of the other machine
registers under its address and as localhost (`Names`), so one machine goes by
two names and one name stands for two machines.

*Counters.* Two connections, two messages per thread. *Writers.* Two threads,
three frames of three pieces each, and room for four: a frame and a part of
the next. A piece read as a length says 2, less than a frame, or 100, more than
is ever sent.

## 6. Fairness

`FairSpec` adds `ExitFairness`: each thread of the exit keeps running. The
code justifies it: `connect` has a timeout (`CONNECT_TIMEOUT`); `remote.recv`
returns after 1 s, so `remote_reader` looks at `stop` again; a write to a
destination has the same timeout once its reader runs, and before that (parked
data flushed by the opener) it is assumed that the destination reads or resets
the connection; the main loop blocks only in a receive on the circuit, which
returns when a frame or the end of the circuit is there, and only then is a
step of it enabled. Nothing else is assumed of destinations, and nothing of
the client and the relays, except that an exit which reads a cut circuit comes
to see its end. `circuit` makes that assumption precise: the end of a circuit
reaches both sides, unless a relay stays half dead (`EndPropagates`).

The directory needs no fairness: its promises are bounds in
time and therefore safety properties. They rest on the urgency in `Tick`: a
loop whose sleep is over runs, and a registration is handled within `Delay`,
before more time passes. `RelayStats` states no liveness.

- `RelayChain`: handlers and forwarding threads run, the kernel releases
  closed sockets, client and exit read what has arrived (each has a thread
  that does nothing else). Nobody has to send, to close, or to be slow.
- `Exchange`: the exit's loop runs (`forward_to_destination` has a timeout),
  on a stream the thread that reads from the client does, and a secure client
  waits no longer than its own timeout. An insecure client has none, and nothing
  is assumed of it or of a destination.
- `Sessions`: the serving thread runs, and each client leaves in the end:
  secure ones give up after a timeout, insecure ones are closed by their user.
  Without that assumption a silent peer stops the exit; nothing in the code
  prevents it.
- `RelayStream`: the threads of the exit and the client's reader run. Nothing
  is assumed of the destination.
- `Discovery`: the client goes on, and its user tries again after a failure.
  Nothing is assumed of exits: `EventuallyReady` asks, at the same address, for
  an exit that is idle in the end.
- `CircuitWriters`: the threads run and the other end reads. The lock is fair
  enough because each thread has finitely many frames.

## 7. Proofs

TLAPS checks these theorems for all values of the constants that satisfy the
assumptions of the modules. Most of those only type the constants. Three say
more: `FiniteAssumption` (finitely many connections are counted at a relay),
`NobodyAssumption` (the value for a free lock is no thread) and
`EnvelopeAssumption` (a pair of stream keys is longer than `CLIENT_CLOSE`:
32 bytes against one in the code). Two theorems of
`DirectoryProofs` and those of `ExchangeProofs` have a hypothesis besides:

- `InTime`, that `Interval + Delay <= TTL`: a registration is renewed before
  the entry expires. `src/core/protocol.py:24-27` has 5 s against 45 s, so a
  registration may wait for 40 s.
- `Matching`, that client and exit were started in the same mode (the `Agreed` of
  the properties, for every mode the constants allow). What happens otherwise is
  among the deviations of section 8.

For each theorem an inductive invariant was found that implies the property
and that every step preserves; TLC checked it on the run of the module before
it was proved. They are named here because they say why the code is right.

**The tunnel** (`OnionTunnelProofs`).

- `TypeCorrect`: `TypeOK` is not inductive: `Deliver` needs the connection in
  `hand` to be one, an opener beyond `start` needs to have a circuit and an id,
  and a payload put in a frame needs to belong to its stream. `TypeInv` adds
  these facts.
- `RightDestinationHolds` (`BindInv`): an OPEN frame exists at most once per id
  and carries the destination of its id (`OpenOnce`, `OpensRight`); while the
  circuit is served the loop variables change together, so a closure that reads
  them late still reads an id with *its own* host (`LoopRight`,
  `OpenersRight`); every payload stays with the id it was sent under, wherever
  it is kept (`PayloadsRight`); and a connection is registered only under the
  id its opener has read (`StreamsRight`). Late binding therefore can open the
  wrong stream, or one stream twice, but not connect a stream to another
  stream's site, until the cleanup assigns `stream_id` alone (`Stopped` in the
  property; section 8).
- `RightOriginHolds`, `EstablishedIsConnectedHolds` (`DownInv`): every frame on
  its way to a client is honest, that is, a READY names a connected stream and
  an answer comes from a connection to the destination of its stream. The
  cleanup does not disturb this, because it starts only when the circuit is cut
  (`StoppedCut`).
- `TunnelImplementsService`: initial states map to initial states, and each
  action to a step of `StreamService` or a stutter. The abstract service writes
  a payload at most once, so the invariant `OnceInv` gives every payload one
  place: on the wire, in the hand of the main loop, parked, taken by an opener,
  or written. What the cleanup can misdirect, it misdirects among the streams
  of its own circuit (`SameTunnel`), which the service has seen detached.
- `ParkedForEverHolds` and `GaplessPrefixesHolds` (`OrderInv`): while no opener
  ran late, an opener works for the stream of its own frame; nothing is sent
  before READY and READY follows the flush (`ReadyDone`); and for each stream
  the payloads between the ends continue what has arrived without a gap
  (`UpOrder`, `DownOrder`), until a circuit or connection that ends cuts them.

**The directory** (`DirectoryProofs`).

- `DirectoryTypeCorrect` (with `Idle`: a directory that is down has nothing to
  handle, an ended service does not sleep) and `OneExitPerHostHolds` (each
  registration of an exit removes every other exit of its host first).
- `DeadForgottenHolds` (`LifeInv`): whatever is in flight or listed was sent
  while its process lived, hence is not younger than its end.
- `SelfHealsHolds` (`HealInv`): a node that runs undisturbed is registered with
  its key and will renew that in time, or is about to register, and one of
  these follows the other before `HealTime` is over.
- `HostKeepsAnExitHolds` (`KeepInv`): an exit that runs keeps *some* entry of
  its host fresh: rivals that remove each other refresh the host while they do.

**Relays** (`RelayChainProofs`). `RouteHolds`: `Route`, the type invariant
included, for any chain. The layers of an onion on its way are the rest of the
layers the client built (`LayersWait`); whoever dialled a relay stands before
it in the chain (`Dialled`, `Along`); and a relay says hello only to a node
that still waits for its first frame (`HelloFresh`), so that a node restarted
or taken by another connection never answers for the one in the chain. That
layer *i* of `OnionLayers` is what relay *i* peels is proved by induction on
the chain.

`FramesInOrderHolds` (`OrderInv`): every frame has a `Number` in the stream of
its direction, the kind of the connection first, then the onion, then the data.
For each pipe of the circuit there are two marks (`Flow`): the number its reader
still accepts and the number its writer will write next. What is in the pipe of
a reader that is in step lies between them, in order (`Line`), with nothing
missing in the middle unless a write timed out (`Gapless`), and nothing missing
at the end either while the link is whole (`Complete`); the mark a relay writes
at is not behind the one it reads at, except by the frame it holds
(`RelayCell`). A torn frame is beyond all others: whoever has read it accepts
nothing whole any more. A pipe whose reader has given up, or has lost its
place, says nothing (`InTouch`), since no whole frame comes out of it again.
That a relay starts with fresh pipes is `Quiet`: until it has connected nobody
has used its link, and until somebody is dialled nothing has been sent.

**Discovery** (`DiscoveryProofs`). Each key was
that of the service at its address, or of one that goes by its name, and that
service has started no fewer times since (`Fits`); this holds of what is listed
(`Catalogued`) and of what the phases of a search have found (`SearchInv`), which
is one node per port at any time. A chain has the right length and no port twice
(`Chosen`), and so no service twice. While nothing has changed since the listing
was asked for, what a search has kept still runs (`Living`): a probe that a busy
exit leaves unanswered removes an exit, it never keeps one. `ChainOfDistinctHolds`, `KeysFitHolds` and
`OnlyLiveHolds` follow. That `ByPort` lists a set in order and each entry once
is proved for any finite set with one entry per address.

**Messages** (`ExchangeProofs`). All three properties follow from one
invariant. A client's text number *k* differs from every other one and
travels on connection *k*, or, of an insecure client, as frame *k* of its only
one (`Sent`, `Carries`, `Written`); the exit has taken the frames of a connection
in order and each once (`Queued`, `Taken`), and works on what the first of them
means (`Working`); unless that is a request for a stream (`Streamed`), what it
answers is the text, or one of its own, padded and packed (`Answers`); a
connection is handed to the loop once (`Waiting`), so a text arrives once, bare
as the first frame or in its envelope through a stream (`Delivered`, `Once`);
and where a client stands determines which connection it listens to (`Asked`),
so that an answer to a connection it has given up is never read. The lemmas `Padded`,
`Packed` and `Unpacked` say that padding and packing lose nothing of a string
that fits, for any block.

**Chat sessions** (`SessionsProofs`). `StableHolds` needs the type invariant
alone, but that one has to know that session numbers do not run out: each was
made for a frame read, and there are only so many (`Numbered`).
`RightRepliesHolds` and `QueuedKeptHolds` follow from `Inv`. A session number is
never given again, so whoever a reply was queued for is the only one to read
from its outbox (`Owners`), even if the session was dropped and the reply
queued afterwards. A client connects when its previous connection is over, and
the loop serves connections in the order of arrival (`Turns`), so that what is
written to a client grows at its end only, whichever connection carries it.
Queued replies stand in order in an outbox; those `drain_outbox` has taken
precede those queued since, and what is written precedes both (`InLine`). This
holds for a queueing thread that gets between the copy and the clear as well,
since what it adds is lost there and not moved. That nothing is lost (`Kept`)
needs the serving thread to queue: then what it clears is what it copied
(`Draining`).

**A single stream** (`RelayProofs`). `BothPrefixesHolds`: what one side
wrote is what the other has read, followed by what is on the way, place after
place (`UpFlow`, `DownFlow`), until something is closed. `WholeAnswerHolds`
(`HeardInv`): undisturbed, the event is set only when nothing of the
destination's is left on the way to the circuit; and the circuit that is closed
then is reset only if frames of the client are unread (`Unread`).

**Statistics** (`RelayProofs`). `CountIsLiveHolds`: where a handler stands
tells whether its connection is counted (`OncePerConnection`). `BytesAddUpHolds`:
a connection that counts is one whose row is there, so a row and its total grow
together; `Total` is a sum over any finite set.

**Writers** (`RelayProofs`). `FramesWholeHolds`: with the lock, or as
long as nobody had to wait for room, the pieces in the pipe and those still to
be written by the holder of the lock are frames one after the other (`Flows`),
and so the reader always finds a length where it looks for one.
`EachInOrderHolds`: lock or not, what has arrived of a thread, and what it has
left to write, are its frames in order.

The proofs use the induction of `Inductions`: a set of naturals that contains 0
and each successor is all of `Nat`. It is about sets and not about predicates,
and follows from the well-foundedness of strict inclusion of finite sets. What
`FlattenSeq` and sums over a finite set give is proved with it. What
`SelectSeq` selects is out of reach: its definition is a recursive operator.

Only model-checked are the liveness properties (TLAPS has no rules for them
that its provers carry through, nor for `ENABLED`): `TunnelTeardown`,
`ReopenedTunnelServed`, `EndPropagates`, `BothNeighboursGone`,
`ExitComesBack`, `Served`, `StreamReturns`, `EventuallyReady` and `AllArrive`.

## 8. Findings

Two runs contradict what the repository says of itself, each with a
counterexample.

- `separate` (`src/proxy/exit_stream.py:277`). `README.md:299` of the
  repository says of sites that load many subdomains in parallel that "the
  shared tunnel handles these as separate multiplexed streams over one onion
  circuit". The client sends OPEN 1 and OPEN 2; both are received before the
  first opener thread runs. Both threads read `stream_id == 2`, so stream 2
  gets two connections and stream 1 none; its handler waits until the timeout.
  `RightDestination` is the other half of this story: what late binding cannot
  do while the circuit is served.
- `stray` (`src/proxy/exit_stream.py:300`), against the same sentence. The
  cleanup `for stream_id in ids` assigns the variable the openers share and
  leaves `host` and `port` of the last OPEN frame beside it. Streams 1 and 2 go
  to `a`; both openers open stream 2. The first connection is closed by its
  site, the payload of stream 2 is parked, and the second connection is
  registered just before. OPEN 3 for `b` is received, the circuit ends, and the
  cleanup sets `stream_id` to 2. The third opener starts now: it connects to
  `b` as stream 2, takes the parked payload and writes it to `b`.

Other deviations met while modelling are named where a property excludes them:

- `src/proxy/exit_stream.py:281`: a connect that fails closes the stream whose
  frame was handled last. Hence `NoneLate` in the prefix properties.
- `src/proxy/exit_stream.py:209`: writes of the exit's threads may tear each
  other's frames once the socket is full (`FramesWhole` asks for the lock).
- `src/server/exit_server.py:74` and `:261`: a reply queued between copy and
  clear is lost, and without padding only the first of the drained replies is
  sent, although `README.md:254` speaks of "a reply for a client's next
  message" (`QueuedKept` asks for a secure exit that queues in its own
  thread).
- `src/server/exit_server.py:244`: a client that discovered the exit before it
  was restarted seals for the old key; the exit takes the blob for a message of
  nobody, `send` raises `ConnectionError`, and the loop of `serve_forever` (line
  396: until it is told to stop) ends (`MayEnd` in `ExitComesBack`, after a
  restart). Likewise at line 384, for an answer to a client that has left
  (`MayEnd` in `Served`).
- `src/proxy/local_proxy.py:78`: the 120 s timeout of the browser's socket ends
  the upload thread and with it a download under way; the browser then has a
  prefix of the response (`GaplessPrefixes` claims no more).
- `src/core/secure_transport.py:9`: a message of 501 to 508 bytes fits its
  block, and its echo does not fit as a packed reply; `ValueError` ends the
  loop (`MayEnd` in `ExitComesBack` allows it).
- `exit.py:89`: `python3 exit.py` is never secure while the proxy is enabled,
  while a client is secure by default. The exit then forwards padded blocks as
  messages, the client of `README.md:195` gets nothing for its "hello", and
  `CLIENT_CLOSE` (`README.md:217`) is padded and not recognised
  (`src/proxy/exit_stream.py:347`). The run `messages` has such pairs too: the
  loop comes back from them (`ExitComesBack`), while the other properties ask
  for equal modes (`Agreed`).
- `src/proxy/exit_stream.py:325`: a message of the length of two keys is taken
  for stream keys. What an insecure client sends after such a message, or after an
  empty one, is written to the destination with its envelope around it, and what
  the destination says comes back as replies, as ciphertext if there are keys
  (`RepliesMatch` and `DestinationOnce` say how far this goes). The client
  keeps the exit busy until it leaves (`WaitsForInsecure`), and if its next
  envelope starts with the byte of a stream frame, or it leaves with a reset,
  the exit waits for the destination as well (`WaitsForDestination`).
- `src/proxy/exit_stream.py:154`: the exit closes the circuit of a finished
  stream whatever the client has sent meanwhile; with a frame unread that resets
  the circuit, and the end of the answer may be lost (`Unread` in
  `WholeAnswer`).
- `src/core/protocol.py:45`: a relay or an exit that finds no route registers as
  127.0.0.1. A client on another machine then uses its key for a port of its
  own (`Advertised` in `KeysFit`).
- `src/core/discovery.py:199` and `exit.py:116`: an exit that serves a tunnel
  answers no probe, so a second client takes it for dead (`EventuallyReady` asks
  for an exit that has nobody to serve).
- `src/core/discovery.py:199`: with `exit_port` whatever answers a probe there
  is taken for the exit, listed or not, a relay too, although
  `src/client/scattered.py:143` speaks of "a specific exit from the registry"
  (`Plain` in `KeysFit`; `OnlyLive` asks for an answer only).
- `src/node/relay.py:189`: a circuit that has ended stays among the "Active
  connections" of `src/node/dashboard.py:117`; `CountIsLive` is about the
  count and the table, which agree in that too.

## 9. Abstractions

- CPython runs one bytecode at a time, and the loop assigns and the closure
  reads its variables without yielding between them on the interpreters the
  program targets. A reading in the middle of the tuple assignment is not
  modelled.
- `pending.setdefault(id, []).append(x)` is one step. A list without entries
  and a missing one are the same.
- In `OnionTunnel` the relays are one ordered circuit. It is cut in both
  directions at once, and what a cut loses is decided where it would arrive:
  each end reads a prefix and then the end. `RelayChain` shows how far relays
  behave like that: frames arrive in order, gapless unless a write timed out,
  and the end comes through unless a relay is half dead.
- In `OnionTunnel` a frame is sent in one step and socket buffers do not fill;
  `CircuitWriters` shows what is whole when they do.
- In `RelayChain` a thread that has lost its place reads `Junk` for ever. That
  the bytes of later frames might by chance read as a valid length and fall
  back into step is left out. Each relay serves one connection, since the
  handlers of different connections share nothing but statistics and keys.
- Ciphers are ideal: what was sealed for a key opens with it and with no
  other, and a changed ciphertext does not open.
- Words stand for bytes in `Envelope`: four bytes each, and a word of text or
  of random padding read as a length is larger than any string.
- `Exchange` and `Sessions` have one connection from client to exit in place of
  a circuit. On the stream that `Exchange` lets a message ask for, a frame is
  written in one step; `RelayStream` has the pieces and the timeouts.
- In `RelayStream` a destination slow enough to block a write for a second
  lets that write fail at any moment from then on; a write of the exit to the
  client waits without a timeout.
- In `Discovery` a listed relay is kept when anything answers a probe at its
  address, as the code does, and a dead relay listed under a port hides a
  living one on the same port (`Enough` asks that there is none). A relay answers
  every connection in a thread of its own and is never busy.
- `close` on a socket shows at the next operation of a thread that uses it.
  That Python collects a socket nobody refers to changes nothing another part
  can see.
- The two threads of `relay_over_tunnel` are alternatives of one process,
  which ends when the first of them does. `_ensure_circuit` running out of
  time changes no state and is left out.
- Probes and chat messages at the accept loop are left to `Exchange`.
- A registration that is sent is one message, connected and written at once.
  The answer the directory sends is not read before the loop sleeps on. A
  connect to a running directory succeeds. The clock does not go back.
  `heartbeat`, which no program sends, is left out.
- Keys are the number of the start they were made at; cryptography is ideal.

## 10. Not modelled

- The byte layout of mux frames: packing and parsing are inverse on every
  frame the program builds.
- The dashboard, transfer rates, the event log and process figures: layout and
  arithmetic on what `RelayStats` counts.
- Header parsing in the proxy: string processing. The life of a handler is in
  `SharedTunnel`.
- The cryptographic primitives and the command lines: library calls and
  process start. How the latter choose the modes of client and exit is in
  `Exchange`.
- `_merge_nodes` and the scan inside the registry branch of
  `src/core/discovery.py:283-294`: unreachable, because the only caller passes
  `use_scan = not use_registry`.
- `heartbeat` of the directory: no program of the repository sends it.
- The list of past messages, `last_seen` and the guess of `active_session` in
  `ExitServer`: nothing that is sent depends on them in the modelled loops.
