# A TLA+ model of OPA and its embedded tailnet runtime

OPA is a Flutter SSH client (`src/lib/`) that reaches its hosts through a tailnet node embedded in
the app by the package `src/packages/tailscale` (Dart on top of a Go runtime). This directory holds
the specifications of its concurrent parts, their model-checking configurations and their proofs.
`P/` below stands for `src/packages/tailscale/`.

## The system

```
 app (lib/)            SshService, terminal, TailscaleService, key and profile stores
   |  Futures and Streams of the main isolate
 Dart API (P/lib)      Tailscale singleton, tcp/tls/udp/http bindings, PosixFdTransport
   |  SendPorts             |  SendPorts (commands, events), Finalizer
 worker isolate (RPC)   reactor isolates (one per shard, fd % shardCount)
   |  cgo                   |  cgo poller + libc read/write/shutdown/close on one end of a
   |                        |  socketpair
 Go runtime (P/go)      tsnet server, IPN bus watcher, identity cache, listener registries,
                        pipes between the other end of the socketpair and the tailnet
```

| part | state it keeps | operations | what makes it hard |
|---|---|---|---|
| Fd transport (`P/lib/src/fd_transport.dart`) | input controller, `_readEnabled`, half-close flags, `_closed`, pending write futures and their bytes | adopt, listen/pause/resume/cancel, `write`, `closeWrite`, `close`, reactor events, one teardown | its state is a delayed mirror of the reactor's; messages of both directions cross |
| Reactor loops (`P/lib/src/posix_reactor.dart`) | per fd: flags, bytes in flight to the main isolate, write queue with offsets, cached interest mask | commands, wait, dispatch, budgeted read and write loops, close | partial system calls, readiness dispatched after further commands, back-pressure, failing calls |
| Reactor pool (same files) | proxies and spawn futures per shard, registered transports, poller handle | spawn, register with timeout and one retry, idle exit, close | who owns an fd when an answer is late; a shard that exits while a command is on its way |
| Native poller (`P/go/reactor*.go`) | handle registry, fd to id, wake descriptor | create, register, update, unregister, wait, wake, close | level-triggered hup, wake against close |
| Worker RPC (`P/lib/src/worker/`) | FIFO of pending requests, worker's send port | one command per API call, pushes, dispose | answers matched by position, death of the worker |
| Node lifecycle (`P/go/lib.go`, `push.go`, `identity_cache.go`) | server, start attempt, watcher context, publish timer, cache | start, stop, logout, watch, publish | goroutines of a cancelled generation |
| HTTP server bridge (`P/go/http_fd_posix.go`, `P/lib/src/api/http.dart`) | bindings, bounded queue of requests, pending accepts | bind, accept, close, serve | the queue drained while it is filled, two descriptors per request |
| TCP/TLS bridge (`P/go/tcp_fd_posix.go`, `tcp.go`, `P/lib/src/api/connection.dart`) | listener registry, accept isolate | dial, listen, accept, close, pipe | stop during listen, half-close through a pipe |
| UDP bridge (`P/go/udp_fd_posix.go`, `P/lib/src/api/udp.dart`) | socket pair, closed flag | datagram envelopes both ways | datagram boundaries against a byte-limited reader |
| HTTP client (`P/lib/src/http_fd_client.dart`) | parser state | send, parse head/body | chunk boundaries anywhere |
| Funnel and serve (`P/go/funnel_forward.go`, `localapi.go`) | forwards, tracked connections | forward, clear, close all | read-modify-write of a shared configuration |
| Tailnet connection (`lib/services/tailscale_service.dart`) | `_initialized`, `_hasConnected`, `_upMutex` | init, up, dial, down, logout | test and set of the mutex around an await |
| SSH session (`ssh_service.dart`, `terminal_screen.dart`) | client, session, screen flags, UTF-8 buffer | connect, start shell, disconnect, output | continuations of an abandoned connect |
| Storage (`key_service.dart`, `profile_storage_service.dart`) | secure storage and Hive boxes | store, delete, update | two stores, one failure |

### Not modelled

Screens and value classes (presentation), the stateless LocalAPI queries, the network monitor snapshot, argument
marshalling and the build hook, SFTP (one library call per operation), the app lock, onboarding and update
checks (one question, one answer). The headers under `P/go/native/dart/` are those of the Dart SDK: declarations
and comments, most of them (`dart_api.h`, 4,347 lines) of functions this program never calls. What they do here is
what `dart_api_dl.c` and `dart_push.c` make of them, and that is `NativePush`; nothing else in them has a
behaviour to model.

Of the parts that are modelled, left out: the pipe between a descriptor and its connection in Go, the response
side of a served request, redirects, closing a UDP binding under traffic, initialisation and the settings screens of
`TailscaleService`, the bytes of the terminal (the reassembly of split UTF-8 sequences is a property of one
stream in one turn), profiles (read-modify-write in one turn), the proxying of Funnel requests and their headers.

## FdTransport: one adopted descriptor

`FdTransport.tla` joins four actors that run concurrently.

| variables | code |
|---|---|
| `sub`, `received`, `delivered`, `inputClosed` | the `input` `StreamController` (sync, single subscription) and the application's subscription; `received - delivered` bytes are buffered behind a pause |
| `readEnabled`, `readFinished`, `writeFinished`, `closed`, `done` | fields of `PosixFdTransport` |
| `futures`, `pendingWriteBytes` | the futures returned by `write`/`closeWrite`, `_writeCompletions` being the pending ones, and `_pendingWriteBytes` |
| `cmds`, `evts` | the two `SendPort`s: FIFO, reliable; a closed event port drops what is sent |
| `shardUp` | whether the proxy of the shard accepts commands |
| `r` | `_ReactorTransportState` |
| `ready`, `agenda`, `budget` | what `wait()` returned and the second command drain has not yet let through; the handlers of the current dispatch that remain; the bytes its loop may still move |
| `peerSent`, `rd`, `peerFin`, `peerGone`, `wire`, `unread`, `txShut` | the socket and its peer |

Data is abstracted to positions: the bytes of the peer are numbered in order, and a `data` or
`inboundConsumed` message carries an interval of them. Every other message is stamped with the position
of its sender. The stamps carry no information the program has not: no guard reads one, and the byte
count of a message is the length of its interval. They let the properties say *which* bytes a message
is about. A write is an id and a length, and `wire` records (id, offset) of every byte on the fd.

A Dart handler runs to completion, so each is one action. Each turn of the read and write loops is one
system call and one action (`ReadData`, `FlushBytes`, ...), since the peer and the main isolate do run
between two calls. `agenda # {}` while a dispatch (or the flush made by a `write` command) is under
way; commands are only processed in between, as in `_runFdReactor`. `ready` is kept separate from
`agenda` because commands are drained once more between `wait()` and the dispatch.

Simplifications, with their reasons: `EINTR` retries are stutters; a `write(2)` that returns 0 is
treated as any failing write, as the code does; both budgets have the same value in the code
(`_reactorReadBudgetBytes`, `_reactorWriteBudgetBytes`); the `readError` sent when `update` fails is
followed by the same close. The stream controller's semantics (external) are those of `dart:async`:
`isPaused` remains true after a resume until the buffer has been delivered, `onResume` runs after that.
A peer that closes its socket makes writes fail and reads end; a reset is the failing `read`.

## FdReactorPool: who owns a descriptor

`FdReactorPool.tla` abstracts from what flows through a descriptor and models one shard of the pool:
the tables of `_SharedFdReactorProxy`, several transports that go through `_registerWithReactor`, and
the reactor isolates spawned for the shard one after the other, its *incarnations*. Shards share
nothing, so one is enough.

| variables | code |
|---|---|
| `instance`, `active`, `future`, `proxyClosed` | `_instances[shard]`, `_activeProxies[shard]`, what became of the future each spawn returned, `_closed` of each proxy |
| `phase`, `attempt`, `home` | where the adoption of a transport stands, its attempt, the incarnation whose proxy it holds or waits for |
| `resumed` | transports whose `await` has completed: their continuations are microtasks, run before the next message or timer of the main isolate |
| `inbox` | everything sent to the main isolate, in one queue: handshakes, exits, replies, `closed` events |
| `late` | how many registrations may still time out although an answer is on its way |
| `reactor`, `cmds`, `registered`, `saw` | state of each incarnation, its command port, its `states`, `sawTransport` |
| `closes` | the `close(2)` calls made on each descriptor |

A command that reaches an incarnation after its last drain is lost, although its poller can still be
woken until it is closed (`exiting` against `stopped`): that window is what the registration timeout and
the retry are there for. `RegisterUnwoken` and `RegisterTimesOut` mark the proxy closed and take a fresh
incarnation, once; a refusal is final. A send over a proxy that is closed only removes the future.
`Close` and `CommandRefused` have the effect of `send` on the tables, since that effect reaches the
other transports of the shard. `TransportEnds` stands for every way in which the reactor itself closes
a transport (FdTransport has them one by one).

Descriptor numbers are not reused in the model: a closed descriptor cannot be registered any more, and
a second close is counted, not redirected. An application that drops a transport without closing it
(the finalizer) is left out, and so is a payload of the `closed` event.

`FdOwner.tla` is the abstract specification: a descriptor belongs to the isolate that adopted it, may
be handed to a reactor once, and is closed once by the one that owns it. `OneOwner` says that
`FdReactorPool` implements it under the mapping `Owner` (closed: nobody; registered: the reactor; else
the main isolate).

## NodeLifecycle: the worker and the node it runs

Three modules. `WorkerRpc.tla` is the layer between the main isolate and the worker isolate, with a
specification of its own; `GoRuntime.tla` is the Go side; `NodeLifecycle.tla` instantiates both, adds the
lifecycle calls of the `Tailscale` singleton and interleaves them. The two components share `queue`, the
event queue of the worker isolate, into which the main isolate sends commands and the Go runtime posts
its pushes.

| variables | code |
|---|---|
| `port`, `disposed`, `pending` | `_sendPortCompleter`, `_disposed`, `_pendingRequests` of `Worker` |
| `call`, `waiting` | where the `_request` of each caller stands, and the callers that await `_sendPort` |
| `isolate`, `queue`, `executing`, `inbox` | the worker isolate, its event queue, the command it executes, the receive port of the main isolate |
| `sent`, `answered` | counters no guard reads: they number commands and requests, so that the properties can say *which* response a request got |
| `engine`, `nodeState`, `stored` | `srv`, the state of its backend, a machine key in the state directory |
| `watcher`, `cancelled`, `watchCancel` | watcher goroutines with what waits on their bus and what they hold, cancelled contexts, `watchCancel` |
| `timer`, `publishing`, `cache`, `dartPort` | `publishTimer`, publications under way, the identity cache, the Dart port |
| `step` | where the command under execution stands |
| `op` | the lifecycle calls: phase, and the local state of `up` and its listener (`last`, `stable`) |
| `http`, `latest` | `_http`, `_latestNodes` |

The worker executes a command in one turn, but the goroutines run beside it, so a command takes several
actions: `Begin` (with the `StopWatch` every lifecycle command starts with), `ExecStart`,
`ExecStartWatch`, `ExecStop`, `ExecWipe`. A push is posted by the goroutine and then forwarded by the
worker as an event of its own, hence after the response of a command it was posted during. On the main
isolate the continuations of a completed future are microtasks: `Turn` keeps the next message and timer
until they have run.

`early` in the record of a call is history that no guard reads: it heard `running` before its start had
returned, and then read a status that was not stable. The guards `engines < MaxWatchers` and
`watchers < MaxWatchers` are the bound of the model.

A watcher whose context is cancelled takes no further notification but still goes through the one it
holds: the states in it are posted, its netmap is kept out of the cache, its publication is scheduled
and then dropped by the timer. `lc.Status(ctx)` may or may not be cut short by the context. The bus, the
backend state and the netmap are external. `engine` in an event is a stamp, as above.

Simplifications: `needsMachineAuth` is treated exactly as `running` by every branch, and left out; the
failure of `SetNetworkInterfaces` (a decoding error of JSON that the package wrote itself) is left out;
`revokeNodeKey` is best effort and, the watcher being stopped, unheard; responses are sendable, so sending them does
not throw; the exit listener is always installed in time. Other commands of the worker use the same
layer and none of this state. An error notification (`ErrMessage`) only passes through.

## The bridges and the application

Nine smaller modules model what lies between the Go runtime and the application, and the services of the
application itself. Each has a specification of its own and a prefix of its own (`Http...`, `Tcp...`, `Ex...`,
`Udp...`, `Np...`, `Tn...`, `Ts...`, `Ks...`, `Sv...`).

| module | models | state and code |
|---|---|---|
| `HttpBinding` | one HTTP server binding, from `HttpBind` to the stream of requests | `httpBind`, `httpRegistered`, `httpOnce`, `httpDone`, `httpCloser`, `httpChannel` are `HttpBind` and `httpBindingState`; `httpHandler` the goroutine of each request; `httpStop` the steps of `stopLocked`; `httpAccept`, `httpHeld` the accept isolate; `httpServer`, `httpPending`, `httpAdopting`, `httpGiven` the fields of `_FdTailscaleHttpServer`; `httpCloses` counts the closes of the two descriptors of a request |
| `TcpListener` | one TCP or TLS listener | the same parties without a queue in Go; `tcpErrors` is `consecutiveErrors` of the accept loop |
| `HttpExchange` | one outgoing request | `exSend`, `exRequest` are `send` and `_writeRequestBody`; `exGo`, `exHead`, `exSent` are `runHttpFdRequest`; the rest is `_HttpResponseParser`. A byte is its position in the stream; a chunk has any length |
| `UdpBridge` | the datagrams of one binding, both ways | the two goroutines of `runUdpFdBridge`, the socket pair, and the read and write loops of the reactor with their budgets; an envelope is a number and the part of it that is there |
| `NativePush` | how Go calls into Dart | `npDl` are the pointers of `dart_api_dl.c`, resolved one by one; `npPort` is `dartPort`; `npPosters` the goroutines between the test of the pointer and the call (`dart_push.c`) |
| `TailnetConnection` | `dial` and `_ensureUp` of `TailscaleService` | `tnMutex` is `_upMutex`, a completer named by the caller that made it |
| `TerminalSession` | the terminal screen over `SshService` | attempts to connect, the service's `_client`, the shells, the flags of the screen, its menu |
| `KeyStore` | the SSH keys of `KeyService` | the secure storage (`ksSecret`), the Hive box in memory and on file (`ksBox`, `ksFile`), the writes between the two, the calls that wait for the secure storage (`ksStoring`, `ksErasing`), and what the key screen shows |
| `ServePublications` | Serve and Funnel | `svWeb`, `svTcp` are the stored serve configuration of the node; `svTracked`, `svTargets`, `svFunnelTracked` the tables of the package |

`MCBridges` composes them, and `FdReactorPool` beside them, for TLC. They share no state, so a behaviour runs one
of them (`focus`) and the state spaces add up instead of multiplying; what the properties say of one component is
not disturbed by the others. The fairness of the four components that have any is vacuous while another one is in
focus.

In `HttpBinding` and `TcpListener` the question is who closes a descriptor. A request may be refused by
the handler, drained by either of the two calls of `close`, dropped by a full queue, closed by the
server, by a failed adoption or by its transport, and each party learns of the close at its own time; stop
may come from `Tailscale.down` or from the disposal of the worker, after which the worker answers no more.
`HttpArrive` .. `HttpDeregister` split the Go functions at every lock, channel operation and `select`.
The accept isolates and `closeFn` are separate steps, since the main isolate awaits them.

In `ServePublications` the node may be renamed between two calls, which changes the key under which `clear`
looks for a path, but not the one under which it was tracked. The configuration outlives the process, the tables do
not.

In `KeyStore` the screen offers every key it has shown for deletion, whether or not the box still holds it: it is
rebuilt only after the secure delete, so the same key may be deleted again while the first call is awaited. Hive then
has nothing to write and the private key goes at once. `ksAgain` is history: the keys for which that happened while
the file had the key or a write about it was under way.

In `TailnetConnection`, `tnReason` is history: why a caller may take the node to be up, because it saw it running
or because an attempt succeeded, its own or one that ended while it waited.

## Runs

| run | instance | what it shows |
|---|---|---|
| `fd_transport` | one direction per behaviour. Inbound: 4 bytes, queue limit 3, chunks of 2, budget 2, no failing calls. Outbound: 2 writes of 1 or 2 bytes (or a `closeWrite`), limit 3, chunks of 2, a socket buffer of 1, every system call may fail | `UndeliveredBounded`, `EofComplete`, `ReadInterestExact`, `InputFlows`; `WireInOrder`, `WriteOkMeansWritten`, `ShutdownAfterWrites`, `OutboundBounded`, `WritesResolve`, `CloseIsMutual` |
| `fd_teardown` | writes as above without faults | **violated**: `TeardownResolvesWrites` |
| `fd_write_interest` | writes as above without faults | **violated**: `WriteInterestOnlyWithData` |
| `pool_late_register` | 2 transports, one late registration | **violated**: `ClosedOnce` |
| `pool_spawn` | 3 transports, room for 2 | **violated**: `OneSpawn` |
| `node` | at most 2 watchers, 1 spontaneous change of the node. Calm: an up with a key, then any lifecycle call, no failures. Faulty: an up without a key, then a logout, everything may fail | `AnswersMatch`, `CacheIsCurrent`, `SettleNotMissed`, `NobodyForgotten`, `LogoutHolds`, and `OpsFinishFaulty` in the faulty half |
| `node_lingering` | two ups with keys | **violated**: `SettledByItsEngine` |
| `bridges` | the pool and the nine bridge and application modules, one at a time: 2 transports, room for 1 in a reactor, spawns may fail or be late, `wait` may fail, no late registration; 2 HTTP requests, 3 TCP connections, a body of 3 bytes, 3 datagrams of 3 sizes, 2 bootstraps and 2 goroutines, 3 dials, 2 attempts to connect, 2 keys, 2 names of the node | see below |
| `udp_whole` | `UdpBridge` alone | **violated**: `DatagramsWhole` |
| `http_racers` | `HttpBinding` alone, 1 request | **violated**: `HttpRacersReclaimed` |
| `serve_scope` | `ServePublications` alone, 1 path on 1 port under 1 name | **violated**: `PublicationsProcessScoped` |
| `tailnet_dial` | `TailnetConnection` alone, 2 callers | **violated**: `UpBeforeDial` |

Three runs put several instances side by side: `direction`, `weather` and `focus` are chosen in the initial state and
never change, so what they show is what a run of each instance alone would show. What an instance leaves out (the
steps that break in calm weather, the writes inbound, the modules out of focus) is never a step that is fair in it.

What `bridges` shows:

| property | says |
|---|---|
| `HttpFdsClosedOnce`, `TcpFdsClosedOnce` | no descriptor of a request or connection is closed twice, whichever of its possible closers comes first |
| `HttpNothingLostWhileOpen`, `TcpNothingLost` | an accepted request or connection is somewhere, or closed, as long as the server is open (for TCP, until the port of the accept isolate is closed) |
| `OwnerIsAddressed`, `OneOwner` | a registered descriptor belongs to the incarnation its transport addresses; the pool implements `FdOwner` |
| `NoLeak`, `AdoptSettles` | a descriptor given up or closed is closed in the end, and every adoption ends, through failed spawns, refusals, idle exits and failing waits |
| `HttpServerFollows`, `TcpListenerFollows`, `HttpRegistryClears` | a stop of the node reaches the application's server, wherever the accept isolate is, and leaves no binding registered, even one whose `HttpBind` was under way |
| `ExBodyExact`, `ExCleanEnd`, `ExSettles` | the body is what follows the head, however the stream is cut; a clean end is a whole exchange; and it ends |
| `PublicationsAccounted` | no port is open without a path, nothing is tracked for a node that is down, and the Funnel tables agree with each other and with the listeners |
| `ServedStaysKnown` | no step of a node that is up makes a served path unknown to the package, under whatever names paths are published and cleared |
| `PushesThroughVm` | no goroutine calls through a pointer that is unresolved or of another version, across a second bootstrap |
| `TermShellFollows` | a screen that shows a connection has started a shell for it (it speaks of screens that are shown: what a continuation does to one that was disposed of, or the stream of a client that was closed, is not in it) |
| `ListedKeysHaveSecrets` | no key is listed without its private key, whatever fails and wherever the process is killed, unless it was deleted again while its first removal was not written |

The bounds are chosen so that every boundary is crossed: 4 bytes against a limit of 3 force
back-pressure and its release, a chunk smaller than the limit gives several messages in flight, a limit
that is no multiple of the chunk gives a short read at the boundary, a budget equal to the chunk ends a
loop early. A socket buffer of 1 against writes of 2 makes every longer write partial and meet `EAGAIN`
with an offset; two writes give an order to get wrong. `MaxToggles` bounds the commands in flight when
the application pauses, so that pause and resume cannot fill the port; `PeerBytes` and `MaxFutures`
bound the run. Deadlock is not checked: a closed transport, or a silent peer and an idle application,
have nothing left to do.

In the pool, two transports on one shard suffice for each of them to find the other's incarnation starting, full,
idle, exiting and gone; a limit of one registered transport makes every second registration meet it. `Incarnation`
is no bound on behaviour: a transport asks for a proxy at most twice, so no more than two are spawned per
transport. `PoolEndings` is one: of the four incarnations at most two fail to start or exit, which is enough for an
adoption to lose its first reactor and the one of its retry; only faults and idle exits are held back by it.
`LateTimeouts` separates a registration that times out because its answer is lost (always possible) from one that
does because the answer is slow: with 0 the ownership protocol is right, with 1 it is not; `NoLeak` says nothing of
that case. A refusal by the poller (`"register"` in `Faults`) takes the same path as a full reactor and is left out
of the run.

Two lifecycle calls are enough for one to run before, after and inside the other: calls are numbered in
the order they are made, and each may be made at any point of the earlier ones. The first one brings the
node up with a key, so that the second finds it in every state; two calls start at most two servers and
two watchers, so `MaxWatchers` bounds nothing else. One spontaneous change adds a notification that is
nobody's reply to those that every watcher begins with. In faulty weather the state directory may or may
not hold a session at the beginning.

Fairness. Both isolates keep running, so events are handled (`WF`) and a started loop is finished (`WF` of `Read`,
`Flush`). Every turn of the reactor loop drains the command queue and dispatches what `wait()` returned, and
`send()` wakes a blocked `wait()`: neither commands nor readiness can be starved by the other, which is strong
fairness of `ProcessCommand`, `Wait` and `Dispatch`. The application and the peer owe nothing, except that
`OneWaySpec` adds a peer that keeps reading, without which a blocked write has no reason to finish. In the pool,
messages are handled, continuations run, a timer that is armed fires unless it is answered first, and a spawned
incarnation starts, drains its commands on every turn and, once it has left its loop, stops; all of these stay
enabled until they are taken, so weak fairness is enough. Where the steps of one actor exclude each other, one
condition covers them (`Boot`, `ProcessCommand` and `StopPoller` of an incarnation; `WorkerStarts`, `WorkerGoesOn`
and `CallGoesOn` in the node). Nothing obliges a reactor to idle out or the application to close. In the node, both
isolates take their next event and the worker finishes the command it executes (native calls return:
`revokeNodeKey` has a timeout of its own), the list of the host's interfaces arrives and an armed timeout fires;
the worker either starts, reports that it did not, or its spawn throws. The node owes no state at all: that every
call returns rests on the timeout.

The liveness properties have the form `[]<>P`: the state in which something is owed does not last. In each of them
what is owed stays owed until it is fulfilled (a pending write stays pending, a server that must close stays open), so
`[]<>P` says the same as a leads-to from `~P`, and TLC checks it faster.

In `bridges`, a channel of 1 and a pending queue of 1 are full with the second request or connection;
`HttpBacklog` is at least 1 as in the code. 2 accept errors reach the limit of retries. A prefix and a head
of 2 bytes are cut in, between and behind, and a body of 3 comes in up to 3 chunks. The UDP limits are
in proportion to those of the code: a chunk holds a whole envelope, the queue and the budget hold more than one
but not two; a payload of 6 exceeds the maximum of 4. The second bootstrap meets goroutines of the first. Three
dials allow one to overwrite the mutex of another while a third waits. Two attempts overlap in every way
the menu allows (three were checked once: 1.67 million states). Two keys share the file and its order
of writes; a clear, a rename and a second path on one port need two names and two mounts.

The fairness of `bridges`, beside that of the pool: the worker, the goroutine of `http.Serve`, `stopLocked`, the
accept isolate and the main isolate each go on when they can (`HttpFairness`), which is what threads and event
loops do; a listener that is closed makes `Accept` return, and a closed `done` wins a `select` in the end because
nothing else is sent to it for ever. Callers owe no request and the application neither listens nor closes.
`ExFairness` is a transport that delivers what was written and its end. The other components state no fairness and
have no liveness property.

### Disagreements with the documentation

`TeardownResolvesWrites`: after `closeWrite()` the transport has `writeFinished` at once, while writes
queued before it may still wait in the reactor. An `eof` handled then makes `_maybeCompleteDone` tear
down with `closeInput: false` and no error for the writes; the event port is closed, so their `writeOk`
is dropped, and the futures of those writes and of `closeWrite` never complete. `_teardown` is
documented to resolve them.

`WriteInterestOnlyWithData`: a write that met `EAGAIN` has asserted write interest; the flush that later
empties the queue under `closeWrite` returns through the `SHUT_WR` branch, which does not recompute the
mask. `ReadInterestExact` holds because every other path does.

`ClosedOnce`: a registration that timed out is retried, but its command is not withdrawn. If the first
incarnation was only slow, it registers the descriptor as well (or registers it after the main isolate
gave up), and it is closed twice.

`OneSpawn`: `_instances.remove(shard)` in `_markClosed`, in the exit listener and in `send` does not look
whose future it removes. When the retry of one adoption has a spawn in flight, the exit of the previous
incarnation or the failure of a second registration over it removes that future, and the next adoption
spawns once more. All of these incarnations work; only one of them is `active`.

`SettledByItsEngine`: `up()` ignores the states that arrive before its start has returned, so that the old
server's `running` does not end the wait for the new one. But the old watcher's `running`, posted while
the worker executes the start, waits behind that command and is forwarded after its response.

`DatagramsWhole`: a read of the datagram socket is limited by the room in the inbound queue and by what
is left of the turn's budget. When either is smaller than the next datagram, the kernel hands out its first
bytes and discards the rest; the envelope still decodes and the application is given a shorter datagram.

`HttpRacersReclaimed`: the channel of a binding is drained when it is closed and once more when `http.Serve` returns,
"so entries that raced the `done` close are reclaimed". But `http.Server.Close` does not wait for handlers: one that
has reached its `select` may still choose the send after the second drain. Nobody takes the request any more; its two
descriptors and its goroutine, which waits for the end of the response, stay.

`PublicationsProcessScoped`: `serve.dart` calls a publication process-scoped and not persistent, and the package
forgets it with the process, but the node stores the configuration. After a kill the next node serves the path again,
and `down` does not know of it. A removal that fails while the node goes down has the same effect, since
`closeAllServePublications` takes the keys first.

`UpBeforeDial`: `_ensureUp` is to ensure that the node is up before a dial. A caller that finds `_upMutex` set awaits
it, and the `finally` of the other completes it normally after a failure as well; the waiter then dials to a node that
is down.

Seen in the model and against no text: the state a cancelled watcher still holds is posted after
`Stopped`, so the last state a listener hears may be `running` although the node is down; a cancelled
watcher that was about to schedule a publication replaces the timer of its successor, whose snapshot is
lost; a bus that fails leaves the identity cache warm; peers under way set `_latestNodes` after `down` has
cleared it; and since `up` awaits the interfaces of the host before it sends its command, a `down` called
after it may be executed before it and leave the node up. And the filter of duplicates in `onStateChange` can
cost an `up` its wait: one that heard the old server's `running` while its own start was under way has not
taken it for its own, and when the new server reports `running` its listener drops that as a repetition, so
that it waits for its timeout on a node that is up. It takes a third call to bring this about;
`SettleNotMissed` leaves exactly this case out (`early`).

Two more consequences of the pool's code, met while modelling, contradict no comment. When two adoptions
hold the proxy of an exiting incarnation, the first to fail marks it closed and the second is refused
with `fd reactor is stopped`, which is not retried: that adoption fails although a retry would succeed
(`RegisterStopped`). And a proxy that was marked closed when one registration was late refuses the
`close` of the transports that it still serves, so the reactor keeps their descriptors; that is why
`NoLeak` is checked without late registrations.

Of the bridges and the application:

* HTTP server: a request that arrives while the server awaits its `closeFn` is dropped with both descriptors open
  (the TCP listener closes them). `HttpNothingLostWhileOpen` says what does hold.
* TCP: `TcpListenFd` reads `srv` and registers the listener later, without the recheck of `HttpBind`; a stop in
  between leaves an entry in the registry (the listener itself is closed with its server).
* `_ensureUp`: two callers may both create the mutex. The second `finally` then finds it null and throws although
  the node is up, and a caller that waits for a completer that was overwritten waits for ever.
* Terminal: a stale attempt that fails closes the client of a newer one; a client that is overwritten, or
  connected after the screen was disposed of, is never closed; a stale shell that fails marks the new connection
  as disconnected; `_isConnected` may be true while the shell is gone. The quick commands and the connection test
  use the same singleton service and overwrite the same client.
* Keys: a crash between the two stores leaves a private key that no list shows. A key that is deleted again while its
  first removal is unwritten loses its private key at once; if that write then fails, or the process is killed first,
  the key is listed without it.
* Serve: a `clear` after a rename leaves the path of the old name until the next `down`. A forward on a port that
  already serves with another `https` switches the earlier paths as well, whose returned URL is then wrong. A Funnel
  forward waits for the node without a timeout, on the worker that executes every other call.

## Proofs

`FdTransport_proofs.tla` proves `TypeCorrect == Spec => []TypeOK` for all constants that satisfy the
assumptions (positive sizes, natural bounds). One step per action; the lemmas give the shape of each
shared operator (`Reply`, `CloseReactorState`, `UpdateInterest`, `Teardown`, ...) once.

`FdInbound_proofs.tla` proves `InboundBounded` (`[]UndeliveredBounded`) and `EofCorrect`
(`[]EofComplete`). Neither is inductive: what bounds the undelivered bytes is that the two message
queues account for every byte, and that a paused transport has told the reactor in time. The inductive
invariant `InboundInv` is

* `EventsLinked`, `CommandsLinked`: the intervals of the messages in the event port tile `received .. rd`,
  and those in the command port tile `rd - pendingInbound .. received`. Hence `rd - received` is at most
  `pendingInbound`, which `ReadFits` keeps within the limit;
* `PausedOff`, `Quiet`: while bytes are buffered behind a pause, reads are disabled on the main isolate,
  and the reactor has either stopped reading or a `disableRead` is under way that precedes every
  acknowledgement of a buffered byte. So no buffered byte is ever subtracted from `pendingInbound` while
  the reactor can still read, and the bound extends over the buffer although the transport acknowledges
  bytes it only buffered;
* `LoopOpen`, `EofSeen`: a loop runs only for an open transport; an end of file was seen at the end of
  the stream, after all of it was posted.

`WorkerRpc_proofs.tla` proves `RpcTypeCorrect`, `EveryAnswerMatches` (`[]AnswersMatch`) and
`EveryCallerIsKept` (`[]NobodyForgotten`) of `WorkerRpc!Spec`, for any set of callers, requests, replies
and events; no assumption is needed. That a response belongs to the oldest completer is a fact about
the whole path of a command, so the inductive invariant `RpcInv` describes that path:

* `Aligned`: the open requests are numbered on from `answered` in the order of `_pendingRequests`; the
  commands that carry these numbers are found, in this order and none twice, first as responses in the
  inbox, then under execution, then in the queue, each addressed to the caller of its completer, and
  none comes before an older one. While the worker runs, none is missing. The lemmas on `Aligned` say
  what each queue operation does to it (`HeadLeaves`, `AnswerJoins`, `CommandsJoin`, `AnswerLeaves`,
  ...), one step lemma per action cites them;
* `Shapes`: what each state of the worker excludes; in particular an exit or boot failure in the inbox
  means that the worker is dead, so that disposing of it leaves nothing in its queue;
* `Waiters`: who is in `waiting` waits for the port, once, so that `HandleReady` numbers each of them;
* `Senders`: a caller whose completer is in `_pendingRequests` awaits that very request.

`RpcInv` was model-checked with two callers before it was proved.

`NodeLifecycle_proofs.tla` carries this into the composition: `LayerImplemented == Spec => Rpc!Spec`, and with it
`LifecycleAnswersMatch` and `NoCallForgotten`, which are properties `node` checks, for any sequence of lifecycle
calls and any watchers, notifications and faults (`NodeAssumption`). The refinement mapping is the identity on the
variables of `WorkerRpc`; a step of the runtime is a push or a stutter. What has to be shown is that each lifecycle
call awaits one request at a time (`Awaiting`: at the places where it makes a new request it has none open, which
needs `Senders`) and that the runtime's events and the worker's responses are those of the layer (`GoTyped`,
`OpTyped`).

The rest of that module speaks of what the layer does not see.

* `CacheCorrect` (`[]CacheIsCurrent`). A goroutine warms the cache long after it took its tick, so what must be
  invariant is which watchers could: all that were started but the last are cancelled, and that one follows
  the server that runs (`OneFollows`); a server is started, and watched, only when no watcher is left.
* `LogoutLasts` (`[]LogoutHolds`). Wherever a command waits (caller, queue, execution) it fits the call it came
  from (`Fits`), and where the worker stands in a command tells which one it is (`StepsFit`). So once a logout was
  answered, or its answer is on its way, no start without a key finds a session (`Lasting`).
* `NodeTyped` (`[]NodeTypeOK`).
* `NoStateMissed` (`[]SettleNotMissed`). An up is `Blind` when it waits, or the answer that will make it wait is
  under way, and it has heard nothing stable: then a stable state of a watched node must be on its way
  (`NoneMissed`). The proof follows one notification through the bus, the goroutine, the worker's queue, the inbox
  and the listener. It needs that the filter of duplicates hides nothing from such an up (`NoDuplicate`), that an
  up that checks has no other request under way (`QueueChecks`, ...), and that the port is there while the worker
  runs (`Connected`). A status answered before the state changed is in the inbox before the push that tells.

`FdInbound_proofs.tla` also proves `InterestExact` (`[]ReadInterestExact`): the cached mask is stale only in a read
loop that has just filled the inbound queue, and such a loop can only yield, which recomputes it
(`InterestKept`).

`FdOutbound_proofs.tla` proves `WiredInOrder`, `OkMeansWritten`, `ShutAfterWrites` and `PendingBounded` for any writes,
limits and buffers, from one invariant, `OutboundInv`. Its heart is `Pipeline`: there is a number `d` of writes that are
done, and with it everything between the application and the fd is determined: the reactor's queue holds
`d + 1`, `d + 2`, ... and only its first is begun (`QueueAt`), the commands carry the numbers that follow
(`CommandsAt`), the fd has the bytes of the first `d` and the part taken of the next (`WireAt`), and no other future is
resolved or about to be (`PendingAt`). Around it, `EndIsLast` and `EndIsMarked` say where the end of the writing is,
`WireOrdered`, `OkIsTrue` and `ShutIsLast` what was said of the bytes, `Accounted` what `_pendingWriteBytes` counts.
The bytes of a prefix of the writes are summed with a recursive function; the facts about sums the proofs need
come from a minimal counterexample (`LeastNat`, through the library's `WFMin`), since its induction theorems cannot be
used.

`FdReactorPool_proofs.tla` proves `PoolTyped`, `OwnersAgree` (`[]OwnerIsAddressed`) and `OneOwnerHolds` (`OneOwner`: the pool
implements `FdOwner`). That a spawn always finds an incarnation that was not used needs a count: the spawns are
injected into the attempts of the transports, two for each (`SpawnsCounted`). The ownership rests on `Consistent`,
about each transport: its request, the answer to it and its registration all concern the incarnation it
addresses, the request comes before the answer, and only one of each is there (`AskedOnce`). These two
theorems assume `LateTimeouts = 0`: with one late registration they are false, which is what
`pool_late_register` shows. The types need no such assumption.

`Bridges_proofs.tla` has a section for each bridge.

* `HttpExchange`: `BodyIsExact` and `EndIsClean` for a prefix, a head and a body of any length
  (`ExchangeAssumption`). `HeadFirst` says that nothing is added before the head was taken, `FlagsTrue` that the two
  flags that close the body outlive their causes: after the end of the stream nothing is left to take.
* `NativePush`: `NoPushAstray` for any table of symbols, goroutines and bootstraps. The property is about calls; what
  carries it is `PointerFixed`: a pointer is NULL or what the VM has under its name, and a bootstrap never makes it
  NULL again, so a goroutine's test stays valid until its call.
* `ServePublications`: `TablesFollowPublications` (`[]PublicationsAccounted`) and `NothingServedUnknown`
  (`ServedStaysKnown`) for any names, ports and paths. The invariant adds that the targets of a Funnel port carry one
  name (`OneName`), since a clear takes the name of the forwarder.
* `TcpListener`, `HttpBinding`: `TcpNoDoubleClose`, `TcpNoneLost`, `HttpNoDoubleClose`, `HttpNoneLostWhileOpen`,
  for any number of peers and any bounds of the queues. They rest on ownership: a descriptor is at
  one place of its path, once (`TcpOnePlace`, `HttpOnePlace`), and is open for as long as it is there, so whoever takes
  and closes it is the only one who can.
* `BridgesTyped` (`[]BridgesTypeOK`), of the composition that `bridges` checks. Of the UDP binding it needs that the count
  of undelivered bytes is the sum of the datagrams under way (`UdpSum`), of the pushes that a bootstrap under way
  is one of those counted (`PushBounds`). `NativePushAssumption` says that the symbols are a sequence.

`AppServices_proofs.tla` proves `NoListedKeyWithoutSecret` (`[]ListedKeysHaveSecrets`) for any number of keys. It speaks
of the box and the file, but what reaches the file are the writes under way: each that lists a key must find its
secret stored (`SecretsStored`), a key whose secret is still being stored is nowhere yet (`NotYetListed`), and the
write of a deletion is the last of its key (`DeletesLast`), so that none is left when the secret goes, unless the key
was deleted again before (`ksAgain`). `ShellFollowsConnection` (`[]TermShellFollows`) holds for any number of attempts:
while the screen's flag is set, a shell was started since each of them began (`FlagCovers`), and a laid out screen sets
it before the attempt ends (`FlagSet`). Of `TailnetConnection` only the types are proved (`TnKept`).

Every invariant that a passing run checks is a theorem, and so is the refinement `OneOwner`. The larger inductive
invariants were model-checked on the instance of their run before they were proved.

Only model-checked: the liveness properties (`InputFlows`, `WritesResolve`, `CloseIsMutual`, `NoLeak`,
`AdoptSettles`, `OpsFinishFaulty`, `HttpServerFollows`, `HttpRegistryClears`, `TcpListenerFollows`, `ExSettles`):
fairness is about `ENABLED`, which is out of the prover's reach. The properties of the nine runs that expect a
violation are false of this code.

## Plan

1. `FdTransport`, its types, its inbound and its outbound half (done, proved).
2. `FdReactorPool` against `FdOwner` (done, proved for `LateTimeouts = 0`).
3. `WorkerRpc` (done, proved).
4. `GoRuntime`, `NodeLifecycle`: start/stop/logout against watcher generations, publish timer and identity
   cache (done; proved that it implements `WorkerRpc`, and its safety invariants).
5. `HttpBinding` and `TcpListener`: descriptors of queued and accepted connections, close against accept
   (done, proved).
6. `HttpExchange`, `NativePush`, `KeyStore`, `ServePublications`, `TerminalSession` (done, proved), `UdpBridge` and
   `TailnetConnection` (done; their types are proved, their only other property is violated).
7. Left: the pipe between a descriptor and its tailnet connection (`tcp_fd_posix.go`), the response of a served
   request, initialisation and logout in `TailscaleService`.

Theorems to come: the safety cores of the liveness properties, that is, that in every state where something is
still owed some step towards it can be taken (no state of `FdTransport` is stuck with a write pending, an open
peer and nothing under way; a pending call of `WorkerRpc` always has a command, a response or an exit on its
path); an abstract specification of `FdTransport` as two bounded byte streams, and the refinement.
