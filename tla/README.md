# ProtoRpc-MultiReactor: TLA+ models, checks and proofs

This directory holds the formal model of the RPC framework in this repository: TLA+
modules translated from the C++ source, TLC configurations that check them on small
instances, and proofs, checked by TLAPS, of their safety properties for every value of
the constants. `PROJECT.json` has the machine-readable part: for every definition the
source lines it stands for, for every property a mutant of the code that breaks it, the
hazards of the code and the properties that guard against them, and the findings.

Run a check with `tlc -config X.cfg M` and a proof with `tlapm M.tla`; the table of runs
below names module and configuration. Source paths below are relative to the repository.

## 1. Inventory

| Component | State | Operations | Interacts with | Modelled in |
|---|---|---|---|---|
| `RPCChannel` (src/RPCChannel.cc) | `id_`, `outstandings_`, `conn_`, `services_` | `CallMethod`, `onMessage`, `onRPCMessage`, `doneCallback`, `setConnection`, destructor | stub and closure of the user; muduo connection; service objects; `RpcServer::OnConnection` creates and destroys it | `RpcChannel`; its byte streams in `Framing` and `RpcWire` |
| `RpcServer` (src/RPCServer.cc) | `service_map`, `pending_requests_`, `instance_paths_`, `zkclient_`, the loop's queue | `NotifyService`, `Run`, `OnConnection`, `StopServer`, `Cleanup`, signal handlers | ZooKeeper through a `ZkClient`; muduo loop and IO threads; one `RPCChannel` per connection | `RpcServer`, and `OnConnection` also in `RpcChannel` |
| `ZkClient` (src/Zookeeperutil.cc) | the handle; the global `is_connected` | `Start`, `Create`, `GetData(W)`, `GetChildren(W)`, `Delete`, `Close` | the ZooKeeper C client and its threads | inside `RpcServer`, `ServiceDiscovery` and `ClientProgram` (not: the globals of `Start`'s handshake) |
| `ServiceDiscovery` (src/ServiceDiscovery.cc) | `cache_`, `events_`, `worker_`, watches | `init`, `pickHost`, `zkWatcher`, `enqueueEvent`, `processEvents`, `handleEvent` | ZooKeeper; the nodes the servers register; the clients that pick a host | `ServiceDiscovery`; the worker's start and end in `ClientProgram` |
| `MySQLConnectionPool` (example/MySQLServer/ConnectionPool.h) | `pool_`, `currentCount_`, mutex, condition variable | constructor, `getConnection`, `releaseConnection`, destructor | pool threads of the login service, threads of the stress test | `ConnectionPool` |
| `UserServiceImpl` servers | thread pool | `Login` inline (MyRpcServerImp.cc) or posted (LoginRegisterServer.cc) | `RPCChannel` closure, connection pool | `RpcChannel` (`ServeInline`, `ServePooled`, `RunTask`, `RunTaskLate`), `ConnectionPool`; what they answer in `RpcWire` |
| `RpcClient`, `RpcClientConcc`, `RpcClientWithReconn` | channel, countdown | `onConnection`, `sendLogin`, `onLoginDone` | `RPCChannel`, `ServiceDiscovery::pickHost` | `ClientProgram`; their use of the channel in `RpcChannel` |
| Generated protobuf code (rpc.pb, user.pb) | fields and unknown fields of a message | `New`, `Clear`, `ParseFromString`, `SerializeToString`, `ByteSizeLong`, `MergeFrom`, accessors, `UserServiceRpc::CallMethod` | the protobuf library; `RPCChannel`, services, clients | `Messages`, and the dispatch in `RpcWire` (not: descriptors, arenas, swapping) |
| `Application` | options, configuration | `Instance`, `ParseArgs`, `LoadConfigFile` | `main` of every program | the two ways it ends a program, in `ClientProgram` |
| `RpcController`, `Logger` | two fields; none | `SetFailed`, `Failed`; logging | | not modelled |

What is hard in this code:

- **Concurrency.** Several threads are inside `CallMethod` of one channel; replies of a
  pooled service come in any order; connections break at any moment on either side; pool
  threads outlive the channels their closures point to; `init` and the event worker read
  ZooKeeper at the same time; watches fire once.
- **Failure and restart.** Servers crash and are restarted while their old session still
  holds their nodes; sessions expire; every ZooKeeper call can fail and most return codes
  are ignored.
- **Ordering.** Entry before send, watch together with read, node before instance, stop
  before quit, quit before session close; members constructed behind a running thread.
- **Streams.** TCP cuts anywhere; lengths and headers may be wrong; a header that does not
  parse ends the loop over the buffer; a peer may be a later version of the program.
- **Liveness.** No call has a timeout; one notification per released connection; the
  loop thread sleeps in `StopServer`.

What makes each component correct: a call completes at most once with its own answer and
its response object is freed once (channel); a server that serves is listed and one that
has ended is not, and starting several is safe (server); the cache follows the tree
(discovery); connections are neither shared nor lost and waiters are woken (pool); the
reader of a stream never loses its place (framing) and what is parsed is what was
written (codec); a client makes every request once and ends (client programs).

## 2. Modules

| Module | What it is |
|---|---|
| `RpcCalls` | abstract specification: at-most-once calls, without ids, maps, connections or threads |
| `RpcChannel` | the client's channel, its connections, the server's channels and its thread pool; implements `RpcCalls` |
| `RpcChannelProofs` | its proofs |
| `RpcServer`, `MCRpcServer` | server processes and their nodes and sessions in ZooKeeper; the instance for TLC |
| `RpcServerProofs` | its proofs |
| `ServiceDiscovery`, `ServiceDiscoveryProofs` | the client's cache and its proofs |
| `ConnectionPool`, `ConnectionPoolProofs` | the pool and its proofs |
| `Messages`, `MessagesProofs` | the protobuf messages and the generated code for them: operators, no state; the laws they keep |
| `OrderedPipe` | abstract specification: an ordered channel of messages |
| `Framing`, `FramingProofs` | byte streams with length prefixes and the loop of `onMessage`; implements `OrderedPipe` |
| `RpcWire`, `RpcWireProofs` | one client and one server on a connection: `Framing` composed with `Messages`, the service dispatch and the closures; its proofs, which use those on both |
| `ClientProgram`, `ClientProgramProofs` | the three client programs from `main` to the end of the process, with `ServiceDiscovery`'s worker |

### RpcChannel

`CallMethod` is split where another thread can come between: `CallMethodNumber`
(`id_.incrementAndGet`), `CallMethodRegister` (the entry, under `mutex_`),
`CallMethodSend` (the `send`, or `SetFailed` without a connection), with
`CallMethodReject` and `CallMethodHeaderFails` for the two serialization failures.
On the client's loop thread `ReceiveResponse` is the locked part of the RESPONSE branch,
`RunDone` the part after the lock (parse, then the user's closure, which deletes the
response), and `DestroyChannel` the destructor. `handling` is the local variable `call`
between the two. `ClientUp` and `ClientDown` are the connection callbacks of the clients:
the next connection is opened only after the last one went down, and `conn_` keeps
pointing to the old one until then. On the server `ServerUp` and `ServerDown` are
`OnConnection`; `RefuseRequest`, `ServeInline` and `ServePooled` are the REQUEST branch;
`RunTask` and `RunTaskLate` a task of the thread pool, with `DoneCallback`.

A closure that runs after its channel was destroyed is undefined behaviour.
`RunTaskLate` lets either nothing happen or the process die: all its connections go
down and what it had queued is lost. That it writes something else to the wire is not
modelled.

Messages in flight are a set, each with its connection and id: the code matches replies
by id only, so their order in the stream matters to nobody here. A message stands for
header and payload; the byte stream is the subject of `Framing` and `RpcWire`. The response object is
deleted by the user's closure, which is what all example clients do.

### RpcServer

`Run` visits the persistent nodes in the order of `service_map` and `method_map`; node
`n` is a service, or a method that lies below the service `ServiceOf[n]`. `Start` begins
the process and `Run`; then `ZkClient::Start` waits for a session (`pc[i] = "connecting"`)
until ZooKeeper answers (`SessionUp`) or `zookeeper_init` fails (`InitFails`). The signal
handlers were installed by the constructor, so `SigInt` and `SigTerm` may come from here
on, and what they queue waits for the loop. Each `Create`
is its two ZooKeeper calls: `CheckNode` and `CreateNode` for persistent nodes,
`CheckInstance` and `CreateInstance` for the server's own ephemeral node, with
`CheckFails` (any other result of `zoo_exists` than ZNONODE is taken for success) and
`CreateFails` (the process exits). `SigInt` is the handler, `StopServer` and `Cleanup`
up to `queueInLoop`; `StopFunctor` the functor up to its `sleep(1)`, `SleepOver` the
rest; `SigTerm` queues the quit; `QuitLoop` is the end of the loop and of `Run`, whose
local `ZkClient` closes the session. `Cleanup` changes nothing: it works on the member
`zkclient_`, which is never started.

`start[i]` counts how often server `i` was started and names its sessions; `owner[n][i]`
is the start whose session owns the instance node of `i` below `n`. External are
`Expire`, `LoseSession` and `Crash`.

### ServiceDiscovery

`init` and `handleEvent` read a method the same way, one ZooKeeper call per action:
`ListInstances` (`GetChildrenW`; without children the data of the method node, the empty
string), `ReadHost` (`GetDataW` of one child; if the child has gone, the buffer was never
written: `Garbage`), `StoreHosts` (the assignment under `cache_mutex_`). `fetch[f]` is the
list thread `f` is reading. `ZkWatcher` moves a notification to `events_`; `HandleEvent`
takes it off. An event on an instance node (its data was overwritten) is handled by the
same code on the wrong kind of path: `ListInstanceNode`, `ListInstanceNodeFails`. A
method is read by `init` in any order.

Every call may fail (`CallFails`), because the session has expired (`LoseSession`, which
takes all watches and any part of the notifications still under way) or the connection was
lost for a moment (bounded by `MaxFaults`), and nobody looks at a return code. After
`ListFails` there is no watch and the `String_vector` is what was on the stack
(`ListFailed`): the process dies of it (`crashed`), or the count happens to be negative
and nothing is read, or 0 and the node's own data is. `ReadFails` is a `GetDataW` that
fails on a node that is there. When `GetChildren` of a service or of the root fails, `init`
passes over the methods below (`InitSkips`). Three variables remember what a failure
spoils, so that the properties can say what it does not spoil: `blind`, the methods whose
list was last asked for by a call that failed, until a later one works; `failed` in
`fetch[f]`, a reading with a failed call in it; `broken`, the methods whose stored hosts
come from such a reading. No action reads `blind` or `broken`.

ZooKeeper (external): one-shot watches, a watch is left by a successful call only,
notifications arrive in order, and when a session expires the later ones may be missing.
`zkWatcher` ignores deletions and session events.

### ConnectionPool

Everything between two waits runs under `mutex_` and is one action. A thread in
`cond_.wait` is "waiting", after a notification or a spurious wakeup "woken", and then
competes for the mutex with threads that never waited (`Recheck`). `Release` is the end
of a use, on every path of `Login` and of the stress test's loop.

### Messages

A message type is the sequence of the kinds of its fields; the generated classes differ
in nothing else, so that one definition stands for the same function of each class and
`map` names one of them. A message has its fields and the bytes of the unknown ones.
Writing (`SerializeToString`) and the size computed beforehand (`ByteSizeLong`) are
separate definitions, as in the code. Reading takes the bytes field by field (`Fields`
are the fields, `Absorb` is what one does to a message, `MergeAll` what all do): the last value wins, embedded messages merge, a field whose number or wire type
the type does not have is kept, tag 0 and a field that runs over the end fail, and what
was read before a failure stays in the message. Left out: UTF-8 checks, groups (they
fail) and recursion limits. Varints, which are lengths too, are exact below `Limit` = 2^28,
and one that is not is read as the greatest below: as a length it runs over the end of the
bytes just the same, since a frame has at most 64 MB. A fixed64 has all its 64 bits.
Numbers are not negative: ids count from 1 and error codes are 0 and 1. The value of a field that fails to parse is not what
a reader of this code can observe.

### Framing and OrderedPipe

A pipe is one direction of one connection. `stream[p]` are the frames written, each with
the position of its first byte; `received[p]` and `consumed[p]` are positions in the
stream, between them lies the input buffer. `Arrive` is the connection's read, which
calls `onMessage`; while `reading[p]` the loop takes one iteration per action:
`HalfPacket` (both ways to wait for bytes), `InvalidLength`, `ParseFails`,
`TakeMessage`. A length that is not valid shuts down the sending half only: the bytes
stay, and the next piece meets the same length again. `Send` does not check its length
against the limit; it cannot wrap, since protobuf does not serialise more than 2 GB.
`OrderedPipe` knows no bytes: messages are put, then delivered in order, skipped when
they do not parse, and an unsound one closes the pipe at its place.

### RpcWire

The connection between a client and a server, with the real bytes of the headers in
`stream`. `CallLogin` is `CallMethod` with the arguments of the examples; `ServerTakes`
one iteration of the server's `onMessage` with the REQUEST branch of `onRPCMessage` and
the generated `CallMethod` of the service; `RunLogin` the login method and
`doneCallback`; `ClientTakes` one iteration on the client's side with the RESPONSE branch
and the closure of the examples. Threads, connections that break and the life of the
objects are in `RpcChannel` and left out here.

`peer` says whether one end is built from other sources. Such an end may write one frame
of its own: a bad length, a header that does not parse, an empty one, one with a field of
a later version, a request for a service, method or payload that is not there, or a
response that lacks its result or breaks off. `UpBodies` are the frames there can be on
the way up, `AnswerIds` the ids of the logins among them. A request for `Register`, which no server
implements, runs the generated default, which calls `SetFailed` on a null controller: the
server is gone. A request that reaches a client uses `services_`, which was never set
(`Misdirected`: anything between nothing and a crash).

### ClientProgram

`kind` is the program. `main` walks through `Application`, the construction of
`ServiceDiscovery` (`StartWorker` before `ConstructMembers`: the thread is a
member in front of the mutex, condition variable, flag and queue it uses), `ZkStart`, `ReadAll` (`init`), the client threads, the static
destructors (`StopWorker`, `JoinWorker`, `CloseSession`). A worker that waits before the
condition variable is constructed may be `deaf` for good; one that looks at the queue
before it is constructed may take an event that is not there. A client is `at` a place of
its life; its thread runs callbacks one at a time, and sleeps in `onLoginDone` (`doing`).
`OnLoginDone`, `SendNext` and `Finish` are one callback split at its sleep, since the
server may close the connection meanwhile (`conn` is "lost" until the loop looks).
`OnDisconnected` has the reconnecting client ask `pickHost` again.

Reading the method node is one step here, because `ServiceDiscovery` has it call by call;
calls that fail, and hosts that are unwritten buffers, occur only there. `Delist` follows `ServerDown` at any
distance, so a client may be sent back to a server that is gone.

## 3. Runs

| Run (configuration) | Module | Result | What it shows |
|---|---|---|---|
| RpcChannel | RpcChannel | holds, 71,578 states | two concurrent calls, three connections: own answers, no orphaned reply, responses freed once, failed calls never complete, counter = live channels, refinement of `RpcCalls`, every sent request is answered, refused or loses its connection |
| RpcChannelLateDone | RpcChannel | violated | a pooled closure runs on a destroyed channel |
| ConnectionPool | ConnectionPool | holds, 89,715 states | five threads, three connections, two rounds: no sharing, no leak, no lost wakeup, everybody is served and the pool is closed |
| RpcWire | RpcWire | holds, 57,535 states | two calls, any cut, one foreign frame: the reader keeps its place, nothing it could handle lingers, closures see what the service wrote, success is counted only for accepted logins, the codec laws hold of all messages in the streams, refinement of `OrderedPipe`, calls are answered |
| ClientProgram | ClientProgram | holds, 520,756 states | the three programs with two clients, two servers and up to two changes: every request once, no client idle on a connection, the program ends or is stuck in a named way |
| ServiceDiscovery | ServiceDiscovery | holds, 634,306 states | two methods, two instances, two changes, one overwrite, one failed call or lost session: a change goes unnoticed only behind a failed list of that method, the worker's cache is fresh unless its own calls failed, changes reach the cache or such a failure |
| DiscoveryStaleInit | ServiceDiscovery | violated | `init` overwrites a newer list with its older one |
| DiscoveryNoInstance | ServiceDiscovery | violated | `pickHost` returns an empty or unwritten host |
| RpcServer | MCRpcServer | holds, 204,793 states | two servers, two starts each, one fault: registrations last, the race leaves a winner, an ended server left no node, the service comes up once there is a session, SIGINT ends the process unless it is still waiting for one |
| ServerRegistrationRace | MCRpcServer | violated | of two servers started together one exits |
| ServerCleanup | MCRpcServer | violated | `Cleanup` deletes nothing |
| ServerUnlisted | MCRpcServer | violated | a server serves on a live session and is never listed |

Each violated run checks one sentence of README.md against the code; `PROJECT.json`
quotes it.

**Bounds.** Each is a constant and appears in a guard. *RpcChannel*: ids collide, or
answers are swapped, only between two calls, so two are enough to see it; three
connections allow a late reply, a late closure and a reconnect in one behaviour.
*ConnectionPool*: more threads than connections by two, so a woken thread can be
overtaken while another one sleeps; two rounds let a thread come back and overtake.
*ServiceDiscovery*: two changes put one notification behind another and let an instance
leave and return while both threads read; the overwrite reaches the code for instance
nodes; one fault is a failed call, which may hit any call of either thread, or the end of
the session, after which every call fails; each method starts with one instance
(`AtFirst`), which may leave before or after it is listed, and the other may come. *RpcServer*: two servers race; two starts let a session outlive its process; one
fault at any point; one connection separates the two paths of `StopServer`. *RpcWire*:
all `onMessage` can tell of a piece is whether the length field and whether the message
are complete, so `Cuts = {2, 9}` (one inside each) and the ends of frames are all cases,
and a piece may hold several frames; `MaxLen = 60` stands for the 64 MB of
`kMaxMessageLen`, with one foreign frame above it that a correct sender would write too,
and `BadLengths = {3, 99}` lie on both sides of the valid ones; two calls can be swapped;
one foreign frame can stand before, between or behind them. *ClientProgram*: two clients
share cache and worker, two requests have a first and a last, and zero requests is
included; two changes are a server that leaves and one that comes, or the same one coming
back. The proofs
remove these bounds for the safety properties: they hold for every value.

**Deadlock** is not checked: the programs really come to rest (all calls over, all
threads finished, all servers ended). What must happen before is stated as liveness.

**Fairness.** Only steps that the code takes by itself are fair: a thread inside
`CallMethod` returns; loop, IO, pool and worker threads take what is in their queues;
the main thread goes on in `Run` and `init`; a thread that can take the pool's mutex
again and again gets it (weak fairness per thread: its critical section is enabled
continuously, since a step of another thread is atomic). No call, connection, break,
registration, signal, fault or restart is forced. Of `CallMethod` only the first step
is not fair. In `WireFairSpec` bytes that were written arrive (TCP) and both loops and the
service run; no call and no foreign frame is forced. In `ClientProgram` every thread runs,
a server that stays up answers and closes a half-closed connection, and the session of a
server that is down ends; ZooKeeper need never answer (`ZkStart` is not fair), and servers
need not come or go. In `RpcServer` the answer to a server that waits for its session is
not fair either (`SessionUp`). The sleeps of one and thirty seconds end.

**Liveness** checked: `Answered` (RpcChannel), `AllServed` (ConnectionPool),
`ChangesReachCache` (ServiceDiscovery), `SomeoneServes` and `StopEnds` (RpcServer),
`Answered` (RpcWire), `EndsUnlessStuck` (ClientProgram). The exceptions they name are what
the code does: `Answered` of RpcWire excepts a process that is gone, an end that refused
to read on, and a message that lingers behind a header that did not parse, with no byte
behind it; `EndsUnlessStuck` excepts a ZooKeeper that does not answer, a connector that
tries a place without a server for ever, the parallel client of no requests, and a worker
that cannot be woken. `ChangesReachCache` excepts an overwrite of node data, the end of the
session or of the process, and hosts stored from a reading in which a call failed: no
watch is left then and nothing is repeated, so the cache stays wrong until the next event
of that method, although README.md:88 calls the update automatic. `StopEnds` excepts the
wait for the session: a SIGINT that comes then is acted on once the session is there, and
never if ZooKeeper does not answer, so that the process README.md:324 says is stopped
stays. `AllServed` is about threads that come back a bounded number of times: it shows that
no wakeup is lost, not that nobody is overtaken for ever. `Answered` of RpcChannel starts at
a request on its way; a `send` on a connection that is already gone is not one. `Answered`
of both modules except requests that the server refuses without a reply.
`ResponseIntact` and `SuccessMeansAccepted` are about the servers of this repository: a
foreign one may leave out the result, whose errcode is 0 by default, and the clients count
that as a success.

## 4. Proofs

The theorems are listed in `PROJECT.json`. The proofs about a component with a state
follow one pattern: an inductive invariant is established by the initial states and
preserved by every action, one lemma per action, which one lemma for the next-state
relation combines; the properties follow from it. For `RpcChannel`, `RpcServer`,
`ServiceDiscovery` and `ConnectionPool` it is `IInv` of the component's module, which TLC
checks in the run too; for `Framing`, `RpcWire` and `ClientProgram` it is `IInv` or
`WireInv` of the proof module.

- **RpcChannel.** The invariant says where a call's only message can be. An id belongs to
  one call (`IdInv`); the map holds exactly the registered calls that are neither
  completed nor being handled (`MapInv`); a call has at most one message among requests,
  tasks and responses, carrying its id (`FlightInv`); executions and completions are 0 or
  1, in that order (`ProgressInv`). Hence a reply finds its own call. Without `MapInv`,
  `AnswersMatch` is not inductive: a state could hold a wrong entry under the right id.
  `Refinement` maps each action to an action of `RpcCalls` or to a stutter.
  `PendingCountsChannels` needs that `1..MaxConn` is finite.
- **ConnectionPool.** `Bookkeeping` ties a thread's state to its connection; the counting
  argument for `NoLostWakeup` is that a release adds one connection and one woken thread
  (if one waits), and that a woken thread gives up its place only by taking a connection
  or by finding none. It needs a finite set of threads (`ThreadsAssumption`).
- **ServiceDiscovery.** `WatchCovered` is inductive with `DataInv`: a call that works sets
  the watch in the step that reads the list, one that fails makes the method blind, and
  nothing but a change or the end of the session takes a watch away. `WorkerCacheFresh`
  does not follow from it, since `init` may fail on a method that the worker has read
  (blind, yet watched): `WorkerWatched` says that what the worker reads or stored without a
  failure is watched all the same, and `WorkerReadsFresh` that, unless a newer notification
  is under way, the part of the list it read so far is still true.
- **Framing.** `PipeInv` says that the frames lie one behind the other, that each is as
  long as its length says unless that is not valid, and that the reader is at the first
  byte of the frame after those it took; without the second part `Aligned` is not
  inductive, since the reader moves by the length it read. `AtReader` concludes that the
  frame at the reader's position is the next one, which gives `NothingLingers` and, step by
  step, the refinement of `OrderedPipe` (`NextRefines`). Bodies and `Parses` are
  parameters: the theorems hold for any codec.
- **Messages.** No state, but laws, for every message type of at most 15 fields (their
  tags are one byte) and every well-formed message: fields of their kinds' values, at most
  one level of embedding, bytes shorter than `Limit`, and unknown fields that are complete
  and really unknown. New messages are well-formed, setting a field to a value of its kind
  keeps that, and so does parsing, whatever the bytes (`ParsedIsWellFormed`): the
  hypothesis excludes no message that came out of a parser. A field that was written is read
  back as the token it was written from. Hence parsing the bytes behind a written message
  goes on from that message merged into the object; this is shown for messages without
  embedded ones, then for one field that embeds a message, then for all, and gives round
  trip, copy and the law that concatenation merges. For `ParsedIsWellFormed` the bytes not
  yet read bound what an embedded message, into which several fields may be merged, can
  still grow by. The functions are defined by recursion over numbers and over ever shorter
  sequences; the library's induction theorems take an operator and cannot be used, so
  each induction is over the set of the numbers for which the statement holds
  (`SetInduction`).
- **RpcWire.** `WireImplementsFraming`: every step of the composition is a step of
  `Framing` or leaves the pipes alone, so that the theorems on `Framing` hold of it.
  `WireInv` adds what the bytes stand for: the frames going up are the calls of this
  client or those listed for a foreign one; unless the server is a foreign one, a frame
  going down is the answer to some call with a response that was built for it
  (`RepliesAreBuilt`). Without that `ResponseIntact` is not inductive: the stream
  could hold an answer nobody gave. The headers, arguments and responses the programs
  build, or parse from foreign bytes, are well-formed and short, so that an answer is
  parsed into what was filled in, and all that is in the streams keeps the laws
  (`CodecLaws`). On the run's instance `WireInv` holds in all 57,535 states.
- **ClientProgram.** For each client `Linked` relates its place, its connection and the
  counter to the answers it had; `OneByOne` says of the serial and the reconnecting client,
  and `AllAtOnce` of the parallel one, which calls are in flight in which place. With the
  places in the invariant, the two properties can be read off it.
- **RpcServer.** `SessionInv`: an ephemeral node belongs to an open session of its
  server, and a clean end closes the session. `RegisterInv`: `Run` has recorded every
  method before `at[i]`, and while the session lives the node is there or was skipped.
  While a server waits for its session
  it has recorded nothing. `NoFaultInv`: without faults the nodes before `at[i]` exist, and a server that lost a
  race, or is about to, did not create the latest node; so its creator is still there.

Assumptions of the theorems: the named ASSUMEs of the modules, all evaluated by TLC on
the runs: bounds are naturals, special values are not among the ordinary ones, the
pool's sizes are ordered (the constructor does not check it; both its callers pass
equal sizes), the threads are finitely many, a method node comes after its service. In
`RpcWire` there are two more: `CallsAssumption`, that the calls can be numbered by `id_`, a
signed number of 64 bits, and `BodiesAssumption`, that the two parameters `Framing` leaves
open are the bodies of this connection and whether their header parses.

Only model-checked: the liveness properties `Answered` (of both modules), `AllServed`,
`ChangesReachCache`, `SomeoneServes`, `StopEnds` and `EndsUnlessStuck`, since fairness is
out of the provers' reach. Every safety property of a passing run has a theorem.

## 5. Not modelled

- The query and its result, logging, the syntax of options and configuration file, the
  numbers the stress tests print.
- `RpcServer::NotifyService`, which fills the tables before `Run`: nothing runs beside it. The members' order of destruction against the IO threads, and a connection that
  was accepted but not yet counted by `OnConnection`: both are inside muduo or after every
  property of `RpcServer` is decided.
- The signal handler interrupts `Run` between two of its steps only; that it takes a mutex
  the interrupted thread may hold, or walks a vector that is being extended, is undefined
  behaviour inside one thread.
- A service or method that is first registered after `init` listed them: the set of method
  nodes is fixed.
- `ZkClient::Start`'s global flag, mutex and condition variable: one client per process
  cannot tell them from fields. `Delete` and `Close` have no caller on a started client.
- `QueryServiceHost` has no caller. `RpcController` holds two fields; what `SetFailed`
  means for a call is `failed` in `RpcChannel`.
- Of the generated code: descriptors and reflection, arenas, swapping, and accessors
  nobody calls; `RegisterResponse`, which nobody fills in, is laid out like
  `LoginResponse`.
- Undefined behaviour is a choice among its likely outcomes (`RunTaskLate`,
  `ConstructMembers`, `ZkWatcher` after the queue is gone, `Misdirected`), not all of them.
- Implementations of muduo, protobuf's library and ZooKeeper: their steps that the code
  relies on are marked external in `PROJECT.json`.
